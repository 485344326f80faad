------------------------------ MODULE DataBlock ------------------------------
(***************************************************************************)
(* The columnar DataBlock of src/tskv/src/tsm/block.rs: a tag and two      *)
(* parallel arrays ts and val.  Indexes are 0-based as in the code; the    *)
(* model's sequences are 1-based, so index i is position i + 1.  A Rust    *)
(* panic (index out of bounds, unwrap of None) is the value Panic.         *)
(*                                                                         *)
(* The spec is a computation: Init picks a list of input blocks, Merge     *)
(* runs DataBlock::merge_blocks on it and AppendBlocks runs                *)
(* DataBlock::append on its first two blocks.  Both results are compared   *)
(* with the reference merge of spec 4.4: timestamps ascending, the last    *)
(* write of a timestamp wins.                                              *)
(***************************************************************************)
EXTENDS Integers, Sequences, SequencesExt, FiniteSets

CONSTANTS
  Tags,          \* the DataBlock variants (U64, F64, ...)
  Ts,            \* timestamps
  Vals,          \* payload values
  MaxBlockLen,   \* bound on the length of an input block
  MaxBlocks,     \* bound on the number of blocks merged
  StrictInputs,  \* TRUE: input blocks are strictly sorted; FALSE: non-decreasing
  None,          \* Option::None
  Panic          \* the thread panicked

ASSUME MaxBlocks \in Nat \ {0} /\ StrictInputs \in BOOLEAN

(* DataBlock::new(size, field_type) for a known type.                      *)
NewBlock(tag) == [tag |-> tag, ts |-> <<>>, val |-> <<>>]

(* DataBlock::len                                                          *)
BlockLen(b) == Len(b.ts)

(* DataBlock::is_empty, as written: TRUE when the block has elements.      *)
IsEmpty(b) == BlockLen(b) > 0

(* Mutation variant of BlockInsert: the timestamp pushed before the       *)
(* variant is matched.                                                     *)
BlockInsertTsFirst(b, c) ==
  IF c.tag = b.tag THEN [b EXCEPT !.ts = Append(@, c.ts), !.val = Append(@, c.val)]
  ELSE [b EXCEPT !.ts = Append(@, c.ts)]

(* DataBlock::insert: append the cell when its variant is the block's.     *)
BlockInsert(b, c) ==
  IF c.tag = b.tag THEN [b EXCEPT !.ts = Append(@, c.ts), !.val = Append(@, c.val)]
  ELSE b

(* DataBlock::batch_insert                                                 *)
BatchInsert(b, cells) == FoldLeft(BlockInsert, b, cells)

(* DataBlock::get: the cell at index i, None past the end.                 *)
Get(b, i) ==
  IF BlockLen(b) <= i THEN None
  ELSE [tag |-> b.tag, ts |-> b.ts[i + 1], val |-> b.val[i + 1]]

(* DataBlock::set: overwrite index i; a cell of another variant is         *)
(* ignored; an index past the end panics.                                  *)
SetAt(b, i, c) ==
  CASE b = Panic          -> Panic
    [] c.tag # b.tag      -> b
    [] i >= BlockLen(b)   -> Panic
    [] OTHER              -> [b EXCEPT !.ts[i + 1] = c.ts, !.val[i + 1] = c.val]

(* Mutation variant of TimeRangeOf: ts[end] taken as the last timestamp. *)
TimeRangeOfEndInclusive(b, start, end) ==
  IF start >= BlockLen(b) \/ end >= BlockLen(b) THEN Panic
  ELSE <<b.ts[start + 1], b.ts[end + 1]>>

(* DataBlock::time_range(start, end): ts[start] and ts[end - 1]; an index  *)
(* out of bounds (or end = 0, which underflows usize) panics.              *)
TimeRangeOf(b, start, end) ==
  IF start >= BlockLen(b) \/ end = 0 \/ end > BlockLen(b) THEN Panic
  ELSE <<b.ts[start + 1], b.ts[end]>>

(* DataBlock::encode(start, end) up to the codec calls: the slices         *)
(* ts[start..end] and val[start..end] it hands to the timestamp and value  *)
(* encoders, alike for every variant; a range out of bounds panics.  The   *)
(* codecs are outside the repository; their round trip (spec 8) returns    *)
(* these slices.                                                           *)
Encode(b, start, end) ==
  IF start > end \/ end > BlockLen(b) THEN Panic
  ELSE [ts |-> SubSeq(b.ts, start + 1, end), val |-> SubSeq(b.val, start + 1, end)]

(* The while loop of DataBlock::append, writing into new_blk by set.       *)
RECURSIVE AppendLoop(_, _, _, _, _, _)
AppendLoop(self, other, i, j, k, new) ==
  IF i >= BlockLen(self) \/ j >= BlockLen(other) \/ new = Panic THEN new
  ELSE CASE self.ts[i + 1] < other.ts[j + 1] ->
              AppendLoop(self, other, i + 1, j, k + 1, SetAt(new, k, Get(self, i)))
         [] self.ts[i + 1] = other.ts[j + 1] ->
              AppendLoop(self, other, i + 1, j + 1, k + 1, SetAt(new, k, Get(other, j)))
         [] OTHER ->
              AppendLoop(self, other, i, j + 1, k + 1, SetAt(new, k, Get(other, j)))

(* DataBlock::append(&mut self, other): the new value of self, or Panic.   *)
(* new_blk is built with capacity only (length 0) and is dropped at the    *)
(* end; self is never assigned.                                            *)
AppendBlock(self, other) ==
  CASE IsEmpty(other)                               -> self
    [] self.tag # other.tag                         -> self
    [] TimeRangeOf(self, 0, BlockLen(self)) = Panic -> Panic
    [] TimeRangeOf(other, 0, BlockLen(other)) = Panic -> Panic
    [] AppendLoop(self, other, 0, 0, 0, NewBlock(self.tag)) = Panic -> Panic
    [] OTHER                                        -> self

(* DataBlock::rebuild_vec: refill every empty head from its block,         *)
(* advancing its offset even past the end, and find the least head         *)
(* timestamp (None when every head is empty).                              *)
RebuildVec(blocks, buf, offsets) ==
  LET n    == Len(blocks)
      buf2 == [i \in 1..n |-> IF buf[i] = None THEN Get(blocks[i], offsets[i]) ELSE buf[i]]
      off2 == [i \in 1..n |-> IF buf[i] = None THEN offsets[i] + 1 ELSE offsets[i]]
      hts  == {buf2[i].ts : i \in {k \in 1..n : buf2[k] # None}}
  IN  [buf |-> buf2, offsets |-> off2,
       min |-> IF hts = {} THEN None ELSE CHOOSE m \in hts : \A x \in hts : m <= x]

(* Mutation variant of TakenHead: the first head at the minimum kept.     *)
FirstTakenHead(hit) == CHOOSE i \in hit : \A k \in hit : i <= k

(* Lines 310-317: every head at the minimum is taken (emptied); data is    *)
(* left holding the last one taken.                                        *)
TakenHead(hit) == CHOOSE i \in hit : \A k \in hit : k <= i

(* The loop of DataBlock::merge_blocks: take every head at the minimum     *)
(* timestamp, insert the one kept.                                         *)
RECURSIVE MergeLoop(_, _, _, _)
MergeLoop(blocks, buf, offsets, res) ==
  LET rb == RebuildVec(blocks, buf, offsets)
  IN  IF rb.min = None THEN res
      ELSE LET hit == {i \in DOMAIN rb.buf : rb.buf[i] # None /\ rb.buf[i].ts = rb.min}
           IN  MergeLoop(blocks, [i \in DOMAIN rb.buf |-> IF i \in hit THEN None ELSE rb.buf[i]],
                         rb.offsets, BlockInsert(res, rb.buf[TakenHead(hit)]))

(* DataBlock::merge_blocks: one block is returned as it is, an empty list  *)
(* panics on unwrap, otherwise the loop runs into a block of the first     *)
(* block's type.                                                           *)
MergeBlocks(blocks) ==
  CASE Len(blocks) = 1 -> blocks[1]
    [] Len(blocks) = 0 -> Panic
    [] OTHER -> MergeLoop(blocks, [i \in DOMAIN blocks |-> None],
                          [i \in DOMAIN blocks |-> 0], NewBlock(blocks[1].tag))

(***************************************************************************)
(* Reference: the merge the spec (4.4, 8.7) asks for.  The output holds    *)
(* each timestamp of the inputs once, ascending, with the value of the     *)
(* last write of that timestamp: the last block that has it, and within    *)
(* the block its last position.                                            *)
(***************************************************************************)
MergeRef(blocks) ==
  LET keys    == SetToSortSeq(UNION {ToSet(blocks[k].ts) : k \in DOMAIN blocks}, <)
      LastK(t) == CHOOSE k \in DOMAIN blocks :
                    /\ t \in ToSet(blocks[k].ts)
                    /\ \A k2 \in DOMAIN blocks : t \in ToSet(blocks[k2].ts) => k2 <= k
      ValAt(b, t) == b.val[CHOOSE i \in DOMAIN b.ts :
                             b.ts[i] = t /\ \A i2 \in DOMAIN b.ts : b.ts[i2] = t => i2 <= i]
  IN  [tag |-> blocks[1].tag, ts |-> keys,
       val |-> [n \in DOMAIN keys |-> ValAt(blocks[LastK(keys[n])], keys[n])]]

(***************************************************************************)
(* The computation                                                         *)
(***************************************************************************)

(* The blocks a flush may hand over: sorted, and strictly so when          *)
(* StrictInputs.                                                           *)
Sorted(s) == IF StrictInputs THEN IsSorted(s, <) ELSE IsSorted(s, <=)
InputBlock ==
  UNION {{[tag |-> g, ts |-> s, val |-> v] : v \in [1..Len(s) -> Vals]}
           : g \in Tags, s \in {q \in BoundedSeq(Ts, MaxBlockLen) : Sorted(q)}}

VARIABLES
  input,     \* the list of blocks
  merged,    \* the result of merge_blocks, None before Merge
  appended   \* the result of append, None before AppendBlocks

vars == <<input, merged, appended>>

Init ==
  /\ input \in UNION {[1..n -> InputBlock] : n \in 1..MaxBlocks}
  /\ merged = None
  /\ appended = None

Merge ==
  /\ merged = None
  /\ merged' = MergeBlocks(input)
  /\ UNCHANGED <<input, appended>>

AppendBlocks ==
  /\ appended = None
  /\ Len(input) >= 2
  /\ appended' = AppendBlock(input[1], input[2])
  /\ UNCHANGED <<input, merged>>

Next == Merge \/ AppendBlocks

Spec == Init /\ [][Next]_vars

SameTag(bs) == \A k \in DOMAIN bs : bs[k].tag = bs[1].tag

TypeOK ==
  /\ \A k \in DOMAIN input : input[k] \in InputBlock
  /\ merged = None \/ (/\ merged.tag \in Tags /\ merged.ts \in Seq(Ts)
                      /\ merged.val \in Seq(Vals) /\ Len(merged.ts) = Len(merged.val))

(* Spec 4.4 and 8.7, and the test test_merge_blocks: merge_blocks of       *)
(* blocks of one type yields every timestamp once, ascending, with the     *)
(* value of the last block that has it.                                    *)
MergeIsLastWriterWins ==
  merged # None /\ SameTag(input) => merged = MergeRef(input)

(* Spec 4.4 and the doc comment of append: self becomes the merge of self  *)
(* and other, the later value winning on equal timestamps.                 *)
AppendIsLastWriterWins ==
  appended # None /\ SameTag(<<input[1], input[2]>>) =>
    appended = MergeRef(<<input[1], input[2]>>)
(* Spec 4.5 and 6: a reader selects index blocks by their [min_ts,        *)
(* max_ts].  For every chunk [start, end) of a merged block that a writer  *)
(* may encode, time_range(start, end) gives the least and the greatest     *)
(* timestamp encode(start, end) hands to the codec.  Needs merge_blocks'   *)
(* output in order and time_range's end - 1 to match encode's exclusive    *)
(* end.                                                                    *)
ChunkRangeMatchesEncoding ==
  merged \notin {None, Panic} =>
    \A start, end \in 0..BlockLen(merged) : start < end =>
      LET tr  == TimeRangeOf(merged, start, end)
          enc == Encode(merged, start, end)
      IN  /\ tr # Panic /\ enc # Panic
          /\ \A t \in ToSet(enc.ts) : tr[1] <= t /\ t <= tr[2]
=============================================================================
