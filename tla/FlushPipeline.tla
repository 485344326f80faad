---------------------------- MODULE FlushPipeline ----------------------------
(***************************************************************************)
(* What the write path of one time-series family promises about where a   *)
(* sample is, stated without caches, SuperVersions or watermarks.  A       *)
(* sample is resident in memory (live), in a batch handed to flush and not *)
(* yet written (queue, oldest batch first), or written to a file (disk).   *)
(*                                                                         *)
(*  - Ingest: a new sample becomes resident; in the same step any resident *)
(*    samples, the new one included, may be handed to flush as new batches *)
(*    at the end of the queue.                                             *)
(*  - Erase: every resident sample inside a closed range is dropped;       *)
(*    batches and files are untouched (spec 4.7.4 and section 9).          *)
(*  - Persist: the oldest batch is written to disk as it was handed over.  *)
(*                                                                         *)
(* A batch never changes while it waits, batches are written in the order  *)
(* they were handed over, and a sample never goes back to memory.          *)
(***************************************************************************)
EXTENDS Integers, Sequences, FiniteSets

CONSTANTS
  Samples,   \* every sample a behaviour may ingest
  Ranges     \* the closed ranges [min_ts, max_ts] a delete may name

VARIABLES
  live,      \* samples resident in memory
  queue,     \* batches (sets of samples) handed to flush, oldest first
  disk       \* samples written to files

vars == <<live, queue, disk>>

Queued == UNION {queue[k] : k \in DOMAIN queue}
Known  == live \cup Queued \cup disk

Init ==
  /\ live = {}
  /\ queue = <<>>
  /\ disk = {}

(* The batches appended by the current step.                               *)
Appended == SubSeq(queue', Len(queue) + 1, Len(queue'))

Ingest(s) ==
  /\ s \notin Known
  /\ Len(queue') >= Len(queue)
  /\ SubSeq(queue', 1, Len(queue)) = queue
  /\ LET parts == <<live'>> \o Appended
     IN  /\ UNION {parts[k] : k \in DOMAIN parts} = live \cup {s}
         /\ \A j, k \in DOMAIN parts : j # k => parts[j] \cap parts[k] = {}
  /\ disk' = disk

Erase(r) ==
  /\ live' = {s \in live : s.ts < r.min_ts \/ s.ts > r.max_ts}
  /\ UNCHANGED <<queue, disk>>

Persist ==
  /\ queue # <<>>
  /\ disk' = disk \cup Head(queue)
  /\ queue' = Tail(queue)
  /\ live' = live

Next ==
  \/ \E s \in Samples : Ingest(s)
  \/ \E r \in Ranges : Erase(r)
  \/ Persist

Spec == Init /\ [][Next]_vars
=============================================================================
