---------------------------- MODULE RangeIngest -----------------------------
(***************************************************************************)
(* What a resumable ingest of a range that starts at First promises: the   *)
(* dataset only grows, it grows by blocks that never leave a gap above     *)
(* First, and the watermark names the end of the last block.               *)
(***************************************************************************)
EXTENDS Integers

CONSTANTS First, MaxCheckpoint, None

Checkpoints == 0..MaxCheckpoint

(* What the theorems about this module, and those who implement it, need.  *)
RangeAssumption ==
  MaxCheckpoint \in Nat /\ First \in Checkpoints /\ None \notin Nat

VARIABLES
  have,  \* the checkpoints in the dataset
  mark   \* the watermark

rangeVars == <<have, mark>>

Init ==
  /\ have = {}
  /\ mark = None

(* lo..hi becomes part of the dataset, and with it the watermark moves,    *)
(* forward or, when a block is written again, back.                        *)
Advance(lo, hi) ==
  /\ First <= lo /\ lo <= hi
  /\ First..(lo - 1) \subseteq have
  /\ have' = have \cup lo..hi
  /\ mark' = hi

Next == \E lo, hi \in Checkpoints : Advance(lo, hi)

Spec == Init /\ [][Next]_rangeVars

TypeOK ==
  /\ have \in SUBSET Checkpoints
  /\ mark \in Checkpoints \cup {None}

(* Everything from First to the watermark is in the dataset: the watermark *)
(* is all a later run needs to know.                                       *)
Covered == mark # None => First..mark \subseteq have
=============================================================================
