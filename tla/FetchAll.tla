------------------------------ MODULE FetchAll ------------------------------
(***************************************************************************)
(* What a fetch of a checkpoint's transaction blocks promises its caller,  *)
(* whatever requests it takes: the blocks arrive in the order they were    *)
(* asked for, none is skipped, and the caller is told in the end that it   *)
(* has all of them or that the fetch failed.                               *)
(***************************************************************************)
EXTENDS Integers, Sequences

CONSTANT Items

VARIABLES
  got,   \* the blocks fetched
  ended  \* "no", or how the fetch ended

fetchVars == <<got, ended>>

Init ==
  /\ got = <<>>
  /\ ended = "no"

(* The next blocks arrive, up to the n-th: with the last one it is done.   *)
Deliver(n) ==
  /\ ended = "no"
  /\ Len(got) < n \/ n = Len(Items)
  /\ got' = SubSeq(Items, 1, n)
  /\ ended' = IF n = Len(Items) THEN "done" ELSE "no"

GiveUp ==
  /\ ended = "no"
  /\ ended' = "failed"
  /\ UNCHANGED got

Next == GiveUp \/ \E n \in 0..Len(Items) : Deliver(n)

Spec == Init /\ [][Next]_fetchVars
FairSpec == Spec /\ WF_fetchVars(Next)
=============================================================================
