----------------------------- MODULE MCRouteOne -----------------------------
(* Small instances of RouteOne for TLC.                                    *)
EXTENDS RouteOne

(* Every checkpoint touches o, so the order of the writes shows in         *)
(* cf_object_last_seen; the last one has a transaction.                    *)
MCKey == {"o", "t"}
MCEmits ==
  [f \in Files |->
     CASE f = "tx_digests" -> [c \in Checkpoints |-> IF c = MaxCheckpoint THEN {"t"} ELSE {}]
       [] f = "object_ids" -> [c \in Checkpoints |-> {"o"}]
       [] OTHER            -> [c \in Checkpoints |-> {}]]

(* The node's latest checkpoint moves between runs of the script, and one  *)
(* of the two ranges may also be asked for.                                *)
MCLatest == {2, 3}
MCOptions ==
  [request : {None, [first |-> 1, last |-> 2]}, reset : BOOLEAN, compare : BOOLEAN]
MCInvocations == {CommandLine(r, k) : r \in Ranges, k \in BOOLEAN}

(* One latest checkpoint, one way to run the script.                       *)
MCOneLatest == {3}
MCOneOption == {[request |-> None, reset |-> FALSE, compare |-> TRUE]}
=============================================================================
