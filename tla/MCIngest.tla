------------------------------ MODULE MCIngest ------------------------------
(* Small instances of PinnedIngest for TLC.                                *)
EXTENDS PinnedIngest

(* Checkpoint 1 and 3 touch object o1, checkpoint 2 touches o2; 1 and 3    *)
(* share an event type and have a version of their own; checkpoint 2 has    *)
(* two transactions; 0 is empty.                                           *)
MCEmits ==
  [f \in Files |->
     CASE f = "tx_digests"      -> [c \in Checkpoints |-> IF c = 2 THEN {"t1", "t2"} ELSE {}]
       [] f = "object_versions" -> [c \in Checkpoints |-> IF c = 1 THEN {"o1,1"}
                                                          ELSE IF c = 3 THEN {"o1,3"} ELSE {}]
       [] f = "object_ids"      -> [c \in Checkpoints |-> IF c \in {1, 3} THEN {"o1"}
                                                          ELSE IF c = 2 THEN {"o2"} ELSE {}]
       [] f = "event_types"     -> [c \in Checkpoints |-> IF c \in {1, 3} THEN {"e"} ELSE {}]]

MCKey == {"t1", "t2", "o1,1", "o1,3", "o1", "o2", "e"}

(* The script's command line and what may change between runs: the end of  *)
(* the range, the batch size, --resume, --bench-keys-dir.                  *)
MCInvocations ==
  {[first |-> First, last |-> MaxCheckpoint, resume |-> TRUE, keys |-> TRUE, batch |-> 2],
   [first |-> First, last |-> MaxCheckpoint, resume |-> TRUE, keys |-> FALSE, batch |-> 1],
   [first |-> First, last |-> MaxCheckpoint - 1, resume |-> TRUE, keys |-> TRUE, batch |-> 1],
   [first |-> First, last |-> MaxCheckpoint, resume |-> FALSE, keys |-> TRUE, batch |-> 1]}

MCOneInvocation ==
  {[first |-> First, last |-> MaxCheckpoint, resume |-> TRUE, keys |-> TRUE, batch |-> 2]}
=============================================================================
