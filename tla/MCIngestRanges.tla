--------------------------- MODULE MCIngestRanges ---------------------------
(* Runs over different ranges into one database.                           *)
EXTENDS Ingest

MCKey == {"t"}
MCEmits == [f \in Files |-> [c \in Checkpoints |-> IF f = "tx_digests" THEN {"t"} ELSE {}]]

(* The second run asks for a range that begins below the first one's. *)
MCInvocations ==
  {[first |-> 1, last |-> 1, resume |-> TRUE, keys |-> FALSE, batch |-> 1],
   [first |-> 0, last |-> 1, resume |-> TRUE, keys |-> FALSE, batch |-> 1]}
=============================================================================
