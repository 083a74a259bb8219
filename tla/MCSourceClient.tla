--------------------------- MODULE MCSourceClient ---------------------------
(* Small instances of SourceClient for TLC.                                *)
EXTENDS SourceClient

MCDigests == <<"t1", "t2", "t3", "t4", "t5">>
=============================================================================
