----------------------------- MODULE MCRawSync ------------------------------
(* Small instances of RawSync for TLC.                                     *)
EXTENDS RawSync

MCSource ==
  <<[at |-> <<"cf_meta", "k">>, value |-> "v1"],
    [at |-> <<"cf_checkpoint", "k">>, value |-> "v2"],
    [at |-> <<"cf_checkpoint", "l">>, value |-> "v3"],
    [at |-> <<"cf_tx_by_digest", "k">>, value |-> "v4"],
    [at |-> <<"cf_tx_by_digest", "m">>, value |-> "v5"]>>

(* Empty; a stale row under a key of the source; a row under another key.  *)
MCTargets ==
  {[a \in {} |-> 0],
   [a \in {<<"cf_meta", "k">>} |-> "old"],
   [a \in {<<"cf_meta", "z">>} |-> "old"]}
=============================================================================
