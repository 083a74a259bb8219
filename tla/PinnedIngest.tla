---------------------------- MODULE PinnedIngest ----------------------------
(***************************************************************************)
(* Ingest as the benchmark scripts drive it: every run into one database   *)
(* and one key directory starts at the same checkpoint                     *)
(* (scripts/run-route1-benchmark-server.sh pins FIRST_CHECKPOINT in        *)
(* run-config.env).  --resume, the end of the range, the batch size and    *)
(* whether a run keeps key files may all change from run to run.           *)
(***************************************************************************)
EXTENDS IngestFrom

CONSTANT First

ASSUME PinnedAssumption ==
  /\ First \in Checkpoints
  /\ \A c \in Invocations : c.first = First

-----------------------------------------------------------------------------
(* No checkpoint between the first and the watermark is missing, so a run  *)
(* that resumes from the watermark skips nothing.                          *)
WatermarkCoversRange == CoveredFrom(First)

(* No key of a checkpoint up to last_flushed_checkpoint is missing from    *)
(* the raw files, wherever a run was killed.                               *)
KeyProgressCovered == FlushedFrom(First)

(* While progress.json says completed, the sorted files hold every key of  *)
(* the checkpoints it names, even after a later run began to append.       *)
CompletedIsComplete == CompletedFrom(First)

(* cf_object_last_seen is never behind the watermark, and each record in   *)
(* it is of a checkpoint that is stored and touched the object.            *)
LastSeenUpToWatermark == LastSeenFrom(First)

-----------------------------------------------------------------------------
(* The refinement: the database and its watermark are a RangeIngest.       *)
Abstract == INSTANCE RangeIngest WITH have <- stored, mark <- meta.watermark

ImplementsRangeIngest == Abstract!Spec
=============================================================================
