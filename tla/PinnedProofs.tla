---------------------------- MODULE PinnedProofs ----------------------------
(***************************************************************************)
(* Ingest with a pinned first checkpoint: it never leaves a hole below its *)
(* watermark, implements RangeIngest, keeps what cf_object_last_seen and   *)
(* progress.json claim and writes key files of whole lines, for every      *)
(* source, every set of command lines that share First and every number of *)
(* runs.                                                                   *)
(*                                                                         *)
(* The steps of a process are those of IngestProofs, with First for        *)
(* `from`; what is left here is that every run starts at First and that a  *)
(* crash leaves the database alone.                                        *)
(***************************************************************************)
EXTENDS PinnedIngest, IngestProofs

LEMMA StartsAtFirst == \A c \in Invocations : c.first = First
BY PinnedAssumption

LEMMA CrashKeeps ==
  ASSUME IInv(First), Crash
  PROVE  IInv(First)'
<1>1. TypeOK /\ PinnedTo(First) /\ RangeInv(First)
  BY DEF IInv
<1>2. CoveredFrom(First)'
  BY <1>1 DEF Crash, dbVars, RangeInv, CoveredFrom
<1>3. PinnedTo(First)'
  BY <1>1 DEF Crash, ProcessGone, PinnedTo
<1> QED
  BY <1>1, <1>2, <1>3, TypeCrash, RangeGone DEF Crash, IInv

LEMMA InvariantHolds == Spec => []IInv(First)
<1>1. Init => IInv(First)
  <2>1. Init => PinnedTo(First)
    BY PinnedAssumption DEF Init, PinnedTo
  <2> QED
    BY <2>1, TypeInit, RangeInit DEF IInv
<1>2. IInv(First) /\ [Next]_vars => IInv(First)'
  <2> SUFFICES ASSUME IInv(First), [Next]_vars
               PROVE  IInv(First)'
    OBVIOUS
  <2>1. CASE Start \/ Rerun
    BY <2>1, StartsAtFirst, BeginKeeps DEF Start, Rerun
  <2>2. CASE UNCHANGED vars
    <3>1. TypeOK' /\ ControlInv'
      BY TypeNext DEF IInv
    <3>2. PinnedTo(First)' /\ RangeInv(First)'
      BY <2>2 DEF IInv, PinnedTo, RangeInv, CoveredFrom, BatchFrom, Finalizing,
                  vars, sinkVars, dbVars, procVars
    <3> QED
      BY <3>1, <3>2 DEF IInv
  <2> QED
    BY <2>1, <2>2, RunningKeeps, CrashKeeps DEF Next
<1> QED
  BY <1>1, <1>2, PTL DEF Spec

(* However the runs fail and resume, no checkpoint from First to the       *)
(* watermark is missing from the database.                                 *)
THEOREM WatermarkCovers == Spec => []WatermarkCoversRange
<1>1. IInv(First) => WatermarkCoversRange
  BY DEF IInv, RangeInv, WatermarkCoversRange
<1> QED
  BY <1>1, InvariantHolds, PTL

(* A run that ends well has stored the whole range cf_meta announces.      *)
THEOREM DoneStored == Spec => []DoneRangeStored
<1>1. IInv(First) => DoneRangeStored
  <2> SUFFICES ASSUME IInv(First), pc = "done"
               PROVE  /\ meta.rangeStart = cli.first /\ meta.rangeEnd = cli.last
                      /\ cli.first..cli.last \subseteq stored
    BY DEF DoneRangeStored
  <2>1. cli.first = First
    BY PinnedCli DEF IInv, ControlInv
  <2> QED
    BY <2>1 DEF IInv, RangeInv
<1> QED
  BY <1>1, InvariantHolds, PTL

-----------------------------------------------------------------------------
(* What the abstract ingest promises, and the refinement, step by step.    *)

LEMMA RangeIsOne == Abstract!RangeAssumption
BY PinnedAssumption, IngestAssumption, SinkAssumption
DEF Abstract!RangeAssumption, Abstract!Checkpoints, Checkpoints, SinkAssumption

Promise == Abstract!TypeOK /\ Abstract!Covered

LEMMA PromiseKept == Promise /\ [Abstract!Next]_(Abstract!rangeVars) => Promise'
<1> USE DEF Abstract!Checkpoints
<1> SUFFICES ASSUME Promise, [Abstract!Next]_(Abstract!rangeVars)
             PROVE  Promise'
  OBVIOUS
<1>1. CASE Abstract!Next
  <2>1. PICK lo \in Abstract!Checkpoints, hi \in Abstract!Checkpoints : Abstract!Advance(lo, hi)
    BY <1>1 DEF Abstract!Next
  <2>2. Abstract!TypeOK'
    BY <2>1, RangeIsOne DEF Promise, Abstract!TypeOK, Abstract!Advance, Abstract!RangeAssumption
  <2>3. \A n \in First..hi : n \in First..(lo - 1) \/ n \in lo..hi
    BY RangeIsOne DEF Abstract!RangeAssumption
  <2>4. Abstract!Covered'
    BY <2>1, <2>3 DEF Abstract!Advance, Abstract!Covered
  <2> QED
    BY <2>2, <2>4 DEF Promise
<1>2. CASE UNCHANGED Abstract!rangeVars
  BY <1>2 DEF Abstract!rangeVars, Promise, Abstract!TypeOK, Abstract!Covered
<1> QED
  BY <1>1, <1>2

(* Everything from First to the watermark is in the abstract dataset: a    *)
(* block may be written again and move the watermark back, but never over  *)
(* a gap.                                                                  *)
THEOREM AbstractCovered == Abstract!Spec => []Abstract!Covered
<1>1. Abstract!Init => Promise
  BY DEF Abstract!Init, Promise, Abstract!TypeOK, Abstract!Covered
<1>2. Promise => Abstract!Covered
  BY DEF Promise
<1> QED
  BY <1>1, <1>2, PromiseKept, PTL DEF Abstract!Spec

LEMMA RefineInit == Init => Abstract!Init
BY DEF Init, Abstract!Init

LEMMA RefineNext == IInv(First) /\ [Next]_vars => [Abstract!Next]_(Abstract!rangeVars)
<1> SUFFICES ASSUME TypeOK, ControlInv, PinnedTo(First), RangeInv(First), [Next]_vars
             PROVE  [Abstract!Next]_(Abstract!rangeVars)
  BY DEF IInv
<1>1. CASE CommitBatch
  <2>1. PICK lo \in Checkpoints :
          /\ First <= lo /\ lo <= seq /\ seq \in Checkpoints
          /\ First..(lo - 1) \subseteq stored
          /\ stored' = stored \cup lo..seq
          /\ meta'.watermark = seq
    BY <1>1, CommitAdvances
  <2>2. Abstract!Advance(lo, seq)
    BY <2>1 DEF Abstract!Advance
  <2>3. lo \in Abstract!Checkpoints /\ seq \in Abstract!Checkpoints
    BY <2>1 DEF Abstract!Checkpoints, Checkpoints
  <2> QED
    BY <2>2, <2>3 DEF Abstract!Next
<1>2. CASE ~CommitBatch
  <2>1. stored' = stored /\ meta'.watermark = meta.watermark
    <3>1. CASE Start \/ Rerun
      BY <3>1 DEF Start, Rerun, Begin, dbVars
    <3>2. CASE PersistRunMetadata
      BY <3>2 DEF PersistRunMetadata, RunMetadata, TypeOK, Meta
    <3>3. CASE PersistFinalMetadata
      BY <3>3 DEF PersistFinalMetadata, RunMetadata, TypeOK, Meta
    <3>4. CASE FetchCheckpoint \/ AppendKey \/ FlushProgress \/ FinalizeKeys \/ FinishManifest
      BY <3>4 DEF FetchCheckpoint, AppendKey, FlushProgress, FinalizeKeys, FinishManifest, dbVars
    <3>5. CASE Crash
      BY <3>5 DEF Crash, ProcessGone, dbVars
    <3>6. CASE UNCHANGED vars
      BY <3>6 DEF vars, dbVars
    <3> QED
      BY <1>2, <3>1, <3>2, <3>3, <3>4, <3>5, <3>6 DEF Next, Running
  <2> QED
    BY <2>1 DEF Abstract!rangeVars
<1> QED
  BY <1>1, <1>2

(* The ingest implements the abstract one: with a pinned first checkpoint  *)
(* the database grows by blocks that leave no gap, whatever the process    *)
(* goes through between two commits.                                       *)
THEOREM Refinement == Spec => ImplementsRangeIngest
<1>1. Spec => Abstract!Spec
  BY RefineInit, RefineNext, InvariantHolds, PTL DEF Spec, Abstract!Spec
<1> QED
  BY <1>1 DEF ImplementsRangeIngest

-----------------------------------------------------------------------------
(* cf_object_last_seen and the key files.                                  *)

LEMMA SeenInvariant == Spec => []SeenInv(First)
<1>1. Init => SeenInv(First)
  BY SeenInit
<1>2. IInv(First) /\ SeenInv(First) /\ [Next]_vars => SeenInv(First)'
  <2> SUFFICES ASSUME IInv(First), SeenInv(First), [Next]_vars
               PROVE  SeenInv(First)'
    OBVIOUS
  <2>1. CASE Start \/ Rerun
    BY <2>1, StartsAtFirst, SeenBegin DEF Start, Rerun
  <2>2. CASE Crash
    <3>1. LastSeenFrom(First)'
      BY <2>2 DEF Crash, dbVars, SeenInv, LastSeenFrom
    <3> QED
      BY <2>2, <3>1, SeenGone DEF Crash
  <2>3. CASE UNCHANGED vars
    <3>1. op' = op /\ UNCHANGED <<stored, lastSeen, batch, meta, pc, seq>>
      BY <2>3 DEF vars, sinkVars, dbVars, procVars
    <3> QED
      BY <3>1, SeenKept DEF SeenInv, SeenThrough, LastWrite
  <2> QED
    BY <2>1, <2>2, <2>3, SeenRunning DEF Next
<1> QED
  BY <1>1, <1>2, InvariantHolds, PTL DEF Spec

(* cf_object_last_seen is never behind the watermark, and its records are  *)
(* those of checkpoints that are stored and touched the object: the last   *)
(* write a batch aggregates wins over the one before it, also when a run   *)
(* without --resume writes an earlier part of the range again.             *)
THEOREM LastSeenKept == Spec => []LastSeenUpToWatermark
<1>1. SeenInv(First) => LastSeenUpToWatermark
  BY DEF SeenInv, LastSeenUpToWatermark
<1> QED
  BY <1>1, SeenInvariant, PTL

LEMMA KeyInvariant == Spec => []KeyInv(First)
<1>1. Init => KeyInv(First)
  BY KeyInit
<1>2. IInv(First) /\ KeyInv(First) /\ [Next]_vars => KeyInv(First)'
  <2> SUFFICES ASSUME IInv(First), KeyInv(First), [Next]_vars
               PROVE  KeyInv(First)'
    OBVIOUS
  <2>1. CASE Start \/ Rerun
    BY <2>1, StartsAtFirst, KeyBegin DEF Start, Rerun
  <2>2. CASE UNCHANGED vars
    BY <2>2 DEF vars, sinkVars, dbVars, procVars, KeyInv, FlushedFrom, CompletedFrom,
                KeysThrough, SortedThrough, Owed, Sorted, Finalizing
  <2> QED
    BY <2>1, <2>2, KeyRunning, KeyGone DEF Next, Crash
<1> QED
  BY <1>1, <1>2, InvariantHolds, PTL DEF Spec

(* No key of a checkpoint up to last_flushed_checkpoint is missing from    *)
(* the raw files, wherever a run was killed, between a text and its        *)
(* newline too.                                                            *)
THEOREM FlushedIsLogged == Spec => []KeyProgressCovered
<1>1. KeyInv(First) => KeyProgressCovered
  BY DEF KeyInv, KeyProgressCovered
<1> QED
  BY <1>1, KeyInvariant, PTL

(* While progress.json says completed, the sorted files hold every key of  *)
(* the checkpoints it names, even after a later run began to append.       *)
THEOREM CompletedHolds == Spec => []CompletedIsComplete
<1>1. KeyInv(First) => CompletedIsComplete
  BY DEF KeyInv, CompletedIsComplete
<1> QED
  BY <1>1, KeyInvariant, PTL

(* What a run believes done is done: the part of its range it skips is in  *)
(* the database, and in the raw files when it keeps key files.             *)
THEOREM SkippedIsDone == Spec => []ResumePointCovered
<1>1. IInv(First) /\ KeyInv(First) => ResumePointCovered
  <2> SUFFICES ASSUME IInv(First), KeyInv(First), pc = "meta", NEW n \in cli.first..(seq - 1)
               PROVE  /\ n \in stored
                      /\ cli.keys => \A f \in Files : \A k \in Emits[f][n] : Logged(raw[f], k)
    BY DEF ResumePointCovered
  <2>1. cli.first = First
    BY PinnedCli DEF IInv, ControlInv
  <2>2. First..(seq - 1) \subseteq stored
    BY DEF IInv, RangeInv
  <2>3. cli.keys => KeysThrough(First, seq - 1)
    BY DEF KeyInv
  <2> QED
    BY <2>1, <2>2, <2>3 DEF KeysThrough
<1> QED
  BY <1>1, KeyInvariant, InvariantHolds, PTL

-----------------------------------------------------------------------------
(* Whole lines, as long as no process dies between a text and its newline. *)

LEMMA LineInvariant ==
  ASSUME ~KillMidLine
  PROVE  Spec => []LineInv
<1>1. IInv(First) /\ LineInv /\ [Next]_vars => LineInv'
  <2> SUFFICES ASSUME IInv(First), LineInv, [Next]_vars
               PROVE  LineInv'
    OBVIOUS
  <2>1. CASE Start \/ Rerun
    BY <2>1, LineBegin DEF Start, Rerun
  <2>2. CASE Crash
    BY <2>2, LineGone DEF Crash, dbVars
  <2>3. CASE UNCHANGED vars
    <3>1. UNCHANGED <<raw, out, writing, op, batchKeys, stored, batch>>
      BY <2>3 DEF vars, sinkVars, dbVars, procVars
    <3> QED
      BY <3>1, LineKept DEF LineInv
  <2> QED
    BY <2>1, <2>2, <2>3, LineRunning DEF Next
<1> QED
  BY <1>1, LineInit, InvariantHolds, PTL DEF Spec

(* Each line of a key file is a key the database answers, as long as no    *)
(* process is killed between the text of a line and its newline.           *)
THEOREM EveryLineHits ==
  ASSUME ~KillMidLine
  PROVE  Spec => []KeysHitDb
<1>1. LineInv => KeysHitDb
  BY DEF LineInv, KeysHitDb, Hit
<1> QED
  BY <1>1, LineInvariant, PTL

(* The key files of a run that ends well have a line of its own for every  *)
(* key of the range, under the same condition.                             *)
THEOREM EveryKeyHasItsLine ==
  ASSUME ~KillMidLine
  PROVE  Spec => []DoneKeysComplete
<1>1. IInv(First) /\ KeyInv(First) /\ LineInv => DoneKeysComplete
  <2> SUFFICES ASSUME IInv(First), KeyInv(First), LineInv, pc = "done", cli.keys,
                      NEW n \in cli.first..cli.last, NEW f \in Files, NEW k \in Emits[f][n]
               PROVE  <<k>> \in out[f]
    BY DEF DoneKeysComplete
  <2>1. cli.first = First
    BY PinnedCli DEF IInv, ControlInv
  <2>2. Logged(raw[f], k) /\ out[f] = ReadLines(raw[f])
    BY <2>1 DEF KeyInv, KeysThrough, Sorted
  <2>3. PICK l \in ReadLines(raw[f]) : \E i \in DOMAIN l : l[i] = k
    BY <2>2 DEF Logged
  <2>4. PICK x : l = <<x>>
    BY <2>3 DEF LineInv, Hit, ReadLines
  <2>5. x = k
    BY <2>3, <2>4
  <2> QED
    BY <2>2, <2>3, <2>4, <2>5
<1> QED
  BY <1>1, KeyInvariant, LineInvariant, InvariantHolds, PTL

(* A key file, once written, only gains lines, over failures and reruns    *)
(* with other ends of the range, under the same condition.                 *)
THEOREM FilesOnlyGrow ==
  ASSUME ~KillMidLine
  PROVE  Spec => KeyFilesGrow
<1>1. IInv(First) /\ LineInv /\ [Next]_vars => [\A f \in Files : out[f] \subseteq out'[f]]_vars
  <2> SUFFICES ASSUME IInv(First), LineInv, Next, NEW f \in Files
               PROVE  out[f] \subseteq out'[f]
    OBVIOUS
  <2>1. CASE FinalizeKeys
    <3>1. out'[f] = out[f] \/ out'[f] = ReadLines(raw[f])
      BY <2>1 DEF FinalizeKeys, SortUnique, WriteCompleted, IInv, TypeOK, SinkTypeOK
    <3> QED
      BY <3>1 DEF LineInv, ReadLines
  <2>2. CASE ~FinalizeKeys
    BY <2>2 DEF Next, Start, Rerun, Begin, Running, PersistRunMetadata, FetchCheckpoint,
                CommitBatch, AppendKey, AppendText, AppendNewline, FlushProgress, WriteProgress,
                PersistFinalMetadata, FinishManifest, WriteManifest, Crash, ProcessGone,
                SinkExit, sinkDurable
  <2> QED
    BY <2>1, <2>2
<1> QED
  BY <1>1, LineInvariant, InvariantHolds, PTL DEF Spec, KeyFilesGrow
=============================================================================
