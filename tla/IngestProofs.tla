---------------------------- MODULE IngestProofs ----------------------------
(***************************************************************************)
(* Type correctness of Ingest, for every source, every set of command      *)
(* lines and every number of runs, and what each step does to the          *)
(* invariants of runs that begin at the same checkpoint (IngestFrom), to   *)
(* the key files and to cf_object_last_seen: one lemma per action.         *)
(*                                                                         *)
(* TypeOK is not inductive alone: the rows of checkpoint seq are those of  *)
(* a checkpoint of the source because the loop stays in the range of the   *)
(* command line, which ControlInv says.  Nor is any of the properties.     *)
(* What is logged at a flush follows from what the loop owes at each step  *)
(* (Owed), what a finished run sorted from the raw files not changing      *)
(* while it sorts (KeyInv), and that a line is one key from no process     *)
(* dying between a text and its newline (LineInv, which needs              *)
(* ~KillMidLine).                                                          *)
(***************************************************************************)
EXTENDS IngestFrom, SequenceTheorems, TLAPS

(* Every command line is well typed.                                       *)
LEMMA InvocationType ==
  ASSUME NEW c \in Invocations
  PROVE  /\ c.first \in Checkpoints /\ c.last \in Checkpoints /\ c.first <= c.last
         /\ c.resume \in BOOLEAN /\ c.keys \in BOOLEAN /\ c.batch \in Nat \ {0}
BY IngestAssumption

(* The checkpoint a run starts from is a number not below its first.       *)
LEMMA EffectiveFirstType ==
  ASSUME TypeOK, NEW c \in Invocations
  PROVE  EffectiveFirst(c) \in Nat /\ c.first <= EffectiveFirst(c)
<1> DEFINE done == CompletedCheckpoint(c)
<1>1. c.first \in Nat
  BY InvocationType DEF Checkpoints
<1>2. meta.watermark \in Nat \cup {None}
  BY DEF TypeOK, Meta, Opt, Checkpoints
<1>3. KeyWatermark(c) \in Nat \cup {None}
  BY DEF TypeOK, SinkTypeOK, Progress, KeyWatermark
<1>4. done \in Nat \cup {None}
  BY <1>2, <1>3 DEF CompletedCheckpoint, Lesser
<1>5. CASE ~c.resume \/ done = None
  BY <1>1, <1>5 DEF EffectiveFirst
<1>6. CASE c.resume /\ done # None
  <2>1. EffectiveFirst(c) = Greater(done + 1, c.first)
    BY <1>6 DEF EffectiveFirst
  <2> QED
    BY <2>1, <1>1, <1>4, <1>6 DEF Greater
<1> QED
  BY <1>5, <1>6

LEMMA TypeInit == Init => TypeOK /\ ControlInv
<1> SUFFICES ASSUME Init PROVE TypeOK /\ ControlInv
  OBVIOUS
<1>1. SinkTypeOK
  <2>1. raw \in [Files -> RawFile]
    BY DEF Init, SinkInit, RawFile, Lines
  <2> QED
    BY <2>1 DEF Init, SinkInit, SinkIdle, SinkTypeOK, NoKeys, Lines
<1>2. TypeOK
  BY <1>1, IngestAssumption DEF Init, TypeOK, Meta, Opt, NoBatch, Steps
<1>3. ControlInv
  BY DEF Init, ControlInv, SinkInit, SinkIdle
<1> QED
  BY <1>2, <1>3

-----------------------------------------------------------------------------
(* One lemma per action: it keeps the types and the control invariant.     *)

LEMMA TypeBegin ==
  ASSUME TypeOK, ControlInv, pc \in {"down", "done"}, NEW c \in Invocations, Begin(c)
  PROVE  TypeOK' /\ ControlInv'
<1>1. op = "idle"
  BY DEF ControlInv
<1>2. SinkTypeOK'
  <2>1. raw' \in [Files -> RawFile]
    BY DEF Begin, TypeOK, SinkTypeOK, TouchRawFiles
  <2> QED
    BY <2>1 DEF Begin, TypeOK, SinkTypeOK, sinkVolatile
<1>3. seq' \in Nat
  BY EffectiveFirstType DEF Begin
<1>4. TypeOK'
  BY <1>2, <1>3 DEF Begin, TypeOK, dbVars, Opt, Steps
<1>5. ControlInv'
  BY <1>1 DEF Begin, ControlInv, sinkVolatile
<1> QED
  BY <1>4, <1>5

(* What persist_run_metadata writes is a cf_meta.                          *)
LEMMA RunMetadataType ==
  ASSUME TypeOK, cli \in Invocations, NEW t \in Opt(Nat)
  PROVE  RunMetadata(t) \in Meta
<1>1. cli.first \in Checkpoints /\ cli.last \in Checkpoints
  BY InvocationType
<1>2. (IF t = None THEN meta.totals ELSE t) \in Opt(Nat)
  BY DEF TypeOK, Meta
<1> QED
  BY <1>1, <1>2 DEF RunMetadata, TypeOK, Meta, Opt

LEMMA TypePersistRunMetadata ==
  ASSUME TypeOK, ControlInv, PersistRunMetadata
  PROVE  TypeOK' /\ ControlInv'
<1>1. pc = "meta" /\ cli \in Invocations /\ op = "idle"
  BY DEF PersistRunMetadata, ControlInv
<1>2. meta' \in Meta
  BY <1>1, RunMetadataType DEF PersistRunMetadata, Opt
<1>3. /\ op' \in {"idle", "sort"}
      /\ sorted' \in SUBSET Files
      /\ pc' \in {"sink", "done", "fetch"}
      /\ pc' = "sink" <=> op' # "idle"
      /\ pc' = "fetch" => seq <= cli.last
  <2>1. CASE seq > cli.last
    BY <2>1, <1>1 DEF PersistRunMetadata, EarlyReturn, Finish, BeginFinalize, TypeOK, SinkTypeOK
  <2>2. CASE ~(seq > cli.last)
    <3>1. seq <= cli.last
      BY <2>2, <1>1, InvocationType DEF TypeOK, Checkpoints
    <3> QED
      BY <3>1, <2>2, <1>1 DEF PersistRunMetadata, TypeOK, SinkTypeOK
  <2> QED
    BY <2>1, <2>2
<1>4. SinkTypeOK'
  BY <1>3 DEF PersistRunMetadata, TypeOK, SinkTypeOK
<1>5. TypeOK'
  BY <1>2, <1>3, <1>4 DEF PersistRunMetadata, TypeOK, Steps
<1>6. ControlInv'
  BY <1>1, <1>3 DEF PersistRunMetadata, ControlInv
<1> QED
  BY <1>5, <1>6

LEMMA TypeFetchCheckpoint ==
  ASSUME TypeOK, ControlInv, FetchCheckpoint
  PROVE  TypeOK' /\ ControlInv'
<1>1. /\ pc = "fetch" /\ cli \in Invocations /\ op = "idle"
      /\ seq <= cli.last
  BY DEF FetchCheckpoint, ControlInv
<1>2. cli.last \in Checkpoints /\ cli.batch \in Nat
  BY <1>1, InvocationType
<1>3. seq \in Checkpoints
  BY <1>1, <1>2, IngestAssumption DEF TypeOK, Checkpoints
<1>4. batch' \in [rows : SUBSET Checkpoints, seen : [Key -> Opt(Checkpoints)]]
  BY <1>3 DEF FetchCheckpoint, BatchRows, TypeOK, Opt
<1>5. batchKeys' \in [Files -> SUBSET Key]
  <2>1. \A f \in Files : Emits[f][seq] \in SUBSET Key
    BY <1>3, IngestAssumption
  <2> QED
    BY <2>1 DEF FetchCheckpoint, AddKeys, TypeOK, SinkTypeOK
<1>6. /\ pc' \in {"commit", "fetch"}
      /\ seq' \in Nat
      /\ seq' <= cli.last
  <2>1. CASE AtLast
    BY <2>1, <1>1 DEF FetchCheckpoint, TypeOK
  <2>2. CASE ~AtLast
    BY <2>2, <1>1, <1>2 DEF FetchCheckpoint, AtLast, TypeOK, Checkpoints
  <2> QED
    BY <2>1, <2>2
<1>7. SinkTypeOK'
  BY <1>5 DEF FetchCheckpoint, TypeOK, SinkTypeOK
<1>8. TypeOK'
  BY <1>4, <1>6, <1>7 DEF FetchCheckpoint, TypeOK, dbVars, Steps
<1>9. ControlInv'
  BY <1>1, <1>6 DEF FetchCheckpoint, ControlInv
<1> QED
  BY <1>8, <1>9

(* After a flush the loop goes on inside the range, or has ended.          *)
LEMMA NextTurnType ==
  ASSUME TypeOK, cli \in Invocations, seq <= cli.last, NextTurn
  PROVE  /\ batchKeys' = NoKeys
         /\ pending' = 0
         /\ pc' \in {"final", "fetch"}
         /\ seq' \in Nat
         /\ pc' = "fetch" => seq' <= cli.last
<1>1. cli.last \in Nat
  BY InvocationType DEF Checkpoints
<1> QED
  BY <1>1 DEF NextTurn, AtLast, TypeOK

LEMMA TypeCommitBatch ==
  ASSUME TypeOK, ControlInv, CommitBatch
  PROVE  TypeOK' /\ ControlInv'
<1>1. /\ pc = "commit" /\ cli \in Invocations /\ op = "idle"
      /\ seq <= cli.last
  BY DEF CommitBatch, ControlInv
<1>2. seq \in Checkpoints
  BY <1>1, InvocationType, IngestAssumption DEF TypeOK, Checkpoints
<1>3. lastSeen' \in [Key -> Opt(Checkpoints)]
  BY DEF CommitBatch, LastWrite, TypeOK
<1>4. meta' \in Meta
  BY <1>2 DEF CommitBatch, TypeOK, Meta, Opt
<1>5. batch' \in [rows : SUBSET Checkpoints, seen : [Key -> Opt(Checkpoints)]]
  BY DEF CommitBatch, NoBatch, Opt
<1>6. /\ pc' \in {"sink", "final", "fetch"}
      /\ op' \in {"idle", "append"}
      /\ pc' = "sink" <=> op' # "idle"
      /\ seq' \in Nat
      /\ pc' = "fetch" \/ op' = "append" => seq' <= cli.last
      /\ pending' \in Nat
      /\ batchKeys' \in [Files -> SUBSET Key]
  <2>1. CASE cli.keys
    BY <2>1, <1>1 DEF CommitBatch, BeginAppend, TypeOK, SinkTypeOK
  <2>2. CASE ~cli.keys
    <3>1. NextTurn /\ op' = op
      BY <2>2 DEF CommitBatch
    <3> QED
      BY <3>1, <1>1, NextTurnType DEF NoKeys
  <2> QED
    BY <2>1, <2>2
<1>7. SinkTypeOK'
  BY <1>6 DEF CommitBatch, TypeOK, SinkTypeOK
<1>8. TypeOK'
  BY <1>3, <1>4, <1>5, <1>6, <1>7 DEF CommitBatch, TypeOK, Steps
<1>9. ControlInv'
  BY <1>1, <1>6 DEF CommitBatch, ControlInv
<1> QED
  BY <1>8, <1>9

-----------------------------------------------------------------------------
(* The steps of the sink.                                                  *)

LEMMA TypeAppendKey ==
  ASSUME TypeOK, ControlInv, AppendKey
  PROVE  TypeOK' /\ ControlInv'
<1>1. CASE \E f \in Files, k \in Key : AppendText(f, k)
  <2> PICK f \in Files, k \in Key : AppendText(f, k)
    BY <1>1
  <2>1. raw' \in [Files -> RawFile]
    <3>1. raw[f] \in RawFile
      BY DEF TypeOK, SinkTypeOK
    <3>2. Append(raw[f].tail, k) \in Lines
      BY <3>1 DEF RawFile, Lines
    <3>3. raw' = [raw EXCEPT ![f] = [raw[f] EXCEPT !.tail = Append(raw[f].tail, k)]]
      BY DEF AppendText
    <3> QED
      BY <3>1, <3>2, <3>3 DEF TypeOK, SinkTypeOK, RawFile
  <2>2. batchKeys' \in [Files -> SUBSET Key]
    BY DEF AppendText, TypeOK, SinkTypeOK
  <2>3. SinkTypeOK'
    BY <2>1, <2>2 DEF AppendText, TypeOK, SinkTypeOK
  <2> QED
    BY <2>3 DEF AppendKey, AppendText, TypeOK, ControlInv, dbVars, procVars
<1>2. CASE AppendNewline
  <2>1. writing \in Files
    BY <1>2 DEF AppendNewline, TypeOK, SinkTypeOK
  <2>2. raw' \in [Files -> RawFile]
    <3>1. raw[writing] \in RawFile
      BY <2>1 DEF TypeOK, SinkTypeOK
    <3>2. [lines |-> raw[writing].lines \cup {raw[writing].tail}, tail |-> <<>>] \in RawFile
      BY <3>1 DEF RawFile, Lines
    <3> QED
      BY <1>2, <2>1, <3>2 DEF AppendNewline, TypeOK, SinkTypeOK
  <2>3. SinkTypeOK'
    BY <1>2, <2>2 DEF AppendNewline, TypeOK, SinkTypeOK
  <2> QED
    BY <1>2, <2>3 DEF AppendKey, AppendNewline, TypeOK, ControlInv, dbVars, procVars
<1> QED
  BY <1>1, <1>2 DEF AppendKey

LEMMA TypeFlushProgress ==
  ASSUME TypeOK, ControlInv, FlushProgress
  PROVE  TypeOK' /\ ControlInv'
<1>1. /\ pc = "sink" /\ op = "append" /\ cli \in Invocations
      /\ seq <= cli.last
  BY DEF FlushProgress, WriteProgress, ControlInv
<1>2. /\ pc' \in {"final", "fetch"}
      /\ batchKeys' = NoKeys
      /\ pending' \in Nat
      /\ seq' \in Nat
      /\ pc' = "fetch" => seq' <= cli.last
  BY <1>1, NextTurnType DEF FlushProgress
<1>3. progress' \in Progress
  <2>1. cli.first \in Nat /\ cli.last \in Nat
    BY <1>1, InvocationType DEF Checkpoints
  <2> QED
    BY <2>1 DEF FlushProgress, WriteProgress, ProgressOf, Progress, TypeOK
<1>4. SinkTypeOK'
  BY <1>2, <1>3 DEF FlushProgress, WriteProgress, TypeOK, SinkTypeOK, NoKeys
<1>5. TypeOK'
  BY <1>2, <1>4 DEF FlushProgress, TypeOK, dbVars, Steps
<1>6. ControlInv'
  BY <1>1, <1>2 DEF FlushProgress, WriteProgress, ControlInv
<1> QED
  BY <1>5, <1>6

LEMMA TypePersistFinalMetadata ==
  ASSUME TypeOK, ControlInv, PersistFinalMetadata
  PROVE  TypeOK' /\ ControlInv'
<1>1. pc = "final" /\ cli \in Invocations /\ op = "idle"
  BY DEF PersistFinalMetadata, ControlInv
<1>2. meta' \in Meta
  BY <1>1, RunMetadataType DEF PersistFinalMetadata, TypeOK, Opt
<1>3. /\ op' \in {"idle", "sort"}
      /\ sorted' \in SUBSET Files
      /\ pc' \in {"sink", "done"}
      /\ pc' = "sink" <=> op' # "idle"
  BY <1>1 DEF PersistFinalMetadata, Finish, BeginFinalize, TypeOK, SinkTypeOK
<1>4. SinkTypeOK'
  BY <1>3 DEF PersistFinalMetadata, TypeOK, SinkTypeOK
<1>5. TypeOK'
  BY <1>2, <1>3, <1>4 DEF PersistFinalMetadata, TypeOK, Steps
<1>6. ControlInv'
  BY <1>1, <1>3 DEF PersistFinalMetadata, ControlInv
<1> QED
  BY <1>5, <1>6

LEMMA TypeFinalizeKeys ==
  ASSUME TypeOK, ControlInv, FinalizeKeys
  PROVE  TypeOK' /\ ControlInv'
<1>1. CASE \E f \in Files : SortUnique(f)
  <2> PICK f \in Files : SortUnique(f)
    BY <1>1
  <2>1. ReadLines(raw[f]) \in SUBSET Lines
    <3>1. raw[f] \in RawFile
      BY DEF TypeOK, SinkTypeOK
    <3> QED
      BY <3>1 DEF ReadLines, RawFile
  <2>2. SinkTypeOK'
    BY <2>1 DEF SortUnique, TypeOK, SinkTypeOK
  <2> QED
    BY <2>2 DEF FinalizeKeys, SortUnique, TypeOK, ControlInv, dbVars, procVars
<1>2. CASE WriteCompleted([first |-> cli.first, last |-> cli.last])
  <2>1. cli \in Invocations
    BY DEF FinalizeKeys, ControlInv
  <2>2. cli.first \in Nat /\ cli.last \in Nat
    BY <2>1, InvocationType DEF Checkpoints
  <2>3. Pred(cli.first) \in Nat
    BY <2>2 DEF Pred
  <2>4. progress # None => progress.flushed \in Nat
    BY DEF TypeOK, SinkTypeOK, Progress
  <2>5. progress' \in Progress
    BY <1>2, <2>2, <2>3, <2>4 DEF WriteCompleted, Progress
  <2>6. SinkTypeOK'
    BY <1>2, <2>5 DEF WriteCompleted, TypeOK, SinkTypeOK
  <2> QED
    BY <1>2, <2>6 DEF FinalizeKeys, WriteCompleted, TypeOK, ControlInv, dbVars, procVars
<1> QED
  BY <1>1, <1>2 DEF FinalizeKeys

LEMMA TypeFinishManifest ==
  ASSUME TypeOK, ControlInv, FinishManifest
  PROVE  TypeOK' /\ ControlInv'
<1>1. pc = "sink" /\ cli \in Invocations
  BY DEF FinishManifest, ControlInv
<1>2. manifest' \in CheckpointRange
  BY <1>1, InvocationType DEF FinishManifest, WriteManifest, CheckpointRange, Checkpoints
<1>3. SinkTypeOK'
  BY <1>2 DEF FinishManifest, WriteManifest, TypeOK, SinkTypeOK
<1>4. TypeOK'
  BY <1>3 DEF FinishManifest, TypeOK, dbVars, Steps
<1>5. ControlInv'
  BY <1>1 DEF FinishManifest, WriteManifest, ControlInv
<1> QED
  BY <1>4, <1>5

LEMMA TypeRunning ==
  ASSUME TypeOK, ControlInv, Running
  PROVE  TypeOK' /\ ControlInv'
BY TypePersistRunMetadata, TypeFetchCheckpoint, TypeCommitBatch, TypeAppendKey, TypeFlushProgress,
   TypePersistFinalMetadata, TypeFinalizeKeys, TypeFinishManifest
DEF Running

(* A process that is gone, whatever becomes of the database.               *)
LEMMA TypeGone ==
  ASSUME TypeOK, ProcessGone, runs' \in Nat,
         stored' \in SUBSET Checkpoints, lastSeen' \in [Key -> Opt(Checkpoints)], meta' \in Meta
  PROVE  TypeOK' /\ ControlInv'
<1>1. SinkTypeOK'
  BY DEF ProcessGone, SinkExit, sinkDurable, NoKeys, TypeOK, SinkTypeOK
<1>2. batch' \in [rows : SUBSET Checkpoints, seen : [Key -> Opt(Checkpoints)]]
  BY DEF ProcessGone, NoBatch, Opt
<1>3. TypeOK'
  BY <1>1, <1>2 DEF ProcessGone, TypeOK, Opt, Steps
<1>4. ControlInv'
  BY DEF ProcessGone, SinkExit, ControlInv
<1> QED
  BY <1>3, <1>4

LEMMA TypeCrash ==
  ASSUME TypeOK, Crash
  PROVE  TypeOK' /\ ControlInv'
BY TypeGone DEF Crash, dbVars, TypeOK

-----------------------------------------------------------------------------
LEMMA TypeNext == TypeOK /\ ControlInv /\ [Next]_vars => TypeOK' /\ ControlInv'
<1> SUFFICES ASSUME TypeOK, ControlInv, [Next]_vars
             PROVE  TypeOK' /\ ControlInv'
  OBVIOUS
<1>1. CASE Start \/ Rerun
  BY <1>1, TypeBegin DEF Start, Rerun
<1>2. CASE Running
  BY <1>2, TypeRunning
<1>3. CASE Crash
  BY <1>3, TypeCrash
<1>4. CASE UNCHANGED vars
  BY <1>4 DEF vars, sinkVars, dbVars, procVars, TypeOK, SinkTypeOK, ControlInv
<1> QED
  BY <1>1, <1>2, <1>3, <1>4 DEF Next

(* Every variable keeps its type, and the process its place in the code,   *)
(* over failures and restarts.                                             *)
THEOREM TypeCorrect == Spec => [](TypeOK /\ ControlInv)
<1>1. Init => TypeOK /\ ControlInv
  BY TypeInit
<1>2. TypeOK /\ ControlInv /\ [Next]_vars => (TypeOK /\ ControlInv)'
  BY TypeNext
<1> QED
  BY <1>1, <1>2, PTL DEF Spec

-----------------------------------------------------------------------------
(* What is stored, as long as every run begins at `from`.                  *)

(* The command line of a running process starts at from and ends in range. *)
LEMMA PinnedCli ==
  ASSUME NEW from, PinnedTo(from), cli \in Invocations
  PROVE  /\ cli.first = from /\ from \in Nat /\ from \in Checkpoints
         /\ cli.last \in Nat /\ cli.last \in Checkpoints /\ from <= cli.last
<1>1. cli.first = from
  BY IngestAssumption DEF PinnedTo
<1> QED
  BY <1>1, InvocationType DEF Checkpoints

LEMMA FromIsNat ==
  ASSUME NEW from, PinnedTo(from)
  PROVE  from \in Nat
BY DEF PinnedTo, Checkpoints

LEMMA RangeInit == \A from : Init => RangeInv(from)
BY DEF Init, SinkInit, SinkIdle, RangeInv, CoveredFrom, Finalizing, NoBatch

(* The run starts at its first checkpoint, or where both watermarks are.   *)
LEMMA EffectiveFirstIs ==
  ASSUME TypeOK, NEW c \in Invocations
  PROVE  \/ EffectiveFirst(c) = c.first
         \/ /\ meta.watermark # None /\ meta.watermark \in Nat
            /\ EffectiveFirst(c) - 1 \in Nat
            /\ EffectiveFirst(c) - 1 <= meta.watermark
            /\ c.keys => /\ progress # None /\ progress.flushed \in Nat
                         /\ EffectiveFirst(c) - 1 <= progress.flushed
<1> DEFINE done == CompletedCheckpoint(c)
<1>1. c.first \in Nat
  BY InvocationType DEF Checkpoints
<1>2. CASE ~c.resume \/ done = None
  BY <1>2 DEF EffectiveFirst
<1>3. CASE c.resume /\ done # None
  <2>1. meta.watermark \in Nat /\ meta.watermark # None
    BY <1>3, IngestAssumption, SinkAssumption
    DEF TypeOK, Meta, Opt, Checkpoints, CompletedCheckpoint
  <2>2. c.keys => progress # None /\ progress.flushed \in Nat
    BY <1>3 DEF CompletedCheckpoint, KeyWatermark, TypeOK, SinkTypeOK, Progress
  <2>3. done \in Nat /\ done <= meta.watermark /\ (c.keys => done <= progress.flushed)
    BY <1>3, <2>1, <2>2 DEF CompletedCheckpoint, KeyWatermark, Lesser
  <2>4. EffectiveFirst(c) = Greater(done + 1, c.first)
    BY <1>3 DEF EffectiveFirst
  <2> HIDE DEF done
  <2>5. CASE done + 1 >= c.first
    <3>1. EffectiveFirst(c) - 1 = done
      BY <2>3, <2>4, <2>5 DEF Greater
    <3> QED
      BY <2>1, <2>2, <2>3, <3>1
  <2>6. CASE ~(done + 1 >= c.first)
    BY <2>4, <2>6 DEF Greater
  <2> QED
    BY <2>5, <2>6
<1> QED
  BY <1>2, <1>3

LEMMA RangeBegin ==
  ASSUME NEW from \in Checkpoints, TypeOK, ControlInv, RangeInv(from), pc \in {"down", "done"},
         NEW c \in Invocations, c.first = from, Begin(c)
  PROVE  RangeInv(from)'
<1>1. op = "idle" /\ op' = op /\ pc' = "meta" /\ batch' = batch /\ seq' = EffectiveFirst(c)
      /\ UNCHANGED dbVars
  BY DEF ControlInv, Begin, sinkVolatile
<1>2. from \in Nat /\ seq' \in Nat /\ from <= seq'
  BY <1>1, EffectiveFirstType DEF Checkpoints
<1>3. \/ seq' = from
      \/ meta.watermark # None /\ meta.watermark \in Nat /\ seq' - 1 <= meta.watermark
  BY <1>1, EffectiveFirstIs
<1>4. from..(seq' - 1) \subseteq stored
  BY <1>2, <1>3 DEF RangeInv, CoveredFrom
<1>5. CoveredFrom(from)'
  BY <1>1 DEF dbVars, RangeInv, CoveredFrom
<1>6. batch.rows = {}
  BY DEF RangeInv
<1> QED
  BY <1>1, <1>2, <1>3, <1>4, <1>5, <1>6 DEF dbVars, RangeInv, Finalizing

(* What the run announces and what it found done.                          *)
LEMMA RangePersistRunMetadata ==
  ASSUME NEW from, PinnedTo(from), TypeOK, ControlInv, RangeInv(from), PersistRunMetadata
  PROVE  RangeInv(from)'
<1>1. pc = "meta" /\ cli \in Invocations /\ op = "idle"
  BY DEF PersistRunMetadata, ControlInv
<1>2. /\ from \in Nat /\ cli.last \in Nat /\ seq \in Nat
      /\ from <= seq /\ from..(seq - 1) \subseteq stored
      /\ seq = from \/ (meta.watermark # None /\ seq - 1 <= meta.watermark)
      /\ from <= cli.last /\ batch.rows = {}
  BY <1>1, PinnedCli DEF RangeInv, TypeOK
<1>3. /\ meta'.watermark = meta.watermark
      /\ meta'.rangeStart = cli.first /\ meta'.rangeEnd = cli.last
  BY DEF PersistRunMetadata, RunMetadata, TypeOK, Meta
<1>4. CoveredFrom(from)'
  BY <1>3 DEF PersistRunMetadata, RangeInv, CoveredFrom
<1>5. CASE seq > cli.last
  <2>1. /\ from..cli.last \subseteq stored
        /\ meta.watermark # None /\ cli.last <= meta.watermark
    <3>1. from..cli.last \subseteq stored /\ seq # from
      BY <1>2, <1>5
    <3>2. meta.watermark \in Nat
      BY <1>2, <3>1 DEF TypeOK, Meta, Opt, Checkpoints
    <3> QED
      BY <1>2, <1>5, <3>1, <3>2
  <2>2. pc' \in {"sink", "done"} /\ op' \in {"idle", "sort"}
    BY <1>1, <1>5 DEF PersistRunMetadata, EarlyReturn, Finish, BeginFinalize
  <2> QED
    BY <1>2, <1>3, <1>4, <2>1, <2>2 DEF PersistRunMetadata, RangeInv, Finalizing
<1>6. CASE ~(seq > cli.last)
  <2>1. pc' = "fetch" /\ op' = "idle"
    BY <1>1, <1>6 DEF PersistRunMetadata
  <2>2. seq \in from..seq /\ seq..(seq - 1) = {}
    BY <1>2
  <2>3. (\E lo \in from..seq : BatchFrom(from, lo, seq - 1))'
    BY <1>2, <2>2 DEF PersistRunMetadata, BatchFrom
  <2> QED
    BY <1>4, <2>1, <2>3 DEF RangeInv, Finalizing
<1> QED
  BY <1>5, <1>6

(* The batch gains the next checkpoint and stays contiguous.               *)
LEMMA RangeFetchCheckpoint ==
  ASSUME NEW from, PinnedTo(from), TypeOK, ControlInv, RangeInv(from), FetchCheckpoint
  PROVE  RangeInv(from)'
<1>1. pc = "fetch" /\ cli \in Invocations /\ op = "idle"
  BY DEF FetchCheckpoint, ControlInv
<1>2. PICK lo \in from..seq : BatchFrom(from, lo, seq - 1)
  BY <1>1 DEF RangeInv
<1>3. from \in Nat /\ seq \in Nat /\ lo \in Nat /\ lo <= seq
  BY <1>1, <1>2, PinnedCli DEF TypeOK
<1>4. batch'.rows = lo..seq
  BY <1>2, <1>3 DEF FetchCheckpoint, BatchRows, BatchFrom
<1>5. from..(lo - 1) \subseteq stored'
  BY <1>2 DEF FetchCheckpoint, BatchFrom, dbVars
<1>6. CoveredFrom(from)'
  BY DEF FetchCheckpoint, dbVars, RangeInv, CoveredFrom
<1>7. op' = "idle"
  BY <1>1 DEF FetchCheckpoint
<1>8. \/ pc' = "commit" /\ seq' = seq
      \/ pc' = "fetch" /\ seq' = seq + 1
  BY DEF FetchCheckpoint
<1>9. CASE pc' = "commit" /\ seq' = seq
  <2>1. (\E l \in from..seq : BatchFrom(from, l, seq))'
    BY <1>2, <1>4, <1>5, <1>9 DEF BatchFrom
  <2> QED
    BY <1>6, <1>7, <1>9, <2>1 DEF RangeInv, Finalizing
<1>10. CASE pc' = "fetch" /\ seq' = seq + 1
  <2>1. lo \in from..seq' /\ lo..seq = lo..(seq' - 1)
    BY <1>2, <1>3, <1>10
  <2>2. (\E l \in from..seq : BatchFrom(from, l, seq - 1))'
    BY <1>4, <1>5, <2>1 DEF BatchFrom
  <2> QED
    BY <1>6, <1>7, <1>10, <2>2 DEF RangeInv, Finalizing
<1> QED
  BY <1>8, <1>9, <1>10

(* After a flush through seq the next block starts at seq + 1.             *)
LEMMA RangeNextTurn ==
  ASSUME NEW from, PinnedTo(from), NextTurn, op' = "idle", cli \in Invocations,
         cli' = cli, seq \in Nat, meta'.watermark = seq, from <= seq,
         from..seq \subseteq stored', batch'.rows = {},
         CoveredFrom(from)'
  PROVE  RangeInv(from)'
<1>1. from \in Nat /\ cli.last \in Nat
  BY PinnedCli
<1>2. CASE AtLast
  <2>1. pc' = "final" /\ seq = cli.last /\ seq # None
    BY <1>1, <1>2, SinkAssumption DEF NextTurn, AtLast
  <2> QED
    BY <1>1, <2>1 DEF RangeInv, Finalizing
<1>3. CASE ~AtLast
  <2>1. pc' = "fetch" /\ seq' = seq + 1
    BY <1>3 DEF NextTurn
  <2>2. /\ seq' \in from..seq'
        /\ batch'.rows = seq'..(seq' - 1)
        /\ from..(seq' - 1) \subseteq stored'
    BY <1>1, <2>1
  <2>3. (\E lo \in from..seq : BatchFrom(from, lo, seq - 1))'
    BY <2>2 DEF BatchFrom
  <2> QED
    BY <2>1, <2>3 DEF RangeInv, Finalizing
<1> QED
  BY <1>2, <1>3

(* A commit is one Advance of the abstract ingest.                         *)
LEMMA CommitAdvances ==
  ASSUME NEW from, PinnedTo(from), TypeOK, ControlInv, RangeInv(from), CommitBatch
  PROVE  \E lo \in Checkpoints :
           /\ from <= lo /\ lo <= seq /\ seq \in Checkpoints
           /\ from..(lo - 1) \subseteq stored
           /\ stored' = stored \cup lo..seq
           /\ meta'.watermark = seq
<1>1. pc = "commit" /\ cli \in Invocations /\ seq <= cli.last
  BY DEF CommitBatch, ControlInv
<1>2. PICK lo \in from..seq : BatchFrom(from, lo, seq)
  BY <1>1 DEF RangeInv
<1>3. seq \in Checkpoints /\ lo \in Checkpoints
  BY <1>1, <1>2, PinnedCli, IngestAssumption DEF TypeOK, Checkpoints
<1>4. meta'.watermark = seq
  BY DEF CommitBatch, TypeOK, Meta
<1> QED
  BY <1>2, <1>3, <1>4, FromIsNat DEF CommitBatch, BatchFrom, Checkpoints

LEMMA RangeCommitBatch ==
  ASSUME NEW from, PinnedTo(from), TypeOK, ControlInv, RangeInv(from), CommitBatch
  PROVE  RangeInv(from)'
<1>1. pc = "commit" /\ cli \in Invocations /\ op = "idle" /\ seq \in Nat
  BY DEF CommitBatch, ControlInv, TypeOK
<1>2. from \in Nat
  BY FromIsNat
<1>3. from <= seq /\ from..seq \subseteq stored' /\ meta'.watermark = seq
  BY <1>1, <1>2, CommitAdvances DEF Checkpoints
<1>4. CoveredFrom(from)'
  BY <1>3 DEF CoveredFrom
<1>5. batch'.rows = {} /\ cli' = cli
  BY DEF CommitBatch, NoBatch
<1>6. CASE cli.keys
  <2>1. pc' = "sink" /\ op' = "append" /\ seq' = seq
    BY <1>6 DEF CommitBatch, BeginAppend
  <2> QED
    BY <1>3, <1>4, <1>5, <2>1 DEF RangeInv, Finalizing
<1>7. CASE ~cli.keys
  <2>1. NextTurn /\ op' = op
    BY <1>7 DEF CommitBatch
  <2> QED
    BY <1>1, <1>3, <1>4, <1>5, <2>1, RangeNextTurn
<1> QED
  BY <1>6, <1>7

LEMMA RangeAppendKey ==
  ASSUME NEW from, PinnedTo(from), ControlInv, RangeInv(from), AppendKey
  PROVE  RangeInv(from)'
<1>1. op' = op
  BY DEF AppendKey, AppendText, AppendNewline
<1> QED
  BY <1>1 DEF AppendKey, RangeInv, CoveredFrom, BatchFrom, Finalizing, dbVars, procVars

LEMMA RangeFlushProgress ==
  ASSUME NEW from, PinnedTo(from), TypeOK, ControlInv, RangeInv(from), FlushProgress
  PROVE  RangeInv(from)'
<1>1. /\ pc = "sink" /\ op = "append" /\ cli \in Invocations /\ seq \in Nat
      /\ op' = "idle"
  BY DEF FlushProgress, WriteProgress, ControlInv, TypeOK
<1>2. CoveredFrom(from)'
  BY DEF FlushProgress, dbVars, RangeInv, CoveredFrom
<1>3. from <= seq /\ from..seq \subseteq stored' /\ batch'.rows = {} /\ meta'.watermark = seq
  BY <1>1 DEF FlushProgress, dbVars, RangeInv
<1> QED
  BY <1>1, <1>2, <1>3, RangeNextTurn DEF FlushProgress

LEMMA RangePersistFinalMetadata ==
  ASSUME NEW from, PinnedTo(from), TypeOK, ControlInv, RangeInv(from), PersistFinalMetadata
  PROVE  RangeInv(from)'
<1>1. pc = "final" /\ op = "idle"
  BY DEF PersistFinalMetadata, ControlInv
<1>2. /\ meta'.watermark = meta.watermark
      /\ meta'.rangeStart = cli.first /\ meta'.rangeEnd = cli.last
  BY DEF PersistFinalMetadata, RunMetadata, TypeOK, Meta
<1>3. pc' \in {"sink", "done"} /\ op' \in {"idle", "sort"}
  BY <1>1 DEF PersistFinalMetadata, Finish, BeginFinalize
<1> QED
  BY <1>1, <1>2, <1>3 DEF PersistFinalMetadata, RangeInv, CoveredFrom, Finalizing

(* The steps of the sink, and its end, leave the range alone.              *)
LEMMA RangeFinalizeKeys ==
  ASSUME NEW from, PinnedTo(from), ControlInv, RangeInv(from), FinalizeKeys
  PROVE  RangeInv(from)'
<1>1. op # "append" /\ op' # "append"
  BY DEF FinalizeKeys, SortUnique, WriteCompleted
<1> QED
  BY <1>1 DEF FinalizeKeys, RangeInv, CoveredFrom, BatchFrom, Finalizing, dbVars, procVars

LEMMA RangeFinishManifest ==
  ASSUME NEW from, PinnedTo(from), ControlInv, RangeInv(from), FinishManifest
  PROVE  RangeInv(from)'
BY DEF FinishManifest, WriteManifest, RangeInv, CoveredFrom, Finalizing, dbVars

(* A process that is gone leaves what the database says of itself.         *)
LEMMA RangeGone ==
  ASSUME NEW from, ProcessGone, CoveredFrom(from)'
  PROVE  RangeInv(from)'
BY DEF ProcessGone, SinkExit, NoBatch, RangeInv, Finalizing

LEMMA PinnedRunning ==
  ASSUME NEW from, PinnedTo(from), Running
  PROVE  PinnedTo(from)'
BY DEF PinnedTo, Running, PersistRunMetadata, FetchCheckpoint, CommitBatch, AppendKey,
       FlushProgress, PersistFinalMetadata, FinalizeKeys, FinishManifest, procVars

(* The whole invariant, over every step of a process.                      *)
LEMMA RunningKeeps ==
  ASSUME NEW from, IInv(from), Running
  PROVE  IInv(from)'
<1>1. TypeOK /\ ControlInv /\ PinnedTo(from) /\ RangeInv(from)
  BY DEF IInv
<1>2. TypeOK' /\ ControlInv'
  BY <1>1, TypeRunning
<1>3. RangeInv(from)'
  BY <1>1, RangePersistRunMetadata, RangeFetchCheckpoint, RangeCommitBatch, RangeAppendKey,
     RangeFlushProgress, RangePersistFinalMetadata, RangeFinalizeKeys, RangeFinishManifest
  DEF Running
<1> QED
  BY <1>1, <1>2, <1>3, PinnedRunning DEF IInv

LEMMA BeginKeeps ==
  ASSUME NEW from, IInv(from), pc \in {"down", "done"},
         NEW c \in Invocations, c.first = from, Begin(c)
  PROVE  IInv(from)'
<1>1. TypeOK /\ ControlInv /\ PinnedTo(from) /\ RangeInv(from) /\ from \in Checkpoints
  BY DEF IInv, PinnedTo
<1>2. PinnedTo(from)'
  BY <1>1 DEF Begin, PinnedTo
<1> QED
  BY <1>1, <1>2, TypeBegin, RangeBegin DEF IInv

-----------------------------------------------------------------------------
(* What a checkpoint emits, and where the loop is, are in range.           *)

LEMMA EmitsKeys ==
  ASSUME NEW f \in Files, NEW n \in Checkpoints
  PROVE  Emits[f][n] \in SUBSET Key
BY IngestAssumption

LEMMA ObjectIds == "object_ids" \in Files
<1>1. Order[3] \in Files /\ Order[3] = "object_ids"
  BY DEF Files, Order
<1> QED
  BY <1>1

LEMMA SeqInRange ==
  ASSUME NEW from, IInv(from), pc \in {"fetch", "commit"} \/ op = "append"
  PROVE  /\ seq \in Checkpoints /\ seq \in Nat /\ seq <= cli.last
         /\ from \in Nat /\ from <= seq
         /\ \A n \in from..seq : n \in Checkpoints
<1>1. cli \in Invocations /\ seq <= cli.last /\ seq \in Nat
  BY DEF IInv, ControlInv, TypeOK
<1>2. cli.last \in Checkpoints /\ cli.last \in Nat /\ from \in Nat
  BY <1>1, PinnedCli DEF IInv
<1>3. from <= seq
  <2>1. CASE op = "append"
    BY <2>1 DEF IInv, RangeInv
  <2>2. CASE pc = "fetch" \/ pc = "commit"
    <3>1. PICK lo \in from..seq : TRUE
      BY <2>2 DEF IInv, RangeInv
    <3> QED
      BY <1>1, <1>2, <3>1
  <2> QED
    BY <2>1, <2>2
<1> QED
  BY <1>1, <1>2, <1>3, IngestAssumption DEF Checkpoints

(* None is no checkpoint.                                                  *)
LEMMA NoneIsNone == \A n \in Checkpoints : n # None /\ n \in Nat
BY SinkAssumption DEF Checkpoints

-----------------------------------------------------------------------------
(* cf_object_last_seen: one lemma per action.                              *)

LEMMA SeenInit == \A from : Init => SeenInv(from)
BY DEF Init, SinkInit, SinkIdle, NoBatch, SeenInv, LastSeenFrom

(* Steps that leave the database, the batch and the place in the range.    *)
LEMMA SeenKept ==
  ASSUME NEW from, SeenInv(from), UNCHANGED <<stored, lastSeen, batch>>,
         meta'.watermark = meta.watermark
  PROVE  /\ LastSeenFrom(from)'
         /\ \A n : SeenThrough(from, n)' = SeenThrough(from, n)
         /\ \A o \in Key : batch'.seen[o] # None =>
              batch'.seen[o] \in batch'.rows /\ o \in Emits["object_ids"][batch'.seen[o]]
BY DEF SeenInv, LastSeenFrom, SeenThrough, LastWrite

LEMMA SeenBegin ==
  ASSUME NEW from, IInv(from), SeenInv(from), pc \in {"down", "done"},
         NEW c \in Invocations, c.first = from, Begin(c)
  PROVE  SeenInv(from)'
<1>1. pc' = "meta" /\ seq' = EffectiveFirst(c) /\ op' = "idle"
      /\ UNCHANGED <<stored, lastSeen, batch, meta>>
  BY DEF Begin, dbVars, sinkVolatile, IInv, ControlInv
<1>2. \A o \in Key : batch.seen[o] = None
  BY DEF SeenInv
<1>3. SeenThrough(from, seq' - 1)
  <2>1. CASE EffectiveFirst(c) = from
    <3>1. from..(from - 1) = {}
      BY FromIsNat DEF IInv
    <3> QED
      BY <1>1, <2>1, <3>1 DEF SeenThrough
  <2>2. CASE /\ meta.watermark # None /\ meta.watermark \in Nat
             /\ EffectiveFirst(c) - 1 \in Nat
             /\ EffectiveFirst(c) - 1 <= meta.watermark
    <3>1. from \in Nat /\ meta.watermark \in Checkpoints /\ MaxCheckpoint \in Nat
      BY <2>2, FromIsNat, IngestAssumption DEF Checkpoints, IInv, TypeOK, Meta, Opt
    <3>2. ASSUME NEW n \in from..(seq' - 1)
          PROVE  n \in from..meta.watermark /\ n \in Checkpoints
      <4>1. seq' - 1 <= meta.watermark /\ seq' - 1 \in Nat
        BY <1>1, <2>2
      <4> QED
        BY <2>2, <3>1, <3>2, <4>1 DEF Checkpoints
    <3>3. ASSUME NEW n \in from..(seq' - 1), NEW o \in Emits["object_ids"][n]
          PROVE  LastWrite(o) # None /\ LastWrite(o) >= n
      <4>1. n \in from..meta.watermark /\ o \in Key
        BY <3>2, <3>3, EmitsKeys, ObjectIds
      <4>2. LastWrite(o) = lastSeen[o]
        BY <1>2, <4>1 DEF LastWrite
      <4> QED
        BY <2>2, <3>3, <4>1, <4>2 DEF SeenInv, LastSeenFrom
    <3> QED
      BY <3>3 DEF SeenThrough
  <2> QED
    BY <2>1, <2>2, EffectiveFirstIs DEF IInv
<1>4. SeenThrough(from, seq - 1)'
  BY <1>1, <1>3 DEF SeenThrough, LastWrite
<1> QED
  BY <1>1, <1>2, <1>4, SeenKept DEF SeenInv

LEMMA SeenPersistRunMetadata ==
  ASSUME NEW from, IInv(from), SeenInv(from), PersistRunMetadata
  PROVE  SeenInv(from)'
<1>1. pc = "meta" /\ op = "idle" /\ meta'.watermark = meta.watermark
      /\ UNCHANGED <<stored, lastSeen, batch, seq>>
  BY DEF PersistRunMetadata, RunMetadata, IInv, TypeOK, Meta, ControlInv
<1>2. pc' \in {"sink", "done", "fetch"} /\ op' # "append"
  BY <1>1 DEF PersistRunMetadata, EarlyReturn, Finish, BeginFinalize
<1>3. SeenThrough(from, seq - 1)' /\ \A o \in Key : batch'.seen[o] = None
  BY <1>1, SeenKept DEF SeenInv, SeenThrough, LastWrite
<1> QED
  BY <1>1, <1>2, <1>3, SeenKept DEF SeenInv

LEMMA SeenFetchCheckpoint ==
  ASSUME NEW from, IInv(from), SeenInv(from), FetchCheckpoint
  PROVE  SeenInv(from)'
<1>1. pc = "fetch" /\ op = "idle" /\ op' = op /\ UNCHANGED <<stored, lastSeen, meta>>
  BY DEF FetchCheckpoint, IInv, ControlInv, dbVars
<1>2. /\ batch'.rows = batch.rows \cup {seq}
      /\ \A o \in Key : batch'.seen[o] = IF o \in Emits["object_ids"][seq]
                                         THEN seq ELSE batch.seen[o]
  BY DEF FetchCheckpoint, BatchRows
<1>3. seq \in Checkpoints /\ seq # None /\ seq \in Nat /\ from \in Nat
      /\ \A n \in from..seq : n \in Checkpoints /\ n \in Nat
  BY <1>1, SeqInRange, NoneIsNone
<1>4. LastSeenFrom(from)'
  BY <1>1 DEF SeenInv, LastSeenFrom
<1>5. \A o \in Key : batch'.seen[o] # None =>
        batch'.seen[o] \in batch'.rows /\ o \in Emits["object_ids"][batch'.seen[o]]
  BY <1>2 DEF SeenInv
<1>6. ASSUME NEW n \in from..seq, NEW o \in Emits["object_ids"][n]
      PROVE  LastWrite(o)' # None /\ LastWrite(o)' >= n
  <2>1. o \in Key
    BY <1>3, <1>6, EmitsKeys, ObjectIds
  <2>2. CASE o \in Emits["object_ids"][seq]
    <3>1. LastWrite(o)' = seq
      BY <1>2, <1>3, <2>1, <2>2 DEF LastWrite
    <3> QED
      BY <1>3, <1>6, <3>1
  <2>3. CASE o \notin Emits["object_ids"][seq]
    <3>1. n \in from..(seq - 1)
      <4>1. n # seq
        BY <1>6, <2>3
      <4> QED
        BY <1>3, <4>1
    <3>2. LastWrite(o) # None /\ LastWrite(o) >= n
      BY <1>1, <1>6, <3>1 DEF SeenInv, SeenThrough
    <3>3. LastWrite(o)' = LastWrite(o)
      BY <1>1, <1>2, <2>1, <2>3 DEF LastWrite
    <3> QED
      BY <3>2, <3>3
  <2> QED
    BY <2>2, <2>3
<1>7. \/ pc' = "commit" /\ seq' = seq
      \/ pc' = "fetch" /\ seq' = seq + 1
  BY DEF FetchCheckpoint
<1>8. /\ pc' = "commit" => SeenThrough(from, seq)'
      /\ pc' = "fetch" => SeenThrough(from, seq - 1)'
  <2>1. pc' = "fetch" => seq' - 1 = seq
    BY <1>3, <1>7
  <2> QED
    BY <1>6, <1>7, <2>1 DEF SeenThrough
<1> QED
  BY <1>1, <1>4, <1>5, <1>7, <1>8 DEF SeenInv

LEMMA SeenCommitBatch ==
  ASSUME NEW from, IInv(from), SeenInv(from), CommitBatch
  PROVE  SeenInv(from)'
<1>1. /\ pc = "commit" /\ op = "idle" /\ meta'.watermark = seq
      /\ stored' = stored \cup batch.rows
      /\ \A o \in Key : lastSeen'[o] = LastWrite(o) /\ batch'.seen[o] = None
  BY DEF CommitBatch, NoBatch, IInv, ControlInv, TypeOK, Meta
<1>2. seq \in Nat /\ from \in Nat /\ \A n \in from..seq : n \in Checkpoints
  BY <1>1, SeqInRange
<1>3. \A n \in from..seq : \A o \in Emits["object_ids"][n] : o \in Key
  BY <1>2, EmitsKeys, ObjectIds
<1>4. \A n \in from..seq : \A o \in Emits["object_ids"][n] :
        /\ lastSeen'[o] # None /\ lastSeen'[o] >= n
        /\ LastWrite(o)' = lastSeen'[o]
  BY <1>1, <1>3 DEF SeenInv, SeenThrough, LastWrite
<1>5. LastSeenFrom(from)'
  <2>1. \A o \in Key : lastSeen'[o] # None =>
          lastSeen'[o] \in stored' /\ o \in Emits["object_ids"][lastSeen'[o]]
    BY <1>1 DEF SeenInv, LastSeenFrom, LastWrite
  <2> QED
    BY <1>1, <1>4, <2>1 DEF LastSeenFrom
<1>6. CASE cli.keys
  <2>1. pc' = "sink" /\ seq' = seq
    BY <1>6 DEF CommitBatch
  <2>2. SeenThrough(from, seq)'
    BY <1>4, <2>1 DEF SeenThrough
  <2> QED
    BY <1>1, <1>5, <2>1, <2>2 DEF SeenInv
<1>7. CASE ~cli.keys
  <2>1. NextTurn /\ op' = op
    BY <1>7 DEF CommitBatch
  <2>2. pc' \in {"final", "fetch"} /\ (pc' = "fetch" => seq' - 1 = seq)
    BY <1>2, <2>1 DEF NextTurn
  <2>3. pc' = "fetch" => SeenThrough(from, seq - 1)'
    BY <1>4, <2>2 DEF SeenThrough
  <2> QED
    BY <1>1, <1>5, <2>1, <2>2, <2>3 DEF SeenInv
<1> QED
  BY <1>6, <1>7

LEMMA SeenFlushProgress ==
  ASSUME NEW from, IInv(from), SeenInv(from), FlushProgress
  PROVE  SeenInv(from)'
<1>1. /\ op = "append" /\ op' = "idle" /\ pc = "sink" /\ NextTurn
      /\ UNCHANGED <<stored, lastSeen, batch, meta>>
  BY DEF FlushProgress, WriteProgress, dbVars
<1>2. seq \in Nat
  BY DEF IInv, TypeOK
<1>3. pc' \in {"final", "fetch"} /\ (pc' = "fetch" => seq' - 1 = seq)
  BY <1>1, <1>2 DEF NextTurn
<1>4. pc' = "fetch" => SeenThrough(from, seq - 1)'
  BY <1>1, <1>3 DEF SeenInv, SeenThrough, LastWrite
<1> QED
  BY <1>1, <1>3, <1>4, SeenKept DEF SeenInv

LEMMA SeenAppendKey ==
  ASSUME NEW from, SeenInv(from), AppendKey
  PROVE  SeenInv(from)'
<1>1. op' = op /\ UNCHANGED <<stored, lastSeen, batch, meta, pc, seq>>
  BY DEF AppendKey, AppendText, AppendNewline, dbVars, procVars
<1> QED
  BY <1>1, SeenKept DEF SeenInv, SeenThrough, LastWrite

(* The steps after the loop are in none of the places where SeenInv speaks *)
(* of the range.                                                           *)
LEMMA SeenElsewhere ==
  ASSUME NEW from, IInv(from), SeenInv(from),
         PersistFinalMetadata \/ FinalizeKeys \/ FinishManifest
  PROVE  SeenInv(from)'
<1>1. /\ UNCHANGED <<stored, lastSeen, batch>> /\ meta'.watermark = meta.watermark
      /\ pc' \in {"sink", "done"} /\ op' # "append"
  <2>1. CASE PersistFinalMetadata
    BY <2>1 DEF PersistFinalMetadata, RunMetadata, Finish, BeginFinalize,
                IInv, TypeOK, Meta, ControlInv
  <2>2. CASE FinalizeKeys
    BY <2>2 DEF FinalizeKeys, SortUnique, WriteCompleted, dbVars, procVars
  <2>3. CASE FinishManifest
    BY <2>3 DEF FinishManifest, WriteManifest, dbVars
  <2> QED
    BY <2>1, <2>2, <2>3
<1>2. LastSeenFrom(from)'
  BY <1>1 DEF SeenInv, LastSeenFrom
<1>3. \A o \in Key : batch'.seen[o] = None
  BY <1>1 DEF PersistFinalMetadata, FinalizeKeys, FinishManifest, IInv, ControlInv,
              WriteManifest, SeenInv
<1> QED
  BY <1>1, <1>2, <1>3 DEF SeenInv

LEMMA SeenRunning ==
  ASSUME NEW from, IInv(from), SeenInv(from), Running
  PROVE  SeenInv(from)'
BY SeenPersistRunMetadata, SeenFetchCheckpoint, SeenCommitBatch, SeenFlushProgress,
   SeenAppendKey, SeenElsewhere
DEF Running

(* A process that is gone leaves what the database says of itself.         *)
LEMMA SeenGone ==
  ASSUME NEW from, ProcessGone, LastSeenFrom(from)'
  PROVE  SeenInv(from)'
<1>1. pc' = "down" /\ op' = "idle" /\ \A o \in Key : batch'.seen[o] = None
  BY DEF ProcessGone, SinkExit, NoBatch
<1> QED
  BY <1>1 DEF SeenInv

-----------------------------------------------------------------------------
(* What is in a raw file stays there, whatever is appended.                *)

LEMMA TextLogged ==
  ASSUME TypeOK, NEW f \in Files, NEW k \in Key, AppendText(f, k)
  PROVE  /\ \A g \in Files : \A x : Logged(raw[g], x) => Logged(raw'[g], x)
         /\ Logged(raw'[f], k)
<1> DEFINE old == raw[f].tail
           new == Append(old, k)
<1>1. raw[f] \in RawFile /\ old \in Seq(Key)
  BY DEF TypeOK, SinkTypeOK, RawFile, Lines
<1>2. /\ new # <<>> /\ DOMAIN new = 1..(Len(old) + 1) /\ new[Len(old) + 1] = k
      /\ Len(old) \in Nat
      /\ \A j \in DOMAIN old : j \in DOMAIN new /\ new[j] = old[j]
  BY <1>1, AppendProperties, LenProperties
<1>3. /\ raw'[f].tail = new /\ raw'[f].lines = raw[f].lines
      /\ \A g \in Files : g # f => raw'[g] = raw[g]
  <2>1. raw' = [raw EXCEPT ![f] = [raw[f] EXCEPT !.tail = new]]
    BY DEF AppendText
  <2> QED
    BY <1>1, <2>1 DEF TypeOK, SinkTypeOK, RawFile
<1> HIDE DEF new
<1>4. ReadLines(raw'[f]) = raw[f].lines \cup {new}
  BY <1>2, <1>3 DEF ReadLines
<1>5. Logged(raw'[f], k)
  <2>1. Len(old) + 1 \in DOMAIN new
    BY <1>2
  <2> QED
    BY <1>2, <1>4, <2>1 DEF Logged
<1>6. ASSUME NEW x, Logged(raw[f], x)
      PROVE  Logged(raw'[f], x)
  <2>1. PICK l \in ReadLines(raw[f]) : \E j \in DOMAIN l : l[j] = x
    BY <1>6 DEF Logged
  <2>2. CASE l \in raw[f].lines
    BY <1>4, <2>1, <2>2 DEF Logged
  <2>3. CASE l = old
    BY <1>2, <1>4, <2>1, <2>3 DEF Logged
  <2> QED
    BY <2>1, <2>2, <2>3 DEF ReadLines
<1> QED
  BY <1>3, <1>5, <1>6

LEMMA NewlineLogged ==
  ASSUME TypeOK, AppendNewline
  PROVE  \A g \in Files : \A x : Logged(raw[g], x) => Logged(raw'[g], x)
<1>1. writing \in Files
  BY DEF AppendNewline, TypeOK, SinkTypeOK
<1>2. /\ raw'[writing] = [lines |-> raw[writing].lines \cup {raw[writing].tail}, tail |-> <<>>]
      /\ \A g \in Files : g # writing => raw'[g] = raw[g]
  BY <1>1 DEF AppendNewline, TypeOK, SinkTypeOK
<1>3. ReadLines(raw[writing]) \subseteq ReadLines(raw'[writing])
  BY <1>2 DEF ReadLines
<1> QED
  BY <1>2, <1>3 DEF Logged

(* Over every step of a process: keys are never lost from a raw file.      *)
LEMMA LoggedKept ==
  ASSUME TypeOK, Running \/ raw' = raw
  PROVE  \A g \in Files : \A x : Logged(raw[g], x) => Logged(raw'[g], x)
<1>1. CASE AppendKey
  BY <1>1, TextLogged, NewlineLogged DEF AppendKey
<1>2. CASE ~AppendKey
  <2>1. raw' = raw
    BY <1>2 DEF Running, PersistRunMetadata, FetchCheckpoint, CommitBatch, FlushProgress,
                WriteProgress, PersistFinalMetadata, FinalizeKeys, SortUnique,
                WriteCompleted, FinishManifest, WriteManifest
  <2> QED
    BY <2>1
<1> QED
  BY <1>1, <1>2

(* Each file but the last comes before it.                                 *)
LEMMA LastFile ==
  ASSUME NEW f \in Files, f = Order[4]
  PROVE  Before(f) \cup {f} = Files
<1>1. f = "event_types"
  BY DEF Order
<1>2. Files = {"tx_digests", "object_versions", "object_ids", "event_types"}
  <2>1. 1..4 = {1, 2, 3, 4}
    OBVIOUS
  <2> QED
    BY <2>1 DEF Files, Order
<1>3. Before(f) = {"tx_digests", "object_versions", "object_ids"}
  <2>1. {j \in 1..4 : \E i \in 1..4 : Order[i] = f /\ j < i} = {1, 2, 3}
    <3>1. \A i \in 1..4 : Order[i] = f <=> i = 4
      BY <1>1 DEF Order
    <3> QED
      BY <3>1
  <2>2. Order[1] = "tx_digests" /\ Order[2] = "object_versions" /\ Order[3] = "object_ids"
    BY DEF Order
  <2> QED
    BY <2>1, <2>2 DEF Before
<1> QED
  BY <1>1, <1>2, <1>3

-----------------------------------------------------------------------------
(* The key files: one lemma per action.                                    *)

LEMMA KeyInit == \A from : Init => KeyInv(from)
BY DEF Init, SinkInit, SinkIdle, KeyInv, FlushedFrom, KeysThrough, CompletedFrom, SortedThrough, Finalizing

(* What is said of progress.json stays true of the files it speaks of.     *)
LEMMA ProgressKept ==
  ASSUME NEW from, IInv(from), KeyInv(from), Running \/ raw' = raw, UNCHANGED <<out, progress>>
  PROVE  /\ FlushedFrom(from)' /\ CompletedFrom(from)'
         /\ \A hi : KeysThrough(from, hi) => KeysThrough(from, hi)'
<1>1. \A g \in Files : \A x : Logged(raw[g], x) => Logged(raw'[g], x)
  BY LoggedKept DEF IInv
<1>2. FlushedFrom(from)'
  BY <1>1 DEF KeyInv, FlushedFrom, KeysThrough
<1>3. CompletedFrom(from)'
  BY DEF KeyInv, CompletedFrom, SortedThrough
<1>4. \A hi : KeysThrough(from, hi) => KeysThrough(from, hi)'
  BY <1>1 DEF KeysThrough
<1> QED
  BY <1>2, <1>3, <1>4

LEMMA KeyBegin ==
  ASSUME NEW from, IInv(from), KeyInv(from), pc \in {"down", "done"},
         NEW c \in Invocations, c.first = from, Begin(c)
  PROVE  KeyInv(from)'
<1>1. pc' = "meta" /\ seq' = EffectiveFirst(c) /\ op' = "idle" /\ cli' = c
      /\ raw' = raw /\ UNCHANGED <<out, progress>>
  BY DEF Begin, TouchRawFiles, sinkVolatile, IInv, ControlInv
<1>2. c.keys => KeysThrough(from, seq' - 1) /\ (progress = None => seq' = from)
  <2>1. CASE EffectiveFirst(c) = from
    <3>1. from..(from - 1) = {}
      BY FromIsNat DEF IInv
    <3> QED
      BY <1>1, <2>1, <3>1 DEF KeysThrough
  <2>2. CASE /\ EffectiveFirst(c) - 1 \in Nat
             /\ c.keys => /\ progress # None /\ progress.flushed \in Nat
                          /\ EffectiveFirst(c) - 1 <= progress.flushed
    <3>1. c.keys => \A n \in from..(seq' - 1) : n \in from..progress.flushed
      BY <1>1, <2>2, FromIsNat DEF IInv
    <3> QED
      BY <2>2, <3>1 DEF KeyInv, FlushedFrom, KeysThrough
  <2> QED
    BY <2>1, <2>2, EffectiveFirstIs DEF IInv
<1>3. cli'.keys => KeysThrough(from, seq - 1)' /\ (progress' = None => seq' = from)
  BY <1>1, <1>2 DEF KeysThrough
<1> QED
  BY <1>1, <1>3, ProgressKept DEF KeyInv, Finalizing

LEMMA KeyPersistRunMetadata ==
  ASSUME NEW from, IInv(from), KeyInv(from), PersistRunMetadata, Running
  PROVE  KeyInv(from)'
<1>1. pc = "meta" /\ op = "idle" /\ cli \in Invocations
      /\ UNCHANGED <<raw, out, progress, batchKeys, cli, seq>>
  BY DEF PersistRunMetadata, IInv, ControlInv
<1>2. from \in Nat /\ cli.last \in Nat /\ from <= cli.last /\ seq \in Nat
  BY <1>1, PinnedCli DEF IInv, TypeOK
<1>3. CASE seq > cli.last
  <2>1. cli.keys => KeysThrough(from, cli.last) /\ progress # None
    <3>1. \A n \in from..cli.last : n \in from..(seq - 1)
      BY <1>2, <1>3
    <3>2. seq # from
      BY <1>2, <1>3
    <3> QED
      BY <1>1, <3>1, <3>2 DEF KeyInv, KeysThrough
  <2>2. \/ cli.keys /\ pc' = "sink" /\ op' = "sort" /\ sorted' = {}
        \/ ~cli.keys /\ pc' = "done" /\ op' = "idle"
    BY <1>1, <1>3 DEF PersistRunMetadata, EarlyReturn, Finish, BeginFinalize
  <2>3. cli'.keys => KeysThrough(from, cli.last)' /\ progress' # None
    BY <1>1, <2>1, ProgressKept DEF KeysThrough
  <2> QED
    BY <1>1, <2>2, <2>3, ProgressKept DEF KeyInv, Finalizing
<1>4. CASE ~(seq > cli.last)
  <2>1. pc' = "fetch" /\ op' = "idle"
    BY <1>1, <1>4 DEF PersistRunMetadata
  <2>2. cli'.keys => Owed(from, seq - 1)'
    BY <1>1 DEF KeyInv, KeysThrough, Owed
  <2> QED
    BY <1>1, <2>1, <2>2, ProgressKept DEF KeyInv, Finalizing
<1> QED
  BY <1>3, <1>4

LEMMA KeyFetchCheckpoint ==
  ASSUME NEW from, IInv(from), KeyInv(from), FetchCheckpoint, Running
  PROVE  KeyInv(from)'
<1>1. pc = "fetch" /\ op = "idle" /\ op' = op /\ UNCHANGED <<raw, out, progress, cli>>
  BY DEF FetchCheckpoint, IInv, ControlInv
<1>2. \A f \in Files : batchKeys'[f] = batchKeys[f] \cup Emits[f][seq]
  BY DEF FetchCheckpoint, AddKeys
<1>3. seq \in Nat /\ from \in Nat /\ from <= seq
  BY <1>1, SeqInRange
<1>4. \A n \in from..seq : n = seq \/ n \in from..(seq - 1)
  BY <1>3
<1>5. cli.keys =>
        \A n \in from..seq : \A f \in Files : \A k \in Emits[f][n] :
          Logged(raw'[f], k) \/ k \in batchKeys'[f]
  BY <1>1, <1>2, <1>4 DEF KeyInv, Owed
<1>6. \/ pc' = "commit" /\ seq' = seq
      \/ pc' = "fetch" /\ seq' = seq + 1
  BY DEF FetchCheckpoint
<1>7. pc' = "fetch" => seq' - 1 = seq
  BY <1>3, <1>6
<1>8. cli'.keys => (pc' = "commit" => Owed(from, seq)') /\ (pc' = "fetch" => Owed(from, seq - 1)')
  BY <1>1, <1>5, <1>6, <1>7 DEF Owed
<1> QED
  BY <1>1, <1>6, <1>8, ProgressKept DEF KeyInv, Finalizing

LEMMA KeyCommitBatch ==
  ASSUME NEW from, IInv(from), KeyInv(from), CommitBatch, Running
  PROVE  KeyInv(from)'
<1>1. pc = "commit" /\ op = "idle" /\ UNCHANGED <<raw, out, progress, cli>>
  BY DEF CommitBatch, IInv, ControlInv
<1>2. CASE cli.keys
  <2>1. pc' = "sink" /\ op' = "append" /\ UNCHANGED <<batchKeys, seq>>
    BY <1>2 DEF CommitBatch, BeginAppend
  <2>2. Owed(from, seq)'
    BY <1>1, <1>2, <2>1 DEF KeyInv, Owed
  <2> QED
    BY <1>1, <1>2, <2>1, <2>2, ProgressKept DEF KeyInv, Finalizing
<1>3. CASE ~cli.keys
  <2>1. pc' \in {"final", "fetch"} /\ op' = op
    BY <1>3 DEF CommitBatch, NextTurn
  <2> QED
    BY <1>1, <1>3, <2>1, ProgressKept DEF KeyInv, Finalizing
<1> QED
  BY <1>2, <1>3

(* A key leaves the pending batch as its text reaches the file.            *)
LEMMA KeyAppendKey ==
  ASSUME NEW from, IInv(from), KeyInv(from), AppendKey, Running
  PROVE  KeyInv(from)'
<1>1. pc = "sink" /\ op = "append" /\ op' = op
      /\ UNCHANGED <<out, progress, pc, cli, seq>>
  BY DEF AppendKey, AppendText, AppendNewline, procVars
<1>2. \A f \in Files : \A k :
        Logged(raw[f], k) \/ k \in batchKeys[f] => Logged(raw'[f], k) \/ k \in batchKeys'[f]
  <2>1. CASE AppendNewline
    BY <2>1, NewlineLogged DEF AppendNewline, IInv
  <2>2. CASE \E f \in Files, k \in Key : AppendText(f, k)
    <3>1. PICK f \in Files, k \in Key : AppendText(f, k)
      BY <2>2
    <3>2. \A g \in Files : \A x \in batchKeys[g] :
            x \in batchKeys'[g] \/ (g = f /\ x = k)
      BY <3>1 DEF AppendText, IInv, TypeOK, SinkTypeOK
    <3> QED
      BY <3>1, <3>2, TextLogged DEF IInv
  <2> QED
    BY <2>1, <2>2 DEF AppendKey
<1>3. Owed(from, seq)'
  BY <1>1, <1>2 DEF KeyInv, Owed
<1> QED
  BY <1>1, <1>3, ProgressKept DEF KeyInv, Finalizing

(* progress.json is written once nothing is owed.                          *)
LEMMA KeyFlushProgress ==
  ASSUME NEW from, IInv(from), KeyInv(from), FlushProgress, Running
  PROVE  KeyInv(from)'
<1>1. /\ op = "append" /\ op' = "idle" /\ pc = "sink" /\ NextTurn /\ batchKeys = NoKeys
      /\ progress' = ProgressOf([first |-> cli.first, last |-> cli.last], seq)
      /\ UNCHANGED <<raw, out, cli>>
  BY DEF FlushProgress, WriteProgress, AllAppended
<1>2. progress' # None /\ progress'.flushed = seq /\ progress'.completed = FALSE
  <2>1. progress' \in Progress
    <3>1. cli \in Invocations /\ seq \in Nat
      BY <1>1 DEF IInv, ControlInv, TypeOK
    <3>2. cli.first \in Nat /\ cli.last \in Nat
      BY <3>1, InvocationType DEF Checkpoints
    <3> QED
      BY <1>1, <3>1, <3>2 DEF ProgressOf, Progress
  <2> QED
    BY <1>1, <2>1, SinkAssumption DEF ProgressOf
<1>3. KeysThrough(from, seq)
  BY <1>1 DEF KeyInv, Owed, KeysThrough, NoKeys
<1>4. FlushedFrom(from)' /\ CompletedFrom(from)'
  BY <1>1, <1>2, <1>3 DEF FlushedFrom, CompletedFrom, SortedThrough, KeysThrough
<1>5. CASE AtLast
  <2>1. pc' = "final" /\ seq = cli.last
    BY <1>1, <1>5 DEF NextTurn, AtLast
  <2>2. KeysThrough(from, cli.last)'
    BY <1>1, <1>3, <2>1 DEF KeysThrough
  <2> QED
    BY <1>1, <1>2, <1>4, <2>1, <2>2 DEF KeyInv, Finalizing
<1>6. CASE ~AtLast
  <2>1. pc' = "fetch" /\ seq' - 1 = seq
    BY <1>1, <1>6 DEF NextTurn, IInv, TypeOK
  <2>2. Owed(from, seq - 1)'
    BY <1>1, <1>3, <2>1 DEF KeysThrough, Owed
  <2> QED
    BY <1>1, <1>4, <2>1, <2>2 DEF KeyInv, Finalizing
<1> QED
  BY <1>5, <1>6

LEMMA KeyPersistFinalMetadata ==
  ASSUME NEW from, IInv(from), KeyInv(from), PersistFinalMetadata, Running
  PROVE  KeyInv(from)'
<1>1. pc = "final" /\ op = "idle" /\ UNCHANGED <<raw, out, progress, cli>>
  BY DEF PersistFinalMetadata, IInv, ControlInv
<1>2. \/ cli.keys /\ pc' = "sink" /\ op' = "sort" /\ sorted' = {}
      \/ ~cli.keys /\ pc' = "done" /\ op' = "idle"
  BY <1>1 DEF PersistFinalMetadata, Finish, BeginFinalize
<1>3. cli'.keys => KeysThrough(from, cli.last)' /\ progress' # None
  BY <1>1 DEF KeyInv, KeysThrough
<1> QED
  BY <1>1, <1>2, <1>3, ProgressKept DEF KeyInv, Finalizing

(* A sorted file has what its raw file has, so what progress.json claims.  *)
LEMMA KeySortUnique ==
  ASSUME NEW from, IInv(from), KeyInv(from), NEW f \in Files, SortUnique(f), FinalizeKeys
  PROVE  KeyInv(from)'
<1>1. /\ pc = "sink" /\ op = "sort" /\ UNCHANGED <<raw, progress, pc, cli>>
      /\ op' = (IF f = Order[4] THEN "complete" ELSE "sort")
      /\ Before(f) \subseteq sorted /\ sorted' = sorted \cup {f} /\ sorted \subseteq Files
  BY DEF SortUnique, FinalizeKeys, procVars, IInv, TypeOK, SinkTypeOK
<1>2. out'[f] = ReadLines(raw[f]) /\ \A g \in Files : g # f => out'[g] = out[g]
  BY DEF SortUnique, IInv, TypeOK, SinkTypeOK
<1>3. FlushedFrom(from)'
  BY <1>1 DEF KeyInv, FlushedFrom, KeysThrough
<1>4. CompletedFrom(from)'
  <2>1. SUFFICES ASSUME progress # None, progress.completed,
                        NEW n \in from..progress.flushed, NEW g \in Files, NEW k \in Emits[g][n]
                 PROVE  \E l \in out'[g] : \E j \in DOMAIN l : l[j] = k
    BY <1>1 DEF CompletedFrom, SortedThrough
  <2>2. CASE g = f
    BY <1>2, <2>1, <2>2 DEF KeyInv, FlushedFrom, KeysThrough, Logged
  <2>3. CASE g # f
    BY <1>2, <2>1, <2>3 DEF KeyInv, CompletedFrom, SortedThrough
  <2> QED
    BY <2>2, <2>3
<1>5. op' = "complete" => sorted' = Files
  BY <1>1, LastFile
<1>6. cli.keys /\ KeysThrough(from, cli.last)' /\ progress' # None /\ \A g \in sorted' : Sorted(g)'
  BY <1>1, <1>2 DEF KeyInv, Finalizing, KeysThrough, Sorted
<1> QED
  BY <1>1, <1>3, <1>4, <1>5, <1>6 DEF KeyInv, Finalizing

LEMMA KeyFinalizeKeys ==
  ASSUME NEW from, IInv(from), KeyInv(from), FinalizeKeys
  PROVE  KeyInv(from)'
<1>1. CASE \E f \in Files : SortUnique(f)
  BY <1>1, KeySortUnique
<1>2. CASE WriteCompleted([first |-> cli.first, last |-> cli.last])
  <2>1. /\ pc = "sink" /\ op = "complete" /\ op' = "manifest" /\ sorted' = sorted
        /\ UNCHANGED <<raw, out, pc, cli>>
    BY <1>2 DEF WriteCompleted, FinalizeKeys, procVars
  <2>2. /\ sorted = Files /\ cli.keys /\ KeysThrough(from, cli.last) /\ progress # None
        /\ \A f \in Files : Sorted(f)
    BY <2>1 DEF KeyInv, Finalizing
  <2>3. progress' \in Progress /\ progress'.flushed = progress.flushed
    <3>1. cli.first \in Nat /\ cli.last \in Nat
      BY InvocationType, <2>1 DEF IInv, ControlInv, Checkpoints
    <3>2. progress.flushed \in Nat
      BY <2>2 DEF IInv, TypeOK, SinkTypeOK, Progress
    <3> QED
      BY <1>2, <2>2, <3>1, <3>2 DEF WriteCompleted, Progress
  <2>4. progress' # None /\ progress'.completed
    BY <1>2, <2>3, SinkAssumption DEF WriteCompleted
  <2>5. FlushedFrom(from)' /\ CompletedFrom(from)'
    BY <2>1, <2>2, <2>3 DEF KeyInv, FlushedFrom, KeysThrough, CompletedFrom, SortedThrough, Sorted, Logged
  <2> QED
    BY <2>1, <2>2, <2>4, <2>5 DEF KeyInv, Finalizing, KeysThrough, Sorted
<1> QED
  BY <1>1, <1>2 DEF FinalizeKeys

LEMMA KeyFinishManifest ==
  ASSUME NEW from, IInv(from), KeyInv(from), FinishManifest, Running
  PROVE  KeyInv(from)'
<1>1. /\ pc = "sink" /\ op = "manifest" /\ pc' = "done" /\ op' = "idle"
      /\ manifest' = [first |-> cli.first, last |-> cli.last]
      /\ UNCHANGED <<raw, out, progress, cli>>
  BY DEF FinishManifest, WriteManifest
<1>2. /\ KeysThrough(from, cli.last)' /\ progress' # None /\ progress'.completed
      /\ \A f \in Files : Sorted(f)'
  BY <1>1 DEF KeyInv, Finalizing, KeysThrough, Sorted
<1> QED
  BY <1>1, <1>2, ProgressKept DEF KeyInv, Finalizing

LEMMA KeyRunning ==
  ASSUME NEW from, IInv(from), KeyInv(from), Running
  PROVE  KeyInv(from)'
BY KeyPersistRunMetadata, KeyFetchCheckpoint, KeyCommitBatch, KeyAppendKey, KeyFlushProgress,
   KeyPersistFinalMetadata, KeyFinalizeKeys, KeyFinishManifest
DEF Running

(* A process that is gone leaves its files as they are.                    *)
LEMMA KeyGone ==
  ASSUME NEW from, IInv(from), KeyInv(from), ProcessGone
  PROVE  KeyInv(from)'
<1>1. pc' = "down" /\ op' = "idle" /\ UNCHANGED <<raw, out, progress>>
  BY DEF ProcessGone, SinkExit, sinkDurable
<1> QED
  BY <1>1, ProgressKept DEF KeyInv, Finalizing

-----------------------------------------------------------------------------
(* Whole lines: no process dies between a text and its newline.            *)

LEMMA LineInit == Init => LineInv
<1> SUFFICES ASSUME Init
             PROVE  LineInv
  OBVIOUS
<1>1. writing = None /\ \A f \in Files : batchKeys[f] = {} /\ out[f] = {}
  BY DEF Init, SinkInit, SinkIdle, NoKeys
<1>2. \A f \in Files : raw[f].lines = {} /\ raw[f].tail = <<>>
  BY DEF Init, SinkInit
<1> QED
  BY <1>1, <1>2 DEF LineInv

(* Steps that leave the files and the pending keys alone.                  *)
LEMMA LineKept ==
  ASSUME LineInv, UNCHANGED <<raw, out, writing>>, stored \subseteq stored',
         writing # None => op' = "append",
         \A f \in Files : batchKeys'[f] \subseteq batchKeys[f],
         stored \cup batch.rows \subseteq stored' \cup batch'.rows
  PROVE  LineInv'
<1>1. \A f, l : Hit(f, l) => Hit(f, l)'
  BY DEF Hit
<1> QED
  BY <1>1 DEF LineInv

LEMMA LineFetchCheckpoint ==
  ASSUME NEW from, IInv(from), LineInv, FetchCheckpoint
  PROVE  LineInv'
<1>1. UNCHANGED <<raw, out, writing, op, stored>>
  BY DEF FetchCheckpoint, dbVars
<1>2. /\ batch'.rows = batch.rows \cup {seq}
      /\ \A f \in Files : batchKeys'[f] = batchKeys[f] \cup Emits[f][seq]
  BY DEF FetchCheckpoint, BatchRows, AddKeys
<1>3. \A f \in Files : \A k \in batchKeys'[f] :
        \E n \in stored' \cup batch'.rows : k \in Emits[f][n]
  BY <1>1, <1>2 DEF LineInv
<1>4. \A f, l : Hit(f, l) => Hit(f, l)'
  BY <1>1 DEF Hit
<1> QED
  BY <1>1, <1>3, <1>4 DEF LineInv

LEMMA LineCommitBatch ==
  ASSUME NEW from, IInv(from), LineInv, CommitBatch
  PROVE  LineInv'
<1>1. /\ UNCHANGED <<raw, out, writing>> /\ stored' = stored \cup batch.rows
      /\ op = "idle" /\ writing = None
  BY DEF CommitBatch, IInv, ControlInv, LineInv
<1>2. \A f \in Files : batchKeys'[f] \subseteq batchKeys[f]
  BY DEF CommitBatch, NextTurn, NoKeys
<1> QED
  BY <1>1, <1>2, LineKept

(* The text of a pending key starts a line, whose tail was empty.          *)
LEMMA LineAppendText ==
  ASSUME NEW from, IInv(from), LineInv, NEW f \in Files, NEW k \in Key, AppendText(f, k),
         UNCHANGED <<dbVars, procVars>>
  PROVE  LineInv'
<1>1. /\ op = "append" /\ writing = None /\ k \in batchKeys[f]
      /\ writing' = f /\ op' = op /\ UNCHANGED <<out, stored, batch>>
  BY DEF AppendText, dbVars, procVars
<1>2. \A g \in Files : raw[g].tail = <<>>
  BY <1>1, SinkAssumption DEF LineInv
<1>3. /\ raw'[f].tail = <<k>> /\ \A g \in Files : raw'[g].lines = raw[g].lines
      /\ \A g \in Files : g # f => raw'[g] = raw[g]
  <2>1. raw[f] \in RawFile
    BY DEF IInv, TypeOK, SinkTypeOK
  <2>2. raw' = [raw EXCEPT ![f] = [raw[f] EXCEPT !.tail = Append(raw[f].tail, k)]]
    BY DEF AppendText
  <2>3. Append(raw[f].tail, k) = <<k>>
    <3>1. Append(<<>>, k) = <<k>>
      OBVIOUS
    <3> QED
      BY <1>2, <3>1
  <2> QED
    BY <2>1, <2>2, <2>3 DEF IInv, TypeOK, SinkTypeOK, RawFile
<1>4. batch.rows = {}
  BY <1>1 DEF IInv, RangeInv, ControlInv
<1>5. Hit(f, <<k>>)'
  BY <1>1, <1>4 DEF LineInv, Hit
<1>6. \A g \in Files : batchKeys'[g] \subseteq batchKeys[g]
  BY DEF AppendText, IInv, TypeOK, SinkTypeOK
<1>7. \A g, l : Hit(g, l) => Hit(g, l)'
  BY <1>1 DEF Hit
<1>8. \A g \in Files : raw'[g].tail # <<>> => writing' = g /\ Hit(g, raw[g].tail)'
  BY <1>1, <1>2, <1>3, <1>5
<1>9. /\ \A g \in Files : \A l \in raw'[g].lines : Hit(g, l)'
      /\ \A g \in Files : out'[g] \subseteq raw'[g].lines
  BY <1>1, <1>3, <1>7 DEF LineInv
<1>10. \A g \in Files : \A x \in batchKeys'[g] :
         \E n \in stored' \cup batch'.rows : x \in Emits[g][n]
  BY <1>1, <1>6 DEF LineInv
<1>11. raw'[writing'].tail # <<>>
  <2>1. <<k>> # <<>>
    OBVIOUS
  <2> QED
    BY <1>1, <1>3, <2>1
<1> QED
  BY <1>1, <1>11, <1>8, <1>9, <1>10 DEF LineInv

(* The newline ends that line.                                             *)
LEMMA LineAppendNewline ==
  ASSUME NEW from, IInv(from), LineInv, AppendNewline, UNCHANGED <<dbVars, procVars>>
  PROVE  LineInv'
<1>1. /\ op = "append" /\ writing # None /\ writing \in Files /\ writing' = None
      /\ UNCHANGED <<out, stored, batch, batchKeys>>
  BY DEF AppendNewline, dbVars, procVars, IInv, TypeOK, SinkTypeOK
<1>2. /\ raw'[writing] = [lines |-> raw[writing].lines \cup {raw[writing].tail}, tail |-> <<>>]
      /\ \A g \in Files : g # writing => raw'[g] = raw[g]
  BY <1>1 DEF AppendNewline, IInv, TypeOK, SinkTypeOK
<1>3. \A g \in Files : raw'[g].tail = <<>>
  BY <1>1, <1>2 DEF LineInv
<1>4. \A g, l : Hit(g, l) => Hit(g, l)'
  BY <1>1 DEF Hit
<1>5. \A g \in Files : \A l \in raw'[g].lines : Hit(g, l)
  BY <1>1, <1>2 DEF LineInv
<1>6. \A g \in Files : out'[g] \subseteq raw'[g].lines
  BY <1>1, <1>2 DEF LineInv
<1>7. \A g \in Files : \A x \in batchKeys'[g] :
         \E n \in stored' \cup batch'.rows : x \in Emits[g][n]
  BY <1>1 DEF LineInv
<1> QED
  BY <1>1, <1>3, <1>4, <1>5, <1>6, <1>7 DEF LineInv

(* A sorted file holds the lines of its raw file, none of them torn.       *)
LEMMA LineFinalizeKeys ==
  ASSUME NEW from, IInv(from), LineInv, FinalizeKeys
  PROVE  LineInv'
<1>1. UNCHANGED <<raw, batchKeys, writing, stored, batch>>
  BY DEF FinalizeKeys, SortUnique, WriteCompleted, dbVars, procVars
<1>2. writing = None
  BY DEF FinalizeKeys, SortUnique, WriteCompleted, LineInv
<1>3. \A f \in Files : raw[f].tail = <<>>
  BY <1>2, SinkAssumption DEF LineInv
<1>4. \A f \in Files : out'[f] = out[f] \/ out'[f] = ReadLines(raw[f])
  BY DEF FinalizeKeys, SortUnique, WriteCompleted, IInv, TypeOK, SinkTypeOK
<1>5. \A f \in Files : out'[f] \subseteq raw'[f].lines
  BY <1>1, <1>3, <1>4 DEF LineInv, ReadLines
<1>6. \A f, l : Hit(f, l) => Hit(f, l)'
  BY <1>1 DEF Hit
<1> QED
  BY <1>1, <1>2, <1>3, <1>5, <1>6 DEF LineInv

LEMMA LineElsewhere ==
  ASSUME NEW from, IInv(from), LineInv,
         PersistRunMetadata \/ FlushProgress \/ PersistFinalMetadata \/ FinishManifest
  PROVE  LineInv'
<1>1. UNCHANGED <<raw, out, stored>> /\ writing = None /\ writing' = None
  <2>1. CASE PersistRunMetadata \/ PersistFinalMetadata
    BY <2>1 DEF PersistRunMetadata, PersistFinalMetadata, IInv, ControlInv, LineInv
  <2>2. CASE FlushProgress \/ FinishManifest
    BY <2>2 DEF FlushProgress, FinishManifest, WriteProgress, WriteManifest, AllAppended,
                dbVars, LineInv
  <2> QED
    BY <2>1, <2>2
<1>2. \/ UNCHANGED <<batchKeys, batch>>
      \/ \A f \in Files : batchKeys'[f] = {}
  BY DEF PersistRunMetadata, PersistFinalMetadata, FlushProgress, NextTurn, FinishManifest,
         WriteManifest, NoKeys
<1>3. \A f \in Files : \A k \in batchKeys'[f] :
        \E n \in stored' \cup batch'.rows : k \in Emits[f][n]
  BY <1>1, <1>2 DEF LineInv
<1>4. \A f, l : Hit(f, l) => Hit(f, l)'
  BY <1>1 DEF Hit
<1> QED
  BY <1>1, <1>3, <1>4 DEF LineInv

LEMMA LineRunning ==
  ASSUME NEW from, IInv(from), LineInv, Running
  PROVE  LineInv'
<1>1. CASE AppendKey
  BY <1>1, LineAppendText, LineAppendNewline DEF AppendKey
<1>2. CASE FetchCheckpoint \/ CommitBatch \/ FinalizeKeys
  BY <1>2, LineFetchCheckpoint, LineCommitBatch, LineFinalizeKeys
<1> QED
  BY <1>1, <1>2, LineElsewhere DEF Running

LEMMA LineBegin ==
  ASSUME NEW from, IInv(from), LineInv, pc \in {"down", "done"},
         NEW c \in Invocations, Begin(c)
  PROVE  LineInv'
<1>1. UNCHANGED <<raw, out, writing, batchKeys, stored, batch>> /\ writing = None
  BY DEF Begin, TouchRawFiles, sinkVolatile, dbVars, IInv, ControlInv, LineInv
<1> QED
  BY <1>1, LineKept

(* The condition: no process dies between a text and its newline.          *)
LEMMA LineGone ==
  ASSUME LineInv, ~KillMidLine, ProcessGone, stored' = stored
  PROVE  LineInv'
<1>1. UNCHANGED <<raw, out>> /\ writing = None /\ writing' = None
      /\ \A f \in Files : batchKeys'[f] = {}
  BY DEF ProcessGone, SinkExit, sinkDurable, NoKeys
<1>2. \A f, l : Hit(f, l) => Hit(f, l)'
  BY DEF Hit
<1> QED
  BY <1>1, <1>2 DEF LineInv
=============================================================================
