--------------------------- MODULE RouteOneProofs ---------------------------
(***************************************************************************)
(* run-route1-benchmark-server.sh, for every source, every set of options, *)
(* every latest checkpoint and every number of attempts and of script      *)
(* runs: the base directory belongs to the range saved in it, the suite is *)
(* given a complete database and complete key files, and two ingests of    *)
(* one range leave the same rows.                                          *)
(*                                                                         *)
(* None of that is inductive.  RouteInv says where the script is           *)
(* (ScriptInv), that every ingest of the base directory begins where the   *)
(* saved range does, so IngestFrom's invariants hold with that checkpoint  *)
(* for `from` (RangeKept), and what the steps done have left (StepsDone).  *)
(***************************************************************************)
EXTENDS RouteOne, IngestProofs

Resetting == {"reset", "rm db-b", "rm keys", "rm config"}
NoLines == [f \in Files |-> [lines |-> {}, tail |-> <<>>]]
NoKeyFiles == raw = NoLines /\ out = NoKeys /\ progress = None /\ manifest = None

(* Where the script is says which database is the ingest's, what its       *)
(* process was told, and how much of the base directory is gone.           *)
ScriptInv ==
  /\ stage \in {"db-a", "db-b"} => current = stage
  /\ stage \in Resetting \cup {"config", "save", "write"} => current = "db-a"
  /\ pc # "down" => stage \in {"db-a", "db-b"} /\ cli = CommandLine(config, stage = "db-a")
  /\ pc = "down" => cli = None /\ SinkIdle /\ batch = NoBatch
  /\ stage \in {"db-a", "db-b", "suite", "bench"} => config \in Ranges /\ range = config
  /\ stage = "save" => config = None /\ range \in Ranges
  /\ stage = "write" => config = Torn /\ range \in Ranges
  /\ stage \in Resetting \ {"reset"} => DbA = EmptyDatabase
  /\ stage \in Resetting \ {"reset", "rm db-b"} => DbB = EmptyDatabase
  /\ stage = "rm config" => NoKeyFiles
  /\ config \notin Ranges => DbA = EmptyDatabase /\ DbB = EmptyDatabase /\ NoKeyFiles

(* What IngestFrom says of the database at work, for the one that waits.   *)
WaitsFrom(db, from) ==
  /\ db.meta.watermark # None =>
       /\ from..db.meta.watermark \subseteq db.stored
       /\ \A n \in from..db.meta.watermark : \A o \in Emits["object_ids"][n] :
            db.lastSeen[o] # None /\ db.lastSeen[o] >= n
  /\ \A o \in Key : db.lastSeen[o] # None =>
       db.lastSeen[o] \in db.stored /\ o \in Emits["object_ids"][db.lastSeen[o]]

(* Everything there is of the saved range.                                 *)
Within(db, r) ==
  /\ db.stored \subseteq r.first..r.last
  /\ db.meta.rangeStart \in {None, r.first}
  /\ db.meta.watermark # None => db.meta.watermark <= r.last

FromInv(from) == IInv(from) /\ SeenInv(from) /\ KeyInv(from)

Kept(r) ==
  /\ FromInv(r.first)
  /\ WaitsFrom(other, r.first)
  /\ Within(Database, r) /\ Within(other, r)
  /\ progress # None => progress.first = r.first

RangeKept == \A r \in Ranges : config = r => Kept(r)

(* A database the ingest of the range r ended well on.                     *)
Complete(db, r) ==
  /\ r.first..r.last \subseteq db.stored
  /\ db.meta.watermark = r.last
  /\ db.meta.rangeStart = r.first /\ db.meta.rangeEnd = r.last

KeysReady(r) ==
  /\ progress # None /\ progress.completed
  /\ manifest = [first |-> r.first, last |-> r.last]
  /\ SortedThrough(r.first, r.last)

StepsDoneFor(r) ==
  /\ stage \in {"db-b", "suite", "bench"} => Complete(DbA, r) /\ KeysReady(r)
  /\ stage = "suite" /\ opts.compare => Complete(DbB, r)

StepsDone == \A r \in Ranges : range = r => StepsDoneFor(r)

OtherTypeOK ==
  other \in [stored : SUBSET Checkpoints, lastSeen : [Key -> Opt(Checkpoints)], meta : Meta]

RouteInv == RouteTypeOK /\ OtherTypeOK /\ ControlInv /\ ScriptInv /\ RangeKept /\ StepsDone

-----------------------------------------------------------------------------
(* Facts about ranges, databases and the variables of the ingest.          *)

LEMMA NoRange == None \notin Ranges /\ Torn \notin Ranges
BY RouteOneAssumption

(* A range is one of the source, and a command line can ask for it.        *)
LEMMA RangeFacts ==
  ASSUME NEW r \in Ranges
  PROVE  /\ r.first \in Checkpoints /\ r.last \in Checkpoints
         /\ r.first \in Nat /\ r.last \in Nat /\ r.first <= r.last
         /\ r # None /\ r # Torn
         /\ \A k \in BOOLEAN :
              /\ CommandLine(r, k) \in Invocations
              /\ CommandLine(r, k).first = r.first
              /\ CommandLine(r, k).last = r.last
              /\ CommandLine(r, k).keys = k
<1>1. \A k \in BOOLEAN :
        /\ CommandLine(r, k) \in Invocations
        /\ CommandLine(r, k).first = r.first
        /\ CommandLine(r, k).last = r.last
        /\ CommandLine(r, k).keys = k
  <2> TAKE k \in BOOLEAN
  <2>1. CommandLine(r, k) \in Invocations
    BY RouteOneAssumption
  <2> QED
    BY <2>1 DEF CommandLine
<1>2. /\ r.first \in Checkpoints /\ r.last \in Checkpoints
      /\ r.first <= r.last
  BY <1>1, InvocationType
<1> QED
  BY <1>1, <1>2, NoRange DEF Checkpoints

LEMMA RequestIsRange ==
  ASSUME NEW o \in Options, o.request # None
  PROVE  o.request \in Ranges
BY DEF Ranges

LEMMA LatestIsRange ==
  ASSUME NEW l \in Latest
  PROVE  LatestRange(l) \in Ranges
BY DEF Ranges

Databases == [stored : SUBSET Checkpoints, lastSeen : [Key -> Opt(Checkpoints)], meta : Meta]

LEMMA DatabaseType == TypeOK => Database \in Databases
BY DEF TypeOK, Database, Databases

LEMMA EmptyDatabaseType == EmptyDatabase \in Databases
BY DEF EmptyDatabase, Databases, Meta, Opt

(* Changing the database at work changes neither of the two.               *)
LEMMA WorkOnSwaps ==
  ASSUME OtherTypeOK, current \in {"db-a", "db-b"}, NEW db \in {"db-a", "db-b"}, WorkOn(db)
  PROVE  /\ current' = db
         /\ DbA' = DbA /\ DbB' = DbB
         /\ \/ Database' = Database /\ other' = other
            \/ Database' = other /\ other' = Database
<1>1. other = [stored |-> other.stored, lastSeen |-> other.lastSeen, meta |-> other.meta]
  BY DEF OtherTypeOK
<1>2. CASE db = current
  BY <1>2 DEF WorkOn, DbA, DbB, Database, dbVars
<1>3. CASE db # current
  <2>1. Database' = other /\ other' = Database /\ current' = db
    BY <1>1, <1>3 DEF WorkOn, Database
  <2> QED
    BY <1>3, <2>1 DEF DbA, DbB
<1> QED
  BY <1>2, <1>3

LEMMA DatabasesKept ==
  ASSUME UNCHANGED <<dbVars, current, other>>
  PROVE  Database' = Database /\ DbA' = DbA /\ DbB' = DbB
BY DEF dbVars, Database, DbA, DbB

(* Steps of the script alone leave the ingest as it is.                    *)
LEMMA IngestKept ==
  ASSUME UNCHANGED vars
  PROVE  /\ TypeOK => TypeOK'
         /\ ControlInv => ControlInv'
         /\ UNCHANGED <<sinkVars, dbVars, procVars>>
         /\ UNCHANGED <<raw, out, progress, manifest, batchKeys, writing, sorted, op>>
         /\ UNCHANGED <<stored, lastSeen, meta, pc, cli, seq, batch, runs>>
BY DEF vars, sinkVars, dbVars, procVars, TypeOK, SinkTypeOK, ControlInv

LEMMA InvariantsKept ==
  ASSUME UNCHANGED vars, NEW from, FromInv(from)
  PROVE  FromInv(from)'
<1>1. IInv(from) /\ SeenInv(from) /\ KeyInv(from)
  BY DEF FromInv
<1>2. /\ UNCHANGED <<raw, out, progress, manifest, batchKeys, writing, sorted, op>>
      /\ UNCHANGED <<stored, lastSeen, meta, pc, cli, seq, batch, runs>>
  BY IngestKept
<1>3. IInv(from)'
  <2>1. TypeOK' /\ ControlInv'
    BY <1>1, IngestKept DEF IInv
  <2>2. PinnedTo(from)'
    BY <1>1, <1>2 DEF IInv, PinnedTo
  <2>3. RangeInv(from)'
    BY <1>1, <1>2 DEF IInv, RangeInv, CoveredFrom, BatchFrom, Finalizing
  <2> QED
    BY <2>1, <2>2, <2>3 DEF IInv
<1>4. SeenInv(from)'
  BY <1>1, <1>2, SeenKept DEF SeenInv, SeenThrough, LastWrite
<1>5. KeyInv(from)'
  BY <1>1, <1>2 DEF KeyInv, FlushedFrom, CompletedFrom, KeysThrough, SortedThrough, Owed,
                    Sorted, Finalizing
<1> QED
  BY <1>3, <1>4, <1>5 DEF FromInv

(* While no process runs, the invariants say what the files say.           *)
AtRest == pc = "down" /\ cli = None /\ SinkIdle /\ batch = NoBatch

FilesFrom(from) == FlushedFrom(from) /\ CompletedFrom(from)

LEMMA WaitsIsSeen ==
  ASSUME NEW from
  PROVE  WaitsFrom(Database, from) <=> CoveredFrom(from) /\ LastSeenFrom(from)
BY DEF WaitsFrom, Database, CoveredFrom, LastSeenFrom

LEMMA FromAtRest ==
  ASSUME TypeOK, ControlInv, AtRest, NEW from \in Checkpoints,
         WaitsFrom(Database, from), FilesFrom(from)
  PROVE  FromInv(from)
<1>1. CoveredFrom(from) /\ LastSeenFrom(from)
  BY WaitsIsSeen
<1>2. pc = "down" /\ op = "idle" /\ batch.rows = {} /\ \A o \in Key : batch.seen[o] = None
  BY DEF AtRest, SinkIdle, NoBatch
<1>3. IInv(from)
  BY <1>1, <1>2 DEF AtRest, IInv, PinnedTo, RangeInv, Finalizing
<1>4. SeenInv(from)
  BY <1>1, <1>2 DEF SeenInv
<1>5. KeyInv(from)
  BY <1>2 DEF KeyInv, FilesFrom, Finalizing
<1> QED
  BY <1>3, <1>4, <1>5 DEF FromInv

LEMMA FromGives ==
  ASSUME NEW from, FromInv(from)
  PROVE  WaitsFrom(Database, from) /\ FilesFrom(from) /\ TypeOK /\ ControlInv
BY WaitsIsSeen DEF FromInv, IInv, RangeInv, SeenInv, KeyInv, FilesFrom

LEMMA EmptyWaits ==
  ASSUME NEW from
  PROVE  WaitsFrom(EmptyDatabase, from)
BY DEF WaitsFrom, EmptyDatabase

LEMMA EmptyWithin ==
  ASSUME NEW r
  PROVE  Within(EmptyDatabase, r)
BY DEF Within, EmptyDatabase

LEMMA NoFiles ==
  ASSUME NoKeyFiles, NEW from
  PROVE  FilesFrom(from)
BY DEF NoKeyFiles, FilesFrom, FlushedFrom, CompletedFrom

LEMMA GoneAtRest == ProcessGone => AtRest'
BY DEF ProcessGone, SinkExit, AtRest, SinkIdle

(* What a process that is gone leaves.                                     *)
LEMMA FilesStay ==
  ASSUME UNCHANGED sinkDurable, NEW from, FilesFrom(from)
  PROVE  FilesFrom(from)'
BY DEF sinkDurable, FilesFrom, FlushedFrom, CompletedFrom, KeysThrough, SortedThrough

-----------------------------------------------------------------------------
(* Types.                                                                  *)

(* The ingest's own variables, over every step of the script.              *)
LEMMA IngestTypes ==
  ASSUME RouteInv, [RouteNext]_routeVars
  PROVE  TypeOK' /\ ControlInv'
<1>1. TypeOK /\ ControlInv /\ OtherTypeOK
  BY DEF RouteInv, RouteTypeOK
<1>2. CASE UNCHANGED vars
  BY <1>1, <1>2, IngestKept
<1>3. CASE ResetPrimary
  <2>1. /\ stored' \in SUBSET Checkpoints /\ lastSeen' \in [Key -> Opt(Checkpoints)]
        /\ meta' \in Meta
    BY <1>3 DEF ResetPrimary, EmptyDatabase, Meta, Opt
  <2>2. UNCHANGED <<sinkVars, procVars>>
    BY <1>3 DEF ResetPrimary
  <2> QED
    BY <1>1, <2>1, <2>2 DEF sinkVars, procVars, TypeOK, SinkTypeOK, ControlInv
<1>4. CASE ResetKeys
  <2>1. /\ raw' \in [Files -> RawFile] /\ out' \in [Files -> SUBSET Lines]
        /\ progress' = None /\ manifest' = None
    <3>1. raw' \in [Files -> RawFile]
      <4>1. [lines |-> {}, tail |-> <<>>] \in RawFile
        BY DEF RawFile, Lines
      <4> QED
        BY <1>4, <4>1 DEF ResetKeys
    <3> QED
      BY <1>4, <3>1 DEF ResetKeys, NoKeys
  <2>2. UNCHANGED <<sinkVolatile, dbVars, procVars>>
    BY <1>4 DEF ResetKeys
  <2> QED
    BY <1>1, <2>1, <2>2 DEF sinkVolatile, dbVars, procVars, TypeOK, SinkTypeOK, ControlInv
<1>5. CASE Attempt
  <2>1. range \in Ranges
    BY <1>5 DEF Attempt, RouteInv, ScriptInv, RouteTypeOK
  <2> QED
    BY <1>1, <1>5, <2>1, RangeFacts, TypeBegin DEF Attempt
<1>6. CASE IngestStep
  BY <1>1, <1>6, TypeRunning DEF IngestStep
<1>7. CASE AttemptFails \/ CompareDone
  BY <1>1, <1>7, TypeGone, RouteOneAssumption
  DEF AttemptFails, CompareDone, StepFailed, TypeOK, dbVars
<1>8. CASE PrimaryDone \/ RunScriptAgain
  <2>1. runs' \in Nat /\ ProcessGone
    BY <1>8 DEF PrimaryDone, RunScriptAgain
  <2>2. stored' \in SUBSET Checkpoints /\ lastSeen' \in [Key -> Opt(Checkpoints)] /\ meta' \in Meta
    BY <1>1, <1>8 DEF PrimaryDone, RunScriptAgain, WorkOn, dbVars, TypeOK, OtherTypeOK
  <2> QED
    BY <1>1, <2>1, <2>2, TypeGone
<1> QED
  BY <1>2, <1>3, <1>4, <1>5, <1>6, <1>7, <1>8
  DEF RouteNext, Reset, Configure, ResetCompare, ResetConfig, ReuseConfig, ResolveRange,
      ResolveFails, TruncateConfig, WriteConfig, Compare, routeVars

LEMMA OtherTypes ==
  ASSUME RouteInv, [RouteNext]_routeVars
  PROVE  OtherTypeOK'
<1>1. OtherTypeOK /\ Database \in Databases
  BY DatabaseType DEF RouteInv, RouteTypeOK
<1>2. CASE ResetCompare
  BY <1>2, EmptyDatabaseType DEF ResetCompare, OtherTypeOK, Databases
<1>3. CASE PrimaryDone \/ RunScriptAgain
  BY <1>1, <1>3 DEF PrimaryDone, RunScriptAgain, WorkOn, OtherTypeOK, Databases
<1>4. CASE other' = other
  BY <1>1, <1>4 DEF OtherTypeOK
<1> QED
  BY <1>2, <1>3, <1>4
  DEF RouteNext, Reset, Configure, ResetPrimary, ResetKeys, ResetConfig, ReuseConfig, ResolveRange,
      ResolveFails, TruncateConfig, WriteConfig, Attempt, IngestStep, AttemptFails, CompareDone,
      Compare, routeVars, scriptVars

(* No step of a process counts an attempt.                                 *)
LEMMA RunningRuns == Running => runs' = runs
BY DEF Running, PersistRunMetadata, FetchCheckpoint, CommitBatch, AppendKey, FlushProgress,
       PersistFinalMetadata, FinalizeKeys, FinishManifest, procVars

LEMMA ScriptTypes ==
  ASSUME RouteInv, [RouteNext]_routeVars
  PROVE  /\ opts' \in Options
         /\ config' \in Ranges \cup {None, Torn}
         /\ range' \in Ranges \cup {None}
         /\ current' \in {"db-a", "db-b"}
         /\ runs' \in 0..MaxRuns
         /\ scripts' \in 1..MaxScripts
<1>1. /\ opts \in Options /\ config \in Ranges \cup {None, Torn} /\ range \in Ranges \cup {None}
      /\ current \in {"db-a", "db-b"} /\ runs \in 0..MaxRuns /\ scripts \in 1..MaxScripts
      /\ ScriptInv
  BY DEF RouteInv, RouteTypeOK
<1>2. MaxRuns \in Nat /\ MaxRuns > 0 /\ MaxScripts \in Nat
  BY IngestAssumption, RouteOneAssumption
<1>3. runs' \in 0..MaxRuns
  <2>1. CASE Attempt
    BY <1>1, <1>2, <2>1 DEF Attempt, Begin
  <2>2. CASE AttemptFails \/ PrimaryDone \/ CompareDone \/ RunScriptAgain
    BY <1>1, <1>2, <2>2 DEF AttemptFails, StepFailed, PrimaryDone, CompareDone, RunScriptAgain
  <2>3. CASE runs' = runs
    BY <1>1, <2>3
  <2> QED
    BY <2>1, <2>2, <2>3, RunningRuns, IngestKept
    DEF RouteNext, Reset, Configure, ResetPrimary, ResetCompare, ResetKeys, ResetConfig,
        ReuseConfig, ResolveRange, ResolveFails, TruncateConfig, WriteConfig, IngestStep, Compare,
        routeVars, procVars
<1>4. scripts' \in 1..MaxScripts /\ opts' \in Options
  <2>1. CASE RunScriptAgain
    BY <1>1, <1>2, <2>1 DEF RunScriptAgain
  <2>2. CASE UNCHANGED <<scripts, opts>>
    BY <1>1, <2>2
  <2> QED
    BY <2>1, <2>2
    DEF RouteNext, Reset, Configure, ResetPrimary, ResetCompare, ResetKeys, ResetConfig,
        ReuseConfig, ResolveRange, ResolveFails, TruncateConfig, WriteConfig, Attempt, IngestStep,
        AttemptFails, PrimaryDone, CompareDone, Compare, routeVars, scriptVars
<1>5. range' \in Ranges \cup {None}
  <2>1. CASE ReuseConfig
    BY <1>1, <2>1 DEF ReuseConfig, Accepted
  <2>2. CASE ResolveRange
    BY <1>1, <2>2, RequestIsRange, LatestIsRange DEF ResolveRange
  <2>3. CASE RunScriptAgain
    BY <2>3 DEF RunScriptAgain
  <2>4. CASE range' = range
    BY <1>1, <2>4
  <2> QED
    BY <2>1, <2>2, <2>3, <2>4
    DEF RouteNext, Reset, Configure, ResetPrimary, ResetCompare, ResetKeys, ResetConfig,
        ResolveFails, TruncateConfig, WriteConfig, Attempt, IngestStep,
        AttemptFails, PrimaryDone, CompareDone, Compare, routeVars, scriptVars
<1>6. config' \in Ranges \cup {None, Torn}
  <2>1. CASE WriteConfig
    BY <1>1, <2>1 DEF WriteConfig
  <2>2. CASE ~WriteConfig
    BY <1>1, <2>2
    DEF RouteNext, Reset, Configure, ResetPrimary, ResetCompare, ResetKeys, ResetConfig,
        ReuseConfig, ResolveRange, ResolveFails, TruncateConfig, Attempt, IngestStep,
        AttemptFails, PrimaryDone, CompareDone, Compare, RunScriptAgain, routeVars, scriptVars
  <2> QED
    BY <2>1, <2>2
<1>7. current' \in {"db-a", "db-b"}
  BY <1>1
  DEF RouteNext, Reset, Configure, ResetPrimary, ResetCompare, ResetKeys, ResetConfig,
      ReuseConfig, ResolveRange, ResolveFails, TruncateConfig, WriteConfig, Attempt, IngestStep,
      AttemptFails, PrimaryDone, CompareDone, Compare, RunScriptAgain, WorkOn, routeVars, scriptVars
<1> QED
  BY <1>3, <1>4, <1>5, <1>6, <1>7

LEMMA StageType ==
  ASSUME RouteInv, [RouteNext]_routeVars
  PROVE  stage' \in {"reset", "rm db-b", "rm keys", "rm config", "config", "save", "write",
                     "db-a", "db-b", "suite", "bench", "failed"}
BY DEF RouteInv, RouteTypeOK, RouteNext, Reset, Configure, ResetPrimary, ResetCompare, ResetKeys,
       ResetConfig, ReuseConfig, ResolveRange, ResolveFails, TruncateConfig, WriteConfig, Attempt,
       IngestStep, AttemptFails, StepFailed, PrimaryDone, CompareDone, Compare, RunScriptAgain,
       routeVars, scriptVars

LEMMA RouteTypes ==
  ASSUME RouteInv, [RouteNext]_routeVars
  PROVE  RouteTypeOK' /\ OtherTypeOK' /\ ControlInv'
<1>1. other'.stored \in SUBSET Checkpoints /\ other'.meta \in Meta
  BY OtherTypes DEF OtherTypeOK
<1> QED
  BY <1>1, IngestTypes, OtherTypes, ScriptTypes, StageType DEF RouteTypeOK

-----------------------------------------------------------------------------
(* Where the script is: one step per action.                               *)

(* A process that works has its command line and stays up.                 *)
LEMMA RunningStays ==
  ASSUME Running
  PROVE  pc # "down" /\ pc' # "down" /\ cli' = cli
BY DEF Running, PersistRunMetadata, EarlyReturn, Finish, FetchCheckpoint, CommitBatch, NextTurn,
       AppendKey, FlushProgress, PersistFinalMetadata, FinalizeKeys, FinishManifest, procVars

LEMMA ScriptKept ==
  ASSUME RouteInv, [RouteNext]_routeVars
  PROVE  ScriptInv'
<1>1. /\ ScriptInv /\ OtherTypeOK /\ current \in {"db-a", "db-b"}
      /\ config \in Ranges \cup {None, Torn}
      /\ opts \in Options /\ None \notin Ranges /\ Torn \notin Ranges
  BY NoRange DEF RouteInv, RouteTypeOK
<1>2. CASE ResetPrimary
  <2>1. current = "db-a" /\ UNCHANGED <<sinkVars, procVars, config, range, current, other>>
    BY <1>1, <1>2 DEF ResetPrimary, ScriptInv, Resetting
  <2>2. DbA' = EmptyDatabase /\ DbB' = DbB
    BY <1>2, <2>1 DEF ResetPrimary, DbA, DbB, Database, EmptyDatabase
  <2>3. pc' = "down" /\ cli' = None /\ SinkIdle' /\ batch' = NoBatch
        /\ (NoKeyFiles => NoKeyFiles')
    BY <1>1, <1>2, <2>1 DEF ResetPrimary, ScriptInv, sinkVars, procVars, SinkIdle, NoKeyFiles
  <2> QED
    BY <1>1, <1>2, <2>1, <2>2, <2>3 DEF ResetPrimary, ScriptInv, Resetting
<1>3. CASE ResetCompare
  <2>1. current = "db-a" /\ UNCHANGED <<vars, config, range, current>>
    BY <1>1, <1>3 DEF ResetCompare, ScriptInv, Resetting
  <2>2. DbA' = DbA /\ DbB' = EmptyDatabase
    BY <1>3, <2>1 DEF ResetCompare, DbA, DbB, Database, vars, dbVars
  <2>3. pc' = "down" /\ cli' = None /\ SinkIdle' /\ batch' = NoBatch
        /\ (NoKeyFiles => NoKeyFiles')
    BY <1>1, <1>3, <2>1, IngestKept DEF ResetCompare, ScriptInv, SinkIdle, NoKeyFiles
  <2> QED
    BY <1>1, <1>3, <2>1, <2>2, <2>3 DEF ResetCompare, ScriptInv, Resetting
<1>4. CASE ResetKeys
  <2>1. current = "db-a" /\ UNCHANGED <<sinkVolatile, dbVars, procVars, config, range, current, other>>
    BY <1>1, <1>4 DEF ResetKeys, ScriptInv, Resetting
  <2>2. DbA' = DbA /\ DbB' = DbB
    BY <2>1, DatabasesKept
  <2>3. pc' = "down" /\ cli' = None /\ SinkIdle' /\ batch' = NoBatch /\ NoKeyFiles'
    BY <1>1, <1>4, <2>1 DEF ResetKeys, ScriptInv, sinkVolatile, procVars, SinkIdle, NoKeyFiles, NoLines
  <2> QED
    BY <1>1, <1>4, <2>1, <2>2, <2>3 DEF ResetKeys, ScriptInv, Resetting
<1>5. CASE ResetConfig \/ Configure \/ Compare
  <2>1. UNCHANGED <<vars, current, other>>
    BY <1>5 DEF ResetConfig, Configure, ReuseConfig, ResolveRange, ResolveFails, TruncateConfig,
                WriteConfig, Compare
  <2>2. /\ DbA' = DbA /\ DbB' = DbB
        /\ UNCHANGED <<pc, cli, batch>>
        /\ (SinkIdle => SinkIdle') /\ (NoKeyFiles => NoKeyFiles')
    BY <2>1, IngestKept, DatabasesKept DEF vars, SinkIdle, NoKeyFiles
  <2>3. CASE ResetConfig
    BY <1>1, <2>1, <2>2, <2>3 DEF ResetConfig, ScriptInv, Resetting
  <2>4. CASE ReuseConfig
    BY <1>1, <2>1, <2>2, <2>4 DEF ReuseConfig, Accepted, ScriptInv, Resetting
  <2>5. CASE ResolveRange
    <3>1. range' \in Ranges
      BY <1>1, <2>5, RequestIsRange, LatestIsRange DEF ResolveRange
    <3> QED
      BY <1>1, <2>1, <2>2, <2>5, <3>1 DEF ResolveRange, ScriptInv, Resetting
  <2>6. CASE ResolveFails
    BY <1>1, <2>1, <2>2, <2>6 DEF ResolveFails, ScriptInv, Resetting
  <2>7. CASE TruncateConfig
    BY <1>1, <2>1, <2>2, <2>7 DEF TruncateConfig, ScriptInv, Resetting
  <2>8. CASE WriteConfig
    BY <1>1, <2>1, <2>2, <2>8 DEF WriteConfig, ScriptInv, Resetting
  <2>9. CASE Compare
    BY <1>1, <2>1, <2>2, <2>9 DEF Compare, ScriptInv, Resetting
  <2> QED
    BY <1>5, <2>3, <2>4, <2>5, <2>6, <2>7, <2>8, <2>9 DEF Configure
<1>6. CASE Attempt
  <2>1. /\ stage = current /\ stage' = stage /\ range = config /\ config \in Ranges
        /\ UNCHANGED <<config, range, current, other>>
        /\ pc' = "meta" /\ cli' = CommandLine(range, stage = "db-a")
    BY <1>1, <1>6 DEF Attempt, Begin, scriptVars, ScriptInv
  <2> QED
    BY <1>1, <2>1 DEF ScriptInv, Resetting
<1>7. CASE IngestStep
  <2>1. /\ pc # "down" /\ pc' # "down" /\ cli' = cli
        /\ UNCHANGED <<stage, config, range, current, other>>
    BY <1>7, RunningStays DEF IngestStep, scriptVars
  <2>2. stage \in {"db-a", "db-b"} /\ config \in Ranges
    BY <1>1, <2>1 DEF ScriptInv
  <2> QED
    BY <1>1, <2>1, <2>2 DEF ScriptInv, Resetting
<1>8. CASE AttemptFails \/ CompareDone
  <2>1. /\ ProcessGone /\ UNCHANGED <<config, range, current, other, dbVars>>
        /\ stage' \in {stage, "failed", "suite"} /\ stage \in {"db-a", "db-b"}
        /\ pc # "down"
    BY <1>1, <1>8 DEF AttemptFails, StepFailed, CompareDone, ScriptInv
  <2>2. config \in Ranges /\ range = config
    BY <1>1, <2>1 DEF ScriptInv
  <2> QED
    BY <1>1, <2>1, <2>2, GoneAtRest DEF ScriptInv, Resetting, AtRest
<1>9. CASE PrimaryDone
  <2>1. /\ ProcessGone /\ stage = "db-a" /\ UNCHANGED <<config, range>>
        /\ config \in Ranges /\ range = config
    BY <1>1, <1>9 DEF PrimaryDone, ScriptInv
  <2>2. stage' = "suite" \/ (stage' = "db-b" /\ current' = "db-b")
    BY <1>9 DEF PrimaryDone, WorkOn
  <2> QED
    BY <1>1, <2>1, <2>2, GoneAtRest DEF ScriptInv, Resetting, AtRest
<1>10. CASE RunScriptAgain
  <2>1. /\ ProcessGone /\ stage' \in {"reset", "config"} /\ config' = config
        /\ WorkOn("db-a")
    BY <1>10 DEF RunScriptAgain
  <2>2. current' = "db-a" /\ DbA' = DbA /\ DbB' = DbB
    BY <1>1, <2>1, WorkOnSwaps
  <2>3. NoKeyFiles => NoKeyFiles'
    BY <2>1 DEF ProcessGone, SinkExit, sinkDurable, NoKeyFiles
  <2> QED
    BY <1>1, <2>1, <2>2, <2>3, GoneAtRest DEF ScriptInv, Resetting, AtRest
<1>11. CASE UNCHANGED routeVars
  <2>1. UNCHANGED <<vars, stage, opts, config, range, current, other>>
    BY <1>11 DEF routeVars, scriptVars
  <2>2. /\ DbA' = DbA /\ DbB' = DbB
        /\ UNCHANGED <<pc, cli, batch>>
        /\ (SinkIdle => SinkIdle') /\ (NoKeyFiles => NoKeyFiles')
    BY <2>1, IngestKept, DatabasesKept DEF vars, SinkIdle, NoKeyFiles
  <2> QED
    BY <1>1, <2>1, <2>2 DEF ScriptInv
<1> QED
  BY <1>2, <1>3, <1>4, <1>5, <1>6, <1>7, <1>8, <1>9, <1>10, <1>11 DEF RouteNext, Reset

-----------------------------------------------------------------------------
(* The base directory and the saved range.                                 *)

(* The ingest of r stores nothing outside r.                               *)
LEMMA RunningWithin ==
  ASSUME NEW r \in Ranges, Kept(r), NEW k \in BOOLEAN, cli = CommandLine(r, k), Running
  PROVE  /\ Within(Database, r)'
         /\ (progress # None => progress.first = r.first)'
<1>1. /\ cli.first = r.first /\ cli.last = r.last /\ r.first \in Nat /\ r.last \in Nat
      /\ Within(Database, r)
      /\ progress # None => progress.first = r.first
  BY RangeFacts DEF Kept
<1>2. IInv(r.first) /\ TypeOK /\ ControlInv /\ PinnedTo(r.first) /\ RangeInv(r.first)
  BY DEF Kept, FromInv, IInv
<1>3. /\ stored \subseteq r.first..r.last
      /\ meta.rangeStart \in {None, r.first}
      /\ meta.watermark # None => meta.watermark <= r.last
  BY <1>1 DEF Within, Database
<1>4. Within(Database, r)'
  <2>1. CASE CommitBatch
    <3>1. PICK lo \in Checkpoints :
            /\ r.first <= lo /\ lo <= seq /\ seq \in Checkpoints
            /\ stored' = stored \cup lo..seq
            /\ meta'.watermark = seq
      BY <1>2, <2>1, CommitAdvances
    <3>2. seq <= r.last /\ seq \in Nat /\ lo \in Nat
      BY <1>1, <1>2, <2>1, <3>1 DEF CommitBatch, ControlInv, Checkpoints
    <3>3. meta'.rangeStart = meta.rangeStart
      BY <1>2, <2>1 DEF CommitBatch, TypeOK, Meta
    <3>4. stored' \subseteq r.first..r.last
      BY <1>1, <1>3, <3>1, <3>2
    <3> QED
      BY <1>3, <3>1, <3>2, <3>3, <3>4 DEF Within, Database
  <2>2. CASE PersistRunMetadata \/ PersistFinalMetadata
    <3>1. stored' = stored /\ meta'.watermark = meta.watermark /\ meta'.rangeStart = cli.first
      BY <1>2, <2>2 DEF PersistRunMetadata, PersistFinalMetadata, RunMetadata, TypeOK, Meta
    <3> QED
      BY <1>1, <1>3, <3>1 DEF Within, Database
  <2>3. CASE UNCHANGED dbVars
    BY <1>3, <2>3 DEF dbVars, Within, Database
  <2> QED
    BY <2>1, <2>2, <2>3
    DEF Running, FetchCheckpoint, AppendKey, FlushProgress, FinalizeKeys, FinishManifest
<1>5. (progress # None => progress.first = r.first)'
  <2>1. CASE FlushProgress
    BY <1>1, <2>1 DEF FlushProgress, WriteProgress, ProgressOf
  <2>2. CASE FinalizeKeys
    BY <1>1, <2>2 DEF FinalizeKeys, SortUnique, WriteCompleted
  <2>3. CASE progress' = progress
    BY <1>1, <2>3
  <2> QED
    BY <2>1, <2>2, <2>3
    DEF Running, PersistRunMetadata, FetchCheckpoint, CommitBatch, AppendKey, AppendText,
        AppendNewline, PersistFinalMetadata, FinishManifest, WriteManifest
<1> QED
  BY <1>4, <1>5

(* A process that is gone leaves two databases and the files.              *)
LEMMA KeptAtRest ==
  ASSUME TypeOK, ControlInv, AtRest, NEW r \in Ranges,
         WaitsFrom(Database, r.first), FilesFrom(r.first), WaitsFrom(other, r.first),
         Within(Database, r), Within(other, r),
         progress # None => progress.first = r.first
  PROVE  Kept(r)
BY FromAtRest, RangeFacts DEF Kept

LEMMA KeptGone ==
  ASSUME RouteInv, [RouteNext]_routeVars, ProcessGone, NEW r \in Ranges, Kept(r),
         \/ Database' = Database /\ other' = other
         \/ Database' = other /\ other' = Database
  PROVE  Kept(r)'
<1>1. TypeOK' /\ ControlInv' /\ AtRest'
  BY IngestTypes, GoneAtRest
<1>2. WaitsFrom(Database, r.first) /\ WaitsFrom(other, r.first) /\ FilesFrom(r.first)
      /\ Within(Database, r) /\ Within(other, r)
  BY FromGives DEF Kept
<1>3. UNCHANGED sinkDurable
  BY DEF ProcessGone, SinkExit
<1>4. FilesFrom(r.first)' /\ (progress # None => progress.first = r.first)'
  BY <1>2, <1>3, FilesStay DEF sinkDurable, Kept
<1>5. WaitsFrom(Database, r.first)' /\ WaitsFrom(other, r.first)'
      /\ Within(Database, r)' /\ Within(other, r)'
  BY <1>2
<1> QED
  BY <1>1, <1>4, <1>5, KeptAtRest, PTL

LEMMA RangeKeptKept ==
  ASSUME RouteInv, [RouteNext]_routeVars
  PROVE  RangeKept'
<1> SUFFICES ASSUME NEW r \in Ranges, config' = r
             PROVE  Kept(r)'
  BY DEF RangeKept
<1>1. /\ ScriptInv /\ OtherTypeOK /\ current \in {"db-a", "db-b"}
      /\ config = r => Kept(r)
      /\ r # None /\ r # Torn
  BY RangeFacts DEF RouteInv, RouteTypeOK, RangeKept
<1>2. TypeOK' /\ ControlInv'
  BY IngestTypes
<1>3. ASSUME UNCHANGED <<vars, config, current, other>>
      PROVE  Kept(r)'
  <2>1. FromInv(r.first)'
    BY <1>1, <1>3, InvariantsKept DEF Kept
  <2>2. Database' = Database /\ other' = other /\ progress' = progress
    BY <1>3, DatabasesKept, IngestKept
  <2> QED
    BY <1>1, <1>3, <2>1, <2>2 DEF Kept
<1>4. CASE ResetPrimary
  <2>1. /\ config = r /\ Database' = EmptyDatabase
        /\ UNCHANGED <<sinkVars, procVars, other>>
    BY <1>4 DEF ResetPrimary, Database, EmptyDatabase
  <2>2. UNCHANGED sinkDurable /\ UNCHANGED progress
    BY <2>1 DEF sinkVars, sinkDurable
  <2>3. AtRest'
    BY <1>1, <1>4, <2>1 DEF ResetPrimary, ScriptInv, Resetting, AtRest, SinkIdle, sinkVars, procVars
  <2>4. FilesFrom(r.first)
    BY <1>1, <2>1, FromGives DEF Kept
  <2>5. FilesFrom(r.first)'
    BY <2>2, <2>4, FilesStay
  <2>6. WaitsFrom(Database, r.first)' /\ Within(Database, r)'
    BY <2>1, EmptyWaits, EmptyWithin
  <2>7. WaitsFrom(other, r.first)' /\ Within(other, r)' /\ (progress # None => progress.first = r.first)'
    BY <1>1, <2>1, <2>2 DEF Kept
  <2> QED
    BY <1>2, <2>3, <2>5, <2>6, <2>7, KeptAtRest, PTL
<1>5. CASE ResetCompare
  <2>1. config = r /\ other' = EmptyDatabase /\ UNCHANGED vars
    BY <1>5 DEF ResetCompare
  <2>2. FromInv(r.first)'
    BY <1>1, <2>1, InvariantsKept DEF Kept
  <2>3. Database' = Database /\ progress' = progress
    BY <2>1, IngestKept DEF Database
  <2> QED
    BY <1>1, <2>1, <2>2, <2>3, EmptyWaits, EmptyWithin DEF Kept
<1>6. CASE ResetKeys
  <2>1. /\ config = r /\ NoKeyFiles' /\ progress' = None
        /\ UNCHANGED <<sinkVolatile, dbVars, procVars, other>>
    BY <1>6 DEF ResetKeys, NoKeyFiles, NoLines
  <2>2. Database' = Database
    BY <2>1 DEF dbVars, Database
  <2>3. AtRest'
    BY <1>1, <1>6, <2>1 DEF ResetKeys, ScriptInv, Resetting, AtRest, SinkIdle, sinkVolatile, procVars
  <2>4. FilesFrom(r.first)'
    BY <2>1 DEF FilesFrom, FlushedFrom, CompletedFrom
  <2>5. WaitsFrom(Database, r.first)
    BY <1>1, <2>1, FromGives DEF Kept
  <2>6. WaitsFrom(Database, r.first)' /\ Within(Database, r)'
        /\ WaitsFrom(other, r.first)' /\ Within(other, r)'
    BY <1>1, <2>1, <2>2, <2>5 DEF Kept
  <2>7. (progress # None => progress.first = r.first)'
    BY <2>1
  <2> QED
    BY <1>2, <2>3, <2>4, <2>6, <2>7, KeptAtRest, PTL
<1>7. CASE WriteConfig
  <2>1. /\ config \notin Ranges /\ current = "db-a" /\ range = r
        /\ UNCHANGED <<vars, current, other>>
    BY <1>1, <1>7, NoRange DEF WriteConfig, ScriptInv, Resetting
  <2>2. Database = EmptyDatabase /\ other = EmptyDatabase /\ NoKeyFiles /\ AtRest
    BY <1>1, <1>7, <2>1 DEF WriteConfig, ScriptInv, DbA, DbB, AtRest
  <2>3. TypeOK /\ ControlInv
    BY DEF RouteInv, RouteTypeOK
  <2>4. WaitsFrom(Database, r.first) /\ WaitsFrom(other, r.first)
        /\ Within(Database, r) /\ Within(other, r)
    BY <2>2, EmptyWaits, EmptyWithin
  <2>5. FilesFrom(r.first) /\ progress = None
    BY <2>2, NoFiles DEF NoKeyFiles
  <2>6. Kept(r)
    BY <2>2, <2>3, <2>4, <2>5, KeptAtRest
  <2>7. FromInv(r.first)'
    BY <2>1, <2>6, InvariantsKept DEF Kept
  <2>8. Database' = Database /\ other' = other /\ progress' = progress
    BY <2>1, IngestKept DEF Database
  <2> QED
    BY <2>6, <2>7, <2>8 DEF Kept
<1>8. CASE Attempt
  <2>1. /\ stage = current /\ pc = "down" /\ config = r /\ range = r
        /\ stage \in {"db-a", "db-b"} /\ UNCHANGED <<other, dbVars, progress>>
        /\ Begin(CommandLine(r, stage = "db-a"))
    BY <1>1, <1>8 DEF Attempt, Begin, scriptVars, ScriptInv
  <2>2. /\ CommandLine(r, stage = "db-a") \in Invocations
        /\ CommandLine(r, stage = "db-a").first = r.first
    BY RangeFacts
  <2>3. IInv(r.first) /\ SeenInv(r.first) /\ KeyInv(r.first)
    BY <1>1, <2>1 DEF Kept, FromInv
  <2>4. FromInv(r.first)'
    BY <2>1, <2>2, <2>3, BeginKeeps, SeenBegin, KeyBegin DEF FromInv
  <2>5. Database' = Database
    BY <2>1 DEF dbVars, Database
  <2> QED
    BY <1>1, <2>1, <2>4, <2>5 DEF Kept
<1>9. CASE IngestStep
  <2>1. /\ Running /\ config = r /\ other' = other
        /\ cli = CommandLine(r, stage = "db-a")
    BY <1>1, <1>9, RunningStays DEF IngestStep, scriptVars, ScriptInv
  <2>2. FromInv(r.first)'
    BY <1>1, <2>1, RunningKeeps, SeenRunning, KeyRunning DEF Kept, FromInv
  <2>3. Within(Database, r)' /\ (progress # None => progress.first = r.first)'
    BY <1>1, <2>1, RunningWithin
  <2> QED
    BY <1>1, <2>1, <2>2, <2>3 DEF Kept
<1>10. CASE AttemptFails \/ CompareDone
  <2>1. ProcessGone /\ config = r /\ UNCHANGED <<dbVars, current, other>>
    BY <1>10 DEF AttemptFails, CompareDone
  <2> QED
    BY <1>1, <2>1, DatabasesKept, KeptGone
<1>11. CASE PrimaryDone
  <2>1. ProcessGone /\ config = r
    BY <1>11 DEF PrimaryDone
  <2>2. \/ Database' = Database /\ other' = other
        \/ Database' = other /\ other' = Database
    BY <1>1, <1>11, WorkOnSwaps, DatabasesKept DEF PrimaryDone
  <2> QED
    BY <1>1, <2>1, <2>2, KeptGone
<1>12. CASE RunScriptAgain
  <2>1. ProcessGone /\ config = r
    BY <1>12 DEF RunScriptAgain
  <2>2. \/ Database' = Database /\ other' = other
        \/ Database' = other /\ other' = Database
    BY <1>1, <1>12, WorkOnSwaps DEF RunScriptAgain
  <2> QED
    BY <1>1, <2>1, <2>2, KeptGone
<1>13. CASE ReuseConfig \/ ResolveRange \/ ResolveFails \/ Compare \/ UNCHANGED routeVars
  <2>1. UNCHANGED <<vars, config, current, other>>
    BY <1>13 DEF ReuseConfig, ResolveRange, ResolveFails, Compare, routeVars, scriptVars
  <2> QED
    BY <1>3, <2>1
<1>14. CASE ResetConfig \/ TruncateConfig
  BY <1>1, <1>14 DEF ResetConfig, TruncateConfig
<1> QED
  BY <1>4, <1>5, <1>6, <1>7, <1>8, <1>9, <1>10, <1>11, <1>12, <1>13, <1>14
  DEF RouteNext, Reset, Configure

-----------------------------------------------------------------------------
(* What the steps of the script have done.                                 *)

LEMMA DoneComplete ==
  ASSUME NEW r \in Ranges, Kept(r), NEW k \in BOOLEAN, cli = CommandLine(r, k), pc = "done"
  PROVE  Complete(Database, r) /\ (k => KeysReady(r))
<1>1. /\ cli.first = r.first /\ cli.last = r.last /\ cli.keys = k
      /\ r.first \in Nat /\ r.last \in Nat
  BY RangeFacts
<1>2. TypeOK /\ RangeInv(r.first) /\ KeyInv(r.first) /\ Within(Database, r)
  BY DEF Kept, FromInv, IInv
<1>3. Complete(Database, r)
  <2>1. /\ r.first..r.last \subseteq stored
        /\ meta.watermark # None /\ r.last <= meta.watermark
        /\ meta.rangeStart = r.first /\ meta.rangeEnd = r.last
    BY <1>1, <1>2 DEF RangeInv
  <2>2. meta.watermark <= r.last /\ meta.watermark \in Nat
    BY <1>2, <2>1 DEF Within, Database, TypeOK, Meta, Opt, Checkpoints
  <2>3. meta.watermark = r.last
    BY <1>1, <2>1, <2>2
  <2> QED
    BY <2>1, <2>3 DEF Complete, Database
<1>4. ASSUME k
      PROVE  KeysReady(r)
  <2>1. /\ KeysThrough(r.first, r.last) /\ progress # None /\ progress.completed
        /\ \A f \in Files : Sorted(f)
        /\ manifest = [first |-> r.first, last |-> r.last]
    BY <1>1, <1>2, <1>4 DEF KeyInv
  <2>2. SortedThrough(r.first, r.last)
    BY <2>1 DEF SortedThrough, KeysThrough, Sorted, Logged
  <2> QED
    BY <2>1, <2>2 DEF KeysReady
<1> QED
  BY <1>3, <1>4

(* A run without a key directory leaves the key files alone.               *)
LEMMA RunningNoKeys ==
  ASSUME NEW from, IInv(from), KeyInv(from), ~cli.keys, Running
  PROVE  UNCHANGED <<out, progress, manifest>>
<1>1. op = "idle"
  BY DEF KeyInv, Finalizing, IInv, ControlInv
<1> QED
  BY <1>1
  DEF Running, PersistRunMetadata, FetchCheckpoint, CommitBatch, AppendKey, AppendText,
      AppendNewline, FlushProgress, WriteProgress, PersistFinalMetadata, FinalizeKeys, SortUnique,
      WriteCompleted, FinishManifest, WriteManifest

LEMMA KeysReadyKept ==
  ASSUME NEW r, KeysReady(r), UNCHANGED <<out, progress, manifest>>
  PROVE  KeysReady(r)'
BY DEF KeysReady, SortedThrough

LEMMA StepsKept ==
  ASSUME RouteInv, [RouteNext]_routeVars
  PROVE  StepsDone'
<1> SUFFICES ASSUME NEW r \in Ranges, range' = r
             PROVE  StepsDoneFor(r)'
  BY DEF StepsDone
<1>1. /\ ScriptInv /\ OtherTypeOK /\ current \in {"db-a", "db-b"}
      /\ range = r => StepsDoneFor(r)
      /\ config = r => Kept(r)
  BY DEF RouteInv, RouteTypeOK, RangeKept, StepsDone
<1>2. CASE stage' \notin {"db-b", "suite", "bench"}
  BY <1>2 DEF StepsDoneFor
<1>3. CASE Attempt /\ stage = "db-b"
  <2>1. /\ stage' = stage /\ range = r /\ current = "db-b"
        /\ UNCHANGED <<dbVars, current, other, out, progress, manifest>>
    BY <1>3 DEF Attempt, Begin, scriptVars
  <2> QED
    BY <1>1, <1>3, <2>1, DatabasesKept, KeysReadyKept DEF StepsDoneFor
<1>4. CASE IngestStep /\ stage = "db-b"
  <2>1. /\ Running /\ stage' = stage /\ range = r /\ config = r
        /\ current' = "db-b" /\ current = "db-b" /\ other' = other
        /\ cli = CommandLine(r, FALSE)
    BY <1>1, <1>4, RunningStays DEF IngestStep, scriptVars, ScriptInv
  <2>2. ~cli.keys /\ IInv(r.first) /\ KeyInv(r.first)
    BY <1>1, <2>1, RangeFacts DEF Kept, FromInv
  <2>3. UNCHANGED <<out, progress, manifest>>
    BY <2>1, <2>2, RunningNoKeys
  <2>4. DbA' = DbA
    BY <2>1 DEF DbA
  <2> QED
    BY <1>1, <1>4, <2>1, <2>3, <2>4, KeysReadyKept DEF StepsDoneFor
<1>5. CASE AttemptFails /\ stage' = "db-b"
  <2>1. /\ stage = "db-b" /\ range = r
        /\ UNCHANGED <<dbVars, current, other, out, progress, manifest>>
    BY <1>5 DEF AttemptFails, StepFailed, ProcessGone, SinkExit, sinkDurable
  <2> QED
    BY <1>1, <1>5, <2>1, DatabasesKept, KeysReadyKept DEF StepsDoneFor
<1>6. CASE PrimaryDone
  <2>1. /\ ProcessGone /\ stage = "db-a" /\ range = r /\ config = r /\ current = "db-a"
        /\ pc = "done" /\ cli = CommandLine(r, TRUE) /\ opts' = opts
        /\ UNCHANGED <<out, progress, manifest>>
    BY <1>1, <1>6 DEF PrimaryDone, ScriptInv, ProcessGone, SinkExit, sinkDurable
  <2>2. Complete(DbA, r) /\ KeysReady(r)
    BY <1>1, <2>1, DoneComplete DEF DbA
  <2>3. DbA' = DbA /\ (opts.compare => stage' = "db-b")
    BY <1>1, <1>6, WorkOnSwaps, DatabasesKept DEF PrimaryDone
  <2> QED
    BY <2>1, <2>2, <2>3, KeysReadyKept DEF StepsDoneFor
<1>7. CASE CompareDone
  <2>1. /\ ProcessGone /\ stage = "db-b" /\ range = r /\ config = r /\ current = "db-b"
        /\ pc = "done" /\ cli = CommandLine(r, FALSE)
        /\ UNCHANGED <<dbVars, current, other, out, progress, manifest>>
    BY <1>1, <1>7 DEF CompareDone, ScriptInv, ProcessGone, SinkExit, sinkDurable
  <2>2. Complete(DbB, r)
    BY <1>1, <2>1, DoneComplete DEF DbB
  <2> QED
    BY <1>1, <2>1, <2>2, DatabasesKept, KeysReadyKept DEF StepsDoneFor
<1>8. CASE Compare
  <2>1. /\ stage = "suite" /\ stage' \in {"bench", "failed"} /\ range = r
        /\ UNCHANGED <<vars, current, other>>
    BY <1>8 DEF Compare
  <2>2. UNCHANGED <<dbVars, out, progress, manifest>>
    BY <2>1, IngestKept
  <2> QED
    BY <1>1, <2>1, <2>2, DatabasesKept, KeysReadyKept DEF StepsDoneFor
<1>9. CASE UNCHANGED routeVars
  <2>1. range = r /\ UNCHANGED <<vars, stage, opts, current, other>>
    BY <1>9 DEF routeVars, scriptVars
  <2>2. UNCHANGED <<dbVars, out, progress, manifest>>
    BY <2>1, IngestKept
  <2> QED
    BY <1>1, <2>1, <2>2, DatabasesKept, KeysReadyKept DEF StepsDoneFor
<1>10. ASSUME stage' \in {"db-b", "suite", "bench"}
       PROVE  \/ Attempt /\ stage = "db-b"
              \/ IngestStep /\ stage = "db-b"
              \/ AttemptFails /\ stage' = "db-b"
              \/ PrimaryDone \/ CompareDone \/ Compare \/ UNCHANGED routeVars
  <2>1. CASE Attempt
    BY <1>1, <1>10, <2>1 DEF Attempt, scriptVars, ScriptInv
  <2>2. CASE IngestStep
    <3>1. stage \in {"db-a", "db-b"} /\ stage' = stage
      BY <1>1, <2>2, RunningStays DEF IngestStep, scriptVars, ScriptInv
    <3> QED
      BY <1>10, <2>2, <3>1
  <2>3. CASE AttemptFails
    <3>1. stage \in {"db-a", "db-b"} /\ stage' \in {stage, "failed"}
      BY <1>1, <2>3 DEF AttemptFails, StepFailed, ScriptInv
    <3> QED
      BY <1>10, <2>3, <3>1
  <2> QED
    BY <1>10, <2>1, <2>2, <2>3
    DEF RouteNext, Reset, Configure, ResetPrimary, ResetCompare, ResetKeys, ResetConfig,
        ReuseConfig, ResolveRange, ResolveFails, TruncateConfig, WriteConfig, RunScriptAgain
<1> QED
  BY <1>2, <1>3, <1>4, <1>5, <1>6, <1>7, <1>8, <1>9, <1>10

-----------------------------------------------------------------------------
(* The invariant, and what follows from it.                                *)

LEMMA RouteInitially == RouteInit => RouteInv
<1> SUFFICES ASSUME RouteInit
             PROVE  RouteInv
  OBVIOUS
<1>1. TypeOK /\ ControlInv
  BY TypeInit DEF RouteInit
<1>2. /\ Database = EmptyDatabase /\ other = EmptyDatabase /\ config = None /\ range = None
      /\ stage \in {"reset", "config"} /\ opts \in Options /\ current = "db-a" /\ scripts = 1
      /\ pc = "down" /\ cli = None /\ SinkIdle /\ batch = NoBatch /\ runs = 0
      /\ NoKeyFiles
  BY DEF RouteInit, Init, SinkInit, Database, EmptyDatabase, NoKeyFiles, NoLines
<1>3. other \in Databases
  BY <1>2, EmptyDatabaseType
<1>4. RouteTypeOK /\ OtherTypeOK
  <2>1. OtherTypeOK /\ other.stored \in SUBSET Checkpoints /\ other.meta \in Meta
    BY <1>3 DEF OtherTypeOK, Databases
  <2>2. runs \in 0..MaxRuns /\ scripts \in 1..MaxScripts
    BY <1>2, IngestAssumption, RouteOneAssumption
  <2> QED
    BY <1>1, <1>2, <2>1, <2>2 DEF RouteTypeOK
<1>5. ScriptInv
  BY <1>2, NoRange DEF ScriptInv, Resetting, DbA, DbB
<1>6. RangeKept /\ StepsDone
  BY <1>2, NoRange DEF RangeKept, StepsDone
<1> QED
  BY <1>1, <1>4, <1>5, <1>6 DEF RouteInv

LEMMA RouteInvariant == RouteSpec => []RouteInv
<1>1. RouteInv /\ [RouteNext]_routeVars => RouteInv'
  BY RouteTypes, ScriptKept, RangeKeptKept, StepsKept DEF RouteInv
<1> QED
  BY <1>1, RouteInitially, PTL DEF RouteSpec

(* Every variable of the script and of the ingest it drives keeps its      *)
(* type: no step is attempted more than STEP_MAX_ATTEMPTS times.           *)
THEOREM RouteTypeCorrect == RouteSpec => []RouteTypeOK
<1>1. RouteInv => RouteTypeOK
  BY DEF RouteInv
<1> QED
  BY <1>1, RouteInvariant, PTL

(* Whatever is in the base directory belongs to the range saved there,     *)
(* whatever the latest checkpoint was in earlier runs, wherever            *)
(* run-config.env was cut off or a reset stopped.                          *)
THEOREM BaseDirectoryPinned == RouteSpec => []RangePinned
<1>1. RouteInv => RangePinned
  <2> SUFFICES ASSUME RouteInv
               PROVE  RangePinned
    OBVIOUS
  <2>1. /\ ScriptInv
        /\ config \in Ranges => Kept(config)
    BY DEF RouteInv, RangeKept
  <2>2. CASE config \in Ranges
    <3>1. Within(DbA, config) /\ Within(DbB, config)
      BY <2>1, <2>2 DEF Kept, DbA, DbB
    <3> QED
      BY <2>1, <2>2, <3>1 DEF RangePinned, Within, Kept
  <2>3. CASE config \notin Ranges
    <3>1. DbA = EmptyDatabase /\ DbB = EmptyDatabase /\ progress = None
      BY <2>1, <2>3 DEF ScriptInv, NoKeyFiles
    <3>2. EmptyDatabase.meta.rangeStart = None
      BY DEF EmptyDatabase
    <3> QED
      BY <3>1, <3>2 DEF RangePinned
  <2> QED
    BY <2>2, <2>3
<1> QED
  BY <1>1, RouteInvariant, PTL

(* The suite is given a primary database that holds the range and key      *)
(* files made of it, whatever failed before.                               *)
THEOREM SuiteReady == RouteSpec => []SuiteInputsReady
<1>1. RouteInv => SuiteInputsReady
  <2> SUFFICES ASSUME RouteInv, stage \in {"suite", "bench"}
               PROVE  /\ range.first..range.last \subseteq DbA.stored
                      /\ progress.completed
                      /\ manifest = [first |-> range.first, last |-> range.last]
                      /\ SortedThrough(range.first, range.last)
    BY DEF SuiteInputsReady, SortedThrough
  <2>1. range \in Ranges
    BY DEF RouteInv, ScriptInv
  <2> QED
    BY <2>1 DEF RouteInv, StepsDone, StepsDoneFor, Complete, KeysReady
<1> QED
  BY <1>1, RouteInvariant, PTL

(* A record per object that the range touched, of the last checkpoint that *)
(* did: it does not depend on how the ingest was interrupted.              *)
LEMMA LastSeenDetermined ==
  ASSUME NEW r \in Ranges, NEW a \in Databases, NEW b \in Databases,
         Complete(a, r), Complete(b, r), Within(a, r), Within(b, r),
         WaitsFrom(a, r.first), WaitsFrom(b, r.first)
  PROVE  a.stored = b.stored /\ a.lastSeen = b.lastSeen
<1>1. a.stored = r.first..r.last /\ b.stored = r.first..r.last
  BY DEF Complete, Within
<1>2. ASSUME NEW x \in Databases, NEW y \in Databases, NEW o \in Key,
             x.stored = r.first..r.last, y.meta.watermark = r.last,
             WaitsFrom(x, r.first), WaitsFrom(y, r.first),
             x.lastSeen[o] # None
      PROVE  y.lastSeen[o] # None /\ y.lastSeen[o] >= x.lastSeen[o]
  <2>1. x.lastSeen[o] \in r.first..r.last /\ o \in Emits["object_ids"][x.lastSeen[o]]
    BY <1>2 DEF WaitsFrom
  <2>2. y.meta.watermark # None
    BY <1>2, RangeFacts, NoneIsNone
  <2> QED
    BY <1>2, <2>1, <2>2 DEF WaitsFrom
<1>3. ASSUME NEW o \in Key
      PROVE  a.lastSeen[o] = b.lastSeen[o]
  <2>1. /\ a.lastSeen[o] # None => b.lastSeen[o] # None /\ b.lastSeen[o] >= a.lastSeen[o]
        /\ b.lastSeen[o] # None => a.lastSeen[o] # None /\ a.lastSeen[o] >= b.lastSeen[o]
    BY <1>1, <1>2 DEF Complete
  <2>2. /\ a.lastSeen[o] \in Nat \cup {None}
        /\ b.lastSeen[o] \in Nat \cup {None}
    BY DEF Databases, Opt, Checkpoints
  <2> QED
    BY <2>1, <2>2
<1>4. a.lastSeen = b.lastSeen
  BY <1>3 DEF Databases
<1> QED
  BY <1>1, <1>4

(* Two ingests of one range leave the same rows and the same watermark and *)
(* range in cf_meta, however differently they were interrupted.            *)
THEOREM IngestsAgree == RouteSpec => []SameRows
<1>1. RouteInv => SameRows
  <2> SUFFICES ASSUME RouteInv, stage = "suite", opts.compare
               PROVE  /\ DbA.stored = DbB.stored
                      /\ DbA.lastSeen = DbB.lastSeen
                      /\ [DbA.meta EXCEPT !.totals = None] = [DbB.meta EXCEPT !.totals = None]
    BY DEF SameRows
  <2>1. range \in Ranges /\ config = range
    BY DEF RouteInv, ScriptInv
  <2>2. Kept(range) /\ Complete(DbA, range) /\ Complete(DbB, range)
    BY <2>1 DEF RouteInv, RangeKept, StepsDone, StepsDoneFor
  <2>3. Database \in Databases /\ other \in Databases
    BY DatabaseType DEF RouteInv, RouteTypeOK, OtherTypeOK, Databases
  <2>4. WaitsFrom(Database, range.first) /\ WaitsFrom(other, range.first)
        /\ Within(Database, range) /\ Within(other, range)
    BY <2>2, FromGives DEF Kept
  <2>5. /\ DbA \in Databases /\ DbB \in Databases
        /\ WaitsFrom(DbA, range.first) /\ WaitsFrom(DbB, range.first)
        /\ Within(DbA, range) /\ Within(DbB, range)
    BY <2>3, <2>4 DEF DbA, DbB
  <2>6. DbA.stored = DbB.stored /\ DbA.lastSeen = DbB.lastSeen
    BY <2>1, <2>2, <2>5, LastSeenDetermined
  <2>7. [DbA.meta EXCEPT !.totals = None] = [DbB.meta EXCEPT !.totals = None]
    BY <2>2, <2>5 DEF Complete, Databases, Meta
  <2> QED
    BY <2>6, <2>7
<1> QED
  BY <1>1, RouteInvariant, PTL
=============================================================================
