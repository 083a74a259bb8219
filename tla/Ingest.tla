------------------------------- MODULE Ingest -------------------------------
(***************************************************************************)
(* sui-hotstore-ingest-real (crates/hotstore-sui-source/src/main.rs,       *)
(* commit.rs): a process that copies a range of checkpoints from an RPC    *)
(* source into a key-value database and, when --bench-keys-dir is given,   *)
(* into benchmark key files (BenchKeySink).  It may fail or be killed at   *)
(* any step and be started again, with --resume or without, by an operator *)
(* or by run_with_retries of scripts/run-route1-benchmark-server.sh.       *)
(*                                                                         *)
(* A write_batch of the database is atomic and survives the process.  The  *)
(* rows a checkpoint contributes are a function of its number, so the      *)
(* database is the set of the checkpoints written, plus what a later write *)
(* can overwrite: cf_object_last_seen and cf_meta.                         *)
(***************************************************************************)
EXTENDS BenchKeySink

CONSTANTS
  MaxCheckpoint,  \* the source serves checkpoints 0..MaxCheckpoint
  Emits,          \* Emits[f][c]: the keys checkpoint c contributes to file f
  Invocations,    \* the command lines the ingest is started with
  MaxRuns         \* bound on the number of process starts

Checkpoints == 0..MaxCheckpoint

(* The command lines are those validate() of cli.rs accepts.  keys:        *)
(* --bench-keys-dir is given; batch: --checkpoint-batch-size.              *)
ASSUME IngestAssumption ==
  /\ MaxCheckpoint \in Nat
  /\ Emits \in [Files -> [Checkpoints -> SUBSET Key]]
  /\ \A c \in Invocations :
       /\ DOMAIN c = {"first", "last", "resume", "keys", "batch"}
       /\ c.first \in Checkpoints /\ c.last \in Checkpoints /\ c.first <= c.last
       /\ c.resume \in BOOLEAN /\ c.keys \in BOOLEAN /\ c.batch \in Nat \ {0}
  /\ None \notin Invocations
  /\ MaxRuns \in Nat

VARIABLES
  stored,    \* durable: the checkpoints whose rows are in the database
  lastSeen,  \* durable: lastSeen[o] is the checkpoint of the object record
             \* in cf_object_last_seen under o
  meta,      \* durable: cf_meta
  pc,        \* the step the process is at
  cli,       \* its command line
  seq,       \* checkpoint_seq of the loop
  batch,     \* pending_batch: its checkpoints, its last write per object
  pending,   \* pending_checkpoints
  totals,    \* totals.checkpoint_count; the other totals move with it
  runs       \* number of process starts so far, at most MaxRuns

dbVars == <<stored, lastSeen, meta>>
procVars == <<pc, cli, seq, batch, pending, totals, runs>>
vars == <<sinkVars, dbVars, procVars>>

Opt(S) == S \cup {None}
Meta == [watermark : Opt(Checkpoints), rangeStart : Opt(Checkpoints),
         rangeEnd : Opt(Checkpoints), totals : Opt(Nat)]
NoBatch == [rows |-> {}, seen |-> [o \in Key |-> None]]
Steps == {"down", "meta", "fetch", "commit", "sink", "final", "done"}

TypeOK ==
  /\ SinkTypeOK
  /\ stored \in SUBSET Checkpoints
  /\ lastSeen \in [Key -> Opt(Checkpoints)]
  /\ meta \in Meta
  /\ pc \in Steps
  /\ cli \in Opt(Invocations)
  /\ seq \in Nat
  /\ batch \in [rows : SUBSET Checkpoints, seen : [Key -> Opt(Checkpoints)]]
  /\ pending \in Nat
  /\ totals \in Nat
  /\ runs \in Nat

Init ==
  /\ SinkInit
  /\ stored = {}
  /\ lastSeen = [o \in Key |-> None]
  /\ meta = [watermark |-> None, rangeStart |-> None, rangeEnd |-> None, totals |-> None]
  /\ pc = "down"
  /\ cli = None
  /\ seq = 0
  /\ batch = NoBatch
  /\ pending = 0
  /\ totals = 0
  /\ runs = 0

-----------------------------------------------------------------------------
(* resolve_effective_first_checkpoint.                                     *)

KeyWatermark(c) == IF c.keys /\ progress # None THEN progress.flushed ELSE None

Lesser(a, b) == IF a <= b THEN a ELSE b
Greater(a, b) == IF a >= b THEN a ELSE b

CompletedCheckpoint_DbOnly(c) == meta.watermark

CompletedCheckpoint(c) ==
  IF c.keys
  THEN IF meta.watermark # None /\ KeyWatermark(c) # None
       THEN Lesser(meta.watermark, KeyWatermark(c))
       ELSE None
  ELSE meta.watermark

EffectiveFirst_SkipsOne(c) ==
  IF ~c.resume \/ CompletedCheckpoint(c) = None
  THEN c.first
  ELSE Greater(CompletedCheckpoint(c) + 2, c.first)

EffectiveFirst(c) ==
  IF ~c.resume \/ CompletedCheckpoint(c) = None
  THEN c.first
  ELSE Greater(CompletedCheckpoint(c) + 1, c.first)

-----------------------------------------------------------------------------
(* The command line is parsed, the sink opened, the first checkpoint       *)
(* resolved.                                                               *)
Begin(c) ==
  /\ runs < MaxRuns
  /\ runs' = runs + 1
  /\ cli' = c
  /\ seq' = EffectiveFirst(c)
  /\ pc' = "meta"
  /\ IF c.keys THEN TouchRawFiles ELSE raw' = raw
  /\ UNCHANGED <<out, progress, manifest, sinkVolatile, dbVars, batch, pending, totals>>

Start == pc = "down" /\ \E c \in Invocations : Begin(c)
Rerun == pc = "done" /\ \E c \in Invocations : Begin(c)

RunMetadata_Exclusive(t) ==
  [meta EXCEPT !.rangeStart = cli.first, !.rangeEnd = cli.last + 1,
               !.totals = IF t = None THEN @ ELSE t]

RunMetadata_Watermark(t) ==
  [meta EXCEPT !.rangeStart = cli.first, !.rangeEnd = cli.last, !.watermark = cli.last,
               !.totals = IF t = None THEN @ ELSE t]

(* persist_run_metadata: what cf_meta becomes. *)
RunMetadata(t) ==
  [meta EXCEPT !.rangeStart = cli.first, !.rangeEnd = cli.last,
               !.totals = IF t = None THEN @ ELSE t]

(* The end of main: the sink is finalized when there is one.               *)
Finish ==
  IF cli.keys
  THEN pc' = "sink" /\ BeginFinalize
  ELSE pc' = "done" /\ UNCHANGED <<sorted, op>>

EarlyReturn_NoFinalize == pc' = "done" /\ UNCHANGED <<sorted, op>>

(* Progress covers the range already.                                      *)
EarlyReturn == Finish

PersistRunMetadata ==
  /\ pc = "meta"
  /\ meta' = RunMetadata(None)
  /\ IF seq > cli.last
     THEN EarlyReturn
     ELSE pc' = "fetch" /\ UNCHANGED <<sorted, op>>
  /\ totals' = 0
  /\ UNCHANGED <<raw, out, progress, manifest, batchKeys, writing, stored, lastSeen,
                 cli, seq, batch, pending, runs>>

AtLast_Exclusive == seq + 1 >= cli.last

AtLast == seq = cli.last

BatchRows_Replace == {seq}

(* The checkpoints of pending_batch once this one is appended.             *)
BatchRows == batch.rows \cup {seq}

(* One turn of the loop up to the decision to flush: fetch, extract,       *)
(* append to the pending batch and the pending keys.                       *)
FetchCheckpoint ==
  /\ pc = "fetch"
  /\ batch' = [rows |-> BatchRows,
               seen |-> [o \in Key |-> IF o \in Emits["object_ids"][seq]
                                       THEN seq ELSE batch.seen[o]]]
  /\ AddKeys([f \in Files |-> Emits[f][seq]])
  /\ pending' = pending + 1
  /\ totals' = totals + 1
  /\ IF pending' >= cli.batch \/ AtLast
     THEN pc' = "commit" /\ seq' = seq
     ELSE pc' = "fetch" /\ seq' = seq + 1
  /\ UNCHANGED <<raw, out, progress, manifest, writing, sorted, op, dbVars, cli, runs>>

(* The loop goes on, or ends after the last checkpoint. *)
NextTurn ==
  /\ batchKeys' = NoKeys
  /\ pending' = 0
  /\ pc' = IF AtLast THEN "final" ELSE "fetch"
  /\ seq' = IF AtLast THEN seq ELSE seq + 1

LastWrite_KeepFirst(o) == IF lastSeen[o] # None THEN lastSeen[o] ELSE batch.seen[o]

(* The record cf_object_last_seen has for o after the batch. *)
LastWrite(o) == IF batch.seen[o] # None THEN batch.seen[o] ELSE lastSeen[o]

(* persist_aggregated_batch: rows, watermark, range end and totals in one  *)
(* write_batch.  The sink, when there is one, is next.                     *)
CommitBatch ==
  /\ pc = "commit"
  /\ stored' = stored \cup batch.rows
  /\ lastSeen' = [o \in Key |-> LastWrite(o)]
  /\ meta' = [meta EXCEPT !.watermark = seq, !.rangeEnd = seq, !.totals = totals]
  /\ batch' = NoBatch
  /\ IF cli.keys
     THEN /\ pc' = "sink"
          /\ BeginAppend
          /\ UNCHANGED <<batchKeys, pending, seq>>
     ELSE NextTurn /\ UNCHANGED op
  /\ UNCHANGED <<raw, out, progress, manifest, writing, sorted, cli, totals, runs>>

(* Steps of the sink while the process waits for it. *)
AppendKey ==
  /\ pc = "sink"
  /\ \/ \E f \in Files, k \in Key : AppendText(f, k)
     \/ AppendNewline
  /\ UNCHANGED <<dbVars, procVars>>

(* append_batch returns: pending_keys.clear() and the next turn. *)
FlushProgress ==
  /\ pc = "sink"
  /\ WriteProgress([first |-> cli.first, last |-> cli.last], seq)
  /\ NextTurn
  /\ UNCHANGED <<dbVars, cli, batch, totals, runs>>

(* After the loop: persist_run_metadata(Some(totals)).                     *)
PersistFinalMetadata ==
  /\ pc = "final"
  /\ meta' = RunMetadata(totals)
  /\ Finish
  /\ UNCHANGED <<raw, out, progress, manifest, batchKeys, writing, stored, lastSeen,
                 cli, seq, batch, pending, totals, runs>>

FinalizeKeys ==
  /\ pc = "sink"
  /\ \/ \E f \in Files : SortUnique(f)
     \/ WriteCompleted([first |-> cli.first, last |-> cli.last])
  /\ UNCHANGED <<dbVars, procVars>>

FinishManifest ==
  /\ pc = "sink"
  /\ WriteManifest([first |-> cli.first, last |-> cli.last])
  /\ pc' = "done"
  /\ UNCHANGED <<dbVars, cli, seq, batch, pending, totals, runs>>

-----------------------------------------------------------------------------
(* The process is gone, and its memory with it.                            *)
ProcessGone ==
  /\ SinkExit
  /\ pc' = "down"
  /\ cli' = None
  /\ seq' = 0
  /\ batch' = NoBatch
  /\ pending' = 0
  /\ totals' = 0

(* Killed, also after its last write and before its exit is reported, or   *)
(* out on an I/O error of the database or of a file, or because a request  *)
(* failed more than max_retries times.  The bound: only while it can be    *)
(* started again.                                                          *)
Crash ==
  /\ pc # "down"
  /\ runs < MaxRuns
  /\ ProcessGone
  /\ UNCHANGED <<dbVars, runs>>

Running ==
  \/ PersistRunMetadata
  \/ FetchCheckpoint
  \/ CommitBatch
  \/ AppendKey
  \/ FlushProgress
  \/ PersistFinalMetadata
  \/ FinalizeKeys
  \/ FinishManifest

Next ==
  \/ Start
  \/ Rerun
  \/ Running
  \/ Crash

Spec == Init /\ [][Next]_vars

(* run_with_retries starts the process again after a failure, and a process *)
(* that is not killed goes on.                                              *)
FairSpec == Spec /\ WF_vars(Start) /\ WF_vars(Running)

-----------------------------------------------------------------------------
(* Properties.                                                             *)

(* Where the process is says what it holds: a run has its command line,    *)
(* the sink works only when it was called, and the loop stays in range.    *)
ControlInv ==
  /\ pc # "down" => cli \in Invocations
  /\ pc = "sink" <=> op # "idle"
  /\ pc \in {"fetch", "commit"} \/ op = "append" => seq <= cli.last

(* What a run believes done is done: every checkpoint of its range below   *)
(* the one it starts from is in the database, and every key of theirs in   *)
(* the raw files if it keeps key files.  When the starting point is past   *)
(* the range this is what main.rs prints: "nothing to ingest; existing     *)
(* progress already covers checkpoints {}-{}".                             *)
ResumePointCovered ==
  pc = "meta" =>
    \A n \in cli.first..(seq - 1) :
      /\ n \in stored
      /\ cli.keys => \A f \in Files : \A k \in Emits[f][n] : Logged(raw[f], k)

(* A run that ends well leaves a database that holds the whole range that  *)
(* cf_meta announces, whatever failed on the way there.                    *)
DoneRangeStored ==
  pc = "done" =>
    /\ meta.rangeStart = cli.first /\ meta.rangeEnd = cli.last
    /\ cli.first..cli.last \subseteq stored

(* Each line of a key file is a key the database answers: run_single_benchmark *)
(* fails a run below --min-hit-rate, and the runbook asks for 1.0.         *)
KeysHitDb ==
  \A f \in Files : \A l \in out[f] :
    \E n \in stored : \E k \in Emits[f][n] : l = <<k>>

(* The key files of a run that ends well have a line of its own for every  *)
(* key of the range.                                                       *)
DoneKeysComplete ==
  pc = "done" /\ cli.keys =>
    \A n \in cli.first..cli.last : \A f \in Files : \A k \in Emits[f][n] : <<k>> \in out[f]

(* A key file, once written, only gains lines, over failures and reruns    *)
(* with other ends of the range.                                           *)
KeyFilesGrow == [][\A f \in Files : out[f] \subseteq out'[f]]_vars

(* However often the process fails, some run ends well, and from then on   *)
(* the range is in the database and its keys are in the key files.         *)
EventuallyComplete ==
  <>[](/\ pc = "done"
       /\ cli.first..cli.last \subseteq stored
       /\ cli.keys =>
            /\ manifest = [first |-> cli.first, last |-> cli.last]
            /\ progress.completed
            /\ \A n \in cli.first..cli.last : \A f \in Files : \A k \in Emits[f][n] :
                 \E l \in out[f] : \E i \in DOMAIN l : l[i] = k)
=============================================================================
