------------------------------ MODULE RouteOne ------------------------------
(***************************************************************************)
(* scripts/run-route1-benchmark-server.sh: it settles on a range and saves *)
(* it in run-config.env, ingests it into db-a with key files and, with     *)
(* --write-compare-db, into db-b without, each step retried up to          *)
(* STEP_MAX_ATTEMPTS times, and hands db-a and the key files to            *)
(* run-benchmark-suite.sh, which compares the checksums of both databases  *)
(* before it benchmarks.  The script runs under set -e.  It may be killed  *)
(* anywhere and run again on its base directory with other options.        *)
(*                                                                         *)
(* The variables of Ingest are those of the ingest at work: its database   *)
(* is `current`, and what is in the other one waits in `other`.  MaxRuns   *)
(* is STEP_MAX_ATTEMPTS.  A directory is removed in one step, and the      *)
(* network and the backend are the same in every run.                      *)
(***************************************************************************)
EXTENDS Ingest

CONSTANTS
  Latest,       \* the latest checkpoints the RPC node may report
  LatestCount,  \* --latest-count
  Options,      \* the options a script run is given: [request, reset, compare],
                \* the request being a range or None
  Torn,         \* a run-config.env whose writing was cut off
  BatchSize,    \* --checkpoint-batch-size
  MaxScripts    \* bound on the number of script runs

(* LATEST_COUNT checkpoints up to the latest one, from 0 at the least. *)
LatestRange(latest) ==
  [first |-> Greater(latest - LatestCount + 1, 0), last |-> latest]

Ranges == {LatestRange(l) : l \in Latest} \cup ({o.request : o \in Options} \ {None})

(* What run_cargo_ingest passes on. *)
CommandLine(range, keys) ==
  [first |-> range.first, last |-> range.last, resume |-> TRUE, keys |-> keys,
   batch |-> BatchSize]

ASSUME RouteOneAssumption ==
  /\ Latest \subseteq Checkpoints
  /\ LatestCount \in Nat \ {0}
  /\ \A o \in Options :
       /\ DOMAIN o = {"request", "reset", "compare"}
       /\ o.reset \in BOOLEAN /\ o.compare \in BOOLEAN
  /\ {None, Torn} \cap Ranges = {}
  /\ Invocations = {CommandLine(r, k) : r \in Ranges, k \in BOOLEAN}
  /\ MaxRuns > 0
  /\ MaxScripts \in Nat \ {0}

VARIABLES
  stage,    \* what the script is doing
  opts,     \* its options
  config,   \* durable: run-config.env
  range,    \* FIRST_CHECKPOINT and LAST_CHECKPOINT of the script
  current,  \* the database Ingest's variables are about
  other,    \* the other one
  scripts   \* runs of the script so far, at most MaxScripts

scriptVars == <<stage, opts, config, range, current, other, scripts>>
routeVars == <<vars, scriptVars>>

Database == [stored |-> stored, lastSeen |-> lastSeen, meta |-> meta]
EmptyDatabase ==
  [stored |-> {}, lastSeen |-> [o \in Key |-> None],
   meta |-> [watermark |-> None, rangeStart |-> None, rangeEnd |-> None, totals |-> None]]

DbA == IF current = "db-a" THEN Database ELSE other
DbB == IF current = "db-b" THEN Database ELSE other

RouteTypeOK ==
  /\ TypeOK
  /\ stage \in {"reset", "rm db-b", "rm keys", "rm config", "config", "save", "write",
                "db-a", "db-b", "suite", "bench", "failed"}
  /\ opts \in Options
  /\ config \in Ranges \cup {None, Torn}
  /\ range \in Ranges \cup {None}
  /\ current \in {"db-a", "db-b"}
  /\ other.stored \in SUBSET Checkpoints
  /\ other.meta \in Meta
  /\ runs \in 0..MaxRuns
  /\ scripts \in 1..MaxScripts

RouteInit ==
  /\ Init
  /\ opts \in Options
  /\ stage = IF opts.reset THEN "reset" ELSE "config"
  /\ config = None
  /\ range = None
  /\ current = "db-a"
  /\ other = EmptyDatabase
  /\ scripts = 1

-----------------------------------------------------------------------------
(* --reset-state: rm -rf of db-a, db-b, the key directory and, last,       *)
(* run-config.env.                                                         *)

ResetPrimary_ConfigFirst ==
  /\ stage = "reset"
  /\ stored' = EmptyDatabase.stored
  /\ lastSeen' = EmptyDatabase.lastSeen
  /\ meta' = EmptyDatabase.meta
  /\ config' = None
  /\ stage' = "rm db-b"
  /\ UNCHANGED <<sinkVars, procVars, opts, range, current, other, scripts>>

ResetPrimary ==
  /\ stage = "reset"
  /\ stored' = EmptyDatabase.stored
  /\ lastSeen' = EmptyDatabase.lastSeen
  /\ meta' = EmptyDatabase.meta
  /\ stage' = "rm db-b"
  /\ UNCHANGED <<sinkVars, procVars, opts, config, range, current, other, scripts>>

ResetCompare ==
  /\ stage = "rm db-b"
  /\ other' = EmptyDatabase
  /\ stage' = "rm keys"
  /\ UNCHANGED <<vars, opts, config, range, current, scripts>>

ResetKeys ==
  /\ stage = "rm keys"
  /\ raw' = [f \in Files |-> [lines |-> {}, tail |-> <<>>]]
  /\ out' = NoKeys
  /\ progress' = None
  /\ manifest' = None
  /\ stage' = "rm config"
  /\ UNCHANGED <<sinkVolatile, dbVars, procVars, opts, config, range, current, other,
                 scripts>>

ResetConfig ==
  /\ stage = "rm config"
  /\ config' = None
  /\ stage' = "config"
  /\ UNCHANGED <<vars, opts, range, current, other, scripts>>

-----------------------------------------------------------------------------
(* The range, from run-config.env when there is one.                       *)

(* A file cut off has no RUN_NETWORK that matches, or no complete range; a *)
(* saved range must be the one asked for, if one is.                       *)
Accepted(saved) == saved # Torn /\ opts.request \in {None, saved}

ReuseConfig ==
  /\ stage = "config"
  /\ config # None
  /\ IF Accepted(config)
     THEN range' = config /\ stage' = "db-a"
     ELSE range' = range /\ stage' = "failed"
  /\ UNCHANGED <<vars, opts, config, current, other, scripts>>

(* The range asked for, or the one the node's latest checkpoint gives.     *)
ResolveRange ==
  /\ stage = "config"
  /\ config = None
  /\ IF opts.request # None
     THEN range' = opts.request
     ELSE \E latest \in Latest : range' = LatestRange(latest)
  /\ stage' = "save"
  /\ UNCHANGED <<vars, opts, config, current, other, scripts>>

(* "resolve latest checkpoint: exhausted ... attempts" *)
ResolveFails ==
  /\ stage = "config"
  /\ config = None
  /\ opts.request = None
  /\ stage' = "failed"
  /\ UNCHANGED <<vars, opts, config, range, current, other, scripts>>

(* cat >run-config.env truncates the file and then fills it. *)
TruncateConfig ==
  /\ stage = "save"
  /\ config' = Torn
  /\ stage' = "write"
  /\ UNCHANGED <<vars, opts, range, current, other, scripts>>

WriteConfig ==
  /\ stage = "write"
  /\ config' = range
  /\ stage' = "db-a"
  /\ UNCHANGED <<vars, opts, range, current, other, scripts>>

-----------------------------------------------------------------------------
(* The two ingests.                                                        *)

(* run_cargo_ingest: only the primary database gets a key directory.       *)
Attempt ==
  /\ stage = current
  /\ pc = "down"
  /\ Begin(CommandLine(range, stage = "db-a"))
  /\ UNCHANGED scriptVars

IngestStep ==
  /\ Running
  /\ UNCHANGED scriptVars

StepFailed_GoesOn ==
  IF runs < MaxRuns
  THEN UNCHANGED <<runs, stage>>
  ELSE runs' = 0 /\ stage' = "suite"

(* run_with_retries: another attempt while there is one left, else the     *)
(* script ends.                                                            *)
StepFailed ==
  IF runs < MaxRuns
  THEN UNCHANGED <<runs, stage>>
  ELSE runs' = 0 /\ stage' = "failed"

(* The attempt was not successful, though it may have made all its writes. *)
AttemptFails ==
  /\ pc # "down"
  /\ ProcessGone
  /\ StepFailed
  /\ UNCHANGED <<dbVars, opts, config, range, current, other, scripts>>

WorkOn(db) ==
  /\ current' = db
  /\ IF db = current
     THEN UNCHANGED <<dbVars, other>>
     ELSE /\ stored' = other.stored
          /\ lastSeen' = other.lastSeen
          /\ meta' = other.meta
          /\ other' = Database

(* The attempts of a step are counted from 1. *)
PrimaryDone ==
  /\ stage = "db-a"
  /\ pc = "done"
  /\ ProcessGone
  /\ runs' = 0
  /\ IF opts.compare
     THEN WorkOn("db-b") /\ stage' = "db-b"
     ELSE UNCHANGED <<dbVars, current, other>> /\ stage' = "suite"
  /\ UNCHANGED <<opts, config, range, scripts>>

CompareDone ==
  /\ stage = "db-b"
  /\ pc = "done"
  /\ ProcessGone
  /\ runs' = 0
  /\ stage' = "suite"
  /\ UNCHANGED <<dbVars, opts, config, range, current, other, scripts>>

(* compare_checksum_reports: every column family of one database is one of *)
(* the other, with as many rows and the same digest.                       *)
ChecksumsMatch == DbA = DbB

(* run-benchmark-suite.sh; "checksum reports do not match" ends it.        *)
Compare ==
  /\ stage = "suite"
  /\ stage' = IF opts.compare /\ ~ChecksumsMatch THEN "failed" ELSE "bench"
  /\ UNCHANGED <<vars, opts, config, range, current, other, scripts>>

(* The script ended, or was killed with the attempt under way, and is run  *)
(* again on its base directory, from the first step.                       *)
RunScriptAgain ==
  /\ scripts < MaxScripts
  /\ scripts' = scripts + 1
  /\ ProcessGone
  /\ WorkOn("db-a")
  /\ runs' = 0
  /\ opts' \in Options
  /\ stage' = IF opts'.reset THEN "reset" ELSE "config"
  /\ range' = None
  /\ UNCHANGED config

Reset == ResetPrimary \/ ResetCompare \/ ResetKeys \/ ResetConfig
Configure == ReuseConfig \/ ResolveRange \/ ResolveFails \/ TruncateConfig \/ WriteConfig

RouteNext ==
  \/ Reset
  \/ Configure
  \/ Attempt
  \/ IngestStep
  \/ AttemptFails
  \/ PrimaryDone
  \/ CompareDone
  \/ Compare
  \/ RunScriptAgain

RouteSpec == RouteInit /\ [][RouteNext]_routeVars

-----------------------------------------------------------------------------
(* Properties.                                                             *)

(* The suite is given a primary database that holds the range and key      *)
(* files made of it, whatever failed in this run of the script or in the   *)
(* ones before: no step is taken for done after its attempts ran out.      *)
SuiteInputsReady ==
  stage \in {"suite", "bench"} =>
    /\ range.first..range.last \subseteq DbA.stored
    /\ progress.completed
    /\ manifest = [first |-> range.first, last |-> range.last]
    /\ \A n \in range.first..range.last : \A f \in Files : \A k \in Emits[f][n] :
         \E l \in out[f] : \E i \in DOMAIN l : l[i] = k

(* Whatever is in the base directory belongs to the range saved there: no  *)
(* ingest ever resumes another range's progress, although the latest       *)
(* checkpoint moves between runs, run-config.env may be cut off, and a     *)
(* reset may stop half way.                                                *)
RangePinned ==
  /\ \A db \in {DbA, DbB} : db.meta.rangeStart # None =>
       config \in Ranges /\ db.meta.rangeStart = config.first
  /\ progress # None => config \in Ranges /\ progress.first = config.first

(* Two ingests of one range leave the same rows and the same watermark and *)
(* range in cf_meta, however differently they were interrupted.            *)
SameRows ==
  stage = "suite" /\ opts.compare =>
    /\ DbA.stored = DbB.stored
    /\ DbA.lastSeen = DbB.lastSeen
    /\ [DbA.meta EXCEPT !.totals = None] = [DbB.meta EXCEPT !.totals = None]

(* The comparison of the two checksums succeeds: the runbook compares them *)
(* to verify that two ingests have the same logical result.                *)
ComparePasses == stage = "suite" /\ opts.compare => ChecksumsMatch
=============================================================================
