---------------------------- MODULE BenchRunner -----------------------------
(***************************************************************************)
(* The benchmark runner (crates/hotstore-bench/src/workloads.rs): for each *)
(* level of the concurrency list, main spawns that many workers, each runs *)
(* its share of the warmup requests, reports ready on a channel and waits  *)
(* at a barrier with main; then each runs its share of the measured        *)
(* requests, main joins them in order and merges what they counted.        *)
(*                                                                         *)
(* Before that main refuses a configuration, opens the database and loads  *)
(* the key files.  A request counts what BenchInputs says, or fails.  It   *)
(* may panic instead (scan_prefix and batch_at allocate with_capacity of a *)
(* limit that only has to be positive).  Latencies and bytes are left out. *)
(***************************************************************************)
EXTENDS BenchInputs

CONSTANTS
  Configs,          \* the configurations
  WarmupPanics,     \* may a warmup request panic?
  MeasuredPanics    \* may a measured request panic?

Levels == UNION {{c.list[i] : i \in DOMAIN c.list} : c \in Configs}
Workers == UNION {0..(n - 1) : n \in Levels}

ASSUME BenchAssumption ==
  /\ U32 \in Nat \ {0}
  /\ \A c \in Configs :
       /\ c.list \in Seq(Nat)
       /\ {c.requests, c.warmup, c.batch, c.limit, c.minPerWorker} \subseteq Nat
       /\ c.weights \in [DOMAIN MixOrder -> 0..(U32 - 1)]
       /\ c.workload \in Workloads
       /\ \A flag \in Flags :
            c.files[flag] \in {None, NoFile, NotUtf8} \/ IsFiniteSet(DOMAIN c.files[flag])
  /\ WarmupPanics \in BOOLEAN /\ MeasuredPanics \in BOOLEAN

VARIABLES
  config,    \* the configuration
  todo,      \* the levels left, the current one first
  main,      \* the step the main thread is at
  spawned,   \* workers spawned at this level
  starts,    \* next_start_index and next_warmup_start_index
  ready,     \* messages in the ready channel
  received,  \* messages main has taken from it
  arrived,   \* parties that have reached the barrier
  worker,    \* worker[w]: its step, next request and the ends of its shares
  tally,     \* tally[w]: what run_worker has counted
  joined,    \* workers joined
  merged,    \* what main has merged
  runs       \* the reports of the finished levels

levelVars == <<spawned, starts, ready, received, arrived, worker, tally, joined, merged>>
vars == <<config, todo, main, runs, levelVars>>

Zero == [hits |-> 0, misses |-> 0, errors |-> 0, count |-> 0, samples |-> {}]
Idle == [at |-> "unborn", next |-> 0, warmEnd |-> 0, first |-> 0, end |-> 0]

(* count is the length of latencies_ns, samples the indices measured.      *)
Tally == [hits : Nat, misses : Nat, errors : Nat, count : Nat,
          samples : SUBSET Nat]
WorkerSteps == {"unborn", "warmup", "ready", "barrier", "measure", "returned", "panicked"}
MainSteps == {"list", "mix", "validate", "open", "load", "spawn", "recv", "start", "barrier",
              "join", "check", "ok", "error"}

Concurrency == Head(todo)

TypeOK ==
  /\ config \in Configs
  /\ todo \in Seq(Levels)
  /\ main \in MainSteps
  /\ {spawned, ready, received, arrived, joined} \subseteq Nat
  /\ todo # <<>> => /\ {spawned, ready, received, joined} \subseteq 0..Concurrency
                    /\ arrived <= Concurrency + 1
  /\ starts \in [measured : 0..config.requests,
                warmup : config.requests..(config.requests + config.warmup)]
  /\ worker \in [Workers -> [at : WorkerSteps, next : Nat, warmEnd : Nat, first : Nat, end : Nat]]
  /\ tally \in [Workers -> Tally]
  /\ merged \in Tally
  /\ runs \in Seq(Tally)

(* A level starts anew: its channel, its barrier, its handles.             *)
FreshLevel ==
  /\ spawned' = 0
  /\ starts' = [measured |-> 0, warmup |-> config.requests]
  /\ ready' = 0
  /\ received' = 0
  /\ arrived' = 0
  /\ worker' = [w \in Workers |-> Idle]
  /\ tally' = [w \in Workers |-> Zero]
  /\ joined' = 0
  /\ merged' = Zero

Init ==
  /\ config \in Configs
  /\ todo = config.list
  /\ main = "list"
  /\ spawned = 0
  /\ starts = [measured |-> 0, warmup |-> config.requests]
  /\ ready = 0
  /\ received = 0
  /\ arrived = 0
  /\ worker = [w \in Workers |-> Idle]
  /\ tally = [w \in Workers |-> Zero]
  /\ joined = 0
  /\ merged = Zero
  /\ runs = <<>>

-----------------------------------------------------------------------------
(* The main thread before the first level.                                 *)

(* parse_concurrency_list: main reads its command line in this order.      *)
ParseList ==
  /\ main = "list"
  /\ main' = IF ListRefused(config) THEN "error" ELSE "mix"
  /\ UNCHANGED <<config, todo, levelVars, runs>>

(* parse_mixed_weights *)
ParseMix ==
  /\ main = "mix"
  /\ main' = IF MixRefused(config) THEN "error" ELSE "validate"
  /\ UNCHANGED <<config, todo, levelVars, runs>>

(* The checks of run_benchmark_suite, some of them a second time.          *)
Validate ==
  /\ main = "validate"
  /\ main' = IF ConfigRefused(config) THEN "error" ELSE "open"
  /\ UNCHANGED <<config, todo, levelVars, runs>>

(* open_backend and compact_all, which may fail.                           *)
OpenDatabase ==
  /\ main = "open"
  /\ main' \in {"load", "error"}
  /\ UNCHANGED <<config, todo, levelVars, runs>>

(* WorkloadData::load, then key_file_fingerprints, which reads the files   *)
(* again and may fail although they were loaded.                           *)
LoadKeys ==
  /\ main = "load"
  /\ main' \in IF LoadFails(config) THEN {"error"} ELSE {"spawn", "error"}
  /\ UNCHANGED <<config, todo, levelVars, runs>>

-----------------------------------------------------------------------------
(* The main thread up to the barrier.                                      *)

(* The share of worker w in a total, the remainder going to the first ones. *)
Share_RoundUp(total, w) == (total + Concurrency - 1) \div Concurrency

Share(total, w) ==
  (total \div Concurrency) + (IF w < total % Concurrency THEN 1 ELSE 0)

(* worker_start_index: next_start_index when w is spawned.                 *)
FirstOf(w) == starts.measured

TooFewPerWorker ==
  config.minPerWorker > 0 /\ config.requests \div Concurrency < config.minPerWorker

RefuseLevel ==
  /\ main = "spawn"
  /\ spawned = 0
  /\ TooFewPerWorker
  /\ main' = "error"
  /\ UNCHANGED <<config, todo, levelVars, runs>>

SpawnWorker ==
  /\ main = "spawn"
  /\ ~TooFewPerWorker
  /\ LET w == spawned
         warm == Share(config.warmup, w)
         measured == Share(config.requests, w)
     IN /\ worker' = [worker EXCEPT ![w] =
                        [at |-> "warmup", next |-> starts.warmup,
                         warmEnd |-> starts.warmup + warm,
                         first |-> FirstOf(w), end |-> FirstOf(w) + measured]]
        /\ starts' = [measured |-> starts.measured + measured,
                      warmup |-> starts.warmup + warm]
  /\ spawned' = spawned + 1
  /\ main' = IF spawned' = Concurrency THEN "recv" ELSE "spawn"
  /\ UNCHANGED <<config, todo, ready, received, arrived, tally, joined, merged, runs>>

(* Each worker's closure owns a clone of ready_tx until it ends.           *)
SenderAlive == \E w \in Workers : worker[w].at \in {"warmup", "ready", "barrier", "measure"}

ReceiveReady ==
  /\ main = "recv"
  /\ ready > 0
  /\ ready' = ready - 1
  /\ received' = received + 1
  /\ main' = IF received' = Concurrency THEN "start" ELSE "recv"
  /\ UNCHANGED <<config, todo, spawned, starts, arrived, worker, tally, joined, merged, runs>>

(* recv fails: "benchmark worker exited before measured run started".      *)
ReadyDisconnected ==
  /\ main = "recv"
  /\ ready = 0
  /\ ~SenderAlive
  /\ main' = "error"
  /\ UNCHANGED <<config, todo, levelVars, runs>>

Parties_WorkersOnly == Concurrency

Parties_OneMore == Concurrency + 2

(* Barrier::new(concurrency + 1) *)
Parties == Concurrency + 1

(* started_at = now, then the barrier. *)
StartMeasuring ==
  /\ main = "start"
  /\ arrived' = arrived + 1
  /\ main' = "barrier"
  /\ UNCHANGED <<config, todo, spawned, starts, ready, received, worker, tally, joined, merged, runs>>

BarrierOpen == arrived >= Parties

LeaveBarrier ==
  /\ main = "barrier"
  /\ BarrierOpen
  /\ main' = "join"
  /\ UNCHANGED <<config, todo, levelVars, runs>>

-----------------------------------------------------------------------------
(* A worker.  When main has ended the process is gone, and with it they.   *)

Alive == main \notin {"ok", "error"}

WarmUp(w) ==
  /\ worker[w].at = "warmup"
  /\ worker[w].next < worker[w].warmEnd
  /\ worker' = [worker EXCEPT ![w].next = @ + 1]
  /\ UNCHANGED <<ready, arrived, tally>>

SendReady(w) ==
  /\ worker[w].at = "warmup"
  /\ worker[w].next = worker[w].warmEnd
  /\ ready' = ready + 1
  /\ worker' = [worker EXCEPT ![w].at = "ready"]
  /\ UNCHANGED <<arrived, tally>>

WorkerArrive(w) ==
  /\ worker[w].at = "ready"
  /\ arrived' = arrived + 1
  /\ worker' = [worker EXCEPT ![w].at = "barrier"]
  /\ UNCHANGED <<ready, tally>>

WorkerLeave(w) ==
  /\ worker[w].at = "barrier"
  /\ BarrierOpen
  /\ worker' = [worker EXCEPT ![w].at = "measure", ![w].next = worker[w].first]
  /\ UNCHANGED <<ready, arrived, tally>>

Merge(a, b) ==
  [hits |-> a.hits + b.hits, misses |-> a.misses + b.misses, errors |-> a.errors + b.errors,
   count |-> a.count + b.count, samples |-> a.samples \cup b.samples]

(* What request `index` may add to the tally: an answer or an error.       *)
Counted(index) ==
  {[hits |-> o.hits, misses |-> o.misses, errors |-> 0, count |-> 1, samples |-> {index}] :
     o \in Outcomes(config, index)}
  \cup {[hits |-> 0, misses |-> 0, errors |-> 1, count |-> 1, samples |-> {index}]}

(* One turn of run_worker.                                                 *)
Measure(w) ==
  /\ worker[w].at = "measure"
  /\ worker[w].next < worker[w].end
  /\ \E t \in Counted(worker[w].next) : tally' = [tally EXCEPT ![w] = Merge(@, t)]
  /\ worker' = [worker EXCEPT ![w].next = @ + 1]
  /\ UNCHANGED <<ready, arrived>>

WorkerReturn(w) ==
  /\ worker[w].at = "measure"
  /\ worker[w].next = worker[w].end
  /\ worker' = [worker EXCEPT ![w].at = "returned"]
  /\ UNCHANGED <<ready, arrived, tally>>

WorkerPanic(w) ==
  /\ \/ WarmupPanics /\ worker[w].at = "warmup" /\ worker[w].next < worker[w].warmEnd
     \/ MeasuredPanics /\ worker[w].at = "measure" /\ worker[w].next < worker[w].end
  /\ worker' = [worker EXCEPT ![w].at = "panicked"]
  /\ UNCHANGED <<ready, arrived, tally>>

WorkerStep(w) ==
  /\ Alive
  /\ \/ WarmUp(w)
     \/ SendReady(w)
     \/ WorkerArrive(w)
     \/ WorkerLeave(w)
     \/ Measure(w)
     \/ WorkerReturn(w)
     \/ WorkerPanic(w)
  /\ UNCHANGED <<config, todo, main, spawned, starts, received, joined, merged, runs>>

-----------------------------------------------------------------------------
(* The main thread after the barrier.                                      *)

(* handle.join(), in the order the workers were spawned.                   *)
JoinWorker ==
  /\ main = "join"
  /\ worker[joined].at = "returned"
  /\ merged' = Merge(merged, tally[joined])
  /\ joined' = joined + 1
  /\ main' = IF joined' = Concurrency THEN "check" ELSE "join"
  /\ UNCHANGED <<config, todo, spawned, starts, ready, received, arrived, worker, tally, runs>>

JoinPanicked_Skip ==
  /\ main = "join"
  /\ worker[joined].at = "panicked"
  /\ joined' = joined + 1
  /\ main' = IF joined' = Concurrency THEN "check" ELSE "join"
  /\ UNCHANGED <<config, todo, spawned, starts, ready, received, arrived, worker, tally, merged, runs>>

(* "benchmark worker thread panicked" *)
JoinPanicked ==
  /\ main = "join"
  /\ worker[joined].at = "panicked"
  /\ main' = "error"
  /\ UNCHANGED <<config, todo, levelVars, runs>>

BelowMinHitRate_Any(t) == t.hits = 0 /\ t.hits + t.misses > 0 /\ config.minHitRate > 0

(* hit_rate counts as 1.0 when nothing was hit or missed.                  *)
BelowMinHitRate(t) ==
  t.hits + t.misses > 0 /\ 100 * t.hits < config.minHitRate * (t.hits + t.misses)

(* The level's report, and on to the next one; one that fails ends main    *)
(* without a report of the others.                                         *)
ReportLevel ==
  /\ main = "check"
  /\ ~BelowMinHitRate(merged)
  /\ runs' = Append(runs, merged)
  /\ IF Len(todo) > 1
     THEN todo' = Tail(todo) /\ main' = "spawn" /\ FreshLevel
     ELSE main' = "ok" /\ UNCHANGED <<todo, levelVars>>
  /\ UNCHANGED config

FailLevel ==
  /\ main = "check"
  /\ BelowMinHitRate(merged)
  /\ main' = "error"
  /\ UNCHANGED <<config, todo, levelVars, runs>>

MainStep ==
  \/ ParseList
  \/ ParseMix
  \/ Validate
  \/ OpenDatabase
  \/ LoadKeys
  \/ RefuseLevel
  \/ SpawnWorker
  \/ ReceiveReady
  \/ ReadyDisconnected
  \/ StartMeasuring
  \/ LeaveBarrier
  \/ JoinWorker
  \/ JoinPanicked
  \/ ReportLevel
  \/ FailLevel

Ended == ~Alive /\ UNCHANGED vars

Next ==
  \/ MainStep
  \/ \E w \in Workers : WorkerStep(w)
  \/ Ended

Spec == Init /\ [][Next]_vars

(* The threads run: none is kept from a step it can take forever.          *)
FairSpec == Spec /\ WF_vars(MainStep) /\ \A w \in Workers : WF_vars(WorkerStep(w))

-----------------------------------------------------------------------------
(* Properties.                                                             *)

Measuring == \E w \in Workers : tally[w] # Zero

(* No request is measured before the clock runs and every worker has       *)
(* finished its warmup, so a level's throughput is of measured requests.   *)
MeasuredTogether ==
  Measuring =>
    /\ main \notin {"spawn", "recv", "start"}
    /\ \A w \in 0..(Concurrency - 1) : worker[w].at \notin {"unborn", "warmup", "ready"}

(* Every report accounts for every request of the level: each index was    *)
(* measured, by one worker and once, and each request either failed or was *)
(* counted, except those of noop, which ask for nothing.                   *)
ReportsComplete ==
  \A i \in DOMAIN runs :
    /\ runs[i].samples = 0..(config.requests - 1)
    /\ runs[i].count = config.requests
    /\ IF config.workload = "noop" THEN runs[i].hits + runs[i].misses = 0
       ELSE runs[i].hits + runs[i].misses >= config.requests - runs[i].errors

(* The positions and operations a sequential request reads.                *)
OpAt(index) == CHOOSE op \in OpsOf(config, index) : TRUE
PositionsAt(index) == CHOOSE p \in PositionsOf(config, OpAt(index), index) : TRUE

(* With --min-hit-rate 100% a report vouches for the keys of its requests: *)
(* unless requests failed, a sequential one has read only keys the         *)
(* database holds, whichever worker read them.                             *)
NoMissPasses ==
  config.minHitRate = 100 =>
    \A i \in DOMAIN runs :
      /\ runs[i].misses = 0
      /\ runs[i].errors = 0 /\ config.pattern = "sequential" =>
           \A index \in runs[i].samples, j \in 1..config.batch :
             LET positions == PositionsAt(index)
             IN j \in DOMAIN positions => Hit(config, OpAt(index), positions[j])

(* A sequential workload of one operation reads the lines of its key file  *)
(* evenly, however the requests are split among the workers and the keys   *)
(* into batches: no line twice more often than another.                    *)
KeysReadEvenly ==
  config.pattern = "sequential" /\ config.workload \notin {"mixed-rpc", "noop"} =>
    \A i \in DOMAIN runs :
      LET reads(p) == Cardinality({r \in runs[i].samples \X (1..config.batch) :
                                     r[2] \in DOMAIN PositionsAt(r[1]) /\ PositionsAt(r[1])[r[2]] = p})
          lines == DOMAIN Data(config, PartOf(config.workload))
      IN \A p, q \in lines : reads(p) <= reads(q) + 1

(* A sequential mix that is run a whole number of times has each operation *)
(* as often as its weight says, if the weights add up below 2^32 and the   *)
(* requests are no more than that: their index is cut to a u32.            *)
MixFollowsWeights ==
  (/\ config.pattern = "sequential" /\ config.workload = "mixed-rpc"
   /\ TrueTotal(config) < U32 /\ config.requests <= U32
   /\ config.requests % TrueTotal(config) = 0)
  => \A i \in DOMAIN runs, k \in DOMAIN MixOrder :
       Cardinality({index \in runs[i].samples : OpAt(index) = MixOrder[k]})
         = config.weights[k] * (config.requests \div TrueTotal(config))

(* A benchmark ends, with reports or with an error, whatever its requests  *)
(* do; left out is a panic during warmup beside other workers, the case    *)
(* where PanicEndsRun fails.                                               *)
BenchmarkEnds ==
  <>(\/ main \in {"ok", "error"}
     \/ main \in {"spawn", "recv"} /\ Concurrency > 1
        /\ \E w \in Workers : worker[w].at = "panicked")

(* A mix is refused as empty ("--mix weights must sum to at least 1") only *)
(* when no operation has a weight.                                         *)
RefusedMixIsEmpty ==
  [][main = "mix" /\ main' = "error" => TrueTotal(config) = 0]_vars

(* With a panicking worker the benchmark ends in an error: it reports      *)
(* "benchmark worker exited before measured run started" or "... panicked". *)
PanicEndsRun ==
  (\E w \in Workers : worker[w].at = "panicked") ~> (main = "error")
=============================================================================
