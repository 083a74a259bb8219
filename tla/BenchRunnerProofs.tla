-------------------------- MODULE BenchRunnerProofs --------------------------
(***************************************************************************)
(* What a benchmark reports is true for every configuration, every list of *)
(* concurrency levels and every number of requests, however the threads    *)
(* interleave and whichever request panics.                                *)
(***************************************************************************)
EXTENDS BenchRunner, FunctionTheorems, FiniteSetTheorems, SequenceTheorems, TLAPS

(* Requests in the shares of the first w of n workers.                     *)
Before(total, n, w) ==
  (w * (total \div n)) + (IF w < total % n THEN w ELSE total % n)

BasicTypes ==
  /\ config \in Configs
  /\ todo \in Seq(Levels)
  /\ main \in MainSteps
  /\ spawned \in Nat /\ ready \in Nat /\ received \in Nat /\ arrived \in Nat /\ joined \in Nat
  /\ starts \in [measured : Nat, warmup : Nat]
  /\ worker \in [Workers -> [at : WorkerSteps, next : Nat, warmEnd : Nat, first : Nat, end : Nat]]
  /\ tally \in [Workers -> Tally]
  /\ merged \in Tally
  /\ runs \in Seq(Tally)

Fresh ==
  /\ spawned = 0
  /\ starts = [measured |-> 0, warmup |-> config.requests]
  /\ ready = 0 /\ received = 0 /\ arrived = 0
  /\ worker = [w \in Workers |-> Idle]
  /\ tally = [w \in Workers |-> Zero]
  /\ joined = 0
  /\ merged = Zero

(* The configuration was accepted, and there is a level to run.            *)
Admitted ==
  /\ todo # <<>>
  /\ \A i \in 1..Len(todo) : todo[i] > 0
  /\ config.batch > 0

ControlInv ==
  /\ main \in {"list", "mix", "validate", "open", "load"} => Fresh /\ todo = config.list
  /\ Admitted \/ (main \in {"list", "mix", "validate", "error"} /\ Fresh)

(* The workers spawned have consecutive shares from 0 on.                  *)
SplitInv ==
  /\ spawned <= Concurrency
  /\ main = "spawn" => spawned < Concurrency
  /\ main \in {"recv", "start", "barrier", "join", "check", "ok"} => spawned = Concurrency
  /\ starts.measured = Before(config.requests, Concurrency, spawned)
  /\ starts.warmup = config.requests + Before(config.warmup, Concurrency, spawned)
  /\ \A w \in Workers :
       IF w < spawned
       THEN /\ worker[w].at # "unborn"
            /\ worker[w].first = Before(config.requests, Concurrency, w)
            /\ worker[w].end = Before(config.requests, Concurrency, w + 1)
       ELSE worker[w] = Idle

(* A worker has measured its share up to its next request.                 *)
TallyInv ==
  \A w \in Workers :
    /\ worker[w].at \in {"unborn", "warmup", "ready", "barrier"} => tally[w] = Zero
    /\ worker[w].at \in {"measure", "returned"} =>
         /\ worker[w].first <= worker[w].next /\ worker[w].next <= worker[w].end
         /\ tally[w].samples = worker[w].first..(worker[w].next - 1)
         /\ tally[w].count = worker[w].next - worker[w].first
    /\ worker[w].at = "returned" => worker[w].next = worker[w].end

At(steps) == {w \in Workers : worker[w].at \in steps}

(* Before the barrier opens the channel and the barrier count the workers  *)
(* that have come so far; it opens when all have, and main.                *)
Waiting ==
  /\ main \notin {"join", "check", "ok"}
  /\ \A w \in Workers : worker[w].at \notin {"measure", "returned"} /\ tally[w] = Zero
  /\ ready + received = Cardinality(At({"ready", "barrier"}))
  /\ arrived = Cardinality(At({"barrier"})) + (IF main = "barrier" THEN 1 ELSE 0)
  /\ main \in {"list", "mix", "validate", "open", "load", "spawn"} => received = 0
  /\ main = "recv" => received < Concurrency
  /\ main \in {"start", "barrier"} => received = Concurrency
Started ==
  /\ main \in {"barrier", "join", "check", "ok", "error"}
  /\ spawned = Concurrency /\ received = Concurrency
  /\ ready = 0
  /\ arrived = Concurrency + 1
  /\ \A w \in 0..(Concurrency - 1) : worker[w].at \notin {"unborn", "warmup", "ready"}
CountInv == Waiting \/ Started

(* Main has merged the shares of the workers it joined.                    *)
MergeInv ==
  /\ joined <= Concurrency
  /\ main \notin {"join", "check", "ok", "error"} => joined = 0
  /\ main = "join" => joined < Concurrency
  /\ main \in {"check", "ok"} => joined = Concurrency
  /\ merged.samples = 0..(Before(config.requests, Concurrency, joined) - 1)
  /\ merged.count = Before(config.requests, Concurrency, joined)

LevelInv == SplitInv /\ CountInv /\ MergeInv

(* The keys request `index` of a sequential workload reads are stored.     *)
ReadsHit(c, index) ==
  LET op == CHOOSE o \in OpsOf(c, index) : TRUE
      positions == CHOOSE p \in PositionsOf(c, op, index) : TRUE
  IN \A j \in 1..c.batch : j \in DOMAIN positions => Hit(c, op, positions[j])

(* What was counted accounts for the requests, and misses are not lost.    *)
Sound(c, t) ==
  /\ IF c.workload = "noop" THEN t.hits + t.misses = 0 ELSE t.hits + t.misses + t.errors >= t.count
  /\ t.misses = 0 /\ t.errors = 0 /\ c.pattern = "sequential" =>
       \A index \in t.samples : ReadsHit(c, index)
SoundInv == Sound(config, merged) /\ \A w \in Workers : Sound(config, tally[w])

ReportInv ==
  \A i \in 1..Len(runs) :
    /\ runs[i].samples = 0..(config.requests - 1)
    /\ runs[i].count = config.requests
    /\ Sound(config, runs[i])
    /\ config.minHitRate = 100 => runs[i].misses = 0

IInv ==
  /\ BasicTypes /\ ControlInv
  /\ Admitted => LevelInv
  /\ TallyInv /\ SoundInv /\ ReportInv

-----------------------------------------------------------------------------
(* Lemmas on constants: the shares and the outcomes.                       *)

LEMMA BeforeFacts ==
  ASSUME NEW n \in Nat \ {0}, NEW total \in Nat
  PROVE  /\ Before(total, n, 0) = 0
         /\ Before(total, n, n) = total
         /\ \A w \in 0..n : Before(total, n, w) \in Nat /\ Before(total, n, w) <= total
         /\ total \div n \in Nat
         /\ \A w \in 0..(n - 1) :
              Before(total, n, w + 1) =
                Before(total, n, w) + (total \div n) + (IF w < total % n THEN 1 ELSE 0)
<1> DEFINE q == total \div n
           r == total % n
<1>1. q \in Nat /\ r \in Nat /\ r < n /\ total = (n * q) + r
  OBVIOUS
<1>2. \A w : Before(total, n, w) = (w * q) + (IF w < r THEN w ELSE r)
  BY DEF Before
<1> HIDE DEF q, r
<1>3. \A w \in 0..n : w * q \in Nat /\ w * q <= n * q
  <2> TAKE w \in 0..n
  <2>1. \A a, b \in Nat : a <= b => a * q <= b * q
    BY <1>1
  <2> QED
    BY <1>1, <2>1
<1>4. \A w \in 0..n : (w + 1) * q = (w * q) + q
  BY <1>1
<1>5. n * q \in Nat /\ 0 * q = 0
  BY <1>1
<1>6. Before(total, n, 0) = 0
  BY <1>1, <1>2, <1>5
<1>7. Before(total, n, n) = total
  BY <1>1, <1>2, <1>5
<1>8. ASSUME NEW w \in 0..n
      PROVE  Before(total, n, w) \in Nat /\ Before(total, n, w) <= total
  BY <1>1, <1>2, <1>3, <1>5
<1>9. ASSUME NEW w \in 0..(n - 1)
      PROVE  Before(total, n, w + 1) = Before(total, n, w) + q + (IF w < r THEN 1 ELSE 0)
  <2>1. w * q \in Nat /\ (w + 1) * q = (w * q) + q /\ w \in Nat
    BY <1>3, <1>4
  <2>2. Before(total, n, w) = (w * q) + (IF w < r THEN w ELSE r)
    BY <1>2
  <2>3. Before(total, n, w + 1) = ((w + 1) * q) + (IF w + 1 < r THEN w + 1 ELSE r)
    BY <1>2
  <2> QED
    BY <1>1, <2>1, <2>2, <2>3
<1> QED
  BY <1>1, <1>6, <1>7, <1>8, <1>9 DEF q, r

(* The keys of a request are hits or misses.                               *)
LEMMA OutcomeIs ==
  ASSUME NEW c, NEW op, NEW positions, NEW len \in Nat \ {0},
         positions \in Seq({positions[i] : i \in 1..len}), DOMAIN positions = 1..len
  PROVE  LET o == OutcomeOf(c, op, positions)
         IN /\ o.hits \in Nat /\ o.misses \in Nat
            /\ o.hits + o.misses = len
            /\ o.misses = 0 => \A j \in DOMAIN positions : Hit(c, op, positions[j])
<1> DEFINE hit == {i \in DOMAIN positions : Hit(c, op, positions[i])}
<1>1. Len(positions) = len
  OBVIOUS
<1>2. IsFiniteSet(1..len) /\ Cardinality(1..len) = len
  BY FS_Interval
<1>3. hit \in SUBSET (1..len)
  OBVIOUS
<1> HIDE DEF hit
<1>4. Cardinality(hit) \in Nat /\ Cardinality(hit) <= len /\ (Cardinality(hit) = len => hit = 1..len)
  BY <1>2, <1>3, FS_Subset, FS_CardinalityType
<1>5. OutcomeOf(c, op, positions) = [hits |-> Cardinality(hit), misses |-> len - Cardinality(hit)]
  BY <1>1 DEF OutcomeOf, hit
<1>6. hit = 1..len => \A j \in DOMAIN positions : Hit(c, op, positions[j])
  BY DEF hit
<1> QED
  BY <1>4, <1>5, <1>6

IsList(p) == \E len \in Nat \ {0} : DOMAIN p = 1..len /\ p \in Seq({p[i] : i \in 1..len})

LEMMA PositionsAre ==
  ASSUME NEW c, c.batch \in Nat \ {0}, NEW op, NEW index, NEW p \in PositionsOf(c, op, index)
  PROVE  /\ op = "noop" => p = <<>>
         /\ op # "noop" => IsList(p)
<1>1. CASE op = "noop"
  BY <1>1 DEF PositionsOf
<1>2. CASE op # "noop" /\ op \in MultiOps
  <2>1. DOMAIN p = 1..c.batch /\ p = [i \in 1..c.batch |-> p[i]]
    BY <1>2 DEF PositionsOf
  <2>2. \A b \in Nat : \A S : \A f \in [1..b -> S] : f \in Seq(S)
    OBVIOUS
  <2>3. p \in [1..c.batch -> {p[i] : i \in 1..c.batch}]
    BY <2>1
  <2>4. p \in Seq({p[i] : i \in 1..c.batch})
    BY <2>2, <2>3
  <2> QED
    BY <1>2, <2>1, <2>4 DEF IsList
<1>3. CASE op # "noop" /\ op \notin MultiOps
  <2>1. \E v : p = <<v>>
    BY <1>3 DEF PositionsOf
  <2>2. PICK v : p = <<v>>
    BY <2>1
  <2>3. DOMAIN p = 1..1 /\ p[1] = v
    BY <2>2
  <2>4. {p[i] : i \in 1..1} = {v}
    BY <2>3
  <2>5. p \in Seq({p[i] : i \in 1..1})
    BY <2>2, <2>4
  <2>6. IsList(p)
    <3> SUFFICES \E len \in Nat \ {0} : DOMAIN p = 1..len /\ p \in Seq({p[i] : i \in 1..len})
      BY DEF IsList
    <3> WITNESS 1 \in Nat \ {0}
    <3> QED
      BY <2>3, <2>5
  <2> QED
    BY <1>3, <2>6
<1> QED
  BY <1>1, <1>2, <1>3

(* An operation of a mix is never noop.                                    *)
LEMMA OpsAre ==
  ASSUME NEW c, NEW index, NEW op \in OpsOf(c, index)
  PROVE  /\ op = "noop" <=> c.workload = "noop"
         /\ c.pattern = "sequential" => OpsOf(c, index) = {op}
<1>1. ASSUME NEW slot
      PROVE  OpOfSlot(c, slot) # "noop"
  <2> DEFINE above == {i \in 1..4 : slot < SlotEnd(c, i)}
  <2>1. above # {} => \E i \in above : \A j \in above : i <= j
    <3>1. \A i \in above : i = 1 \/ i = 2 \/ i = 3 \/ i = 4
      OBVIOUS
    <3> HIDE DEF above
    <3> QED
      BY <3>1
  <2>2. above # {} => (CHOOSE i \in above : \A j \in above : i <= j) \in 1..4
    BY <2>1
  <2>3. \A i \in 1..5 : MixOrder[i] # "noop"
    <3>1. \A i \in 1..5 : i = 1 \/ i = 2 \/ i = 3 \/ i = 4 \/ i = 5
      OBVIOUS
    <3> QED
      BY <3>1 DEF MixOrder
  <2> DEFINE first == CHOOSE i \in above : \A j \in above : i <= j
  <2>4. OpOfSlot(c, slot) = IF above = {} THEN MixOrder[5] ELSE MixOrder[first]
    BY DEF OpOfSlot
  <2>5. above # {} => first \in 1..5
    BY <2>2
  <2> HIDE DEF above, first
  <2> QED
    BY <2>3, <2>4, <2>5
<1>2. c.workload = "mixed-rpc" => \E slot : op = OpOfSlot(c, slot)
  BY DEF OpsOf
<1>3. op = "noop" <=> c.workload = "noop"
  BY <1>1, <1>2 DEF OpsOf
<1>4. c.pattern = "sequential" => OpsOf(c, index) = {op}
  BY DEF OpsOf, SlotsOf
<1> QED
  BY <1>3, <1>4

(* What one request counts for, if it does not fail, is sound.             *)
LEMMA OutcomesSound ==
  ASSUME NEW c, c.batch \in Nat \ {0}, NEW index, NEW o \in Outcomes(c, index)
  PROVE  /\ o.hits \in Nat /\ o.misses \in Nat
         /\ IF c.workload = "noop" THEN o.hits + o.misses = 0 ELSE o.hits + o.misses >= 1
         /\ o.misses = 0 /\ c.pattern = "sequential" => ReadsHit(c, index)
<1>0. PICK op \in OpsOf(c, index) : \E p \in PositionsOf(c, op, index) : o = OutcomeOf(c, op, p)
  BY DEF Outcomes
<1>1. PICK p \in PositionsOf(c, op, index) : o = OutcomeOf(c, op, p)
  BY <1>0
<1>2. CASE c.workload = "noop"
  <2>1. op = "noop" /\ p = <<>>
    BY <1>1, <1>2, OpsAre, PositionsAre
  <2>2. DOMAIN p = {} /\ Len(p) = 0
    BY <2>1
  <2>3. {i \in DOMAIN p : Hit(c, op, p[i])} = {}
    BY <2>2
  <2>4. o = [hits |-> 0, misses |-> 0]
    BY <1>1, <2>2, <2>3, FS_EmptySet DEF OutcomeOf
  <2>5. c.pattern = "sequential" => ReadsHit(c, index)
    <3>1. \A x \in OpsOf(c, index) : x = "noop"
      BY <1>2, OpsAre
    <3>2. (CHOOSE x \in OpsOf(c, index) : TRUE) = "noop"
      BY <1>1, <3>1
    <3>3. PositionsOf(c, "noop", index) = {<<>>}
      BY DEF PositionsOf
    <3>4. (CHOOSE x \in PositionsOf(c, "noop", index) : TRUE) = <<>>
      BY <3>3
    <3>5. DOMAIN <<>> = {}
      OBVIOUS
    <3> QED
      BY <3>2, <3>4, <3>5, Zenon DEF ReadsHit
  <2> QED
    BY <1>2, <2>4, <2>5
<1>3. CASE c.workload # "noop"
  <2>1. op # "noop"
    BY <1>1, <1>3, OpsAre
  <2>2. PICK len \in Nat \ {0} : DOMAIN p = 1..len /\ p \in Seq({p[i] : i \in 1..len})
    <3>1. IsList(p)
      BY <1>1, <2>1, PositionsAre
    <3> QED
      BY <3>1 DEF IsList
  <2>3. /\ o.hits \in Nat /\ o.misses \in Nat /\ o.hits + o.misses = len
        /\ o.misses = 0 => \A j \in DOMAIN p : Hit(c, op, p[j])
    BY <1>1, <2>2, OutcomeIs
  <2>4. ASSUME o.misses = 0, c.pattern = "sequential"
        PROVE  ReadsHit(c, index)
    <3>1. (CHOOSE x \in OpsOf(c, index) : TRUE) = op
      BY <1>1, <2>4, OpsAre
    <3>2. PositionsOf(c, op, index) = {p}
      BY <1>1, <2>1, <2>4 DEF PositionsOf
    <3>3. (CHOOSE x \in PositionsOf(c, op, index) : TRUE) = p
      BY <3>2
    <3> QED
      BY <2>3, <2>4, <3>1, <3>3 DEF ReadsHit
  <2> QED
    BY <1>3, <2>2, <2>3, <2>4
<1> QED
  BY <1>2, <1>3

-----------------------------------------------------------------------------
(* Lemmas on states.                                                       *)

LEMMA ConfigFacts ==
  ASSUME BasicTypes
  PROVE  /\ config.list \in Seq(Nat)
         /\ config.requests \in Nat /\ config.warmup \in Nat /\ config.batch \in Nat
         /\ Levels \subseteq Nat
         /\ \A n \in Levels : 0..(n - 1) \subseteq Workers
         /\ Workers \subseteq Nat
<1>1. Levels \subseteq Nat
  <2>1. \A c \in Configs : \A i \in DOMAIN c.list : c.list[i] \in Nat
    BY BenchAssumption DEF BenchAssumption
  <2> QED
    BY <2>1 DEF Levels
<1> QED
  BY <1>1, BenchAssumption DEF BasicTypes, BenchAssumption, Workers

LEMMA LevelFacts ==
  ASSUME BasicTypes, Admitted
  PROVE  /\ Concurrency \in Nat \ {0}
         /\ Concurrency \in Levels
         /\ 0..(Concurrency - 1) \subseteq Workers
         /\ config.batch \in Nat \ {0}
<1>1. 1 \in 1..Len(todo) /\ todo[1] \in Levels /\ Concurrency = todo[1]
  BY DEF BasicTypes, Admitted, Concurrency
<1> QED
  BY <1>1, ConfigFacts DEF Admitted

(* Only workers of this level are born.                                    *)
LEMMA AtFacts ==
  ASSUME BasicTypes, Admitted, SplitInv, NEW steps, "unborn" \notin steps
  PROVE  /\ At(steps) \subseteq 0..(Concurrency - 1)
         /\ IsFiniteSet(At(steps))
         /\ Cardinality(At(steps)) \in 0..Concurrency
         /\ Cardinality(At(steps)) = Concurrency => At(steps) = 0..(Concurrency - 1)
<1>1. Concurrency \in Nat \ {0} /\ Workers \subseteq Nat
  BY LevelFacts, ConfigFacts
<1>2. spawned \in Nat /\ spawned <= Concurrency
        /\ \A w \in Workers : ~(w < spawned) => worker[w] = Idle
  BY DEF BasicTypes, SplitInv
<1>3. \A w \in Workers : worker[w].at \in steps => w < spawned
  BY <1>2 DEF Idle
<1>4. At(steps) \in SUBSET (0..(Concurrency - 1))
  <2>1. \A w \in Workers : w < spawned => w \in 0..(Concurrency - 1)
    BY <1>1, <1>2
  <2> QED
    BY <1>3, <2>1 DEF At
<1>5. IsFiniteSet(0..(Concurrency - 1)) /\ Cardinality(0..(Concurrency - 1)) = Concurrency
  BY <1>1, FS_Interval
<1> QED
  BY <1>1, <1>4, <1>5, FS_Subset, FS_CardinalityType

(* A worker that comes to a step, or goes from it, changes its population. *)
LEMMA AtChange ==
  ASSUME BasicTypes, Admitted, SplitInv, NEW steps, "unborn" \notin steps,
         NEW w \in Workers, NEW step,
         worker' \in [Workers -> [at : WorkerSteps, next : Nat, warmEnd : Nat, first : Nat, end : Nat]],
         worker'[w].at = step,
         \A v \in Workers \ {w} : worker'[v].at = worker[v].at
  PROVE  /\ worker[w].at \in steps <=> step \in steps =>
              Cardinality(At(steps)') = Cardinality(At(steps))
         /\ worker[w].at \notin steps /\ step \in steps =>
              Cardinality(At(steps)') = Cardinality(At(steps)) + 1
<1>1. IsFiniteSet(At(steps)) /\ Cardinality(At(steps)) \in Nat
  BY AtFacts, LevelFacts
<1>2. (worker[w].at \in steps <=> step \in steps) => At(steps)' = At(steps)
  BY DEF At
<1>3. worker[w].at \notin steps /\ step \in steps =>
        At(steps)' = At(steps) \cup {w} /\ w \notin At(steps)
  BY DEF At
<1> QED
  BY <1>1, <1>2, <1>3, FS_AddElement

LEMMA FreshIsGood ==
  ASSUME BasicTypes, Admitted, Fresh, main \in {"list", "mix", "validate", "open", "load", "spawn"}
  PROVE  LevelInv
<1>1. Concurrency \in Nat \ {0} /\ Workers \subseteq Nat
        /\ config.requests \in Nat /\ config.warmup \in Nat
  BY LevelFacts, ConfigFacts
<1>2. \A total \in Nat : Before(total, Concurrency, 0) = 0
  BY <1>1, BeforeFacts
<1>3. SplitInv
  BY <1>1, <1>2 DEF SplitInv, Fresh
<1>4. MergeInv
  BY <1>1, <1>2 DEF MergeInv, Fresh, Zero
<1>5. \A steps : "unborn" \notin steps => At(steps) = {}
  BY DEF At, Fresh, Idle
<1>6. At({"ready", "barrier"}) = {} /\ At({"barrier"}) = {} /\ Cardinality({}) = 0
  BY <1>5, FS_EmptySet
<1>7. \A w \in Workers : worker[w].at = "unborn" /\ tally[w] = Zero
  BY DEF Fresh, Idle
<1>8. Waiting
  BY <1>1, <1>6, <1>7 DEF Waiting, Fresh
<1> QED
  BY <1>3, <1>4, <1>8 DEF LevelInv, CountInv

LEMMA FreshTallies ==
  ASSUME BasicTypes, Fresh
  PROVE  TallyInv /\ SoundInv
<1>1. TallyInv
  BY DEF TallyInv, Fresh, Idle
<1>2. Sound(config, Zero)
  BY DEF Sound, Zero
<1> QED
  BY <1>1, <1>2 DEF SoundInv, Fresh

(* The invariant bounds what the types leave open.                         *)
LEMMA TypesFollow ==
  ASSUME BasicTypes, ControlInv, Admitted => LevelInv
  PROVE  TypeOK
<1>1. config.requests \in Nat /\ config.warmup \in Nat
  BY ConfigFacts
<1>2. CASE ~Admitted
  <2>1. Fresh
    BY <1>2 DEF ControlInv
  <2>2. todo # <<>> => Concurrency \in Nat
    <3>1. todo # <<>> => todo[1] \in Levels /\ Concurrency = todo[1]
      BY DEF BasicTypes, Concurrency
    <3> QED
      BY <3>1, ConfigFacts
  <2> QED
    BY <1>1, <2>1, <2>2 DEF TypeOK, BasicTypes, Fresh
<1>3. CASE Admitted
  <2>1. Concurrency \in Nat \ {0} /\ SplitInv /\ CountInv /\ MergeInv
    BY <1>3, LevelFacts DEF LevelInv
  <2>2. spawned \in 0..Concurrency /\ joined \in 0..Concurrency
    BY <2>1 DEF BasicTypes, SplitInv, MergeInv
  <2>3. ready \in 0..Concurrency /\ received \in 0..Concurrency /\ arrived <= Concurrency + 1
    <3>1. /\ Cardinality(At({"ready", "barrier"})) \in 0..Concurrency
          /\ Cardinality(At({"barrier"})) \in 0..Concurrency
      BY <1>3, <2>1, AtFacts
    <3> QED
      BY <2>1, <3>1 DEF BasicTypes, CountInv, Waiting, Started
  <2>4. starts.measured \in 0..config.requests
          /\ starts.warmup \in config.requests..(config.requests + config.warmup)
    <3>1. \A total \in Nat : Before(total, Concurrency, spawned) \in Nat
                               /\ Before(total, Concurrency, spawned) <= total
      BY <2>1, <2>2, BeforeFacts
    <3>2. /\ starts.measured = Before(config.requests, Concurrency, spawned)
          /\ starts.warmup = config.requests + Before(config.warmup, Concurrency, spawned)
      BY <2>1 DEF SplitInv
    <3>3. /\ Before(config.requests, Concurrency, spawned) \in 0..config.requests
          /\ Before(config.warmup, Concurrency, spawned) \in 0..config.warmup
      BY <1>1, <3>1
    <3> QED
      BY <1>1, <3>2, <3>3
  <2>5. starts \in [measured : 0..config.requests,
                    warmup : config.requests..(config.requests + config.warmup)]
    BY <2>4 DEF BasicTypes
  <2> QED
    BY <2>2, <2>3, <2>5 DEF TypeOK, BasicTypes
<1> QED
  BY <1>2, <1>3

-----------------------------------------------------------------------------
(* The initial states, and steps of main that leave the level as it is.    *)

LEMMA InitGood ==
  ASSUME Init
  PROVE  IInv
<1>1. config.list \in Seq(Nat) /\ config.requests \in Nat
  BY BenchAssumption DEF BenchAssumption, Init
<1>2. config.list \in Seq(Levels)
  <2>1. config.list \in [1..Len(config.list) -> Levels] /\ Len(config.list) \in Nat
    BY <1>1 DEF Levels, Init
  <2>2. \A n \in Nat : \A f \in [1..n -> Levels] : f \in Seq(Levels)
    OBVIOUS
  <2> QED
    BY <2>1, <2>2
<1>3. Zero \in Tally
  BY DEF Zero, Tally
<1>4. Idle \in [at : WorkerSteps, next : Nat, warmEnd : Nat, first : Nat, end : Nat]
  BY DEF Idle, WorkerSteps
<1>5. BasicTypes
  BY <1>1, <1>2, <1>3, <1>4 DEF BasicTypes, Init, MainSteps
<1>6. Fresh /\ main = "list"
  BY DEF Init, Fresh
<1>7. ReportInv
  BY DEF ReportInv, Init
<1> QED
  BY <1>5, <1>6, <1>7, FreshIsGood, FreshTallies DEF IInv, ControlInv, Init

(* What a step of main alone may do.                                       *)
Moved(from, to) ==
  /\ main \in from /\ main' \in to
  /\ UNCHANGED <<config, todo, levelVars, runs>>

LEMMA MovedKeeps ==
  ASSUME IInv, NEW from, NEW to, Moved(from, to), to \subseteq MainSteps
  PROVE  /\ BasicTypes' /\ TallyInv' /\ SoundInv' /\ ReportInv'
         /\ Fresh' <=> Fresh
         /\ Admitted' <=> Admitted
         /\ \A steps : At(steps)' = At(steps)
         /\ Concurrency' = Concurrency
<1>1. UNCHANGED <<config, todo, levelVars, runs>> /\ main' \in MainSteps
  BY DEF Moved
<1>2. UNCHANGED <<spawned, starts, ready, received, arrived, worker, tally, joined, merged>>
  BY <1>1 DEF levelVars
<1>3. BasicTypes'
  BY <1>1, <1>2 DEF IInv, BasicTypes
<1>4. TallyInv' /\ SoundInv' /\ ReportInv'
  BY <1>1, <1>2 DEF IInv, TallyInv, SoundInv, ReportInv
<1> QED
  BY <1>1, <1>2, <1>3, <1>4 DEF Fresh, Admitted, At, Concurrency

(* The checks before the first level.                                      *)
LEMMA StartupGood ==
  ASSUME IInv, ParseList \/ ParseMix \/ Validate \/ OpenDatabase \/ LoadKeys
  PROVE  IInv'
<1> DEFINE from == {"list", "mix", "validate", "open", "load"}
           to == {"mix", "validate", "open", "load", "spawn", "error"}
<1>1. Moved(from, to)
  BY DEF ParseList, ParseMix, Validate, OpenDatabase, LoadKeys, Moved
<1>2. to \subseteq MainSteps
  BY DEF MainSteps
<1>3. /\ BasicTypes' /\ TallyInv' /\ SoundInv' /\ ReportInv'
      /\ Fresh' <=> Fresh
      /\ Admitted' <=> Admitted
  BY <1>1, <1>2, MovedKeeps
<1>4. Fresh /\ todo = config.list /\ main \in from /\ main' \in to
  BY <1>1 DEF Moved, IInv, ControlInv
<1>5. ControlInv'
  <2>1. main = "validate" /\ main' = "open" => Admitted
    <3>1. SUFFICES ASSUME main = "validate", ~ConfigRefused(config)
                   PROVE  Admitted
      BY DEF ParseList, ParseMix, Validate, OpenDatabase, LoadKeys
    <3>2. config.list # <<>> /\ \A i \in DOMAIN config.list : config.list[i] # 0
      BY <3>1 DEF ConfigRefused, ListRefused
    <3>3. config.batch # 0
      BY <3>1 DEF ConfigRefused
    <3>4. config.list \in Seq(Nat) /\ config.batch \in Nat
      BY ConfigFacts DEF IInv
    <3> QED
      BY <1>4, <3>2, <3>3, <3>4 DEF Admitted
  <2>2. main' \in {"open", "load", "spawn"} => main \in {"validate", "open", "load"}
          /\ (main = "validate" => main' = "open")
    BY DEF ParseList, ParseMix, Validate, OpenDatabase, LoadKeys
  <2>3. Admitted' \/ main' \in {"list", "mix", "validate", "error"}
    BY <1>3, <1>4, <2>1, <2>2 DEF IInv, ControlInv
  <2> QED
    BY <1>1, <1>3, <1>4, <2>3 DEF ControlInv, Moved
<1>6. Admitted' => LevelInv'
  <2> SUFFICES ASSUME Admitted PROVE LevelInv'
    BY <1>3
  <2>1. LevelInv /\ \A steps : At(steps)' = At(steps)
    BY <1>1, <1>2, MovedKeeps DEF IInv
  <2>2. UNCHANGED <<config, todo, spawned, starts, ready, received, arrived, worker, tally, joined, merged>>
    BY <1>1 DEF Moved, levelVars
  <2>3. spawned < Concurrency
    BY <1>4, LevelFacts DEF Fresh, IInv
  <2>4. SplitInv'
    BY <1>4, <2>1, <2>2, <2>3 DEF LevelInv, SplitInv, Concurrency
  <2>5. MergeInv'
    BY <1>4, <2>1, <2>2 DEF LevelInv, MergeInv, Concurrency
  <2>6. Waiting
    BY <1>4, <2>1 DEF LevelInv, CountInv, Started
  <2>7. Waiting'
    BY <1>4, <2>1, <2>2, <2>6 DEF Waiting
  <2> QED
    BY <2>4, <2>5, <2>7 DEF LevelInv, CountInv
<1> QED
  BY <1>3, <1>5, <1>6 DEF IInv

(* Main gives up: the state it leaves is good.                             *)
LEMMA ErrorGood ==
  ASSUME IInv, RefuseLevel \/ ReadyDisconnected \/ JoinPanicked \/ FailLevel
  PROVE  IInv'
<1> DEFINE from == {"spawn", "recv", "join", "check"}
           to == {"error"}
<1>1. Moved(from, to)
  BY DEF RefuseLevel, ReadyDisconnected, JoinPanicked, FailLevel, Moved
<1>2. to \subseteq MainSteps
  BY DEF MainSteps
<1>3. /\ BasicTypes' /\ TallyInv' /\ SoundInv' /\ ReportInv'
      /\ Admitted' <=> Admitted
      /\ \A steps : At(steps)' = At(steps)
  BY <1>1, <1>2, MovedKeeps
<1>4. main \in from /\ main' = "error" /\ Admitted
  BY <1>1 DEF Moved, IInv, ControlInv
<1>5. ControlInv'
  BY <1>3, <1>4 DEF ControlInv
<1>6. UNCHANGED <<config, todo, spawned, starts, ready, received, arrived, worker, tally, joined, merged>>
  BY <1>1 DEF Moved, levelVars
<1>7. SplitInv /\ CountInv /\ MergeInv
  BY <1>4 DEF IInv, LevelInv
<1>8. SplitInv'
  BY <1>4, <1>6, <1>7 DEF SplitInv, Concurrency
<1>9. MergeInv'
  BY <1>4, <1>6, <1>7 DEF MergeInv, Concurrency
<1>10. CountInv'
  <2>1. CASE Waiting
    BY <1>3, <1>4, <1>6, <2>1 DEF Waiting, CountInv
  <2>2. CASE Started
    BY <1>4, <1>6, <2>2 DEF Started, CountInv, Concurrency
  <2> QED
    BY <1>7, <2>1, <2>2 DEF CountInv
<1> QED
  BY <1>3, <1>5, <1>8, <1>9, <1>10 DEF IInv, LevelInv

(* The barrier lets main go.                                               *)
LEMMA BarrierFull ==
  ASSUME BasicTypes, Admitted, SplitInv, Waiting, BarrierOpen
  PROVE  Started
<1>1. Concurrency \in Nat \ {0} /\ (main = "barrier" => spawned = Concurrency)
  BY LevelFacts DEF SplitInv
<1>2. /\ Cardinality(At({"ready", "barrier"})) \in 0..Concurrency
      /\ Cardinality(At({"barrier"})) \in 0..Concurrency
      /\ Cardinality(At({"barrier"})) = Concurrency => At({"barrier"}) = 0..(Concurrency - 1)
  BY AtFacts
<1>3. Concurrency \in Nat \ {0} /\ arrived >= Concurrency + 1
  BY LevelFacts DEF BarrierOpen, Parties
<1>4. /\ ready + received = Cardinality(At({"ready", "barrier"}))
      /\ arrived = Cardinality(At({"barrier"})) + (IF main = "barrier" THEN 1 ELSE 0)
      /\ main = "barrier" => received = Concurrency
      /\ ready \in Nat /\ received \in Nat /\ arrived \in Nat
  BY DEF Waiting, BasicTypes
<1>5. main = "barrier" /\ Cardinality(At({"barrier"})) = Concurrency /\ arrived = Concurrency + 1
  BY <1>2, <1>3, <1>4
<1>6. received = Concurrency /\ ready = 0
  BY <1>2, <1>3, <1>4, <1>5
<1>7. \A w \in 0..(Concurrency - 1) : worker[w].at = "barrier"
  BY <1>2, <1>5 DEF At
<1> QED
  BY <1>1, <1>5, <1>6, <1>7 DEF Started

LEMMA LeaveBarrierGood ==
  ASSUME IInv, LeaveBarrier
  PROVE  IInv'
<1> DEFINE from == {"barrier"}
           to == {"join"}
<1>1. Moved(from, to)
  BY DEF LeaveBarrier, Moved
<1>2. to \subseteq MainSteps
  BY DEF MainSteps
<1>3. /\ BasicTypes' /\ TallyInv' /\ SoundInv' /\ ReportInv'
      /\ Admitted' <=> Admitted
      /\ \A steps : At(steps)' = At(steps)
  BY <1>1, <1>2, MovedKeeps
<1>4. main = "barrier" /\ main' = "join" /\ Admitted
  BY <1>1 DEF Moved, IInv, ControlInv
<1>5. ControlInv'
  BY <1>3, <1>4 DEF ControlInv
<1>6. UNCHANGED <<config, todo, spawned, starts, ready, received, arrived, worker, tally, joined, merged>>
  BY <1>1 DEF Moved, levelVars
<1>7. SplitInv /\ CountInv /\ MergeInv
  BY <1>4 DEF IInv, LevelInv
<1>8. SplitInv'
  BY <1>4, <1>6, <1>7 DEF SplitInv, Concurrency
<1>9. MergeInv'
  <2>1. joined = 0 /\ Concurrency \in Nat \ {0}
    BY <1>4, <1>7, LevelFacts DEF MergeInv, IInv
  <2> QED
    BY <1>4, <1>6, <1>7, <2>1 DEF MergeInv, Concurrency
<1>10. Started
  BY <1>4, <1>7, BarrierFull DEF CountInv, IInv, LeaveBarrier
<1>11. CountInv'
  BY <1>4, <1>6, <1>10 DEF Started, CountInv, Concurrency
<1> QED
  BY <1>3, <1>5, <1>8, <1>9, <1>11 DEF IInv, LevelInv

-----------------------------------------------------------------------------
(* Main up to the barrier.                                                 *)

LEMMA SpawnWorkerGood ==
  ASSUME IInv, SpawnWorker
  PROVE  IInv'
<1> DEFINE w == spawned
           n == Concurrency
<1>1. Admitted /\ BasicTypes /\ SplitInv /\ MergeInv /\ CountInv
  BY DEF IInv, ControlInv, LevelInv, SpawnWorker
<1>2. /\ n \in Nat \ {0} /\ 0..(n - 1) \subseteq Workers /\ Workers \subseteq Nat
      /\ config.requests \in Nat /\ config.warmup \in Nat
  BY <1>1, LevelFacts, ConfigFacts
<1>3. w \in 0..(n - 1) /\ w \in Workers /\ main = "spawn"
  BY <1>1, <1>2 DEF BasicTypes, SplitInv, SpawnWorker
<1>4. /\ UNCHANGED <<config, todo, ready, received, arrived, tally, joined, merged, runs>>
      /\ spawned' = w + 1
      /\ main' = IF w + 1 = n THEN "recv" ELSE "spawn"
      /\ starts' = [measured |-> starts.measured + Share(config.requests, w),
                    warmup |-> starts.warmup + Share(config.warmup, w)]
      /\ worker' = [worker EXCEPT ![w] =
                      [at |-> "warmup", next |-> starts.warmup,
                       warmEnd |-> starts.warmup + Share(config.warmup, w),
                       first |-> starts.measured,
                       end |-> starts.measured + Share(config.requests, w)]]
  BY DEF SpawnWorker, FirstOf
<1>5. /\ starts.measured = Before(config.requests, n, w)
      /\ starts.warmup = config.requests + Before(config.warmup, n, w)
      /\ starts.measured \in Nat /\ starts.warmup \in Nat
  BY <1>1 DEF SplitInv, BasicTypes
<1>6. \A total \in Nat :
        /\ Share(total, w) \in Nat /\ Before(total, n, w) \in Nat
        /\ Before(total, n, w + 1) = Before(total, n, w) + Share(total, w)
  <2> TAKE total \in Nat
  <2>1. Share(total, w) = (total \div n) + (IF w < total % n THEN 1 ELSE 0)
    BY DEF Share
  <2> HIDE DEF n, w
  <2>2. w \in 0..n
    BY <1>2, <1>3
  <2>3. total \div n \in Nat /\ Before(total, n, w) \in Nat
    BY <1>2, <2>2, BeforeFacts
  <2>4. Before(total, n, w + 1) =
               Before(total, n, w) + (total \div n) + (IF w < total % n THEN 1 ELSE 0)
    BY <1>2, <1>3, BeforeFacts
  <2> QED
    BY <2>1, <2>3, <2>4
<1> DEFINE measured == Share(config.requests, w)
           warm == Share(config.warmup, w)
<1>7. measured \in Nat /\ warm \in Nat
        /\ Before(config.requests, n, w + 1) = starts.measured + measured
        /\ Before(config.warmup, n, w + 1) = Before(config.warmup, n, w) + warm
        /\ Before(config.warmup, n, w) \in Nat
  BY <1>2, <1>5, <1>6
<1> DEFINE born == [at |-> "warmup", next |-> starts.warmup, warmEnd |-> starts.warmup + warm,
                    first |-> starts.measured, end |-> starts.measured + measured]
<1>8. born \in [at : WorkerSteps, next : Nat, warmEnd : Nat, first : Nat, end : Nat]
  BY <1>5, <1>7 DEF WorkerSteps
<1>9. /\ worker' \in [Workers -> [at : WorkerSteps, next : Nat, warmEnd : Nat, first : Nat, end : Nat]]
      /\ worker'[w] = born
      /\ \A v \in Workers \ {w} : worker'[v] = worker[v]
  <2>1. worker' = [worker EXCEPT ![w] = born]
    BY <1>4
  <2> HIDE DEF born
  <2> QED
    BY <1>1, <1>3, <1>8, <2>1 DEF BasicTypes
<1>10. born.at = "warmup" /\ born.first = Before(config.requests, n, w)
         /\ born.end = Before(config.requests, n, w + 1)
  BY <1>5, <1>7
<1>11. /\ starts' \in [measured : Nat, warmup : Nat]
       /\ starts'.measured = Before(config.requests, n, w + 1)
       /\ starts'.warmup = config.requests + Before(config.warmup, n, w + 1)
  BY <1>2, <1>4, <1>5, <1>7
<1> HIDE DEF born, measured, warm, n, w
<1>12. main' \in {"spawn", "recv"} /\ main' \in MainSteps
  BY <1>4 DEF MainSteps
<1>13. BasicTypes'
  BY <1>1, <1>3, <1>4, <1>9, <1>11, <1>12 DEF BasicTypes, w
<1>14. ControlInv'
  BY <1>1, <1>4, <1>12 DEF ControlInv, Admitted
<1>15. Concurrency' = n /\ worker[w] = Idle
  <2>1. ~(w < spawned)
    BY <1>3 DEF w
  <2> QED
    BY <1>1, <1>3, <1>4, <2>1 DEF Concurrency, n, SplitInv
<1>16. SplitInv'
  <2>1. w + 1 <= n /\ (main' = "spawn" => w + 1 < n) /\ (main' = "recv" => w + 1 = n)
    BY <1>2, <1>3, <1>4
  <2>2. ASSUME NEW v \in Workers
        PROVE  IF v < w + 1
               THEN /\ worker'[v].at # "unborn"
                    /\ worker'[v].first = Before(config.requests, n, v)
                    /\ worker'[v].end = Before(config.requests, n, v + 1)
               ELSE worker'[v] = Idle
    <3>1. CASE v = w
      BY <1>3, <1>9, <1>10, <3>1
    <3>2. CASE v # w
      <4>1. v < w + 1 <=> v < w
        BY <1>2, <1>3, <2>2, <3>2
      <4> QED
        BY <1>1, <1>9, <2>2, <3>2, <4>1 DEF SplitInv, w, n
    <3> QED
      BY <3>1, <3>2
  <2> QED
    BY <1>4, <1>11, <1>12, <1>15, <2>1, <2>2 DEF SplitInv
<1>17. TallyInv'
  BY <1>4, <1>9, <1>10, <1>15 DEF IInv, TallyInv, Idle
<1>18. SoundInv' /\ ReportInv'
  BY <1>4 DEF IInv, SoundInv, ReportInv
<1>19. MergeInv'
  BY <1>1, <1>3, <1>4, <1>12, <1>15 DEF MergeInv, n
<1>20. CountInv'
  <2>1. Waiting
    BY <1>1, <1>3 DEF CountInv, Started
  <2>2. \A v \in Workers \ {w} : worker'[v].at = worker[v].at
    BY <1>9
  <2>3. worker'[w].at = "warmup" /\ worker[w].at = "unborn"
    BY <1>9, <1>10, <1>15 DEF Idle
  <2>4. /\ Cardinality(At({"ready", "barrier"})') = Cardinality(At({"ready", "barrier"}))
        /\ Cardinality(At({"barrier"})') = Cardinality(At({"barrier"}))
    BY <1>1, <1>3, <1>9, <2>2, <2>3, AtChange
  <2>5. \A v \in Workers : worker'[v].at \notin {"measure", "returned"} /\ tally[v] = Zero
    BY <2>1, <2>2, <2>3 DEF Waiting
  <2> QED
    BY <1>2, <1>3, <1>4, <1>12, <1>15, <2>1, <2>4, <2>5 DEF CountInv, Waiting
<1> QED
  BY <1>13, <1>14, <1>16, <1>17, <1>18, <1>19, <1>20 DEF IInv, LevelInv

(* Main counts the workers that are ready, and then comes to the barrier.  *)
LEMMA ReadyGood ==
  ASSUME IInv, ReceiveReady \/ StartMeasuring
  PROVE  IInv'
<1>1. Admitted /\ BasicTypes /\ SplitInv /\ MergeInv /\ CountInv
  BY DEF IInv, ControlInv, LevelInv, ReceiveReady, StartMeasuring
<1>2. Concurrency \in Nat \ {0}
  BY <1>1, LevelFacts
<1>3. UNCHANGED <<config, todo, spawned, starts, worker, tally, joined, merged, runs>>
  BY DEF ReceiveReady, StartMeasuring
<1>4. main \in {"recv", "start"} /\ main' \in {"recv", "start", "barrier"} /\ main' \in MainSteps
  BY DEF ReceiveReady, StartMeasuring, MainSteps
<1>5. Waiting
  BY <1>1, <1>4 DEF CountInv, Started
<1>6. /\ ready + received = Cardinality(At({"ready", "barrier"}))
      /\ Cardinality(At({"ready", "barrier"})) \in 0..Concurrency
      /\ ready \in Nat /\ received \in Nat /\ arrived \in Nat
      /\ Cardinality(At({"barrier"})) \in 0..Concurrency
  BY <1>1, <1>5, AtFacts DEF Waiting, BasicTypes
<1>7. /\ ready' \in Nat /\ received' \in Nat /\ arrived' \in Nat
      /\ ready' + received' = ready + received
      /\ arrived' = Cardinality(At({"barrier"})) + (IF main' = "barrier" THEN 1 ELSE 0)
      /\ main' = "recv" => received' < Concurrency
      /\ main' \in {"start", "barrier"} => received' = Concurrency
  BY <1>2, <1>4, <1>5, <1>6 DEF ReceiveReady, StartMeasuring, Waiting
<1>8. BasicTypes'
  BY <1>1, <1>3, <1>4, <1>7 DEF BasicTypes
<1>9. ControlInv'
  BY <1>1, <1>3, <1>4 DEF ControlInv, Admitted
<1>10. SplitInv' /\ MergeInv'
  BY <1>1, <1>3, <1>4 DEF SplitInv, MergeInv, Concurrency
<1>11. TallyInv' /\ SoundInv' /\ ReportInv'
  BY <1>3 DEF IInv, TallyInv, SoundInv, ReportInv
<1>12. CountInv'
  <2>1. \A steps : At(steps)' = At(steps)
    BY <1>3 DEF At
  <2>2. Concurrency' = Concurrency
    BY <1>3 DEF Concurrency
  <2> QED
    BY <1>3, <1>4, <1>5, <1>6, <1>7, <2>1, <2>2 DEF CountInv, Waiting
<1> QED
  BY <1>8, <1>9, <1>10, <1>11, <1>12 DEF IInv, LevelInv

-----------------------------------------------------------------------------
(* The workers.                                                            *)

WorkerRecord == [at : WorkerSteps, next : Nat, warmEnd : Nat, first : Nat, end : Nat]

(* Worker w comes to a step and a request, and keeps its share.            *)
Goes(w, step, next) ==
  /\ worker' \in [Workers -> WorkerRecord]
  /\ worker'[w].at = step /\ worker'[w].next = next
  /\ worker'[w].first = worker[w].first /\ worker'[w].end = worker[w].end
  /\ \A v \in Workers \ {w} : worker'[v] = worker[v]

LEMMA WorkerGoes ==
  ASSUME worker \in [Workers -> WorkerRecord], NEW w \in Workers
  PROVE  /\ WarmUp(w) => Goes(w, "warmup", worker[w].next + 1)
         /\ SendReady(w) => Goes(w, "ready", worker[w].next)
         /\ WorkerArrive(w) => Goes(w, "barrier", worker[w].next)
         /\ WorkerLeave(w) => Goes(w, "measure", worker[w].first)
         /\ Measure(w) => Goes(w, "measure", worker[w].next + 1)
         /\ WorkerReturn(w) => Goes(w, "returned", worker[w].next)
         /\ WorkerPanic(w) => Goes(w, "panicked", worker[w].next)
<1> DEFINE r == worker[w]
<1>1. r \in WorkerRecord /\ r.next \in Nat /\ r.next + 1 \in Nat /\ r.first \in Nat
  BY DEF WorkerRecord
<1>2. {"ready", "barrier", "measure", "returned", "panicked"} \subseteq WorkerSteps
  BY DEF WorkerSteps
<1> HIDE DEF r
<1>3. ASSUME NEW n \in Nat, worker' = [worker EXCEPT ![w] = [r EXCEPT !.next = n]]
      PROVE  Goes(w, r.at, n)
  <2> DEFINE q == [r EXCEPT !.next = n]
  <2>1. q \in WorkerRecord /\ q.at = r.at /\ q.next = n /\ q.first = r.first /\ q.end = r.end
    BY <1>1 DEF WorkerRecord
  <2>2. worker' = [worker EXCEPT ![w] = q]
    BY <1>3
  <2> HIDE DEF q
  <2> QED
    BY <2>1, <2>2 DEF Goes, r
<1>4. ASSUME NEW a \in WorkerSteps, worker' = [worker EXCEPT ![w] = [r EXCEPT !.at = a]]
      PROVE  Goes(w, a, r.next)
  <2> DEFINE q == [r EXCEPT !.at = a]
  <2>1. q \in WorkerRecord /\ q.at = a /\ q.next = r.next /\ q.first = r.first /\ q.end = r.end
    BY <1>1 DEF WorkerRecord
  <2>2. worker' = [worker EXCEPT ![w] = q]
    BY <1>4
  <2> HIDE DEF q
  <2> QED
    BY <2>1, <2>2 DEF Goes, r
<1>5. ASSUME NEW a \in WorkerSteps, NEW n \in Nat,
             worker' = [worker EXCEPT ![w] = [r EXCEPT !.at = a, !.next = n]]
      PROVE  Goes(w, a, n)
  <2> DEFINE q == [r EXCEPT !.at = a, !.next = n]
  <2>1. q \in WorkerRecord /\ q.at = a /\ q.next = n /\ q.first = r.first /\ q.end = r.end
    BY <1>1 DEF WorkerRecord
  <2>2. worker' = [worker EXCEPT ![w] = q]
    BY <1>5
  <2> HIDE DEF q
  <2> QED
    BY <2>1, <2>2 DEF Goes, r
<1>6. WarmUp(w) => Goes(w, "warmup", r.next + 1)
  <2>1. WarmUp(w) => r.at = "warmup" /\ worker' = [worker EXCEPT ![w] = [r EXCEPT !.next = r.next + 1]]
    BY DEF WarmUp, r
  <2> QED
    BY <1>1, <1>3, <2>1
<1>7. Measure(w) => Goes(w, "measure", r.next + 1)
  <2>1. Measure(w) => r.at = "measure" /\ worker' = [worker EXCEPT ![w] = [r EXCEPT !.next = r.next + 1]]
    BY DEF Measure, r
  <2> QED
    BY <1>1, <1>3, <2>1
<1>8. WorkerLeave(w) => Goes(w, "measure", r.first)
  <2>1. WorkerLeave(w) =>
          worker' = [worker EXCEPT ![w] = [r EXCEPT !.at = "measure", !.next = r.first]]
    BY DEF WorkerLeave, r
  <2> QED
    BY <1>1, <1>2, <1>5, <2>1
<1>9. /\ SendReady(w) => worker' = [worker EXCEPT ![w] = [r EXCEPT !.at = "ready"]]
      /\ WorkerArrive(w) => worker' = [worker EXCEPT ![w] = [r EXCEPT !.at = "barrier"]]
      /\ WorkerReturn(w) => worker' = [worker EXCEPT ![w] = [r EXCEPT !.at = "returned"]]
      /\ WorkerPanic(w) => worker' = [worker EXCEPT ![w] = [r EXCEPT !.at = "panicked"]]
  BY DEF SendReady, WorkerArrive, WorkerReturn, WorkerPanic, r
<1> QED
  BY <1>2, <1>4, <1>6, <1>7, <1>8, <1>9 DEF r

(* What a request counts for is a tally, and sound; so are sums of those.  *)
LEMMA CountedSound ==
  ASSUME BasicTypes, config.batch \in Nat \ {0}, NEW index \in Nat, NEW t \in Counted(index)
  PROVE  /\ t \in Tally
         /\ Sound(config, t)
         /\ t.samples = {index} /\ t.count = 1
<1>1. CASE t = [hits |-> 0, misses |-> 0, errors |-> 1, count |-> 1, samples |-> {index}]
  BY <1>1 DEF Tally, Sound
<1>2. CASE \E o \in Outcomes(config, index) :
             t = [hits |-> o.hits, misses |-> o.misses, errors |-> 0, count |-> 1, samples |-> {index}]
  <2>1. PICK o \in Outcomes(config, index) :
             t = [hits |-> o.hits, misses |-> o.misses, errors |-> 0, count |-> 1, samples |-> {index}]
    BY <1>2
  <2>2. /\ o.hits \in Nat /\ o.misses \in Nat
        /\ IF config.workload = "noop" THEN o.hits + o.misses = 0 ELSE o.hits + o.misses >= 1
        /\ o.misses = 0 /\ config.pattern = "sequential" => ReadsHit(config, index)
    BY OutcomesSound
  <2>3. t \in Tally /\ t.samples = {index} /\ t.count = 1
    BY <2>1, <2>2 DEF Tally
  <2>4. Sound(config, t)
    BY <2>1, <2>2 DEF Sound
  <2> QED
    BY <2>3, <2>4
<1> QED
  BY <1>1, <1>2 DEF Counted

LEMMA MergeSound ==
  ASSUME NEW c, NEW a \in Tally, NEW b \in Tally, Sound(c, a), Sound(c, b)
  PROVE  Merge(a, b) \in Tally /\ Sound(c, Merge(a, b))
<1>1. Merge(a, b) \in Tally
  BY DEF Tally, Merge
<1>2. /\ Merge(a, b).hits = a.hits + b.hits /\ Merge(a, b).misses = a.misses + b.misses
      /\ Merge(a, b).errors = a.errors + b.errors /\ Merge(a, b).count = a.count + b.count
      /\ Merge(a, b).samples = a.samples \cup b.samples
      /\ a.hits \in Nat /\ a.misses \in Nat /\ a.errors \in Nat /\ a.count \in Nat
      /\ b.hits \in Nat /\ b.misses \in Nat /\ b.errors \in Nat /\ b.count \in Nat
  BY DEF Merge, Tally
<1>3. Merge(a, b).misses = 0 => a.misses = 0 /\ b.misses = 0
  BY <1>2
<1>4. Merge(a, b).errors = 0 => a.errors = 0 /\ b.errors = 0
  BY <1>2
<1>5. IF c.workload = "noop" THEN Merge(a, b).hits + Merge(a, b).misses = 0
      ELSE Merge(a, b).hits + Merge(a, b).misses + Merge(a, b).errors >= Merge(a, b).count
  BY <1>2 DEF Sound
<1>6. Merge(a, b).misses = 0 /\ Merge(a, b).errors = 0 /\ c.pattern = "sequential" =>
        \A index \in Merge(a, b).samples : ReadsHit(c, index)
  BY <1>2, <1>3, <1>4 DEF Sound
<1> QED
  BY <1>1, <1>5, <1>6 DEF Sound

(* A step of a worker touches nothing of another one, and not its share.   *)
LEMMA WorkerFrame ==
  ASSUME IInv, NEW w \in Workers, WorkerStep(w)
  PROVE  /\ Admitted /\ Admitted'
         /\ w \in 0..(Concurrency - 1)
         /\ UNCHANGED <<config, todo, main, spawned, starts, received, joined, merged, runs>>
         /\ worker' \in [Workers -> WorkerRecord]
         /\ worker'[w].first = worker[w].first /\ worker'[w].end = worker[w].end
         /\ \A v \in Workers \ {w} : worker'[v] = worker[v] /\ tally'[v] = tally[v]
         /\ ready' \in Nat /\ arrived' \in Nat
         /\ ControlInv' /\ SplitInv' /\ MergeInv' /\ ReportInv'
<1>1. UNCHANGED <<config, todo, main, spawned, starts, received, joined, merged, runs>>
  BY DEF WorkerStep
<1>2. worker[w].at # "unborn"
  BY DEF WorkerStep, WarmUp, SendReady, WorkerArrive, WorkerLeave, Measure, WorkerReturn, WorkerPanic
<1>3. Admitted /\ Admitted' /\ main \notin {"list", "mix", "validate", "open", "load"}
  <2>1. ~Fresh
    BY <1>2 DEF Fresh, Idle
  <2> QED
    BY <1>1, <2>1 DEF IInv, ControlInv, Admitted
<1>4. SplitInv /\ MergeInv /\ BasicTypes
  BY <1>3 DEF IInv, LevelInv
<1>5. w < spawned /\ w \in 0..(Concurrency - 1)
  <2>1. w < spawned
    BY <1>2, <1>4 DEF SplitInv, Idle
  <2>2. Concurrency \in Nat /\ spawned \in Nat /\ spawned <= Concurrency /\ w \in Nat
    BY <1>3, <1>4, LevelFacts, ConfigFacts DEF SplitInv, BasicTypes
  <2> QED
    BY <2>1, <2>2
<1>6. worker[w] \in WorkerRecord /\ worker \in [Workers -> WorkerRecord]
  BY <1>4 DEF BasicTypes, WorkerRecord
<1>7. \E step, next : Goes(w, step, next) /\ step # "unborn"
  BY <1>6, WorkerGoes DEF WorkerStep
<1>8. /\ worker' \in [Workers -> WorkerRecord]
      /\ worker'[w].first = worker[w].first /\ worker'[w].end = worker[w].end
      /\ worker'[w].at # "unborn"
      /\ \A v \in Workers \ {w} : worker'[v] = worker[v]
  BY <1>7 DEF Goes
<1>9. \A v \in Workers \ {w} : tally'[v] = tally[v]
  BY <1>4 DEF WorkerStep, WarmUp, SendReady, WorkerArrive, WorkerLeave, Measure, WorkerReturn,
              WorkerPanic, BasicTypes
<1>10. ready' \in Nat /\ arrived' \in Nat
  BY <1>4 DEF WorkerStep, WarmUp, SendReady, WorkerArrive, WorkerLeave, Measure, WorkerReturn,
              WorkerPanic, BasicTypes
<1>11. ControlInv'
  BY <1>1, <1>3 DEF ControlInv
<1>12. MergeInv' /\ ReportInv'
  BY <1>1, <1>4 DEF IInv, MergeInv, ReportInv, Concurrency
<1>13. SplitInv'
  <2>1. Concurrency' = Concurrency
    BY <1>1 DEF Concurrency
  <2> QED
    BY <1>1, <1>4, <1>5, <1>8, <2>1 DEF SplitInv
<1> QED
  BY <1>1, <1>3, <1>5, <1>8, <1>9, <1>10, <1>11, <1>12, <1>13

(* What is counted before the barrier and after it.                        *)
LEMMA WorkerCount ==
  ASSUME IInv, NEW w \in Workers, WorkerStep(w)
  PROVE  CountInv'
<1>1. /\ Admitted /\ w \in 0..(Concurrency - 1)
      /\ UNCHANGED <<config, todo, main, spawned, starts, received, joined, merged, runs>>
      /\ worker' \in [Workers -> WorkerRecord]
      /\ \A v \in Workers \ {w} : worker'[v] = worker[v] /\ tally'[v] = tally[v]
  BY WorkerFrame
<1>2. BasicTypes /\ SplitInv /\ CountInv /\ TallyInv
  BY <1>1 DEF IInv, LevelInv
<1>3. Concurrency' = Concurrency /\ Concurrency \in Nat \ {0}
  BY <1>1, <1>2, LevelFacts DEF Concurrency
<1>4. worker[w] \in WorkerRecord /\ worker \in [Workers -> WorkerRecord]
  BY <1>2 DEF BasicTypes, WorkerRecord
<1>5. ASSUME NEW steps, "unborn" \notin steps
      PROVE  /\ (worker[w].at \in steps <=> worker'[w].at \in steps) =>
                   Cardinality(At(steps)') = Cardinality(At(steps))
             /\ worker[w].at \notin steps /\ worker'[w].at \in steps =>
                   Cardinality(At(steps)') = Cardinality(At(steps)) + 1
  <2>1. \A v \in Workers \ {w} : worker'[v].at = worker[v].at
    BY <1>1
  <2> QED
    BY <1>1, <1>2, <1>5, <2>1, AtChange DEF WorkerRecord
<1>6. CASE WarmUp(w) \/ SendReady(w) \/ WorkerArrive(w)
            \/ (WorkerPanic(w) /\ worker[w].at = "warmup")
  <2>1. worker[w].at \in {"warmup", "ready"} /\ worker'[w].at \notin {"measure", "returned"}
          /\ tally' = tally
    BY <1>4, <1>6, WorkerGoes DEF WarmUp, SendReady, WorkerArrive, WorkerPanic, Goes
  <2>2. Waiting
    BY <1>1, <1>2, <2>1 DEF CountInv, Started
  <2>3. /\ ready' + received = Cardinality(At({"ready", "barrier"})')
        /\ arrived' = Cardinality(At({"barrier"})') + (IF main = "barrier" THEN 1 ELSE 0)
    <3>1. /\ ready + received = Cardinality(At({"ready", "barrier"}))
          /\ arrived = Cardinality(At({"barrier"})) + (IF main = "barrier" THEN 1 ELSE 0)
          /\ ready \in Nat /\ received \in Nat /\ arrived \in Nat
          /\ Cardinality(At({"ready", "barrier"})) \in 0..Concurrency
          /\ Cardinality(At({"barrier"})) \in 0..Concurrency
      BY <1>1, <1>2, <2>2, AtFacts DEF Waiting, BasicTypes
    <3>2. CASE WarmUp(w) \/ WorkerPanic(w)
      <4>1. worker'[w].at \in {"warmup", "panicked"} /\ worker[w].at = "warmup"
              /\ ready' = ready /\ arrived' = arrived
        BY <1>4, <1>6, <3>2, WorkerGoes DEF WarmUp, WorkerPanic, SendReady, WorkerArrive, Goes
      <4>2. /\ Cardinality(At({"ready", "barrier"})') = Cardinality(At({"ready", "barrier"}))
            /\ Cardinality(At({"barrier"})') = Cardinality(At({"barrier"}))
        BY <1>5, <4>1
      <4> QED
        BY <3>1, <4>1, <4>2
    <3>3. CASE SendReady(w)
      <4>1. worker'[w].at = "ready" /\ worker[w].at = "warmup"
              /\ ready' = ready + 1 /\ arrived' = arrived
        BY <1>4, <3>3 DEF SendReady
      <4>2. /\ Cardinality(At({"ready", "barrier"})') = Cardinality(At({"ready", "barrier"})) + 1
            /\ Cardinality(At({"barrier"})') = Cardinality(At({"barrier"}))
        BY <1>5, <4>1
      <4> QED
        BY <3>1, <4>1, <4>2
    <3>4. CASE WorkerArrive(w)
      <4>1. worker'[w].at = "barrier" /\ worker[w].at = "ready"
              /\ ready' = ready /\ arrived' = arrived + 1
        BY <1>4, <3>4 DEF WorkerArrive
      <4>2. /\ Cardinality(At({"ready", "barrier"})') = Cardinality(At({"ready", "barrier"}))
            /\ Cardinality(At({"barrier"})') = Cardinality(At({"barrier"})) + 1
        BY <1>5, <4>1
      <4> QED
        BY <3>1, <4>1, <4>2
    <3> QED
      BY <1>6, <3>2, <3>3, <3>4
  <2>4. \A v \in Workers : worker'[v].at \notin {"measure", "returned"} /\ tally'[v] = Zero
    BY <1>1, <2>1, <2>2 DEF Waiting
  <2> QED
    BY <1>1, <1>3, <2>2, <2>3, <2>4 DEF CountInv, Waiting
<1>7. CASE WorkerLeave(w) \/ Measure(w) \/ WorkerReturn(w)
            \/ (WorkerPanic(w) /\ worker[w].at = "measure")
  <2>1. Started
    <3>1. CASE WorkerLeave(w)
      BY <1>1, <1>2, <3>1, BarrierFull DEF CountInv, WorkerLeave
    <3>2. CASE worker[w].at = "measure"
      BY <1>2, <3>2 DEF CountInv, Waiting
    <3> QED
      BY <1>7, <3>1, <3>2 DEF Measure, WorkerReturn
  <2>2. worker'[w].at \notin {"unborn", "warmup", "ready"} /\ UNCHANGED <<ready, arrived>>
    BY <1>4, <1>7, WorkerGoes DEF WorkerLeave, Measure, WorkerReturn, WorkerPanic, Goes
  <2>3. 0..(Concurrency - 1) \subseteq Workers
    BY <1>1, <1>2, LevelFacts
  <2>4. \A v \in 0..(Concurrency - 1) : worker'[v].at \notin {"unborn", "warmup", "ready"}
    BY <1>1, <2>1, <2>2, <2>3 DEF Started
  <2> QED
    BY <1>1, <1>3, <2>1, <2>2, <2>4 DEF CountInv, Started
<1> QED
  BY <1>6, <1>7 DEF WorkerStep, WorkerPanic

(* A worker counts the requests of its share in order.                     *)
LEMMA WorkerTally ==
  ASSUME IInv, NEW w \in Workers, WorkerStep(w)
  PROVE  tally' \in [Workers -> Tally] /\ TallyInv' /\ SoundInv'
<1>1. /\ Admitted
      /\ UNCHANGED <<config, todo, main, spawned, starts, received, joined, merged, runs>>
      /\ worker'[w].first = worker[w].first /\ worker'[w].end = worker[w].end
      /\ \A v \in Workers \ {w} : worker'[v] = worker[v] /\ tally'[v] = tally[v]
  BY WorkerFrame
<1>2. BasicTypes /\ TallyInv /\ SoundInv /\ SplitInv /\ config.batch \in Nat \ {0}
  BY <1>1, LevelFacts DEF IInv, LevelInv
<1>3. worker[w] \in WorkerRecord /\ worker \in [Workers -> WorkerRecord]
        /\ tally \in [Workers -> Tally] /\ tally[w] \in Tally
  BY <1>2 DEF BasicTypes, WorkerRecord
<1> DEFINE OwnTally(r, t) ==
      /\ r.at \in {"unborn", "warmup", "ready", "barrier"} => t = Zero
      /\ r.at \in {"measure", "returned"} =>
           /\ r.first <= r.next /\ r.next <= r.end
           /\ t.samples = r.first..(r.next - 1)
           /\ t.count = r.next - r.first
      /\ r.at = "returned" => r.next = r.end
<1>4. OwnTally(worker[w], tally[w])
  BY <1>2 DEF TallyInv
<1>5. SUFFICES tally' \in [Workers -> Tally]
                 /\ OwnTally(worker'[w], tally'[w]) /\ Sound(config, tally'[w])
  <2>1. OwnTally(worker'[w], tally'[w]) => TallyInv'
    BY <1>1, <1>2 DEF TallyInv
  <2>2. Sound(config, tally'[w]) => SoundInv'
    BY <1>1, <1>2 DEF SoundInv
  <2> QED
    BY <2>1, <2>2
<1>6. CASE Measure(w)
  <2>1. PICK t \in Counted(worker[w].next) : tally' = [tally EXCEPT ![w] = Merge(@, t)]
    BY <1>6 DEF Measure
  <2>2. t \in Tally /\ Sound(config, t) /\ t.samples = {worker[w].next} /\ t.count = 1
    BY <1>2, <1>3, CountedSound DEF WorkerRecord
  <2>3. tally'[w] = Merge(tally[w], t)
    BY <1>3, <2>1
  <2>4. tally'[w] \in Tally /\ Sound(config, tally'[w])
    BY <1>2, <1>3, <2>2, <2>3, MergeSound DEF SoundInv
  <2>5. tally' \in [Workers -> Tally]
    BY <1>3, <2>1, <2>3, <2>4
  <2>6. /\ worker'[w].at = "measure" /\ worker'[w].next = worker[w].next + 1
        /\ worker[w].at = "measure" /\ worker[w].next < worker[w].end
    BY <1>3, <1>6 DEF Measure
  <2>7. tally'[w].samples = tally[w].samples \cup {worker[w].next}
          /\ tally'[w].count = tally[w].count + 1
    BY <2>2, <2>3 DEF Merge
  <2>8. worker[w].first \in Nat /\ worker[w].next \in Nat /\ worker[w].end \in Nat
    BY <1>3 DEF WorkerRecord
  <2>9. /\ worker[w].first <= worker[w].next
        /\ tally[w].samples = worker[w].first..(worker[w].next - 1)
        /\ tally[w].count = worker[w].next - worker[w].first
    BY <1>4, <2>6
  <2>10. tally'[w].samples = worker[w].first..worker[w].next
    BY <2>7, <2>8, <2>9
  <2>11. OwnTally(worker'[w], tally'[w])
    BY <1>1, <2>6, <2>7, <2>8, <2>9, <2>10
  <2> QED
    BY <2>4, <2>5, <2>11
<1>7. CASE WarmUp(w) \/ SendReady(w) \/ WorkerArrive(w) \/ WorkerLeave(w) \/ WorkerReturn(w)
            \/ WorkerPanic(w)
  <2>1. tally' = tally
    BY <1>7 DEF WarmUp, SendReady, WorkerArrive, WorkerLeave, WorkerReturn, WorkerPanic
  <2>2. Sound(config, tally'[w]) /\ tally' \in [Workers -> Tally]
    BY <1>2, <1>3, <2>1 DEF SoundInv
  <2>3. worker[w].first \in Nat /\ worker[w].next \in Nat /\ worker[w].end \in Nat
    BY <1>3 DEF WorkerRecord
  <2>4. CASE WarmUp(w) \/ SendReady(w) \/ WorkerArrive(w)
    <3>1. /\ worker[w].at \in {"warmup", "ready"}
          /\ worker'[w].at \in {"warmup", "ready", "barrier"}
      BY <1>3, <2>4, WorkerGoes DEF WarmUp, SendReady, WorkerArrive, Goes
    <3> QED
      BY <1>4, <2>1, <2>2, <3>1
  <2>5. CASE WorkerLeave(w)
    <3>1. /\ worker[w].at = "barrier" /\ worker'[w].at = "measure"
          /\ worker'[w].next = worker[w].first
      BY <1>3, <2>5 DEF WorkerLeave
    <3>2. tally'[w] = Zero
      BY <1>4, <2>1, <3>1
    <3>3. worker[w].first <= worker[w].end
      <4>1. w \in 0..(Concurrency - 1) /\ w < spawned /\ Concurrency \in Nat \ {0}
              /\ config.requests \in Nat
        BY <1>1, <1>2, <3>1, WorkerFrame, LevelFacts, ConfigFacts DEF SplitInv, Idle
      <4>2. worker[w].first = Before(config.requests, Concurrency, w)
              /\ worker[w].end = Before(config.requests, Concurrency, w + 1)
        BY <1>2, <4>1 DEF SplitInv
      <4>3. /\ config.requests \div Concurrency \in Nat
            /\ Before(config.requests, Concurrency, w + 1) =
                 Before(config.requests, Concurrency, w) + (config.requests \div Concurrency)
                   + (IF w < config.requests % Concurrency THEN 1 ELSE 0)
        BY <4>1, BeforeFacts
      <4>4. \A a, b, q \in Nat : b = a + q + 0 \/ b = a + q + 1 => a <= b
        OBVIOUS
      <4> QED
        BY <2>3, <4>2, <4>3, <4>4
    <3> QED
      BY <1>1, <2>2, <2>3, <3>1, <3>2, <3>3 DEF Zero
  <2>6. CASE WorkerReturn(w)
    <3>1. /\ worker[w].at = "measure" /\ worker'[w].at = "returned"
          /\ worker'[w].next = worker[w].next /\ worker[w].next = worker[w].end
      BY <1>3, <2>6 DEF WorkerReturn
    <3> QED
      BY <1>1, <1>4, <2>1, <2>2, <3>1
  <2>7. CASE WorkerPanic(w)
    <3>1. worker'[w].at = "panicked"
      BY <1>3, <2>7 DEF WorkerPanic
    <3> QED
      BY <2>2, <3>1
  <2> QED
    BY <1>7, <2>4, <2>5, <2>6, <2>7
<1> QED
  BY <1>6, <1>7 DEF WorkerStep

LEMMA WorkerGood ==
  ASSUME IInv, NEW w \in Workers, WorkerStep(w)
  PROVE  IInv'
<1>1. /\ UNCHANGED <<config, todo, main, spawned, starts, received, joined, merged, runs>>
      /\ worker' \in [Workers -> WorkerRecord]
      /\ ready' \in Nat /\ arrived' \in Nat
      /\ ControlInv' /\ SplitInv' /\ MergeInv' /\ ReportInv'
  BY WorkerFrame
<1>2. tally' \in [Workers -> Tally] /\ TallyInv' /\ SoundInv' /\ CountInv'
  BY WorkerTally, WorkerCount
<1>3. BasicTypes'
  BY <1>1, <1>2 DEF IInv, BasicTypes, WorkerRecord
<1> QED
  BY <1>1, <1>2, <1>3 DEF IInv, LevelInv

-----------------------------------------------------------------------------
(* Main after the barrier.                                                 *)

LEMMA JoinWorkerGood ==
  ASSUME IInv, JoinWorker
  PROVE  IInv'
<1> DEFINE n == Concurrency
           w == joined
<1>1. Admitted /\ BasicTypes /\ SplitInv /\ MergeInv /\ CountInv /\ TallyInv /\ SoundInv
  BY DEF IInv, ControlInv, LevelInv, JoinWorker
<1>2. n \in Nat \ {0} /\ 0..(n - 1) \subseteq Workers /\ config.requests \in Nat
  BY <1>1, LevelFacts, ConfigFacts
<1>3. main = "join" /\ spawned = n /\ w \in 0..(n - 1) /\ w \in Workers /\ w < spawned
  BY <1>1, <1>2 DEF BasicTypes, SplitInv, MergeInv, JoinWorker
<1>4. /\ UNCHANGED <<config, todo, spawned, starts, ready, received, arrived, worker, tally, runs>>
      /\ merged' = Merge(merged, tally[w]) /\ joined' = w + 1
      /\ main' = IF w + 1 = n THEN "check" ELSE "join"
      /\ worker[w].at = "returned"
  BY DEF JoinWorker
<1>5. tally[w] \in Tally /\ merged \in Tally /\ worker[w].first \in Nat
  BY <1>1, <1>3 DEF BasicTypes
<1>6. merged' \in Tally /\ Sound(config, merged')
  BY <1>1, <1>3, <1>4, <1>5, MergeSound DEF SoundInv
<1>7. /\ worker[w].first = Before(config.requests, n, w)
      /\ worker[w].next = Before(config.requests, n, w + 1)
      /\ tally[w].samples = worker[w].first..(worker[w].next - 1)
      /\ tally[w].count = worker[w].next - worker[w].first
      /\ merged.samples = 0..(Before(config.requests, n, w) - 1)
      /\ merged.count = Before(config.requests, n, w)
  BY <1>1, <1>3, <1>4 DEF SplitInv, TallyInv, MergeInv
<1> DEFINE a == Before(config.requests, n, w)
           b == Before(config.requests, n, w + 1)
<1>8. a \in Nat /\ b \in Nat /\ a <= b
  <2>1. w \in 0..n /\ w + 1 \in 0..n
    BY <1>2, <1>3
  <2>2. a \in Nat /\ b \in Nat
    BY <1>2, <2>1, BeforeFacts
  <2>3. worker[w].first <= worker[w].next
    BY <1>1, <1>3, <1>4 DEF TallyInv
  <2> QED
    BY <1>7, <2>2, <2>3
<1> HIDE DEF a, b, n, w
<1>9. merged'.samples = 0..(b - 1) /\ merged'.count = b
  <2>1. merged'.samples = (0..(a - 1)) \cup (a..(b - 1)) /\ merged'.count = a + (b - a)
    BY <1>4, <1>7 DEF Merge, a, b
  <2> QED
    BY <1>8, <2>1
<1>10. main' \in {"join", "check"} /\ main' \in MainSteps
         /\ w + 1 <= n /\ (main' = "join" => w + 1 < n) /\ (main' = "check" => w + 1 = n)
  BY <1>2, <1>3, <1>4 DEF MainSteps
<1>11. BasicTypes'
  BY <1>1, <1>3, <1>4, <1>6, <1>10 DEF BasicTypes, w
<1>12. ControlInv'
  BY <1>1, <1>4, <1>10 DEF ControlInv, Admitted
<1>13. SplitInv'
  BY <1>1, <1>3, <1>4, <1>10 DEF SplitInv, Concurrency
<1>14. TallyInv' /\ ReportInv'
  BY <1>4 DEF IInv, TallyInv, ReportInv
<1>15. SoundInv'
  BY <1>1, <1>4, <1>6 DEF SoundInv
<1>16. CountInv'
  BY <1>1, <1>3, <1>4, <1>10 DEF CountInv, Waiting, Started, Concurrency
<1>17. MergeInv'
  <2>1. Concurrency' = n
    BY <1>4 DEF Concurrency, n
  <2>2. b = Before(config.requests, n, w + 1)
    BY DEF b
  <2> QED
    BY <1>4, <1>9, <1>10, <2>1, <2>2 DEF MergeInv
<1> QED
  BY <1>11, <1>12, <1>13, <1>14, <1>15, <1>16, <1>17 DEF IInv, LevelInv

(* With every worker joined main has every request, and a report that      *)
(* passes a hit rate of 100% has no miss.                                  *)
LEMMA ReportIs ==
  ASSUME IInv, ReportLevel
  PROVE  /\ merged.samples = 0..(config.requests - 1)
         /\ merged.count = config.requests
         /\ Sound(config, merged)
         /\ config.minHitRate = 100 => merged.misses = 0
<1>1. Admitted /\ BasicTypes /\ MergeInv /\ main = "check"
  BY DEF IInv, ControlInv, LevelInv, ReportLevel
<1>2. Concurrency \in Nat \ {0} /\ config.requests \in Nat
  BY <1>1, LevelFacts, ConfigFacts
<1>3. Before(config.requests, Concurrency, Concurrency) = config.requests
  BY <1>2, BeforeFacts
<1>4. joined = Concurrency
  BY <1>1 DEF MergeInv
<1>5. config.minHitRate = 100 => merged.misses = 0
  <2>1. merged.hits \in Nat /\ merged.misses \in Nat
    BY <1>1 DEF BasicTypes, Tally
  <2>2. ~(merged.hits + merged.misses > 0
            /\ 100 * merged.hits < config.minHitRate * (merged.hits + merged.misses))
    BY DEF ReportLevel, BelowMinHitRate
  <2> QED
    BY <2>1, <2>2
<1> QED
  BY <1>1, <1>3, <1>4, <1>5 DEF MergeInv, IInv, SoundInv

LEMMA ReportLevelGood ==
  ASSUME IInv, ReportLevel
  PROVE  IInv'
<1>1. Admitted /\ BasicTypes /\ main = "check"
  BY DEF IInv, ControlInv, ReportLevel
<1>2. runs' = Append(runs, merged) /\ config' = config
  BY DEF ReportLevel
<1>3. runs \in Seq(Tally) /\ merged \in Tally
  BY <1>1 DEF BasicTypes
<1>4. /\ runs' \in Seq(Tally)
      /\ \A i \in 1..Len(runs') : (i \in 1..Len(runs) /\ runs'[i] = runs[i]) \/ runs'[i] = merged
  BY <1>2, <1>3
<1>5. ReportInv'
  BY <1>2, <1>4, ReportIs DEF IInv, ReportInv
<1>6. CASE Len(todo) > 1
  <2>1. todo' = Tail(todo) /\ main' = "spawn" /\ FreshLevel
    BY <1>6 DEF ReportLevel
  <2>2. /\ todo' \in Seq(Levels) /\ todo' # <<>>
        /\ \A i \in 1..Len(todo') : i + 1 \in 1..Len(todo) /\ todo'[i] = todo[i + 1]
    <3>1. todo \in Seq(Levels) /\ todo # <<>> /\ Len(todo) \in Nat
      BY <1>1 DEF BasicTypes, Admitted
    <3>2. /\ Tail(todo) \in Seq(Levels) /\ Len(Tail(todo)) = Len(todo) - 1
          /\ \A i \in 1..Len(Tail(todo)) : Tail(todo)[i] = todo[i + 1]
      BY <3>1, HeadTailProperties
    <3>3. Tail(todo) # <<>>
      <4>1. Len(todo) - 1 # 0
        <5>1. \A k \in Nat : k > 1 => k - 1 # 0
          OBVIOUS
        <5>2. Len(todo) \in Nat
          BY <3>1
        <5> QED
          BY <1>6, <5>1, <5>2
      <4>2. Len(<<>>) = 0
        BY EmptySeq
      <4> QED
        BY <3>2, <4>1, <4>2, Zenon
    <3>4. \A i \in 1..Len(Tail(todo)) : i + 1 \in 1..Len(todo)
      BY <3>1, <3>2
    <3> QED
      BY <2>1, <3>2, <3>3, <3>4
  <2>3. Admitted'
    BY <1>1, <1>2, <2>2 DEF Admitted
  <2>4. Fresh'
    BY <1>2, <2>1 DEF FreshLevel, Fresh
  <2>5. config.requests \in Nat /\ config \in Configs
    BY <1>1, ConfigFacts DEF BasicTypes
  <2>6. Zero \in Tally /\ Idle \in [at : WorkerSteps, next : Nat, warmEnd : Nat, first : Nat, end : Nat]
    BY DEF Zero, Tally, Idle, WorkerSteps
  <2>7. BasicTypes'
    <3>1. worker' \in [Workers -> [at : WorkerSteps, next : Nat, warmEnd : Nat, first : Nat, end : Nat]]
      BY <2>1, <2>6 DEF FreshLevel
    <3>2. tally' \in [Workers -> Tally]
      BY <2>1, <2>6 DEF FreshLevel
    <3>3. starts' \in [measured : Nat, warmup : Nat]
      BY <2>1, <2>5 DEF FreshLevel
    <3> QED
      BY <1>2, <1>4, <2>1, <2>2, <2>5, <2>6, <3>1, <3>2, <3>3 DEF BasicTypes, FreshLevel, MainSteps
  <2>8. ControlInv'
    BY <2>1, <2>3 DEF ControlInv
  <2>9. (main \in {"list", "mix", "validate", "open", "load", "spawn"})'
    BY <2>1
  <2>10. LevelInv' /\ TallyInv' /\ SoundInv'
    BY <2>3, <2>4, <2>7, <2>9, FreshIsGood, FreshTallies, PTL
  <2> QED
    BY <1>5, <2>7, <2>8, <2>10 DEF IInv
<1>7. CASE ~(Len(todo) > 1)
  <2>1. main' = "ok" /\ UNCHANGED <<todo, levelVars>>
    BY <1>7 DEF ReportLevel
  <2>2. UNCHANGED <<config, todo, spawned, starts, ready, received, arrived, worker, tally, joined, merged>>
    BY <1>2, <2>1 DEF levelVars
  <2>3. SplitInv /\ CountInv /\ MergeInv
    BY <1>1 DEF IInv, LevelInv
  <2>4. BasicTypes'
    BY <1>1, <1>4, <2>1, <2>2 DEF BasicTypes, MainSteps
  <2>5. ControlInv' /\ TallyInv' /\ SoundInv'
    BY <1>1, <2>1, <2>2 DEF IInv, ControlInv, Admitted, TallyInv, SoundInv
  <2>6. SplitInv' /\ MergeInv'
    BY <1>1, <2>1, <2>2, <2>3 DEF SplitInv, MergeInv, Concurrency
  <2>7. CountInv'
    BY <1>1, <2>1, <2>2, <2>3 DEF CountInv, Waiting, Started, Concurrency
  <2> QED
    BY <1>5, <2>4, <2>5, <2>6, <2>7 DEF IInv, LevelInv
<1> QED
  BY <1>6, <1>7

-----------------------------------------------------------------------------
(* The theorems.                                                           *)

LEMMA NextGood ==
  ASSUME IInv, [Next]_vars
  PROVE  IInv'
<1>1. CASE MainStep
  BY <1>1, StartupGood, ErrorGood, LeaveBarrierGood, SpawnWorkerGood, ReadyGood, JoinWorkerGood,
     ReportLevelGood DEF MainStep
<1>2. ASSUME NEW w \in Workers, WorkerStep(w)
      PROVE  IInv'
  BY <1>2, WorkerGood
<1>3. CASE UNCHANGED vars
  <2>1. UNCHANGED <<config, todo, main, runs, spawned, starts, ready, received, arrived, worker,
                    tally, joined, merged>>
    BY <1>3 DEF vars, levelVars
  <2>2. BasicTypes' /\ ControlInv' /\ TallyInv' /\ SoundInv' /\ ReportInv' /\ (Admitted' <=> Admitted)
    BY <2>1 DEF IInv, BasicTypes, ControlInv, Fresh, Admitted, TallyInv, SoundInv, ReportInv
  <2>3. Admitted => SplitInv' /\ MergeInv'
    BY <2>1 DEF IInv, LevelInv, SplitInv, MergeInv, Concurrency
  <2>4. Admitted => CountInv'
    <3>1. \A steps : At(steps)' = At(steps)
      BY <2>1 DEF At
    <3> QED
      BY <2>1, <3>1 DEF IInv, LevelInv, CountInv, Waiting, Started, Concurrency
  <2> QED
    BY <2>2, <2>3, <2>4 DEF IInv, LevelInv
<1> QED
  BY <1>1, <1>2, <1>3 DEF Next, Ended

(* What the runner's state satisfies at every step: the invariant that the *)
(* theorems below unfold.                                                  *)
THEOREM InvariantHolds == Spec => []IInv
<1>1. Init => IInv
  BY InitGood
<1>2. IInv /\ [Next]_vars => IInv'
  BY NextGood
<1> QED
  BY <1>1, <1>2, PTL DEF Spec

(* The benchmark's counters have their types and their bounds: no worker   *)
(* beyond the level's concurrency is spawned, awaited or joined, and no    *)
(* request beyond --requests and --warmup-requests is given to one.        *)
THEOREM BenchTypeCorrect == Spec => []TypeOK
<1>1. IInv => TypeOK
  BY TypesFollow DEF IInv
<1> QED
  BY <1>1, InvariantHolds, PTL

(* No worker measures before all of them are warm and main's clock runs.   *)
THEOREM ClockCoversRequests == Spec => []MeasuredTogether
<1>1. IInv => MeasuredTogether
  <2> SUFFICES ASSUME IInv, Measuring PROVE MeasuredTogether
    BY DEF MeasuredTogether
  <2>1. ~Fresh /\ ~Waiting
    BY DEF Measuring, Fresh, Waiting
  <2>2. Started
    BY <2>1 DEF IInv, ControlInv, LevelInv, CountInv
  <2> QED
    BY <2>2 DEF MeasuredTogether, Started
<1> QED
  BY <1>1, InvariantHolds, PTL

(* However the threads run, a report covers every request exactly once.    *)
THEOREM ReportsCoverRequests == Spec => []ReportsComplete
<1>1. IInv => ReportsComplete
  <2> SUFFICES ASSUME IInv, NEW i \in DOMAIN runs
               PROVE  /\ runs[i].samples = 0..(config.requests - 1)
                      /\ runs[i].count = config.requests
                      /\ IF config.workload = "noop" THEN runs[i].hits + runs[i].misses = 0
                         ELSE runs[i].hits + runs[i].misses >= config.requests - runs[i].errors
    BY DEF ReportsComplete
  <2>1. i \in 1..Len(runs) /\ runs[i] \in Tally /\ config.requests \in Nat
    BY ConfigFacts DEF IInv, BasicTypes
  <2>2. runs[i].samples = 0..(config.requests - 1) /\ runs[i].count = config.requests
          /\ Sound(config, runs[i])
    BY <2>1 DEF IInv, ReportInv
  <2>3. runs[i].hits \in Nat /\ runs[i].misses \in Nat /\ runs[i].errors \in Nat
    BY <2>1 DEF Tally
  <2> QED
    BY <2>1, <2>2, <2>3 DEF Sound
<1> QED
  BY <1>1, InvariantHolds, PTL

(* A benchmark that passes --min-hit-rate 1 without errors has read only   *)
(* keys that are stored.                                                   *)
THEOREM PassedIsStored == Spec => []NoMissPasses
<1>1. IInv => NoMissPasses
  <2> SUFFICES ASSUME IInv, config.minHitRate = 100, NEW i \in DOMAIN runs
               PROVE  /\ runs[i].misses = 0
                      /\ runs[i].errors = 0 /\ config.pattern = "sequential" =>
                           \A index \in runs[i].samples : ReadsHit(config, index)
    BY DEF NoMissPasses, ReadsHit, OpAt, PositionsAt
  <2>1. i \in 1..Len(runs)
    BY DEF IInv, BasicTypes
  <2> QED
    BY <2>1 DEF IInv, ReportInv, Sound
<1> QED
  BY <1>1, InvariantHolds, PTL

-----------------------------------------------------------------------------
(* Counting the requests that read one line of a key file.                 *)

LEMMA DivisionIs ==
  ASSUME NEW n \in Nat \ {0}, NEW t \in Nat
  PROVE  /\ t \div n \in Nat /\ t % n \in Nat /\ t % n \in 0..(n - 1)
         /\ t = ((t \div n) * n) + (t % n)
  OBVIOUS

LEMMA DivisionUnique ==
  ASSUME NEW n \in Nat \ {0}, NEW a \in Nat, NEW b \in Nat,
         NEW r \in 0..(n - 1), NEW s \in 0..(n - 1),
         (a * n) + r = (b * n) + s
  PROVE  a = b /\ r = s
<1>1. \A x, y \in Nat : x < y => (x * n) + n <= y * n
  <2>1. \A x, y \in Nat : x <= y => x * n <= y * n
    OBVIOUS
  <2>2. \A x \in Nat : (x + 1) * n = (x * n) + n /\ x * n \in Nat
    OBVIOUS
  <2>3. \A x, y \in Nat : x < y => x + 1 \in Nat /\ x + 1 <= y
    OBVIOUS
  <2> QED
    BY <2>1, <2>2, <2>3
<1>2. a * n \in Nat /\ b * n \in Nat
  OBVIOUS
<1>3. ~(a < b)
  BY <1>1, <1>2
<1>4. ~(b < a)
  BY <1>1, <1>2
<1> QED
  BY <1>2, <1>3, <1>4

(* How many of the first N numbers leave the rest a when divided by n.     *)
CountOf(N, n, a) == (N \div n) + (IF a < N % n THEN 1 ELSE 0)

LEMMA CountBound ==
  ASSUME NEW N \in Nat, NEW n \in Nat \ {0}, NEW a \in 0..(n - 1)
  PROVE  /\ CountOf(N, n, a) \in Nat
         /\ \A m \in Nat : m < CountOf(N, n, a) <=> (m * n) + a < N
<1> DEFINE q == N \div n
           r == N % n
<1>1. q \in Nat /\ r \in 0..(n - 1) /\ N = (q * n) + r
  BY DivisionIs
<1>2. CountOf(N, n, a) = q + (IF a < r THEN 1 ELSE 0)
  BY DEF CountOf
<1> HIDE DEF q, r
<1>3. CountOf(N, n, a) \in Nat
  BY <1>1, <1>2
<1>4. ASSUME NEW m \in Nat
      PROVE  m < CountOf(N, n, a) <=> (m * n) + a < N
  <2>1. m * n \in Nat /\ q * n \in Nat
    BY <1>1
  <2>2. m < q => (m * n) + n <= q * n
    <3>1. \A x, y \in Nat : x <= y => x * n <= y * n
      OBVIOUS
    <3>2. (m + 1) * n = (m * n) + n /\ m + 1 \in Nat
      OBVIOUS
    <3> QED
      BY <1>1, <3>1, <3>2
  <2>3. q < m => (q * n) + n <= m * n
    <3>1. \A x, y \in Nat : x <= y => x * n <= y * n
      OBVIOUS
    <3>2. (q + 1) * n = (q * n) + n /\ q + 1 \in Nat
      BY <1>1
    <3> QED
      BY <1>1, <3>1, <3>2
  <2>4. CASE m < q
    BY <1>1, <1>2, <2>1, <2>2, <2>4
  <2>5. CASE m = q
    BY <1>1, <1>2, <2>1, <2>5
  <2>6. CASE q < m
    BY <1>1, <1>2, <2>1, <2>3, <2>6
  <2> QED
    BY <1>1, <2>4, <2>5, <2>6
<1> QED
  BY <1>3, <1>4

(* Of things numbered 0 to N - 1 that many have a number with that rest.   *)
LEMMA ResidueCount ==
  ASSUME NEW X, NEW N \in Nat, NEW f \in [X -> 0..(N - 1)],
         \A x, y \in X : f[x] = f[y] => x = y,
         \A k \in 0..(N - 1) : \E x \in X : f[x] = k,
         NEW n \in Nat \ {0}, NEW a \in 0..(n - 1)
  PROVE  Cardinality({x \in X : f[x] % n = a}) = CountOf(N, n, a)
<1> DEFINE S == {x \in X : f[x] % n = a}
           C == CountOf(N, n, a)
           h == [x \in S |-> (f[x] \div n) + 1]
<1>1. C \in Nat /\ \A m \in Nat : m < C <=> (m * n) + a < N
  BY CountBound
<1>2. ASSUME NEW x \in S
      PROVE  /\ f[x] \div n \in Nat /\ f[x] = ((f[x] \div n) * n) + a
             /\ f[x] \in Nat /\ f[x] < N
  <2>1. f[x] \in Nat /\ f[x] < N /\ f[x] % n = a
    BY <1>2
  <2> QED
    BY <2>1, DivisionIs
<1> HIDE DEF C
<1>3. h \in [S -> 1..C]
  <2>1. ASSUME NEW x \in S
        PROVE  (f[x] \div n) + 1 \in 1..C
    <3> DEFINE d == f[x] \div n
    <3>1. d \in Nat /\ (d * n) + a < N
      BY <1>2, <2>1
    <3> HIDE DEF d
    <3>2. d < C
      BY <1>1, <3>1
    <3>3. d + 1 \in 1..C
      BY <1>1, <3>1, <3>2
    <3> QED
      BY <3>3 DEF d
  <2> QED
    BY <2>1
<1>4. ASSUME NEW x \in S, NEW y \in S, h[x] = h[y]
      PROVE  x = y
  <2>1. h[x] = (f[x] \div n) + 1 /\ h[y] = (f[y] \div n) + 1
    OBVIOUS
  <2>2. f[x] \div n = f[y] \div n
    <3>1. f[x] \div n \in Nat /\ f[y] \div n \in Nat
      BY <1>2
    <3>2. \A u, v \in Nat : u + 1 = v + 1 => u = v
      OBVIOUS
    <3> QED
      BY <1>4, <2>1, <3>1, <3>2
  <2>3. f[x] = f[y]
    BY <1>2, <2>2
  <2> QED
    BY <2>3
<1>5. ASSUME NEW m \in 1..C
      PROVE  \E x \in S : h[x] = m
  <2> DEFINE k == ((m - 1) * n) + a
  <2>1. m - 1 \in Nat /\ m - 1 < C /\ a \in Nat /\ (m - 1) * n \in Nat
    BY <1>1
  <2>2. k \in 0..(N - 1)
    BY <1>1, <2>1
  <2>3. k % n = a /\ k \div n = m - 1
    <3>1. k = ((m - 1) * n) + a /\ k \in Nat
      BY <2>2
    <3> HIDE DEF k
    <3>2. k \div n \in Nat /\ k % n \in 0..(n - 1) /\ k = ((k \div n) * n) + (k % n)
      BY <3>1, DivisionIs
    <3> QED
      BY <2>1, <3>1, <3>2, DivisionUnique
  <2>4. PICK x \in X : f[x] = k
    BY <2>2
  <2> HIDE DEF k
  <2>5. x \in S
    BY <2>3, <2>4
  <2>6. h[x] = (m - 1) + 1
    BY <2>3, <2>4, <2>5
  <2> QED
    BY <2>1, <2>5, <2>6
<1> HIDE DEF S, h
<1>6. h \in Bijection(S, 1..C)
  BY <1>3, <1>4, <1>5, Fun_IsBij
<1>7. ExistsBijection(1..C, S)
  BY <1>6, Fun_ExistsBijSymmetric DEF ExistsBijection
<1> QED
  BY <1>1, <1>7, FS_CountingElements DEF S, C

(* Data of a workload that was loaded is a list, and not an empty one.     *)
LEMMA UsableIs ==
  ASSUME NEW file, IsFiniteSet(DOMAIN file)
  PROVE  \E n \in Nat : DOMAIN UsableLines(file) = 1..n /\ Len(UsableLines(file)) = n
<1> DEFINE usable == {i \in DOMAIN file : file[i] # Blank}
           n == Cardinality(usable)
<1>1. n \in Nat
  <2>1. usable \in SUBSET DOMAIN file
    OBVIOUS
  <2> HIDE DEF usable
  <2>2. IsFiniteSet(usable)
    BY <2>1, FS_Subset
  <2> QED
    BY <2>2, FS_CardinalityType
<1>2. \E e : UsableLines(file) = [k \in 1..n |-> e[k]]
  <2> DEFINE Nth(k) == CHOOSE i \in usable : Cardinality({j \in usable : j <= i}) = k
  <2>1. UsableLines(file) = [k \in 1..n |-> file[Nth(k)]]
    BY DEF UsableLines
  <2> WITNESS [k \in 1..n |-> file[Nth(k)]]
  <2> HIDE DEF usable, n, Nth
  <2> QED
    BY <2>1
<1>3. PICK e : UsableLines(file) = [k \in 1..n |-> e[k]]
  BY <1>2
<1> HIDE DEF usable, n
<1>4. \A m \in Nat : \A g : Len([k \in 1..m |-> g[k]]) = m
  OBVIOUS
<1> QED
  BY <1>1, <1>3, <1>4

Single(c) == c.workload \notin {"mixed-rpc", "noop"}

LEMMA DataIs ==
  ASSUME NEW c \in Configs, Single(c), ~LoadFails(c)
  PROVE  \E n \in Nat : /\ DOMAIN Data(c, PartOf(c.workload)) = 1..n
                        /\ Len(Data(c, PartOf(c.workload))) = n
<1> DEFINE part == PartOf(c.workload)
           file == FileOf(c, part)
<1>1. c.workload \in Workloads /\ c.workload \notin {"mixed-rpc", "noop"}
  BY BenchAssumption DEF BenchAssumption, Single
<1>2. part \in PartsOf(c)
  BY <1>1 DEF Workloads, PartsOf, PartOf
<1>3. file \notin {None, NoFile, NotUtf8}
  BY <1>2 DEF LoadFails, PartFails
<1>4. \E flag \in Flags : file = c.files[flag]
  BY <1>1 DEF FileOf, Flags
<1>5. IsFiniteSet(DOMAIN file)
  BY <1>3, <1>4, BenchAssumption DEF BenchAssumption
<1> QED
  BY <1>5, UsableIs DEF Data

(* The positions a request of one operation reads, and which requests read *)
(* position p at which place of their batch.                               *)
ReadsOf(c, index) == CHOOSE p \in PositionsOf(c, c.workload, index) : TRUE
Reading(c, p) ==
  {r \in (0..(c.requests - 1)) \X (1..c.batch) :
     r[2] \in DOMAIN ReadsOf(c, r[1]) /\ ReadsOf(c, r[1])[r[2]] = p}

(* Batches number the reads through: the offsets follow the index.         *)
LEMMA PairsNumbered ==
  ASSUME NEW R \in Nat, NEW B \in Nat \ {0}
  PROVE  LET X == (0..(R - 1)) \X (1..B)
             f == [r \in X |-> (r[1] * B) + (r[2] - 1)]
         IN /\ R * B \in Nat
            /\ f \in [X -> 0..((R * B) - 1)]
            /\ \A x, y \in X : f[x] = f[y] => x = y
            /\ \A k \in 0..((R * B) - 1) : \E x \in X : f[x] = k
<1> DEFINE X == (0..(R - 1)) \X (1..B)
           f == [r \in X |-> (r[1] * B) + (r[2] - 1)]
<1>0. R * B \in Nat
  OBVIOUS
<1>1. \A x, y \in Nat : x < y => (x * B) + B <= y * B
  <2>1. \A x, y \in Nat : x <= y => x * B <= y * B
    OBVIOUS
  <2>2. \A x \in Nat : (x + 1) * B = (x * B) + B /\ x * B \in Nat
    OBVIOUS
  <2>3. \A x, y \in Nat : x < y => x + 1 \in Nat /\ x + 1 <= y
    OBVIOUS
  <2> QED
    BY <2>1, <2>2, <2>3
<1>2. ASSUME NEW x \in X
      PROVE  /\ x[1] \in Nat /\ x[1] < R /\ x[2] - 1 \in 0..(B - 1) /\ x[2] \in Nat
             /\ x = <<x[1], x[2]>>
  BY <1>2
<1>3. f \in [X -> 0..((R * B) - 1)]
  <2>1. ASSUME NEW x \in X
        PROVE  (x[1] * B) + (x[2] - 1) \in 0..((R * B) - 1)
    <3>1. (x[1] * B) + B <= R * B /\ x[1] * B \in Nat
      BY <1>1, <1>2, <2>1
    <3> QED
      BY <1>0, <1>2, <2>1, <3>1
  <2> QED
    BY <2>1
<1>4. ASSUME NEW x \in X, NEW y \in X, f[x] = f[y]
      PROVE  x = y
  <2>1. (x[1] * B) + (x[2] - 1) = (y[1] * B) + (y[2] - 1)
    BY <1>4
  <2>0. /\ x[1] \in Nat /\ x[2] - 1 \in 0..(B - 1)
        /\ y[1] \in Nat /\ y[2] - 1 \in 0..(B - 1)
    BY <1>2, <1>4
  <2>2. x[1] = y[1] /\ x[2] - 1 = y[2] - 1
    <3> DEFINE a == x[1]
               b == y[1]
               r == x[2] - 1
               s == y[2] - 1
    <3>1. a \in Nat /\ b \in Nat /\ r \in 0..(B - 1) /\ s \in 0..(B - 1)
            /\ (a * B) + r = (b * B) + s
      BY <2>0, <2>1
    <3> HIDE DEF a, b, r, s
    <3>2. a = b /\ r = s
      BY <3>1, DivisionUnique
    <3> QED
      BY <3>2 DEF a, b, r, s
  <2>3. x[2] = y[2]
    BY <1>2, <1>4, <2>2
  <2> QED
    BY <1>2, <1>4, <2>2, <2>3
<1>5. ASSUME NEW k \in 0..((R * B) - 1)
      PROVE  \E x \in X : f[x] = k
  <2> DEFINE d == k \div B
             m == k % B
  <2>1. d \in Nat /\ m \in 0..(B - 1) /\ k = (d * B) + m /\ k < R * B
    <3>1. k \in Nat /\ k < R * B
      BY <1>0, <1>5
    <3> QED
      BY <3>1, DivisionIs
  <2> HIDE DEF d, m
  <2>2. d < R
    <3>1. R < d => (R * B) + B <= d * B
      BY <1>1, <2>1
    <3>2. d * B \in Nat
      BY <2>1
    <3>3. ~(R < d) /\ d # R
      BY <1>0, <2>1, <3>1, <3>2
    <3> QED
      BY <2>1, <3>3
  <2>3. <<d, m + 1>> \in X /\ (m + 1) - 1 = m
    BY <2>1, <2>2
  <2>4. f[<<d, m + 1>>] = (d * B) + m
    BY <2>3
  <2> HIDE DEF X, f
  <2> QED
    BY <2>1, <2>3, <2>4
<1> QED
  BY <1>0, <1>3, <1>4, <1>5

LEMMA EvenReads ==
  ASSUME NEW c \in Configs, Single(c), ~LoadFails(c), c.pattern = "sequential",
         c.requests \in Nat, c.batch \in Nat \ {0},
         NEW p \in DOMAIN Data(c, PartOf(c.workload)), NEW q \in DOMAIN Data(c, PartOf(c.workload))
  PROVE  Cardinality(Reading(c, p)) <= Cardinality(Reading(c, q)) + 1
<1> DEFINE R == c.requests
           B == c.batch
           pairs == (0..(R - 1)) \X (1..B)
<1>1. PICK n \in Nat : /\ DOMAIN Data(c, PartOf(c.workload)) = 1..n
                       /\ Len(Data(c, PartOf(c.workload))) = n
  BY DataIs
<1>2. n \in Nat \ {0} /\ p \in 1..n /\ q \in 1..n
  BY <1>1
<1>3. \E N \in Nat : \A a \in 1..n : Cardinality(Reading(c, a)) = CountOf(N, n, a - 1)
  <2>1. CASE c.workload \in MultiOps
    <3> DEFINE f == [r \in pairs |-> (r[1] * B) + (r[2] - 1)]
    <3>1. \A index : ReadsOf(c, index) = [i \in 1..B |-> (((index * B) + (i - 1)) % n) + 1]
      <4> TAKE index
      <4>1. PositionsOf(c, c.workload, index) = {[i \in 1..B |-> (BatchIndex(c, index, i - 1) % n) + 1]}
        BY <1>1, <2>1 DEF PositionsOf, MultiOps
      <4> QED
        BY <4>1 DEF ReadsOf, BatchIndex
    <3>2. /\ R * B \in Nat
          /\ f \in [pairs -> 0..((R * B) - 1)]
          /\ \A x, y \in pairs : f[x] = f[y] => x = y
          /\ \A k \in 0..((R * B) - 1) : \E x \in pairs : f[x] = k
      BY PairsNumbered
    <3>3. ASSUME NEW a \in 1..n
          PROVE  Reading(c, a) = {x \in pairs : f[x] % n = a - 1}
      <4>1. ASSUME NEW x \in pairs
            PROVE  (x[2] \in DOMAIN ReadsOf(c, x[1]) /\ ReadsOf(c, x[1])[x[2]] = a)
                     <=> f[x] % n = a - 1
        <5>1. x[2] \in 1..B /\ f[x] = (x[1] * B) + (x[2] - 1)
          BY <4>1
        <5>2. ReadsOf(c, x[1])[x[2]] = (f[x] % n) + 1 /\ x[2] \in DOMAIN ReadsOf(c, x[1])
          BY <3>1, <5>1
        <5>3. f[x] % n \in Nat
          <6>1. f[x] \in Nat
            BY <3>2, <4>1
          <6> HIDE DEF f
          <6> QED
            BY <1>2, <6>1, DivisionIs
        <5> HIDE DEF f
        <5> QED
          BY <5>2, <5>3
      <4> HIDE DEF f
      <4> QED
        BY <4>1 DEF Reading
    <3> HIDE DEF f
    <3>4. \A a \in 1..n : Cardinality(Reading(c, a)) = CountOf(R * B, n, a - 1)
      <4> TAKE a \in 1..n
      <4>1. a - 1 \in 0..(n - 1)
        BY <1>2
      <4> HIDE DEF pairs, R, B
      <4>2. Cardinality({x \in pairs : f[x] % n = a - 1}) = CountOf(R * B, n, a - 1)
        BY <1>2, <3>2, <4>1, ResidueCount
      <4> QED
        BY <3>3, <4>2
    <3> QED
      BY <3>2, <3>4
  <2>2. CASE c.workload \notin MultiOps
    <3> DEFINE X == {r \in pairs : r[2] = 1}
               f == [r \in X |-> r[1]]
    <3>1. \A index : ReadsOf(c, index) = <<(index % n) + 1>>
      <4> TAKE index
      <4>1. PositionsOf(c, c.workload, index) = {<<(index % n) + 1>>}
        BY <1>1, <2>2 DEF PositionsOf, Single
      <4> QED
        BY <4>1 DEF ReadsOf
    <3>2. /\ f \in [X -> 0..(R - 1)]
          /\ \A x, y \in X : f[x] = f[y] => x = y
          /\ \A k \in 0..(R - 1) : \E x \in X : f[x] = k
      <4>1. \A x \in X : x[1] \in 0..(R - 1) /\ x = <<x[1], 1>>
        OBVIOUS
      <4>2. ASSUME NEW k \in 0..(R - 1)
            PROVE  <<k, 1>> \in X /\ f[<<k, 1>>] = k
        BY <4>2
      <4>3. f \in [X -> 0..(R - 1)] /\ \A x \in X : f[x] = x[1]
        BY <4>1
      <4>4. \A x, y \in X : x[1] = y[1] => x = y
        BY <4>1
      <4> HIDE DEF X, f
      <4>5. \A x, y \in X : f[x] = f[y] => x = y
        BY <4>3, <4>4
      <4>6. \A k \in 0..(R - 1) : \E x \in X : f[x] = k
        BY <4>2
      <4> QED
        BY <4>3, <4>5, <4>6
    <3>3. ASSUME NEW a \in 1..n
          PROVE  Reading(c, a) = {x \in X : f[x] % n = a - 1}
      <4>1. ASSUME NEW x \in pairs
            PROVE  (x[2] \in DOMAIN ReadsOf(c, x[1]) /\ ReadsOf(c, x[1])[x[2]] = a)
                     <=> x[2] = 1 /\ x[1] % n = a - 1
        <5>1. x[1] \in Nat
          BY <4>1
        <5>2. DOMAIN ReadsOf(c, x[1]) = 1..1 /\ ReadsOf(c, x[1])[1] = (x[1] % n) + 1
          BY <3>1
        <5>3. x[1] % n \in Nat
          <6> DEFINE t == x[1]
          <6>1. t \in Nat
            BY <5>1
          <6> HIDE DEF t
          <6>2. t % n \in Nat
            BY <1>2, <6>1, DivisionIs
          <6> QED
            BY <6>2 DEF t
        <5> QED
          BY <5>2, <5>3
      <4>2. \A x \in X : f[x] = x[1]
        OBVIOUS
      <4>3. X = {x \in pairs : x[2] = 1}
        OBVIOUS
      <4> HIDE DEF f, X
      <4> QED
        BY <4>1, <4>2, <4>3 DEF Reading
    <3> HIDE DEF f, X
    <3>4. \A a \in 1..n : Cardinality(Reading(c, a)) = CountOf(R, n, a - 1)
      <4> TAKE a \in 1..n
      <4>1. a - 1 \in 0..(n - 1) /\ R \in Nat
        BY <1>2
      <4> HIDE DEF pairs, R, B
      <4>2. Cardinality({x \in X : f[x] % n = a - 1}) = CountOf(R, n, a - 1)
        BY <1>2, <3>2, <4>1, ResidueCount
      <4> QED
        BY <3>3, <4>2
    <3> QED
      BY <3>4
  <2> QED
    BY <2>1, <2>2
<1>4. PICK N \in Nat : \A a \in 1..n : Cardinality(Reading(c, a)) = CountOf(N, n, a - 1)
  BY <1>3
<1>5. N \div n \in Nat
  BY <1>2, DivisionIs
<1>6. \A a : CountOf(N, n, a) = N \div n \/ CountOf(N, n, a) = (N \div n) + 1
  <2>1. \A a : CountOf(N, n, a) = (N \div n) + (IF a < N % n THEN 1 ELSE 0)
    BY DEF CountOf
  <2> QED
    BY <1>5, <2>1
<1>7. \A u \in Nat : \A v, w : (v = u \/ v = u + 1) /\ (w = u \/ w = u + 1) => v <= w + 1
  OBVIOUS
<1> QED
  BY <1>2, <1>4, <1>5, <1>6, <1>7

-----------------------------------------------------------------------------
(* What was benchmarked was loaded.                                        *)
AcceptedInv ==
  /\ main \notin {"list", "mix", "error"} \/ runs # <<>> => ~MixRefused(config)
  /\ main \notin {"list", "mix", "validate", "open", "load", "error"} \/ runs # <<>> =>
       ~LoadFails(config) /\ config.batch # 0

LEMMA AcceptedHolds == Spec => []AcceptedInv
<1>1. Init => AcceptedInv
  BY DEF Init, AcceptedInv
<1>2. IInv /\ AcceptedInv /\ [Next]_vars => AcceptedInv'
  <2> SUFFICES ASSUME IInv, AcceptedInv, [Next]_vars PROVE AcceptedInv'
    OBVIOUS
  <2>1. CASE LoadKeys
    <3>1. \/ ~LoadFails(config) /\ config' = config
          \/ main' = "error" /\ UNCHANGED <<config, runs>>
      BY <2>1 DEF LoadKeys
    <3>2. config.batch # 0
      <4>1. Admitted /\ config.batch \in Nat
        BY <2>1, ConfigFacts DEF LoadKeys, IInv, ControlInv
      <4> QED
        BY <4>1 DEF Admitted
    <3> QED
      BY <2>1, <3>1, <3>2 DEF AcceptedInv, LoadKeys
  <2>2. CASE ParseList \/ ParseMix \/ Validate \/ OpenDatabase
    BY <2>2 DEF ParseList, ParseMix, Validate, OpenDatabase, AcceptedInv
  <2>3. CASE RefuseLevel \/ ReadyDisconnected \/ JoinPanicked \/ FailLevel
    BY <2>3 DEF RefuseLevel, ReadyDisconnected, JoinPanicked, FailLevel, AcceptedInv
  <2>4. CASE SpawnWorker \/ ReceiveReady \/ StartMeasuring \/ LeaveBarrier \/ JoinWorker
    BY <2>4 DEF SpawnWorker, ReceiveReady, StartMeasuring, LeaveBarrier, JoinWorker, AcceptedInv
  <2>5. CASE ReportLevel
    BY <2>5 DEF ReportLevel, AcceptedInv
  <2>6. ASSUME NEW w \in Workers, WorkerStep(w)
        PROVE  AcceptedInv'
    BY <2>6 DEF WorkerStep, AcceptedInv
  <2>7. CASE UNCHANGED vars
    BY <2>7 DEF vars, AcceptedInv
  <2> QED
    BY <2>1, <2>2, <2>3, <2>4, <2>5, <2>6, <2>7 DEF Next, MainStep, Ended
<1> QED
  BY <1>1, <1>2, InvariantHolds, PTL DEF Spec

(* Every finished level has read the lines of its key file evenly, for     *)
(* every number of workers, batch size and length of the file.             *)
THEOREM ReadsSpread == Spec => []KeysReadEvenly
<1>1. IInv /\ AcceptedInv => KeysReadEvenly
  <2> SUFFICES ASSUME IInv, AcceptedInv, config.pattern = "sequential", Single(config),
                      NEW i \in DOMAIN runs,
                      NEW p \in DOMAIN Data(config, PartOf(config.workload)),
                      NEW q \in DOMAIN Data(config, PartOf(config.workload))
               PROVE  Cardinality({r \in runs[i].samples \X (1..config.batch) :
                        r[2] \in DOMAIN PositionsAt(r[1]) /\ PositionsAt(r[1])[r[2]] = p})
                      <= Cardinality({r \in runs[i].samples \X (1..config.batch) :
                           r[2] \in DOMAIN PositionsAt(r[1]) /\ PositionsAt(r[1])[r[2]] = q}) + 1
    BY DEF KeysReadEvenly, Single
  <2>1. i \in 1..Len(runs) /\ runs # <<>>
    BY DEF IInv, BasicTypes
  <2>2. /\ config \in Configs /\ ~LoadFails(config)
        /\ config.requests \in Nat /\ config.batch \in Nat \ {0}
    BY <2>1, ConfigFacts DEF IInv, BasicTypes, AcceptedInv
  <2>3. runs[i].samples = 0..(config.requests - 1)
    BY <2>1 DEF IInv, ReportInv
  <2>4. \A index : PositionsAt(index) = ReadsOf(config, index)
    <3>1. \A index : OpAt(index) = config.workload
      BY DEF OpAt, OpsOf, Single
    <3> QED
      BY <3>1 DEF PositionsAt, ReadsOf
  <2>5. Cardinality(Reading(config, p)) <= Cardinality(Reading(config, q)) + 1
    BY <2>2, EvenReads
  <2> QED
    BY <2>3, <2>4, <2>5 DEF Reading
<1> QED
  BY <1>1, InvariantHolds, AcceptedHolds, PTL

-----------------------------------------------------------------------------
(* Counting the requests of one operation in a mix.                        *)

(* The numbers below q * T whose remainder by T is in [lo, hi).             *)
WithRemainder(q, T, lo, hi) == {x \in 0..((q * T) - 1) : x % T \in lo..(hi - 1)}

LEMMA RangeCount ==
  ASSUME NEW q \in Nat, NEW T \in Nat \ {0}, NEW lo \in Nat, NEW hi \in Nat, lo <= hi, hi <= T
  PROVE  Cardinality(WithRemainder(q, T, lo, hi)) = (hi - lo) * q
<1> DEFINE S == {x \in 0..((q * T) - 1) : x % T \in lo..(hi - 1)}
           P == (lo..(hi - 1)) \X (0..(q - 1))
           h == [y \in P |-> (y[2] * T) + y[1]]
<1>0. q * T \in Nat
  OBVIOUS
<1>1. \A u, v \in Nat : u < v => (u * T) + T <= v * T
  <2>1. \A u, v \in Nat : u <= v => u * T <= v * T
    OBVIOUS
  <2>2. \A u \in Nat : (u + 1) * T = (u * T) + T /\ u * T \in Nat
    OBVIOUS
  <2>3. \A u, v \in Nat : u < v => u + 1 \in Nat /\ u + 1 <= v
    OBVIOUS
  <2> QED
    BY <2>1, <2>2, <2>3
<1>2. ASSUME NEW y \in P
      PROVE  /\ y[1] \in 0..(T - 1) /\ y[2] \in Nat /\ y[2] < q /\ y[1] \in lo..(hi - 1)
             /\ y = <<y[1], y[2]>>
  BY <1>2
<1>3. ASSUME NEW d \in Nat, NEW m \in 0..(T - 1)
      PROVE  ((d * T) + m) % T = m /\ ((d * T) + m) \div T = d
  <2> DEFINE k == (d * T) + m
  <2>1. k \in Nat /\ k = (d * T) + m
    <3>1. d * T \in Nat
      OBVIOUS
    <3> QED
      BY <3>1
  <2> HIDE DEF k
  <2>2. k \div T \in Nat /\ k % T \in 0..(T - 1) /\ k = ((k \div T) * T) + (k % T)
    BY <2>1, DivisionIs
  <2>3. k \div T = d /\ k % T = m
    BY <2>1, <2>2, DivisionUnique
  <2> QED
    BY <2>3 DEF k
<1>4. h \in [P -> S]
  <2>1. ASSUME NEW y \in P
        PROVE  (y[2] * T) + y[1] \in S
    <3>1. (y[2] * T) + T <= q * T /\ y[2] * T \in Nat
      BY <1>1, <1>2, <2>1
    <3>2. (y[2] * T) + y[1] \in 0..((q * T) - 1)
      BY <1>0, <1>2, <2>1, <3>1
    <3>3. ((y[2] * T) + y[1]) % T = y[1]
      BY <1>2, <1>3, <2>1
    <3> QED
      BY <1>2, <2>1, <3>2, <3>3
  <2> HIDE DEF S, P
  <2> QED
    BY <2>1
<1>5. ASSUME NEW y \in P, NEW z \in P, h[y] = h[z]
      PROVE  y = z
  <2>1. (y[2] * T) + y[1] = (z[2] * T) + z[1]
    BY <1>5
  <2>2. /\ y[1] \in 0..(T - 1) /\ y[2] \in Nat /\ z[1] \in 0..(T - 1) /\ z[2] \in Nat
        /\ y = <<y[1], y[2]>> /\ z = <<z[1], z[2]>>
    BY <1>2, <1>5
  <2>3. y[1] = z[1] /\ y[2] = z[2]
    BY <1>3, <2>1, <2>2
  <2> QED
    BY <2>2, <2>3
<1>6. ASSUME NEW x \in S
      PROVE  \E y \in P : h[y] = x
  <2> DEFINE d == x \div T
             m == x % T
  <2>1. x \in Nat /\ x < q * T /\ m \in lo..(hi - 1)
    BY <1>0, <1>6
  <2>2. d \in Nat /\ m \in 0..(T - 1) /\ x = (d * T) + m
    BY <2>1, DivisionIs
  <2> HIDE DEF d, m
  <2>3. d < q
    <3>1. q < d => (q * T) + T <= d * T
      BY <1>1, <2>2
    <3>2. d * T \in Nat
      BY <2>2
    <3>3. ~(q < d) /\ d # q
      BY <1>0, <2>1, <2>2, <3>1, <3>2
    <3> QED
      BY <2>2, <3>3
  <2>4. <<m, d>> \in P
    BY <2>1, <2>2, <2>3
  <2>5. h[<<m, d>>] = (d * T) + m
    BY <2>4
  <2> HIDE DEF P, h
  <2> QED
    BY <2>2, <2>4, <2>5
<1>7. IsFiniteSet(P) /\ Cardinality(P) = (hi - lo) * q
  <2>1. ASSUME NEW a \in Nat, NEW b \in Nat, a <= b
        PROVE  IsFiniteSet(a..(b - 1)) /\ Cardinality(a..(b - 1)) = b - a
    <3>1. a \in Int /\ b - 1 \in Int
      BY <2>1
    <3>2. /\ IsFiniteSet(a..(b - 1))
          /\ Cardinality(a..(b - 1)) = IF a > b - 1 THEN 0 ELSE ((b - 1) - a) + 1
      BY <3>1, FS_Interval
    <3> QED
      BY <2>1, <3>2
  <2>2. /\ IsFiniteSet(lo..(hi - 1)) /\ Cardinality(lo..(hi - 1)) = hi - lo
        /\ IsFiniteSet(0..(q - 1)) /\ Cardinality(0..(q - 1)) = q
    <3>1. Cardinality(0..(q - 1)) = q - 0 /\ IsFiniteSet(0..(q - 1))
      BY <2>1
    <3> QED
      BY <2>1, <3>1
  <2> QED
    BY <2>2, FS_Product
<1> HIDE DEF S, P, h
<1>8. h \in Bijection(P, S)
  BY <1>4, <1>5, <1>6, Fun_IsBij
<1>9. Cardinality(S) = Cardinality(P)
  BY <1>7, <1>8, FS_Bijection DEF ExistsBijection
<1> QED
  BY <1>7, <1>9 DEF S, WithRemainder

(* The slots of operation k, before anything overflows.                    *)
EndOf(c, k) == IF k = 0 THEN 0 ELSE TrueEnds(c)[k]

LEMMA EndsAre ==
  ASSUME NEW c \in Configs
  PROVE  /\ \A k \in 0..5 : EndOf(c, k) \in Nat
         /\ \A k \in 1..5 : c.weights[k] \in Nat /\ EndOf(c, k) = EndOf(c, k - 1) + c.weights[k]
         /\ EndOf(c, 0) = 0 /\ EndOf(c, 5) = TrueTotal(c)
         /\ \A j, k \in 0..5 : j <= k => EndOf(c, j) <= EndOf(c, k)
<1> DEFINE w == c.weights
<1>1. w[1] \in Nat /\ w[2] \in Nat /\ w[3] \in Nat /\ w[4] \in Nat /\ w[5] \in Nat
  <2>1. c.weights \in [DOMAIN MixOrder -> 0..(U32 - 1)] /\ U32 \in Nat
    BY BenchAssumption DEF BenchAssumption
  <2>2. DOMAIN MixOrder = 1..5
    BY DEF MixOrder
  <2> QED
    BY <2>1, <2>2
<1>2. /\ EndOf(c, 0) = 0 /\ EndOf(c, 1) = w[1] /\ EndOf(c, 2) = w[1] + w[2]
      /\ EndOf(c, 3) = w[1] + w[2] + w[3] /\ EndOf(c, 4) = w[1] + w[2] + w[3] + w[4]
      /\ EndOf(c, 5) = w[1] + w[2] + w[3] + w[4] + w[5]
  BY DEF EndOf, TrueEnds
<1>3. EndOf(c, 5) = TrueTotal(c)
  BY DEF EndOf, TrueTotal
<1> HIDE DEF w
<1>4. ASSUME NEW k \in 1..5
      PROVE  w[k] \in Nat /\ EndOf(c, k) = EndOf(c, k - 1) + w[k] /\ EndOf(c, k) \in Nat
  <2>1. k = 1 \/ k = 2 \/ k = 3 \/ k = 4 \/ k = 5
    BY <1>4
  <2> QED
    BY <1>1, <1>2, <2>1
<1>5. ASSUME NEW j \in 0..5, NEW k \in 0..5, j <= k
      PROVE  EndOf(c, j) <= EndOf(c, k)
  <2>1. /\ j = 0 \/ j = 1 \/ j = 2 \/ j = 3 \/ j = 4 \/ j = 5
        /\ k = 0 \/ k = 1 \/ k = 2 \/ k = 3 \/ k = 4 \/ k = 5
    BY <1>5
  <2> QED
    BY <1>1, <1>2, <1>5, <2>1
<1>6. \A k \in 0..5 : EndOf(c, k) \in Nat
  <2>1. \A k \in 0..5 : k = 0 \/ k \in 1..5
    OBVIOUS
  <2> QED
    BY <1>2, <1>4, <2>1
<1> QED
  BY <1>2, <1>3, <1>4, <1>5, <1>6 DEF w

LEMMA SlotIs ==
  ASSUME NEW c \in Configs, TrueTotal(c) < U32, NEW slot \in 0..(TrueTotal(c) - 1), NEW k \in 1..5
  PROVE  OpOfSlot(c, slot) = MixOrder[k] <=> slot \in EndOf(c, k - 1)..(EndOf(c, k) - 1)
<1>1. /\ \A j \in 0..5 : EndOf(c, j) \in Nat /\ EndOf(c, j) < U32
      /\ EndOf(c, 0) = 0 /\ EndOf(c, 5) = TrueTotal(c) /\ U32 \in Nat
      /\ \A i, j \in 0..5 : i <= j => EndOf(c, i) <= EndOf(c, j)
  <2>1. U32 \in Nat
    BY BenchAssumption DEF BenchAssumption
  <2>2. \A j \in 0..5 : EndOf(c, j) \in Nat /\ EndOf(c, j) <= EndOf(c, 5)
    BY EndsAre
  <2>3. TrueTotal(c) \in Nat /\ EndOf(c, 5) = TrueTotal(c)
    BY EndsAre
  <2> QED
    BY <2>1, <2>2, <2>3, EndsAre
<1>2. slot \in Nat /\ slot < EndOf(c, 5)
  BY <1>1
<1> DEFINE above == {i \in 1..4 : slot < SlotEnd(c, i)}
<1>3. above = {i \in 1..4 : slot < EndOf(c, i)}
  <2>1. ASSUME NEW i \in 1..4
        PROVE  SlotEnd(c, i) = EndOf(c, i)
    <3>1. EndOf(c, i) \in Nat /\ EndOf(c, i) < U32 /\ EndOf(c, i) = TrueEnds(c)[i]
      BY <1>1 DEF EndOf
    <3>2. \A x, u \in Nat : x < u => x % u = x
      OBVIOUS
    <3> QED
      BY <1>1, <3>1, <3>2 DEF SlotEnd
  <2> QED
    BY <2>1
<1> DEFINE first == CHOOSE i \in above : \A j \in above : i <= j
<1>4. OpOfSlot(c, slot) = IF above = {} THEN MixOrder[5] ELSE MixOrder[first]
  BY DEF OpOfSlot
<1> HIDE DEF above
<1>5. ASSUME NEW m \in 1..5, EndOf(c, m - 1) <= slot, slot < EndOf(c, m)
      PROVE  OpOfSlot(c, slot) = MixOrder[m]
  <2>1. \A j \in 0..5 : j < m => EndOf(c, j) <= slot
    <3>1. \A j \in 0..5 : j < m => j <= m - 1 /\ m - 1 \in 0..5
      OBVIOUS
    <3> QED
      BY <1>1, <1>2, <1>5, <3>1
  <2>2. \A j \in above : m <= j
    BY <1>1, <1>2, <1>3, <2>1
  <2>3. CASE m = 5
    <3>1. above = {}
      BY <1>3, <2>2, <2>3
    <3> QED
      BY <1>4, <2>3, <3>1
  <2>4. CASE m # 5
    <3>1. m \in above
      BY <1>3, <1>5, <2>4
    <3>2. \A i \in above : (\A j \in above : i <= j) => i = m
      BY <1>3, <2>2, <3>1
    <3>3. first = m
      BY <2>2, <3>1, <3>2
    <3> HIDE DEF first
    <3> QED
      BY <1>4, <3>1, <3>3
  <2> QED
    BY <2>3, <2>4
<1>6. \E m \in 1..5 : EndOf(c, m - 1) <= slot /\ slot < EndOf(c, m)
  <2>1. \/ slot < EndOf(c, 1)
        \/ EndOf(c, 1) <= slot /\ slot < EndOf(c, 2)
        \/ EndOf(c, 2) <= slot /\ slot < EndOf(c, 3)
        \/ EndOf(c, 3) <= slot /\ slot < EndOf(c, 4)
        \/ EndOf(c, 4) <= slot /\ slot < EndOf(c, 5)
    BY <1>1, <1>2
  <2>2. EndOf(c, 0) <= slot
    BY <1>1, <1>2
  <2>3. 1 - 1 = 0 /\ 2 - 1 = 1 /\ 3 - 1 = 2 /\ 4 - 1 = 3 /\ 5 - 1 = 4
    OBVIOUS
  <2> QED
    BY <2>1, <2>2, <2>3
<1>7. PICK m \in 1..5 : EndOf(c, m - 1) <= slot /\ slot < EndOf(c, m)
  BY <1>6
<1>8. OpOfSlot(c, slot) = MixOrder[m]
  BY <1>5, <1>7
<1>9. MixOrder[m] = MixOrder[k] => m = k
  <2>1. /\ m = 1 \/ m = 2 \/ m = 3 \/ m = 4 \/ m = 5
        /\ k = 1 \/ k = 2 \/ k = 3 \/ k = 4 \/ k = 5
    OBVIOUS
  <2> QED
    BY <2>1 DEF MixOrder
<1>10. EndOf(c, k) \in Nat /\ EndOf(c, k - 1) \in Nat
  <2>1. k \in 0..5 /\ k - 1 \in 0..5
    OBVIOUS
  <2> QED
    BY <1>1, <2>1
<1>11. slot \in EndOf(c, k - 1)..(EndOf(c, k) - 1) <=> EndOf(c, k - 1) <= slot /\ slot < EndOf(c, k)
  BY <1>2, <1>10
<1> QED
  BY <1>5, <1>7, <1>8, <1>9, <1>11

(* The requests of operation k in a sequential mix of all their weights.   *)
LEMMA MixCount ==
  ASSUME NEW c \in Configs, c.pattern = "sequential", c.workload = "mixed-rpc",
         ~MixRefused(c), TrueTotal(c) < U32, c.requests \in Nat, c.requests <= U32,
         c.requests % TrueTotal(c) = 0, NEW k \in 1..5
  PROVE  Cardinality({index \in 0..(c.requests - 1) :
                        (CHOOSE op \in OpsOf(c, index) : TRUE) = MixOrder[k]})
           = c.weights[k] * (c.requests \div TrueTotal(c))
<1> DEFINE T == TrueTotal(c)
           R == c.requests
           lo == EndOf(c, k - 1)
           hi == EndOf(c, k)
           q == R \div T
           op(index) == CHOOSE o \in OpsOf(c, index) : TRUE
<1>0. U32 \in Nat \ {0}
  BY BenchAssumption DEF BenchAssumption
<1>1. \A x \in Nat, u \in Nat \ {0} : x < u => x % u = x
  OBVIOUS
<1>2. T \in Nat /\ Total(c) = T
  <2>1. T \in Nat
    BY EndsAre
  <2> QED
    BY <1>0, <1>1, <2>1 DEF Total, T
<1>3. T \in Nat \ {0}
  BY <1>2 DEF MixRefused
<1>4. lo \in Nat /\ hi \in Nat /\ hi = lo + c.weights[k] /\ c.weights[k] \in Nat /\ hi <= T /\ lo <= hi
  <2>1. k \in 0..5 /\ k - 1 \in 0..5 /\ k <= 5 /\ k - 1 <= k /\ 5 \in 0..5
    OBVIOUS
  <2> QED
    BY <2>1, EndsAre
<1> HIDE DEF T, R, lo, hi
<1>5. q \in Nat /\ R = q * T /\ R \in Nat
  <2>1. R \in Nat /\ R % T = 0
    BY DEF R, T
  <2>2. R \div T \in Nat /\ R = ((R \div T) * T) + (R % T)
    BY <1>3, <2>1, DivisionIs
  <2>3. (R \div T) * T \in Nat
    BY <1>3, <2>2
  <2> QED
    BY <2>1, <2>2, <2>3
<1> HIDE DEF q
<1>6. ASSUME NEW index \in 0..(R - 1)
      PROVE  op(index) = MixOrder[k] <=> index % T \in lo..(hi - 1)
  <2>1. index \in Nat /\ index < U32
    BY <1>0, <1>5, <1>6 DEF R
  <2>2. index % U32 = index
    BY <1>0, <1>1, <2>1
  <2>3. SlotsOf(c, index) = {index % T}
    BY <1>2, <2>2 DEF SlotsOf
  <2>4. OpsOf(c, index) = {OpOfSlot(c, index % T)}
    BY <2>3 DEF OpsOf
  <2>5. op(index) = OpOfSlot(c, index % T)
    BY <2>4
  <2>6. index % T \in 0..(TrueTotal(c) - 1)
    <3>1. index % T \in 0..(T - 1)
      BY <1>3, <2>1, DivisionIs
    <3> QED
      BY <3>1 DEF T
  <2> HIDE DEF op
  <2> QED
    BY <2>5, <2>6, SlotIs DEF lo, hi
<1>7. {index \in 0..(R - 1) : op(index) = MixOrder[k]}
        = WithRemainder(q, T, lo, hi)
  <2> HIDE DEF op
  <2> QED
    BY <1>5, <1>6 DEF WithRemainder
<1>8. Cardinality(WithRemainder(q, T, lo, hi)) = (hi - lo) * q
  <2>1. q \in Nat /\ T \in Nat \ {0} /\ lo \in Nat /\ hi \in Nat /\ lo <= hi /\ hi <= T
    BY <1>3, <1>4, <1>5
  <2> QED
    BY <2>1, RangeCount
<1>9. hi - lo = c.weights[k]
  BY <1>4
<1> QED
  BY <1>7, <1>8, <1>9 DEF R, T, q

(* A sequential mix has each operation as often as its weight says, for    *)
(* all weights that add up below 2^32 and no more requests than that.      *)
THEOREM WeightsFollowed == Spec => []MixFollowsWeights
<1>1. IInv /\ AcceptedInv => MixFollowsWeights
  <2> SUFFICES ASSUME IInv, AcceptedInv,
                      config.pattern = "sequential", config.workload = "mixed-rpc",
                      TrueTotal(config) < U32, config.requests <= U32,
                      config.requests % TrueTotal(config) = 0,
                      NEW i \in DOMAIN runs, NEW k \in DOMAIN MixOrder
               PROVE  Cardinality({index \in runs[i].samples : OpAt(index) = MixOrder[k]})
                        = config.weights[k] * (config.requests \div TrueTotal(config))
    BY DEF MixFollowsWeights
  <2>1. i \in 1..Len(runs) /\ runs # <<>> /\ k \in 1..5
    BY DEF IInv, BasicTypes, MixOrder
  <2>2. config \in Configs /\ config.requests \in Nat /\ ~MixRefused(config)
    BY <2>1, ConfigFacts DEF IInv, BasicTypes, AcceptedInv
  <2>3. runs[i].samples = 0..(config.requests - 1)
    BY <2>1 DEF IInv, ReportInv
  <2> QED
    BY <2>1, <2>2, <2>3, MixCount DEF OpAt
<1> QED
  BY <1>1, InvariantHolds, AcceptedHolds, PTL
=============================================================================
