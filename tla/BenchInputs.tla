---------------------------- MODULE BenchInputs -----------------------------
(***************************************************************************)
(* What a benchmark asks of the database                                   *)
(* (crates/hotstore-bench/src/workloads.rs): which configurations are      *)
(* refused, what is loaded from the key files, and which keys request      *)
(* number `index` of a workload reads.  A configuration c is a record with *)
(* the fields of BenchmarkConfig; c.files[flag] is what the file given     *)
(* with that flag contains, and c.rows what the database holds.            *)
(*                                                                         *)
(* A line stands for the key it is turned into.  Sizes, records returned   *)
(* and the number of rows of a scan are left out.                          *)
(***************************************************************************)
EXTENDS Integers, Sequences, FiniteSets

CONSTANTS
  U32,        \* 2^32
  None,       \* a flag that is not given
  NoFile,     \* a path where no file can be read
  NotUtf8,    \* a file that is no text
  Blank,      \* a line of whitespace
  Malformed   \* a line that is not object_id,version

-----------------------------------------------------------------------------
Workloads == {"get-tx", "get-object-version", "get-object-last-seen", "multi-get-tx",
              "multi-get-object-version", "scan-events", "mixed-rpc", "noop"}
Flags == {"--keys", "--tx-keys", "--object-version-keys", "--object-keys", "--event-types"}

(* parse_concurrency_list, parse_mixed_weights and run_benchmark_suite     *)
(* before anything is opened.                                              *)

(* The operations of mixed-rpc in the order of their slots; c.weights are  *)
(* in the same order.                                                      *)
MixOrder == <<"get-tx", "get-object-version", "multi-get-object-version",
              "scan-events", "get-object-last-seen">>

(* The ends of the slots of the operations, and of all.                    *)
TrueEnds(c) ==
  LET w == c.weights
  IN <<w[1], w[1] + w[2], w[1] + w[2] + w[3], w[1] + w[2] + w[3] + w[4],
       w[1] + w[2] + w[3] + w[4] + w[5]>>
TrueTotal(c) == TrueEnds(c)[5]

(* MixedWeights::total adds in u32, which wraps in a release build.        *)
Total(c) == TrueTotal(c) % U32

MixRefused(c) == Total(c) = 0

ListRefused(c) == c.list = <<>> \/ \E i \in DOMAIN c.list : c.list[i] = 0

(* --min-hit-rate in percent; 0 when it is absent.                         *)
ConfigRefused(c) ==
  \/ c.requests = 0
  \/ c.batch = 0
  \/ c.limit = 0
  \/ ListRefused(c)
  \/ c.minHitRate \notin 0..100
  \/ MixRefused(c)

-----------------------------------------------------------------------------
(* WorkloadData::load: parts of the data and the files they come from.     *)

PartsOf(c) ==
  CASE c.workload \in {"get-tx", "multi-get-tx"} -> {"txs"}
    [] c.workload \in {"get-object-version", "multi-get-object-version"} -> {"versions"}
    [] c.workload = "get-object-last-seen" -> {"objects"}
    [] c.workload = "scan-events" -> {"types"}
    [] c.workload = "mixed-rpc" -> {"txs", "versions", "objects", "types"}
    [] c.workload = "noop" -> {}

(* --event-types or else --keys, for scan-events.                          *)
FileOf(c, part) ==
  CASE c.workload = "mixed-rpc" ->
         c.files[CASE part = "txs" -> "--tx-keys"
                   [] part = "versions" -> "--object-version-keys"
                   [] part = "objects" -> "--object-keys"
                   [] part = "types" -> "--event-types"]
    [] c.workload = "scan-events" /\ c.files["--event-types"] # None -> c.files["--event-types"]
    [] OTHER -> c.files["--keys"]

(* load_utf8_lines: the lines that are not blank, in their order.          *)
UsableLines(file) ==
  LET usable == {i \in DOMAIN file : file[i] # Blank}
      Nth(k) == CHOOSE i \in usable : Cardinality({j \in usable : j <= i}) = k
  IN [k \in 1..Cardinality(usable) |-> file[Nth(k)]]

(* required_path, load_utf8_lines and parse_object_version_line: the flag  *)
(* is missing, the file unreadable, empty, or malformed.                   *)
PartFails(c, part) ==
  LET file == FileOf(c, part)
  IN \/ file \in {None, NoFile, NotUtf8}
     \/ UsableLines(file) = <<>>
     \/ part = "versions" /\ \E i \in DOMAIN file : file[i] = Malformed

LoadFails(c) == \E part \in PartsOf(c) : PartFails(c, part)

Data(c, part) == UsableLines(FileOf(c, part))

-----------------------------------------------------------------------------
(* execute_request: the operations of request `index` with the positions   *)
(* in their data they may read.  A sequential workload has one choice, a   *)
(* uniform one takes any, as its generator says.                           *)

(* request_at: the slot decides the operation, and the ends of the slots   *)
(* are u32 as well.                                                        *)
SlotsOf(c, index) ==
  IF c.pattern = "sequential" THEN {(index % U32) % Total(c)} ELSE 0..(Total(c) - 1)

SlotEnd(c, i) == TrueEnds(c)[i] % U32

OpOfSlot_Inclusive(c, slot) ==
  LET below == {i \in 1..4 : slot <= SlotEnd(c, i)}
  IN IF below = {} THEN MixOrder[5]
     ELSE MixOrder[CHOOSE i \in below : \A j \in below : i <= j]

(* The first operation whose end is above the slot, or else the last one.  *)
OpOfSlot(c, slot) ==
  LET above == {i \in 1..4 : slot < SlotEnd(c, i)}
  IN IF above = {} THEN MixOrder[5]
     ELSE MixOrder[CHOOSE i \in above : \A j \in above : i <= j]

OpsOf(c, index) ==
  IF c.workload = "mixed-rpc" THEN {OpOfSlot(c, slot) : slot \in SlotsOf(c, index)}
  ELSE {c.workload}

MultiOps == {"multi-get-tx", "multi-get-object-version"}

PartOf(op) ==
  CASE op \in {"get-tx", "multi-get-tx"} -> "txs"
    [] op \in {"get-object-version", "multi-get-object-version"} -> "versions"
    [] op = "get-object-last-seen" -> "objects"
    [] op = "scan-events" -> "types"

BatchIndex_Shared(c, index, offset) == index + offset

(* start_index * batch_size + offset, in batch_at and in request_at        *)
BatchIndex(c, index, offset) == index * c.batch + offset

(* The positions request `index` may read, in order: select_index for one  *)
(* key, batch_at for several.                                              *)
PositionsOf(c, op, index) ==
  LET n == Len(Data(c, PartOf(op)))
  IN IF op = "noop" THEN {<<>>}
     ELSE IF op \in MultiOps
     THEN IF c.pattern = "sequential"
          THEN {[i \in 1..c.batch |-> (BatchIndex(c, index, i - 1) % n) + 1]}
          ELSE [1..c.batch -> 1..n]
     ELSE IF c.pattern = "sequential" THEN {<<(index % n) + 1>>} ELSE {<<p>> : p \in 1..n}

CfOf(op) ==
  CASE PartOf(op) = "txs" -> "tx_by_digest"
    [] PartOf(op) = "versions" -> "object_version"
    [] PartOf(op) = "objects" -> "object_last_seen"
    [] PartOf(op) = "types" -> "event_by_type"

(* Does the database hold the key of the line at a position (a scan: a row *)
(* under its prefix)?                                                      *)
Hit(c, op, position) == <<CfOf(op), Data(c, PartOf(op))[position]>> \in c.rows

(* point_get, multi_get and scan_prefix: a key is a hit or a miss.         *)
OutcomeOf(c, op, positions) ==
  LET hits == Cardinality({i \in DOMAIN positions : Hit(c, op, positions[i])})
  IN [hits |-> hits, misses |-> Len(positions) - hits]

(* What request `index` may count for when it does not fail.               *)
Outcomes(c, index) ==
  UNION {{OutcomeOf(c, op, positions) : positions \in PositionsOf(c, op, index)} :
         op \in OpsOf(c, index)}
=============================================================================
