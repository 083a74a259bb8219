---------------------------- MODULE MCBenchRunner ---------------------------
(* Small configurations of BenchRunner for TLC.                            *)
EXTENDS BenchRunner

NoFiles == [flag \in Flags |-> None]

(* Everything in a line that begins with a, b, c or d is in the database.  *)
Stored == {"tx_by_digest", "object_version", "object_last_seen", "event_by_type"}
            \X {"a", "b", "c", "d"}

Base ==
  [workload |-> "get-tx", pattern |-> "sequential", list |-> <<2>>, requests |-> 4,
   warmup |-> 1, batch |-> 2, limit |-> 1, minPerWorker |-> 1, minHitRate |-> 100,
   weights |-> <<1, 1, 1, 1, 0>>, files |-> [NoFiles EXCEPT !["--keys"] = <<"a", "b">>],
   rows |-> Stored]

With(c, file) == [c EXCEPT !.files["--keys"] = file]

(* A level after another one; a level too wide for 4 requests; shares of   *)
(* one size; a remainder of two; a key that is not stored behind a blank   *)
(* line.                                                                   *)
Threads ==
  {[Base EXCEPT !.list = l] : l \in {<<1, 3>>, <<3, 5>>, <<2, 1>>}}
    \cup {[Base EXCEPT !.list = <<4>>, !.requests = 6]}
    \cup {With(Base, <<"a", Blank, "x">>),
          [With(Base, <<"a", "x">>) EXCEPT !.minHitRate = 50, !.pattern = "uniform"]}

Versions == [Base EXCEPT !.workload = "multi-get-object-version"]

(* Batches over as many lines as they read, and over fewer; each way a     *)
(* file can fail.                                                          *)
Batches ==
  {With(Versions, <<"a", "b", "c", "d", "a", "b", "c", "d">>), With(Versions, <<"a", "b", "c">>),
   [Versions EXCEPT !.pattern = "uniform"]}
    \cup {With(Versions, file) : file \in {None, NoFile, NotUtf8, <<Blank>>, <<"a", Malformed>>}}

Scans ==
  LET scan == [Base EXCEPT !.workload = "scan-events"]
  IN {scan, [scan EXCEPT !.files["--event-types"] = <<"b", "x">>, !.minHitRate = 0]}

(* Each operation once; two of them; weights that add up to more than U32. *)
Mixed ==
  {[Base EXCEPT !.workload = "mixed-rpc", !.weights = weights,
                !.files = [flag \in Flags |-> <<"a", "b", "c">>]] :
     weights \in {<<1, 1, 1, 1, 0>>, <<2, 0, 1, 0, 1>>, <<5, 4, 0, 0, 0>>}}
    \cup {[Base EXCEPT !.workload = "mixed-rpc", !.pattern = "uniform", !.list = <<1>>,
                       !.files = [flag \in Flags |-> <<"a", "x">>], !.minHitRate = 0]}

(* Configurations that are refused, and the workload that reads nothing.   *)
Others ==
  {[Base EXCEPT !.workload = "noop", !.files = NoFiles],
   [Base EXCEPT !.requests = 0], [Base EXCEPT !.batch = 0], [Base EXCEPT !.limit = 0],
   [Base EXCEPT !.list = <<>>], [Base EXCEPT !.list = <<1, 0>>],
   [Base EXCEPT !.minHitRate = 101], [Base EXCEPT !.weights = <<0, 0, 0, 0, 0>>],
   [Base EXCEPT !.workload = "get-object-last-seen", !.rows = {}],
   [Base EXCEPT !.workload = "get-object-version"], [Base EXCEPT !.workload = "multi-get-tx"]}

MCConfigs == Threads \cup Batches \cup Scans \cup Mixed \cup Others

MCPair == {[Base EXCEPT !.requests = 2, !.minPerWorker = 0, !.minHitRate = 0]}

(* The sum of the weights is U32.                                          *)
MCMix == {[Base EXCEPT !.workload = "mixed-rpc", !.weights = <<4, 4, 0, 0, 0>>,
                       !.files = [flag \in Flags |-> <<"a">>]]}
=============================================================================
