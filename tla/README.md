# sui-hotstore: models, checks and proofs

sui-hotstore copies a range of Sui checkpoints from an RPC node into a RocksDB or
ToplingDB database (the "hot store"), writes key files beside it, and benchmarks point
reads, prefix scans and batch reads over it. This directory holds TLA+ modules for the
parts of it that decide something, the TLC configurations that check them, and TLAPS
proofs: every safety property the runs check is also proved for every value of the
constants. Paths below are relative to the repository (`src/`).

Contents: 1 the system, 2 modules and code, 3 runs, 4 fairness, 5 proofs,
6 what is not modelled, 7 findings, 8 plan, 9 how to run.

## 1. The system

| Component | State it keeps | Operations | What makes it correct |
|---|---|---|---|
| Ingest (`crates/hotstore-sui-source/src/main.rs`, `commit.rs`, `cli.rs`) | database rows, `cf_meta` (watermark, range, totals); in memory: `checkpoint_seq`, pending batch, pending keys, totals | resolve the first checkpoint, write run metadata, fetch / append / flush, final metadata | resuming never skips a checkpoint; a run that ends well has stored its range |
| Key files (`bench_keys.rs`) | four `.raw` files, four sorted `.txt` files, `progress.json`, `manifest.json` | `open`, `append_batch`, `finalize` | no key of a flushed checkpoint is missing, every line is a key the database answers |
| RPC client (`source.rs`) | nothing durable; per request an attempt counter | `call` with retries and backoff, multiGet by chunks, fallback to single requests | blocks in checkpoint order, bounded retries, nothing given up early |
| Extraction (`extract.rs`, `hotstore-core`) | the write batch and key lines of a checkpoint | one put or more per checkpoint, transaction, event and object change | keys agree with rows, indexes agree with each other, the last change wins |
| Storage engines (`hotstore-db`) | the database, each column family in the byte order of its keys | `write_batch` (atomic, last put wins), point and batch reads, prefix scans with a limit | a scan is exactly the rows under the prefix, in order, up to the limit |
| Raw sync (`hotstore-admin/src/raw_sync.rs`) | a stream; the target database | `export-raw`, `import-raw` | an import that ends well wrote what it reports; no mixing with another dataset |
| Key export (`hotstore-admin/src/export_keys.rs`) | a read-only snapshot; four key files and a manifest | collect with limits, write | every exported line is answered; without a limit the files are those the ingest would have written |
| Checksums, stats (`hotstore-admin/src/checksum.rs`) | report files | one scan each | equal datasets compare equal |
| Benchmark runner (`hotstore-bench/src/workloads.rs`) | a configuration and key files; threads, a ready channel, a barrier, per-worker counters | refuse, open, load, warm up, start together, read keys by index, measure, join, merge, refuse a low hit rate | each request measured once, keys read evenly and operations by weight; nothing measured during warmup; it ends |
| Server script (`scripts/run-route1-benchmark-server.sh`, `run-benchmark-suite.sh`) | `run-config.env`, databases `db-a` and `db-b`, key directory | two ingests with retries, checksum comparison, suite | the suite never runs on half an ingest |

Interactions. The script starts the ingest as a process and starts it again when it
fails; the ingest calls the RPC client, the extraction, the database and the key sink in
this order, once per checkpoint or per batch. Database and key files are separate durable
stores, each with its own watermark; the next process reads both. Exporter and importer
share a pipe. The key export reads the database while an ingest may write it. Benchmark threads share a channel and a barrier.

What is hard here: a process may die between any two durable writes, including between
the text and the newline of a key line; it is then started again, perhaps with another
end of range, another batch size, with or without `--resume` or key files. Requests fail
at any time. Benchmark threads interleave freely and may panic. Two processes on a pipe
wait for each other and either may die. `PROJECT.json` lists each hazard at its line with
the properties that would show it going wrong.

## 2. Modules and code

| Module | Models | Notes |
|---|---|---|
| `BenchKeySink` | `bench_keys.rs` | durable `raw`, `out`, `progress`, `manifest`; a line is two writes (`AppendText`, `AppendNewline`) because `append_lines` uses `writeln!` on an unbuffered `File`; a line is the sequence of the keys it holds, so a torn line is visible |
| `Ingest` (extends it) | `main.rs`, `commit.rs` | one action per durable step of `main`; `Crash` at every step; `Start` and `Rerun` with any of the command lines in `Invocations` |
| `IngestFrom` (extends `Ingest`) | what holds while all runs begin at one checkpoint `from` | properties and inductive invariant, each an operator of `from`, so that a constant (`PinnedIngest`) and the range read from `run-config.env` (`RouteOneProofs`) can stand for it |
| `PinnedIngest` (extends it) | runs that share their first checkpoint | `from` is the constant `First`: the setting of the server script, which pins the range in `run-config.env` (`RangePinned`); holds the refinement mapping |
| `RangeIngest` | abstract | what a resumable ingest promises: blocks without a gap below the watermark |
| `RouteOne` (extends `Ingest`) | `run-route1-benchmark-server.sh`, and the checksum gate of `run-benchmark-suite.sh` | composes the script with the whole ingest: `--reset-state`, the range from the options, the node or `run-config.env` (written in two steps), one or two databases, one key directory, `STEP_MAX_ATTEMPTS` (`MaxRuns`), the script run again with other options |
| `SourceClient` | `source.rs` | one checkpoint fetched; every request may fail; holds the refinement of `FetchAll` |
| `FetchAll` | abstract | what a fetch promises its caller: blocks in order, then all of them or a failure |
| `HotKeys` | `key.rs` | the keys as sequences of bytes; a byte is a digit in base `Base`, so that small numbers take several |
| `OrderedStore` | `traits.rs`, `rocksdb_backend.rs` | a store is a function from column family and key to records; writes and scans as operators |
| `Checksum` | `checksum.rs` | what is hashed of a store, and what comparing two reports decides |
| `Extract` (extends these) | `extract.rs`, the batches of `main.rs` | operators that turn a checkpoint into its puts and its key lines; two steps, the write of a batch and the append of its lines |
| `Export` (extends `Extract`) | `export_keys.rs` | composes the export with the ingest that writes the database: snapshot, limits, each file truncated and filled in turn, a failure at every step, further exports into the same directory |
| `BenchInputs` | validation, key files, `key_at`, `batch_at`, `prefix_at`, `request_at`, `execute_request` | which positions of which key file request number `index` may read, and what it counts for |
| `BenchRunner` (extends it) | `run_benchmark_suite`, `run_single_benchmark`, `run_worker` | main thread and workers, channel, barrier, join, merge, several levels in one process, from the parsing of `--mix` to the last report |
| `RawSync` | `raw_sync.rs` | two processes and a bounded stream; a file is a stream read after its writer ended |
| `IngestProofs`, `PinnedProofs` | proofs about `Ingest` and `IngestFrom`, about `PinnedIngest` and `RangeIngest` | section 5 |
| `StoreProofs`, `ExportProofs` | proofs about `HotKeys` and `OrderedStore`, about `Extract`, `Checksum` and `Export` | `ExportProofs` extends `StoreProofs`; section 5 |
| `RouteOneProofs`, `SourceClientProofs`, `RawSyncProofs`, `BenchRunnerProofs` | proofs about those modules | section 5 |
| `MC...` | instances for TLC | key sets, command lines, chains, datasets |

Definitions whose name has a suffix after an underscore (`EffectiveFirst_SkipsOne`,
`Share_RoundUp`, ...) are wrong variants of the definition that follows them. No
specification uses them; each property of a passing run is known to fail when the right
definition is replaced by its variant.

How the state corresponds, for the ingest:

- The rows a checkpoint contributes are a function of its number, so the database is the
  set `stored` of checkpoints written. Only `cf_object_last_seen` (`lastSeen`) and
  `cf_meta` (`meta`) can be overwritten with something else, and are modelled as values.
  `Extract` is what justifies this: there the rows themselves are modelled, byte by byte in
  their keys.
- `pc` is where `main` is: `meta` after `resolve_effective_first_checkpoint` and before the
  first `persist_run_metadata`; `fetch` at the top of the loop; `commit` before
  `persist_aggregated_batch`; `sink` inside `append_batch` or `finalize`, where
  `op` says which step; `final` before the last `persist_run_metadata`; `done` after the
  last write, where it may still be killed before it is seen to have ended well; `down` when
  no process runs.
- Each write that survives the process is a step of its own. `progress.json`,
  `manifest.json` and the sorted files go through a temporary file and a rename, so each
  is one step. Power loss is not modelled: a completed write is there for the next process.
- The raw files are sets of lines, since `finalize` sorts and removes duplicates. The
  order of the keys within one batch is any order.

## 3. Runs

Violation runs are the findings of section 7. States are distinct states.

| Run | What it asks | Bounds | States |
|---|---|---|---|
| `ingest_resume` | type; resuming skips nothing; a run that ends well stored its range; both watermarks cover what they say; `completed` is true of the files; last-seen rows are not behind; the whole implements `RangeIngest` | checkpoints 0..3, range from 1, 3 process starts, 4 command lines, kills within a line | 86 329 |
| `ingest_keys` | every key line is answered; none missing; files only grow; repeated starts end with everything complete | as above with the range from 0, kills only between lines, fairness | 15 049 |
| `route_one` | everything in the base directory belongs to the saved range; the suite's inputs are complete; both databases have the same rows | latest checkpoint 2 or 3, 2 checkpoints, batches of 1, 2 attempts per step, 3 script runs, each with any of 8 option combinations (range 1..2 asked for or none, reset, compare) | 83 124 |
| `bench_runner` | measured together; reports complete; no miss passes `--min-hit-rate 1.0`; keys read evenly; a mix follows its weights; it ends | some thirty configurations: every check of the command line and every way a key file can fail, each workload, both access patterns, levels 1,3 / 3,5 / 2,1 / 4, 4 or 6 requests, 1 warmup request, batches of 2; any request fails or panics; `U32` = 8 | 42 889 |
| `source_client` | retries used up and no more; the client implements `FetchAll` | 5 transactions, chunks of 2, 2 retries | 8 481 |
| `export_keys` | keys answered; scans exact and in chain order; last change wins; owner scans resolve; checksums tell equal ingests from others; exported lines answered and counted; export and ingest agree | chains of 3 checkpoints (one empty), 3 transactions, up to 2 changes per transaction; on 16 chains of 2 checkpoints 2 exports with limits 1, 2 or 4 in every file; base 2, numbers of 3 and 2 digits, hashes of 3 | 72 338 |
| `raw_sync` | imports report what they wrote; short imports are told; no mixture; a stopped import leaves a prefix and splits no batch; both end | 5 rows, batches of 2, a pipe of 2 units, 2 runs, 3 initial targets | 3 385 |

Why these bounds are enough to be interesting. The ingest's case analysis is over the
order of two watermarks and the ends of a range: three starts allow a run that fails, one
that resumes and fails somewhere else, and one that completes; batches of 1 and 2 over a
range of 3 or 4 give full batches and a last short one; the command lines
differ in every argument that is kept between runs. First = 1 leaves a checkpoint outside
the range, First = 0 lets it begin at the lowest checkpoint there is. For the safety properties the
proofs of section 5 remove the bounds altogether. In the runner,
3 and 5 workers over 4 requests give a remainder and workers without work, 4 over 6 a
remainder of two, and two levels show whether anything leaks from one level to the next;
batches of 2 go over 2, 3 and 8 keys; weights reach, and pass, `U32`. In the extraction,
versions 1, 2 and 3 cross a digit and there are two checkpoints with rows, so the order of
bytes could differ from that of numbers; with 4 the limits do not bite, with 1 all do, and
with 2 the limit on distinct types differs from one on rows. In the client, 5 = 2+2+1 gives a
short last chunk. In the raw stream, 5 rows in batches of 2 leave a rest to flush, and a
pipe of 2 units makes the writer wait.

Deadlock checking is off where the system really stops: a script that ended, an ingest
that is done with no start left, a fetch that ended, a chain extracted, a pair of
processes that ended. `BenchRunner` has an explicit `Ended` step; its configuration
turns the check off because the hang of section 7 is a deadlock, and `BenchmarkEnds`
(with its one stated exemption) is the stronger check of the same thing.

What deserves a comment on single properties:

- `KeysHitDb` and `DoneKeysComplete` hold only when no process dies within a line
  (`KillMidLine = FALSE`); `ingest_torn_line` shows why. `KeyProgressCovered` and
  `CompletedIsComplete` hold even then, because a torn line still contains its key's text.
- `Pred`, the `saturating_sub` with which `finalize` stands in for a missing `progress.json`,
  is modelled but no run reaches it: a process that finalizes has either flushed a batch or
  found both watermarks, so the file is there.
- `SameRows` leaves `totals` out of the comparison, `ComparePasses` does not: that is the
  third finding.
- `RangePinned` is what makes the script safe from finding 1: the ingest compares watermarks
  without their range, so the script must never start it on another range's progress.
  It holds although `rm -rf` may be killed between two of its arguments, because
  `run-config.env` is the last of them. It is `PinnedAssumption` of section 5, for the
  script.
- `ReportsComplete` has `>=` because a batch or mixed request counts for several keys. That
  every index is in `samples` and that there are as many samples as requests says that
  none is measured twice.
- `MixFollowsWeights` is about at most `U32` requests: `request_at` casts the index to `u32`
  before it takes the remainder, and 2^32 need not be a multiple of the total, so over more
  requests the counts may differ.
- `KeysReadEvenly` is about workloads of one operation. A sequential mix takes slot and key
  from the same index, so an operation may only ever see some of its keys; no text promises
  otherwise and the hazard list says so.
- `ScansExact` recomputes a scan from the chain alone, by place and not by key; it is the
  property in which the byte order of keys, the prefix test and the limit meet.
- `ChecksumTells` compares the database, whatever batches wrote it, with one that took the
  same checkpoints in a single batch and with those of other prefixes of the chain. It leaves
  `cf_meta` out, which is the third finding.
- `ExportAgrees` and `ExportedAnswered` speak of the checkpoints the export's snapshot holds
  (`held`, a history variable), while the database may have gone on since.
- `WholeBatches` holds wherever an import stops. The write of a full batch, the write of the
  rest and the end (compaction and the report) are steps of their own, so an import may fail
  with a full batch unwritten, which is why a whole batch of the rows read can be missing, or
  with everything written and no report: then the target has a last, partial batch after an
  import that failed. What it cannot have is a partial batch while the exporter still writes.
- `AttemptsExact` uses a history variable (`sent`) that counts requests by what they ask
  for, so that a counter leaking from one request to the next would show.

## 4. Fairness

- `Ingest`: weak fairness of `Start` and of `Running`. The script's `run_with_retries`
  starts the process again after a failure, and a process that is not killed goes on.
  Nothing is assumed of `Crash`: it is bounded by `MaxRuns` only (a process may die while
  it can still be started again, as an operator who always retries would have it).
- `BenchRunner`: weak fairness of the main thread and of each worker: the operating system
  runs every thread that can run. Nothing is assumed of panics.
- `SourceClient`: weak fairness of `Next`: every request ends, with an answer or an error.
  The HTTP client is built without a timeout (`source.rs:18`), so this is an assumption
  about the server; `ImplementsFetch` depends on it and the hazard list says so.
- `RawSync`: each process goes on until it ends; one that cannot (nobody reads, or the
  stream is broken) fails. A failure that is not forced is never assumed.
- Everything else is safety and assumes nothing.

## 5. Proofs

`tlapm` checks them for every value of the constants that satisfies the named assumptions.
Each theorem is listed in `PROJECT.json` with the property it states. The proof modules are
laid out alike: the inductive invariant, lemmas about the operators, one lemma per action
(or per conjunct an action disturbs), `Spec => []IInv`, then the theorems. Every inductive
invariant was checked by TLC on the instance of its run before it was proved.

### Ingest and key files: `IngestProofs`, `PinnedProofs`

Any number of checkpoints, any function from checkpoints to keys, any set of command lines,
any number of runs and of kills.

- `TypeCorrect`: `Spec => [](TypeOK /\ ControlInv)`. `ControlInv` is the control flow a type
  cannot say: a running process has its command line, the sink works exactly when the process
  waits for it, the loop stays within the range. Assumptions: `SinkAssumption`,
  `IngestAssumption` (what `validate()` of `cli.rs` accepts).
- `WatermarkCovers`, `DoneStored`: no checkpoint between the first and the watermark is ever
  missing, and a run that ends well has stored its whole range. They and what follows also
  need `PinnedAssumption`: all runs begin at `First`. It cannot be dropped, as
  `ingest_other_range` shows. `WatermarkCoversRange` is not inductive: a commit moves
  the watermark to `seq` and stores only the batch. So `RangeInv` follows a run from its
  start: at `meta` everything below `seq` is stored (`EffectiveFirstCovered`, because the
  smaller of two watermarks is at most the database's); in the loop the batch is a
  contiguous block `lo..seq-1` and everything below `lo` is stored (`BatchFrom`); after
  the commit everything up to `seq` is.
- `Refinement`: `Spec => ImplementsRangeIngest` with `have <- stored` and
  `mark <- meta.watermark`. `CommitAdvances` maps `CommitBatch` to `Advance(lo, seq)`;
  every other step stutters. `AbstractCovered`: `RangeIngest` has no gap below its
  watermark.
- `LastSeenKept`: `SeenInv` adds that the writes up to `seq` are in the batch or in the
  database (`SeenThrough`); a commit keeps the later of the two because the batch lies above
  what is stored.
- `FlushedIsLogged`, `CompletedHolds`, `SkippedIsDone`: `KeyInv`. While a run goes on, a key of
  a checkpoint from `First` to `seq` is in the raw file or still to be appended (`Owed`);
  when `progress.json` is written nothing is owed. While it finalizes, the raw files do not
  change, so a sorted file stays what its raw file was (`Sorted`). All three hold for kills
  within a line: a torn line still contains its key.
- `EveryLineHits`, `EveryKeyHasItsLine`, `FilesOnlyGrow`: a line is one key of a stored
  checkpoint. `LineInv`, and these theorems with it, have the hypothesis `~KillMidLine`: no
  process dies between a text and its newline. `KillMidLine` is a constant both of whose values
  the code can show, and `ingest_torn_line` shows that without the hypothesis the first of them is false.

### Server script: `RouteOneProofs`

Any set of options and requested ranges, any latest checkpoints, any number of attempts per
step and of script runs. `RouteOneAssumption` says that the ingest's command lines are exactly
those the script can write.

- `RouteTypeCorrect`, `BaseDirectoryPinned`, `SuiteReady`, `IngestsAgree` state the four
  properties of `route_one`. `RouteInv` has, besides types, `ScriptInv` (which database is at work,
  what its process was told, how much a reset has removed), `RangeKept` and `StepsDone`.
- The key is `RangeKept`: whenever `run-config.env` holds a range, every invariant of
  `IngestFrom` holds with its first checkpoint for `from`, for the database at work, and what they
  say of a database for the other one. So each step of an ingest needs only the lemmas of
  `IngestProofs`; what is left is that the script starts no process on any
  other range, and that when a new range is saved nothing of an old one is left. The
  second is where the order of the arguments of `rm -rf` counts.
- `StepsDone` remembers what a step that ended well left; the two databases agree because both
  hold every row of the range and none beyond it.

### RPC client: `SourceClientProofs`

Any list of transactions, chunk size and number of retries.

- `ClientTypes`, `ClientAttempts`: `SentInv` relates the history `sent` to `attempts`, for the
  request being made, and says that nothing later was asked for yet.
- `ClientRefinement`: `Spec` implies the initial predicate and `[][Next]` of `FetchAll`, with
  `OutInv`: the blocks fetched are a prefix of those asked for. That the fetch ends
  is checked by `ImplementsFetch` only.

### Raw sync: `RawSyncProofs`

Any source (rows with different keys), batch size, pipe size, targets and number of runs.

- `RawSyncTypes`, `TargetIsPrefix` (`WholeBatches`), `ReportIsTrue` (`ImportedIsReported`),
  `ShortImportIsTold`, `NoMixtureEver`: the five safety properties of the run. `StreamInv` says that what is
  in the pipe are the rows after those read, in order; `BatchInv` that the target is what it
  was with the rows before the batch written over it, and with all rows read once the last
  batch is written (`report`); `WholeNow` derives `WholeBatches` from them for an importer
  that has not failed, and one that failed left what it had. `OpenInv` that an import went on only into
  a target that was empty or allowed not to be.

### Benchmark runner: `BenchRunnerProofs`

Any set of configurations, key files, levels, requests and workers, any interleaving and any panics.
`BenchAssumption` bounds the numbers to what their types hold and the key files to finite ones.

- `BenchTypeCorrect`, `ClockCoversRequests` (`MeasuredTogether`): `Waiting` says that as
  long as the barrier is shut the ready messages sent and received are the workers past their warmup, and the
  arrivals at the barrier are those waiting there and main; so it can open only when all of them
  and main are there (`BarrierFull`), after which `Started` holds.
- `ReportsCoverRequests` (`ReportsComplete`): `SplitInv` gives worker `w` the share from
  `Before(w)` to `Before(w + 1)`, where `Before(n)` is proved to be the number of requests
  (`BeforeFacts`); `TallyInv` says a worker has counted exactly its share up to `next`;
  `MergeInv` that main has merged the first `joined` shares, which are an interval.
- `PassedIsStored` (`NoMissPasses`): `Sound`, for each tally, the merged one and each report.
- `ReadsSpread` (`KeysReadEvenly`) and `WeightsFollowed` (`MixFollowsWeights`) count: the reads
  of one line are in bijection with the numbers below `requests * batch` that have one remainder by the
  length of the file (`CountOf`); the requests of one operation with those whose remainder by the
  total lies between two partial sums of the weights (`WithRemainder`). No induction over data is
  needed: `UsableLines` and `TrueEnds` are written without recursion.

### Keys and store: `StoreProofs`

Any base, widths, hashes, texts and stores whose keys are sequences of bytes.

- `BigEndianLess`: of two numbers that fit a width, the smaller has the smaller key. Where the shifts of
  two numbers first differ, so do their digits (`ShiftsGrow`).
- `ScanIs`: a prefix scan is the sorted sequence of the rows under its prefix, cut at the limit.
  Iterating from the prefix on and stopping at the first key without it misses none, since
  the keys under a prefix are an initial piece of those from the prefix on (`UnderIsInitial`).
- `WriteConcat`: two write batches one after the other write what one batch of both would.

`SetInduction` and `BoundedInduction` are induction over the numbers of a
*set*, from the well-foundedness of `<` on the naturals. The induction theorems of the library
take an operator as a parameter, which the provers cannot instantiate; with a set of the numbers for
which something holds instead, folds, concatenations and the recursive functions of the
model can be reasoned about for every length.

### Extraction, export, checksums: `ExportProofs`

Any chain, ids, owners, types, limits and number of exports, any batches.

- The inductive invariant is `Inv`, `DataInv` and `ExportInv` (`InvHolds`). `DataInv` says that the
  database is what one batch of the checkpoints stored would have left (`OneBatch`), and the key
  files the lines of the checkpoints keyed. The properties are not inductive by themselves: a key
  says nothing of the puts that were overwritten under it.
- It is kept because batches written one after the other leave what one does
  (`BatchAfter`, from `WriteConcat`), and it is of use because of `OneBatchHolds`: each row has
  a place in the chain (checkpoint, transaction, event or change), and the store has under
  each key the record of the last place with that key. That is proved up the
  structure of `extract_checkpoint_batch`: `Stored(db, mark)` says that the places before `mark`
  are in, and `ChangeStep`, `ChangesStep`, `EventsStep`, `TxStep` and `CheckpointStep` move
  the mark on.
- `KeysAreAlwaysAnswered`, `LastSeenIsLast`, `ScansAreExact`, `OwnerScansAlwaysResolve` follow from
  `DataInv` and what keys tell apart: `EventKeysGrow` (the order of the event keys of a type is that of their
  places), `VersionKeysTell`, and `OwnerPrefix` (a row lies under an owner's prefix
  only if it is that owner's).
- `ChecksumsTell`: the rows of `cf_checkpoint` alone tell how many checkpoints are stored, and
  `DataInv` says that this number determines all other rows.
- `ExportInv` follows an export: what it collected are lines of the checkpoints in its snapshot,
  as many as the limit or as there are (`CollectCollects`; for event types the loop over rows is shown
  to count distinct types, `FirstDistinct`), and the files before the one at work
  hold it. `ExportsAreAnswered` and `ExportsAgree` follow, and `ExportTypeCorrect` besides.

Assumptions. `KeyAssumption`: hashes and texts are sequences of bytes, different for different
names, and no hash is all zeros, which is the tag of an object without type. `ChainAssumption`: ids have
one length, no owner's text begins another's, versions and counts fit their integers.
`ExportAssumption`: limits are positive. The properties are false without the
first two: ids of different lengths could share an object-version key, an owner whose text begins
another's would see the other's rows, and a version past its width would overwrite another.

### Only model-checked

Liveness (`EventuallyComplete`, `BenchmarkEnds`, `BothEnd`, and in `ImplementsFetch` that the
fetch ends): fairness and ENABLED are out of the prover's reach. The mutants and the findings
are TLC's by nature. Everything else the passing runs check is proved.

## 6. Not modelled

- bincode of records: a record is its fields. Gas, senders, payloads, record modes and the
  counts in reports are left out, and so are the sizes in bytes.
- Percentiles and rates of a benchmark report, its host metadata and fingerprints; the
  generator of the uniform pattern (it may take any key).
- Sizes and the overall digest in checksum reports, which their comparison does not read. What
  `run-benchmark-suite.sh` does between the gate and the report is a sequence of binaries.
- The other scripts (key generation through `curl` and `jq`, monitoring, summary, snapshot
  set-up, demo): I/O and formatting in sequence.
- `hotstore-api` and `hotstore-ingest`: placeholders without behaviour.
- RocksDB and ToplingDB themselves, the RPC server (answers what it was asked, in order),
  power loss, a partial write within one write call, two ingests at work on one
  database at once (RocksDB's lock refuses the second).
- A kill of the script is a kill of the attempt under way. `rm -rf` removes each directory
  in one step. Network and backend are the same in every run of the script. A
  `run-config.env` that was cut off is refused by every later run until `--reset-state`,
  because no network matches or no range is set.
- Hashes of event types and type tags are taken as free of collisions (`KeyAssumption`), ids as
  of one length, and an owner's text as never the beginning of another's: it is JSON.
- A limit of 0 passed to the export (it writes one line) and an export from a database that is
  not there (it fails before it writes).

## 7. Findings

1. `ingest_other_range`: the watermark is used without the range it belongs to. After a
   run over 1..1, `--resume` over 0..1 prints that existing progress covers 0-1 although
   checkpoint 0 was never stored (`main.rs:182`).
2. `ingest_torn_line`: a kill between a key line's text and its newline glues the next key
   to it in the resumed run, so a key file has a line no row answers (`bench_keys.rs:243`).
3. `route_one_compare`: totals count the checkpoints of the last process, are stored in
   `cf_meta`, and `compare-checksum` includes `cf_meta`; of two ingests with the same rows,
   one of which was interrupted, the comparison fails (`main.rs:60`).
4. `bench_hang`: a worker that panics in its warmup beside another worker leaves the
   benchmark waiting for ever, since the others hold senders while they wait at the
   barrier (`workloads.rs:393`).
5. `bench_mix`: `MixedWeights::total` adds in 32 bits. In a release build weights that add up
   to 2^32 are refused with "--mix weights must sum to at least 1" (`workloads.rs:211`), and
   larger ones are accepted with a wrong total; a debug build panics (`workloads.rs:123`).
   `U32` is 8 in the run, so that small weights wrap.

## 8. Plan

Done, most important behaviour first: the ingest with its key files and the refinement of
`RangeIngest`; the server script on top of the whole ingest; the benchmark runner, the RPC client
and raw sync; keys as bytes, the store, the extraction and the key export over it; the
benchmark's inputs, composed with the runner; the refinement of `FetchAll`. Then the proofs: every
safety property of the ingest with and without the script, of the client, of raw sync, of
the runner, and of keys, store, extraction, checksums and export.

Left: percentiles against a reference definition; the key generation script; the fields of
records that no lookup uses.

## 9. Running

    tlc -workers 2 -config MCIngest_resume.cfg MCIngest      # and so on, one per .cfg
    tlapm PinnedProofs.tla                                   # and the other modules named ...Proofs

`PROJECT.json` lists components, runs, mutants, the source lines of every definition,
findings, hazards and theorems.
