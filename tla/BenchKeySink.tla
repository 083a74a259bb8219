---------------------------- MODULE BenchKeySink ----------------------------
(***************************************************************************)
(* The benchmark key files of sui-hotstore-ingest-real                     *)
(* (crates/hotstore-sui-source/src/bench_keys.rs): four append-only raw    *)
(* files, four sorted key files, progress.json and manifest.json.          *)
(*                                                                         *)
(* append_lines writes each line with `writeln!(file, "{line}")` on an     *)
(* unbuffered File, which is two write calls: the text, then the newline.  *)
(* A process killed between the two leaves an unterminated line, and the   *)
(* next append continues it.  A line is therefore the sequence of the keys *)
(* whose texts it holds: <<k>> is a line of the key k, a longer sequence   *)
(* is what a torn line became.                                             *)
(*                                                                         *)
(* progress.json, manifest.json and the sorted files are written to a      *)
(* temporary file and renamed, so each is replaced in one step.  The       *)
(* network name and the counts they carry are left out.                    *)
(***************************************************************************)
EXTENDS Integers, Sequences

CONSTANTS
  Key,          \* the keys: digests, "id,version" pairs, ids, event types
  None,         \* stands for an absent file, row or argument
  KillMidLine   \* may a process die between a line's text and its newline?

(* The four files, in the order append_batch and finalize visit them.      *)
Order == <<"tx_digests", "object_versions", "object_ids", "event_types">>
Files == {Order[i] : i \in 1..4}
Before(f) == {Order[j] : j \in {j \in 1..4 : \E i \in 1..4 : Order[i] = f /\ j < i}}

Lines == Seq(Key)
RawFile == [lines : SUBSET Lines, tail : Lines]
CheckpointRange == [first : Nat, last : Nat]
Progress == [first : Nat, last : Nat, flushed : Nat, completed : BOOLEAN]

ASSUME SinkAssumption ==
  /\ KillMidLine \in BOOLEAN
  /\ None \notin Nat
  /\ None \notin Files
  /\ None \notin CheckpointRange
  /\ None \notin Progress

VARIABLES
  raw,        \* durable: raw[f].lines are the terminated lines of f.raw,
              \* raw[f].tail what follows the last newline
  out,        \* durable: out[f] is the set of lines of f.txt
  progress,   \* durable: progress.json
  manifest,   \* durable: manifest.json
  batchKeys,  \* the BenchKeyBatch of the process: keys not yet written
  writing,    \* the file whose current line still lacks its newline
  sorted,     \* the files this finalize has written
  op          \* the step the sink is at

sinkDurable == <<raw, out, progress, manifest>>
sinkVolatile == <<batchKeys, writing, sorted, op>>
sinkVars == <<raw, out, progress, manifest, batchKeys, writing, sorted, op>>

NoKeys == [f \in Files |-> {}]

SinkTypeOK ==
  /\ raw \in [Files -> RawFile]
  /\ out \in [Files -> SUBSET Lines]
  /\ progress \in Progress \cup {None}
  /\ manifest \in CheckpointRange \cup {None}
  /\ batchKeys \in [Files -> SUBSET Key]
  /\ writing \in Files \cup {None}
  /\ sorted \in SUBSET Files
  /\ op \in {"idle", "append", "sort", "complete", "manifest"}

SinkIdle ==
  /\ batchKeys = NoKeys
  /\ writing = None
  /\ sorted = {}
  /\ op = "idle"

SinkInit ==
  /\ raw = [f \in Files |-> [lines |-> {}, tail |-> <<>>]]
  /\ out = NoKeys
  /\ progress = None
  /\ manifest = None
  /\ SinkIdle

-----------------------------------------------------------------------------
(* open, and reading the files.                                            *)

TouchRawFiles_Truncate == raw' = [f \in Files |-> [lines |-> {}, tail |-> <<>>]]

(* touch_raw_files creates what is absent and keeps what is there.         *)
TouchRawFiles == raw' = raw

(* The lines BufRead::lines yields: the unterminated last one counts too.  *)
ReadLines(file) == file.lines \cup (IF file.tail = <<>> THEN {} ELSE {file.tail})

(* The text of k stands somewhere in the file, on a line of its own or not. *)
Logged(file, k) == \E l \in ReadLines(file) : \E i \in DOMAIN l : l[i] = k

-----------------------------------------------------------------------------
(* append_batch: the keys file by file, line by line, then progress.json.  *)

BeginAppend == op' = "append"

AddKeys_Replace(new) == batchKeys' = [f \in Files |-> new[f]]

(* BenchKeyBatch::append. *)
AddKeys(new) == batchKeys' = [f \in Files |-> batchKeys[f] \cup new[f]]

AppendText(f, k) ==
  /\ op = "append"
  /\ writing = None
  /\ k \in batchKeys[f]
  /\ \A g \in Before(f) : batchKeys[g] = {}
  /\ raw' = [raw EXCEPT ![f].tail = Append(@, k)]
  /\ batchKeys' = [batchKeys EXCEPT ![f] = @ \ {k}]
  /\ writing' = f
  /\ UNCHANGED <<out, progress, manifest, sorted, op>>

AppendNewline ==
  /\ op = "append"
  /\ writing # None
  /\ raw' = [raw EXCEPT ![writing] = [lines |-> @.lines \cup {@.tail}, tail |-> <<>>]]
  /\ writing' = None
  /\ UNCHANGED <<out, progress, manifest, batchKeys, sorted, op>>

AllAppended_First == batchKeys[Order[1]] = {} /\ writing = None

AllAppended == batchKeys = NoKeys /\ writing = None

ProgressOf_Sticky(range, flushed) ==
  [first |-> range.first, last |-> range.last, flushed |-> flushed,
   completed |-> progress # None /\ progress.completed]

ProgressOf(range, flushed) ==
  [first |-> range.first, last |-> range.last, flushed |-> flushed, completed |-> FALSE]

(* The caller clears batchKeys. *)
WriteProgress(range, flushed) ==
  /\ op = "append"
  /\ AllAppended
  /\ progress' = ProgressOf(range, flushed)
  /\ op' = "idle"
  /\ UNCHANGED <<raw, out, manifest, writing, sorted>>

-----------------------------------------------------------------------------
(* finalize: the four sorted files, progress.json, manifest.json.          *)

BeginFinalize == op' = "sort" /\ sorted' = {}

SortUnique(f) ==
  /\ op = "sort"
  /\ f \notin sorted
  /\ Before(f) \subseteq sorted
  /\ out' = [out EXCEPT ![f] = ReadLines(raw[f])]
  /\ sorted' = sorted \cup {f}
  /\ op' = IF f = Order[4] THEN "complete" ELSE "sort"
  /\ UNCHANGED <<raw, progress, manifest, batchKeys, writing>>

(* saturating_sub(1) *)
Pred(n) == IF n = 0 THEN 0 ELSE n - 1

WriteCompleted(range) ==
  /\ op = "complete"
  /\ progress' = [first |-> range.first, last |-> range.last,
                  flushed |-> IF progress = None THEN Pred(range.first)
                                                 ELSE progress.flushed,
                  completed |-> TRUE]
  /\ op' = "manifest"
  /\ UNCHANGED <<raw, out, manifest, batchKeys, writing, sorted>>

WriteManifest(range) ==
  /\ op = "manifest"
  /\ manifest' = [first |-> range.first, last |-> range.last]
  /\ op' = "idle"
  /\ sorted' = {}
  /\ UNCHANGED <<raw, out, progress, batchKeys, writing>>

-----------------------------------------------------------------------------
(* The process exits: its memory is gone, its files stay as they are.      *)
SinkExit ==
  /\ writing # None => KillMidLine
  /\ batchKeys' = NoKeys
  /\ writing' = None
  /\ sorted' = {}
  /\ op' = "idle"
  /\ UNCHANGED sinkDurable
=============================================================================
