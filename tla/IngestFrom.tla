----------------------------- MODULE IngestFrom -----------------------------
(***************************************************************************)
(* What holds of a database and a key directory as long as every run into  *)
(* them begins at the same checkpoint `from`: the properties, each as an   *)
(* operator of `from`, and the inductive invariant behind them.            *)
(*                                                                         *)
(* PinnedIngest fixes `from` as a constant; in RouteOne it is what the     *)
(* script reads from run-config.env.                                       *)
(***************************************************************************)
EXTENDS Ingest

(* No checkpoint between the first and the watermark is missing, so a run  *)
(* that resumes from the watermark skips nothing.                          *)
CoveredFrom(from) ==
  meta.watermark # None => from..meta.watermark \subseteq stored

(* Every key of the checkpoints from..hi is in the raw files.              *)
KeysThrough(from, hi) ==
  \A n \in from..hi : \A f \in Files : \A k \in Emits[f][n] : Logged(raw[f], k)

(* No key of a checkpoint up to last_flushed_checkpoint is missing from    *)
(* the raw files, wherever a run was killed.                               *)
FlushedFrom(from) == progress # None => KeysThrough(from, progress.flushed)

(* Every key of the checkpoints from..hi is in the sorted files.           *)
SortedThrough(from, hi) ==
  \A n \in from..hi : \A f \in Files : \A k \in Emits[f][n] :
    \E l \in out[f] : \E i \in DOMAIN l : l[i] = k

(* While progress.json says completed, the sorted files hold every key of  *)
(* the checkpoints it names, even after a later run began to append.       *)
CompletedFrom(from) ==
  progress # None /\ progress.completed => SortedThrough(from, progress.flushed)

(* cf_object_last_seen is never behind the watermark: an object touched at *)
(* or before it has a record at least that recent, and the record is one   *)
(* of a checkpoint that is stored and touched the object.                  *)
LastSeenFrom(from) ==
  /\ meta.watermark # None =>
       \A n \in from..meta.watermark : \A o \in Emits["object_ids"][n] :
         lastSeen[o] # None /\ lastSeen[o] >= n
  /\ \A o \in Key : lastSeen[o] # None =>
       lastSeen[o] \in stored /\ o \in Emits["object_ids"][lastSeen[o]]

-----------------------------------------------------------------------------
(* The inductive invariant behind them.                                    *)

PinnedTo(from) == from \in Checkpoints /\ (cli # None => cli.first = from)

(* The pending batch is lo..hi, and nothing below lo is missing.           *)
BatchFrom(from, lo, hi) == batch.rows = lo..hi /\ from..(lo - 1) \subseteq stored

Finalizing == pc = "sink" /\ op # "append"

RangeInv(from) ==
  /\ CoveredFrom(from)
  /\ pc \notin {"fetch", "commit"} => batch.rows = {}
  /\ pc = "meta" =>
       /\ from <= seq /\ from..(seq - 1) \subseteq stored
       /\ seq = from \/ (meta.watermark # None /\ seq - 1 <= meta.watermark)
  /\ pc = "fetch" => \E lo \in from..seq : BatchFrom(from, lo, seq - 1)
  /\ pc = "commit" => \E lo \in from..seq : BatchFrom(from, lo, seq)
  /\ op = "append" => from <= seq /\ from..seq \subseteq stored /\ meta.watermark = seq
  /\ pc = "final" \/ Finalizing \/ pc = "done" =>
       /\ from..cli.last \subseteq stored
       /\ meta.watermark # None /\ cli.last <= meta.watermark
  /\ Finalizing \/ pc = "done" => meta.rangeStart = cli.first /\ meta.rangeEnd = cli.last

IInv(from) == TypeOK /\ ControlInv /\ PinnedTo(from) /\ RangeInv(from)

(* The last writes up to hi are in the batch or the database.              *)
SeenThrough(from, hi) ==
  \A n \in from..hi : \A o \in Emits["object_ids"][n] :
    LastWrite(o) # None /\ LastWrite(o) >= n

SeenInv(from) ==
  /\ LastSeenFrom(from)
  /\ pc \notin {"fetch", "commit"} => \A o \in Key : batch.seen[o] = None
  /\ \A o \in Key : batch.seen[o] # None =>
       batch.seen[o] \in batch.rows /\ o \in Emits["object_ids"][batch.seen[o]]
  /\ pc \in {"meta", "fetch"} => SeenThrough(from, seq - 1)
  /\ pc = "commit" \/ op = "append" => SeenThrough(from, seq)

(* Every key of from..hi is in the raw files or still to be appended.      *)
Owed(from, hi) ==
  \A n \in from..hi : \A f \in Files : \A k \in Emits[f][n] :
    Logged(raw[f], k) \/ k \in batchKeys[f]

Sorted(f) == out[f] = ReadLines(raw[f])

KeyInv(from) ==
  /\ FlushedFrom(from)
  /\ CompletedFrom(from)
  /\ pc = "meta" /\ cli.keys => KeysThrough(from, seq - 1) /\ (progress = None => seq = from)
  /\ pc = "fetch" /\ cli.keys => Owed(from, seq - 1)
  /\ pc = "commit" /\ cli.keys => Owed(from, seq)
  /\ op = "append" => cli.keys /\ Owed(from, seq)
  /\ (pc = "final" \/ Finalizing \/ pc = "done") /\ cli.keys =>
       KeysThrough(from, cli.last) /\ progress # None
  /\ Finalizing => cli.keys /\ \A f \in sorted : Sorted(f)
  /\ op \in {"complete", "manifest"} => sorted = Files
  /\ op = "manifest" => progress.completed
  /\ pc = "done" /\ cli.keys =>
       /\ \A f \in Files : Sorted(f)
       /\ progress.completed
       /\ manifest = [first |-> cli.first, last |-> cli.last]

(* l is the line of one key of a stored checkpoint.                        *)
Hit(f, l) == \E n \in stored : \E k \in Emits[f][n] : l = <<k>>

(* Holds when no process dies between a text and its newline.              *)
LineInv ==
  /\ writing # None => op = "append" /\ raw[writing].tail # <<>>
  /\ \A f \in Files : raw[f].tail # <<>> => writing = f /\ Hit(f, raw[f].tail)
  /\ \A f \in Files : \A l \in raw[f].lines : Hit(f, l)
  /\ \A f \in Files : out[f] \subseteq raw[f].lines
  /\ \A f \in Files : \A k \in batchKeys[f] : \E n \in stored \cup batch.rows : k \in Emits[f][n]
=============================================================================
