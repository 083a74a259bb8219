------------------------------- MODULE Export -------------------------------
(***************************************************************************)
(* hotstore-admin export-bench-keys                                        *)
(* (crates/hotstore-admin/src/export_keys.rs) beside the ingest of         *)
(* Extract: it opens the database for reading only, which shows it as it   *)
(* is at that moment, collects lines with a limit for each file, and       *)
(* writes the four key files and then their manifest into a directory of   *)
(* their own.  It may fail at any step, and be run again with other limits *)
(* into the same directory while the ingest goes on.                       *)
(*                                                                         *)
(* fs::write is two steps, the truncation and the write.                   *)
(***************************************************************************)
EXTENDS Extract

CONSTANTS
  Limits,   \* the choices of limits: functions from Files to Nat
  Exports   \* Exports[c]: how often the keys of chain c are exported at most

(* --limit 0, which writes one line all the same, is left out.             *)
ASSUME ExportAssumption ==
  /\ Limits # {} /\ Limits \subseteq [Files -> Nat \ {0}]
  /\ Exports \in [Chains -> Nat]

VARIABLES
  left,      \* exports left
  exporter,  \* its step, its limits, what it has collected, and as a
             \* history variable the checkpoints its snapshot holds
  dir        \* dir[f]: the lines of file f, and the counts in the manifest

exportVars == <<left, exporter, dir>>
vars == <<extractVars, exportVars>>

(* write_lines, in the order of the calls.                                 *)
FileOrder == <<"tx_digests", "object_versions", "object_ids", "event_types">>

NoFile == "no file"

Steps == {"none", "truncate", "fill", "manifest", "fill manifest", "ok", "error"}

TypeOK ==
  /\ ExtractTypeOK
  /\ left \in 0..Exports[chain]
  /\ exporter.at \in Steps
  /\ exporter.file \in DOMAIN FileOrder
  /\ exporter.limits \in Limits
  /\ exporter.held \in 0..stored
  /\ DOMAIN dir = Files \cup {"manifest"}

Init ==
  /\ ExtractInit
  /\ left = Exports[chain]
  /\ exporter = [at |-> "none", file |-> 1, limits |-> CHOOSE l \in Limits : TRUE,
                 held |-> 0, lines |-> [f \in Files |-> {}]]
  /\ dir = [f \in Files \cup {"manifest"} |-> NoFile]

-----------------------------------------------------------------------------
(* collect_records: the records of a column family in the order of its     *)
(* keys; the limit is tested once a record was taken.                      *)
CollectRecords(cf, limit) == ScanPrefix(db, cf, <<>>, limit)

CollectTypes_LimitRows(limit) ==
  LET rows == ScanPrefix(db, "event_by_type", <<>>, limit)
  IN {rows[i].type : i \in DOMAIN rows}

(* collect_event_types: distinct types, until there are as many as the     *)
(* limit.                                                                  *)
CollectTypes(limit) ==
  LET rows == ScanPrefix(db, "event_by_type", <<>>, Cardinality(DOMAIN db))
      types(n) == {rows[i].type : i \in 1..n}
  IN {rows[n].type : n \in {n \in DOMAIN rows : n = 1 \/ Cardinality(types(n - 1)) < limit}}

Collect(limits) ==
  LET txs == CollectRecords("tx_by_digest", limits["tx_digests"])
      versions == CollectRecords("object_version", limits["object_versions"])
      objects == CollectRecords("object_last_seen", limits["object_ids"])
  IN [tx_digests |-> {txs[i].digest : i \in DOMAIN txs},
      object_versions |-> {<<versions[i].object, versions[i].version>> : i \in DOMAIN versions},
      object_ids |-> {objects[i].object : i \in DOMAIN objects},
      event_types |-> CollectTypes(limits["event_types"])]

(* open_read_only_db, create_dir_all and the collect_... calls, which read *)
(* what the database held when it was opened.                              *)
Open ==
  /\ exporter.at \in {"none", "ok", "error"}
  /\ left > 0
  /\ left' = left - 1
  /\ \E limits \in Limits :
       exporter' = [at |-> "truncate", file |-> 1, limits |-> limits, held |-> stored,
                    lines |-> Collect(limits)]
  /\ UNCHANGED dir

File == FileOrder[exporter.file]

Truncate ==
  /\ exporter.at = "truncate"
  /\ dir' = [dir EXCEPT ![File] = {}]
  /\ exporter' = [exporter EXCEPT !.at = "fill"]
  /\ UNCHANGED left

Fill ==
  /\ exporter.at = "fill"
  /\ dir' = [dir EXCEPT ![File] = exporter.lines[File]]
  /\ exporter' = IF exporter.file = Len(FileOrder)
                 THEN [exporter EXCEPT !.at = "manifest"]
                 ELSE [exporter EXCEPT !.at = "truncate", !.file = @ + 1]
  /\ UNCHANGED left

(* A manifest that is truncated holds no counts.                           *)
TruncateManifest ==
  /\ exporter.at = "manifest"
  /\ dir' = [dir EXCEPT !["manifest"] = {}]
  /\ exporter' = [exporter EXCEPT !.at = "fill manifest"]
  /\ UNCHANGED left

ManifestCounts_Limits == exporter.limits

ManifestCounts == [f \in Files |-> Cardinality(exporter.lines[f])]

FillManifest ==
  /\ exporter.at = "fill manifest"
  /\ dir' = [dir EXCEPT !["manifest"] = ManifestCounts]
  /\ exporter' = [exporter EXCEPT !.at = "ok"]
  /\ UNCHANGED left

(* An error of any call, or a kill.                                        *)
Fail ==
  /\ exporter.at \notin {"none", "ok", "error"}
  /\ exporter' = [exporter EXCEPT !.at = "error"]
  /\ UNCHANGED <<left, dir>>

ExportStep ==
  \/ Open
  \/ Truncate
  \/ Fill
  \/ TruncateManifest
  \/ FillManifest
  \/ Fail

Next ==
  \/ IngestStep /\ UNCHANGED exportVars
  \/ ExportStep /\ UNCHANGED extractVars

Spec == Init /\ [][Next]_vars

-----------------------------------------------------------------------------
(* Properties.                                                             *)

Exported == exporter.at = "ok"

(* What an export that ended well leaves, whatever an earlier one that     *)
(* failed had left there and however far the ingest has gone since: every  *)
(* line is answered by the database, each file has as many lines as its    *)
(* limit or as there are, and the manifest counts them.                    *)
ExportedAnswered ==
  Exported =>
    \A f \in Files :
      LET there == Cardinality(LinesOf(1..exporter.held)[f])
      IN /\ \A line \in dir[f] : Answered(f, line)
         /\ Cardinality(dir[f]) =
              IF there < exporter.limits[f] THEN there ELSE exporter.limits[f]
         /\ dir["manifest"][f] = Cardinality(dir[f])

(* The two ways to make key files agree: where the limit does not bite,    *)
(* the exported lines are those the ingest emitted for the checkpoints the *)
(* export saw, no batch of them in part, in every one of the four files.   *)
ExportAgrees ==
  Exported =>
    \A f \in Files :
      Cardinality(dir[f]) < exporter.limits[f] => dir[f] = LinesOf(1..exporter.held)[f]
=============================================================================
