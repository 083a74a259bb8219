------------------------------ MODULE RawSync -------------------------------
(***************************************************************************)
(* Copying a database with hotstore-admin export-raw and import-raw        *)
(* (crates/hotstore-admin/src/raw_sync.rs): the exporter writes a header   *)
(* and the rows, column family by column family in key order, to a file or *)
(* a pipe; the importer checks its target, reads the header and the rows,  *)
(* and writes them in batches of --batch-rows.  Either may fail or be      *)
(* killed at any step, and the pair may be run again.                      *)
(*                                                                         *)
(* The stream is a sequence of units: Header, the number of a row, or Torn *)
(* for the part of a unit a dead exporter left.  It has no end mark: its   *)
(* end is where the importer finds nothing more and no writer.  A file is  *)
(* a stream whose reader starts after its writer has ended.                *)
(***************************************************************************)
EXTENDS Integers, Sequences

CONSTANTS
  Source,     \* the rows of the source database in the order they are
              \* exported: a sequence of records [at, value], at being
              \* <<column family, key>>, no two alike
  Targets,    \* what the target may hold at first: functions from at to value
  BatchRows,  \* --batch-rows
  PipeSize,   \* units the stream holds before its writer waits
  MaxRuns     \* bound on the number of runs

Header == 0
Torn == -1

ASSUME RawSyncAssumption ==
  /\ Source \in Seq({Source[i] : i \in DOMAIN Source})
  /\ \A t \in Targets : t = [a \in DOMAIN t |-> t[a]]
  /\ \A i, j \in DOMAIN Source : Source[i].at = Source[j].at => i = j
  /\ BatchRows \in Nat \ {0}
  /\ PipeSize \in Nat \ {0}
  /\ MaxRuns \in Nat \ {0}

VARIABLES
  exporter,  \* the step the exporter is at
  written,   \* rows it has written
  stream,    \* units written and not yet read
  importer,  \* the step the importer is at
  allow,     \* its --allow-existing
  read,      \* rows its report has recorded
  batch,     \* rows read and not yet written
  target,    \* durable: the rows of the target database
  created,   \* durable: its directory has files
  before,    \* history: target when this run began
  runs       \* runs so far

exporterVars == <<exporter, written>>
importerVars == <<importer, allow, read, batch, target, created>>
vars == <<exporterVars, stream, importerVars, before, runs>>

Rows == DOMAIN Source

TypeOK ==
  /\ exporter \in {"header", "rows", "ok", "failed"}
  /\ written \in 0..Len(Source)
  /\ stream \in Seq(Rows \cup {Header, Torn})
  /\ importer \in {"start", "header", "rows", "final", "report", "ok", "failed"}
  /\ allow \in BOOLEAN
  /\ read \in 0..written
  /\ batch \in Seq(Rows) /\ Len(batch) <= BatchRows
  /\ created \in BOOLEAN
  /\ runs \in 1..MaxRuns

Init ==
  /\ exporter = "header"
  /\ written = 0
  /\ stream = <<>>
  /\ importer = "start"
  /\ allow \in BOOLEAN
  /\ read = 0
  /\ batch = <<>>
  /\ target \in Targets
  /\ created = (DOMAIN target # {})
  /\ before = target
  /\ runs = 1

-----------------------------------------------------------------------------
(* The exporter.                                                           *)
ExporterEnded == exporter \in {"ok", "failed"}
Room == Len(stream) < PipeSize

WriteHeader ==
  /\ exporter = "header"
  /\ Room
  /\ stream' = Append(stream, Header)
  /\ exporter' = "rows"
  /\ UNCHANGED <<written, importerVars, before, runs>>

WriteRow ==
  /\ exporter = "rows"
  /\ written < Len(Source)
  /\ Room
  /\ stream' = Append(stream, written + 1)
  /\ written' = written + 1
  /\ UNCHANGED <<exporter, importerVars, before, runs>>

ExportDone ==
  /\ exporter = "rows"
  /\ written = Len(Source)
  /\ exporter' = "ok"
  /\ UNCHANGED <<written, stream, importerVars, before, runs>>

(* An unreadable row, a missing column family, a reader that is gone, or a *)
(* kill.  What was written stays, up to a unit's end or not.               *)
ExportFails ==
  /\ ~ExporterEnded
  /\ exporter' = "failed"
  /\ stream' \in {stream, Append(stream, Torn)}
  /\ UNCHANGED <<written, importerVars, before, runs>>

-----------------------------------------------------------------------------
(* The importer.                                                           *)
ImporterEnded == importer \in {"ok", "failed"}
Closed == stream = <<>> /\ ExporterEnded
NextIs(units) == stream # <<>> /\ Head(stream) \in units

Write(rows) ==
  target' = [a \in DOMAIN target \cup {Source[rows[i]].at : i \in DOMAIN rows} |->
               IF \E i \in DOMAIN rows : Source[rows[i]].at = a
               THEN Source[rows[CHOOSE i \in DOMAIN rows : Source[rows[i]].at = a]].value
               ELSE target[a]]

Refused_Never == FALSE

(* ensure_import_target *)
Refused == created /\ ~allow

EnsureTarget ==
  /\ importer = "start"
  /\ importer' = IF Refused THEN "failed" ELSE "header"
  /\ UNCHANGED <<exporterVars, stream, allow, read, batch, target, created, before, runs>>

(* The header is right, and the target is opened, which creates it.        *)
ReadHeader ==
  /\ importer = "header"
  /\ NextIs({Header})
  /\ stream' = Tail(stream)
  /\ created' = TRUE
  /\ importer' = "rows"
  /\ UNCHANGED <<exporterVars, allow, read, batch, target, before, runs>>

Full_Late == Len(batch) > BatchRows

Full == Len(batch) >= BatchRows

ReadRow ==
  /\ importer = "rows"
  /\ ~Full
  /\ NextIs(Rows)
  /\ stream' = Tail(stream)
  /\ read' = read + 1
  /\ batch' = Append(batch, Head(stream))
  /\ UNCHANGED <<exporterVars, importer, allow, target, created, before, runs>>

WriteFull ==
  /\ importer = "rows"
  /\ Full
  /\ Write(batch)
  /\ batch' = <<>>
  /\ UNCHANGED <<exporterVars, stream, importer, allow, read, created, before, runs>>

AtEnd_NoData == stream = <<>>

AtEnd_WriterOk == stream = <<>> /\ exporter = "ok"

(* read returns 0 where a row would begin.                                 *)
AtEnd == Closed

ReadEnd ==
  /\ importer = "rows"
  /\ ~Full
  /\ AtEnd
  /\ importer' = "final"
  /\ UNCHANGED <<exporterVars, stream, allow, read, batch, target, created, before, runs>>

FlushRest_Drop == target' = target

FlushRest == Write(batch)

(* The last batch is durable before the import can end well.               *)
WriteRest ==
  /\ importer = "final"
  /\ FlushRest
  /\ batch' = <<>>
  /\ importer' = "report"
  /\ UNCHANGED <<exporterVars, stream, allow, read, created, before, runs>>

(* Compaction and the report, neither of which writes a row.               *)
ImportDone ==
  /\ importer = "report"
  /\ importer' = "ok"
  /\ UNCHANGED <<exporterVars, stream, allow, read, batch, target, created, before, runs>>

(* The stream ends within a unit or before its header, a write, the        *)
(* compaction or the report fails, or a kill at any step.                  *)
ImportFails ==
  /\ ~ImporterEnded
  /\ importer' = "failed"
  /\ batch' = <<>>
  /\ UNCHANGED <<exporterVars, stream, allow, read, target, created, before, runs>>

RunAgain ==
  /\ ExporterEnded /\ ImporterEnded
  /\ runs < MaxRuns
  /\ runs' = runs + 1
  /\ exporter' = "header"
  /\ written' = 0
  /\ stream' = <<>>
  /\ importer' = "start"
  /\ allow' \in BOOLEAN
  /\ read' = 0
  /\ batch' = <<>>
  /\ before' = target
  /\ UNCHANGED <<target, created>>

Exporting == WriteHeader \/ WriteRow \/ ExportDone
Importing ==
  \/ EnsureTarget
  \/ ReadHeader
  \/ ReadRow
  \/ WriteFull
  \/ ReadEnd
  \/ WriteRest
  \/ ImportDone

Next ==
  \/ Exporting
  \/ ExportFails
  \/ Importing
  \/ ImportFails
  \/ RunAgain

Spec == Init /\ [][Next]_vars

(* A process that was not killed goes on, and one that cannot fails: the   *)
(* exporter when nobody reads, the importer when the stream is broken.     *)
StuckExporter == ImporterEnded /\ ExportFails
StuckImporter ==
  /\ \/ importer = "header" /\ (Closed \/ NextIs(Rows \cup {Torn}))
     \/ importer = "rows" /\ NextIs({Torn})
  /\ ImportFails

FairSpec ==
  /\ Spec
  /\ WF_vars(Exporting \/ StuckExporter)
  /\ WF_vars(Importing \/ StuckImporter)

-----------------------------------------------------------------------------
(* Properties.                                                             *)

Holds(i) == Source[i].at \in DOMAIN target /\ target[Source[i].at] = Source[i].value

(* An import that ends well has written what its report counts, and with   *)
(* an export that ended well too the target has every row of the source,   *)
(* whatever earlier runs left in it.                                       *)
ImportedIsReported ==
  importer = "ok" =>
    /\ \A i \in 1..read : Holds(i)
    /\ exporter = "ok" => read = Len(Source)

(* The stream has no end mark, so an import can end well short of the      *)
(* source; it does so only after an export that failed.                    *)
ShortImportTold == importer = "ok" /\ read < Len(Source) => exporter = "failed"

(* A run without --allow-existing changes nothing unless the target was    *)
(* empty, and then it holds the source's rows and no others.               *)
NoMixture ==
  ~allow /\ target # before =>
    /\ before = [a \in {} |-> 0]
    /\ \A a \in DOMAIN target : \E i \in Rows : Source[i].at = a /\ Holds(i)

(* The target with the first n rows of the source written over what it     *)
(* held when the run began.                                                *)
WithFirst(n) ==
  [a \in DOMAIN before \cup {Source[i].at : i \in 1..n} |->
     IF \E i \in 1..n : Source[i].at = a
     THEN Source[CHOOSE i \in 1..n : Source[i].at = a].value
     ELSE before[a]]

(* Wherever an import stops, in its compaction or its report too, the      *)
(* target holds a prefix of the source over what it held before, short of  *)
(* the rows read by one batch at most.  A batch is never split: the prefix *)
(* is of whole ones, or it is all an exporter that has ended wrote.        *)
WholeBatches ==
  \E n \in 0..read :
    /\ target = WithFirst(n)
    /\ read - n <= BatchRows
    /\ n % BatchRows = 0 \/ (ExporterEnded /\ n = written)

(* Neither process waits for the other for ever. *)
BothEnd == <>(ExporterEnded /\ ImporterEnded)
=============================================================================
