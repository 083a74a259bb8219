--------------------------- MODULE RawSyncProofs ----------------------------
(***************************************************************************)
(* Copying a database keeps its promises for every source, every target,   *)
(* every batch and pipe size and every number of runs, whichever process   *)
(* fails and wherever: the target never holds anything but a prefix of the *)
(* source over what it held before.                                        *)
(***************************************************************************)
EXTENDS RawSync, SequenceTheorems, TLAPS

Unread == {"start", "header"}
IsTable(t) == t = [a \in DOMAIN t |-> t[a]]

(* What the exporter wrote and nobody read: the rows after those read, in  *)
(* their order, after the header if that is unread too; a torn unit only   *)
(* at the end of what a dead exporter left.  The importer that failed      *)
(* stopped reading anywhere.                                               *)
Skipped == IF importer \in Unread THEN 1 ELSE 0
StreamInv ==
  /\ exporter = "header" => written = 0 /\ (importer # "failed" => stream = <<>>)
  /\ exporter = "ok" => written = Len(Source)
  /\ importer \in Unread => read = 0
  /\ importer = "rows" => exporter # "header"
  /\ importer \in Unread \cup {"rows"} =>
       /\ \A i \in 1..Len(stream) :
            \/ stream[i] = Torn /\ i = Len(stream) /\ exporter = "failed"
            \/ stream[i] = read + i - Skipped /\ i <= written - read + Skipped
       /\ exporter \in {"rows", "ok"} => Len(stream) = written - read + Skipped
       /\ exporter = "failed" =>
            Len(stream) >= written - read + Skipped \/ (written = 0 /\ importer \in Unread)
  /\ importer \in {"final", "report", "ok"} => ExporterEnded /\ read = written

(* The importer's batch: the rows read last, and the target all before.    *)
Flushed == read - Len(batch)
BatchInv ==
  /\ importer \notin {"rows", "final"} => batch = <<>>
  /\ importer \in Unread => target = before
  /\ importer \in {"rows", "final"} =>
       /\ Flushed \in 0..read
       /\ \A i \in 1..Len(batch) : batch[i] = Flushed + i
       /\ target = WithFirst(Flushed)
       /\ Flushed % BatchRows = 0
  /\ importer \in {"report", "ok"} => target = WithFirst(read)

(* The target the importer opened was empty or allowed to be anything.     *)
OpenInv ==
  /\ IsTable(target) /\ IsTable(before)
  /\ ~created => DOMAIN target = {}
  /\ importer \in {"rows", "final", "report", "ok"} => created
  /\ importer \notin {"start", "failed"} => allow \/ DOMAIN before = {}
  /\ importer = "failed" /\ target # before => allow \/ DOMAIN before = {}

IInv == TypeOK /\ StreamInv /\ BatchInv /\ OpenInv /\ WholeBatches

-----------------------------------------------------------------------------
(* Lemmas on the rows, and on the target after the first n of them.        *)

LEMMA SourceFacts ==
  /\ Len(Source) \in Nat /\ Rows = 1..Len(Source)
  /\ BatchRows \in Nat \ {0}
  /\ Header \notin Rows /\ Torn \notin Rows /\ Header # Torn
<1>1. Len(Source) \in Nat /\ DOMAIN Source = 1..Len(Source)
  BY RawSyncAssumption DEF RawSyncAssumption
<1> QED
  BY <1>1, RawSyncAssumption DEF RawSyncAssumption, Rows, Header, Torn

(* No two rows have the same place, so each of the first n is written as   *)
(* it is, and what is elsewhere stays.                                     *)
LEMMA WithFirstIs ==
  ASSUME NEW n \in 0..Len(Source)
  PROVE  /\ DOMAIN WithFirst(n) = DOMAIN before \cup {Source[i].at : i \in 1..n}
         /\ IsTable(WithFirst(n))
         /\ \A i \in 1..n : WithFirst(n)[Source[i].at] = Source[i].value
         /\ \A a \in DOMAIN before :
              (\A i \in 1..n : Source[i].at # a) => WithFirst(n)[a] = before[a]
<1>1. \A i, j \in 1..n : Source[i].at = Source[j].at => i = j
  <2>1. 1..n \subseteq DOMAIN Source
    BY SourceFacts DEF Rows
  <2> QED
    BY <2>1, RawSyncAssumption DEF RawSyncAssumption
<1>2. ASSUME NEW i \in 1..n
      PROVE  (CHOOSE j \in 1..n : Source[j].at = Source[i].at) = i
  BY <1>1, <1>2
<1>3. \A i \in 1..n : WithFirst(n)[Source[i].at] = Source[i].value
  BY <1>2 DEF WithFirst
<1> QED
  BY <1>3 DEF WithFirst, IsTable

(* Writing the rows after the first n makes the target one of the first m. *)
LEMMA WriteIs ==
  ASSUME NEW n \in 0..Len(Source), NEW m \in n..Len(Source), NEW rows \in Seq(Rows),
         Len(rows) = m - n, \A i \in 1..Len(rows) : rows[i] = n + i,
         target = WithFirst(n), Write(rows), UNCHANGED before
  PROVE  target' = WithFirst(m) /\ IsTable(target')
<1>1. Len(rows) \in Nat /\ DOMAIN rows = 1..Len(rows) /\ m \in 0..Len(Source)
  BY SourceFacts
<1>2. \A i \in 1..m : i \in 1..n \/ (i - n \in DOMAIN rows /\ rows[i - n] = i)
  BY <1>1
<1>3. \A j \in DOMAIN rows : rows[j] \in 1..m /\ rows[j] = n + j /\ rows[j] \in Rows
  BY <1>1, SourceFacts
<1>4. 1..m \subseteq Rows /\ 1..n \subseteq 1..m
  BY SourceFacts
<1>5. \A i, j \in Rows : Source[i].at = Source[j].at => i = j
  BY RawSyncAssumption DEF RawSyncAssumption, Rows
<1>6. DOMAIN target' = DOMAIN WithFirst(m)
  <2>1. DOMAIN target' = DOMAIN target \cup {Source[rows[i]].at : i \in DOMAIN rows}
    BY DEF Write
  <2>2. {Source[i].at : i \in 1..m} =
          {Source[i].at : i \in 1..n} \cup {Source[rows[i]].at : i \in DOMAIN rows}
    BY <1>2, <1>3, <1>4
  <2> QED
    BY <1>1, <2>1, <2>2, WithFirstIs
<1>7. ASSUME NEW a \in DOMAIN target'
      PROVE  target'[a] = WithFirst(m)[a]
  <2>1. CASE \E j \in DOMAIN rows : Source[rows[j]].at = a
    <3>1. PICK j \in DOMAIN rows : Source[rows[j]].at = a
      BY <2>1
    <3>2. (CHOOSE k \in DOMAIN rows : Source[rows[k]].at = a) = j
      <4>1. \A k \in DOMAIN rows : Source[rows[k]].at = a => rows[k] = rows[j]
        BY <1>3, <1>5, <3>1
      <4>2. \A k \in DOMAIN rows : Source[rows[k]].at = a => k = j
        BY <1>1, <1>3, <3>1, <4>1
      <4> QED
        BY <3>1, <4>2
    <3>3. target'[a] = Source[rows[j]].value
      BY <1>7, <2>1, <3>2 DEF Write
    <3> QED
      BY <1>1, <1>3, <3>1, <3>3, WithFirstIs
  <2>2. CASE \A j \in DOMAIN rows : Source[rows[j]].at # a
    <3>1. target'[a] = target[a] /\ a \in DOMAIN target
      BY <1>7, <2>2 DEF Write
    <3>2. CASE \E i \in 1..n : Source[i].at = a
      BY <1>1, <1>4, <3>1, <3>2, WithFirstIs
    <3>3. CASE \A i \in 1..n : Source[i].at # a
      <4>1. \A i \in 1..m : Source[i].at # a
        BY <1>2, <2>2, <3>3
      <4>2. a \in DOMAIN before
        <5>1. a \in DOMAIN before \cup {Source[i].at : i \in 1..n}
          BY <3>1, WithFirstIs
        <5> QED
          BY <3>3, <5>1
      <4> QED
        BY <1>1, <3>1, <3>3, <4>1, <4>2, WithFirstIs
    <3> QED
      BY <3>2, <3>3
  <2> QED
    BY <2>1, <2>2
<1>8. IsTable(target')
  BY DEF Write, IsTable
<1>9. IsTable(WithFirst(m))
  BY <1>1, WithFirstIs
<1> QED
  BY <1>6, <1>7, <1>8, <1>9 DEF IsTable

(* Nothing read, nothing written.                                          *)
LEMMA WithNone ==
  ASSUME IsTable(before)
  PROVE  before = WithFirst(0)
<1>1. 0 \in 0..Len(Source) /\ 1..0 = {}
  BY SourceFacts
<1>2. DOMAIN WithFirst(0) = DOMAIN before /\ IsTable(WithFirst(0))
  BY <1>1, WithFirstIs
<1>3. \A a \in DOMAIN before : WithFirst(0)[a] = before[a]
  BY <1>1, WithFirstIs
<1> QED
  BY <1>2, <1>3 DEF IsTable

(* Whole batches.                                                          *)
LEMMA WholeZero == 0 % BatchRows = 0
BY SourceFacts

LEMMA WholeNext ==
  ASSUME NEW n \in Nat, n % BatchRows = 0
  PROVE  (n + BatchRows) % BatchRows = 0
<1> DEFINE B == BatchRows
<1>1. B \in Nat \ {0}
  BY SourceFacts
<1> HIDE DEF B
<1>2. PICK q \in Nat : n = B * q
  <2>1. n % B = 0
    BY DEF B
  <2> QED
    BY <1>1, <2>1, SMTT(30)
<1>3. n + B = B * (q + 1) /\ q + 1 \in Nat
  BY <1>1, <1>2
<1>4. (B * (q + 1)) % B = 0
  BY <1>1, <1>3
<1> QED
  BY <1>3, <1>4 DEF B

(* While the importer goes on, and when it ended well, what is written is  *)
(* what was read without the batch it holds.  What an import that failed   *)
(* left is what it held before it did.                                     *)
LEMMA WholeNow ==
  ASSUME TypeOK, StreamInv, BatchInv, OpenInv, importer # "failed"
  PROVE  WholeBatches
<1>1. read \in Nat /\ written \in Nat /\ Len(batch) \in Nat /\ Len(batch) <= BatchRows
  BY SourceFacts, LenProperties DEF TypeOK
<1>2. CASE importer \in Unread
  <2>1. read = 0 /\ target = WithFirst(0)
    BY <1>2, WithNone DEF StreamInv, BatchInv, OpenInv
  <2> QED
    BY <2>1, WholeZero, SourceFacts DEF WholeBatches
<1>3. CASE importer \in {"rows", "final"}
  <2>1. Flushed \in 0..read /\ target = WithFirst(Flushed) /\ Flushed % BatchRows = 0
    BY <1>3 DEF BatchInv
  <2>2. read - Flushed = Len(batch)
    BY <1>1 DEF Flushed
  <2> QED
    BY <1>1, <2>1, <2>2 DEF WholeBatches
<1>4. CASE importer \in {"report", "ok"}
  <2>1. target = WithFirst(read) /\ ExporterEnded /\ read = written
    BY <1>4 DEF StreamInv, BatchInv
  <2>2. read \in 0..read /\ read - read <= BatchRows
    BY <1>1, SourceFacts
  <2> QED
    BY <2>1, <2>2 DEF WholeBatches
<1> QED
  BY <1>2, <1>3, <1>4 DEF TypeOK, Unread

LEMMA WholeThen ==
  (TypeOK /\ StreamInv /\ BatchInv /\ OpenInv /\ importer # "failed" => WholeBatches)'
BY WholeNow, PTL

-----------------------------------------------------------------------------
(* One lemma per action: it keeps the inductive invariant.                 *)
Units == Rows \cup {Header, Torn}

LEMMA InvInit == Init => IInv
<1> SUFFICES ASSUME Init PROVE IInv
  OBVIOUS
<1>1. IsTable(before) /\ IsTable(target)
  BY RawSyncAssumption DEF Init, RawSyncAssumption, IsTable
<1>3. TypeOK
  <2>1. runs \in 1..MaxRuns
    BY RawSyncAssumption DEF Init, RawSyncAssumption
  <2>2. stream \in Seq(Units) /\ batch \in Seq(Rows) /\ Len(batch) = 0
    BY EmptySeq DEF Init
  <2>3. allow \in BOOLEAN /\ created \in BOOLEAN
    BY DEF Init
  <2> QED
    BY <2>1, <2>2, <2>3, SourceFacts DEF Init, TypeOK, Units
<1>4. StreamInv
  BY SourceFacts DEF Init, StreamInv, Unread
<1>5. BatchInv /\ OpenInv
  BY <1>1 DEF Init, BatchInv, OpenInv, Unread
<1>6. WholeBatches
  BY <1>3, <1>4, <1>5, WholeNow DEF Init
<1> QED
  BY <1>3, <1>4, <1>5, <1>6 DEF IInv

(* The exporter's steps leave what is said of the importer and its target. *)
LEMMA TargetKept ==
  ASSUME IInv, UNCHANGED <<importerVars, before>>,
         ExporterEnded => UNCHANGED <<exporter, written>>
  PROVE  BatchInv' /\ OpenInv' /\ WholeBatches'
<1>1. UNCHANGED <<importer, allow, read, batch, target, created, before>>
  BY DEF importerVars
<1>2. \A n : WithFirst(n)' = WithFirst(n)
  BY <1>1 DEF WithFirst
<1>3. target' = target /\ read' = read
  BY <1>1
<1>4. WholeBatches'
  <2>1. PICK n \in 0..read : /\ target = WithFirst(n)
                             /\ read - n <= BatchRows
                             /\ n % BatchRows = 0 \/ (ExporterEnded /\ n = written)
    BY DEF IInv, WholeBatches
  <2>2. n \in 0..read' /\ read' - n <= BatchRows
    BY <1>3, <2>1
  <2>3. n % BatchRows = 0 \/ (ExporterEnded' /\ n = written')
    BY <2>1 DEF ExporterEnded
  <2>4. target' = WithFirst(n)'
    BY <1>2, <1>3, <2>1
  <2> QED
    BY <2>2, <2>3, <2>4 DEF WholeBatches
<1> QED
  BY <1>1, <1>2, <1>4 DEF IInv, BatchInv, OpenInv, Flushed, IsTable

LEMMA InvWriteHeader ==
  ASSUME IInv, WriteHeader
  PROVE  IInv'
<1>1. exporter = "header" /\ ~ExporterEnded /\ exporter' = "rows"
      /\ stream' = Append(stream, Header)
      /\ UNCHANGED <<written, importerVars, before, runs>>
      /\ UNCHANGED <<importer, allow, read, batch, created>>
  BY DEF WriteHeader, importerVars, ExporterEnded
<1>2. stream' \in Seq(Units)
  BY <1>1 DEF IInv, TypeOK, Units
<1>3. TypeOK'
  BY <1>1, <1>2 DEF IInv, TypeOK, Units
<1>4. CASE importer = "failed"
  BY <1>1, <1>4, TargetKept, <1>3, SourceFacts DEF IInv, StreamInv, Unread
<1>5. CASE importer # "failed"
  <2>1. written = 0 /\ stream = <<>> /\ read = 0
    BY <1>1, <1>5, SourceFacts DEF IInv, StreamInv, TypeOK
  <2>2. stream' = <<Header>>
    BY <1>1, <2>1
  <2>3. importer \in Unread
    BY <1>1, <1>5 DEF IInv, StreamInv, TypeOK, Unread, ExporterEnded
  <2>4. StreamInv'
    BY <1>1, <2>1, <2>2, <2>3, SourceFacts DEF IInv, StreamInv, Unread, Skipped, Header
  <2> QED
    BY <1>1, <1>3, <2>4, TargetKept DEF IInv
<1> QED
  BY <1>4, <1>5

LEMMA InvWriteRow ==
  ASSUME IInv, WriteRow
  PROVE  IInv'
<1>1. exporter = "rows" /\ ~ExporterEnded /\ written < Len(Source) /\ written' = written + 1
      /\ stream' = Append(stream, written + 1)
      /\ UNCHANGED <<exporter, importerVars, before, runs>>
      /\ UNCHANGED <<importer, allow, read, batch, created>>
  BY DEF WriteRow, importerVars, ExporterEnded
<1>2. written \in Nat /\ read \in 0..written /\ written + 1 \in Rows /\ stream \in Seq(Units)
  BY <1>1, SourceFacts DEF IInv, TypeOK, Units
<1>3. stream' \in Seq(Units) /\ Len(stream') = Len(stream) + 1 /\ Len(stream) \in Nat
      /\ stream'[Len(stream) + 1] = written + 1
      /\ \A i \in 1..Len(stream) : stream'[i] = stream[i]
  <2>1. written + 1 \in Units
    BY <1>2 DEF Units
  <2> QED
    BY <1>1, <1>2, <2>1, AppendProperties, LenProperties
<1>4. TypeOK'
  BY <1>1, <1>2, <1>3, SourceFacts DEF IInv, TypeOK, Units
<1>5. StreamInv'
  <2>1. CASE importer \in Unread \cup {"rows"}
    <3> DEFINE k == Skipped
    <3>1. k \in {0, 1} /\ Skipped' = k
      BY <1>1 DEF Skipped
    <3>2. Len(stream) = written - read + k
          /\ \A i \in 1..Len(stream) : stream[i] = read + i - k /\ i <= written - read + k
      BY <1>1, <2>1 DEF IInv, StreamInv
    <3> HIDE DEF k
    <3>3. Len(stream') = written' - read' + k
          /\ \A i \in 1..Len(stream') : stream'[i] = read' + i - k /\ i <= written' - read' + k
      BY <1>1, <1>2, <1>3, <3>1, <3>2
    <3> QED
      BY <1>1, <2>1, <3>1, <3>3 DEF IInv, StreamInv, Unread
  <2>2. CASE importer \notin Unread \cup {"rows"}
    BY <1>1, <2>2 DEF IInv, StreamInv, ExporterEnded, Unread
  <2> QED
    BY <2>1, <2>2
<1> QED
  BY <1>1, <1>4, <1>5, TargetKept DEF IInv

LEMMA InvExportDone ==
  ASSUME IInv, ExportDone
  PROVE  IInv'
<1>1. exporter = "rows" /\ ~ExporterEnded /\ exporter' = "ok" /\ written = Len(Source)
      /\ UNCHANGED <<written, stream, importerVars, before, runs>>
      /\ UNCHANGED <<importer, allow, read, batch, created>>
  BY DEF ExportDone, importerVars, ExporterEnded
<1>2. TypeOK' /\ StreamInv'
  BY <1>1 DEF IInv, TypeOK, StreamInv, Skipped, ExporterEnded
<1> QED
  BY <1>1, <1>2, TargetKept DEF IInv

LEMMA InvExportFails ==
  ASSUME IInv, ExportFails
  PROVE  IInv'
<1>1. exporter \in {"header", "rows"} /\ ~ExporterEnded /\ exporter' = "failed"
      /\ stream' \in {stream, Append(stream, Torn)}
      /\ UNCHANGED <<written, importerVars, before, runs>>
      /\ UNCHANGED <<importer, allow, read, batch, created>>
  BY DEF ExportFails, ExporterEnded, importerVars, IInv, TypeOK
<1>2. stream \in Seq(Units) /\ Torn \in Units /\ Len(stream) \in Nat
  BY LenProperties DEF IInv, TypeOK, Units
<1>3. \/ stream' = stream
      \/ /\ stream' \in Seq(Units) /\ Len(stream') = Len(stream) + 1
         /\ stream'[Len(stream) + 1] = Torn
         /\ \A i \in 1..Len(stream) : stream'[i] = stream[i]
  BY <1>1, <1>2, AppendProperties
<1>4. TypeOK'
  BY <1>1, <1>2, <1>3 DEF IInv, TypeOK, Units
<1>5. StreamInv'
  <2>1. CASE importer \in Unread \cup {"rows"}
    <3> DEFINE k == Skipped
    <3>1. k \in {0, 1} /\ Skipped' = k /\ (k = 1 <=> importer \in Unread)
      BY <1>1 DEF Skipped
    <3>2. written \in Nat /\ read \in Nat /\ read <= written
      BY SourceFacts DEF IInv, TypeOK
    <3>3. \A i \in 1..Len(stream) : stream[i] = read + i - k /\ i <= written - read + k
      BY <1>1, <2>1 DEF IInv, StreamInv
    <3>4. Len(stream) >= written - read + k \/ (written = 0 /\ importer \in Unread)
      BY <1>1, <1>2, <2>1, <3>1, <3>2 DEF IInv, StreamInv, Unread
    <3> HIDE DEF k
    <3>5. \A i \in 1..Len(stream') :
            \/ stream'[i] = Torn /\ i = Len(stream')
            \/ stream'[i] = read + i - k /\ i <= written - read + k
      BY <1>2, <1>3, <3>1, <3>2, <3>3
    <3>6. Len(stream') >= Len(stream) /\ Len(stream') \in Nat
      BY <1>2, <1>3
    <3>7. Len(stream') >= written - read + k \/ (written = 0 /\ importer \in Unread)
      BY <1>2, <3>1, <3>2, <3>4, <3>6
    <3> QED
      BY <1>1, <2>1, <3>1, <3>5, <3>7 DEF IInv, StreamInv, Unread
  <2>2. CASE importer \notin Unread \cup {"rows"}
    BY <1>1, <2>2 DEF IInv, StreamInv, ExporterEnded, Unread
  <2> QED
    BY <2>1, <2>2
<1> QED
  BY <1>1, <1>4, <1>5, TargetKept DEF IInv

LEMMA InvEnsureTarget ==
  ASSUME IInv, EnsureTarget
  PROVE  IInv'
<1>1. importer = "start" /\ importer' = (IF Refused THEN "failed" ELSE "header")
      /\ UNCHANGED <<exporter, written, stream, allow, read, batch, target, created, before, runs>>
  BY DEF EnsureTarget, exporterVars
<1>2. \A n : WithFirst(n)' = WithFirst(n)
  BY <1>1 DEF WithFirst
<1>3. TypeOK' /\ BatchInv'
  BY <1>1 DEF IInv, TypeOK, BatchInv, Unread
<1>4. StreamInv'
  BY <1>1 DEF IInv, StreamInv, Unread, Skipped, ExporterEnded
<1>5. OpenInv'
  <2>1. ~Refused => allow \/ DOMAIN before = {}
    BY <1>1 DEF Refused, IInv, OpenInv, BatchInv, Unread, TypeOK
  <2>2. target = before
    BY <1>1 DEF IInv, BatchInv, Unread
  <2> QED
    BY <1>1, <2>1, <2>2 DEF IInv, OpenInv, IsTable
<1>6. WholeBatches'
  BY <1>1, <1>2 DEF IInv, WholeBatches, ExporterEnded
<1> QED
  BY <1>3, <1>4, <1>5, <1>6 DEF IInv

LEMMA InvReadHeader ==
  ASSUME IInv, ReadHeader
  PROVE  IInv'
<1>1. importer = "header" /\ importer' = "rows" /\ stream # <<>> /\ Head(stream) = Header
      /\ stream' = Tail(stream) /\ created' = TRUE
      /\ UNCHANGED <<exporter, written, allow, read, batch, target, before, runs>>
  BY DEF ReadHeader, NextIs, exporterVars
<1>2. \A n : WithFirst(n)' = WithFirst(n)
  BY <1>1 DEF WithFirst
<1>3. stream \in Seq(Units) /\ Len(stream) \in Nat /\ stream[1] = Header /\ Len(stream) > 0
  BY <1>1 DEF IInv, TypeOK, Units
<1>4. stream' \in Seq(Units) /\ Len(stream') = Len(stream) - 1
      /\ \A i \in 1..Len(stream') : stream'[i] = stream[i + 1]
  BY <1>1, <1>3, HeadTailProperties
<1>5. TypeOK'
  BY <1>1, <1>4 DEF IInv, TypeOK, Units
<1>6. read = 0 /\ batch = <<>> /\ target = before
  BY <1>1 DEF IInv, StreamInv, BatchInv, Unread
<1>7. exporter # "header"
  BY <1>1 DEF IInv, StreamInv
<1>8. StreamInv'
  <2>1. written \in Nat /\ Skipped = 1 /\ Skipped' = 0
    BY <1>1, SourceFacts DEF IInv, TypeOK, Skipped, Unread
  <2>2. \A i \in 1..Len(stream) :
          \/ stream[i] = Torn /\ i = Len(stream) /\ exporter = "failed"
          \/ stream[i] = i - 1 /\ i <= written + 1
    BY <1>1, <1>6, <2>1 DEF IInv, StreamInv, Unread
  <2>3. \A i \in 1..Len(stream') :
          \/ stream'[i] = Torn /\ i = Len(stream') /\ exporter = "failed"
          \/ stream'[i] = i /\ i <= written
    <3>1. \A i \in 1..Len(stream') : i + 1 \in 1..Len(stream)
      BY <1>3, <1>4
    <3> QED
      BY <1>3, <1>4, <2>1, <2>2, <3>1
  <2>4. /\ exporter \in {"rows", "ok"} => Len(stream) = written - read + Skipped
        /\ exporter = "failed" => Len(stream) >= written - read + Skipped \/ written = 0
        /\ exporter = "ok" => written = Len(Source)
    BY <1>1 DEF IInv, StreamInv, Unread
  <2>5. /\ exporter \in {"rows", "ok"} => Len(stream') = written - read' + Skipped'
        /\ exporter = "failed" => Len(stream') >= written - read' + Skipped'
    <3>1. Len(stream) \in Nat /\ Len(stream) > 0 /\ Len(stream') = Len(stream) - 1
      BY <1>3, <1>4
    <3>2. read = 0 /\ read' = 0
      BY <1>1, <1>6
    <3> QED
      BY <2>1, <2>4, <3>1, <3>2
  <2>6. \A i \in 1..Len(stream') :
          \/ stream'[i] = Torn /\ i = Len(stream') /\ exporter = "failed"
          \/ stream'[i] = read' + i - Skipped' /\ i <= written - read' + Skipped'
    <3>1. read' = 0
      BY <1>1, <1>6
    <3>2. \A i \in 1..Len(stream') : i \in Int
      OBVIOUS
    <3>3. \A i \in Int : read' + i - Skipped' = i
      BY <2>1, <3>1
    <3>4. written - read' + Skipped' = written
      BY <2>1, <3>1
    <3> QED
      BY <2>3, <3>2, <3>3, <3>4
  <2> QED
    BY <1>1, <1>7, <2>4, <2>5, <2>6 DEF StreamInv, Unread
<1>9. BatchInv'
  <2>1. Len(batch) = 0 /\ Flushed' = 0
    <3>1. Len(batch) = 0
      BY <1>6, EmptySeq
    <3>2. read' = 0 /\ Len(batch') = 0
      BY <1>1, <1>6, <3>1
    <3>3. Flushed' = read' - Len(batch')
      BY DEF Flushed
    <3> QED
      BY <3>1, <3>2, <3>3
  <2>2. target = WithFirst(0)
    BY <1>6, WithNone DEF IInv, OpenInv
  <2> QED
    BY <1>1, <1>2, <1>6, <2>1, <2>2, WholeZero DEF BatchInv, Unread
<1>10. OpenInv'
  BY <1>1 DEF IInv, OpenInv, IsTable
<1> QED
  BY <1>1, <1>5, <1>8, <1>9, <1>10, WholeThen DEF IInv

(* The next row is the one after those read.                               *)
LEMMA NextRow ==
  ASSUME IInv, importer = "rows", NextIs(Rows)
  PROVE  /\ Head(stream) = read + 1 /\ read + 1 \in Rows /\ read + 1 <= written
         /\ Tail(stream) \in Seq(Units) /\ Len(Tail(stream)) = Len(stream) - 1
         /\ \A i \in 1..Len(Tail(stream)) :
              Tail(stream)[i] = stream[i + 1] /\ i + 1 \in 1..Len(stream)
         /\ Len(stream) \in Nat
<1>1. stream \in Seq(Units) /\ stream # <<>> /\ Head(stream) \in Rows
  BY DEF NextIs, IInv, TypeOK, Units
<1>2. Len(stream) \in Nat /\ Len(stream) > 0 /\ Head(stream) = stream[1]
  BY <1>1
<1>3. Tail(stream) \in Seq(Units) /\ Len(Tail(stream)) = Len(stream) - 1
      /\ \A i \in 1..Len(Tail(stream)) : Tail(stream)[i] = stream[i + 1]
  BY <1>1, HeadTailProperties
<1>4. read \in Nat /\ written \in Nat /\ written <= Len(Source) /\ Skipped = 0
  BY SourceFacts DEF IInv, TypeOK, Skipped, Unread
<1>5. stream[1] = read + 1 - 0 /\ 1 <= written - read + 0
  BY <1>1, <1>2, <1>4, SourceFacts DEF IInv, StreamInv
<1> QED
  BY <1>1, <1>2, <1>3, <1>4, <1>5, SourceFacts

LEMMA InvReadRow ==
  ASSUME IInv, ReadRow
  PROVE  IInv'
<1> DEFINE rows == Append(batch, Head(stream))
<1>1. importer = "rows" /\ NextIs(Rows) /\ stream' = Tail(stream) /\ read' = read + 1
      /\ batch' = rows /\ ~Full
      /\ UNCHANGED <<exporter, written, importer, allow, target, created, before, runs>>
  BY DEF ReadRow, exporterVars
<1>2. \A n : WithFirst(n)' = WithFirst(n)
  BY <1>1 DEF WithFirst
<1>3. /\ Head(stream) = read + 1 /\ read + 1 \in Rows /\ read + 1 <= written
      /\ stream' \in Seq(Units) /\ Len(stream') = Len(stream) - 1
      /\ \A i \in 1..Len(stream') : stream'[i] = stream[i + 1] /\ i + 1 \in 1..Len(stream)
      /\ Len(stream) \in Nat
  BY <1>1, NextRow
<1>4. read \in Nat /\ written \in Nat /\ written <= Len(Source) /\ Len(Source) \in Nat
      /\ batch \in Seq(Rows) /\ Len(batch) \in Nat /\ Len(batch) < BatchRows
      /\ BatchRows \in Nat
  BY <1>1, SourceFacts, LenProperties DEF IInv, TypeOK, Full
<1>5. Flushed \in Nat /\ Flushed = read - Len(batch) /\ Flushed % BatchRows = 0
      /\ target = WithFirst(Flushed) /\ \A i \in 1..Len(batch) : batch[i] = Flushed + i
  BY <1>1, <1>4 DEF IInv, BatchInv, Flushed
<1>6. /\ rows \in Seq(Rows) /\ Len(rows) = Len(batch) + 1
      /\ \A i \in 1..Len(rows) : rows[i] = Flushed + i
  <2>1. /\ rows \in Seq(Rows) /\ Len(rows) = Len(batch) + 1
        /\ \A i \in 1..Len(batch) : rows[i] = batch[i]
        /\ rows[Len(batch) + 1] = read + 1
    BY <1>3, <1>4, AppendProperties
  <2> HIDE DEF rows
  <2>2. ASSUME NEW i \in 1..Len(rows)
        PROVE  rows[i] = Flushed + i
    <3>1. CASE i \in 1..Len(batch)
      BY <1>5, <2>1, <3>1
    <3>2. CASE i = Len(batch) + 1
      BY <1>4, <1>5, <2>1, <3>2
    <3> QED
      BY <1>4, <2>1, <3>1, <3>2
  <2> QED
    BY <2>1, <2>2
<1> HIDE DEF rows
<1>7. StreamInv'
  <2>1. Skipped = 0 /\ Skipped' = 0
    BY <1>1 DEF Skipped, Unread
  <2>2. \A i \in 1..Len(stream) :
          \/ stream[i] = Torn /\ i = Len(stream) /\ exporter = "failed"
          \/ stream[i] = read + i /\ i <= written - read
    BY <1>1, <1>4, <2>1 DEF IInv, StreamInv
  <2>3. \A i \in 1..Len(stream') :
          \/ stream'[i] = Torn /\ i = Len(stream') /\ exporter = "failed"
          \/ stream'[i] = read' + i - Skipped' /\ i <= written - read' + Skipped'
    <3>1. SUFFICES ASSUME NEW i \in 1..Len(stream')
                   PROVE  \/ stream'[i] = Torn /\ i = Len(stream') /\ exporter = "failed"
                          \/ stream'[i] = read' + i - Skipped' /\ i <= written - read' + Skipped'
      OBVIOUS
    <3>2. stream'[i] = stream[i + 1] /\ i + 1 \in 1..Len(stream)
      BY <1>3
    <3>3. \/ stream[i + 1] = Torn /\ i + 1 = Len(stream) /\ exporter = "failed"
          \/ stream[i + 1] = read + (i + 1) /\ i + 1 <= written - read
      BY <2>2, <3>2
    <3>4. read' = read + 1 /\ Len(stream') = Len(stream) - 1 /\ Len(stream) \in Nat /\ i \in Nat
      BY <1>1, <1>3
    <3>5. i + 1 = Len(stream) => i = Len(stream')
      BY <3>4
    <3>6. read + (i + 1) = read' + i - Skipped'
          /\ (i + 1 <= written - read => i <= written - read' + Skipped')
      BY <1>4, <2>1, <3>4
    <3> QED
      BY <3>2, <3>3, <3>5, <3>6
  <2>4. /\ exporter \in {"rows", "ok"} => Len(stream) = written - read + Skipped
        /\ exporter = "failed" => Len(stream) >= written - read + Skipped
        /\ exporter = "ok" => written = Len(Source)
        /\ exporter # "header"
    BY <1>1 DEF IInv, StreamInv, Unread
  <2>5. /\ exporter \in {"rows", "ok"} => Len(stream') = written - read' + Skipped'
        /\ exporter = "failed" => Len(stream') >= written - read' + Skipped'
    BY <1>1, <1>3, <1>4, <2>1, <2>4
  <2> QED
    BY <1>1, <2>3, <2>4, <2>5 DEF StreamInv, Unread
<1>8. Flushed' = Flushed
  BY <1>1, <1>4, <1>6 DEF Flushed
<1>9. BatchInv'
  BY <1>1, <1>2, <1>4, <1>5, <1>6, <1>8 DEF BatchInv, Unread
<1>10. TypeOK'
  BY <1>1, <1>3, <1>4, <1>6 DEF IInv, TypeOK, Units
<1>11. OpenInv'
  BY <1>1 DEF IInv, OpenInv, IsTable
<1> QED
  BY <1>1, <1>7, <1>9, <1>10, <1>11, WholeThen DEF IInv

(* A write of the importer's batch makes the target one of all rows read.  *)
LEMMA BatchWritten ==
  ASSUME IInv, importer \in {"rows", "final"}, Write(batch), UNCHANGED before
  PROVE  /\ target' = WithFirst(read) /\ IsTable(target')
         /\ Flushed \in Nat /\ read = Flushed + Len(batch) /\ Flushed % BatchRows = 0
<1>1. read \in Nat /\ read <= Len(Source) /\ Len(Source) \in Nat
      /\ batch \in Seq(Rows) /\ Len(batch) \in Nat
  BY SourceFacts, LenProperties DEF IInv, TypeOK
<1>2. Flushed \in 0..read /\ Flushed = read - Len(batch) /\ target = WithFirst(Flushed)
      /\ Flushed % BatchRows = 0 /\ \A i \in 1..Len(batch) : batch[i] = Flushed + i
  BY DEF IInv, BatchInv, Flushed
<1> HIDE DEF Flushed
<1>3. Flushed \in 0..Len(Source) /\ read \in Flushed..Len(Source)
      /\ Len(batch) = read - Flushed
  BY <1>1, <1>2
<1> QED
  BY <1>1, <1>2, <1>3, WriteIs

LEMMA InvWriteFull ==
  ASSUME IInv, WriteFull
  PROVE  IInv'
<1>1. importer = "rows" /\ Full /\ Write(batch) /\ batch' = <<>>
      /\ UNCHANGED <<exporter, written, stream, importer, allow, read, created, before, runs>>
  BY DEF WriteFull, exporterVars
<1>2. \A n : WithFirst(n)' = WithFirst(n)
  BY <1>1 DEF WithFirst
<1>3. target' = WithFirst(read) /\ IsTable(target')
      /\ Flushed \in Nat /\ read = Flushed + Len(batch) /\ Flushed % BatchRows = 0
  BY <1>1, BatchWritten
<1>4. Len(batch) = BatchRows /\ read \in Nat
  BY <1>1, SourceFacts, LenProperties DEF IInv, TypeOK, Full
<1>5. read % BatchRows = 0
  BY <1>3, <1>4, WholeNext
<1>6. Flushed' = read
  BY <1>1, <1>4, EmptySeq DEF Flushed
<1>7. TypeOK'
  BY <1>1, EmptySeq, SourceFacts DEF IInv, TypeOK
<1>8. StreamInv'
  BY <1>1 DEF IInv, StreamInv, Skipped, Unread, ExporterEnded
<1>9. BatchInv'
  BY <1>1, <1>2, <1>3, <1>4, <1>5, <1>6, EmptySeq DEF BatchInv, Unread
<1>10. OpenInv'
  BY <1>1, <1>3 DEF IInv, OpenInv, IsTable
<1> QED
  BY <1>1, <1>7, <1>8, <1>9, <1>10, WholeThen DEF IInv

LEMMA InvReadEnd ==
  ASSUME IInv, ReadEnd
  PROVE  IInv'
<1>1. importer = "rows" /\ importer' = "final" /\ stream = <<>> /\ ExporterEnded
      /\ UNCHANGED <<exporter, written, stream, allow, read, batch, target, created, before, runs>>
  BY DEF ReadEnd, AtEnd, Closed, exporterVars
<1>2. \A n : WithFirst(n)' = WithFirst(n)
  BY <1>1 DEF WithFirst
<1>3. TypeOK' /\ BatchInv' /\ OpenInv'
  BY <1>1, <1>2 DEF IInv, TypeOK, BatchInv, OpenInv, Flushed, IsTable, Unread
<1>4. read = written
  <2>1. Len(stream) = 0 /\ Skipped = 0
    BY <1>1, EmptySeq DEF Skipped, Unread
  <2>2. /\ exporter = "ok" => Len(stream) = written - read + Skipped
        /\ exporter = "failed" => Len(stream) >= written - read + Skipped
    BY <1>1 DEF IInv, StreamInv, Unread
  <2>3. written \in Nat /\ read \in 0..written
    BY SourceFacts DEF IInv, TypeOK
  <2> QED
    BY <1>1, <2>1, <2>2, <2>3 DEF ExporterEnded
<1>5. StreamInv'
  BY <1>1, <1>4 DEF IInv, StreamInv, Unread, ExporterEnded
<1> QED
  BY <1>1, <1>3, <1>5, WholeThen DEF IInv

LEMMA InvWriteRest ==
  ASSUME IInv, WriteRest
  PROVE  IInv'
<1>1. importer = "final" /\ importer' = "report" /\ Write(batch) /\ batch' = <<>>
      /\ UNCHANGED <<exporter, written, stream, allow, read, created, before, runs>>
  BY DEF WriteRest, FlushRest, exporterVars
<1>2. \A n : WithFirst(n)' = WithFirst(n)
  BY <1>1 DEF WithFirst
<1>3. target' = WithFirst(read) /\ IsTable(target')
  BY <1>1, BatchWritten
<1>4. TypeOK'
  BY <1>1, EmptySeq, SourceFacts DEF IInv, TypeOK
<1>5. StreamInv'
  BY <1>1 DEF IInv, StreamInv, Unread, ExporterEnded
<1>6. BatchInv'
  BY <1>1, <1>2, <1>3 DEF BatchInv, Unread
<1>7. OpenInv'
  BY <1>1, <1>3 DEF IInv, OpenInv, IsTable
<1> QED
  BY <1>1, <1>4, <1>5, <1>6, <1>7, WholeThen DEF IInv

LEMMA InvImportDone ==
  ASSUME IInv, ImportDone
  PROVE  IInv'
<1>1. importer = "report" /\ importer' = "ok"
      /\ UNCHANGED <<exporter, written, stream, allow, read, batch, target, created, before, runs>>
  BY DEF ImportDone, exporterVars
<1>2. \A n : WithFirst(n)' = WithFirst(n)
  BY <1>1 DEF WithFirst
<1>3. TypeOK' /\ StreamInv' /\ BatchInv' /\ OpenInv'
  BY <1>1, <1>2 DEF IInv, TypeOK, StreamInv, BatchInv, OpenInv, IsTable, Unread, ExporterEnded
<1> QED
  BY <1>1, <1>3, WholeThen DEF IInv

LEMMA InvImportFails ==
  ASSUME IInv, ImportFails
  PROVE  IInv'
<1>1. importer \notin {"ok", "failed"} /\ importer' = "failed" /\ batch' = <<>>
      /\ UNCHANGED <<exporter, written, stream, allow, read, target, created, before, runs>>
  BY DEF ImportFails, ImporterEnded, exporterVars
<1>2. \A n : WithFirst(n)' = WithFirst(n)
  BY <1>1 DEF WithFirst
<1>3. TypeOK'
  BY <1>1, EmptySeq, SourceFacts DEF IInv, TypeOK
<1>4. StreamInv' /\ BatchInv'
  BY <1>1 DEF IInv, StreamInv, BatchInv, Unread, ExporterEnded
<1>5. OpenInv'
  BY <1>1 DEF IInv, OpenInv, BatchInv, IsTable, Unread
<1>6. WholeBatches'
  BY <1>1, <1>2 DEF IInv, WholeBatches, ExporterEnded
<1> QED
  BY <1>3, <1>4, <1>5, <1>6 DEF IInv

LEMMA InvRunAgain ==
  ASSUME IInv, RunAgain
  PROVE  IInv'
<1>1. runs < MaxRuns /\ runs' = runs + 1 /\ exporter' = "header" /\ written' = 0
      /\ stream' = <<>> /\ importer' = "start" /\ allow' \in BOOLEAN /\ read' = 0
      /\ batch' = <<>> /\ before' = target /\ target' = target /\ created' = created
  BY DEF RunAgain
<1>2. TypeOK'
  <2>1. runs' \in 1..MaxRuns
    BY <1>1, RawSyncAssumption DEF IInv, TypeOK, RawSyncAssumption
  <2>2. batch' \in Seq(Rows) /\ stream' \in Seq(Units) /\ Len(batch') = 0
    BY <1>1, EmptySeq
  <2> QED
    BY <1>1, <2>1, <2>2, SourceFacts DEF IInv, TypeOK, Units
<1>3. StreamInv'
  <2>1. Len(stream') = 0
    BY <1>1, EmptySeq
  <2> QED
    BY <1>1, <2>1 DEF StreamInv, Unread
<1>4. BatchInv'
  BY <1>1 DEF BatchInv, Unread
<1>5. OpenInv'
  BY <1>1 DEF IInv, OpenInv, IsTable
<1> QED
  BY <1>1, <1>2, <1>3, <1>4, <1>5, WholeThen DEF IInv

LEMMA InvNext ==
  ASSUME IInv, [Next]_vars
  PROVE  IInv'
<1>1. CASE UNCHANGED vars
  <2>1. UNCHANGED <<exporter, written, stream, importer, allow, read, batch, target, created,
                    before, runs>>
    BY <1>1 DEF vars, exporterVars, importerVars
  <2>2. UNCHANGED <<importerVars, before>> /\ UNCHANGED <<exporter, written>>
    BY <2>1 DEF importerVars
  <2> QED
    BY <2>1, <2>2, TargetKept DEF IInv, TypeOK, StreamInv, Skipped, ExporterEnded
<1> QED
  BY <1>1, InvWriteHeader, InvWriteRow, InvExportDone, InvExportFails, InvEnsureTarget,
     InvReadHeader, InvReadRow, InvWriteFull, InvReadEnd, InvWriteRest, InvImportDone,
     InvImportFails, InvRunAgain
     DEF Next, Exporting, Importing

LEMMA RawSyncInvariant == Spec => []IInv
BY InvInit, InvNext, PTL DEF Spec

-----------------------------------------------------------------------------
(* The types, for every source, batch size and pipe size.                  *)
THEOREM RawSyncTypes == Spec => []TypeOK
<1>1. IInv => TypeOK
  BY DEF IInv
<1> QED
  BY <1>1, RawSyncInvariant, PTL

(* Wherever an import stops, failing in its compaction or its report too,  *)
(* the target is the one of the run's beginning with a prefix of the       *)
(* source written over it: what one write_batch per --batch-rows rows, and *)
(* one more at the end of the stream, leave behind.                        *)
THEOREM TargetIsPrefix == Spec => []WholeBatches
<1>1. IInv => WholeBatches
  BY DEF IInv
<1> QED
  BY <1>1, RawSyncInvariant, PTL

(* An import that ends well has written every row its report counts, and   *)
(* all of the source when the export ended well too.                       *)
THEOREM ReportIsTrue == Spec => []ImportedIsReported
<1>1. IInv => ImportedIsReported
  <2> SUFFICES ASSUME IInv, importer = "ok"
               PROVE  /\ \A i \in 1..read : Holds(i)
                      /\ exporter = "ok" => read = Len(Source)
    BY DEF ImportedIsReported
  <2>1. target = WithFirst(read) /\ read \in 0..Len(Source)
    BY SourceFacts DEF IInv, BatchInv, TypeOK
  <2>2. \A i \in 1..read : Holds(i)
    BY <2>1, WithFirstIs DEF Holds
  <2>3. exporter = "ok" => read = Len(Source)
    BY DEF IInv, StreamInv
  <2> QED
    BY <2>2, <2>3
<1> QED
  BY <1>1, RawSyncInvariant, PTL

(* An import that ends well short of the source cannot tell; the export it *)
(* read from has failed, and does.                                         *)
THEOREM ShortImportIsTold == Spec => []ShortImportTold
<1>1. IInv => ShortImportTold
  BY SourceFacts DEF IInv, StreamInv, TypeOK, ExporterEnded, ShortImportTold
<1> QED
  BY <1>1, RawSyncInvariant, PTL

(* Without --allow-existing the rows of two databases never mix: a run     *)
(* that changes the target found it empty.                                 *)
THEOREM NoMixtureEver == Spec => []NoMixture
<1>1. IInv => NoMixture
  <2> SUFFICES ASSUME IInv, ~allow, target # before
               PROVE  /\ before = [a \in {} |-> 0]
                      /\ \A a \in DOMAIN target : \E i \in Rows : Source[i].at = a /\ Holds(i)
    BY DEF NoMixture
  <2>1. DOMAIN before = {}
    BY DEF IInv, OpenInv, BatchInv, Unread
  <2>2. before = [a \in {} |-> 0]
    BY <2>1 DEF IInv, OpenInv, IsTable
  <2>3. PICK n \in 0..read : target = WithFirst(n)
    BY DEF IInv, WholeBatches
  <2>4. n \in 0..Len(Source) /\ 1..n \subseteq Rows
    BY SourceFacts DEF IInv, TypeOK
  <2>5. DOMAIN target = {Source[i].at : i \in 1..n}
        /\ \A i \in 1..n : target[Source[i].at] = Source[i].value
    BY <2>1, <2>3, <2>4, WithFirstIs
  <2> QED
    BY <2>2, <2>4, <2>5 DEF Holds
<1> QED
  BY <1>1, RawSyncInvariant, PTL
=============================================================================
