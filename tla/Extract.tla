------------------------------ MODULE Extract -------------------------------
(***************************************************************************)
(* From checkpoints to rows (crates/hotstore-sui-source/src/extract.rs):   *)
(* each transaction, event and object change becomes puts of the           *)
(* checkpoint's batch and lines of the benchmark key files.  Batches of    *)
(* consecutive checkpoints are written to the database at once and their   *)
(* lines are appended to the key files after that (main.rs).               *)
(*                                                                         *)
(* Gas, payloads, senders and the other fields by which nobody looks a row *)
(* up are left out of the records, and with them the record modes.         *)
(***************************************************************************)
EXTENDS HotKeys, Checksum

CONSTANTS
  Ids,     \* object ids
  Owners,  \* the owners of objects, as text
  Chains   \* the chains to extract: sequences of checkpoints, each a
           \* sequence of transactions

VARIABLES
  chain,   \* the chain
  stored,  \* checkpoints whose batches are in the database
  keyed,   \* checkpoints whose lines are in the key files
  keys,    \* the lines of the key files
  db       \* the database

extractVars == <<chain, stored, keyed, keys, db>>

(* The column families an ingest writes rows of checkpoints to.            *)
ColumnFamilies == {"checkpoint", "tx_by_digest", "event_by_type", "object_version",
                   "object_last_seen", "owner_touched"}

Files == {"tx_digests", "object_versions", "object_ids", "event_types"}

-----------------------------------------------------------------------------
(* extract_checkpoint_batch                                                *)

Optional(S) == S \cup {None}

(* What extract_checkpoint_batch reads of an object change and of a        *)
(* transaction block.                                                      *)
ObjectChange == [object : Optional(Ids), version : Optional(Nat),
                 type : Optional(DOMAIN Hash16),
                 owner : Optional(Owners), recipient : Optional(Owners)]
TransactionBlock == [digest : DOMAIN Text, events : Seq(DOMAIN Hash16),
                     changes : Seq(ObjectChange)]

(* unwrap_or_default *)
Version(change) == IF change.version = None THEN 0 ELSE change.version

(* Ids have one length, an owner, which is JSON, is never the beginning of *)
(* another's text, and counters and versions fit into their integers.      *)
ASSUME ChainAssumption ==
  /\ Ids \cup Owners \subseteq DOMAIN Text
  /\ \A a, b \in Ids : Len(Text[a]) = Len(Text[b])
  /\ \A a, b \in Owners : IsPrefix(Text[a], Text[b]) => a = b
  /\ Chains \subseteq Seq(Seq(TransactionBlock))
  /\ \A ch \in Chains :
       /\ Fits(Len(ch), U64Len)
       /\ \A c \in DOMAIN ch :
            /\ Fits(Len(ch[c]), U32Len)
            /\ \A t \in DOMAIN ch[c] :
                 /\ Fits(Len(ch[c][t].events), U32Len)
                 /\ \A i \in DOMAIN ch[c][t].changes :
                      Fits(Version(ch[c][t].changes[i]), U64Len)

(* change.recipient.or(change.owner) *)
Owner(change) == IF change.recipient # None THEN change.recipient ELSE change.owner

(* tx_index and event_index count from zero. *)
EventIndex(i) == i - 1

TxPut(c, t) ==
  LET tx == chain[c][t]
  IN Put("tx_by_digest", key_tx_by_digest(Text[tx.digest]),
         [digest |-> tx.digest, checkpoint |-> c, tx |-> t - 1])

EventPut(c, t, i) ==
  LET type == chain[c][t].events[i]
  IN Put("event_by_type", key_event_by_type(type, c, t - 1, EventIndex(i)),
         [type |-> type, checkpoint |-> c, digest |-> chain[c][t].digest])

ObjectPuts(c, change) ==
  LET record == [object |-> change.object, version |-> Version(change),
                 checkpoint |-> c, owner |-> Owner(change), type |-> change.type]
  IN <<Put("object_version", key_object_version(Text[change.object], Version(change)), record),
       Put("object_last_seen", key_object_last_seen(Text[change.object]), record)>>

OwnerPut(c, change) ==
  Put("owner_touched",
      key_owner_touched_object(Text[Owner(change)], change.type, Text[change.object],
                               Version(change)),
      [owner |-> Owner(change), object |-> change.object, version |-> Version(change),
       checkpoint |-> c, type |-> change.type])

ChangePuts_OwnerOnly(c, change) ==
  IF change.object = None THEN <<>>
  ELSE ObjectPuts(c, change)
         \o (IF change.owner = None THEN <<>> ELSE <<OwnerPut(c, change)>>)

(* A change without an object id, a published package, is skipped.         *)
ChangePuts(c, change) ==
  IF change.object = None THEN <<>>
  ELSE ObjectPuts(c, change)
         \o (IF Owner(change) = None THEN <<>> ELSE <<OwnerPut(c, change)>>)

TxPuts(c, t) ==
  LET tx == chain[c][t]
  IN <<TxPut(c, t)>>
       \o [i \in DOMAIN tx.events |-> EventPut(c, t, i)]
       \o FlattenSeq([i \in DOMAIN tx.changes |-> ChangePuts(c, tx.changes[i])])

CheckpointPuts(c) ==
  <<Put("checkpoint", key_checkpoint(c), [checkpoint |-> c, txs |-> Len(chain[c])])>>
    \o FlattenSeq([t \in DOMAIN chain[c] |-> TxPuts(c, t)])

(* The changes with an object id, and the line object_id,version of one.   *)
ObjectChanges(c) ==
  {change \in UNION {{chain[c][t].changes[i] : i \in DOMAIN chain[c][t].changes} :
                     t \in DOMAIN chain[c]} : change.object # None}

VersionLine(change) == <<change.object, Version(change)>>

CheckpointLines(c) ==
  [tx_digests |-> {chain[c][t].digest : t \in DOMAIN chain[c]},
   object_versions |-> {VersionLine(change) : change \in ObjectChanges(c)},
   object_ids |-> {change.object : change \in ObjectChanges(c)},
   event_types |-> UNION {{chain[c][t].events[i] : i \in DOMAIN chain[c][t].events} :
                          t \in DOMAIN chain[c]}]

(* The lines of the checkpoints of a set together.                         *)
LinesOf(C) == [f \in Files |-> UNION {CheckpointLines(c)[f] : c \in C}]

-----------------------------------------------------------------------------
(* The ingest loop as far as it moves rows and lines.                      *)

ExtractTypeOK ==
  /\ chain \in Chains
  /\ stored \in 0..Len(chain)
  /\ keyed \in 0..stored
  /\ DOMAIN keys = Files
  /\ \A k \in KeysOf(db, "event_by_type") : Len(k) = HashLen + U64Len + 2 * U32Len
  /\ \A at \in DOMAIN db : at[2] \in Seq(0..(Base - 1))

ExtractInit ==
  /\ chain \in Chains
  /\ stored = 0
  /\ keyed = 0
  /\ keys = [f \in Files |-> {}]
  /\ db = EmptyStore

(* persist_aggregated_batch of the checkpoints up to last: their batches   *)
(* were appended to one another.                                           *)
StoreBatch(last) ==
  /\ keyed = stored /\ stored < last /\ last <= Len(chain)
  /\ db' = WriteBatch(db, FlattenSeq([i \in 1..(last - stored) |-> CheckpointPuts(stored + i)]))
  /\ stored' = last
  /\ UNCHANGED <<chain, keyed, keys>>

AppendedLines_Ahead ==
  [f \in Files |-> keys[f] \cup LinesOf(((keyed + 1)..(stored + 1)) \cap DOMAIN chain)[f]]

(* The lines in the key files once the batch's lines are appended.         *)
AppendedLines ==
  [f \in Files |-> keys[f] \cup LinesOf((keyed + 1)..stored)[f]]

AppendLines ==
  /\ keyed < stored
  /\ keys' = AppendedLines
  /\ keyed' = stored
  /\ UNCHANGED <<chain, stored, db>>

IngestStep ==
  \/ \E last \in (stored + 1)..Len(chain) : StoreBatch(last)
  \/ AppendLines

-----------------------------------------------------------------------------
(* Properties.                                                             *)

(* What the benchmark does with a line finds a row: it looks a digest, an  *)
(* id,version pair and an id up, and scans the events under a type.        *)
Answered(file, line) ==
  CASE file = "tx_digests" -> Has(db, "tx_by_digest", key_tx_by_digest(Text[line]))
    [] file = "object_versions" ->
         Has(db, "object_version", key_object_version(Text[line[1]], line[2]))
    [] file = "object_ids" -> Has(db, "object_last_seen", key_object_last_seen(Text[line]))
    [] file = "event_types" ->
         ScanPrefix(db, "event_by_type", event_type_hash(line), 1) # <<>>

(* Every line of the four key files is answered by the database, also      *)
(* between the write of a batch and that of its lines.                     *)
KeysAnswered == \A f \in Files : \A line \in keys[f] : Answered(f, line)

(* The events of a type in the stored checkpoints, in chain order.         *)
EventsOf(type) ==
  LET places == UNION {UNION {{<<c, t, i>> : i \in {i \in DOMAIN chain[c][t].events :
                                                     chain[c][t].events[i] = type}} :
                              t \in DOMAIN chain[c]} : c \in 1..stored}
      ordered == InOrder(places)
  IN [n \in DOMAIN ordered |->
        [type |-> type, checkpoint |-> ordered[n][1],
         digest |-> chain[ordered[n][1]][ordered[n][2]].digest]]

(* scan_prefix_count and scan_prefix over cf_event_by_type under the hash  *)
(* of a type, as the benchmark does it, yields the first events of that    *)
(* type in the order they happened, as many as the limit allows: no event  *)
(* is lost to another with its key, none of another type is among them,    *)
(* and the byte order of the keys is the order of the chain.               *)
ScansExact ==
  \A type \in UNION {CheckpointLines(c).event_types : c \in 1..stored}, limit \in 1..3 :
    ScanPrefix(db, "event_by_type", event_type_hash(type), limit)
      = SubSeq(EventsOf(type), 1, IF limit < Len(EventsOf(type)) THEN limit
                                  ELSE Len(EventsOf(type)))

(* The stored changes that have an object id, each with its place.         *)
Places ==
  UNION {UNION {{<<c, t, i>> : i \in {i \in DOMAIN chain[c][t].changes :
                                       chain[c][t].changes[i].object # None}} :
                t \in DOMAIN chain[c]} : c \in 1..stored}
ChangeAt(p) == chain[p[1]][p[2]].changes[p[3]]

RecordAt(cf, key) == db[<<cf, key>>]

(* cf_object_last_seen is the last change of each object in chain order,   *)
(* and agrees with the version row of that change.                         *)
LastSeenIsLastChange ==
  \A p \in Places :
    (\A q \in Places : ChangeAt(q).object = ChangeAt(p).object => ~LexLess(p, q)) =>
      LET id == Text[ChangeAt(p).object]
          seen == RecordAt("object_last_seen", key_object_last_seen(id))
      IN /\ seen.checkpoint = p[1]
         /\ seen.version = Version(ChangeAt(p))
         /\ seen.owner = Owner(ChangeAt(p))
         /\ RecordAt("object_version", key_object_version(id, seen.version)) = seen

(* The object indexes agree: the scan of an owner's prefix, with or        *)
(* without a type, yields exactly the object versions the chain gave that  *)
(* owner (a transfer's recipient), and each is found under its version.    *)
OwnerScansResolve ==
  \A p \in Places :
    Owner(ChangeAt(p)) # None =>
      \A type \in {None, ChangeAt(p).type} :
        LET owner == Owner(ChangeAt(p))
            rows == ScanPrefix(db, "owner_touched",
                               key_owner_touched_objects_prefix(Text[owner], type), Cardinality(Places))
            found == {<<rows[i].object, rows[i].version>> : i \in DOMAIN rows}
            given == {q \in Places : /\ Owner(ChangeAt(q)) = owner
                                     /\ type \in {None, ChangeAt(q).type}}
        IN /\ found = {VersionLine(ChangeAt(q)) : q \in given}
           /\ \A line \in found : Answered("object_versions", line)

(* The database of an ingest of the first n checkpoints in one batch.      *)
OneBatch(n) == WriteBatch(EmptyStore, FlattenSeq([c \in 1..n |-> CheckpointPuts(c)]))

(* Comparing checksums tells whether two ingests stored the same: whatever *)
(* batches the checkpoints came in, the reports match for as many          *)
(* checkpoints of the chain and for no other number of them.               *)
ChecksumTells ==
  LET report == ChecksumReport(db, ColumnFamilies)
  IN \A n \in DOMAIN chain :
       Matches(report, ChecksumReport(OneBatch(n), ColumnFamilies)) <=> n = stored
=============================================================================
