---------------------------- MODULE ExportProofs ----------------------------
(***************************************************************************)
(* Proofs about Extract and Export, for all chains, names, hashes and      *)
(* limits.                                                                 *)
(*                                                                         *)
(* Each row of the database has a place in the chain, and the puts of      *)
(* extract_checkpoint_batch write the rows in the order of their places.   *)
(* So a store that took the puts up to some place Holds, for each column   *)
(* family, the rows of the places before it, and under each key the record *)
(* of the last place with that key.  From puts that goes on to changes,    *)
(* events, transactions and checkpoints (...Step), and as batches written  *)
(* one after the other write what one batch does (BatchAfter), the         *)
(* database of an ingest is OneBatch of the checkpoints stored, which is   *)
(* the invariant.  What the keys tell apart, and their order, then gives   *)
(* what lookups, scans, exports and checksums show.                        *)
(***************************************************************************)
EXTENDS Export, StoreProofs

-----------------------------------------------------------------------------
(* The places of the rows of a column family, as <<checkpoint, transaction,*)
(* event or change>> with 0 for what a row is not about, and their rows.   *)

Triples == Nat \X Nat \X Nat

Before(p, q) ==
  \/ p[1] < q[1]
  \/ p[1] = q[1] /\ p[2] < q[2]
  \/ p[1] = q[1] /\ p[2] = q[2] /\ p[3] < q[3]

InTx(p) == p[2] \in 1..Len(chain[p[1]])
InEvents(p) == InTx(p) /\ p[3] \in 1..Len(chain[p[1]][p[2]].events)
InChanges(p) ==
  InTx(p) /\ p[3] \in 1..Len(chain[p[1]][p[2]].changes) /\ ChangeAt(p).object # None

Placed(cf, p) ==
  /\ p[1] \in 1..Len(chain)
  /\ cf = "checkpoint" => p[2] = 0 /\ p[3] = 0
  /\ cf = "tx_by_digest" => InTx(p) /\ p[3] = 0
  /\ cf = "event_by_type" => InEvents(p)
  /\ cf = "object_version" => InChanges(p)
  /\ cf = "object_last_seen" => InChanges(p)
  /\ cf = "owner_touched" => InChanges(p) /\ Owner(ChangeAt(p)) # None

PlacesOf(cf) == {p \in Triples : Placed(cf, p)}

CheckpointPut(c) == Put("checkpoint", key_checkpoint(c), [checkpoint |-> c, txs |-> Len(chain[c])])

Row(cf, p) ==
  CASE cf = "checkpoint" -> CheckpointPut(p[1])
    [] cf = "tx_by_digest" -> TxPut(p[1], p[2])
    [] cf = "event_by_type" -> EventPut(p[1], p[2], p[3])
    [] cf = "object_version" -> ObjectPuts(p[1], ChangeAt(p))[1]
    [] cf = "object_last_seen" -> ObjectPuts(p[1], ChangeAt(p))[2]
    [] cf = "owner_touched" -> OwnerPut(p[1], ChangeAt(p))

KeyAt(cf, p) == Row(cf, p).at[2]

LEMMA TripleIs ==
  ASSUME NEW a \in Nat, NEW b \in Nat, NEW c \in Nat
  PROVE  <<a, b, c>> \in Seq(Nat) /\ Len(<<a, b, c>>) = 3
OBVIOUS

LEMMA BeforeIs ==
  ASSUME NEW p \in Triples, NEW q \in Triples
  PROVE  p \in Seq(Nat) /\ q \in Seq(Nat) /\ (LexLess(p, q) <=> Before(p, q))
<1>1. /\ p = <<p[1], p[2], p[3]>> /\ p[1] \in Nat /\ p[2] \in Nat /\ p[3] \in Nat
      /\ q = <<q[1], q[2], q[3]>> /\ q[1] \in Nat /\ q[2] \in Nat /\ q[3] \in Nat
  BY DEF Triples
<1>2. p \in Seq(Nat) /\ Len(p) = 3 /\ q \in Seq(Nat) /\ Len(q) = 3
  <2>1. <<p[1], p[2], p[3]>> \in Seq(Nat) /\ Len(<<p[1], p[2], p[3]>>) = 3
    BY ONLY <1>1, TripleIs
  <2>2. <<q[1], q[2], q[3]>> \in Seq(Nat) /\ Len(<<q[1], q[2], q[3]>>) = 3
    BY ONLY <1>1, TripleIs
  <2> QED
    BY <1>1, <2>1, <2>2
<1>3. LexAt(p, q, 1) <=> p[1] < q[1]
  BY <1>1, <1>2 DEF LexAt
<1>4. LexAt(p, q, 2) <=> p[1] = q[1] /\ p[2] < q[2]
  <2>1. \A j \in 1..(2 - 1) : j = 1
    OBVIOUS
  <2>2. 1 \in 1..(2 - 1)
    OBVIOUS
  <2> QED
    BY <1>1, <1>2, <2>1, <2>2 DEF LexAt
<1>5. LexAt(p, q, 3) <=> p[1] = q[1] /\ p[2] = q[2] /\ p[3] < q[3]
  <2>1. \A j \in 1..(3 - 1) : j = 1 \/ j = 2
    OBVIOUS
  <2>2. 1 \in 1..(3 - 1) /\ 2 \in 1..(3 - 1)
    OBVIOUS
  <2> QED
    BY <1>1, <1>2, <2>1, <2>2 DEF LexAt
<1>6. \A i \in Nat : LexAt(p, q, i) => i = 1 \/ i = 2 \/ i = 3
  BY <1>2 DEF LexAt
<1>7. LexLess(p, q) <=> \E i \in Nat : LexAt(p, q, i)
  BY <1>2, LexIs
<1> HIDE DEF LexAt
<1>8. LexLess(p, q) <=> LexAt(p, q, 1) \/ LexAt(p, q, 2) \/ LexAt(p, q, 3)
  BY <1>6, <1>7
<1> QED
  BY <1>2, <1>3, <1>4, <1>5, <1>8 DEF Before

LEMMA ChainFacts ==
  ASSUME chain \in Chains
  PROVE  /\ chain \in Seq(Seq(TransactionBlock)) /\ Len(chain) \in Nat /\ DOMAIN chain = 1..Len(chain)
         /\ Fits(Len(chain), U64Len)
         /\ \A c \in 1..Len(chain) :
              /\ chain[c] \in Seq(TransactionBlock) /\ Len(chain[c]) \in Nat
              /\ DOMAIN chain[c] = 1..Len(chain[c])
              /\ Fits(Len(chain[c]), U32Len)
<1>1. chain \in Seq(Seq(TransactionBlock)) /\ Fits(Len(chain), U64Len)
  BY ChainAssumption DEF ChainAssumption
<1>2. Len(chain) \in Nat /\ DOMAIN chain = 1..Len(chain)
  BY <1>1, LenProperties
<1>3. \A c \in 1..Len(chain) : chain[c] \in Seq(TransactionBlock)
  BY <1>1, ElementOfSeq
<1>4. \A c \in 1..Len(chain) : Len(chain[c]) \in Nat /\ DOMAIN chain[c] = 1..Len(chain[c])
  BY <1>3, LenProperties
<1>5. \A c \in 1..Len(chain) : Fits(Len(chain[c]), U32Len)
  BY <1>2, ChainAssumption DEF ChainAssumption
<1> QED
  BY <1>1, <1>2, <1>3, <1>4, <1>5

LEMMA TxFacts ==
  ASSUME chain \in Chains, NEW c \in 1..Len(chain), NEW t \in 1..Len(chain[c])
  PROVE  /\ chain[c][t].digest \in DOMAIN Text
         /\ chain[c][t].events \in Seq(DOMAIN Hash16)
         /\ chain[c][t].changes \in Seq(ObjectChange)
         /\ Len(chain[c][t].events) \in Nat
         /\ DOMAIN chain[c][t].events = 1..Len(chain[c][t].events)
         /\ Fits(Len(chain[c][t].events), U32Len)
         /\ \A i \in 1..Len(chain[c][t].events) : chain[c][t].events[i] \in DOMAIN Hash16
         /\ Len(chain[c][t].changes) \in Nat
         /\ DOMAIN chain[c][t].changes = 1..Len(chain[c][t].changes)
         /\ \A i \in 1..Len(chain[c][t].changes) :
              /\ chain[c][t].changes[i] \in ObjectChange
              /\ Fits(Version(chain[c][t].changes[i]), U64Len)
<1> DEFINE tx == chain[c][t]
<1>1. tx \in TransactionBlock
  BY ChainFacts, ElementOfSeq
<1>2. c \in DOMAIN chain /\ t \in DOMAIN chain[c]
  BY ChainFacts
<1>3. Fits(Len(tx.events), U32Len) /\ \A i \in DOMAIN tx.changes : Fits(Version(tx.changes[i]), U64Len)
  BY <1>2, ChainAssumption DEF ChainAssumption
<1> HIDE DEF tx
<1>4. tx.digest \in DOMAIN Text /\ tx.events \in Seq(DOMAIN Hash16) /\ tx.changes \in Seq(ObjectChange)
  BY <1>1 DEF TransactionBlock
<1>5. /\ Len(tx.events) \in Nat /\ DOMAIN tx.events = 1..Len(tx.events)
      /\ Len(tx.changes) \in Nat /\ DOMAIN tx.changes = 1..Len(tx.changes)
  BY <1>4, LenProperties
<1>6. /\ \A i \in 1..Len(tx.events) : tx.events[i] \in DOMAIN Hash16
      /\ \A i \in 1..Len(tx.changes) : tx.changes[i] \in ObjectChange
  BY <1>4, ElementOfSeq
<1> QED
  BY <1>3, <1>4, <1>5, <1>6 DEF tx

LEMMA OneColumnFamily ==
  /\ "checkpoint" \in ColumnFamilies /\ "tx_by_digest" \in ColumnFamilies
  /\ "event_by_type" \in ColumnFamilies /\ "object_version" \in ColumnFamilies
  /\ "object_last_seen" \in ColumnFamilies /\ "owner_touched" \in ColumnFamilies
BY DEF ColumnFamilies

LEMMA RowIs ==
  ASSUME NEW p
  PROVE  /\ Row("checkpoint", p) = CheckpointPut(p[1])
         /\ Row("tx_by_digest", p) = TxPut(p[1], p[2])
         /\ Row("event_by_type", p) = EventPut(p[1], p[2], p[3])
         /\ Row("object_version", p) = ObjectPuts(p[1], ChangeAt(p))[1]
         /\ Row("object_last_seen", p) = ObjectPuts(p[1], ChangeAt(p))[2]
         /\ Row("owner_touched", p) = OwnerPut(p[1], ChangeAt(p))
<1> DEFINE a == CheckpointPut(p[1])
           b == TxPut(p[1], p[2])
           c == EventPut(p[1], p[2], p[3])
           d == ObjectPuts(p[1], ChangeAt(p))[1]
           e == ObjectPuts(p[1], ChangeAt(p))[2]
           f == OwnerPut(p[1], ChangeAt(p))
<1>1. \A cf : Row(cf, p) =
        CASE cf = "checkpoint" -> a
          [] cf = "tx_by_digest" -> b
          [] cf = "event_by_type" -> c
          [] cf = "object_version" -> d
          [] cf = "object_last_seen" -> e
          [] cf = "owner_touched" -> f
  BY DEF Row
<1> HIDE DEF a, b, c, d, e, f
<1>2. /\ Row("checkpoint", p) = a
      /\ Row("tx_by_digest", p) = b
      /\ Row("event_by_type", p) = c
      /\ Row("object_version", p) = d
      /\ Row("object_last_seen", p) = e
      /\ Row("owner_touched", p) = f
  BY <1>1
<1> QED
  BY <1>2 DEF a, b, c, d, e, f

(* The keys under which the rows are.                                      *)
EventKey(p) == key_event_by_type(chain[p[1]][p[2]].events[p[3]], p[1], p[2] - 1, EventIndex(p[3]))
VersionKey(p) == key_object_version(Text[ChangeAt(p).object], Version(ChangeAt(p)))
OwnerKey(p) ==
  key_owner_touched_object(Text[Owner(ChangeAt(p))], ChangeAt(p).type, Text[ChangeAt(p).object],
                           Version(ChangeAt(p)))

LEMMA KeyAtIs ==
  ASSUME NEW p
  PROVE  /\ KeyAt("checkpoint", p) = key_checkpoint(p[1])
         /\ KeyAt("tx_by_digest", p) = Text[chain[p[1]][p[2]].digest]
         /\ KeyAt("event_by_type", p) = EventKey(p)
         /\ KeyAt("object_version", p) = VersionKey(p)
         /\ KeyAt("object_last_seen", p) = Text[ChangeAt(p).object]
         /\ KeyAt("owner_touched", p) = OwnerKey(p)
<1> DEFINE k == key_checkpoint(p[1])
           e == EventKey(p)
           v == VersionKey(p)
           o == OwnerKey(p)
<1>1. /\ CheckpointPut(p[1]).at = <<"checkpoint", k>>
      /\ TxPut(p[1], p[2]).at = <<"tx_by_digest", Text[chain[p[1]][p[2]].digest]>>
      /\ EventPut(p[1], p[2], p[3]).at = <<"event_by_type", e>>
      /\ ObjectPuts(p[1], ChangeAt(p))[1].at = <<"object_version", v>>
      /\ ObjectPuts(p[1], ChangeAt(p))[2].at = <<"object_last_seen", Text[ChangeAt(p).object]>>
      /\ OwnerPut(p[1], ChangeAt(p)).at = <<"owner_touched", o>>
  BY DEF CheckpointPut, TxPut, EventPut, ObjectPuts, OwnerPut, Put, EventKey, VersionKey, OwnerKey,
         key_tx_by_digest, key_object_last_seen
<1> HIDE DEF k, e, v, o
<1>2. /\ Row("checkpoint", p) = CheckpointPut(p[1])
      /\ Row("tx_by_digest", p) = TxPut(p[1], p[2])
      /\ Row("event_by_type", p) = EventPut(p[1], p[2], p[3])
      /\ Row("object_version", p) = ObjectPuts(p[1], ChangeAt(p))[1]
      /\ Row("object_last_seen", p) = ObjectPuts(p[1], ChangeAt(p))[2]
      /\ Row("owner_touched", p) = OwnerPut(p[1], ChangeAt(p))
  BY RowIs
<1>3. /\ KeyAt("checkpoint", p) = k
      /\ KeyAt("tx_by_digest", p) = Text[chain[p[1]][p[2]].digest]
      /\ KeyAt("event_by_type", p) = e
      /\ KeyAt("object_version", p) = v
      /\ KeyAt("object_last_seen", p) = Text[ChangeAt(p).object]
      /\ KeyAt("owner_touched", p) = o
  BY <1>1, <1>2 DEF KeyAt
<1> QED
  BY <1>3 DEF k, e, v, o

LEMMA RowAt ==
  ASSUME NEW cf \in ColumnFamilies, NEW p
  PROVE  Row(cf, p).at = <<cf, KeyAt(cf, p)>>
<1> DEFINE r == Row(cf, p)
<1>1. /\ Row("checkpoint", p) = CheckpointPut(p[1])
      /\ Row("tx_by_digest", p) = TxPut(p[1], p[2])
      /\ Row("event_by_type", p) = EventPut(p[1], p[2], p[3])
      /\ Row("object_version", p) = ObjectPuts(p[1], ChangeAt(p))[1]
      /\ Row("object_last_seen", p) = ObjectPuts(p[1], ChangeAt(p))[2]
      /\ Row("owner_touched", p) = OwnerPut(p[1], ChangeAt(p))
  BY RowIs
<1>2. \E k : r.at = <<cf, k>>
  <2>1. CASE cf = "checkpoint"
    BY <1>1, <2>1 DEF CheckpointPut, Put
  <2>2. CASE cf = "tx_by_digest"
    BY <1>1, <2>2 DEF TxPut, Put
  <2>3. CASE cf = "event_by_type"
    BY <1>1, <2>3 DEF EventPut, Put
  <2>4. CASE cf = "object_version"
    BY <1>1, <2>4 DEF ObjectPuts, Put
  <2>5. CASE cf = "object_last_seen"
    BY <1>1, <2>5 DEF ObjectPuts, Put
  <2>6. CASE cf = "owner_touched"
    BY <1>1, <2>6 DEF OwnerPut, Put
  <2> QED
    BY <2>1, <2>2, <2>3, <2>4, <2>5, <2>6 DEF ColumnFamilies
<1> HIDE DEF r
<1>3. r.at = <<cf, r.at[2]>>
  BY <1>2
<1> QED
  BY <1>3 DEF r, KeyAt

(* What is under the keys.                                                 *)
LEMMA RecordIs ==
  ASSUME NEW p
  PROVE  /\ Row("tx_by_digest", p).record.digest = chain[p[1]][p[2]].digest
         /\ Row("event_by_type", p).record =
              [type |-> chain[p[1]][p[2]].events[p[3]], checkpoint |-> p[1],
               digest |-> chain[p[1]][p[2]].digest]
         /\ Row("object_version", p).record =
              [object |-> ChangeAt(p).object, version |-> Version(ChangeAt(p)),
               checkpoint |-> p[1], owner |-> Owner(ChangeAt(p)), type |-> ChangeAt(p).type]
         /\ Row("object_last_seen", p).record = Row("object_version", p).record
         /\ Row("owner_touched", p).record.object = ChangeAt(p).object
         /\ Row("owner_touched", p).record.version = Version(ChangeAt(p))
<1>1. /\ Row("checkpoint", p) = CheckpointPut(p[1])
      /\ Row("tx_by_digest", p) = TxPut(p[1], p[2])
      /\ Row("event_by_type", p) = EventPut(p[1], p[2], p[3])
      /\ Row("object_version", p) = ObjectPuts(p[1], ChangeAt(p))[1]
      /\ Row("object_last_seen", p) = ObjectPuts(p[1], ChangeAt(p))[2]
      /\ Row("owner_touched", p) = OwnerPut(p[1], ChangeAt(p))
  BY RowIs
<1>2. Row("tx_by_digest", p).record.digest = chain[p[1]][p[2]].digest
  BY <1>1 DEF TxPut, Put
<1>3. Row("event_by_type", p).record =
        [type |-> chain[p[1]][p[2]].events[p[3]], checkpoint |-> p[1],
         digest |-> chain[p[1]][p[2]].digest]
  BY <1>1 DEF EventPut, Put
<1>4. /\ Row("object_version", p).record =
           [object |-> ChangeAt(p).object, version |-> Version(ChangeAt(p)),
            checkpoint |-> p[1], owner |-> Owner(ChangeAt(p)), type |-> ChangeAt(p).type]
      /\ Row("object_last_seen", p).record = Row("object_version", p).record
  BY <1>1 DEF ObjectPuts, Put
<1>5. /\ Row("owner_touched", p).record.object = ChangeAt(p).object
      /\ Row("owner_touched", p).record.version = Version(ChangeAt(p))
  BY <1>1 DEF OwnerPut, Put
<1> QED
  BY <1>2, <1>3, <1>4, <1>5

-----------------------------------------------------------------------------
(* The keys are bytes, and what they are made of can be read off them.     *)

Bytes == Seq(0..(Base - 1))

LEMMA BytesNat == Bytes \subseteq Seq(Nat)
<1>1. 0..(Base - 1) \subseteq Nat
  BY BaseIs
<1> QED
  BY <1>1, SeqMonotonic DEF Bytes

LEMMA LengthsNat == HashLen \in Nat /\ U64Len \in Nat /\ U32Len \in Nat /\ HashLen > 0
BY KeyAssumption DEF KeyAssumption

LEMMA ConcatBytes ==
  ASSUME NEW a \in Bytes, NEW b \in Bytes
  PROVE  a \o b \in Bytes /\ Len(a \o b) = Len(a) + Len(b) /\ Len(a) \in Nat /\ Len(b) \in Nat
BY ConcatIs DEF Bytes

LEMMA TextFacts ==
  ASSUME NEW s \in DOMAIN Text
  PROVE  /\ Text[s] \in Bytes
         /\ \A t \in DOMAIN Text : Text[s] = Text[t] => s = t
BY KeyAssumption DEF KeyAssumption, Bytes

LEMMA HashFacts ==
  ASSUME NEW s \in DOMAIN Hash16
  PROVE  /\ Hash16[s] \in Bytes /\ Len(Hash16[s]) = HashLen
         /\ \A t \in DOMAIN Hash16 : Hash16[s] = Hash16[t] => s = t
BY KeyAssumption DEF KeyAssumption, Bytes

LEMMA TagFacts ==
  ASSUME NEW s \in Optional(DOMAIN Hash16)
  PROVE  /\ type_tag_hash(s) \in Bytes /\ Len(type_tag_hash(s)) = HashLen
         /\ \A t \in Optional(DOMAIN Hash16) : type_tag_hash(s) = type_tag_hash(t) => s = t
<1> DEFINE zeros == [i \in 1..HashLen |-> 0]
<1>1. zeros \in Bytes /\ Len(zeros) = HashLen
  <2>1. \A i \in 1..HashLen : 0 \in 0..(Base - 1)
    BY BaseIs
  <2>2. zeros \in [1..HashLen -> 0..(Base - 1)]
    BY <2>1
  <2> DEFINE D == 0..(Base - 1)
  <2> HIDE DEF zeros, D
  <2>3. zeros \in [1..HashLen -> D] /\ HashLen \in Nat
    BY <2>2, LengthsNat DEF D
  <2>4. zeros \in Seq(D) /\ Len(zeros) = HashLen
    BY ONLY <2>3
  <2> QED
    BY <2>4 DEF D, Bytes
<1>2. \A t \in Optional(DOMAIN Hash16) :
        type_tag_hash(t) = IF t = None THEN zeros ELSE Hash16[t]
  BY DEF type_tag_hash
<1>3. \A t \in DOMAIN Hash16 : t # None /\ Hash16[t] # zeros
  BY KeyAssumption DEF KeyAssumption
<1> HIDE DEF zeros
<1>4. \A t \in Optional(DOMAIN Hash16) : t = None \/ t \in DOMAIN Hash16
  BY DEF Optional
<1> QED
  BY <1>1, <1>2, <1>3, <1>4, HashFacts

LEMMA NumberFacts ==
  ASSUME NEW n \in Nat, NEW m \in Nat, NEW width \in Nat, Fits(n, width), Fits(m, width)
  PROVE  /\ BigEndian(n, width) \in Bytes /\ Len(BigEndian(n, width)) = width
         /\ n < m => LexLess(BigEndian(n, width), BigEndian(m, width))
         /\ BigEndian(n, width) = BigEndian(m, width) => n = m
<1>1. /\ BigEndian(n, width) \in Bytes /\ Len(BigEndian(n, width)) = width
      /\ BigEndian(m, width) \in Bytes
  BY BigEndianBytes DEF Bytes
<1>2. n < m => LexLess(BigEndian(n, width), BigEndian(m, width))
  BY BigEndianLess
<1>3. m < n => LexLess(BigEndian(m, width), BigEndian(n, width))
  BY BigEndianLess
<1>4. ~LexLess(BigEndian(n, width), BigEndian(n, width))
  BY <1>1, BytesNat, LexIrreflexive
<1> QED
  BY <1>1, <1>2, <1>3, <1>4

LEMMA ChangeFacts ==
  ASSUME chain \in Chains, NEW p \in Triples, p[1] \in 1..Len(chain), InChanges(p)
  PROVE  /\ ChangeAt(p) \in ObjectChange
         /\ ChangeAt(p).object \in Ids /\ ChangeAt(p).object \in DOMAIN Text
         /\ Version(ChangeAt(p)) \in Nat /\ Fits(Version(ChangeAt(p)), U64Len)
         /\ ChangeAt(p).type \in Optional(DOMAIN Hash16)
         /\ Owner(ChangeAt(p)) # None =>
              Owner(ChangeAt(p)) \in Owners /\ Owner(ChangeAt(p)) \in DOMAIN Text
<1> DEFINE ch == ChangeAt(p)
<1>1. p[2] \in 1..Len(chain[p[1]]) /\ p[3] \in 1..Len(chain[p[1]][p[2]].changes) /\ ch.object # None
  BY DEF InChanges, InTx
<1>2. ch \in ObjectChange /\ Fits(Version(ch), U64Len)
  BY <1>1, TxFacts DEF ChangeAt
<1> HIDE DEF ch
<1>3. /\ ch.object \in Optional(Ids) /\ ch.version \in Optional(Nat)
      /\ ch.type \in Optional(DOMAIN Hash16)
      /\ ch.owner \in Optional(Owners) /\ ch.recipient \in Optional(Owners)
  BY <1>2 DEF ObjectChange
<1>4. ch.object \in Ids
  BY <1>1, <1>3 DEF Optional
<1>5. Version(ch) \in Nat
  BY <1>3 DEF Version, Optional
<1>6. Owner(ch) # None => Owner(ch) \in Owners
  BY <1>3 DEF Owner, Optional
<1>7. Ids \subseteq DOMAIN Text /\ Owners \subseteq DOMAIN Text
  BY ChainAssumption DEF ChainAssumption
<1> QED
  BY <1>2, <1>3, <1>4, <1>5, <1>6, <1>7 DEF ch

(* A key of four parts.                                                    *)
Joined(a, b, c, d) == a \o b \o c \o d

Begins(k, a) == \E x \in Bytes : k = a \o x

LEMMA BytesAssociate ==
  ASSUME NEW a \in Bytes, NEW b \in Bytes, NEW c \in Bytes
  PROVE  (a \o b) \o c = a \o (b \o c)
BY ConcatAssociative DEF Bytes

LEMMA FourParts ==
  ASSUME NEW a \in Bytes, NEW b \in Bytes, NEW c \in Bytes, NEW d \in Bytes
  PROVE  /\ Joined(a, b, c, d) \in Bytes
         /\ Len(Joined(a, b, c, d)) = Len(a) + Len(b) + Len(c) + Len(d)
         /\ Begins(Joined(a, b, c, d), a)
         /\ a \o b \in Bytes /\ Begins(Joined(a, b, c, d), a \o b)
<1>1. a \o b \in Bytes /\ Len(a \o b) = Len(a) + Len(b) /\ Len(a) \in Nat /\ Len(b) \in Nat
  BY ConcatBytes
<1> DEFINE u == a \o b
<1> HIDE DEF u
<1>2. u \o c \in Bytes /\ Len(u \o c) = Len(u) + Len(c) /\ Len(c) \in Nat /\ u \in Bytes
  BY <1>1, ConcatBytes DEF u
<1> DEFINE v == u \o c
<1> HIDE DEF v
<1>3. v \o d \in Bytes /\ Len(v \o d) = Len(v) + Len(d) /\ Len(d) \in Nat /\ v \in Bytes
  BY <1>2, ConcatBytes DEF v
<1>4. c \o d \in Bytes /\ b \o c \in Bytes
  BY ConcatBytes
<1>5. (b \o c) \o d \in Bytes
  BY <1>4, ConcatBytes
<1>6. v \o d = u \o (c \o d)
  BY <1>2, BytesAssociate DEF v
<1>7. u \o (c \o d) = a \o (b \o (c \o d)) /\ b \o (c \o d) = (b \o c) \o d
  <2>1. a \in Bytes /\ b \in Bytes /\ c \in Bytes /\ d \in Bytes
    OBVIOUS
  <2>2. b \o (c \o d) = (b \o c) \o d
    BY ONLY <2>1, BytesAssociate
  <2> DEFINE e == c \o d
  <2>3. e \in Bytes
    BY <1>4
  <2> HIDE DEF e
  <2>4. (a \o b) \o e = a \o (b \o e)
    BY ONLY <2>1, <2>3, BytesAssociate
  <2> QED
    BY <2>2, <2>4 DEF e, u
<1>8. Joined(a, b, c, d) = v \o d
  BY DEF Joined, u, v
<1>9. Begins(v \o d, u)
  BY <1>4, <1>6 DEF Begins
<1>10. Begins(v \o d, a)
  BY <1>5, <1>6, <1>7 DEF Begins
<1>11. /\ v \o d \in Bytes /\ Len(v \o d) = Len(a) + Len(b) + Len(c) + Len(d)
       /\ u \in Bytes
  BY <1>1, <1>2, <1>3 DEF u, v
<1> QED
  BY <1>8, <1>9, <1>10, <1>11 DEF u

LEMMA PlaceFacts ==
  ASSUME chain \in Chains, NEW p \in PlacesOf("event_by_type")
  PROVE  /\ p \in Triples /\ p[1] \in Nat /\ p[2] - 1 \in Nat /\ p[3] - 1 \in Nat
         /\ Fits(p[1], U64Len) /\ Fits(p[2] - 1, U32Len) /\ Fits(p[3] - 1, U32Len)
         /\ chain[p[1]][p[2]].events[p[3]] \in DOMAIN Hash16
<1>1. p \in Triples /\ p[1] \in 1..Len(chain) /\ InEvents(p)
  BY DEF PlacesOf, Placed
<1>2. p[2] \in 1..Len(chain[p[1]]) /\ p[3] \in 1..Len(chain[p[1]][p[2]].events)
  BY <1>1 DEF InEvents, InTx
<1>3. /\ Len(chain) \in Nat /\ Fits(Len(chain), U64Len)
      /\ Len(chain[p[1]]) \in Nat /\ Fits(Len(chain[p[1]]), U32Len)
  BY <1>1, ChainFacts
<1>4. /\ Len(chain[p[1]][p[2]].events) \in Nat /\ Fits(Len(chain[p[1]][p[2]].events), U32Len)
      /\ chain[p[1]][p[2]].events[p[3]] \in DOMAIN Hash16
  BY <1>1, <1>2, TxFacts
<1>5. /\ p[1] \in 0..Len(chain) /\ p[2] - 1 \in 0..Len(chain[p[1]])
      /\ p[3] - 1 \in 0..Len(chain[p[1]][p[2]].events)
  <2>1. \A n \in Nat : \A k \in 1..n : k \in 0..n /\ k - 1 \in 0..n
    OBVIOUS
  <2> QED
    BY <1>1, <1>2, <1>3, <1>4, <2>1
<1>6. /\ p[1] \in Nat /\ p[2] - 1 \in Nat /\ p[3] - 1 \in Nat
  BY <1>1, <1>2, <1>3, <1>4
<1>7. Fits(p[1], U64Len)
  BY <1>3, <1>5, LengthsNat, FitsBelow
<1>8. Fits(p[2] - 1, U32Len)
  BY <1>3, <1>5, LengthsNat, FitsBelow
<1>9. Fits(p[3] - 1, U32Len)
  BY <1>4, <1>5, LengthsNat, FitsBelow
<1> QED
  BY <1>1, <1>4, <1>6, <1>7, <1>8, <1>9

EventType(p) == chain[p[1]][p[2]].events[p[3]]

(* The keys of events: under the hash of their type, in chain order.       *)
LEMMA EventKeyIs ==
  ASSUME chain \in Chains, NEW p \in PlacesOf("event_by_type")
  PROVE  /\ EventType(p) \in DOMAIN Hash16
         /\ EventKey(p) = Hash16[EventType(p)] \o BigEndian(p[1], U64Len)
                            \o BigEndian(p[2] - 1, U32Len) \o BigEndian(p[3] - 1, U32Len)
         /\ Hash16[EventType(p)] \in Bytes /\ Len(Hash16[EventType(p)]) = HashLen
         /\ BigEndian(p[1], U64Len) \in Bytes /\ Len(BigEndian(p[1], U64Len)) = U64Len
         /\ BigEndian(p[2] - 1, U32Len) \in Bytes /\ Len(BigEndian(p[2] - 1, U32Len)) = U32Len
         /\ BigEndian(p[3] - 1, U32Len) \in Bytes /\ Len(BigEndian(p[3] - 1, U32Len)) = U32Len
         /\ EventKey(p) \in Bytes /\ Len(EventKey(p)) = HashLen + U64Len + 2 * U32Len
         /\ \A type \in DOMAIN Hash16 : IsPrefix(Hash16[type], EventKey(p)) <=> type = EventType(p)
<1> DEFINE a == Hash16[EventType(p)]
           b == BigEndian(p[1], U64Len)
           c == BigEndian(p[2] - 1, U32Len)
           d == BigEndian(p[3] - 1, U32Len)
<1>1. EventType(p) \in DOMAIN Hash16
  BY PlaceFacts DEF EventType
<1>2. EventKey(p) = a \o b \o c \o d
  BY DEF EventKey, EventType, key_event_by_type, event_type_hash, EventIndex, encode_u64_be,
         encode_u32_be
<1>3. a \in Bytes /\ Len(a) = HashLen
  BY <1>1, HashFacts
<1>4. b \in Bytes /\ Len(b) = U64Len
  BY PlaceFacts, LengthsNat, NumberFacts
<1>5. c \in Bytes /\ Len(c) = U32Len
  BY PlaceFacts, LengthsNat, NumberFacts
<1>6. d \in Bytes /\ Len(d) = U32Len
  BY PlaceFacts, LengthsNat, NumberFacts
<1> HIDE DEF a, b, c, d
<1>7. /\ EventKey(p) \in Bytes
      /\ Len(EventKey(p)) = Len(a) + Len(b) + Len(c) + Len(d)
      /\ Begins(EventKey(p), a)
  <2>1. EventKey(p) = Joined(a, b, c, d)
    BY <1>2 DEF Joined
  <2>2. a \in Bytes /\ b \in Bytes /\ c \in Bytes /\ d \in Bytes
    BY <1>3, <1>4, <1>5, <1>6
  <2>3. Joined(a, b, c, d) \in Bytes
    BY ONLY <2>2, FourParts
  <2>4. Len(Joined(a, b, c, d)) = Len(a) + Len(b) + Len(c) + Len(d)
    BY ONLY <2>2, FourParts
  <2>5. Begins(Joined(a, b, c, d), a)
    BY ONLY <2>2, FourParts
  <2> QED
    BY <2>1, <2>3, <2>4, <2>5
<1>8. Len(EventKey(p)) = HashLen + U64Len + 2 * U32Len
  BY <1>3, <1>4, <1>5, <1>6, <1>7, LengthsNat
<1>9. ASSUME NEW type \in DOMAIN Hash16
      PROVE  IsPrefix(Hash16[type], EventKey(p)) <=> type = EventType(p)
  <2> DEFINE h == Hash16[type]
  <2>1. h \in Bytes /\ Len(h) = Len(a) /\ (h = a <=> type = EventType(p))
    BY <1>1, <1>3, HashFacts DEF a
  <2>2. PICK x \in Bytes : EventKey(p) = a \o x
    BY <1>7 DEF Begins
  <2> HIDE DEF h
  <2>3. IsPrefix(a, a \o x) /\ (IsPrefix(h, a \o x) => h = a)
    BY <1>3, <2>1, PrefixConcat DEF Bytes
  <2> QED
    BY <2>1, <2>2, <2>3 DEF h
<1> QED
  BY <1>1, <1>2, <1>3, <1>4, <1>5, <1>6, <1>7, <1>8, <1>9 DEF a, b, c, d

LEMMA EventKeysGrow ==
  ASSUME chain \in Chains, NEW p \in PlacesOf("event_by_type"), NEW q \in PlacesOf("event_by_type"),
         EventType(p) = EventType(q), Before(p, q)
  PROVE  LexLess(EventKey(p), EventKey(q))
<1> DEFINE a == Hash16[EventType(p)]
           b == BigEndian(p[1], U64Len)
           c == BigEndian(p[2] - 1, U32Len)
           d == BigEndian(p[3] - 1, U32Len)
           f == BigEndian(q[1], U64Len)
           g == BigEndian(q[2] - 1, U32Len)
           h == BigEndian(q[3] - 1, U32Len)
<1>1. /\ EventKey(p) = a \o b \o c \o d
      /\ a \in Bytes /\ b \in Bytes /\ c \in Bytes /\ d \in Bytes
      /\ Len(b) = U64Len /\ Len(c) = U32Len /\ Len(d) = U32Len
  BY EventKeyIs
<1>2. /\ EventKey(q) = a \o f \o g \o h
      /\ f \in Bytes /\ g \in Bytes /\ h \in Bytes
      /\ Len(f) = U64Len /\ Len(g) = U32Len /\ Len(h) = U32Len
  BY EventKeyIs
<1>3. p \in Triples /\ q \in Triples
  BY DEF PlacesOf
<1>4. p[1] < q[1] => LexLess(b, f)
  BY PlaceFacts, LengthsNat, NumberFacts
<1>5. p[2] < q[2] => LexLess(c, g)
  <2>1. p[2] \in Nat /\ q[2] \in Nat
    BY <1>3 DEF Triples
  <2>2. p[2] < q[2] => p[2] - 1 < q[2] - 1
    BY <2>1
  <2> QED
    BY <2>2, PlaceFacts, LengthsNat, NumberFacts
<1>6. p[3] < q[3] => LexLess(d, h)
  <2>1. p[3] \in Nat /\ q[3] \in Nat
    BY <1>3 DEF Triples
  <2>2. p[3] < q[3] => p[3] - 1 < q[3] - 1
    BY <2>1
  <2> QED
    BY <2>2, PlaceFacts, LengthsNat, NumberFacts
<1>7. (p[1] = q[1] => b = f) /\ (p[2] = q[2] => c = g)
  OBVIOUS
<1> HIDE DEF a, b, c, d, f, g, h
<1>8. /\ a \in Seq(Nat) /\ b \in Seq(Nat) /\ c \in Seq(Nat) /\ d \in Seq(Nat)
      /\ f \in Seq(Nat) /\ g \in Seq(Nat) /\ h \in Seq(Nat)
  BY <1>1, <1>2, BytesNat
<1>9. /\ a \o b \in Seq(Nat) /\ Len(a \o b) = Len(a) + U64Len /\ Len(a) \in Nat
      /\ a \o f \in Seq(Nat) /\ Len(a \o f) = Len(a) + U64Len
      /\ a \o b \o c \in Seq(Nat) /\ Len(a \o b \o c) = Len(a) + U64Len + U32Len
      /\ a \o f \o g \in Seq(Nat) /\ Len(a \o f \o g) = Len(a) + U64Len + U32Len
  <2>1. a \o b \in Seq(Nat) /\ Len(a \o b) = Len(a) + U64Len /\ Len(a) \in Nat
    BY <1>1, <1>8, ConcatIs
  <2>2. a \o f \in Seq(Nat) /\ Len(a \o f) = Len(a) + U64Len
    BY <1>2, <1>8, ConcatIs
  <2> DEFINE u == a \o b
             v == a \o f
  <2> HIDE DEF u, v
  <2>3. u \o c \in Seq(Nat) /\ Len(u \o c) = Len(u) + U32Len
    BY <1>1, <1>8, <2>1, ConcatIs DEF u
  <2>4. v \o g \in Seq(Nat) /\ Len(v \o g) = Len(v) + U32Len
    BY <1>2, <1>8, <2>2, ConcatIs DEF v
  <2> QED
    BY <2>1, <2>2, <2>3, <2>4 DEF u, v
<1>10. CASE p[1] < q[1]
  <2>1. LexLess(a \o b, a \o f)
    BY <1>4, <1>8, <1>10, LexCommon
  <2>2. LexLess(a \o b \o c, a \o f \o g)
    BY <1>8, <1>9, <2>1, LexConcat
  <2>3. LexLess(a \o b \o c \o d, a \o f \o g \o h)
    BY <1>8, <1>9, <2>2, LexConcat
  <2> QED
    BY <1>1, <1>2, <2>3
<1>11. CASE p[1] = q[1] /\ p[2] < q[2]
  <2>1. LexLess(a \o b \o c, a \o b \o g)
    BY <1>5, <1>8, <1>9, <1>11, LexCommon
  <2>2. a \o b \o g = a \o f \o g
    BY <1>7, <1>11
  <2>3. LexLess(a \o b \o c \o d, a \o f \o g \o h)
    BY <1>8, <1>9, <2>1, <2>2, LexConcat
  <2> QED
    BY <1>1, <1>2, <2>3
<1>12. CASE p[1] = q[1] /\ p[2] = q[2] /\ p[3] < q[3]
  <2>1. LexLess(a \o b \o c \o d, a \o b \o c \o h)
    BY <1>6, <1>8, <1>9, <1>12, LexCommon
  <2>2. a \o b \o c \o h = a \o f \o g \o h
    BY <1>7, <1>12
  <2> QED
    BY <1>1, <1>2, <2>1, <2>2
<1> QED
  BY <1>10, <1>11, <1>12 DEF Before

LEMMA BytesEqual ==
  ASSUME NEW a \in Bytes, NEW b \in Bytes, NEW x \in Bytes, NEW y \in Bytes,
         a \o x = b \o y, Len(a) = Len(b)
  PROVE  a = b /\ x = y
BY ConcatEqual DEF Bytes

LEMMA VersionKeyIs ==
  ASSUME chain \in Chains, NEW p \in Triples, p[1] \in 1..Len(chain), InChanges(p)
  PROVE  /\ VersionKey(p) = Text[ChangeAt(p).object] \o BigEndian(Version(ChangeAt(p)), U64Len)
         /\ Text[ChangeAt(p).object] \in Bytes
         /\ BigEndian(Version(ChangeAt(p)), U64Len) \in Bytes
         /\ VersionKey(p) \in Bytes
<1>1. VersionKey(p) = Text[ChangeAt(p).object] \o BigEndian(Version(ChangeAt(p)), U64Len)
  BY DEF VersionKey, key_object_version, encode_u64_be
<1>2. Text[ChangeAt(p).object] \in Bytes
  BY ChangeFacts, TextFacts
<1>3. BigEndian(Version(ChangeAt(p)), U64Len) \in Bytes
  BY ChangeFacts, LengthsNat, NumberFacts
<1> QED
  BY <1>1, <1>2, <1>3, ConcatBytes

(* A version key is under one object id and one version.                   *)
LEMMA VersionKeysTell ==
  ASSUME chain \in Chains, NEW p \in Triples, p[1] \in 1..Len(chain), InChanges(p),
         NEW q \in Triples, q[1] \in 1..Len(chain), InChanges(q),
         VersionKey(p) = VersionKey(q)
  PROVE  ChangeAt(p).object = ChangeAt(q).object /\ Version(ChangeAt(p)) = Version(ChangeAt(q))
<1> DEFINE a == Text[ChangeAt(p).object]
           b == BigEndian(Version(ChangeAt(p)), U64Len)
           c == Text[ChangeAt(q).object]
           d == BigEndian(Version(ChangeAt(q)), U64Len)
<1>1. /\ ChangeAt(p).object \in Ids /\ ChangeAt(p).object \in DOMAIN Text
      /\ Version(ChangeAt(p)) \in Nat /\ Fits(Version(ChangeAt(p)), U64Len)
  BY ChangeFacts
<1>2. /\ ChangeAt(q).object \in Ids /\ ChangeAt(q).object \in DOMAIN Text
      /\ Version(ChangeAt(q)) \in Nat /\ Fits(Version(ChangeAt(q)), U64Len)
  BY ChangeFacts
<1>3. Len(a) = Len(c)
  BY <1>1, <1>2, ChainAssumption DEF ChainAssumption
<1>4. (a = c => ChangeAt(p).object = ChangeAt(q).object)
  BY <1>1, <1>2, TextFacts
<1>5. (b = d => Version(ChangeAt(p)) = Version(ChangeAt(q)))
  BY <1>1, <1>2, LengthsNat, NumberFacts
<1>6. a \in Bytes /\ b \in Bytes /\ VersionKey(p) = a \o b
  BY VersionKeyIs
<1>7. c \in Bytes /\ d \in Bytes /\ VersionKey(q) = c \o d
  BY VersionKeyIs
<1> HIDE DEF a, b, c, d
<1>8. a \o b = c \o d
  BY <1>6, <1>7
<1>9. a = c /\ b = d
  BY <1>3, <1>6, <1>7, <1>8, ConcatEqual DEF Bytes
<1> QED
  BY <1>4, <1>5, <1>9

LEMMA OwnerKeyIs ==
  ASSUME chain \in Chains, NEW p \in PlacesOf("owner_touched")
  PROVE  /\ OwnerKey(p) = Joined(Text[Owner(ChangeAt(p))], type_tag_hash(ChangeAt(p).type),
                                 Text[ChangeAt(p).object], BigEndian(Version(ChangeAt(p)), U64Len))
         /\ Text[Owner(ChangeAt(p))] \in Bytes
         /\ type_tag_hash(ChangeAt(p).type) \in Bytes
         /\ Len(type_tag_hash(ChangeAt(p).type)) = HashLen
         /\ Text[ChangeAt(p).object] \in Bytes
         /\ BigEndian(Version(ChangeAt(p)), U64Len) \in Bytes
         /\ OwnerKey(p) \in Bytes
         /\ Owner(ChangeAt(p)) \in Owners /\ Owner(ChangeAt(p)) \in DOMAIN Text
         /\ p \in Triples /\ p[1] \in 1..Len(chain) /\ InChanges(p)
<1>1. p \in Triples /\ p[1] \in 1..Len(chain) /\ InChanges(p) /\ Owner(ChangeAt(p)) # None
  BY DEF PlacesOf, Placed
<1>2. /\ Owner(ChangeAt(p)) \in Owners /\ Owner(ChangeAt(p)) \in DOMAIN Text
      /\ ChangeAt(p).type \in Optional(DOMAIN Hash16)
  BY <1>1, ChangeFacts
<1>3. Text[Owner(ChangeAt(p))] \in Bytes
  BY <1>2, TextFacts
<1>4. type_tag_hash(ChangeAt(p).type) \in Bytes /\ Len(type_tag_hash(ChangeAt(p).type)) = HashLen
  BY <1>2, TagFacts
<1>5. Text[ChangeAt(p).object] \in Bytes /\ BigEndian(Version(ChangeAt(p)), U64Len) \in Bytes
  BY <1>1, VersionKeyIs
<1>6. OwnerKey(p) = Joined(Text[Owner(ChangeAt(p))], type_tag_hash(ChangeAt(p).type),
                           Text[ChangeAt(p).object], BigEndian(Version(ChangeAt(p)), U64Len))
  BY DEF OwnerKey, Joined, key_owner_touched_object, encode_u64_be
<1>7. OwnerKey(p) \in Bytes
  <2> DEFINE a == Text[Owner(ChangeAt(p))]
             b == type_tag_hash(ChangeAt(p).type)
             c == Text[ChangeAt(p).object]
             d == BigEndian(Version(ChangeAt(p)), U64Len)
  <2>1. a \in Bytes /\ b \in Bytes /\ c \in Bytes /\ d \in Bytes
    BY <1>3, <1>4, <1>5
  <2>2. OwnerKey(p) = Joined(a, b, c, d)
    BY <1>6
  <2> HIDE DEF a, b, c, d
  <2>3. Joined(a, b, c, d) \in Bytes
    BY ONLY <2>1, FourParts
  <2> QED
    BY <2>2, <2>3
<1> QED
  BY <1>1, <1>2, <1>3, <1>4, <1>5, <1>6, <1>7

(* Under an owner, with or without a type, there are the keys of the       *)
(* changes that gave something to that owner.                              *)
LEMMA OwnerPrefix ==
  ASSUME chain \in Chains, NEW p \in PlacesOf("owner_touched"), NEW owner \in Owners,
         NEW type \in Optional(DOMAIN Hash16)
  PROVE  /\ key_owner_touched_objects_prefix(Text[owner], type) \in Bytes
         /\ IsPrefix(key_owner_touched_objects_prefix(Text[owner], type), OwnerKey(p))
              <=> Owner(ChangeAt(p)) = owner /\ type \in {None, ChangeAt(p).type}
<1> DEFINE o == Text[Owner(ChangeAt(p))]
           t == type_tag_hash(ChangeAt(p).type)
           i == Text[ChangeAt(p).object]
           v == BigEndian(Version(ChangeAt(p)), U64Len)
           w == Text[owner]
           u == type_tag_hash(type)
           k == OwnerKey(p)
<1>1. /\ k = Joined(o, t, i, v) /\ o \in Bytes /\ t \in Bytes /\ i \in Bytes /\ v \in Bytes
      /\ k \in Bytes /\ Len(t) = HashLen
      /\ Owner(ChangeAt(p)) \in Owners /\ Owner(ChangeAt(p)) \in DOMAIN Text
      /\ p \in Triples /\ p[1] \in 1..Len(chain) /\ InChanges(p)
  BY OwnerKeyIs
<1>2. owner \in DOMAIN Text
  BY ChainAssumption DEF ChainAssumption
<1>3. w \in Bytes /\ u \in Bytes /\ Len(u) = HashLen
  BY <1>2, TextFacts, TagFacts
<1>4. ChangeAt(p).type \in Optional(DOMAIN Hash16)
  BY <1>1, ChangeFacts
<1>5. u = t => type = ChangeAt(p).type
  BY <1>4, TagFacts
<1>6. /\ IsPrefix(o, w) => owner = Owner(ChangeAt(p))
      /\ IsPrefix(w, o) => owner = Owner(ChangeAt(p))
  BY <1>1, ChainAssumption DEF ChainAssumption
<1>7. owner = Owner(ChangeAt(p)) => w = o
  OBVIOUS
<1>8. type = ChangeAt(p).type => u = t
  OBVIOUS
<1> HIDE DEF o, t, i, v, w, u, k
<1>9. Begins(k, o)
  BY <1>1, FourParts
<1>10. o \o t \in Bytes /\ Begins(k, o \o t)
  BY <1>1, FourParts
<1>11. IsPrefix(o, k)
  <2>1. PICK x \in Bytes : k = o \o x
    BY <1>9 DEF Begins
  <2> QED
    BY <1>1, <2>1, PrefixConcat DEF Bytes
<1>12. IsPrefix(w, k) <=> owner = Owner(ChangeAt(p))
  BY <1>1, <1>3, <1>6, <1>7, <1>11, PrefixesNest DEF Bytes
<1>13. w \o u \in Bytes /\ Len(w \o u) = Len(w) + HashLen /\ IsPrefix(w, w \o u)
  BY <1>3, ConcatBytes, PrefixConcat DEF Bytes
<1>14. IsPrefix(w \o u, k) <=> owner = Owner(ChangeAt(p)) /\ type = ChangeAt(p).type
  <2> DEFINE b == w \o u
             c == o \o t
  <2>1. Len(c) = Len(o) + HashLen
    BY <1>1, ConcatBytes
  <2>2. b \in Bytes /\ Len(b) = Len(w) + HashLen /\ IsPrefix(w, b)
    BY <1>13
  <2>3. c \in Bytes /\ Begins(k, c)
    BY <1>10
  <2>4. owner = Owner(ChangeAt(p)) /\ type = ChangeAt(p).type => b = c
    BY <1>7, <1>8
  <2>5. owner = Owner(ChangeAt(p)) /\ b = c => type = ChangeAt(p).type
    <3> SUFFICES ASSUME owner = Owner(ChangeAt(p)), b = c PROVE type = ChangeAt(p).type
      OBVIOUS
    <3>1. w = o
      BY <1>7
    <3>2. o \o u = o \o t /\ Len(o) = Len(o)
      BY <3>1
    <3>3. u = t
      <4>1. o \in Bytes /\ u \in Bytes /\ t \in Bytes
        BY <1>1, <1>3
      <4> QED
        BY ONLY <3>2, <4>1, BytesEqual
    <3> QED
      BY <1>5, <3>3
  <2> HIDE DEF b, c
  <2>6. PICK x \in Bytes : k = c \o x
    BY <2>3 DEF Begins
  <2>7. IsPrefix(c, k) /\ \A e \in Bytes : Len(e) = Len(c) /\ IsPrefix(e, k) => e = c
    BY <2>3, <2>6, PrefixConcat DEF Bytes
  <2>8. ASSUME IsPrefix(b, k)
        PROVE  owner = Owner(ChangeAt(p)) /\ b = c
    <3>1. IsPrefix(w, k)
      <4>1. /\ Len(w) <= Len(b) /\ \A j \in 1..Len(w) : w[j] = b[j]
        <5>1. w \in Bytes /\ b \in Bytes /\ IsPrefix(w, b)
          BY <1>3, <2>2
        <5> QED
          BY ONLY <5>1, PrefixIs DEF Bytes
      <4>2. /\ Len(b) <= Len(k) /\ \A j \in 1..Len(b) : b[j] = k[j]
        BY <1>1, <2>2, <2>8, PrefixIs DEF Bytes
      <4>3. Len(w) \in Nat /\ Len(b) \in Nat /\ Len(k) \in Nat
        BY <1>1, <1>3, <2>2, ConcatBytes
      <4>4. Len(w) <= Len(k) /\ \A j \in 1..Len(w) : w[j] = k[j]
        BY <4>1, <4>2, <4>3
      <4> QED
        BY <1>1, <1>3, <4>4, PrefixIs DEF Bytes
    <3>2. owner = Owner(ChangeAt(p))
      BY <1>12, <3>1
    <3>3. Len(b) = Len(c)
      BY <1>7, <2>1, <2>2, <3>2
    <3> QED
      BY <2>2, <2>7, <2>8, <3>2, <3>3
  <2>9. owner = Owner(ChangeAt(p)) /\ type = ChangeAt(p).type => IsPrefix(b, k)
    BY <2>4, <2>7
  <2>10. IsPrefix(b, k) <=> owner = Owner(ChangeAt(p)) /\ type = ChangeAt(p).type
    BY <2>5, <2>8, <2>9
  <2> QED
    BY <2>10 DEF b
<1>15. key_owner_touched_objects_prefix(w, type) = IF type = None THEN w ELSE w \o u
  BY DEF key_owner_touched_objects_prefix, u
<1>16. /\ key_owner_touched_objects_prefix(w, type) \in Bytes
       /\ IsPrefix(key_owner_touched_objects_prefix(w, type), k)
            <=> Owner(ChangeAt(p)) = owner /\ type \in {None, ChangeAt(p).type}
  <2>1. CASE type = None
    BY <1>3, <1>12, <1>15, <2>1
  <2>2. CASE type # None
    BY <1>13, <1>14, <1>15, <2>2
  <2> QED
    BY <2>1, <2>2
<1> QED
  BY <1>16 DEF w, k

(* An owner's key is under one object id and one version.                  *)
LEMMA OwnerKeysTell ==
  ASSUME chain \in Chains, NEW p \in PlacesOf("owner_touched"), NEW q \in PlacesOf("owner_touched"),
         OwnerKey(p) = OwnerKey(q)
  PROVE  ChangeAt(p).object = ChangeAt(q).object /\ Version(ChangeAt(p)) = Version(ChangeAt(q))
<1>1. /\ p \in Triples /\ p[1] \in 1..Len(chain) /\ InChanges(p)
      /\ q \in Triples /\ q[1] \in 1..Len(chain) /\ InChanges(q)
      /\ Owner(ChangeAt(p)) \in Owners /\ ChangeAt(p).type \in Optional(DOMAIN Hash16)
  BY OwnerKeyIs, ChangeFacts
<1> DEFINE pre == key_owner_touched_objects_prefix(Text[Owner(ChangeAt(p))], None)
<1>2. None \in Optional(DOMAIN Hash16)
  BY DEF Optional
<1>3. IsPrefix(pre, OwnerKey(p))
  BY <1>1, <1>2, OwnerPrefix
<1>4. IsPrefix(pre, OwnerKey(q)) => Owner(ChangeAt(q)) = Owner(ChangeAt(p))
  BY <1>1, <1>2, OwnerPrefix
<1> HIDE DEF pre
<1>5. Owner(ChangeAt(q)) = Owner(ChangeAt(p))
  BY <1>3, <1>4
<1> DEFINE o == Text[Owner(ChangeAt(p))]
           t == type_tag_hash(ChangeAt(p).type)
           i == Text[ChangeAt(p).object]
           v == BigEndian(Version(ChangeAt(p)), U64Len)
           s == type_tag_hash(ChangeAt(q).type)
           j == Text[ChangeAt(q).object]
           w == BigEndian(Version(ChangeAt(q)), U64Len)
<1>6. /\ OwnerKey(p) = Joined(o, t, i, v) /\ o \in Bytes /\ t \in Bytes /\ i \in Bytes /\ v \in Bytes
      /\ Len(t) = HashLen
  BY OwnerKeyIs
<1>7. /\ OwnerKey(q) = Joined(o, s, j, w) /\ s \in Bytes /\ j \in Bytes /\ w \in Bytes
      /\ Len(s) = HashLen
  BY <1>5, OwnerKeyIs
<1>8. /\ ChangeAt(p).object \in Ids /\ ChangeAt(p).object \in DOMAIN Text
      /\ Version(ChangeAt(p)) \in Nat /\ Fits(Version(ChangeAt(p)), U64Len)
  BY <1>1, ChangeFacts
<1>9. /\ ChangeAt(q).object \in Ids /\ ChangeAt(q).object \in DOMAIN Text
      /\ Version(ChangeAt(q)) \in Nat /\ Fits(Version(ChangeAt(q)), U64Len)
  BY <1>1, ChangeFacts
<1>10. Len(i) = Len(j)
  BY <1>8, <1>9, ChainAssumption DEF ChainAssumption
<1>11. (i = j => ChangeAt(p).object = ChangeAt(q).object)
  BY <1>8, <1>9, TextFacts
<1>12. (v = w => Version(ChangeAt(p)) = Version(ChangeAt(q)))
  BY <1>8, <1>9, LengthsNat, NumberFacts
<1> HIDE DEF o, t, i, v, s, j, w
<1>13. Joined(o, t, i, v) = Joined(o, s, j, w) /\ Len(t) = Len(s) /\ Len(o) = Len(o)
  BY <1>6, <1>7
<1>14. i = j /\ v = w
  <2>1. /\ o \in Bytes /\ t \in Bytes /\ i \in Bytes /\ v \in Bytes
        /\ s \in Bytes /\ j \in Bytes /\ w \in Bytes
    BY <1>6, <1>7
  <2>2. Len(o) = Len(o) /\ Len(t) = Len(s) /\ Len(i) = Len(j)
    BY <1>10, <1>13
  <2>3. Joined(o, t, i, v) = Joined(o, s, j, w)
    BY <1>13
  <2> DEFINE u == o \o t
             x == o \o s
  <2>4. u \in Bytes /\ Len(u) = Len(o) + Len(t) /\ Len(o) \in Nat /\ Len(t) \in Nat
    BY <2>1, ConcatBytes
  <2>5. x \in Bytes /\ Len(x) = Len(o) + Len(s)
    BY <2>1, ConcatBytes
  <2>6. Len(u) = Len(x)
    BY <2>2, <2>4, <2>5
  <2> HIDE DEF u, x
  <2> DEFINE y == u \o i
             z == x \o j
  <2>7. y \in Bytes /\ Len(y) = Len(u) + Len(i)
    BY <2>1, <2>4, ConcatBytes
  <2>8. z \in Bytes /\ Len(z) = Len(x) + Len(j)
    BY <2>1, <2>5, ConcatBytes
  <2>9. Len(y) = Len(z)
    BY <2>2, <2>6, <2>7, <2>8
  <2> HIDE DEF y, z
  <2>10. y \o v = z \o w
    BY <2>3 DEF Joined, u, x, y, z
  <2>11. y = z /\ v = w
    <3>1. y \in Bytes /\ z \in Bytes /\ v \in Bytes /\ w \in Bytes
      BY <2>1, <2>7, <2>8
    <3> QED
      BY ONLY <2>9, <2>10, <3>1, BytesEqual
  <2>12. u \o i = x \o j
    BY <2>11 DEF y, z
  <2>13. i = j
    <3>1. u \in Bytes /\ x \in Bytes /\ i \in Bytes /\ j \in Bytes
      BY <2>1, <2>4, <2>5
    <3> QED
      BY ONLY <2>6, <2>12, <3>1, BytesEqual
  <2> QED
    BY <2>11, <2>13
<1> QED
  BY <1>11, <1>12, <1>14

-----------------------------------------------------------------------------
(* A store holds the rows of a set of places of a column family: it has    *)
(* keys for these places and no others, and under each key the record of   *)
(* the last place with that key.                                           *)

LastWith(cf, P, p) == \A q \in P : Row(cf, q).at = Row(cf, p).at => ~Before(p, q)

Holds(store, cf, P) ==
  /\ P \in SUBSET Triples /\ IsFiniteSet(P)
  /\ \A p \in P : Row(cf, p).at \in DOMAIN store
  /\ \A at \in DOMAIN store : at[1] = cf => \E p \in P : Row(cf, p).at = at
  /\ \A p \in P : LastWith(cf, P, p) => store[Row(cf, p).at] = Row(cf, p).record

Stored(store, H) ==
  /\ store = [at \in DOMAIN store |-> store[at]]
  /\ IsFiniteSet(DOMAIN store)
  /\ \A at \in DOMAIN store : at[1] \in ColumnFamilies
  /\ \A cf \in ColumnFamilies : Holds(store, cf, H[cf])

LEMMA PutRow ==
  ASSUME NEW s, NEW H, Stored(s, H), NEW G, NEW cf \in ColumnFamilies, NEW p \in Triples,
         \A q \in H[cf] : Before(q, p), G[cf] = H[cf] \cup {p},
         \A d \in ColumnFamilies : d # cf => G[d] = H[d]
  PROVE  Stored(WriteBatch(s, <<Row(cf, p)>>), G)
<1> DEFINE r == Row(cf, p)
           v == WriteBatch(s, <<r>>)
<1>1. v = [at \in DOMAIN s \cup {r.at} |-> IF at = r.at THEN r.record ELSE s[at]]
  BY WriteOne
<1>2. r.at = <<cf, KeyAt(cf, p)>> /\ r.at[1] = cf
  BY RowAt
<1> HIDE DEF v
<1>3. /\ DOMAIN v = DOMAIN s \cup {r.at}
      /\ v[r.at] = r.record
      /\ \A at \in DOMAIN s : at # r.at => v[at] = s[at]
      /\ v = [at \in DOMAIN v |-> v[at]]
  BY <1>1
<1>4. IsFiniteSet(DOMAIN v) /\ \A at \in DOMAIN v : at[1] \in ColumnFamilies
  <2>1. IsFiniteSet(DOMAIN s) /\ \A at \in DOMAIN s : at[1] \in ColumnFamilies
    BY DEF Stored
  <2> QED
    BY <1>2, <1>3, <2>1, FS_AddElement
<1>5. ASSUME NEW d \in ColumnFamilies, d # cf
      PROVE  Holds(v, d, G[d])
  <2>1. Holds(s, d, H[d]) /\ G[d] = H[d]
    BY <1>5 DEF Stored
  <2>2. \A q : Row(d, q).at[1] = d
    BY RowAt
  <2>3. \A q : Row(d, q).at # r.at
    BY <1>2, <1>5, <2>2
  <2> QED
    BY <1>2, <1>3, <1>5, <2>1, <2>3 DEF Holds
<1>6. Holds(v, cf, G[cf])
  <2> DEFINE P == H[cf]
  <2>1. Holds(s, cf, P) /\ G[cf] = P \cup {p} /\ \A q \in P : Before(q, p)
    BY DEF Stored
  <2> HIDE DEF P, r
  <2>2. /\ P \in SUBSET Triples /\ IsFiniteSet(P)
        /\ \A q \in P : Row(cf, q).at \in DOMAIN s
        /\ \A at \in DOMAIN s : at[1] = cf => \E q \in P : Row(cf, q).at = at
        /\ \A q \in P : LastWith(cf, P, q) => s[Row(cf, q).at] = Row(cf, q).record
    BY <2>1 DEF Holds
  <2>3. G[cf] \in SUBSET Triples /\ IsFiniteSet(G[cf])
    BY <2>1, <2>2, FS_AddElement
  <2>4. \A q \in G[cf] : Row(cf, q).at \in DOMAIN v
    BY <1>3, <2>1, <2>2 DEF r
  <2>5. \A at \in DOMAIN v : at[1] = cf => \E q \in G[cf] : Row(cf, q).at = at
    BY <1>3, <2>1, <2>2 DEF r
  <2>6. ASSUME NEW q \in G[cf], LastWith(cf, G[cf], q)
        PROVE  v[Row(cf, q).at] = Row(cf, q).record
    <3>1. CASE q = p
      BY <1>3, <3>1 DEF r
    <3>2. CASE q \in P
      <4>1. Row(cf, q).at # r.at
        BY <2>1, <2>6, <3>2 DEF LastWith, r
      <4>2. LastWith(cf, P, q)
        BY <2>1, <2>6 DEF LastWith
      <4>3. Row(cf, q).at \in DOMAIN s /\ s[Row(cf, q).at] = Row(cf, q).record
        BY <2>2, <3>2, <4>2
      <4> QED
        BY <1>3, <4>1, <4>3
    <3> QED
      BY <2>1, <3>1, <3>2
  <2> QED
    BY <2>3, <2>4, <2>5, <2>6 DEF Holds
<1>7. \A d \in ColumnFamilies : Holds(v, d, G[d])
  BY <1>5, <1>6
<1>8. Stored(v, G)
  BY <1>3, <1>4, <1>7 DEF Stored
<1> QED
  BY <1>8 DEF v

(* The places before a mark, one mark for the checkpoints, transactions,   *)
(* events and object changes each.                                         *)

UpTo(cf, m) == {p \in PlacesOf(cf) : Before(p, m)}

Held(x, t, e, o) ==
  [cf \in ColumnFamilies |->
     CASE cf = "checkpoint" -> UpTo(cf, x)
       [] cf = "tx_by_digest" -> UpTo(cf, t)
       [] cf = "event_by_type" -> UpTo(cf, e)
       [] OTHER -> UpTo(cf, o)]

LEMMA HeldIs ==
  ASSUME NEW x, NEW t, NEW e, NEW o
  PROVE  /\ Held(x, t, e, o)["checkpoint"] = UpTo("checkpoint", x)
         /\ Held(x, t, e, o)["tx_by_digest"] = UpTo("tx_by_digest", t)
         /\ Held(x, t, e, o)["event_by_type"] = UpTo("event_by_type", e)
         /\ Held(x, t, e, o)["object_version"] = UpTo("object_version", o)
         /\ Held(x, t, e, o)["object_last_seen"] = UpTo("object_last_seen", o)
         /\ Held(x, t, e, o)["owner_touched"] = UpTo("owner_touched", o)
BY DEF Held, ColumnFamilies

(* The places of each column family decide where the marks stand.          *)
LEMMA SameHeld ==
  ASSUME NEW x, NEW t, NEW e, NEW o, NEW y, NEW u, NEW f, NEW n,
         UpTo("checkpoint", x) = UpTo("checkpoint", y),
         UpTo("tx_by_digest", t) = UpTo("tx_by_digest", u),
         UpTo("event_by_type", e) = UpTo("event_by_type", f),
         UpTo("object_version", o) = UpTo("object_version", n),
         UpTo("object_last_seen", o) = UpTo("object_last_seen", n),
         UpTo("owner_touched", o) = UpTo("owner_touched", n),
         NEW s, Stored(s, Held(x, t, e, o))
  PROVE  Stored(s, Held(y, u, f, n))
<1>1. \A cf \in ColumnFamilies : Held(x, t, e, o)[cf] = Held(y, u, f, n)[cf]
  BY HeldIs DEF ColumnFamilies
<1> QED
  BY <1>1 DEF Stored

LEMMA UpToNext ==
  ASSUME NEW cf, NEW c \in Nat, NEW u \in Nat, NEW i \in Nat
  PROVE  UpTo(cf, <<c, u, i + 1>>) =
           UpTo(cf, <<c, u, i>>) \cup ({<<c, u, i>>} \cap PlacesOf(cf))
<1>1. ASSUME NEW p \in Triples
      PROVE  Before(p, <<c, u, i + 1>>) <=> Before(p, <<c, u, i>>) \/ p = <<c, u, i>>
  <2>1. p = <<p[1], p[2], p[3]>> /\ p[1] \in Nat /\ p[2] \in Nat /\ p[3] \in Nat
    BY DEF Triples
  <2>2. p = <<c, u, i>> <=> p[1] = c /\ p[2] = u /\ p[3] = i
    BY <2>1
  <2>3. p[3] < i + 1 <=> p[3] < i \/ p[3] = i
    BY <2>1
  <2> QED
    BY <2>2, <2>3 DEF Before
<1>2. PlacesOf(cf) \subseteq Triples
  BY DEF PlacesOf
<1> QED
  BY <1>1, <1>2 DEF UpTo

LEMMA UpToMore ==
  ASSUME NEW cf \in ColumnFamilies, NEW c \in Nat, NEW u \in Nat, NEW i \in Nat,
         <<c, u, i>> \in PlacesOf(cf)
  PROVE  /\ UpTo(cf, <<c, u, i + 1>>) = UpTo(cf, <<c, u, i>>) \cup {<<c, u, i>>}
         /\ <<c, u, i>> \in Triples
         /\ \A q \in UpTo(cf, <<c, u, i>>) : Before(q, <<c, u, i>>)
BY UpToNext DEF UpTo, PlacesOf

LEMMA UpToNoMore ==
  ASSUME NEW cf, NEW c \in Nat, NEW u \in Nat, NEW i \in Nat, <<c, u, i>> \notin PlacesOf(cf)
  PROVE  UpTo(cf, <<c, u, i + 1>>) = UpTo(cf, <<c, u, i>>)
<1>1. {<<c, u, i>>} \cap PlacesOf(cf) = {}
  OBVIOUS
<1>2. UpTo(cf, <<c, u, i + 1>>) =
        UpTo(cf, <<c, u, i>>) \cup ({<<c, u, i>>} \cap PlacesOf(cf))
  BY UpToNext
<1> QED
  BY ONLY <1>1, <1>2

-----------------------------------------------------------------------------
(* The puts of a change, a transaction and a checkpoint move the marks     *)
(* past it.                                                                *)

AllPuts == {Row(cf, p) : cf \in ColumnFamilies, p \in Triples}

LEMMA TriplesIs ==
  ASSUME NEW c \in Nat, NEW u \in Nat, NEW i \in Nat
  PROVE  <<c, u, i>> \in Triples
BY DEF Triples

LEMMA PutsOfChange ==
  ASSUME chain \in Chains, NEW p \in Triples
  PROVE  ChangePuts(p[1], ChangeAt(p)) =
           IF ChangeAt(p).object = None THEN <<>>
           ELSE <<Row("object_version", p), Row("object_last_seen", p)>>
                  \o (IF Owner(ChangeAt(p)) = None THEN <<>> ELSE <<Row("owner_touched", p)>>)
<1> DEFINE a == Row("object_version", p)
           b == Row("object_last_seen", p)
           c == Row("owner_touched", p)
<1>1. /\ a = ObjectPuts(p[1], ChangeAt(p))[1]
      /\ b = ObjectPuts(p[1], ChangeAt(p))[2]
      /\ c = OwnerPut(p[1], ChangeAt(p))
  BY RowIs
<1> HIDE DEF a, b, c
<1>2. ObjectPuts(p[1], ChangeAt(p)) = <<a, b>>
  BY <1>1 DEF ObjectPuts
<1>3. ChangePuts(p[1], ChangeAt(p)) =
        IF ChangeAt(p).object = None THEN <<>>
        ELSE <<a, b>> \o (IF Owner(ChangeAt(p)) = None THEN <<>> ELSE <<c>>)
  BY <1>1, <1>2 DEF ChangePuts
<1> QED
  BY <1>3 DEF a, b, c

LEMMA PutsType ==
  ASSUME NEW a \in AllPuts, NEW b \in AllPuts, NEW c \in AllPuts
  PROVE  <<a, b>> \in Seq(AllPuts) /\ <<c>> \in Seq(AllPuts) /\ <<>> \in Seq(AllPuts)
OBVIOUS

LEMMA ChangeStep ==
  ASSUME chain \in Chains, NEW c \in 1..Len(chain), NEW u \in 1..Len(chain[c]),
         NEW i \in 1..Len(chain[c][u].changes), NEW x, NEW t, NEW e, NEW s,
         Stored(s, Held(x, t, e, <<c, u, i>>))
  PROVE  /\ ChangePuts(c, chain[c][u].changes[i]) \in Seq(AllPuts)
         /\ Stored(WriteBatch(s, ChangePuts(c, chain[c][u].changes[i])),
                   Held(x, t, e, <<c, u, i + 1>>))
<1> DEFINE p == <<c, u, i>>
           q == <<c, u, i + 1>>
           H == Held(x, t, e, p)
           G == Held(x, t, e, q)
           ch == chain[c][u].changes[i]
<1>1. c \in Nat /\ u \in Nat /\ i \in Nat
  BY ChainFacts, TxFacts
<1>2. p \in Triples /\ p[1] = c /\ p[2] = u /\ p[3] = i
  BY <1>1, TriplesIs
<1>3. ChangeAt(p) = ch
  BY <1>2 DEF ChangeAt
<1>4. /\ p \in PlacesOf("object_version") <=> ch.object # None
      /\ p \in PlacesOf("object_last_seen") <=> ch.object # None
      /\ p \in PlacesOf("owner_touched") <=> ch.object # None /\ Owner(ch) # None
  BY <1>2, <1>3 DEF PlacesOf, Placed, InChanges, InTx
<1>5. \A cf \in ColumnFamilies :
        /\ p \in PlacesOf(cf) => /\ UpTo(cf, q) = UpTo(cf, p) \cup {p}
                                 /\ \A r \in UpTo(cf, p) : Before(r, p)
        /\ p \notin PlacesOf(cf) => UpTo(cf, q) = UpTo(cf, p)
  <2> TAKE cf \in ColumnFamilies
  <2>1. CASE p \in PlacesOf(cf)
    <3>1. <<c, u, i>> \in PlacesOf(cf)
      BY <2>1
    <3>2. UpTo(cf, <<c, u, i + 1>>) = UpTo(cf, <<c, u, i>>) \cup {<<c, u, i>>}
      BY <1>1, <3>1, UpToMore
    <3>3. \A r \in UpTo(cf, <<c, u, i>>) : Before(r, <<c, u, i>>)
      BY DEF UpTo
    <3> QED
      BY <2>1, <3>2, <3>3
  <2>2. CASE p \notin PlacesOf(cf)
    BY <1>1, <2>2, UpToNoMore
  <2> QED
    BY <2>1, <2>2
<1>6. /\ H["checkpoint"] = G["checkpoint"]
      /\ H["tx_by_digest"] = G["tx_by_digest"]
      /\ H["event_by_type"] = G["event_by_type"]
      /\ H["object_version"] = UpTo("object_version", p)
      /\ G["object_version"] = UpTo("object_version", q)
      /\ H["object_last_seen"] = UpTo("object_last_seen", p)
      /\ G["object_last_seen"] = UpTo("object_last_seen", q)
      /\ H["owner_touched"] = UpTo("owner_touched", p)
      /\ G["owner_touched"] = UpTo("owner_touched", q)
  BY HeldIs
<1> DEFINE a == Row("object_version", p)
           b == Row("object_last_seen", p)
           d == Row("owner_touched", p)
<1>7. a \in AllPuts /\ b \in AllPuts /\ d \in AllPuts
  BY <1>2, OneColumnFamily DEF AllPuts
<1>8. ChangePuts(c, ch) = IF ch.object = None THEN <<>>
                          ELSE <<a, b>> \o (IF Owner(ch) = None THEN <<>> ELSE <<d>>)
  BY <1>2, <1>3, PutsOfChange
<1>9. Stored(s, H)
  OBVIOUS
<1> HIDE DEF p, q, H, G, ch, a, b, d
<1>10. CASE ch.object = None
  <2>1. ChangePuts(c, ch) = <<>> /\ <<>> \in Seq(AllPuts)
    BY <1>7, <1>8, <1>10, PutsType
  <2>2. WriteBatch(s, <<>>) = s
    BY <1>9, WriteNone DEF Stored
  <2>3. \A cf \in ColumnFamilies : H[cf] = G[cf]
    BY <1>4, <1>5, <1>6, <1>10 DEF ColumnFamilies
  <2>4. Stored(s, G)
    BY <1>9, <2>3 DEF Stored
  <2> QED
    BY <2>1, <2>2, <2>4 DEF G, q, ch
<1>11. CASE ch.object # None
  <2> DEFINE v == WriteBatch(s, <<a>>)
             w == WriteBatch(v, <<b>>)
             z == WriteBatch(w, <<d>>)
             I == [H EXCEPT !["object_version"] = G["object_version"]]
             J == [I EXCEPT !["object_last_seen"] = G["object_last_seen"]]
  <2>1. DOMAIN H = ColumnFamilies
    BY DEF H, Held
  <2>2. /\ I["object_version"] = G["object_version"]
        /\ \A cf \in ColumnFamilies : cf # "object_version" => I[cf] = H[cf]
        /\ DOMAIN I = ColumnFamilies
    BY <2>1, OneColumnFamily
  <2> HIDE DEF I
  <2>3. /\ J["object_last_seen"] = G["object_last_seen"]
        /\ \A cf \in ColumnFamilies : cf # "object_last_seen" => J[cf] = I[cf]
    BY <2>2, OneColumnFamily
  <2> HIDE DEF J, v, w, z
  <2>4. Stored(v, I)
    <3>1. G["object_version"] = H["object_version"] \cup {p} /\ \A r \in H["object_version"] : Before(r, p)
      BY <1>4, <1>5, <1>6, <1>11, OneColumnFamily
    <3>2. "object_version" \in ColumnFamilies /\ I["object_version"] = H["object_version"] \cup {p}
      BY <2>2, <3>1, OneColumnFamily
    <3> QED
      BY <1>2, <1>9, <2>2, <3>1, <3>2, PutRow DEF v, a
  <2>5. Stored(w, J)
    <3>1. /\ G["object_last_seen"] = H["object_last_seen"] \cup {p}
          /\ \A r \in H["object_last_seen"] : Before(r, p)
      BY <1>4, <1>5, <1>6, <1>11, OneColumnFamily
    <3>2. I["object_last_seen"] = H["object_last_seen"]
      BY <2>2, OneColumnFamily
    <3>3. /\ "object_last_seen" \in ColumnFamilies /\ J["object_last_seen"] = I["object_last_seen"] \cup {p}
          /\ \A r \in I["object_last_seen"] : Before(r, p)
      BY <2>3, <3>1, <3>2, OneColumnFamily
    <3> QED
      BY <1>2, <2>3, <2>4, <3>3, PutRow DEF w, b
  <2>6. /\ \A cf \in {"checkpoint", "tx_by_digest", "event_by_type", "object_version",
                      "object_last_seen"} : J[cf] = G[cf]
        /\ J["owner_touched"] = H["owner_touched"]
    BY <1>6, <2>2, <2>3 DEF ColumnFamilies
  <2>7. <<a, b>> \in Seq(AllPuts) /\ <<d>> \in Seq(AllPuts) /\ <<>> \in Seq(AllPuts)
    BY <1>7, PutsType
  <2>8. WriteBatch(s, <<a, b>>) = w
    BY WriteTwo DEF v, w
  <2>9. CASE Owner(ch) = None
    <3>1. ChangePuts(c, ch) = <<a, b>>
      <4> DEFINE y == <<a, b>>
      <4>1. ChangePuts(c, ch) = y \o <<>>
        BY <1>8, <1>11, <2>9
      <4>2. y \in Seq(AllPuts)
        BY <2>7
      <4> HIDE DEF y
      <4>3. y \o <<>> = y
        BY <4>2, ConcatEmptySeq
      <4> QED
        BY <4>1, <4>3 DEF y
    <3>2. G["owner_touched"] = H["owner_touched"]
      BY <1>4, <1>5, <1>6, <2>9, OneColumnFamily
    <3>3. \A cf \in ColumnFamilies : J[cf] = G[cf]
      BY <2>6, <3>2 DEF ColumnFamilies
    <3>4. Stored(w, G)
      BY <2>5, <3>3 DEF Stored
    <3> QED
      BY <2>7, <2>8, <3>1, <3>4 DEF G, q, ch
  <2>10. CASE Owner(ch) # None
    <3> DEFINE y == <<a, b>>
               k == <<d>>
    <3>1. ChangePuts(c, ch) = y \o k
      BY <1>8, <1>11, <2>10
    <3>2. y \in Seq(AllPuts) /\ k \in Seq(AllPuts)
      BY <2>7
    <3>3. WriteBatch(s, y) = w
      BY <2>8
    <3>4. z = WriteBatch(w, k)
      BY DEF z
    <3> HIDE DEF y, k
    <3>5. WriteBatch(s, ChangePuts(c, ch)) = z
      BY <3>1, <3>2, <3>3, <3>4, WriteConcat
    <3>6. ChangePuts(c, ch) \in Seq(AllPuts)
      BY <3>1, <3>2, ConcatProperties
    <3>7. /\ G["owner_touched"] = H["owner_touched"] \cup {p}
          /\ \A r \in H["owner_touched"] : Before(r, p)
      BY <1>4, <1>5, <1>6, <1>11, <2>10, OneColumnFamily
    <3>8. /\ "owner_touched" \in ColumnFamilies /\ G["owner_touched"] = J["owner_touched"] \cup {p}
          /\ \A r \in J["owner_touched"] : Before(r, p)
      BY <2>6, <3>7, OneColumnFamily
    <3>9. \A cf \in ColumnFamilies : cf # "owner_touched" => G[cf] = J[cf]
      BY <2>6 DEF ColumnFamilies
    <3>10. Stored(z, G)
      BY <1>2, <2>5, <3>8, <3>9, PutRow DEF z, d
    <3> QED
      BY <3>5, <3>6, <3>10 DEF G, q, ch
  <2> QED
    BY <2>9, <2>10
<1> QED
  BY <1>10, <1>11

LEMMA StoredSteps ==
  ASSUME NEW n \in Nat, NEW g, \A i \in 1..n : g[i] \in Seq(AllPuts),
         NEW G, NEW s, Stored(s, G[0]),
         \A k \in 0..(n - 1) : \A v : Stored(v, G[k]) => Stored(WriteBatch(v, g[k + 1]), G[k + 1])
  PROVE  \A k \in 0..n : Stored(WriteBatch(s, FlattenSeq(First(g, k))), G[k])
<1> DEFINE S == {k \in 0..n : Stored(WriteBatch(s, FlattenSeq(First(g, k))), G[k])}
<1>1. 0 \in S
  <2>1. FlattenSeq(First(g, 0)) = <<>>
    BY FlattenNone
  <2>2. WriteBatch(s, <<>>) = s
    BY WriteNone DEF Stored
  <2> QED
    BY <2>1, <2>2
<1>2. ASSUME NEW k \in 0..(n - 1), k \in S
      PROVE  k + 1 \in S
  <2> DEFINE a == FlattenSeq(First(g, k))
             b == g[k + 1]
  <2>1. k \in Nat /\ k \in 0..n /\ k + 1 \in 1..n /\ k + 1 \in 0..n
    OBVIOUS
  <2>2. b \in Seq(AllPuts) /\ a \in Seq(AllPuts)
    BY <2>1, FlattenType
  <2>3. FlattenSeq(First(g, k + 1)) = a \o b
    BY <2>1, <2>2, FlattenNext
  <2>4. Stored(WriteBatch(s, a), G[k])
    BY <1>2
  <2>5. Stored(WriteBatch(WriteBatch(s, a), b), G[k + 1])
    BY <2>4
  <2> HIDE DEF a, b
  <2>6. WriteBatch(WriteBatch(s, a), b) = WriteBatch(s, a \o b)
    BY <2>2, WriteConcat
  <2> QED
    BY <2>1, <2>3, <2>5, <2>6
<1> HIDE DEF S
<1>3. \A k \in 0..n : k \in S
  BY <1>1, <1>2, BoundedInduction
<1> QED
  BY <1>3 DEF S

LEMMA StoredPuts ==
  ASSUME NEW n \in Nat, NEW g, \A i \in 1..n : g[i] \in AllPuts,
         NEW G, NEW s, Stored(s, G[0]),
         \A k \in 0..(n - 1) : \A v : Stored(v, G[k]) => Stored(WriteBatch(v, <<g[k + 1]>>), G[k + 1])
  PROVE  \A k \in 0..n : First(g, k) \in Seq(AllPuts) /\ Stored(WriteBatch(s, First(g, k)), G[k])
<1> DEFINE S == {k \in 0..n : First(g, k) \in Seq(AllPuts) /\ Stored(WriteBatch(s, First(g, k)), G[k])}
<1>1. 0 \in S
  <2>1. First(g, 0) = <<>>
    BY DEF First
  <2>2. WriteBatch(s, <<>>) = s
    BY WriteNone DEF Stored
  <2>3. First(g, 0) \in Seq(AllPuts)
    <3>1. <<>> \in Seq(AllPuts)
      OBVIOUS
    <3> QED
      BY ONLY <2>1, <3>1
  <2>4. Stored(WriteBatch(s, First(g, 0)), G[0])
    BY <2>1, <2>2
  <2> QED
    BY <2>3, <2>4
<1>2. ASSUME NEW k \in 0..(n - 1), k \in S
      PROVE  k + 1 \in S
  <2> DEFINE a == First(g, k)
             b == <<g[k + 1]>>
  <2>1. k \in Nat /\ k + 1 \in 1..n /\ k + 1 \in 0..n /\ \A i \in 1..(k + 1) : i \in 1..n
    OBVIOUS
  <2>2. First(g, k + 1) = a \o b
    BY <2>1, FirstNext
  <2>3. a \in Seq(AllPuts) /\ Stored(WriteBatch(s, a), G[k])
    BY <1>2
  <2>4. b \in Seq(AllPuts)
    BY <2>1
  <2>5. Stored(WriteBatch(WriteBatch(s, a), b), G[k + 1])
    BY <2>3
  <2> HIDE DEF a, b
  <2>6. WriteBatch(WriteBatch(s, a), b) = WriteBatch(s, a \o b) /\ a \o b \in Seq(AllPuts)
    BY <2>3, <2>4, WriteConcat, ConcatProperties
  <2> QED
    BY <2>1, <2>2, <2>5, <2>6
<1> HIDE DEF S
<1>3. \A k \in 0..n : k \in S
  BY <1>1, <1>2, BoundedInduction
<1> QED
  BY <1>3 DEF S

(* Marks with no place between them are the same.                          *)
LEMMA MarksMeet ==
  ASSUME chain \in Chains, NEW c \in 1..Len(chain)
  PROVE  /\ UpTo("checkpoint", <<c, 0, 1>>) = UpTo("checkpoint", <<c + 1, 0, 0>>)
         /\ \A cf \in ColumnFamilies :
              cf # "checkpoint" => /\ UpTo(cf, <<c, 0, 0>>) = UpTo(cf, <<c, 1, 0>>)
                                   /\ UpTo(cf, <<c, Len(chain[c]) + 1, 0>>) = UpTo(cf, <<c + 1, 0, 0>>)
<1>1. c \in Nat /\ Len(chain[c]) \in Nat
  BY ChainFacts
<1>2. \A cf : \A p \in PlacesOf(cf) : p[1] \in Nat /\ p[2] \in Nat /\ p[3] \in Nat /\ Placed(cf, p)
  BY DEF PlacesOf, Triples
<1>3. \A p \in PlacesOf("checkpoint") : Before(p, <<c, 0, 1>>) <=> Before(p, <<c + 1, 0, 0>>)
  <2>1. \A p \in PlacesOf("checkpoint") : p[1] \in Nat /\ p[2] = 0 /\ p[3] = 0
    BY <1>2 DEF Placed
  <2> QED
    BY <1>1, <2>1 DEF Before
<1>4. ASSUME NEW cf \in ColumnFamilies, cf # "checkpoint", NEW p \in PlacesOf(cf)
      PROVE  /\ Before(p, <<c, 0, 0>>) <=> Before(p, <<c, 1, 0>>)
             /\ Before(p, <<c, Len(chain[c]) + 1, 0>>) <=> Before(p, <<c + 1, 0, 0>>)
  <2>1. InTx(p)
    BY <1>2, <1>4 DEF Placed, InEvents, InChanges, ColumnFamilies
  <2>2. p[2] \in 1..Len(chain[p[1]])
    BY <2>1 DEF InTx
  <2>3. p[2] > 0 /\ (p[1] = c => p[2] < Len(chain[c]) + 1)
    BY <1>1, <1>2, <2>2
  <2>4. p[1] \in Nat /\ p[2] \in Nat /\ p[3] \in Nat
    BY <1>2
  <2> QED
    BY <1>1, <2>3, <2>4 DEF Before
<1> QED
  BY <1>3, <1>4 DEF UpTo

LEMMA MarksMeetInTx ==
  ASSUME chain \in Chains, NEW c \in 1..Len(chain), NEW u \in 1..Len(chain[c])
  PROVE  /\ UpTo("tx_by_digest", <<c, u, 1>>) = UpTo("tx_by_digest", <<c, u + 1, 0>>)
         /\ UpTo("event_by_type", <<c, u, 0>>) = UpTo("event_by_type", <<c, u, 1>>)
         /\ UpTo("event_by_type", <<c, u, Len(chain[c][u].events) + 1>>)
              = UpTo("event_by_type", <<c, u + 1, 0>>)
         /\ \A cf \in {"object_version", "object_last_seen", "owner_touched"} :
              /\ UpTo(cf, <<c, u, 0>>) = UpTo(cf, <<c, u, 1>>)
              /\ UpTo(cf, <<c, u, Len(chain[c][u].changes) + 1>>) = UpTo(cf, <<c, u + 1, 0>>)
<1>1. /\ c \in Nat /\ u \in Nat
      /\ Len(chain[c][u].events) \in Nat /\ Len(chain[c][u].changes) \in Nat
  BY ChainFacts, TxFacts
<1>2. \A cf : \A p \in PlacesOf(cf) : p[1] \in Nat /\ p[2] \in Nat /\ p[3] \in Nat /\ Placed(cf, p)
  BY DEF PlacesOf, Triples
<1>3. \A p \in PlacesOf("tx_by_digest") : Before(p, <<c, u, 1>>) <=> Before(p, <<c, u + 1, 0>>)
  <2>1. \A p \in PlacesOf("tx_by_digest") : p[1] \in Nat /\ p[2] \in Nat /\ p[3] = 0
    BY <1>2 DEF Placed
  <2> QED
    BY <1>1, <2>1 DEF Before
<1>4. ASSUME NEW p \in PlacesOf("event_by_type")
      PROVE  /\ Before(p, <<c, u, 0>>) <=> Before(p, <<c, u, 1>>)
             /\ Before(p, <<c, u, Len(chain[c][u].events) + 1>>) <=> Before(p, <<c, u + 1, 0>>)
  <2>1. InEvents(p) /\ p[1] \in Nat /\ p[2] \in Nat /\ p[3] \in Nat
    BY <1>2 DEF Placed
  <2>2. p[3] \in 1..Len(chain[p[1]][p[2]].events)
    BY <2>1 DEF InEvents
  <2> DEFINE n == Len(chain[c][u].events)
  <2>3. p[3] > 0 /\ (p[1] = c /\ p[2] = u => p[3] < n + 1) /\ n \in Nat
    BY <1>1, <2>1, <2>2
  <2> HIDE DEF n
  <2>4. /\ Before(p, <<c, u, 0>>) <=> Before(p, <<c, u, 1>>)
        /\ Before(p, <<c, u, n + 1>>) <=> Before(p, <<c, u + 1, 0>>)
    BY <1>1, <2>1, <2>3 DEF Before
  <2> QED
    BY <2>4 DEF n
<1>5. ASSUME NEW cf \in {"object_version", "object_last_seen", "owner_touched"}, NEW p \in PlacesOf(cf)
      PROVE  /\ Before(p, <<c, u, 0>>) <=> Before(p, <<c, u, 1>>)
             /\ Before(p, <<c, u, Len(chain[c][u].changes) + 1>>) <=> Before(p, <<c, u + 1, 0>>)
  <2>1. InChanges(p) /\ p[1] \in Nat /\ p[2] \in Nat /\ p[3] \in Nat
    BY <1>2 DEF Placed
  <2>2. p[3] \in 1..Len(chain[p[1]][p[2]].changes)
    BY <2>1 DEF InChanges
  <2> DEFINE n == Len(chain[c][u].changes)
  <2>3. p[3] > 0 /\ (p[1] = c /\ p[2] = u => p[3] < n + 1) /\ n \in Nat
    BY <1>1, <2>1, <2>2
  <2> HIDE DEF n
  <2>4. /\ Before(p, <<c, u, 0>>) <=> Before(p, <<c, u, 1>>)
        /\ Before(p, <<c, u, n + 1>>) <=> Before(p, <<c, u + 1, 0>>)
    BY <1>1, <2>1, <2>3 DEF Before
  <2> QED
    BY <2>4 DEF n
<1> QED
  BY <1>3, <1>4, <1>5 DEF UpTo

(* The puts of checkpoint c, transaction u and change i are rows.          *)
LEMMA ChangePutsType ==
  ASSUME chain \in Chains, NEW c \in 1..Len(chain), NEW u \in 1..Len(chain[c]),
         NEW i \in 1..Len(chain[c][u].changes)
  PROVE  ChangePuts(c, chain[c][u].changes[i]) \in Seq(AllPuts)
<1> DEFINE p == <<c, u, i>>
           ch == chain[c][u].changes[i]
           a == Row("object_version", p)
           b == Row("object_last_seen", p)
           d == Row("owner_touched", p)
           y == <<a, b>>
           k == <<d>>
<1>1. c \in Nat /\ u \in Nat /\ i \in Nat
  BY ChainFacts, TxFacts
<1>2. p \in Triples /\ p[1] = c /\ p[2] = u /\ p[3] = i
  BY <1>1, TriplesIs
<1>3. ChangeAt(p) = ch
  BY <1>2 DEF ChangeAt
<1>4. a \in AllPuts /\ b \in AllPuts /\ d \in AllPuts
  BY <1>2, OneColumnFamily DEF AllPuts
<1>5. ChangePuts(c, ch) = IF ch.object = None THEN <<>>
                          ELSE y \o (IF Owner(ch) = None THEN <<>> ELSE k)
  BY <1>2, <1>3, PutsOfChange
<1> HIDE DEF a, b, d, ch
<1>6. y \in Seq(AllPuts) /\ k \in Seq(AllPuts) /\ <<>> \in Seq(AllPuts)
  BY <1>4, PutsType
<1> DEFINE z == IF Owner(ch) = None THEN <<>> ELSE k
<1>7. z \in Seq(AllPuts)
  BY <1>6
<1>8. ChangePuts(c, ch) = IF ch.object = None THEN <<>> ELSE y \o z
  BY <1>5
<1> HIDE DEF y, k, z
<1>9. y \o z \in Seq(AllPuts)
  BY <1>6, <1>7, ConcatProperties
<1>10. ChangePuts(c, ch) \in Seq(AllPuts)
  BY <1>6, <1>8, <1>9
<1> QED
  BY <1>10 DEF ch

LEMMA ChangesStep ==
  ASSUME chain \in Chains, NEW c \in 1..Len(chain), NEW u \in 1..Len(chain[c]), NEW x, NEW t, NEW e,
         NEW s, Stored(s, Held(x, t, e, <<c, u, 1>>)),
         NEW b, b = FlattenSeq([i \in DOMAIN chain[c][u].changes |-> ChangePuts(c, chain[c][u].changes[i])])
  PROVE  /\ b \in Seq(AllPuts)
         /\ Stored(WriteBatch(s, b), Held(x, t, e, <<c, u, Len(chain[c][u].changes) + 1>>))
<1> DEFINE n == Len(chain[c][u].changes)
           g == [i \in 1..n |-> ChangePuts(c, chain[c][u].changes[i])]
           G == [k \in 0..n |-> Held(x, t, e, <<c, u, k + 1>>)]
<1>1. n \in Nat /\ DOMAIN chain[c][u].changes = 1..n
  BY TxFacts
<1>2. b = FlattenSeq(First(g, n))
  <2>1. First(g, n) = g
    BY DEF First
  <2>2. b = FlattenSeq(g)
    BY <1>1
  <2> QED
    BY <2>1, <2>2
<1>3. \A i \in 1..n : g[i] \in Seq(AllPuts) /\ g[i] = ChangePuts(c, chain[c][u].changes[i])
  BY ChangePutsType
<1>4. \A k \in 0..n : G[k] = Held(x, t, e, <<c, u, k + 1>>)
  OBVIOUS
<1>5. 0 \in 0..n /\ n \in 0..n /\ \A k \in 0..(n - 1) : k \in 0..n /\ k + 1 \in 0..n /\ k + 1 \in 1..n
  BY <1>1
<1> HIDE DEF g, G, n
<1>6. G[0] = Held(x, t, e, <<c, u, 1>>)
  <2>1. 0 + 1 = 1
    OBVIOUS
  <2> QED
    BY <1>4, <1>5, <2>1
<1>7. ASSUME NEW k \in 0..(n - 1), NEW v, Stored(v, G[k])
      PROVE  Stored(WriteBatch(v, g[k + 1]), G[k + 1])
  <2> DEFINE i == k + 1
  <2>1. i \in 1..Len(chain[c][u].changes)
    BY <1>5 DEF n
  <2>2. G[k] = Held(x, t, e, <<c, u, i>>) /\ G[i] = Held(x, t, e, <<c, u, i + 1>>)
    BY <1>4, <1>5
  <2>3. g[i] = ChangePuts(c, chain[c][u].changes[i])
    BY <1>3, <1>5
  <2> HIDE DEF i
  <2>4. Stored(v, Held(x, t, e, <<c, u, i>>))
    BY <1>7, <2>2
  <2>5. Stored(WriteBatch(v, ChangePuts(c, chain[c][u].changes[i])), Held(x, t, e, <<c, u, i + 1>>))
    BY <2>1, <2>4, ChangeStep
  <2>6. Stored(WriteBatch(v, g[i]), G[i])
    BY <2>2, <2>3, <2>5
  <2> QED
    BY <2>6 DEF i
<1>8. Stored(s, G[0])
  BY <1>6
<1>9. \A i \in 1..n : g[i] \in Seq(AllPuts)
  BY <1>3
<1>10. Stored(WriteBatch(s, FlattenSeq(First(g, n))), G[n])
  <2>1. \A k \in 0..n : Stored(WriteBatch(s, FlattenSeq(First(g, k))), G[k])
    BY <1>1, <1>7, <1>8, <1>9, StoredSteps
  <2> QED
    BY <1>5, <2>1
<1>11. b \in Seq(AllPuts)
  BY <1>1, <1>2, <1>5, <1>9, FlattenType
<1> QED
  BY <1>2, <1>4, <1>5, <1>10, <1>11 DEF n

LEMMA EventsStep ==
  ASSUME chain \in Chains, NEW c \in 1..Len(chain), NEW u \in 1..Len(chain[c]), NEW x, NEW t, NEW o,
         NEW s, Stored(s, Held(x, t, <<c, u, 1>>, o)),
         NEW b, b = [i \in DOMAIN chain[c][u].events |-> EventPut(c, u, i)]
  PROVE  /\ b \in Seq(AllPuts)
         /\ Stored(WriteBatch(s, b), Held(x, t, <<c, u, Len(chain[c][u].events) + 1>>, o))
<1> DEFINE n == Len(chain[c][u].events)
           g == [i \in 1..n |-> EventPut(c, u, i)]
           G == [k \in 0..n |-> Held(x, t, <<c, u, k + 1>>, o)]
<1>1. n \in Nat /\ DOMAIN chain[c][u].events = 1..n /\ c \in Nat /\ u \in Nat
  BY ChainFacts, TxFacts
<1>2. b = First(g, n)
  <2>1. First(g, n) = g
    BY DEF First
  <2>2. b = g
    BY <1>1
  <2> QED
    BY <2>1, <2>2
<1>3. \A i \in 1..n : /\ g[i] = Row("event_by_type", <<c, u, i>>)
                      /\ g[i] \in AllPuts
                      /\ i \in Nat /\ <<c, u, i>> \in Triples
                      /\ <<c, u, i>> \in PlacesOf("event_by_type")
  <2> TAKE i \in 1..n
  <2> DEFINE p == <<c, u, i>>
  <2>1. i \in Nat /\ p \in Triples /\ p[1] = c /\ p[2] = u /\ p[3] = i
    BY <1>1, TriplesIs
  <2>2. g[i] = EventPut(p[1], p[2], p[3])
    BY <2>1
  <2>3. p \in PlacesOf("event_by_type")
    BY <2>1 DEF PlacesOf, Placed, InEvents, InTx
  <2> HIDE DEF p, g
  <2>4. g[i] = Row("event_by_type", p)
    BY <2>2, RowIs
  <2>5. g[i] \in AllPuts
    BY <2>1, <2>4, OneColumnFamily DEF AllPuts
  <2> QED
    BY <2>1, <2>3, <2>4, <2>5 DEF p
<1>4. \A k \in 0..n : G[k] = Held(x, t, <<c, u, k + 1>>, o)
  OBVIOUS
<1>5. 0 \in 0..n /\ n \in 0..n /\ \A k \in 0..(n - 1) : k \in 0..n /\ k + 1 \in 0..n /\ k + 1 \in 1..n
  BY <1>1
<1> HIDE DEF g, G, n
<1>6. G[0] = Held(x, t, <<c, u, 1>>, o)
  <2>1. 0 + 1 = 1
    OBVIOUS
  <2> QED
    BY <1>4, <1>5, <2>1
<1>7. ASSUME NEW k \in 0..(n - 1), NEW v, Stored(v, G[k])
      PROVE  Stored(WriteBatch(v, <<g[k + 1]>>), G[k + 1])
  <2> DEFINE i == k + 1
             p == <<c, u, i>>
             q == <<c, u, i + 1>>
             H == Held(x, t, p, o)
             J == Held(x, t, q, o)
  <2>1. i \in 1..n
    BY <1>5
  <2>2. G[k] = H /\ G[i] = J
    BY <1>4, <1>5
  <2> HIDE DEF i
  <2>3. /\ UpTo("event_by_type", q) = UpTo("event_by_type", p) \cup {p}
        /\ \A r \in UpTo("event_by_type", p) : Before(r, p)
    <3>1. i \in Nat /\ <<c, u, i>> \in PlacesOf("event_by_type")
      BY <1>3, <2>1
    <3>2. UpTo("event_by_type", <<c, u, i + 1>>) = UpTo("event_by_type", <<c, u, i>>) \cup {<<c, u, i>>}
      BY ONLY <1>1, <3>1, UpToNext
    <3>3. \A r \in UpTo("event_by_type", p) : Before(r, p)
      BY DEF UpTo
    <3> QED
      BY <3>2, <3>3
  <2>4. g[i] = Row("event_by_type", p) /\ p \in Triples
    BY <1>3, <2>1
  <2>5. /\ H["checkpoint"] = J["checkpoint"]
        /\ H["tx_by_digest"] = J["tx_by_digest"]
        /\ H["event_by_type"] = UpTo("event_by_type", p)
        /\ J["event_by_type"] = UpTo("event_by_type", q)
        /\ H["object_version"] = J["object_version"]
        /\ H["object_last_seen"] = J["object_last_seen"]
        /\ H["owner_touched"] = J["owner_touched"]
    BY HeldIs
  <2>6. Stored(v, H)
    BY <1>7, <2>2
  <2> HIDE DEF H, J, p, q
  <2>7. \A d \in ColumnFamilies : d # "event_by_type" => J[d] = H[d]
    BY <2>5 DEF ColumnFamilies
  <2>8. /\ "event_by_type" \in ColumnFamilies /\ J["event_by_type"] = H["event_by_type"] \cup {p}
        /\ \A r \in H["event_by_type"] : Before(r, p)
    BY <2>3, <2>5, OneColumnFamily
  <2>9. Stored(WriteBatch(v, <<g[i]>>), J)
    BY <2>4, <2>6, <2>7, <2>8, PutRow
  <2>10. Stored(WriteBatch(v, <<g[i]>>), G[i])
    BY <2>2, <2>9 DEF J, H
  <2> QED
    BY <2>10 DEF i
<1>8. Stored(s, G[0])
  BY <1>6
<1>9. \A i \in 1..n : g[i] \in AllPuts
  BY <1>3
<1>10. First(g, n) \in Seq(AllPuts) /\ Stored(WriteBatch(s, First(g, n)), G[n])
  <2>1. \A k \in 0..n : First(g, k) \in Seq(AllPuts) /\ Stored(WriteBatch(s, First(g, k)), G[k])
    BY <1>1, <1>7, <1>8, <1>9, StoredPuts
  <2> QED
    BY <1>5, <2>1
<1> QED
  BY <1>2, <1>4, <1>5, <1>10 DEF n

LEMMA TxStep ==
  ASSUME chain \in Chains, NEW c \in 1..Len(chain), NEW u \in 1..Len(chain[c]), NEW x,
         NEW s, Stored(s, Held(x, <<c, u, 0>>, <<c, u, 0>>, <<c, u, 0>>))
  PROVE  /\ TxPuts(c, u) \in Seq(AllPuts)
         /\ Stored(WriteBatch(s, TxPuts(c, u)), Held(x, <<c, u + 1, 0>>, <<c, u + 1, 0>>, <<c, u + 1, 0>>))
<1> DEFINE p == <<c, u, 0>>
           q == <<c, u, 1>>
           m == <<c, u + 1, 0>>
           e == <<c, u, Len(chain[c][u].events) + 1>>
           o == <<c, u, Len(chain[c][u].changes) + 1>>
           r == Row("tx_by_digest", p)
           A == <<r>>
           B == [i \in DOMAIN chain[c][u].events |-> EventPut(c, u, i)]
           D == FlattenSeq([i \in DOMAIN chain[c][u].changes |-> ChangePuts(c, chain[c][u].changes[i])])
<1>1. c \in Nat /\ u \in Nat /\ 0 \in Nat
  BY ChainFacts, TxFacts
<1>2. p \in Triples /\ p[1] = c /\ p[2] = u /\ p[3] = 0
  BY <1>1, TriplesIs
<1>3. p \in PlacesOf("tx_by_digest")
  BY <1>2 DEF PlacesOf, Placed, InTx
<1>4. r = TxPut(c, u) /\ r \in AllPuts
  <2>1. r = TxPut(p[1], p[2])
    BY RowIs
  <2>2. r \in AllPuts
    BY <1>2, OneColumnFamily DEF AllPuts
  <2> QED
    BY <1>2, <2>1, <2>2
<1>5. TxPuts(c, u) = (A \o B) \o D
  BY <1>4 DEF TxPuts
<1>6. UpTo("tx_by_digest", q) = UpTo("tx_by_digest", p) \cup {p}
  <2>1. UpTo("tx_by_digest", <<c, u, 0 + 1>>) =
          UpTo("tx_by_digest", <<c, u, 0>>) \cup ({<<c, u, 0>>} \cap PlacesOf("tx_by_digest"))
    BY ONLY <1>1, UpToNext
  <2>2. 0 + 1 = 1
    OBVIOUS
  <2> QED
    BY <1>3, <2>1, <2>2
<1>7. /\ UpTo("tx_by_digest", q) = UpTo("tx_by_digest", m)
      /\ UpTo("event_by_type", p) = UpTo("event_by_type", q)
      /\ UpTo("event_by_type", e) = UpTo("event_by_type", m)
      /\ UpTo("object_version", p) = UpTo("object_version", q)
      /\ UpTo("object_version", o) = UpTo("object_version", m)
      /\ UpTo("object_last_seen", p) = UpTo("object_last_seen", q)
      /\ UpTo("object_last_seen", o) = UpTo("object_last_seen", m)
      /\ UpTo("owner_touched", p) = UpTo("owner_touched", q)
      /\ UpTo("owner_touched", o) = UpTo("owner_touched", m)
  BY MarksMeetInTx
<1>8. \A y \in UpTo("tx_by_digest", p) : Before(y, p)
  BY DEF UpTo
<1>9. Stored(s, Held(x, p, p, p))
  OBVIOUS
<1>10. A \in Seq(AllPuts) /\ A = <<Row("tx_by_digest", p)>>
  BY <1>4
<1> HIDE DEF p, q, m, r, A
<1>11. Stored(WriteBatch(s, A), Held(x, q, p, p))
  <2>1. /\ Held(x, p, p, p)["checkpoint"] = Held(x, q, p, p)["checkpoint"]
        /\ Held(x, p, p, p)["tx_by_digest"] = UpTo("tx_by_digest", p)
        /\ Held(x, q, p, p)["tx_by_digest"] = UpTo("tx_by_digest", q)
        /\ Held(x, p, p, p)["event_by_type"] = Held(x, q, p, p)["event_by_type"]
        /\ Held(x, p, p, p)["object_version"] = Held(x, q, p, p)["object_version"]
        /\ Held(x, p, p, p)["object_last_seen"] = Held(x, q, p, p)["object_last_seen"]
        /\ Held(x, p, p, p)["owner_touched"] = Held(x, q, p, p)["owner_touched"]
    BY HeldIs
  <2> DEFINE H == Held(x, p, p, p)
             J == Held(x, q, p, p)
  <2>2. Stored(s, H)
    BY <1>9
  <2> HIDE DEF H, J
  <2>3. \A d \in ColumnFamilies : d # "tx_by_digest" => J[d] = H[d]
    BY <2>1 DEF ColumnFamilies, H, J
  <2>4. /\ "tx_by_digest" \in ColumnFamilies /\ J["tx_by_digest"] = H["tx_by_digest"] \cup {p}
        /\ \A y \in H["tx_by_digest"] : Before(y, p)
    BY <1>6, <1>8, <2>1, OneColumnFamily DEF H, J
  <2>5. Stored(WriteBatch(s, <<Row("tx_by_digest", p)>>), J)
    BY ONLY <1>2, <2>2, <2>3, <2>4, PutRow
  <2>6. Stored(WriteBatch(s, A), J)
    BY <1>10, <2>5
  <2> QED
    BY <2>6 DEF J
<1>12. Stored(WriteBatch(s, A), Held(x, m, q, q))
  BY <1>7, <1>11, SameHeld
<1> DEFINE v == WriteBatch(s, A)
           w == WriteBatch(v, B)
           z == WriteBatch(w, D)
<1>13. B \in Seq(AllPuts) /\ Stored(w, Held(x, m, e, q))
  <2>1. Stored(v, Held(x, m, <<c, u, 1>>, q))
    BY <1>12 DEF q
  <2> HIDE DEF v
  <2>2. B \in Seq(AllPuts) /\ Stored(WriteBatch(v, B), Held(x, m, <<c, u, Len(chain[c][u].events) + 1>>, q))
    BY <2>1, EventsStep
  <2> QED
    BY <2>2
<1>14. Stored(w, Held(x, m, m, q))
  BY <1>7, <1>13, SameHeld
<1>15. D \in Seq(AllPuts) /\ Stored(z, Held(x, m, m, o))
  <2>1. Stored(w, Held(x, m, m, <<c, u, 1>>))
    BY <1>14 DEF q
  <2> HIDE DEF w
  <2>2. D \in Seq(AllPuts) /\ Stored(WriteBatch(w, D), Held(x, m, m, <<c, u, Len(chain[c][u].changes) + 1>>))
    BY <2>1, ChangesStep
  <2> QED
    BY <2>2
<1>16. Stored(z, Held(x, m, m, m))
  BY <1>7, <1>15, SameHeld
<1> HIDE DEF B, D
<1>17. A \o B \in Seq(AllPuts) /\ (A \o B) \o D \in Seq(AllPuts)
  BY <1>10, <1>13, <1>15, ConcatProperties
<1>18. WriteBatch(v, B) = WriteBatch(s, A \o B)
  <2>1. A \in Seq(AllPuts) /\ B \in Seq(AllPuts)
    BY <1>10, <1>13
  <2> QED
    BY ONLY <2>1, WriteConcat
<1> DEFINE Y == A \o B
<1>19. w = WriteBatch(s, Y) /\ Y \in Seq(AllPuts)
  BY <1>17, <1>18
<1> HIDE DEF Y, w
<1>20. WriteBatch(WriteBatch(s, Y), D) = WriteBatch(s, Y \o D)
  BY <1>15, <1>19, WriteConcat
<1>21. z = WriteBatch(s, TxPuts(c, u))
  BY <1>5, <1>19, <1>20 DEF Y
<1> QED
  BY <1>5, <1>16, <1>17, <1>21 DEF m

(* Where the marks begin, and the puts of a transaction without a store.   *)
LEMMA EmptyStored ==
  /\ Stored(EmptyStore, [cf \in ColumnFamilies |-> {}])
  /\ EmptyStore = [at \in DOMAIN EmptyStore |-> EmptyStore[at]]
<1>1. DOMAIN EmptyStore = {} /\ EmptyStore = [at \in DOMAIN EmptyStore |-> EmptyStore[at]]
  BY DEF EmptyStore
<1>2. \A cf \in ColumnFamilies : Holds(EmptyStore, cf, {})
  BY <1>1, FS_EmptySet DEF Holds
<1> QED
  BY <1>1, <1>2, FS_EmptySet DEF Stored

LEMMA TxPutsType ==
  ASSUME chain \in Chains, NEW c \in 1..Len(chain), NEW u \in 1..Len(chain[c])
  PROVE  TxPuts(c, u) \in Seq(AllPuts)
<1> DEFINE n == Len(chain[c][u].changes)
           k == Len(chain[c][u].events)
           g == [i \in 1..n |-> ChangePuts(c, chain[c][u].changes[i])]
           A == <<TxPut(c, u)>>
           B == [i \in DOMAIN chain[c][u].events |-> EventPut(c, u, i)]
           D == FlattenSeq([i \in DOMAIN chain[c][u].changes |-> ChangePuts(c, chain[c][u].changes[i])])
<1>1. /\ c \in Nat /\ u \in Nat /\ n \in Nat /\ k \in Nat
      /\ DOMAIN chain[c][u].changes = 1..n /\ DOMAIN chain[c][u].events = 1..k
  BY ChainFacts, TxFacts
<1>2. TxPuts(c, u) = (A \o B) \o D
  BY DEF TxPuts
<1>3. A \in Seq(AllPuts)
  <2>1. <<c, u, 0>> \in Triples
    BY <1>1, TriplesIs
  <2>2. Row("tx_by_digest", <<c, u, 0>>) = TxPut(c, u)
    BY DEF Row
  <2>3. TxPut(c, u) \in AllPuts
    BY <2>1, <2>2, OneColumnFamily DEF AllPuts
  <2> QED
    BY <2>3
<1>4. B \in Seq(AllPuts)
  <2>1. \A i \in 1..k : EventPut(c, u, i) \in AllPuts
    <3> TAKE i \in 1..k
    <3>1. <<c, u, i>> \in Triples
      BY <1>1, TriplesIs
    <3>2. Row("event_by_type", <<c, u, i>>) = EventPut(c, u, i)
      BY DEF Row
    <3> QED
      BY <3>1, <3>2, OneColumnFamily DEF AllPuts
  <2>2. B \in [1..k -> AllPuts]
    BY <1>1, <2>1
  <2> HIDE DEF B, k
  <2>3. B \in Seq(AllPuts)
    BY ONLY <1>1, <2>2
  <2> QED
    BY <2>3
<1>5. D \in Seq(AllPuts)
  <2>1. D = FlattenSeq(First(g, n))
    <3>1. First(g, n) = g
      BY DEF First
    <3> QED
      BY <1>1, <3>1
  <2>2. \A i \in 1..n : g[i] \in Seq(AllPuts)
    BY ChangePutsType
  <2>3. n \in 0..n
    BY <1>1
  <2> HIDE DEF g, n, D
  <2> QED
    BY <1>1, <2>1, <2>2, <2>3, FlattenType
<1> HIDE DEF A, B, D
<1>6. A \o B \in Seq(AllPuts)
  BY <1>3, <1>4, ConcatProperties
<1>7. (A \o B) \o D \in Seq(AllPuts)
  BY <1>5, <1>6, ConcatProperties
<1> QED
  BY <1>2, <1>7

LEMMA CheckpointPutsAre ==
  ASSUME chain \in Chains, NEW c \in 1..Len(chain)
  PROVE  /\ \A t \in 1..Len(chain[c]) : TxPuts(c, t) \in Seq(AllPuts)
         /\ <<Row("checkpoint", <<c, 0, 0>>)>> \in Seq(AllPuts)
         /\ FlattenSeq(First([t \in 1..Len(chain[c]) |-> TxPuts(c, t)], Len(chain[c]))) \in Seq(AllPuts)
         /\ CheckpointPuts(c) = <<Row("checkpoint", <<c, 0, 0>>)>>
              \o FlattenSeq(First([t \in 1..Len(chain[c]) |-> TxPuts(c, t)], Len(chain[c])))
         /\ CheckpointPuts(c) \in Seq(AllPuts)
<1> DEFINE n == Len(chain[c])
           g == [t \in 1..n |-> TxPuts(c, t)]
           r == Row("checkpoint", <<c, 0, 0>>)
           A == <<r>>
           D == FlattenSeq(First(g, n))
<1>1. c \in Nat /\ n \in Nat /\ DOMAIN chain[c] = 1..n /\ 0 \in Nat
  BY ChainFacts
<1>2. \A t \in 1..n : TxPuts(c, t) \in Seq(AllPuts)
  BY TxPutsType
<1>3. r = CheckpointPut(c) /\ r \in AllPuts
  <2>1. <<c, 0, 0>> \in Triples
    BY <1>1, TriplesIs
  <2>2. r = CheckpointPut(c)
    BY DEF Row
  <2> QED
    BY <2>1, <2>2, OneColumnFamily DEF AllPuts
<1>4. A \in Seq(AllPuts)
  BY <1>3
<1>5. D \in Seq(AllPuts)
  <2>1. \A t \in 1..n : g[t] \in Seq(AllPuts)
    BY <1>2
  <2>2. n \in 0..n
    BY <1>1
  <2> HIDE DEF g, n
  <2> QED
    BY <1>1, <2>1, <2>2, FlattenType
<1>6. CheckpointPuts(c) = A \o D
  <2>1. First(g, n) = [t \in DOMAIN chain[c] |-> TxPuts(c, t)]
    BY <1>1 DEF First
  <2>2. A = <<Put("checkpoint", key_checkpoint(c), [checkpoint |-> c, txs |-> Len(chain[c])])>>
    BY <1>3 DEF CheckpointPut
  <2> QED
    BY <2>1, <2>2 DEF CheckpointPuts
<1>7. A \o D \in Seq(AllPuts)
  <2> HIDE DEF A, D
  <2> QED
    BY <1>4, <1>5, ConcatProperties
<1> QED
  BY <1>2, <1>4, <1>5, <1>6, <1>7

LEMMA CheckpointStep ==
  ASSUME chain \in Chains, NEW c \in 1..Len(chain), NEW s,
         Stored(s, Held(<<c, 0, 0>>, <<c, 0, 0>>, <<c, 0, 0>>, <<c, 0, 0>>))
  PROVE  Stored(WriteBatch(s, CheckpointPuts(c)),
                Held(<<c + 1, 0, 0>>, <<c + 1, 0, 0>>, <<c + 1, 0, 0>>, <<c + 1, 0, 0>>))
<1> DEFINE p == <<c, 0, 0>>
           q == <<c, 1, 0>>
           m == <<c + 1, 0, 0>>
           l == <<c, Len(chain[c]) + 1, 0>>
           n == Len(chain[c])
           g == [t \in 1..n |-> TxPuts(c, t)]
           A == <<Row("checkpoint", p)>>
           D == FlattenSeq(First(g, n))
           G == [k \in 0..n |-> Held(m, <<c, k + 1, 0>>, <<c, k + 1, 0>>, <<c, k + 1, 0>>)]
<1>1. c \in Nat /\ 0 \in Nat /\ n \in Nat
  BY ChainFacts
<1>2. p \in Triples /\ p[1] = c /\ p[2] = 0 /\ p[3] = 0
  BY <1>1, TriplesIs
<1>3. p \in PlacesOf("checkpoint")
  BY <1>2 DEF PlacesOf, Placed
<1>4. /\ A \in Seq(AllPuts) /\ D \in Seq(AllPuts) /\ CheckpointPuts(c) = A \o D
      /\ \A t \in 1..n : TxPuts(c, t) \in Seq(AllPuts)
  BY CheckpointPutsAre
<1>5. UpTo("checkpoint", m) = UpTo("checkpoint", p) \cup {p}
  <2>1. UpTo("checkpoint", <<c, 0, 0 + 1>>) =
          UpTo("checkpoint", <<c, 0, 0>>) \cup ({<<c, 0, 0>>} \cap PlacesOf("checkpoint"))
    BY ONLY <1>1, UpToNext
  <2>2. 0 + 1 = 1
    OBVIOUS
  <2>3. UpTo("checkpoint", <<c, 0, 1>>) = UpTo("checkpoint", m)
    BY MarksMeet
  <2> QED
    BY <1>3, <2>1, <2>2, <2>3
<1>6. \A cf \in ColumnFamilies :
        cf # "checkpoint" => UpTo(cf, p) = UpTo(cf, q) /\ UpTo(cf, l) = UpTo(cf, m)
  BY MarksMeet
<1>7. \A y \in UpTo("checkpoint", p) : Before(y, p)
  BY DEF UpTo
<1>8. \A k \in 0..n : G[k] = Held(m, <<c, k + 1, 0>>, <<c, k + 1, 0>>, <<c, k + 1, 0>>)
  OBVIOUS
<1>9. \A t \in 1..n : g[t] = TxPuts(c, t) /\ g[t] \in Seq(AllPuts)
  BY <1>4
<1>10. 0 \in 0..n /\ n \in 0..n /\ \A k \in 0..(n - 1) : k \in 0..n /\ k + 1 \in 0..n /\ k + 1 \in 1..n
  BY <1>1
<1>11. Stored(s, Held(p, p, p, p))
  OBVIOUS
<1>12. A = <<Row("checkpoint", p)>>
  OBVIOUS
<1> HIDE DEF p, m, g, G, A
<1> DEFINE v == WriteBatch(s, A)
<1>13. Stored(v, Held(m, p, p, p))
  <2> DEFINE H == Held(p, p, p, p)
             J == Held(m, p, p, p)
  <2>1. /\ H["checkpoint"] = UpTo("checkpoint", p)
        /\ J["checkpoint"] = UpTo("checkpoint", m)
        /\ H["tx_by_digest"] = J["tx_by_digest"]
        /\ H["event_by_type"] = J["event_by_type"]
        /\ H["object_version"] = J["object_version"]
        /\ H["object_last_seen"] = J["object_last_seen"]
        /\ H["owner_touched"] = J["owner_touched"]
    BY HeldIs
  <2>2. Stored(s, H)
    BY <1>11
  <2> HIDE DEF H, J
  <2>3. \A d \in ColumnFamilies : d # "checkpoint" => J[d] = H[d]
    BY <2>1 DEF ColumnFamilies
  <2>4. /\ "checkpoint" \in ColumnFamilies /\ J["checkpoint"] = H["checkpoint"] \cup {p}
        /\ \A y \in H["checkpoint"] : Before(y, p)
    BY <1>5, <1>7, <2>1, OneColumnFamily
  <2>5. Stored(WriteBatch(s, <<Row("checkpoint", p)>>), J)
    BY ONLY <1>2, <2>2, <2>3, <2>4, PutRow
  <2> QED
    BY <1>12, <2>5 DEF J
<1>14. Stored(v, G[0])
  <2>1. UpTo("checkpoint", m) = UpTo("checkpoint", m)
    OBVIOUS
  <2>2. /\ UpTo("tx_by_digest", p) = UpTo("tx_by_digest", q)
        /\ UpTo("event_by_type", p) = UpTo("event_by_type", q)
        /\ UpTo("object_version", p) = UpTo("object_version", q)
        /\ UpTo("object_last_seen", p) = UpTo("object_last_seen", q)
        /\ UpTo("owner_touched", p) = UpTo("owner_touched", q)
    BY <1>6, OneColumnFamily
  <2> HIDE DEF q, v
  <2>3. Stored(v, Held(m, q, q, q))
    BY ONLY <1>13, <2>1, <2>2, SameHeld
  <2>4. 0 + 1 = 1
    OBVIOUS
  <2>5. G[0] = Held(m, q, q, q)
    BY <1>8, <1>10, <2>4 DEF q
  <2> QED
    BY <2>3, <2>5
<1>15. ASSUME NEW k \in 0..(n - 1), NEW y, Stored(y, G[k])
       PROVE  Stored(WriteBatch(y, g[k + 1]), G[k + 1])
  <2> DEFINE t == k + 1
  <2>1. t \in 1..Len(chain[c])
    BY <1>10
  <2>2. G[k] = Held(m, <<c, t, 0>>, <<c, t, 0>>, <<c, t, 0>>)
    BY <1>8, <1>10
  <2>3. G[t] = Held(m, <<c, t + 1, 0>>, <<c, t + 1, 0>>, <<c, t + 1, 0>>)
    BY <1>8, <1>10
  <2>4. g[t] = TxPuts(c, t)
    BY <1>9, <1>10
  <2> HIDE DEF t
  <2>5. Stored(WriteBatch(y, TxPuts(c, t)), Held(m, <<c, t + 1, 0>>, <<c, t + 1, 0>>, <<c, t + 1, 0>>))
    BY <1>15, <2>1, <2>2, TxStep
  <2>6. Stored(WriteBatch(y, g[t]), G[t])
    BY <2>3, <2>4, <2>5
  <2> QED
    BY <2>6 DEF t
<1> HIDE DEF v, n
<1>16. \A t \in 1..n : g[t] \in Seq(AllPuts)
  BY <1>9
<1>17. Stored(WriteBatch(v, D), G[n])
  <2>1. \A k \in 0..n : Stored(WriteBatch(v, FlattenSeq(First(g, k))), G[k])
    BY <1>1, <1>14, <1>15, <1>16, StoredSteps
  <2> QED
    BY <1>10, <2>1
<1> HIDE DEF D
<1>18. WriteBatch(v, D) = WriteBatch(s, CheckpointPuts(c))
  <2>1. A \in Seq(AllPuts) /\ D \in Seq(AllPuts)
    BY <1>4
  <2>2. WriteBatch(WriteBatch(s, A), D) = WriteBatch(s, A \o D)
    BY ONLY <2>1, WriteConcat
  <2> QED
    BY <1>4, <2>2 DEF v
<1>19. G[n] = Held(m, l, l, l)
  BY <1>8, <1>10 DEF n
<1>20. /\ UpTo("tx_by_digest", l) = UpTo("tx_by_digest", m)
       /\ UpTo("event_by_type", l) = UpTo("event_by_type", m)
       /\ UpTo("object_version", l) = UpTo("object_version", m)
       /\ UpTo("object_last_seen", l) = UpTo("object_last_seen", m)
       /\ UpTo("owner_touched", l) = UpTo("owner_touched", m)
       /\ UpTo("checkpoint", m) = UpTo("checkpoint", m)
  BY <1>6, OneColumnFamily
<1> DEFINE z == WriteBatch(s, CheckpointPuts(c))
<1>21. Stored(z, Held(m, l, l, l))
  BY <1>17, <1>18, <1>19
<1> HIDE DEF z, l
<1>22. Stored(z, Held(m, m, m, m))
  BY ONLY <1>20, <1>21, SameHeld
<1> QED
  BY <1>22 DEF m, z

(* The rows of the first checkpoints, whatever batches they came in.       *)
Whole(n) == Held(<<n, 0, 0>>, <<n, 0, 0>>, <<n, 0, 0>>, <<n, 0, 0>>)

LEMMA OneBatchIs ==
  ASSUME NEW n \in 0..Len(chain), chain \in Chains
  PROVE  OneBatch(n) = WriteBatch(EmptyStore, FlattenSeq(First([c \in 1..Len(chain) |-> CheckpointPuts(c)], n)))
<1> DEFINE g == [c \in 1..Len(chain) |-> CheckpointPuts(c)]
<1>1. Len(chain) \in Nat
  BY ChainFacts
<1>2. \A c \in 1..n : c \in 1..Len(chain)
  BY <1>1
<1>3. First(g, n) = [c \in 1..n |-> CheckpointPuts(c)]
  BY <1>2 DEF First
<1> QED
  BY <1>3 DEF OneBatch

(* One batch of the first n checkpoints leaves, under each key of each     *)
(* column family, the record of the last row with that key in chain order, *)
(* and no other keys.                                                      *)
THEOREM OneBatchHolds ==
  ASSUME chain \in Chains
  PROVE  \A n \in 0..Len(chain) : Stored(OneBatch(n), Whole(n + 1))
<1> DEFINE N == Len(chain)
           g == [c \in 1..N |-> CheckpointPuts(c)]
           G == [k \in 0..N |-> Whole(k + 1)]
<1>1. N \in Nat
  BY ChainFacts
<1>2. \A c \in 1..N : g[c] = CheckpointPuts(c) /\ g[c] \in Seq(AllPuts)
  BY CheckpointPutsAre
<1>3. \A k \in 0..N : G[k] = Whole(k + 1)
  OBVIOUS
<1>4. 0 \in 0..N /\ \A k \in 0..(N - 1) : k \in 0..N /\ k + 1 \in 0..N /\ k + 1 \in 1..N
  BY <1>1
<1> HIDE DEF g, G
<1>5. Stored(EmptyStore, G[0])
  <2>1. ASSUME NEW cf \in ColumnFamilies
        PROVE  UpTo(cf, <<1, 0, 0>>) = {}
    <3>1. \A p \in PlacesOf(cf) : p[1] \in Nat /\ p[2] \in Nat /\ p[3] \in Nat /\ p[1] \in 1..N
      BY DEF PlacesOf, Triples, Placed
    <3>2. \A p \in PlacesOf(cf) : ~Before(p, <<1, 0, 0>>)
      BY <3>1 DEF Before
    <3> QED
      BY <3>2 DEF UpTo
  <2>2. 0 + 1 = 1
    OBVIOUS
  <2>3. G[0] = Whole(1)
    BY <1>3, <1>4, <2>2
  <2> DEFINE H == Whole(1)
  <2>4. /\ H["checkpoint"] = UpTo("checkpoint", <<1, 0, 0>>)
        /\ H["tx_by_digest"] = UpTo("tx_by_digest", <<1, 0, 0>>)
        /\ H["event_by_type"] = UpTo("event_by_type", <<1, 0, 0>>)
        /\ H["object_version"] = UpTo("object_version", <<1, 0, 0>>)
        /\ H["object_last_seen"] = UpTo("object_last_seen", <<1, 0, 0>>)
        /\ H["owner_touched"] = UpTo("owner_touched", <<1, 0, 0>>)
    BY HeldIs DEF Whole
  <2> HIDE DEF H
  <2>5. \A cf \in ColumnFamilies : H[cf] = {}
    BY <2>1, <2>4 DEF ColumnFamilies
  <2>6. Stored(EmptyStore, H)
    <3> DEFINE I == [cf \in ColumnFamilies |-> {}]
    <3>1. \A cf \in ColumnFamilies : I[cf] = H[cf]
      BY <2>5
    <3>2. Stored(EmptyStore, I)
      BY EmptyStored
    <3> HIDE DEF I
    <3> QED
      BY <3>1, <3>2 DEF Stored
  <2> QED
    BY <2>3, <2>6 DEF H
<1>6. ASSUME NEW k \in 0..(N - 1), NEW v, Stored(v, G[k])
      PROVE  Stored(WriteBatch(v, g[k + 1]), G[k + 1])
  <2> DEFINE c == k + 1
  <2>1. c \in 1..Len(chain)
    BY <1>4
  <2>2. G[k] = Whole(c) /\ G[c] = Whole(c + 1) /\ g[c] = CheckpointPuts(c)
    BY <1>2, <1>3, <1>4
  <2> HIDE DEF c
  <2>3. Stored(v, Whole(c))
    BY <1>6, <2>2
  <2>4. Stored(WriteBatch(v, CheckpointPuts(c)), Whole(c + 1))
    BY <2>1, <2>3, CheckpointStep DEF Whole
  <2>5. Stored(WriteBatch(v, g[c]), G[c])
    BY <2>2, <2>4
  <2> QED
    BY <2>5 DEF c
<1>7. \A c \in 1..N : g[c] \in Seq(AllPuts)
  BY <1>2
<1>8. \A k \in 0..N : Stored(WriteBatch(EmptyStore, FlattenSeq(First(g, k))), G[k])
  <2> HIDE DEF N
  <2> QED
    BY <1>1, <1>5, <1>6, <1>7, StoredSteps
<1> QED
  BY <1>3, <1>8, OneBatchIs DEF g

(* Batches written one after the other leave what one batch of them does,  *)
(* however --batch-size cuts the chain.                                    *)
THEOREM BatchAfter ==
  ASSUME chain \in Chains, NEW n \in 0..Len(chain), NEW j \in 0..(Len(chain) - n)
  PROVE  WriteBatch(OneBatch(n), FlattenSeq([i \in 1..j |-> CheckpointPuts(n + i)])) = OneBatch(n + j)
<1> DEFINE N == Len(chain)
           g == [c \in 1..N |-> CheckpointPuts(c)]
           h == [i \in 1..(N - n) |-> CheckpointPuts(n + i)]
           S == {k \in 0..(N - n) :
                   FlattenSeq(First(g, n)) \o FlattenSeq(First(h, k)) = FlattenSeq(First(g, n + k))}
<1>1. N \in Nat /\ n \in Nat /\ N - n \in Nat
  BY ChainFacts
<1>2. \A c \in 1..N : g[c] = CheckpointPuts(c) /\ g[c] \in Seq(AllPuts)
  BY CheckpointPutsAre
<1>3. \A i \in 1..(N - n) : n + i \in 1..N /\ h[i] = g[n + i] /\ h[i] \in Seq(AllPuts)
  <2>1. \A i \in 1..(N - n) : n + i \in 1..N
    BY <1>1
  <2> QED
    BY <1>2, <2>1
<1>4. FlattenSeq(First(g, n)) \in Seq(AllPuts)
  <2>1. n \in 0..N
    OBVIOUS
  <2> HIDE DEF g, N
  <2> QED
    BY <1>1, <1>2, <2>1, FlattenType
<1>5. \A k \in 0..(N - n) : FlattenSeq(First(h, k)) \in Seq(AllPuts)
  <2> HIDE DEF g, h, N
  <2> QED
    BY <1>1, <1>3, FlattenType
<1>6. 0 \in S
  <2>1. FlattenSeq(First(h, 0)) = <<>>
    BY FlattenNone
  <2> DEFINE a == FlattenSeq(First(g, n))
  <2>2. a \in Seq(AllPuts)
    BY <1>4
  <2>3. 0 \in 0..(N - n) /\ n + 0 = n
    BY <1>1
  <2> HIDE DEF a
  <2>4. a \o <<>> = a
    BY <2>2, ConcatEmptySeq
  <2> QED
    BY <2>1, <2>3, <2>4 DEF a
<1>7. ASSUME NEW k \in 0..((N - n) - 1), k \in S
      PROVE  k + 1 \in S
  <2> DEFINE a == FlattenSeq(First(g, n))
             b == FlattenSeq(First(h, k))
             d == h[k + 1]
  <2>1. /\ k \in Nat /\ k \in 0..(N - n) /\ k + 1 \in 1..(N - n) /\ k + 1 \in 0..(N - n)
        /\ n + k \in Nat /\ (n + k) + 1 = n + (k + 1)
    BY <1>1
  <2>2. a \in Seq(AllPuts) /\ b \in Seq(AllPuts) /\ d \in Seq(AllPuts)
    BY <1>3, <1>4, <1>5, <2>1
  <2>3. a \o b = FlattenSeq(First(g, n + k))
    BY <1>7
  <2>4. FlattenSeq(First(h, k + 1)) = b \o d
    BY <2>1, <2>2, FlattenNext
  <2>5. d = g[(n + k) + 1]
    BY <1>3, <2>1
  <2> HIDE DEF a, b, d, g, h
  <2>6. FlattenSeq(First(g, (n + k) + 1)) = FlattenSeq(First(g, n + k)) \o g[(n + k) + 1]
    BY <2>1, <2>2, <2>5, FlattenNext
  <2>7. (a \o b) \o d = a \o (b \o d)
    BY <2>2, ConcatAssociative
  <2> QED
    BY <2>1, <2>3, <2>4, <2>5, <2>6, <2>7 DEF a
<1>8. \A k \in 0..(N - n) : k \in S
  <2> HIDE DEF S
  <2> QED
    BY <1>1, <1>6, <1>7, BoundedInduction
<1>9. n + j \in 0..N /\ \A i \in 1..j : i \in 1..(N - n)
  BY <1>1
<1>10. First(h, j) = [i \in 1..j |-> CheckpointPuts(n + i)]
  BY <1>9 DEF First
<1>11. OneBatch(n) = WriteBatch(EmptyStore, FlattenSeq(First(g, n)))
  BY OneBatchIs
<1>12. OneBatch(n + j) = WriteBatch(EmptyStore, FlattenSeq(First(g, n + j)))
  BY <1>9, OneBatchIs
<1>13. FlattenSeq(First(g, n)) \o FlattenSeq(First(h, j)) = FlattenSeq(First(g, n + j))
  BY <1>8
<1>14. WriteBatch(WriteBatch(EmptyStore, FlattenSeq(First(g, n))), FlattenSeq(First(h, j)))
         = WriteBatch(EmptyStore, FlattenSeq(First(g, n)) \o FlattenSeq(First(h, j)))
  <2>1. FlattenSeq(First(h, j)) \in Seq(AllPuts)
    BY <1>5
  <2> HIDE DEF g, h
  <2> QED
    BY ONLY <1>4, <2>1, WriteConcat
<1> QED
  BY <1>10, <1>11, <1>12, <1>13, <1>14

-----------------------------------------------------------------------------
(* What the database of the first n checkpoints holds.                     *)

PlacesIn(cf, n) == {p \in PlacesOf(cf) : p[1] <= n}

(* The last of the places with a key.                                      *)
LastOfKey(cf, n, q) ==
  q \in PlacesIn(cf, n) /\ \A r \in PlacesIn(cf, n) : KeyAt(cf, r) = KeyAt(cf, q) => ~Before(q, r)

LEMMA KeyBytes ==
  ASSUME chain \in Chains, NEW cf \in ColumnFamilies, NEW p \in PlacesOf(cf)
  PROVE  KeyAt(cf, p) \in Bytes
<1>1. p \in Triples /\ Placed(cf, p)
  BY DEF PlacesOf
<1>2. p[1] \in 1..Len(chain) /\ p[1] \in Nat /\ p[2] \in Nat /\ p[3] \in Nat
  BY <1>1 DEF Placed, Triples
<1>3. CASE cf = "checkpoint"
  <2>1. Fits(p[1], U64Len)
    BY <1>2, ChainFacts, FitsBelow, LengthsNat
  <2>2. BigEndian(p[1], U64Len) \in Bytes
    BY <1>2, <2>1, LengthsNat, NumberFacts
  <2> QED
    BY <1>3, <2>2, KeyAtIs DEF key_checkpoint, encode_u64_be
<1>4. CASE cf = "tx_by_digest"
  <2>1. chain[p[1]][p[2]].digest \in DOMAIN Text
    BY <1>1, <1>2, <1>4, TxFacts DEF Placed, InTx
  <2> QED
    BY <1>4, <2>1, KeyAtIs, TextFacts
<1>5. CASE cf = "event_by_type"
  BY <1>5, KeyAtIs, EventKeyIs
<1>6. CASE cf = "object_version"
  <2>1. InChanges(p)
    BY <1>1, <1>6 DEF Placed
  <2>2. VersionKey(p) \in Bytes
    BY <1>1, <1>2, <2>1, VersionKeyIs
  <2> QED
    BY <1>6, <2>2, KeyAtIs
<1>7. CASE cf = "object_last_seen"
  <2>1. InChanges(p)
    BY <1>1, <1>7 DEF Placed
  <2>2. Text[ChangeAt(p).object] \in Bytes
    BY <1>1, <1>2, <2>1, VersionKeyIs
  <2> QED
    BY <1>7, <2>2, KeyAtIs
<1>8. CASE cf = "owner_touched"
  BY <1>8, KeyAtIs, OwnerKeyIs
<1> QED
  BY <1>3, <1>4, <1>5, <1>6, <1>7, <1>8 DEF ColumnFamilies

LEMMA WholeIs ==
  ASSUME NEW n \in Nat, NEW cf \in ColumnFamilies
  PROVE  Whole(n + 1)[cf] = PlacesIn(cf, n)
<1> DEFINE m == <<n + 1, 0, 0>>
           H == Held(m, m, m, m)
<1>1. \A p \in PlacesOf(cf) : Before(p, m) <=> p[1] <= n
  <2>1. \A p \in PlacesOf(cf) : p[1] \in Nat /\ p[2] \in Nat /\ p[3] \in Nat
    BY DEF PlacesOf, Triples
  <2> QED
    BY <2>1 DEF Before
<1>2. UpTo(cf, m) = PlacesIn(cf, n)
  BY <1>1 DEF UpTo, PlacesIn
<1> HIDE DEF m
<1>3. /\ H["checkpoint"] = UpTo("checkpoint", m)
      /\ H["tx_by_digest"] = UpTo("tx_by_digest", m)
      /\ H["event_by_type"] = UpTo("event_by_type", m)
      /\ H["object_version"] = UpTo("object_version", m)
      /\ H["object_last_seen"] = UpTo("object_last_seen", m)
      /\ H["owner_touched"] = UpTo("owner_touched", m)
  BY HeldIs
<1> HIDE DEF H
<1>4. H[cf] = UpTo(cf, m)
  BY <1>3 DEF ColumnFamilies
<1> QED
  BY <1>2, <1>4 DEF Whole, H, m

LEMMA ContentIs ==
  ASSUME chain \in Chains, NEW n \in 0..Len(chain), NEW cf \in ColumnFamilies
  PROVE  /\ PlacesIn(cf, n) \in SUBSET Triples /\ IsFiniteSet(PlacesIn(cf, n))
         /\ KeysOf(OneBatch(n), cf) = {KeyAt(cf, p) : p \in PlacesIn(cf, n)}
         /\ KeysOf(OneBatch(n), cf) \in SUBSET Bytes /\ IsFiniteSet(KeysOf(OneBatch(n), cf))
         /\ \A q : LastOfKey(cf, n, q) => OneBatch(n)[<<cf, KeyAt(cf, q)>>] = Row(cf, q).record
         /\ \A p \in PlacesIn(cf, n) :
              /\ <<cf, KeyAt(cf, p)>> \in DOMAIN OneBatch(n)
              /\ \E q : LastOfKey(cf, n, q) /\ KeyAt(cf, q) = KeyAt(cf, p)
<1> DEFINE P == PlacesIn(cf, n)
           s == OneBatch(n)
           K == KeysOf(s, cf)
<1>1. n \in Nat /\ Stored(s, Whole(n + 1))
  BY ChainFacts, OneBatchHolds
<1>2. Holds(s, cf, P)
  BY <1>1, WholeIs DEF Stored
<1>3. P \in SUBSET PlacesOf(cf)
  BY DEF PlacesIn
<1>4. \A p : Row(cf, p).at = <<cf, KeyAt(cf, p)>>
  BY RowAt
<1> HIDE DEF P, s, K
<1>5. /\ P \in SUBSET Triples /\ IsFiniteSet(P)
      /\ \A p \in P : <<cf, KeyAt(cf, p)>> \in DOMAIN s
      /\ \A at \in DOMAIN s : at[1] = cf => \E p \in P : <<cf, KeyAt(cf, p)>> = at
  BY <1>2, <1>4 DEF Holds
<1>6. K = {KeyAt(cf, p) : p \in P}
  <2>1. \A k \in K : \E p \in P : KeyAt(cf, p) = k
    <3> TAKE k \in K
    <3>1. PICK at \in DOMAIN s : at[1] = cf /\ at[2] = k
      BY DEF K, KeysOf
    <3>2. PICK p \in P : <<cf, KeyAt(cf, p)>> = at
      BY <1>5, <3>1
    <3> QED
      BY <3>1, <3>2
  <2>2. \A p \in P : KeyAt(cf, p) \in K
    <3> TAKE p \in P
    <3> DEFINE at == <<cf, KeyAt(cf, p)>>
    <3>1. at \in DOMAIN s /\ at[1] = cf /\ at[2] = KeyAt(cf, p)
      BY <1>5
    <3> HIDE DEF at
    <3> QED
      BY <3>1 DEF K, KeysOf
  <2> QED
    BY <2>1, <2>2
<1>7. K \in SUBSET Bytes
  BY <1>3, <1>6, KeyBytes
<1>8. IsFiniteSet(K)
  <2> DEFINE f == [p \in P |-> KeyAt(cf, p)]
  <2>1. \A p \in P : f[p] \in K
    BY <1>6
  <2>2. \A k \in K : \E p \in P : f[p] = k
    BY <1>6
  <2> HIDE DEF f
  <2> QED
    BY <1>5, <2>1, <2>2, ImageCardinality
<1>9. ASSUME NEW q, LastOfKey(cf, n, q)
      PROVE  s[<<cf, KeyAt(cf, q)>>] = Row(cf, q).record
  <2>1. q \in P /\ \A r \in P : KeyAt(cf, r) = KeyAt(cf, q) => ~Before(q, r)
    BY <1>9 DEF LastOfKey, P
  <2>2. LastWith(cf, P, q)
    BY <1>4, <2>1 DEF LastWith
  <2>3. s[Row(cf, q).at] = Row(cf, q).record
    BY <1>2, <2>1, <2>2 DEF Holds
  <2> QED
    BY <1>4, <2>3
<1>10. ASSUME NEW p \in P
       PROVE  \E q : LastOfKey(cf, n, q) /\ KeyAt(cf, q) = KeyAt(cf, p)
  <2> DEFINE E == {q \in P : KeyAt(cf, q) = KeyAt(cf, p)}
  <2>1. E \in SUBSET P /\ p \in E
    OBVIOUS
  <2>2. IsFiniteSet(E) /\ E # {}
    BY <1>5, <2>1, FS_Subset
  <2>3. E \in SUBSET Triples
    BY <1>5
  <2>4. \A q \in E, r \in E : q \in Seq(Nat) /\ (LexLess(q, r) <=> Before(q, r))
    BY <2>3, BeforeIs
  <2>5. PICK q \in E : \A r \in E : ~LexLess(q, r)
    BY <2>2, <2>4, LastOf
  <2>6. \A r \in E : ~Before(q, r)
    BY <2>4, <2>5
  <2> QED
    BY <2>6 DEF LastOfKey, P
<1> QED
  BY <1>5, <1>6, <1>7, <1>8, <1>9, <1>10 DEF P, s, K

-----------------------------------------------------------------------------
(* The invariant: whatever batches the checkpoints came in, the database   *)
(* is as if they had come in one, and the key files hold the lines of the  *)
(* first checkpoints, no batch in part.                                    *)

DataInv ==
  /\ chain \in Chains
  /\ stored \in 0..Len(chain)
  /\ keyed \in 0..stored
  /\ db = OneBatch(stored)
  /\ keys = LinesOf(1..keyed)

(* What an export collected from the first n checkpoints under limits.     *)
Collected(lines, n, limits) ==
  \A f \in Files :
    /\ IsFiniteSet(LinesOf(1..n)[f])
    /\ lines[f] \in SUBSET LinesOf(1..n)[f]
    /\ Cardinality(lines[f]) = Least(Cardinality(LinesOf(1..n)[f]), limits[f])

(* The export: as far as it has come the files have the lines collected.   *)
ExportInv ==
  /\ left \in Nat /\ left <= Exports[chain]
  /\ exporter = [at |-> exporter.at, file |-> exporter.file, limits |-> exporter.limits,
                 held |-> exporter.held, lines |-> exporter.lines]
  /\ exporter.at \in Steps /\ exporter.file \in 1..4 /\ exporter.limits \in Limits
  /\ exporter.held \in 0..stored
  /\ dir = [f \in Files \cup {"manifest"} |-> dir[f]]
  /\ exporter.at # "none" => Collected(exporter.lines, exporter.held, exporter.limits)
  /\ exporter.at \in {"truncate", "fill"} =>
       \A i \in 1..4 : i < exporter.file => dir[FileOrder[i]] = exporter.lines[FileOrder[i]]
  /\ exporter.at \in {"manifest", "fill manifest", "ok"} =>
       \A f \in Files : dir[f] = exporter.lines[f]
  /\ exporter.at = "ok" => dir["manifest"] = ManifestCounts

Inv == DataInv /\ ExportInv

-----------------------------------------------------------------------------
(* The lines of a key file are those of the places of a column family, and *)
(* can be read off its records.                                            *)

RowsOf(f) ==
  CASE f = "tx_digests" -> "tx_by_digest"
    [] f = "object_versions" -> "object_version"
    [] f = "object_ids" -> "object_last_seen"
    [] f = "event_types" -> "event_by_type"

LineAt(f, p) ==
  CASE f = "tx_digests" -> chain[p[1]][p[2]].digest
    [] f = "object_versions" -> VersionLine(ChangeAt(p))
    [] f = "object_ids" -> ChangeAt(p).object
    [] f = "event_types" -> EventType(p)

LineIn(f, record) ==
  CASE f = "tx_digests" -> record.digest
    [] f = "object_versions" -> <<record.object, record.version>>
    [] f = "object_ids" -> record.object
    [] f = "event_types" -> record.type

LEMMA FileFacts ==
  /\ RowsOf("tx_digests") = "tx_by_digest"
  /\ RowsOf("object_versions") = "object_version"
  /\ RowsOf("object_ids") = "object_last_seen"
  /\ RowsOf("event_types") = "event_by_type"
  /\ \A f \in Files : RowsOf(f) \in ColumnFamilies
BY OneColumnFamily DEF RowsOf, Files

LEMMA LineAtIs ==
  ASSUME NEW p
  PROVE  /\ LineAt("tx_digests", p) = chain[p[1]][p[2]].digest
         /\ LineAt("object_versions", p) = VersionLine(ChangeAt(p))
         /\ LineAt("object_ids", p) = ChangeAt(p).object
         /\ LineAt("event_types", p) = EventType(p)
<1> DEFINE a == VersionLine(ChangeAt(p))
           b == EventType(p)
           c == ChangeAt(p).object
           d == chain[p[1]][p[2]].digest
<1>1. \A f : LineAt(f, p) =
        CASE f = "tx_digests" -> d
          [] f = "object_versions" -> a
          [] f = "object_ids" -> c
          [] f = "event_types" -> b
  BY DEF LineAt
<1> HIDE DEF a, b, c, d
<1>2. /\ LineAt("tx_digests", p) = d /\ LineAt("object_versions", p) = a
      /\ LineAt("object_ids", p) = c /\ LineAt("event_types", p) = b
  BY <1>1
<1> QED
  BY <1>2 DEF a, b, c, d

LEMMA RecordFields ==
  ASSUME NEW p
  PROVE  /\ Row("object_version", p).record.object = ChangeAt(p).object
         /\ Row("object_version", p).record.version = Version(ChangeAt(p))
         /\ Row("object_version", p).record.checkpoint = p[1]
         /\ Row("object_version", p).record.owner = Owner(ChangeAt(p))
         /\ Row("object_last_seen", p).record.object = ChangeAt(p).object
         /\ Row("event_by_type", p).record.type = EventType(p)
<1> DEFINE v == Row("object_version", p).record
           e == Row("event_by_type", p).record
<1>1. /\ v = [object |-> ChangeAt(p).object, version |-> Version(ChangeAt(p)),
               checkpoint |-> p[1], owner |-> Owner(ChangeAt(p)), type |-> ChangeAt(p).type]
      /\ e = [type |-> chain[p[1]][p[2]].events[p[3]], checkpoint |-> p[1],
               digest |-> chain[p[1]][p[2]].digest]
      /\ Row("object_last_seen", p).record = v
  BY RecordIs
<1> HIDE DEF v, e
<1>2. /\ v.object = ChangeAt(p).object /\ v.version = Version(ChangeAt(p))
      /\ v.checkpoint = p[1] /\ v.owner = Owner(ChangeAt(p))
  BY <1>1
<1>3. e.type = EventType(p)
  BY <1>1 DEF EventType
<1> QED
  BY <1>1, <1>2, <1>3 DEF v, e

LEMMA LineInIs ==
  ASSUME NEW f \in Files, NEW p
  PROVE  LineIn(f, Row(RowsOf(f), p).record) = LineAt(f, p)
<1>1. CASE f = "tx_digests"
  BY <1>1, FileFacts, RecordIs, LineAtIs DEF LineIn
<1>2. CASE f = "object_versions"
  <2>1. /\ Row("object_version", p).record.object = ChangeAt(p).object
        /\ Row("object_version", p).record.version = Version(ChangeAt(p))
    BY RecordFields
  <2> QED
    BY <1>2, <2>1, FileFacts, LineAtIs DEF LineIn, VersionLine
<1>3. CASE f = "object_ids"
  <2>1. Row("object_last_seen", p).record.object = ChangeAt(p).object
    BY RecordFields
  <2> QED
    BY <1>3, <2>1, FileFacts, LineAtIs DEF LineIn
<1>4. CASE f = "event_types"
  <2>1. Row("event_by_type", p).record.type = EventType(p)
    BY RecordFields
  <2> QED
    BY <1>4, <2>1, FileFacts, LineAtIs DEF LineIn
<1> QED
  BY <1>1, <1>2, <1>3, <1>4 DEF Files

(* Two events have the same key only if they are the same event.           *)
LEMMA EventKeysTell ==
  ASSUME chain \in Chains, NEW p \in PlacesOf("event_by_type"), NEW q \in PlacesOf("event_by_type"),
         EventKey(p) = EventKey(q)
  PROVE  p = q
<1>1. EventType(p) = EventType(q)
  BY EventKeyIs
<1>2. /\ p \in Triples /\ q \in Triples
      /\ EventKey(p) \in Bytes
  BY EventKeyIs DEF PlacesOf
<1>3. ~LexLess(EventKey(p), EventKey(p))
  BY <1>2, BytesNat, LexIrreflexive
<1>4. ~Before(p, q) /\ ~Before(q, p)
  BY <1>1, <1>3, EventKeysGrow
<1>5. /\ p = <<p[1], p[2], p[3]>> /\ p[1] \in Nat /\ p[2] \in Nat /\ p[3] \in Nat
      /\ q = <<q[1], q[2], q[3]>> /\ q[1] \in Nat /\ q[2] \in Nat /\ q[3] \in Nat
  BY <1>2 DEF Triples
<1>6. p[1] = q[1] /\ p[2] = q[2] /\ p[3] = q[3]
  BY <1>4, <1>5 DEF Before
<1> QED
  BY <1>5, <1>6

LEMMA InChangesOf ==
  ASSUME NEW cf \in {"object_version", "object_last_seen", "owner_touched"}, NEW p \in PlacesOf(cf)
  PROVE  p \in Triples /\ p[1] \in 1..Len(chain) /\ InChanges(p)
BY DEF PlacesOf, Placed

(* Rows with the same key have the same line, and in three of the files    *)
(* lines tell keys apart.                                                  *)
LEMMA LinesTell ==
  ASSUME chain \in Chains, NEW f \in Files, NEW p \in PlacesOf(RowsOf(f)), NEW q \in PlacesOf(RowsOf(f))
  PROVE  /\ KeyAt(RowsOf(f), p) = KeyAt(RowsOf(f), q) => LineAt(f, p) = LineAt(f, q)
         /\ f # "event_types" =>
              (LineAt(f, p) = LineAt(f, q) => KeyAt(RowsOf(f), p) = KeyAt(RowsOf(f), q))
<1>1. CASE f = "tx_digests"
  <2>1. p \in PlacesOf("tx_by_digest") /\ q \in PlacesOf("tx_by_digest")
    BY <1>1, FileFacts
  <2>2. /\ p[1] \in 1..Len(chain) /\ p[2] \in 1..Len(chain[p[1]])
        /\ q[1] \in 1..Len(chain) /\ q[2] \in 1..Len(chain[q[1]])
    BY <2>1 DEF PlacesOf, Placed, InTx
  <2>3. chain[p[1]][p[2]].digest \in DOMAIN Text /\ chain[q[1]][q[2]].digest \in DOMAIN Text
    BY <2>2, TxFacts
  <2>4. Text[chain[p[1]][p[2]].digest] = Text[chain[q[1]][q[2]].digest] <=>
          chain[p[1]][p[2]].digest = chain[q[1]][q[2]].digest
    BY <2>3, TextFacts
  <2> QED
    BY <1>1, <2>4, FileFacts, KeyAtIs, LineAtIs
<1>2. CASE f = "object_versions"
  <2>1. p \in PlacesOf("object_version") /\ q \in PlacesOf("object_version")
    BY <1>2, FileFacts
  <2>2. /\ p \in Triples /\ p[1] \in 1..Len(chain) /\ InChanges(p)
        /\ q \in Triples /\ q[1] \in 1..Len(chain) /\ InChanges(q)
    BY <2>1, InChangesOf
  <2>3. VersionKey(p) = VersionKey(q) =>
          ChangeAt(p).object = ChangeAt(q).object /\ Version(ChangeAt(p)) = Version(ChangeAt(q))
    BY <2>2, VersionKeysTell
  <2>4. VersionKey(p) = VersionKey(q) <=> VersionLine(ChangeAt(p)) = VersionLine(ChangeAt(q))
    BY <2>3 DEF VersionLine, VersionKey
  <2> QED
    BY <1>2, <2>4, FileFacts, KeyAtIs, LineAtIs
<1>3. CASE f = "object_ids"
  <2>1. p \in PlacesOf("object_last_seen") /\ q \in PlacesOf("object_last_seen")
    BY <1>3, FileFacts
  <2>2. /\ p \in Triples /\ p[1] \in 1..Len(chain) /\ InChanges(p)
        /\ q \in Triples /\ q[1] \in 1..Len(chain) /\ InChanges(q)
    BY <2>1, InChangesOf
  <2>3. ChangeAt(p).object \in DOMAIN Text /\ ChangeAt(q).object \in DOMAIN Text
    BY <2>2, ChangeFacts
  <2>4. Text[ChangeAt(p).object] = Text[ChangeAt(q).object] <=> ChangeAt(p).object = ChangeAt(q).object
    BY <2>3, TextFacts
  <2> QED
    BY <1>3, <2>4, FileFacts, KeyAtIs, LineAtIs
<1>4. CASE f = "event_types"
  <2>1. p \in PlacesOf("event_by_type") /\ q \in PlacesOf("event_by_type")
    BY <1>4, FileFacts
  <2>2. EventKey(p) = EventKey(q) => p = q
    BY <2>1, EventKeysTell
  <2> QED
    BY <1>4, <2>2, FileFacts, KeyAtIs
<1> QED
  BY <1>1, <1>2, <1>3, <1>4 DEF Files

LEMMA PlaceIs ==
  ASSUME chain \in Chains, NEW n \in 0..Len(chain), NEW c \in Nat, NEW u \in Nat, NEW i \in Nat
  PROVE  /\ <<c, u, 0>> \in PlacesIn("tx_by_digest", n) <=> c \in 1..n /\ u \in DOMAIN chain[c]
         /\ <<c, u, i>> \in PlacesIn("event_by_type", n) <=>
              c \in 1..n /\ u \in DOMAIN chain[c] /\ i \in DOMAIN chain[c][u].events
         /\ \A cf \in {"object_version", "object_last_seen"} :
              <<c, u, i>> \in PlacesIn(cf, n) <=>
                /\ c \in 1..n /\ u \in DOMAIN chain[c] /\ i \in DOMAIN chain[c][u].changes
                /\ chain[c][u].changes[i].object # None
<1> DEFINE p == <<c, u, i>>
           q == <<c, u, 0>>
<1>1. /\ p \in Triples /\ p[1] = c /\ p[2] = u /\ p[3] = i
      /\ q \in Triples /\ q[1] = c /\ q[2] = u /\ q[3] = 0
  BY TriplesIs
<1>2. c \in 1..n <=> c \in 1..Len(chain) /\ c <= n
  BY ChainFacts
<1>3. c \in 1..Len(chain) => DOMAIN chain[c] = 1..Len(chain[c])
  BY ChainFacts
<1>4. c \in 1..Len(chain) /\ u \in 1..Len(chain[c]) =>
        /\ DOMAIN chain[c][u].events = 1..Len(chain[c][u].events)
        /\ DOMAIN chain[c][u].changes = 1..Len(chain[c][u].changes)
  BY TxFacts
<1>5. ChangeAt(p) = chain[c][u].changes[i]
  BY <1>1 DEF ChangeAt
<1> HIDE DEF p, q
<1>6. q \in PlacesIn("tx_by_digest", n) <=> c \in 1..Len(chain) /\ c <= n /\ u \in 1..Len(chain[c])
  BY <1>1 DEF PlacesIn, PlacesOf, Placed, InTx
<1>7. p \in PlacesIn("event_by_type", n) <=>
        /\ c \in 1..Len(chain) /\ c <= n /\ u \in 1..Len(chain[c])
        /\ i \in 1..Len(chain[c][u].events)
  BY <1>1 DEF PlacesIn, PlacesOf, Placed, InEvents, InTx
<1>8. \A cf \in {"object_version", "object_last_seen"} :
        p \in PlacesIn(cf, n) <=>
          /\ c \in 1..Len(chain) /\ c <= n /\ u \in 1..Len(chain[c])
          /\ i \in 1..Len(chain[c][u].changes) /\ chain[c][u].changes[i].object # None
  BY <1>1, <1>5 DEF PlacesIn, PlacesOf, Placed, InChanges, InTx
<1> QED
  BY <1>2, <1>3, <1>4, <1>6, <1>7, <1>8 DEF p, q

LEMMA PlaceNat ==
  ASSUME NEW cf, NEW n, NEW p \in PlacesIn(cf, n)
  PROVE  p = <<p[1], p[2], p[3]>> /\ p[1] \in Nat /\ p[2] \in Nat /\ p[3] \in Nat /\ p \in PlacesOf(cf)
BY DEF PlacesIn, PlacesOf, Triples

LEMMA LinesAre ==
  ASSUME chain \in Chains, NEW n \in 0..Len(chain), NEW f \in Files
  PROVE  LinesOf(1..n)[f] = {LineAt(f, p) : p \in PlacesIn(RowsOf(f), n)}
<1> DEFINE L == LinesOf(1..n)
           T == {LineAt(f, p) : p \in PlacesIn(RowsOf(f), n)}
<1>1. L[f] = UNION {CheckpointLines(c)[f] : c \in 1..n}
  BY DEF LinesOf
<1>2. /\ \A c : CheckpointLines(c)["tx_digests"] = {chain[c][t].digest : t \in DOMAIN chain[c]}
      /\ \A c : CheckpointLines(c)["object_versions"] = {VersionLine(change) : change \in ObjectChanges(c)}
      /\ \A c : CheckpointLines(c)["object_ids"] = {change.object : change \in ObjectChanges(c)}
      /\ \A c : CheckpointLines(c)["event_types"] =
           UNION {{chain[c][t].events[i] : i \in DOMAIN chain[c][t].events} : t \in DOMAIN chain[c]}
  BY DEF CheckpointLines
<1>3. \A c \in 1..n : c \in 1..Len(chain) /\ c \in Nat /\ DOMAIN chain[c] = 1..Len(chain[c])
  BY ChainFacts
<1>4. \A c \in 1..n : \A t \in DOMAIN chain[c] :
        /\ t \in Nat
        /\ \A i \in DOMAIN chain[c][t].events : i \in Nat
        /\ \A i \in DOMAIN chain[c][t].changes : i \in Nat
  <2> TAKE c \in 1..n
  <2> TAKE t \in DOMAIN chain[c]
  <2>1. c \in 1..Len(chain) /\ t \in 1..Len(chain[c]) /\ Len(chain[c]) \in Nat
    BY <1>3, ChainFacts
  <2>2. /\ DOMAIN chain[c][t].events = 1..Len(chain[c][t].events)
        /\ DOMAIN chain[c][t].changes = 1..Len(chain[c][t].changes)
        /\ Len(chain[c][t].events) \in Nat /\ Len(chain[c][t].changes) \in Nat
    BY <2>1, TxFacts
  <2> QED
    BY <2>1, <2>2
<1> HIDE DEF L
<1>5. CASE f = "tx_digests"
  <2>1. ASSUME NEW line \in L[f]
        PROVE  line \in T
    <3>1. PICK c \in 1..n : line \in {chain[c][t].digest : t \in DOMAIN chain[c]}
      BY <1>1, <1>2, <1>5
    <3>2. PICK t \in DOMAIN chain[c] : line = chain[c][t].digest
      BY <3>1
    <3> DEFINE p == <<c, t, 0>>
    <3>3. p \in PlacesIn("tx_by_digest", n)
      BY <1>3, <1>4, PlaceIs
    <3>4. LineAt("tx_digests", p) = line
      BY <3>2, LineAtIs
    <3> HIDE DEF p
    <3> QED
      BY <1>5, <3>3, <3>4, FileFacts
  <2>2. ASSUME NEW line \in T
        PROVE  line \in L[f]
    <3>1. PICK p \in PlacesIn("tx_by_digest", n) : line = LineAt(f, p)
      BY <1>5, FileFacts
    <3>2. p = <<p[1], p[2], p[3]>> /\ p[1] \in Nat /\ p[2] \in Nat /\ p[3] = 0
      BY PlaceNat DEF PlacesOf, Placed
    <3>3. <<p[1], p[2], 0>> \in PlacesIn("tx_by_digest", n)
      BY <3>2
    <3>4. p[1] \in 1..n /\ p[2] \in DOMAIN chain[p[1]]
      BY <3>2, <3>3, PlaceIs
    <3>5. line = chain[p[1]][p[2]].digest
      BY <1>5, <3>1, LineAtIs
    <3>6. line \in CheckpointLines(p[1])["tx_digests"]
      BY <1>2, <3>4, <3>5
    <3> QED
      BY <1>1, <1>5, <3>4, <3>6
  <2> QED
    BY <2>1, <2>2 DEF L
<1>6. CASE f = "event_types"
  <2>1. ASSUME NEW line \in L[f]
        PROVE  line \in T
    <3>1. PICK c \in 1..n : line \in CheckpointLines(c)["event_types"]
      BY <1>1, <1>6
    <3>2. PICK t \in DOMAIN chain[c] : line \in {chain[c][t].events[i] : i \in DOMAIN chain[c][t].events}
      BY <1>2, <3>1
    <3>3. PICK i \in DOMAIN chain[c][t].events : line = chain[c][t].events[i]
      BY <3>2
    <3> DEFINE p == <<c, t, i>>
    <3>4. p \in PlacesIn("event_by_type", n)
      BY <1>3, <1>4, PlaceIs
    <3>5. LineAt("event_types", p) = line
      BY <3>3, LineAtIs DEF EventType
    <3> HIDE DEF p
    <3> QED
      BY <1>6, <3>4, <3>5, FileFacts
  <2>2. ASSUME NEW line \in T
        PROVE  line \in L[f]
    <3>1. PICK p \in PlacesIn("event_by_type", n) : line = LineAt(f, p)
      BY <1>6, FileFacts
    <3>2. p = <<p[1], p[2], p[3]>> /\ p[1] \in Nat /\ p[2] \in Nat /\ p[3] \in Nat
      BY PlaceNat
    <3>3. <<p[1], p[2], p[3]>> \in PlacesIn("event_by_type", n)
      BY <3>2
    <3>4. p[1] \in 1..n /\ p[2] \in DOMAIN chain[p[1]] /\ p[3] \in DOMAIN chain[p[1]][p[2]].events
      BY <3>2, <3>3, PlaceIs
    <3>5. line = chain[p[1]][p[2]].events[p[3]]
      BY <1>6, <3>1, LineAtIs DEF EventType
    <3>6. line \in CheckpointLines(p[1])["event_types"]
      BY <1>2, <3>4, <3>5
    <3> QED
      BY <1>1, <1>6, <3>4, <3>6
  <2> QED
    BY <2>1, <2>2 DEF L
<1>7. ASSUME NEW c \in 1..n, NEW change \in ObjectChanges(c), NEW cf \in {"object_version", "object_last_seen"}
      PROVE  \E p \in PlacesIn(cf, n) : ChangeAt(p) = change
  <2>1. /\ change.object # None
        /\ change \in UNION {{chain[c][t].changes[i] : i \in DOMAIN chain[c][t].changes} : t \in DOMAIN chain[c]}
    BY DEF ObjectChanges
  <2>2. PICK t \in DOMAIN chain[c] : change \in {chain[c][t].changes[i] : i \in DOMAIN chain[c][t].changes}
    BY <2>1
  <2>3. PICK i \in DOMAIN chain[c][t].changes : change = chain[c][t].changes[i]
    BY <2>2
  <2> DEFINE p == <<c, t, i>>
  <2>4. p \in PlacesIn(cf, n)
    BY <1>3, <1>4, <2>1, <2>3, PlaceIs
  <2>5. ChangeAt(p) = change
    BY <2>3 DEF ChangeAt
  <2> HIDE DEF p
  <2> QED
    BY <2>4, <2>5
<1>8. ASSUME NEW cf \in {"object_version", "object_last_seen"}, NEW p \in PlacesIn(cf, n)
      PROVE  p[1] \in 1..n /\ ChangeAt(p) \in ObjectChanges(p[1])
  <2>1. p = <<p[1], p[2], p[3]>> /\ p[1] \in Nat /\ p[2] \in Nat /\ p[3] \in Nat
    BY PlaceNat
  <2>2. <<p[1], p[2], p[3]>> \in PlacesIn(cf, n)
    BY <2>1
  <2>3. /\ p[1] \in 1..n /\ p[2] \in DOMAIN chain[p[1]] /\ p[3] \in DOMAIN chain[p[1]][p[2]].changes
        /\ chain[p[1]][p[2]].changes[p[3]].object # None
    BY <2>1, <2>2, PlaceIs
  <2> DEFINE c == p[1]
             t == p[2]
             ch == ChangeAt(p)
  <2>4. ch = chain[c][t].changes[p[3]] /\ ch.object # None
    BY <2>3 DEF ChangeAt
  <2> HIDE DEF ch
  <2>5. ch \in {chain[c][t].changes[i] : i \in DOMAIN chain[c][t].changes}
    BY <2>3, <2>4
  <2>6. ch \in UNION {{chain[c][u].changes[i] : i \in DOMAIN chain[c][u].changes} : u \in DOMAIN chain[c]}
    BY <2>3, <2>5
  <2> QED
    BY <2>3, <2>4, <2>6 DEF ObjectChanges, ch
<1>9. CASE f = "object_versions"
  <2>1. ASSUME NEW line \in L[f]
        PROVE  line \in T
    <3>1. PICK c \in 1..n : line \in CheckpointLines(c)["object_versions"]
      BY <1>1, <1>9
    <3>2. PICK change \in ObjectChanges(c) : line = VersionLine(change)
      BY <1>2, <3>1
    <3>3. PICK p \in PlacesIn("object_version", n) : ChangeAt(p) = change
      BY <1>7
    <3>4. LineAt("object_versions", p) = line
      BY <3>2, <3>3, LineAtIs
    <3> QED
      BY <1>9, <3>4, FileFacts
  <2>2. ASSUME NEW line \in T
        PROVE  line \in L[f]
    <3>1. PICK p \in PlacesIn("object_version", n) : line = LineAt(f, p)
      BY <1>9, FileFacts
    <3>2. p[1] \in 1..n /\ ChangeAt(p) \in ObjectChanges(p[1])
      BY <1>8
    <3>3. line \in CheckpointLines(p[1])["object_versions"]
      BY <1>2, <1>9, <3>1, <3>2, LineAtIs
    <3> QED
      BY <1>1, <1>9, <3>2, <3>3
  <2> QED
    BY <2>1, <2>2 DEF L
<1>10. CASE f = "object_ids"
  <2>1. ASSUME NEW line \in L[f]
        PROVE  line \in T
    <3>1. PICK c \in 1..n : line \in CheckpointLines(c)["object_ids"]
      BY <1>1, <1>10
    <3>2. PICK change \in ObjectChanges(c) : line = change.object
      BY <1>2, <3>1
    <3>3. PICK p \in PlacesIn("object_last_seen", n) : ChangeAt(p) = change
      BY <1>7
    <3>4. LineAt("object_ids", p) = line
      BY <3>2, <3>3, LineAtIs
    <3> QED
      BY <1>10, <3>4, FileFacts
  <2>2. ASSUME NEW line \in T
        PROVE  line \in L[f]
    <3>1. PICK p \in PlacesIn("object_last_seen", n) : line = LineAt(f, p)
      BY <1>10, FileFacts
    <3>2. p[1] \in 1..n /\ ChangeAt(p) \in ObjectChanges(p[1])
      BY <1>8
    <3>3. line \in CheckpointLines(p[1])["object_ids"]
      BY <1>2, <1>10, <3>1, <3>2, LineAtIs
    <3> QED
      BY <1>1, <1>10, <3>2, <3>3
  <2> QED
    BY <2>1, <2>2 DEF L
<1> QED
  BY <1>5, <1>6, <1>9, <1>10 DEF Files, L

-----------------------------------------------------------------------------
(* What the database shows of the places.                                  *)

LEMMA Database ==
  ASSUME DataInv, NEW cf \in ColumnFamilies
  PROVE  /\ chain \in Chains /\ stored \in 0..Len(chain) /\ stored \in Nat
         /\ PlacesIn(cf, stored) \in SUBSET Triples /\ IsFiniteSet(PlacesIn(cf, stored))
         /\ PlacesIn(cf, stored) \in SUBSET PlacesOf(cf)
         /\ KeysOf(db, cf) = {KeyAt(cf, p) : p \in PlacesIn(cf, stored)}
         /\ KeysOf(db, cf) \in SUBSET Bytes /\ IsFiniteSet(KeysOf(db, cf))
         /\ \A q : LastOfKey(cf, stored, q) => db[<<cf, KeyAt(cf, q)>>] = Row(cf, q).record
         /\ \A p \in PlacesIn(cf, stored) :
              /\ Has(db, cf, KeyAt(cf, p))
              /\ \E q : LastOfKey(cf, stored, q) /\ KeyAt(cf, q) = KeyAt(cf, p)
<1>1. chain \in Chains /\ stored \in 0..Len(chain) /\ stored \in Nat /\ db = OneBatch(stored)
  BY ChainFacts DEF DataInv
<1>2. PlacesIn(cf, stored) \in SUBSET PlacesOf(cf)
  BY DEF PlacesIn
<1> QED
  BY <1>1, <1>2, ContentIs DEF Has

LEMMA KeyLines ==
  ASSUME DataInv, NEW f \in Files, NEW p \in PlacesIn(RowsOf(f), stored)
  PROVE  LineIn(f, db[<<RowsOf(f), KeyAt(RowsOf(f), p)>>]) = LineAt(f, p)
<1> DEFINE cf == RowsOf(f)
<1>1. cf \in ColumnFamilies
  BY FileFacts
<1>2. PICK q : LastOfKey(cf, stored, q) /\ KeyAt(cf, q) = KeyAt(cf, p)
  BY <1>1, Database
<1>3. db[<<cf, KeyAt(cf, q)>>] = Row(cf, q).record
  BY <1>1, <1>2, Database
<1>4. q \in PlacesOf(cf) /\ p \in PlacesOf(cf) /\ chain \in Chains
  BY <1>1, <1>2, Database DEF LastOfKey
<1>5. LineIn(f, Row(cf, q).record) = LineAt(f, q)
  BY LineInIs
<1>6. LineAt(f, q) = LineAt(f, p)
  BY <1>2, <1>4, LinesTell
<1> QED
  BY <1>2, <1>3, <1>5, <1>6

LEMMA PlacesGrow ==
  ASSUME NEW cf, NEW n \in Nat, NEW m \in Nat, n <= m
  PROVE  PlacesIn(cf, n) \in SUBSET PlacesIn(cf, m)
<1>1. \A p \in PlacesOf(cf) : p[1] \in Nat
  BY DEF PlacesOf, Triples
<1> QED
  BY <1>1 DEF PlacesIn

LEMMA EventsUnder ==
  ASSUME DataInv, NEW type \in DOMAIN Hash16
  PROVE  Under(db, "event_by_type", Hash16[type]) =
           {EventKey(p) : p \in {p \in PlacesIn("event_by_type", stored) : EventType(p) = type}}
<1> DEFINE M == Under(db, "event_by_type", Hash16[type])
           P == PlacesIn("event_by_type", stored)
           K == KeysOf(db, "event_by_type")
<1>1. K = {KeyAt("event_by_type", p) : p \in P} /\ chain \in Chains /\ P \in SUBSET PlacesOf("event_by_type")
  BY OneColumnFamily, Database
<1>2. \A p \in P : KeyAt("event_by_type", p) = EventKey(p)
  BY KeyAtIs
<1>3. \A p \in P : IsPrefix(Hash16[type], EventKey(p)) <=> type = EventType(p)
  BY <1>1, EventKeyIs
<1>4. M = {k \in K : IsPrefix(Hash16[type], k)}
  BY DEF Under
<1> HIDE DEF M, P, K
<1>5. \A k \in M : \E p \in {p \in P : EventType(p) = type} : k = EventKey(p)
  BY <1>1, <1>2, <1>3, <1>4
<1>6. \A p \in {p \in P : EventType(p) = type} : EventKey(p) \in M
  BY <1>1, <1>2, <1>3, <1>4
<1>7. M = {EventKey(p) : p \in {p \in P : EventType(p) = type}}
  BY <1>5, <1>6
<1> QED
  BY <1>7 DEF M, P

LEMMA EventScan ==
  ASSUME DataInv, NEW type \in DOMAIN Hash16, NEW limit \in Nat \ {0}, NEW M,
         M = Under(db, "event_by_type", Hash16[type])
  PROVE  /\ M \in SUBSET Seq(Nat) /\ IsFiniteSet(M) /\ Cardinality(M) \in Nat
         /\ ScanPrefix(db, "event_by_type", event_type_hash(type), limit) =
              [i \in 1..Least(limit, Cardinality(M)) |-> db[<<"event_by_type", InOrder(M)[i]>>]]
<1>1. KeysOf(db, "event_by_type") \in SUBSET Seq(Nat) /\ IsFiniteSet(KeysOf(db, "event_by_type"))
  BY OneColumnFamily, Database, BytesNat
<1>2. Hash16[type] \in Seq(Nat) /\ limit \in Nat /\ limit > 0
  BY HashFacts, BytesNat
<1>3. event_type_hash(type) = Hash16[type]
  BY DEF event_type_hash
<1> QED
  BY <1>1, <1>2, <1>3, ScanIs

(* A line of the stored checkpoints is answered.                           *)
LEMMA LinesAnswered ==
  ASSUME DataInv, NEW f \in Files, NEW n \in 0..stored, NEW line \in LinesOf(1..n)[f]
  PROVE  Answered(f, line)
<1> DEFINE cf == RowsOf(f)
<1>1. /\ cf \in ColumnFamilies /\ chain \in Chains /\ stored \in Nat /\ stored \in 0..Len(chain)
      /\ n \in 0..Len(chain) /\ n \in Nat /\ n <= stored
  <2>1. cf \in ColumnFamilies
    BY FileFacts
  <2>2. chain \in Chains /\ stored \in Nat /\ stored \in 0..Len(chain) /\ Len(chain) \in Nat
    BY <2>1, Database, ChainFacts
  <2> QED
    BY <2>1, <2>2
<1>2. PICK p \in PlacesIn(cf, n) : line = LineAt(f, p)
  BY <1>1, LinesAre
<1>3. p \in PlacesIn(cf, stored)
  BY <1>1, <1>2, PlacesGrow
<1>4. Has(db, cf, KeyAt(cf, p)) /\ p \in PlacesOf(cf)
  BY <1>1, <1>3, Database
<1> HIDE DEF cf
<1>5. CASE f = "tx_digests"
  BY <1>2, <1>4, <1>5, FileFacts, KeyAtIs, LineAtIs DEF Answered, key_tx_by_digest, cf
<1>6. CASE f = "object_versions"
  <2>1. line = <<ChangeAt(p).object, Version(ChangeAt(p))>>
    BY <1>2, <1>6, LineAtIs DEF VersionLine
  <2>2. Has(db, "object_version", VersionKey(p))
    BY <1>4, <1>6, FileFacts, KeyAtIs DEF cf
  <2> QED
    BY <1>6, <2>1, <2>2 DEF Answered, VersionKey
<1>7. CASE f = "object_ids"
  BY <1>2, <1>4, <1>7, FileFacts, KeyAtIs, LineAtIs DEF Answered, key_object_last_seen, cf
<1>8. CASE f = "event_types"
  <2>1. cf = "event_by_type" /\ line = EventType(p)
    BY <1>2, <1>8, FileFacts, LineAtIs DEF cf
  <2>2. p \in PlacesIn("event_by_type", stored) /\ p \in PlacesOf("event_by_type")
    BY <1>3, <1>4, <2>1
  <2>3. line \in DOMAIN Hash16
    BY <1>1, <2>1, <2>2, EventKeyIs
  <2> DEFINE M == Under(db, "event_by_type", Hash16[line])
             rows == ScanPrefix(db, "event_by_type", event_type_hash(line), 1)
  <2>4. EventKey(p) \in M
    BY <2>1, <2>2, <2>3, EventsUnder
  <2>5. /\ IsFiniteSet(M) /\ Cardinality(M) \in Nat
        /\ rows = [i \in 1..Least(1, Cardinality(M)) |-> db[<<"event_by_type", InOrder(M)[i]>>]]
    BY <2>3, EventScan
  <2> HIDE DEF M, rows
  <2>6. Cardinality(M) # 0
    BY <2>4, <2>5, FS_EmptySet
  <2>7. Least(1, Cardinality(M)) = 1
    BY <2>5, <2>6 DEF Least
  <2>8. DOMAIN rows = 1..1
    BY <2>5, <2>7
  <2>9. rows # <<>>
    BY <2>8
  <2> QED
    BY <1>8, <2>9 DEF Answered, rows
<1> QED
  BY <1>5, <1>6, <1>7, <1>8 DEF Files

LEMMA KeysAreAnswered == DataInv => KeysAnswered
<1> SUFFICES ASSUME DataInv, NEW f \in Files, NEW line \in keys[f]
             PROVE  Answered(f, line)
  BY DEF KeysAnswered
<1>1. keys = LinesOf(1..keyed) /\ keyed \in 0..stored
  BY DEF DataInv
<1> QED
  BY <1>1, LinesAnswered

-----------------------------------------------------------------------------
(* What an export collects.                                                *)

LEMMA LeastFacts ==
  ASSUME NEW m \in Nat, NEW n \in Nat
  PROVE  Least(m, n) = Least(n, m) /\ Least(m, n) \in Nat /\ Least(m, n) <= m /\ Least(m, n) <= n
BY DEF Least

LEMMA IntervalCardinality ==
  ASSUME NEW n \in Nat
  PROVE  IsFiniteSet(1..n) /\ Cardinality(1..n) = n
<1>1. 1 \in Int /\ n \in Int
  OBVIOUS
<1>2. IsFiniteSet(1..n) /\ Cardinality(1..n) = IF 1 > n THEN 0 ELSE n - 1 + 1
  BY ONLY <1>1, FS_Interval
<1> QED
  BY <1>2

(* All of a column family, in the order of its keys.                       *)
LEMMA CollectIs ==
  ASSUME DataInv, NEW cf \in ColumnFamilies, NEW limit \in Nat, NEW K, K = KeysOf(db, cf),
         limit > 0 \/ K = {}
  PROVE  /\ Cardinality(K) \in Nat
         /\ ScanPrefix(db, cf, <<>>, limit) =
              [i \in 1..Least(limit, Cardinality(K)) |-> db[<<cf, InOrder(K)[i]>>]]
<1> DEFINE e == <<>>
<1>1. K \in SUBSET Seq(Nat) /\ IsFiniteSet(K)
  BY Database, BytesNat
<1>2. e \in Seq(Nat) /\ Len(e) = 0
  OBVIOUS
<1> HIDE DEF e
<1>3. \A k \in K : IsPrefix(e, k)
  <2> TAKE k \in K
  <2>1. k \in Seq(Nat) /\ Len(k) \in Nat
    BY <1>1
  <2>2. Len(e) <= Len(k) /\ \A i \in 1..Len(e) : e[i] = k[i]
    BY <1>2, <2>1
  <2> QED
    BY <1>2, <2>1, <2>2, PrefixIs
<1>4. K = Under(db, cf, e)
  BY <1>3 DEF Under
<1>5. IsFiniteSet(KeysOf(db, cf)) /\ KeysOf(db, cf) \in SUBSET Seq(Nat)
  BY <1>1
<1>6. limit > 0 \/ Under(db, cf, e) = {}
  BY <1>4
<1>7. ScanPrefix(db, cf, e, limit) =
        [i \in 1..Least(limit, Cardinality(K)) |-> db[<<cf, InOrder(K)[i]>>]]
  <2> DEFINE M == Under(db, cf, e)
  <2>2. ScanPrefix(db, cf, e, limit) =
          [i \in 1..Least(limit, Cardinality(M)) |-> db[<<cf, InOrder(M)[i]>>]]
    <3>1. e \in Seq(Nat)
      BY <1>2
    <3> QED
      BY ONLY <3>1, <1>5, <1>6, limit \in Nat, ScanIs
  <2> HIDE DEF M
  <2>3. K = M
    BY <1>4 DEF M
  <2> QED
    BY ONLY <2>2, <2>3
<1>8. Cardinality(K) \in Nat
  BY <1>1, FS_CardinalityType
<1> QED
  BY <1>7, <1>8 DEF e

(* The line under each key, and the lines there are.                       *)
LinesUnder(f) == [k \in KeysOf(db, RowsOf(f)) |-> LineIn(f, db[<<RowsOf(f), k>>])]

LEMMA LinesUnderAre ==
  ASSUME DataInv, NEW f \in Files, NEW K, K = KeysOf(db, RowsOf(f)), NEW L, L = LinesOf(1..stored)[f]
  PROVE  /\ K \in SUBSET Seq(Nat) /\ IsFiniteSet(K) /\ Cardinality(K) \in Nat
         /\ \A k \in K : LinesUnder(f)[k] \in L
         /\ \A line \in L : \E k \in K : LinesUnder(f)[k] = line
         /\ f # "event_types" =>
              \A k, j \in K : LinesUnder(f)[k] = LinesUnder(f)[j] => k = j
         /\ IsFiniteSet(L) /\ Cardinality(L) \in Nat
         /\ f # "event_types" => Cardinality(L) = Cardinality(K)
<1> DEFINE cf == RowsOf(f)
           P == PlacesIn(cf, stored)
           g == LinesUnder(f)
<1>1. cf \in ColumnFamilies
  BY FileFacts
<1>2. /\ chain \in Chains /\ stored \in 0..Len(chain) /\ P \in SUBSET PlacesOf(cf)
      /\ K = {KeyAt(cf, p) : p \in P} /\ K \in SUBSET Seq(Nat) /\ IsFiniteSet(K)
  BY <1>1, Database, BytesNat
<1>3. \A p \in P : KeyAt(cf, p) \in K /\ g[KeyAt(cf, p)] = LineAt(f, p)
  BY <1>2, KeyLines DEF LinesUnder
<1>4. L = {LineAt(f, p) : p \in P}
  BY <1>2, LinesAre
<1>5. f # "event_types" =>
        \A p, q \in P : LineAt(f, p) = LineAt(f, q) => KeyAt(cf, p) = KeyAt(cf, q)
  BY <1>2, LinesTell
<1> HIDE DEF cf, P, g
<1>6. \A k \in K : g[k] \in L
  BY <1>2, <1>3, <1>4
<1>7. \A line \in L : \E k \in K : g[k] = line
  BY <1>3, <1>4
<1>8. f # "event_types" => \A k, j \in K : g[k] = g[j] => k = j
  BY <1>2, <1>3, <1>5
<1>9. IsFiniteSet(L) /\ (f # "event_types" => Cardinality(L) = Cardinality(K))
  BY <1>2, <1>6, <1>7, <1>8, ImageCardinality
<1>10. Cardinality(K) \in Nat /\ Cardinality(L) \in Nat
  BY <1>2, <1>9, FS_CardinalityType
<1> QED
  BY <1>2, <1>6, <1>7, <1>8, <1>9, <1>10 DEF g

Taken(f, rows) == {LineIn(f, rows[i]) : i \in DOMAIN rows}

(* Of the lines of a file as many as the limit allows.                     *)
Gathered(f, got, limit) ==
  /\ IsFiniteSet(LinesOf(1..stored)[f])
  /\ got \in SUBSET LinesOf(1..stored)[f]
  /\ Cardinality(got) = Least(Cardinality(LinesOf(1..stored)[f]), limit)

LEMMA RecordsCollected ==
  ASSUME DataInv, NEW f \in Files, f # "event_types", NEW limit \in Nat \ {0}
  PROVE  Gathered(f, Taken(f, CollectRecords(RowsOf(f), limit)), limit)
<1> DEFINE L == LinesOf(1..stored)[f]
           rows == CollectRecords(RowsOf(f), limit)
           got == Taken(f, rows)
<1> DEFINE cf == RowsOf(f)
           K == KeysOf(db, cf)
           g == LinesUnder(f)
           n == Cardinality(K)
           l == Least(limit, n)
           h == [i \in 1..l |-> g[InOrder(K)[i]]]
<1>1. cf \in ColumnFamilies /\ limit \in Nat /\ limit > 0
  BY FileFacts
<1>2. n \in Nat /\ rows = [i \in 1..l |-> db[<<cf, InOrder(K)[i]>>]]
  BY <1>1, CollectIs DEF CollectRecords
<1>0. got = {LineIn(f, rows[i]) : i \in DOMAIN rows}
  BY DEF Taken
<1>3. /\ K \in SUBSET Seq(Nat) /\ IsFiniteSet(K) /\ IsFiniteSet(L) /\ Cardinality(L) = n
      /\ \A k \in K : g[k] \in L
      /\ \A k, j \in K : g[k] = g[j] => k = j
  BY LinesUnderAre
<1>4. l \in Nat /\ l <= n /\ l = Least(n, limit)
  BY <1>2, LeastFacts
<1>5. \A k \in K : g[k] = LineIn(f, db[<<cf, k>>])
  BY DEF LinesUnder
<1>6. \A i \in 1..n : InOrder(K)[i] \in K /\ Rank(K, InOrder(K)[i]) = i - 1
  BY <1>3, InOrderIs
<1> HIDE DEF K, g, n, l, cf, L, rows, got
<1>7. \A i \in 1..l : i \in 1..n /\ InOrder(K)[i] \in K /\ Rank(K, InOrder(K)[i]) = i - 1
  BY <1>2, <1>4, <1>6
<1>8. \A i \in 1..l : h[i] = LineIn(f, rows[i]) /\ h[i] \in L
  BY <1>2, <1>3, <1>5, <1>7
<1>9. \A i, j \in 1..l : h[i] = h[j] => i = j
  <2> SUFFICES ASSUME NEW i \in 1..l, NEW j \in 1..l, h[i] = h[j] PROVE i = j
    OBVIOUS
  <2>1. InOrder(K)[i] = InOrder(K)[j]
    BY <1>3, <1>7
  <2>2. i - 1 = j - 1
    BY <1>7, <2>1
  <2> QED
    BY <1>4, <2>2
<1>10. DOMAIN rows = 1..l
  BY <1>2
<1> HIDE DEF h
<1>11. (\A i \in 1..l : h[i] \in got) /\ (\A x \in got : \E i \in 1..l : h[i] = x)
  BY <1>0, <1>8, <1>10
<1> DEFINE I == 1..l
<1>12. IsFiniteSet(I) /\ Cardinality(I) = l
  BY <1>4, IntervalCardinality
<1>13. Cardinality(got) = l
  <2>1. /\ \A i \in I : h[i] \in got
        /\ \A x \in got : \E i \in I : h[i] = x
        /\ \A i, j \in I : h[i] = h[j] => i = j
    BY <1>9, <1>11
  <2> HIDE DEF I
  <2> QED
    BY ONLY <1>12, <2>1, ImageCardinality
<1>14. got \in SUBSET L
  BY <1>8, <1>11
<1>15. IsFiniteSet(L) /\ got \in SUBSET L /\ Cardinality(got) = Least(Cardinality(L), limit)
  BY <1>3, <1>4, <1>13, <1>14
<1> QED
  BY <1>15 DEF L, got, rows, Gathered

(* Taking members of a sequence until there are as many as the limit takes *)
(* its first members, and all of them or as many different as the limit.   *)
ImageOf(t, A) == {t[i] : i \in A}

TakesDistinct(c, t, limit, T, A) ==
  /\ c \in Nat /\ limit \in Nat \ {0} /\ A \in SUBSET (1..c)
  /\ \A n \in 0..c : T[n] = ImageOf(t, 1..n)
  /\ \A n \in 1..c : n \in A <=> n = 1 \/ Cardinality(T[n - 1]) < limit

LEMMA FirstDistinct ==
  ASSUME NEW c, NEW t, NEW limit, NEW T, NEW A, TakesDistinct(c, t, limit, T, A)
  PROVE  /\ ImageOf(t, A) \in SUBSET T[c] /\ IsFiniteSet(T[c])
         /\ Cardinality(ImageOf(t, A)) = Least(Cardinality(T[c]), limit)
<1>0. /\ c \in Nat /\ limit \in Nat \ {0} /\ A \in SUBSET (1..c)
      /\ \A n \in 0..c : T[n] = ImageOf(t, 1..n)
      /\ \A n \in 1..c : n \in A <=> n = 1 \/ Cardinality(T[n - 1]) < limit
  BY DEF TakesDistinct
<1> SUFFICES ASSUME c \in Nat, limit \in Nat \ {0}, A \in SUBSET (1..c),
                    \A n \in 0..c : T[n] = ImageOf(t, 1..n),
                    \A n \in 1..c : n \in A <=> n = 1 \/ Cardinality(T[n - 1]) < limit
             PROVE  /\ ImageOf(t, A) \in SUBSET T[c] /\ IsFiniteSet(T[c])
                    /\ Cardinality(ImageOf(t, A)) = Least(Cardinality(T[c]), limit)
  BY <1>0
<1> DEFINE C == [n \in 0..c |-> Cardinality(T[n])]
           got == ImageOf(t, A)
<1>1. \A n \in 0..c : T[n] = {t[i] : i \in 1..n} /\ C[n] = Cardinality(T[n])
  BY DEF ImageOf
<1>2. \A n \in 1..c : n - 1 \in 0..c /\ (n \in A <=> n = 1 \/ C[n - 1] < limit)
  OBVIOUS
<1>3. 0 \in 0..c /\ c \in 0..c /\ limit \in Nat /\ limit > 0
  OBVIOUS
<1> HIDE DEF C
<1>4. ASSUME NEW n \in 0..c
      PROVE  IsFiniteSet(T[n]) /\ C[n] \in Nat
  <2> DEFINE h == [i \in 1..n |-> t[i]]
             S == 1..n
             R == T[n]
  <2>1. IsFiniteSet(S)
    BY IntervalCardinality
  <2>2. (\A i \in S : h[i] \in R) /\ (\A x \in R : \E i \in S : h[i] = x)
    BY <1>1
  <2> HIDE DEF h, S, R
  <2>3. IsFiniteSet(R)
    BY ONLY <2>1, <2>2, ImageCardinality
  <2>4. Cardinality(R) \in Nat
    BY ONLY <2>3, FS_CardinalityType
  <2> QED
    BY <1>1, <2>3, <2>4 DEF R
<1>5. ASSUME NEW m \in 0..c, NEW n \in 0..c, m <= n
      PROVE  T[m] \in SUBSET T[n] /\ C[m] <= C[n]
  <2>1. \A i \in 1..m : i \in 1..n
    BY <1>5
  <2>2. T[m] \in SUBSET T[n]
    <3>1. T[m] = {t[i] : i \in 1..m} /\ T[n] = {t[i] : i \in 1..n}
      BY <1>1
    <3> QED
      BY ONLY <2>1, <3>1
  <2>3. IsFiniteSet(T[n])
    BY <1>4
  <2>4. Cardinality(T[m]) <= Cardinality(T[n])
    BY ONLY <2>2, <2>3, FS_Subset
  <2> QED
    BY <1>1, <2>2, <2>4
<1>6. ASSUME NEW n \in 0..c, n + 1 \in 0..c
      PROVE  C[n + 1] <= C[n] + 1
  <2>1. \A i \in 1..(n + 1) : i \in 1..n \/ i = n + 1
    OBVIOUS
  <2>2. n + 1 \in 1..(n + 1) /\ \A i \in 1..n : i \in 1..(n + 1)
    OBVIOUS
  <2> DEFINE R == T[n]
             x == t[n + 1]
  <2>3. T[n + 1] = R \cup {x}
    BY <1>1, <1>6, <2>1, <2>2
  <2>4. IsFiniteSet(R) /\ C[n] = Cardinality(R) /\ C[n] \in Nat /\ C[n + 1] = Cardinality(T[n + 1])
    BY <1>1, <1>4, <1>6
  <2> HIDE DEF R, x
  <2>5. Cardinality(R \cup {x}) = IF x \in R THEN Cardinality(R) ELSE Cardinality(R) + 1
    BY ONLY <2>4, FS_AddElement
  <2> QED
    BY <2>3, <2>4, <2>5
<1>7. T[0] = {} /\ C[0] = 0
  <2>1. T[0] = {t[i] : i \in 1..0} /\ C[0] = Cardinality(T[0])
    BY <1>1, <1>3
  <2>2. \A i \in 1..0 : FALSE
    OBVIOUS
  <2>3. T[0] = {}
    BY <2>1, <2>2
  <2> QED
    BY <2>1, <2>3, FS_EmptySet
<1>8. Cardinality(T[c]) = C[c] /\ IsFiniteSet(T[c]) /\ C[c] \in Nat
  BY <1>1, <1>3, <1>4
<1>9. CASE c = 0
  <2>1. A = {}
    BY <1>9
  <2>2. got = {} /\ T[c] = {}
    BY <1>7, <1>9, <2>1 DEF ImageOf
  <2> HIDE DEF got
  <2>3. Cardinality(got) = 0 /\ Cardinality(T[c]) = 0
    BY <1>7, <1>8, <1>9, <2>2
  <2>4. got \in SUBSET T[c]
    BY <2>2
  <2>5. Cardinality(got) = Least(Cardinality(T[c]), limit)
    BY <1>3, <2>3 DEF Least
  <2> QED
    BY <1>8, <2>4, <2>5 DEF got
<1>10. CASE c # 0
  <2>1. 1 \in 1..c
    BY <1>10
  <2>2. 1 \in A
    BY <1>2, <2>1
  <2>3. A \in SUBSET (0..c) /\ A # {}
    BY <2>2
  <2>4. PICK a \in A : \A n \in A : n <= a
    BY <2>3, GreatestOf
  <2>5. a \in 1..c /\ a \in 0..c /\ a - 1 \in 0..c /\ (a - 1) + 1 = a /\ a \in Nat
    OBVIOUS
  <2>6. a = 1 \/ C[a - 1] < limit
    BY <1>2, <2>5
  <2>7. \A n \in 1..a : n \in A
    <3> TAKE n \in 1..a
    <3>1. n \in 1..c /\ n - 1 \in 0..c /\ n - 1 <= a - 1
      BY <2>5
    <3>2. CASE n = 1
      BY <2>2, <3>2
    <3>3. CASE n # 1
      <4>1. C[n - 1] <= C[a - 1]
        BY <1>5, <2>5, <3>1
      <4>2. a # 1
        BY <2>5, <3>3
      <4>3. C[n - 1] < limit
        BY <1>3, <1>4, <2>5, <2>6, <3>1, <4>1, <4>2
      <4> QED
        BY <1>2, <3>1, <4>3
    <3> QED
      BY <3>2, <3>3
  <2>8. (\A n \in A : n \in 1..a) /\ (\A n \in 1..a : n \in A)
    BY <2>4, <2>5, <2>7
  <2>9. got = T[a]
    BY <1>1, <2>5, <2>8 DEF ImageOf
  <2>10. C[a] <= limit
    <3>1. C[a] <= C[a - 1] + 1
      BY <1>6, <2>5
    <3>2. a = 1 => C[a - 1] = 0
      BY <1>7
    <3>3. C[a] \in Nat /\ C[a - 1] \in Nat
      BY <1>4, <2>5
    <3> QED
      BY <1>3, <2>6, <3>1, <3>2, <3>3
  <2>11. T[a] \in SUBSET T[c] /\ C[a] <= C[c] /\ C[a] \in Nat
    <3>1. a <= c
      BY <2>5
    <3>2. T[a] \in SUBSET T[c] /\ C[a] <= C[c]
      BY <1>3, <1>5, <2>5, <3>1
    <3> QED
      BY <1>4, <2>5, <3>2
  <2>12. Cardinality(got) = C[a] /\ got \in SUBSET T[c]
    BY <1>1, <2>5, <2>9, <2>11
  <2> HIDE DEF got
  <2>13. CASE a = c
    <3>1. Least(C[c], limit) = C[a]
      BY <1>3, <1>8, <2>10, <2>13 DEF Least
    <3> QED
      BY <1>8, <2>12, <3>1 DEF got
  <2>14. CASE a # c
    <3>1. a + 1 \in 1..c /\ a + 1 \notin A /\ (a + 1) - 1 = a /\ a + 1 # 1
      BY <2>5, <2>8, <2>14
    <3>2. ~(C[a] < limit)
      BY <1>2, <3>1
    <3>3. Least(C[c], limit) = C[a]
      BY <1>3, <1>8, <2>10, <2>11, <3>2 DEF Least
    <3> QED
      BY <1>8, <2>12, <3>3 DEF got
  <2> QED
    BY <2>13, <2>14
<1> QED
  BY <1>9, <1>10 DEF ImageOf

LEMMA KeysAtMostRows ==
  ASSUME DataInv, NEW cf \in ColumnFamilies
  PROVE  /\ Cardinality(DOMAIN db) \in Nat
         /\ Cardinality(KeysOf(db, cf)) <= Cardinality(DOMAIN db)
<1> DEFINE S == {at \in DOMAIN db : at[1] = cf}
           K == KeysOf(db, cf)
           g == [at \in S |-> at[2]]
<1>1. IsFiniteSet(DOMAIN db)
  <2>1. chain \in Chains /\ stored \in 0..Len(chain) /\ db = OneBatch(stored)
    BY DEF DataInv
  <2> QED
    BY <2>1, OneBatchHolds DEF Stored
<1>2. IsFiniteSet(S) /\ Cardinality(S) <= Cardinality(DOMAIN db)
  BY <1>1, FS_Subset
<1>3. (\A at \in S : g[at] \in K) /\ (\A k \in K : \E at \in S : g[at] = k)
  BY DEF KeysOf
<1> HIDE DEF S, K, g
<1>4. IsFiniteSet(K) /\ Cardinality(K) <= Cardinality(S)
  BY <1>2, <1>3, ImageCardinality
<1>5. Cardinality(K) \in Nat /\ Cardinality(S) \in Nat /\ Cardinality(DOMAIN db) \in Nat
  BY <1>1, <1>2, <1>4, FS_CardinalityType
<1>6. Cardinality(K) <= Cardinality(DOMAIN db)
  BY <1>2, <1>4, <1>5
<1> QED
  BY <1>5, <1>6 DEF K

LEMMA TypesCollected ==
  ASSUME DataInv, NEW limit \in Nat \ {0}
  PROVE  Gathered("event_types", CollectTypes(limit), limit)
<1> DEFINE L == LinesOf(1..stored)["event_types"]
           cf == "event_by_type"
           K == KeysOf(db, cf)
           c == Cardinality(K)
           D == Cardinality(DOMAIN db)
           g == LinesUnder("event_types")
           rows == ScanPrefix(db, cf, <<>>, D)
           t == [i \in 1..c |-> rows[i].type]
           T == [n \in 0..c |-> {t[i] : i \in 1..n}]
           A == {n \in DOMAIN rows : n = 1 \/ Cardinality({rows[i].type : i \in 1..(n - 1)}) < limit}
<1>1. cf \in ColumnFamilies /\ RowsOf("event_types") = cf /\ "event_types" \in Files
  BY OneColumnFamily, FileFacts DEF Files
<1>2. /\ K \in SUBSET Seq(Nat) /\ IsFiniteSet(K) /\ c \in Nat
      /\ \A k \in K : g[k] \in L
      /\ \A line \in L : \E k \in K : g[k] = line
  BY <1>1, LinesUnderAre
<1>3. \A k \in K : g[k] = db[<<cf, k>>].type
  BY <1>1 DEF LinesUnder, LineIn
<1>4. D \in Nat /\ c <= D
  BY <1>1, KeysAtMostRows
<1>5. D > 0 \/ K = {}
  <2>1. c = 0 => K = {}
    BY <1>2, FS_EmptySet
  <2> HIDE DEF c, D, K
  <2> QED
    BY <1>2, <1>4, <2>1
<1>6. rows = [i \in 1..Least(D, c) |-> db[<<cf, InOrder(K)[i]>>]]
  <2> HIDE DEF cf, D
  <2> QED
    BY <1>1, <1>4, <1>5, CollectIs
<1>7. Least(D, c) = c
  <2> HIDE DEF c, D
  <2> QED
    BY <1>2, <1>4 DEF Least
<1>8. /\ \A i \in 1..c : InOrder(K)[i] \in K
      /\ \A k \in K : \E i \in 1..c : InOrder(K)[i] = k
  <2>1. \A i \in 1..c : InOrder(K)[i] \in K
    BY <1>2, InOrderIs
  <2>2. \A k \in K : Rank(K, k) + 1 \in 1..c /\ InOrder(K)[Rank(K, k) + 1] = k
    BY <1>2, InOrderIs
  <2> HIDE DEF K, c
  <2> QED
    BY <2>1, <2>2
<1>9. CollectTypes(limit) = {rows[n].type : n \in A}
  BY DEF CollectTypes
<1> HIDE DEF cf, K, c, D, g, rows, L
<1>10. DOMAIN rows = 1..c /\ \A i \in 1..c : rows[i].type = g[InOrder(K)[i]]
  BY <1>3, <1>6, <1>7, <1>8
<1>11. \A i \in 1..c : t[i] = rows[i].type
  OBVIOUS
<1>12. \A n \in 0..c : T[n] = {t[i] : i \in 1..n}
  OBVIOUS
<1>13. \A n \in 0..c : T[n] = {rows[i].type : i \in 1..n}
  <2> TAKE n \in 0..c
  <2>1. \A i \in 1..n : i \in 1..c
    BY <1>2
  <2>2. \A i \in 1..n : t[i] = rows[i].type
    BY <1>11, <2>1
  <2> HIDE DEF t
  <2>3. {t[i] : i \in 1..n} = {rows[i].type : i \in 1..n}
    BY <2>2
  <2> QED
    BY <1>12, <2>3
<1>14. T[c] = L
  <2>1. T[c] = {rows[i].type : i \in 1..c}
    BY <1>2, <1>13
  <2>2. \A i \in 1..c : rows[i].type \in L
    BY <1>2, <1>8, <1>10
  <2>3. ASSUME NEW line \in L
        PROVE  \E i \in 1..c : rows[i].type = line
    <3>1. PICK k \in K : g[k] = line
      BY <1>2
    <3>2. PICK i \in 1..c : InOrder(K)[i] = k
      BY <1>8
    <3>3. rows[i].type = line
      BY <1>10, <3>1, <3>2
    <3> QED
      BY <3>3
  <2> HIDE DEF T
  <2> QED
    BY <2>1, <2>2, <2>3
<1>15. A \in SUBSET (1..c) /\ \A n \in 1..c : n \in A <=> n = 1 \/ Cardinality(T[n - 1]) < limit
  <2>1. A \in SUBSET (1..c)
    BY <1>10
  <2>2. ASSUME NEW n \in 1..c
        PROVE  n \in A <=> n = 1 \/ Cardinality(T[n - 1]) < limit
    <3>1. n - 1 \in 0..c
      BY <1>2
    <3>2. T[n - 1] = {rows[i].type : i \in 1..(n - 1)}
      BY <1>13, <3>1
    <3>3. n \in A <=> n = 1 \/ Cardinality({rows[i].type : i \in 1..(n - 1)}) < limit
      BY <1>10
    <3> HIDE DEF A, T
    <3> QED
      BY <3>2, <3>3
  <2> QED
    BY <2>1, <2>2
<1>16. {rows[n].type : n \in A} = ImageOf(t, A)
  <2>1. \A n \in A : t[n] = rows[n].type
    BY <1>11, <1>15
  <2> HIDE DEF A, t
  <2> QED
    BY <2>1 DEF ImageOf
<1> HIDE DEF A, t, T
<1>17. /\ ImageOf(t, A) \in SUBSET T[c] /\ IsFiniteSet(T[c])
       /\ Cardinality(ImageOf(t, A)) = Least(Cardinality(T[c]), limit)
  <2>1. c \in Nat /\ limit \in Nat \ {0}
    BY <1>2
  <2>2. \A n \in 0..c : T[n] = ImageOf(t, 1..n)
    BY <1>12 DEF ImageOf
  <2>3. A \in SUBSET (1..c)
    BY <1>15
  <2>4. \A n \in 1..c : n \in A <=> n = 1 \/ Cardinality(T[n - 1]) < limit
    BY <1>15
  <2>5. TakesDistinct(c, t, limit, T, A)
    BY <2>1, <2>2, <2>3, <2>4 DEF TakesDistinct
  <2> QED
    BY ONLY <2>5, FirstDistinct
<1>18. /\ IsFiniteSet(L) /\ CollectTypes(limit) \in SUBSET L
       /\ Cardinality(CollectTypes(limit)) = Least(Cardinality(L), limit)
  BY <1>9, <1>14, <1>16, <1>17
<1> QED
  BY <1>18 DEF Gathered, L

LEMMA CollectCollects ==
  ASSUME DataInv, NEW limits \in Limits
  PROVE  Collected(Collect(limits), stored, limits)
<1>1. \A f \in Files : limits[f] \in Nat \ {0}
  BY ExportAssumption DEF ExportAssumption
<1> DEFINE got == Collect(limits)
           txs == CollectRecords("tx_by_digest", limits["tx_digests"])
           versions == CollectRecords("object_version", limits["object_versions"])
           objects == CollectRecords("object_last_seen", limits["object_ids"])
<1>2. "tx_digests" \in Files /\ "object_versions" \in Files /\ "object_ids" \in Files /\ "event_types" \in Files
  BY DEF Files
<1>3. /\ got["tx_digests"] = {txs[i].digest : i \in DOMAIN txs}
      /\ got["object_versions"] = {<<versions[i].object, versions[i].version>> : i \in DOMAIN versions}
      /\ got["object_ids"] = {objects[i].object : i \in DOMAIN objects}
      /\ got["event_types"] = CollectTypes(limits["event_types"])
  BY DEF Collect
<1>4. /\ \A r : LineIn("tx_digests", r) = r.digest
      /\ \A r : LineIn("object_versions", r) = <<r.object, r.version>>
      /\ \A r : LineIn("object_ids", r) = r.object
  BY DEF LineIn
<1>5. /\ txs = CollectRecords(RowsOf("tx_digests"), limits["tx_digests"])
      /\ versions = CollectRecords(RowsOf("object_versions"), limits["object_versions"])
      /\ objects = CollectRecords(RowsOf("object_ids"), limits["object_ids"])
  BY FileFacts
<1> HIDE DEF got, txs, versions, objects
<1>6. got["tx_digests"] = Taken("tx_digests", txs)
  BY <1>3, <1>4 DEF Taken
<1>7. got["object_versions"] = Taken("object_versions", versions)
  BY <1>3, <1>4 DEF Taken
<1>8. got["object_ids"] = Taken("object_ids", objects)
  BY <1>3, <1>4 DEF Taken
<1>9. Gathered("tx_digests", got["tx_digests"], limits["tx_digests"])
  BY <1>1, <1>2, <1>5, <1>6, RecordsCollected
<1>10. Gathered("object_versions", got["object_versions"], limits["object_versions"])
  BY <1>1, <1>2, <1>5, <1>7, RecordsCollected
<1>11. Gathered("object_ids", got["object_ids"], limits["object_ids"])
  BY <1>1, <1>2, <1>5, <1>8, RecordsCollected
<1>12. Gathered("event_types", got["event_types"], limits["event_types"])
  BY <1>1, <1>2, <1>3, TypesCollected
<1>13. \A f \in Files : Gathered(f, got[f], limits[f])
  BY <1>9, <1>10, <1>11, <1>12 DEF Files
<1> QED
  BY <1>13 DEF Collected, Gathered, got

-----------------------------------------------------------------------------
(* The invariant holds.                                                    *)

LEMMA EmptyIsOneBatch ==
  ASSUME chain \in Chains
  PROVE  OneBatch(0) = EmptyStore
<1>1. 0 \in 0..Len(chain)
  BY ChainFacts
<1>2. OneBatch(0) = WriteBatch(EmptyStore, FlattenSeq(First([c \in 1..Len(chain) |-> CheckpointPuts(c)], 0)))
  BY <1>1, OneBatchIs
<1>3. FlattenSeq(First([c \in 1..Len(chain) |-> CheckpointPuts(c)], 0)) = <<>>
  BY FlattenNone
<1>4. EmptyStore = [at \in DOMAIN EmptyStore |-> EmptyStore[at]]
  BY EmptyStored
<1>5. WriteBatch(EmptyStore, <<>>) = EmptyStore
  BY <1>4, WriteNone
<1> QED
  BY <1>2, <1>3, <1>5

LEMMA LinesOfNone == \A C : C = {} => LinesOf(C) = [f \in Files |-> {}]
BY DEF LinesOf

LEMMA LinesOfBoth ==
  ASSUME NEW C, NEW D
  PROVE  LinesOf(C \cup D) = [f \in Files |-> LinesOf(C)[f] \cup LinesOf(D)[f]]
<1>1. \A G : LinesOf(G) = [f \in Files |-> UNION {CheckpointLines(c)[f] : c \in G}]
  BY DEF LinesOf
<1>2. ASSUME NEW f \in Files
      PROVE  UNION {CheckpointLines(c)[f] : c \in C \cup D} =
               (UNION {CheckpointLines(c)[f] : c \in C}) \cup (UNION {CheckpointLines(c)[f] : c \in D})
  OBVIOUS
<1> QED
  BY <1>1, <1>2

LEMMA InitInv == Init => Inv
<1> SUFFICES ASSUME Init PROVE Inv
  OBVIOUS
<1>1. /\ chain \in Chains /\ stored = 0 /\ keyed = 0 /\ keys = [f \in Files |-> {}] /\ db = EmptyStore
      /\ left = Exports[chain]
      /\ exporter = [at |-> "none", file |-> 1, limits |-> CHOOSE l \in Limits : TRUE,
                     held |-> 0, lines |-> [f \in Files |-> {}]]
      /\ dir = [f \in Files \cup {"manifest"} |-> NoFile]
  BY DEF Init, ExtractInit
<1>2. DataInv
  <2>1. stored \in 0..Len(chain) /\ keyed \in 0..stored
    BY <1>1, ChainFacts
  <2>2. db = OneBatch(stored)
    BY <1>1, EmptyIsOneBatch
  <2>3. 1..keyed = {}
    BY <1>1
  <2>4. keys = LinesOf(1..keyed)
    BY <1>1, <2>3, LinesOfNone
  <2> QED
    BY <1>1, <2>1, <2>2, <2>4 DEF DataInv
<1>3. ExportInv
  <2>1. left \in Nat /\ left <= Exports[chain]
    BY <1>1, ExportAssumption DEF ExportAssumption
  <2>2. (CHOOSE l \in Limits : TRUE) \in Limits
    BY ExportAssumption DEF ExportAssumption
  <2>3. /\ exporter.at = "none" /\ exporter.file = 1 /\ exporter.limits \in Limits /\ exporter.held = 0
        /\ exporter = [at |-> exporter.at, file |-> exporter.file, limits |-> exporter.limits,
                       held |-> exporter.held, lines |-> exporter.lines]
    BY <1>1, <2>2
  <2>4. exporter.held \in 0..stored
    BY <1>1, <2>3
  <2>5. dir = [f \in Files \cup {"manifest"} |-> dir[f]]
    BY <1>1
  <2> QED
    BY <2>1, <2>3, <2>4, <2>5 DEF ExportInv, Steps
<1> QED
  BY <1>2, <1>3 DEF Inv

(* What the definitions say of a chain is the same of the same chain.      *)
LEMMA SameChain ==
  ASSUME chain' = chain
  PROVE  /\ \A n : OneBatch(n)' = OneBatch(n)
         /\ \A C : LinesOf(C)' = LinesOf(C)
<1>1. \A n : OneBatch(n)' = OneBatch(n)
  <2> TAKE n
  <2> QED
    BY DEF OneBatch, CheckpointPuts, TxPuts, TxPut, EventPut, ChangePuts, ObjectPuts, OwnerPut
<1>2. \A C : LinesOf(C)' = LinesOf(C)
  <2> TAKE C
  <2> QED
    BY DEF LinesOf, CheckpointLines, ObjectChanges
<1> QED
  BY <1>1, <1>2

LEMMA StoreBatchInv ==
  ASSUME DataInv, NEW last \in (stored + 1)..Len(chain), StoreBatch(last)
  PROVE  DataInv'
<1>1. /\ chain \in Chains /\ stored \in 0..Len(chain) /\ keyed \in 0..stored
      /\ db = OneBatch(stored) /\ keys = LinesOf(1..keyed)
  BY DEF DataInv
<1>2. /\ keyed = stored /\ stored < last /\ last <= Len(chain)
      /\ db' = WriteBatch(db, FlattenSeq([i \in 1..(last - stored) |-> CheckpointPuts(stored + i)]))
      /\ stored' = last /\ chain' = chain /\ keyed' = keyed /\ keys' = keys
  BY DEF StoreBatch
<1>3. Len(chain) \in Nat /\ stored \in Nat /\ last \in Nat
  BY <1>1, ChainFacts
<1> DEFINE j == last - stored
<1>4. j \in 0..(Len(chain) - stored) /\ stored + j = last
  BY <1>1, <1>2, <1>3
<1>5. WriteBatch(OneBatch(stored), FlattenSeq([i \in 1..j |-> CheckpointPuts(stored + i)])) = OneBatch(stored + j)
  <2> HIDE DEF j
  <2> QED
    BY ONLY <1>1, <1>4, BatchAfter
<1>6. db' = OneBatch(last)
  BY <1>1, <1>2, <1>4, <1>5
<1>7. (\A n : OneBatch(n)' = OneBatch(n)) /\ (\A C : LinesOf(C)' = LinesOf(C))
  BY <1>2, SameChain
<1>8. (db = OneBatch(stored))'
  BY <1>2, <1>6, <1>7
<1>9. (keys = LinesOf(1..keyed))'
  BY <1>1, <1>2, <1>7
<1>10. (chain \in Chains)' /\ (stored \in 0..Len(chain))' /\ (keyed \in 0..stored)'
  BY <1>1, <1>2, <1>3
<1> QED
  BY <1>8, <1>9, <1>10 DEF DataInv

LEMMA AppendLinesInv ==
  ASSUME DataInv, AppendLines
  PROVE  DataInv'
<1>1. /\ chain \in Chains /\ stored \in 0..Len(chain) /\ keyed \in 0..stored
      /\ db = OneBatch(stored) /\ keys = LinesOf(1..keyed)
  BY DEF DataInv
<1>2. /\ keys' = [f \in Files |-> keys[f] \cup LinesOf((keyed + 1)..stored)[f]]
      /\ keyed' = stored /\ chain' = chain /\ stored' = stored /\ db' = db
  BY DEF AppendLines, AppendedLines
<1>3. Len(chain) \in Nat /\ stored \in Nat /\ keyed \in Nat
  BY <1>1, ChainFacts
<1>4. 1..stored = (1..keyed) \cup ((keyed + 1)..stored)
  BY <1>1, <1>3
<1>5. keys' = LinesOf(1..stored)
  <2> DEFINE C == 1..keyed
             D == (keyed + 1)..stored
  <2>1. 1..stored = C \cup D
    BY <1>4
  <2>2. keys = LinesOf(C) /\ keys' = [f \in Files |-> keys[f] \cup LinesOf(D)[f]]
    BY <1>1, <1>2
  <2> HIDE DEF C, D
  <2>3. LinesOf(C \cup D) = [f \in Files |-> LinesOf(C)[f] \cup LinesOf(D)[f]]
    BY ONLY LinesOfBoth
  <2> QED
    BY <2>1, <2>2, <2>3
<1>6. (\A n : OneBatch(n)' = OneBatch(n)) /\ (\A C : LinesOf(C)' = LinesOf(C))
  BY <1>2, SameChain
<1>7. (db = OneBatch(stored))'
  BY <1>1, <1>2, <1>6
<1>8. (keys = LinesOf(1..keyed))'
  BY <1>2, <1>5, <1>6
<1>9. (chain \in Chains)' /\ (stored \in 0..Len(chain))' /\ (keyed \in 0..stored)'
  BY <1>1, <1>2, <1>3
<1> QED
  BY <1>7, <1>8, <1>9 DEF DataInv

LEMMA IngestDataInv ==
  ASSUME DataInv, IngestStep
  PROVE  DataInv' /\ chain' = chain /\ stored' \in Nat /\ stored \in Nat /\ stored <= stored'
<1>1. stored \in Nat
  BY DEF DataInv
<1>2. CASE \E last \in (stored + 1)..Len(chain) : StoreBatch(last)
  <2>1. PICK last \in (stored + 1)..Len(chain) : StoreBatch(last)
    BY <1>2
  <2>2. chain' = chain /\ stored' = last /\ last \in Nat /\ stored <= last
    BY <1>1, <2>1 DEF StoreBatch
  <2> QED
    BY <1>1, <2>1, <2>2, StoreBatchInv
<1>3. CASE AppendLines
  <2>1. chain' = chain /\ stored' = stored
    BY <1>3 DEF AppendLines
  <2> QED
    BY <1>1, <1>3, <2>1, AppendLinesInv
<1> QED
  BY <1>2, <1>3 DEF IngestStep

(* The ingest goes on: what was exported stays as collected.               *)
LEMMA IngestKeepsExport ==
  ASSUME ExportInv, chain' = chain, UNCHANGED exportVars,
         stored \in Nat, stored' \in Nat, stored <= stored'
  PROVE  ExportInv'
<1>1. left' = left /\ exporter' = exporter /\ dir' = dir
  BY DEF exportVars
<1>2. \A C : LinesOf(C)' = LinesOf(C)
  BY SameChain
<1>3. Collected(exporter.lines, exporter.held, exporter.limits)
        => Collected(exporter.lines, exporter.held, exporter.limits)'
  BY <1>1, <1>2 DEF Collected
<1>4. /\ left \in Nat /\ left <= Exports[chain]
      /\ exporter = [at |-> exporter.at, file |-> exporter.file, limits |-> exporter.limits,
                     held |-> exporter.held, lines |-> exporter.lines]
      /\ exporter.at \in Steps /\ exporter.file \in 1..4 /\ exporter.limits \in Limits
      /\ exporter.held \in 0..stored
      /\ dir = [f \in Files \cup {"manifest"} |-> dir[f]]
  BY DEF ExportInv
<1>5. exporter.held \in 0..stored'
  BY <1>4
<1>6. /\ exporter.at # "none" => Collected(exporter.lines, exporter.held, exporter.limits)'
      /\ exporter.at \in {"truncate", "fill"} =>
           \A i \in 1..4 : i < exporter.file => dir[FileOrder[i]] = exporter.lines[FileOrder[i]]
      /\ exporter.at \in {"manifest", "fill manifest", "ok"} =>
           \A f \in Files : dir[f] = exporter.lines[f]
      /\ exporter.at = "ok" => dir["manifest"] = ManifestCounts
  BY <1>3 DEF ExportInv
<1>7. ManifestCounts' = ManifestCounts
  BY <1>1 DEF ManifestCounts
<1> QED
  BY <1>1, <1>4, <1>5, <1>6, <1>7 DEF ExportInv

LEMMA FileOrderIs ==
  /\ DOMAIN FileOrder = 1..4 /\ Len(FileOrder) = 4
  /\ \A i \in 1..4 : FileOrder[i] \in Files /\ FileOrder[i] # "manifest"
  /\ \A i, j \in 1..4 : FileOrder[i] = FileOrder[j] => i = j
  /\ \A f \in Files : f # "manifest" /\ \E i \in 1..4 : FileOrder[i] = f
<1>1. FileOrder = <<"tx_digests", "object_versions", "object_ids", "event_types">>
  BY DEF FileOrder
<1>2. \A i \in 1..4 : i = 1 \/ i = 2 \/ i = 3 \/ i = 4
  OBVIOUS
<1>3. /\ FileOrder[1] = "tx_digests" /\ FileOrder[2] = "object_versions"
      /\ FileOrder[3] = "object_ids" /\ FileOrder[4] = "event_types"
  BY <1>1
<1> QED
  BY <1>1, <1>2, <1>3 DEF Files

(* An export step, in the parts of the invariant it can disturb.           *)
ExportShape ==
  /\ left \in Nat /\ left <= Exports[chain]
  /\ exporter = [at |-> exporter.at, file |-> exporter.file, limits |-> exporter.limits,
                 held |-> exporter.held, lines |-> exporter.lines]
  /\ exporter.at \in Steps /\ exporter.file \in 1..4 /\ exporter.limits \in Limits
  /\ exporter.held \in 0..stored
  /\ dir = [f \in Files \cup {"manifest"} |-> dir[f]]

ExportFiles ==
  /\ exporter.at \in {"truncate", "fill"} =>
       \A i \in 1..4 : i < exporter.file => dir[FileOrder[i]] = exporter.lines[FileOrder[i]]
  /\ exporter.at \in {"manifest", "fill manifest", "ok"} =>
       \A f \in Files : dir[f] = exporter.lines[f]
  /\ exporter.at = "ok" => dir["manifest"] = ManifestCounts

ExportTook == exporter.at # "none" => Collected(exporter.lines, exporter.held, exporter.limits)

LEMMA ExportInvIs == ExportInv <=> ExportShape /\ ExportTook /\ ExportFiles
BY DEF ExportInv, ExportShape, ExportTook, ExportFiles

LEMMA OpenInv ==
  ASSUME DataInv, ExportInv, Open, UNCHANGED extractVars
  PROVE  ExportInv'
<1>1. ExportShape /\ stored \in Nat
  BY ExportInvIs DEF DataInv
<1>2. PICK limits \in Limits :
        exporter' = [at |-> "truncate", file |-> 1, limits |-> limits, held |-> stored,
                     lines |-> Collect(limits)]
  BY DEF Open
<1>3. left > 0 /\ left' = left - 1 /\ dir' = dir /\ chain' = chain /\ stored' = stored
  BY DEF Open, extractVars
<1>4. /\ exporter'.at = "truncate" /\ exporter'.file = 1 /\ exporter'.limits = limits
      /\ exporter'.held = stored /\ exporter'.lines = Collect(limits)
      /\ exporter' = [at |-> exporter'.at, file |-> exporter'.file, limits |-> exporter'.limits,
                      held |-> exporter'.held, lines |-> exporter'.lines]
  BY <1>2
<1>5. ExportShape'
  <2>1. /\ left \in Nat /\ left <= Exports[chain]
        /\ dir = [f \in Files \cup {"manifest"} |-> dir[f]]
    BY <1>1 DEF ExportShape
  <2>2. Exports[chain] \in Nat
    BY ExportAssumption DEF ExportAssumption, DataInv
  <2>3. left' \in Nat /\ left' <= Exports[chain]
    BY <1>3, <2>1, <2>2
  <2>4. (left \in Nat /\ left <= Exports[chain])'
    BY <1>3, <2>3
  <2>5. (exporter.at \in Steps /\ exporter.file \in 1..4 /\ exporter.limits \in Limits
          /\ exporter.held \in 0..stored)'
    BY <1>1, <1>3, <1>4 DEF Steps
  <2>6. (dir = [f \in Files \cup {"manifest"} |-> dir[f]])'
    BY <1>3, <2>1
  <2>7. (exporter = [at |-> exporter.at, file |-> exporter.file, limits |-> exporter.limits,
                     held |-> exporter.held, lines |-> exporter.lines])'
    BY <1>4
  <2> QED
    BY <2>4, <2>5, <2>6, <2>7 DEF ExportShape
<1>6. ExportTook'
  <2>1. Collected(Collect(limits), stored, limits)
    BY CollectCollects
  <2>2. \A C : LinesOf(C)' = LinesOf(C)
    BY <1>3, SameChain
  <2>3. Collected(exporter.lines, exporter.held, exporter.limits)'
    BY <1>4, <2>1, <2>2 DEF Collected
  <2> QED
    BY <2>3 DEF ExportTook
<1>7. ExportFiles'
  BY <1>4 DEF ExportFiles
<1> QED
  BY <1>5, <1>6, <1>7, ExportInvIs, PTL

(* A step that keeps the limits and the lines collected.                   *)
LEMMA TookKept ==
  ASSUME ExportTook, exporter.at # "none", chain' = chain,
         exporter'.limits = exporter.limits, exporter'.held = exporter.held,
         exporter'.lines = exporter.lines
  PROVE  ExportTook'
<1>1. \A C : LinesOf(C)' = LinesOf(C)
  BY SameChain
<1>2. Collected(exporter.lines, exporter.held, exporter.limits)
  BY DEF ExportTook
<1>3. Collected(exporter.lines, exporter.held, exporter.limits)'
  BY <1>1, <1>2 DEF Collected
<1> QED
  BY <1>3 DEF ExportTook

LEMMA TruncateInv ==
  ASSUME ExportInv, Truncate, UNCHANGED extractVars
  PROVE  ExportInv'
<1>1. ExportShape /\ ExportTook /\ ExportFiles
  BY ExportInvIs
<1>2. /\ exporter.at = "truncate" /\ dir' = [dir EXCEPT ![File] = {}]
      /\ exporter' = [exporter EXCEPT !.at = "fill"] /\ left' = left
      /\ chain' = chain /\ stored' = stored
  BY DEF Truncate, extractVars
<1>3. /\ exporter = [at |-> exporter.at, file |-> exporter.file, limits |-> exporter.limits,
                     held |-> exporter.held, lines |-> exporter.lines]
      /\ exporter.file \in 1..4 /\ dir = [f \in Files \cup {"manifest"} |-> dir[f]]
  BY <1>1 DEF ExportShape
<1>4. /\ exporter'.at = "fill" /\ exporter'.file = exporter.file /\ exporter'.limits = exporter.limits
      /\ exporter'.held = exporter.held /\ exporter'.lines = exporter.lines
      /\ exporter' = [at |-> exporter'.at, file |-> exporter'.file, limits |-> exporter'.limits,
                      held |-> exporter'.held, lines |-> exporter'.lines]
  BY <1>2, <1>3
<1>5. File = FileOrder[exporter.file] /\ File \in Files
  BY <1>3, FileOrderIs DEF File
<1>6. /\ dir' = [f \in Files \cup {"manifest"} |-> dir'[f]]
      /\ \A f \in Files : f # File => dir'[f] = dir[f]
  BY <1>2, <1>3
<1>7. ExportShape'
  BY <1>1, <1>2, <1>4, <1>6 DEF ExportShape, Steps
<1>8. ExportTook'
  BY <1>1, <1>2, <1>4, TookKept
<1>9. ExportFiles'
  <2>1. \A i \in 1..4 : i < exporter.file => dir[FileOrder[i]] = exporter.lines[FileOrder[i]]
    BY <1>1, <1>2 DEF ExportFiles
  <2>2. \A i \in 1..4 : i < exporter.file => FileOrder[i] # File /\ FileOrder[i] \in Files
    BY <1>3, <1>5, FileOrderIs
  <2>3. \A i \in 1..4 : i < exporter'.file => dir'[FileOrder[i]] = exporter'.lines[FileOrder[i]]
    BY <1>4, <1>6, <2>1, <2>2
  <2> QED
    BY <1>4, <2>3 DEF ExportFiles
<1> QED
  BY <1>7, <1>8, <1>9, ExportInvIs, PTL

LEMMA FillInv ==
  ASSUME ExportInv, Fill, UNCHANGED extractVars
  PROVE  ExportInv'
<1>1. ExportShape /\ ExportTook /\ ExportFiles
  BY ExportInvIs
<1>2. /\ exporter.at = "fill" /\ dir' = [dir EXCEPT ![File] = exporter.lines[File]]
      /\ exporter' = IF exporter.file = Len(FileOrder)
                     THEN [exporter EXCEPT !.at = "manifest"]
                     ELSE [exporter EXCEPT !.at = "truncate", !.file = @ + 1]
      /\ left' = left /\ chain' = chain /\ stored' = stored
  BY DEF Fill, extractVars
<1>3. /\ exporter = [at |-> exporter.at, file |-> exporter.file, limits |-> exporter.limits,
                     held |-> exporter.held, lines |-> exporter.lines]
      /\ exporter.file \in 1..4 /\ dir = [f \in Files \cup {"manifest"} |-> dir[f]]
  BY <1>1 DEF ExportShape
<1>4. File = FileOrder[exporter.file] /\ File \in Files
  BY <1>3, FileOrderIs DEF File
<1>5. /\ dir' = [f \in Files \cup {"manifest"} |-> dir'[f]]
      /\ dir'[File] = exporter.lines[File]
      /\ \A f \in Files : f # File => dir'[f] = dir[f]
  BY <1>2, <1>3, <1>4
<1>6. \A i \in 1..4 : i <= exporter.file => dir'[FileOrder[i]] = exporter.lines[FileOrder[i]]
  <2>1. \A i \in 1..4 : i < exporter.file => dir[FileOrder[i]] = exporter.lines[FileOrder[i]]
    BY <1>1, <1>2 DEF ExportFiles
  <2>2. \A i \in 1..4 : i < exporter.file => FileOrder[i] # File /\ FileOrder[i] \in Files
    BY <1>3, <1>4, FileOrderIs
  <2> QED
    BY <1>3, <1>4, <1>5, <2>1, <2>2
<1>7. CASE exporter.file = 4
  <2>1. /\ exporter'.at = "manifest" /\ exporter'.file = exporter.file /\ exporter'.limits = exporter.limits
        /\ exporter'.held = exporter.held /\ exporter'.lines = exporter.lines
        /\ exporter' = [at |-> exporter'.at, file |-> exporter'.file, limits |-> exporter'.limits,
                        held |-> exporter'.held, lines |-> exporter'.lines]
    BY <1>2, <1>3, <1>7, FileOrderIs
  <2>2. ExportShape'
    BY <1>1, <1>2, <1>5, <2>1 DEF ExportShape, Steps
  <2>3. ExportTook'
    BY <1>1, <1>2, <2>1, TookKept
  <2>4. \A f \in Files : dir'[f] = exporter'.lines[f]
    BY <1>6, <1>7, <2>1, FileOrderIs
  <2>5. ExportFiles'
    BY <2>1, <2>4 DEF ExportFiles
  <2> QED
    BY <2>2, <2>3, <2>5, ExportInvIs, PTL
<1>8. CASE exporter.file # 4
  <2>1. /\ exporter'.at = "truncate" /\ exporter'.file = exporter.file + 1
        /\ exporter'.limits = exporter.limits
        /\ exporter'.held = exporter.held /\ exporter'.lines = exporter.lines
        /\ exporter' = [at |-> exporter'.at, file |-> exporter'.file, limits |-> exporter'.limits,
                        held |-> exporter'.held, lines |-> exporter'.lines]
    BY <1>2, <1>3, <1>8, FileOrderIs
  <2>2. exporter'.file \in 1..4
    BY <1>3, <1>8, <2>1
  <2>3. ExportShape'
    BY <1>1, <1>2, <1>5, <2>1, <2>2 DEF ExportShape, Steps
  <2>4. ExportTook'
    BY <1>1, <1>2, <2>1, TookKept
  <2>5. \A i \in 1..4 : i < exporter'.file => dir'[FileOrder[i]] = exporter'.lines[FileOrder[i]]
    BY <1>3, <1>6, <2>1
  <2>6. ExportFiles'
    BY <2>1, <2>5 DEF ExportFiles
  <2> QED
    BY <2>3, <2>4, <2>6, ExportInvIs, PTL
<1> QED
  BY <1>7, <1>8

LEMMA ManifestInv ==
  ASSUME ExportInv, TruncateManifest \/ FillManifest, UNCHANGED extractVars
  PROVE  ExportInv'
<1>1. ExportShape /\ ExportTook /\ ExportFiles
  BY ExportInvIs
<1>2. /\ exporter.at \in {"manifest", "fill manifest"}
      /\ exporter' = [exporter EXCEPT !.at = exporter'.at]
      /\ exporter'.at \in {"fill manifest", "ok"}
      /\ left' = left /\ chain' = chain /\ stored' = stored
      /\ \/ dir' = [dir EXCEPT !["manifest"] = {}] /\ exporter'.at = "fill manifest"
         \/ dir' = [dir EXCEPT !["manifest"] = ManifestCounts] /\ exporter'.at = "ok"
  <2>1. exporter = [at |-> exporter.at, file |-> exporter.file, limits |-> exporter.limits,
                    held |-> exporter.held, lines |-> exporter.lines]
    BY <1>1 DEF ExportShape
  <2>2. CASE TruncateManifest
    BY <2>1, <2>2 DEF TruncateManifest, extractVars
  <2>3. CASE FillManifest
    BY <2>1, <2>3 DEF FillManifest, extractVars
  <2> QED
    BY <2>2, <2>3
<1>3. /\ exporter = [at |-> exporter.at, file |-> exporter.file, limits |-> exporter.limits,
                     held |-> exporter.held, lines |-> exporter.lines]
      /\ dir = [f \in Files \cup {"manifest"} |-> dir[f]]
  BY <1>1 DEF ExportShape
<1>4. /\ exporter'.file = exporter.file /\ exporter'.limits = exporter.limits
      /\ exporter'.held = exporter.held /\ exporter'.lines = exporter.lines
      /\ exporter' = [at |-> exporter'.at, file |-> exporter'.file, limits |-> exporter'.limits,
                      held |-> exporter'.held, lines |-> exporter'.lines]
  BY <1>2, <1>3
<1>5. \A f \in Files : f # "manifest"
  BY FileOrderIs
<1>6. /\ dir' = [f \in Files \cup {"manifest"} |-> dir'[f]]
      /\ \A f \in Files : dir'[f] = dir[f]
      /\ exporter'.at = "ok" => dir'["manifest"] = ManifestCounts
  BY <1>2, <1>3, <1>5
<1>7. ExportShape'
  BY <1>1, <1>2, <1>4, <1>6 DEF ExportShape, Steps
<1>8. ExportTook'
  BY <1>1, <1>2, <1>4, TookKept
<1>9. ExportFiles'
  <2>1. \A f \in Files : dir'[f] = exporter'.lines[f]
    BY <1>1, <1>2, <1>4, <1>6 DEF ExportFiles
  <2>2. ManifestCounts' = ManifestCounts
    BY <1>4 DEF ManifestCounts
  <2> QED
    BY <1>2, <1>6, <2>1, <2>2 DEF ExportFiles
<1> QED
  BY <1>7, <1>8, <1>9, ExportInvIs, PTL

LEMMA FailInv ==
  ASSUME ExportInv, Fail, UNCHANGED extractVars
  PROVE  ExportInv'
<1>1. ExportShape /\ ExportTook /\ ExportFiles
  BY ExportInvIs
<1>2. /\ exporter.at # "none" /\ exporter' = [exporter EXCEPT !.at = "error"]
      /\ left' = left /\ dir' = dir /\ chain' = chain /\ stored' = stored
  BY DEF Fail, extractVars
<1>3. exporter = [at |-> exporter.at, file |-> exporter.file, limits |-> exporter.limits,
                  held |-> exporter.held, lines |-> exporter.lines]
  BY <1>1 DEF ExportShape
<1>4. /\ exporter'.at = "error" /\ exporter'.file = exporter.file /\ exporter'.limits = exporter.limits
      /\ exporter'.held = exporter.held /\ exporter'.lines = exporter.lines
      /\ exporter' = [at |-> exporter'.at, file |-> exporter'.file, limits |-> exporter'.limits,
                      held |-> exporter'.held, lines |-> exporter'.lines]
  BY <1>2, <1>3
<1>5. ExportShape'
  BY <1>1, <1>2, <1>4 DEF ExportShape, Steps
<1>6. ExportTook'
  BY <1>1, <1>2, <1>4, TookKept
<1>7. ExportFiles'
  BY <1>4 DEF ExportFiles
<1> QED
  BY <1>5, <1>6, <1>7, ExportInvIs, PTL

LEMMA NextInv == Inv /\ [Next]_vars => Inv'
<1> SUFFICES ASSUME DataInv, ExportInv, [Next]_vars PROVE DataInv' /\ ExportInv'
  BY DEF Inv
<1>1. CASE IngestStep /\ UNCHANGED exportVars
  <2>1. DataInv' /\ chain' = chain /\ stored' \in Nat /\ stored \in Nat /\ stored <= stored'
    BY <1>1, IngestDataInv
  <2> QED
    BY <1>1, <2>1, IngestKeepsExport
<1>2. ASSUME UNCHANGED extractVars PROVE DataInv'
  <2>1. chain' = chain /\ stored' = stored /\ keyed' = keyed /\ keys' = keys /\ db' = db
    BY <1>2 DEF extractVars
  <2>2. (\A n : OneBatch(n)' = OneBatch(n)) /\ (\A C : LinesOf(C)' = LinesOf(C))
    BY <2>1, SameChain
  <2> QED
    BY <2>1, <2>2 DEF DataInv
<1>3. CASE ExportStep /\ UNCHANGED extractVars
  <2>1. CASE Open
    BY <1>2, <1>3, <2>1, OpenInv
  <2>2. CASE Truncate
    BY <1>2, <1>3, <2>2, TruncateInv
  <2>3. CASE Fill
    BY <1>2, <1>3, <2>3, FillInv
  <2>4. CASE TruncateManifest \/ FillManifest
    BY <1>2, <1>3, <2>4, ManifestInv
  <2>5. CASE Fail
    BY <1>2, <1>3, <2>5, FailInv
  <2> QED
    BY <1>3, <2>1, <2>2, <2>3, <2>4, <2>5 DEF ExportStep
<1>4. CASE UNCHANGED vars
  <2>1. UNCHANGED extractVars /\ UNCHANGED exportVars
    BY <1>4 DEF vars
  <2>2. chain' = chain /\ stored' = stored /\ stored \in Nat
    BY <2>1 DEF extractVars, DataInv
  <2> QED
    BY <1>2, <2>1, <2>2, IngestKeepsExport
<1> QED
  BY <1>1, <1>3, <1>4 DEF Next

(* Whatever batches an ingest writes and wherever exports run beside it,   *)
(* the database is that of one batch of the checkpoints stored, the key    *)
(* files hold the lines of the first checkpoints, and an export's files    *)
(* hold what it collected as far as it has come.                           *)
THEOREM InvHolds == Spec => []Inv
<1>1. Init => Inv
  BY InitInv
<1>2. Inv /\ [Next]_vars => Inv'
  BY NextInv
<1> QED
  BY <1>1, <1>2, PTL DEF Spec

-----------------------------------------------------------------------------
(* What follows from the invariant.                                        *)

LEMMA KeyParts ==
  ASSUME DataInv
  PROVE  \A at \in DOMAIN db :
           \E cf \in ColumnFamilies : \E p \in PlacesOf(cf) : at = <<cf, KeyAt(cf, p)>>
<1>1. chain \in Chains /\ stored \in 0..Len(chain) /\ db = OneBatch(stored) /\ stored \in Nat
  BY DEF DataInv
<1>2. Stored(db, Whole(stored + 1))
  BY <1>1, OneBatchHolds
<1>3. ASSUME NEW at \in DOMAIN db
      PROVE  \E cf \in ColumnFamilies : \E p \in PlacesOf(cf) : at = <<cf, KeyAt(cf, p)>>
  <2>1. at[1] \in ColumnFamilies
    BY <1>2, <1>3 DEF Stored
  <2> DEFINE cf == at[1]
  <2>2. Holds(db, cf, Whole(stored + 1)[cf])
    BY <1>2, <2>1 DEF Stored
  <2>3. Whole(stored + 1)[cf] = PlacesIn(cf, stored)
    BY <1>1, <2>1, WholeIs
  <2>4. PICK p \in PlacesIn(cf, stored) : Row(cf, p).at = at
    BY <2>2, <2>3 DEF Holds
  <2>5. p \in PlacesOf(cf)
    BY DEF PlacesIn
  <2>6. at = <<cf, KeyAt(cf, p)>>
    BY <2>1, <2>4, RowAt
  <2> QED
    BY <2>1, <2>5, <2>6
<1> QED
  BY <1>3

LEMMA TypeFollows == Inv => TypeOK
<1> SUFFICES ASSUME Inv PROVE TypeOK
  OBVIOUS
<1>0. DataInv /\ ExportInv
  BY DEF Inv
<1>1. /\ chain \in Chains /\ stored \in 0..Len(chain) /\ keyed \in 0..stored
      /\ keys = LinesOf(1..keyed)
  BY <1>0 DEF DataInv
<1>2. DOMAIN keys = Files
  BY <1>1 DEF LinesOf
<1>3. \A k \in KeysOf(db, "event_by_type") : Len(k) = HashLen + U64Len + 2 * U32Len
  <2> DEFINE cf == "event_by_type"
  <2>1. cf \in ColumnFamilies
    BY OneColumnFamily
  <2>2. /\ KeysOf(db, cf) = {KeyAt(cf, p) : p \in PlacesIn(cf, stored)}
        /\ PlacesIn(cf, stored) \in SUBSET PlacesOf(cf)
    BY <1>0, <2>1, Database
  <2>3. ASSUME NEW k \in KeysOf(db, cf)
        PROVE  Len(k) = HashLen + U64Len + 2 * U32Len
    <3>1. PICK p \in PlacesIn(cf, stored) : k = KeyAt(cf, p)
      BY <2>2, <2>3
    <3>2. p \in PlacesOf("event_by_type") /\ k = EventKey(p)
      BY <2>2, <3>1, KeyAtIs
    <3>3. Len(EventKey(p)) = HashLen + U64Len + 2 * U32Len
      BY <1>1, <3>2, EventKeyIs
    <3> QED
      BY <3>2, <3>3
  <2> QED
    BY <2>3
<1>4. \A at \in DOMAIN db : at[2] \in Seq(0..(Base - 1))
  <2>1. ASSUME NEW at \in DOMAIN db PROVE at[2] \in Bytes
    <3>1. PICK cf \in ColumnFamilies : \E p \in PlacesOf(cf) : at = <<cf, KeyAt(cf, p)>>
      BY <1>0, KeyParts
    <3>2. PICK p \in PlacesOf(cf) : at = <<cf, KeyAt(cf, p)>>
      BY <3>1
    <3>3. KeyAt(cf, p) \in Bytes
      BY <1>1, KeyBytes
    <3> QED
      BY <3>2, <3>3
  <2> QED
    BY <2>1 DEF Bytes
<1>5. ExtractTypeOK
  BY <1>1, <1>2, <1>3, <1>4 DEF ExtractTypeOK
<1>6. /\ left \in Nat /\ left <= Exports[chain]
      /\ exporter.at \in Steps /\ exporter.file \in 1..4 /\ exporter.limits \in Limits
      /\ exporter.held \in 0..stored
      /\ dir = [f \in Files \cup {"manifest"} |-> dir[f]]
  BY <1>0 DEF ExportInv
<1>7. Exports[chain] \in Nat
  BY <1>1, ExportAssumption DEF ExportAssumption
<1>8. left \in 0..Exports[chain]
  BY <1>6, <1>7
<1>9. exporter.file \in DOMAIN FileOrder
  BY <1>6, FileOrderIs
<1> QED
  BY <1>5, <1>6, <1>8, <1>9 DEF TypeOK

(* The databases, key files and exports of all chains are of their type:   *)
(* the keys of the events, of which the benchmark's scans take the first   *)
(* bytes, have one length, whatever was put.                               *)
THEOREM ExportTypeCorrect == Spec => []TypeOK
BY InvHolds, TypeFollows, PTL

(* No key file of an ingest ever has a line that the database does not     *)
(* answer, whatever names, hashes and chains: not between the write of a   *)
(* batch and that of its lines, and not for rows that share a key.         *)
THEOREM KeysAreAlwaysAnswered == Spec => []KeysAnswered
<1>1. Inv => KeysAnswered
  BY KeysAreAnswered DEF Inv
<1> QED
  BY <1>1, InvHolds, PTL

LEMMA ExportedIs ==
  ASSUME Inv, Exported
  PROVE  /\ DataInv /\ exporter.held \in 0..stored
         /\ \A f \in Files :
              /\ dir[f] = exporter.lines[f]
              /\ IsFiniteSet(LinesOf(1..exporter.held)[f])
              /\ dir[f] \in SUBSET LinesOf(1..exporter.held)[f]
              /\ Cardinality(dir[f]) =
                   Least(Cardinality(LinesOf(1..exporter.held)[f]), exporter.limits[f])
              /\ dir["manifest"][f] = Cardinality(dir[f])
              /\ exporter.limits[f] \in Nat
<1>1. DataInv /\ ExportInv /\ exporter.at = "ok"
  BY DEF Inv, Exported
<1>2. /\ exporter.held \in 0..stored /\ exporter.limits \in Limits
      /\ Collected(exporter.lines, exporter.held, exporter.limits)
      /\ \A f \in Files : dir[f] = exporter.lines[f]
      /\ dir["manifest"] = ManifestCounts
  BY <1>1 DEF ExportInv
<1>3. \A f \in Files : dir["manifest"][f] = Cardinality(exporter.lines[f])
  BY <1>2 DEF ManifestCounts
<1>4. \A f \in Files : exporter.limits[f] \in Nat
  BY <1>2, ExportAssumption DEF ExportAssumption
<1>5. \A f \in Files :
        /\ IsFiniteSet(LinesOf(1..exporter.held)[f])
        /\ exporter.lines[f] \in SUBSET LinesOf(1..exporter.held)[f]
        /\ Cardinality(exporter.lines[f]) =
             Least(Cardinality(LinesOf(1..exporter.held)[f]), exporter.limits[f])
  BY <1>2 DEF Collected
<1> QED
  BY <1>1, <1>2, <1>3, <1>4, <1>5

LEMMA ExportedAnsweredFollows == Inv => ExportedAnswered
<1> SUFFICES ASSUME Inv, Exported, NEW f \in Files
             PROVE  LET there == Cardinality(LinesOf(1..exporter.held)[f])
                    IN /\ \A line \in dir[f] : Answered(f, line)
                       /\ Cardinality(dir[f]) =
                            IF there < exporter.limits[f] THEN there ELSE exporter.limits[f]
                       /\ dir["manifest"][f] = Cardinality(dir[f])
  BY DEF ExportedAnswered
<1> DEFINE L == LinesOf(1..exporter.held)[f]
<1>1. /\ DataInv /\ exporter.held \in 0..stored /\ dir[f] \in SUBSET L
      /\ Cardinality(dir[f]) = Least(Cardinality(L), exporter.limits[f])
      /\ dir["manifest"][f] = Cardinality(dir[f])
  BY ExportedIs
<1>2. ASSUME NEW line \in dir[f] PROVE Answered(f, line)
  <2>1. line \in LinesOf(1..exporter.held)[f]
    BY <1>1
  <2> QED
    BY <1>1, <2>1, LinesAnswered
<1>3. Least(Cardinality(L), exporter.limits[f]) =
        IF Cardinality(L) < exporter.limits[f] THEN Cardinality(L) ELSE exporter.limits[f]
  BY DEF Least
<1> QED
  BY <1>1, <1>2, <1>3

(* An export that ends well leaves files whose lines the database answers, *)
(* as many as the limits allow or as there are, and a manifest that counts *)
(* them: whatever chain, whatever limits, whatever failed before, and      *)
(* however the ingest went on while the files were written.                *)
THEOREM ExportsAreAnswered == Spec => []ExportedAnswered
BY ExportedAnsweredFollows, InvHolds, PTL

LEMMA ExportAgreesFollows == Inv => ExportAgrees
<1> SUFFICES ASSUME Inv, Exported, NEW f \in Files,
                    Cardinality(dir[f]) < exporter.limits[f]
             PROVE  dir[f] = LinesOf(1..exporter.held)[f]
  BY DEF ExportAgrees
<1> DEFINE L == LinesOf(1..exporter.held)[f]
           D == dir[f]
           limit == exporter.limits[f]
<1>1. /\ IsFiniteSet(L) /\ D \in SUBSET L /\ Cardinality(D) = Least(Cardinality(L), limit)
      /\ limit \in Nat
  BY ExportedIs
<1>2. Cardinality(D) < limit
  OBVIOUS
<1> HIDE DEF L, D, limit
<1>3. Cardinality(L) \in Nat
  BY <1>1, FS_CardinalityType
<1>4. Cardinality(D) = Cardinality(L)
  BY <1>1, <1>2, <1>3 DEF Least
<1>5. D = L
  BY <1>1, <1>4, FS_Subset
<1> QED
  BY <1>5 DEF D, L

(* Where the limit does not bite, an export writes the lines the ingest    *)
(* emits for the checkpoints it saw, in every one of the four files.       *)
THEOREM ExportsAgree == Spec => []ExportAgrees
BY ExportAgreesFollows, InvHolds, PTL

-----------------------------------------------------------------------------
(* The changes of the stored checkpoints.                                  *)

LEMMA PlacesAre ==
  ASSUME chain \in Chains, stored \in 0..Len(chain),
         NEW cf \in {"object_version", "object_last_seen"}
  PROVE  Places = PlacesIn(cf, stored)
<1>1. ASSUME NEW p \in Places PROVE p \in PlacesIn(cf, stored)
  <2>1. \E c \in 1..stored : \E t \in DOMAIN chain[c] : \E i \in DOMAIN chain[c][t].changes :
          chain[c][t].changes[i].object # None /\ p = <<c, t, i>>
    BY DEF Places
  <2>0. PICK c, t, i :
          /\ c \in 1..stored /\ t \in DOMAIN chain[c] /\ i \in DOMAIN chain[c][t].changes
          /\ chain[c][t].changes[i].object # None /\ p = <<c, t, i>>
    BY <2>1
  <2>2. c \in 1..Len(chain) /\ c \in Nat
    BY <2>0, ChainFacts
  <2>3. t \in 1..Len(chain[c]) /\ t \in Nat
    BY <2>0, <2>2, ChainFacts
  <2>4. i \in Nat
    BY <2>0, <2>2, <2>3, TxFacts
  <2> QED
    BY <2>0, <2>2, <2>3, <2>4, PlaceIs
<1>2. ASSUME NEW p \in PlacesIn(cf, stored) PROVE p \in Places
  <2>1. p = <<p[1], p[2], p[3]>> /\ p[1] \in Nat /\ p[2] \in Nat /\ p[3] \in Nat
    BY PlaceNat
  <2>2. /\ p[1] \in 1..stored /\ p[2] \in DOMAIN chain[p[1]]
        /\ p[3] \in DOMAIN chain[p[1]][p[2]].changes
        /\ chain[p[1]][p[2]].changes[p[3]].object # None
    BY <2>1, PlaceIs
  <2> QED
    BY <2>1, <2>2 DEF Places
<1> QED
  BY <1>1, <1>2

LEMMA PlacesFacts ==
  ASSUME DataInv
  PROVE  \A p \in Places :
           /\ p \in Triples /\ p[1] \in 1..Len(chain) /\ InChanges(p)
           /\ p \in PlacesIn("object_version", stored) /\ p \in PlacesIn("object_last_seen", stored)
           /\ p \in PlacesOf("object_version") /\ p \in PlacesOf("object_last_seen")
           /\ ChangeAt(p).object \in DOMAIN Text
<1>1. chain \in Chains /\ stored \in 0..Len(chain)
  BY DEF DataInv
<1> TAKE p \in Places
<1>2. p \in PlacesIn("object_version", stored) /\ p \in PlacesIn("object_last_seen", stored)
  BY <1>1, PlacesAre
<1>3. p \in PlacesOf("object_version") /\ p \in PlacesOf("object_last_seen")
  BY <1>2, PlaceNat
<1>4. p \in Triples /\ p[1] \in 1..Len(chain) /\ InChanges(p)
  BY <1>3, InChangesOf
<1>5. ChangeAt(p).object \in DOMAIN Text
  BY <1>1, <1>4, ChangeFacts
<1> QED
  BY <1>2, <1>3, <1>4, <1>5

LEMMA LastSeenFollows == DataInv => LastSeenIsLastChange
<1> SUFFICES ASSUME DataInv, NEW p \in Places,
                    \A q \in Places : ChangeAt(q).object = ChangeAt(p).object => ~LexLess(p, q)
             PROVE  LET id == Text[ChangeAt(p).object]
                        seen == RecordAt("object_last_seen", key_object_last_seen(id))
                    IN /\ seen.checkpoint = p[1]
                       /\ seen.version = Version(ChangeAt(p))
                       /\ seen.owner = Owner(ChangeAt(p))
                       /\ RecordAt("object_version", key_object_version(id, seen.version)) = seen
  BY DEF LastSeenIsLastChange
<1>1. chain \in Chains /\ stored \in 0..Len(chain)
  BY DEF DataInv
<1>2. /\ Places = PlacesIn("object_version", stored)
      /\ Places = PlacesIn("object_last_seen", stored)
  BY <1>1, PlacesAre
<1>3. \A q \in Places : ChangeAt(q).object = ChangeAt(p).object => ~Before(p, q)
  BY PlacesFacts, BeforeIs
<1>4. LastOfKey("object_last_seen", stored, p)
  <2>1. ASSUME NEW r \in Places, KeyAt("object_last_seen", r) = KeyAt("object_last_seen", p)
        PROVE  ~Before(p, r)
    <3>1. Text[ChangeAt(r).object] = Text[ChangeAt(p).object]
      BY <2>1, KeyAtIs
    <3>2. ChangeAt(r).object = ChangeAt(p).object
      BY <3>1, PlacesFacts, TextFacts
    <3> QED
      BY <1>3, <3>2
  <2> QED
    BY <1>2, <2>1 DEF LastOfKey
<1>5. LastOfKey("object_version", stored, p)
  <2>1. ASSUME NEW r \in Places, KeyAt("object_version", r) = KeyAt("object_version", p)
        PROVE  ~Before(p, r)
    <3>1. VersionKey(r) = VersionKey(p)
      BY <2>1, KeyAtIs
    <3>2. /\ r \in Triples /\ r[1] \in 1..Len(chain) /\ InChanges(r)
          /\ p \in Triples /\ p[1] \in 1..Len(chain) /\ InChanges(p)
      BY PlacesFacts
    <3>3. ChangeAt(r).object = ChangeAt(p).object
      BY <1>1, <3>1, <3>2, VersionKeysTell
    <3> QED
      BY <1>3, <3>3
  <2> QED
    BY <1>2, <2>1 DEF LastOfKey
<1>6. db[<<"object_last_seen", KeyAt("object_last_seen", p)>>] = Row("object_last_seen", p).record
  BY <1>4, OneColumnFamily, Database
<1>7. db[<<"object_version", KeyAt("object_version", p)>>] = Row("object_version", p).record
  BY <1>5, OneColumnFamily, Database
<1> DEFINE id == Text[ChangeAt(p).object]
           seen == RecordAt("object_last_seen", key_object_last_seen(id))
<1>8. seen = Row("object_version", p).record
  <2>1. KeyAt("object_last_seen", p) = key_object_last_seen(id)
    BY KeyAtIs DEF key_object_last_seen
  <2> QED
    BY <1>6, <2>1, RecordIs DEF RecordAt
<1>9. KeyAt("object_version", p) = key_object_version(id, Version(ChangeAt(p)))
  BY KeyAtIs DEF VersionKey
<1>10. RecordAt("object_version", key_object_version(id, Version(ChangeAt(p)))) = seen
  BY <1>7, <1>8, <1>9 DEF RecordAt
<1> HIDE DEF id, seen
<1>11. /\ seen.checkpoint = p[1] /\ seen.version = Version(ChangeAt(p)) /\ seen.owner = Owner(ChangeAt(p))
  BY <1>8, RecordFields
<1>12. RecordAt("object_version", key_object_version(id, seen.version)) = seen
  BY <1>10, <1>11
<1> QED
  BY <1>11, <1>12 DEF id, seen

(* The row of an object in cf_object_last_seen is that of its last change  *)
(* in chain order, and the row of that change's version is the same, even  *)
(* where a chain gives a version twice and however batches are cut.        *)
THEOREM LastSeenIsLast == Spec => []LastSeenIsLastChange
<1>1. Inv => LastSeenIsLastChange
  BY LastSeenFollows DEF Inv
<1> QED
  BY <1>1, InvHolds, PTL

-----------------------------------------------------------------------------
(* The events of a type in chain order, and the scan of their type.        *)

EventPlaces(type) == {p \in PlacesIn("event_by_type", stored) : EventType(p) = type}

EventRecord(p) == [type |-> EventType(p), checkpoint |-> p[1], digest |-> chain[p[1]][p[2]].digest]

LEMMA EventPlacesAre ==
  ASSUME chain \in Chains, stored \in 0..Len(chain), NEW type
  PROVE  UNION {UNION {{<<c, t, i>> : i \in {i \in DOMAIN chain[c][t].events :
                                              chain[c][t].events[i] = type}} :
                       t \in DOMAIN chain[c]} : c \in 1..stored} = EventPlaces(type)
<1> DEFINE P == UNION {UNION {{<<c, t, i>> : i \in {i \in DOMAIN chain[c][t].events :
                                              chain[c][t].events[i] = type}} :
                       t \in DOMAIN chain[c]} : c \in 1..stored}
<1>1. ASSUME NEW p \in P PROVE p \in EventPlaces(type)
  <2>1. \E c \in 1..stored : \E t \in DOMAIN chain[c] : \E i \in DOMAIN chain[c][t].events :
          chain[c][t].events[i] = type /\ p = <<c, t, i>>
    BY <1>1
  <2>0. PICK c, t, i :
          /\ c \in 1..stored /\ t \in DOMAIN chain[c] /\ i \in DOMAIN chain[c][t].events
          /\ chain[c][t].events[i] = type /\ p = <<c, t, i>>
    BY <2>1
  <2>2. c \in 1..Len(chain) /\ c \in Nat
    BY <2>0, ChainFacts
  <2>3. t \in 1..Len(chain[c]) /\ t \in Nat
    BY <2>0, <2>2, ChainFacts
  <2>4. i \in Nat
    <3>1. Len(chain[c][t].events) \in Nat /\ DOMAIN chain[c][t].events = 1..Len(chain[c][t].events)
      BY <2>2, <2>3, TxFacts
    <3> QED
      BY <2>0, <3>1
  <2>5. p \in PlacesIn("event_by_type", stored)
    BY <2>0, <2>2, <2>3, <2>4, PlaceIs
  <2>6. EventType(p) = type
    BY <2>0 DEF EventType
  <2> QED
    BY <2>5, <2>6 DEF EventPlaces
<1>2. ASSUME NEW p \in EventPlaces(type) PROVE p \in P
  <2>0. p \in PlacesIn("event_by_type", stored) /\ chain[p[1]][p[2]].events[p[3]] = type
    BY DEF EventPlaces, EventType
  <2>1. p = <<p[1], p[2], p[3]>> /\ p[1] \in Nat /\ p[2] \in Nat /\ p[3] \in Nat
    BY <2>0, PlaceNat
  <2>2. /\ p[1] \in 1..stored /\ p[2] \in DOMAIN chain[p[1]]
        /\ p[3] \in DOMAIN chain[p[1]][p[2]].events
    BY <2>0, <2>1, PlaceIs
  <2> QED
    BY <2>0, <2>1, <2>2
<1> QED
  BY <1>1, <1>2

LEMMA EventsOfIs ==
  ASSUME chain \in Chains, stored \in 0..Len(chain), NEW type
  PROVE  EventsOf(type) = [n \in DOMAIN InOrder(EventPlaces(type)) |->
           [type |-> type, checkpoint |-> InOrder(EventPlaces(type))[n][1],
            digest |-> chain[InOrder(EventPlaces(type))[n][1]][InOrder(EventPlaces(type))[n][2]].digest]]
BY EventPlacesAre DEF EventsOf

(* The record under the key of an event is its own: no event has the key   *)
(* of another.                                                             *)
LEMMA EventUnderItsKey ==
  ASSUME DataInv, NEW p \in PlacesIn("event_by_type", stored)
  PROVE  db[<<"event_by_type", EventKey(p)>>] = EventRecord(p)
<1>1. chain \in Chains /\ p \in PlacesOf("event_by_type")
  BY PlaceNat DEF DataInv
<1>2. ASSUME NEW r \in PlacesIn("event_by_type", stored),
             KeyAt("event_by_type", r) = KeyAt("event_by_type", p)
      PROVE  ~Before(p, r)
  <2>1. r \in PlacesOf("event_by_type") /\ EventKey(r) = EventKey(p)
    BY <1>2, PlaceNat, KeyAtIs
  <2>2. r = p
    BY <1>1, <2>1, EventKeysTell
  <2>3. p[1] \in Nat /\ p[2] \in Nat /\ p[3] \in Nat
    BY PlaceNat
  <2> QED
    BY <2>2, <2>3 DEF Before
<1>3. LastOfKey("event_by_type", stored, p)
  BY <1>2 DEF LastOfKey
<1>4. db[<<"event_by_type", KeyAt("event_by_type", p)>>] = Row("event_by_type", p).record
  BY <1>3, OneColumnFamily, Database
<1> QED
  BY <1>4, KeyAtIs, RecordIs DEF EventRecord, EventType

LEMMA EventsInOrder ==
  ASSUME DataInv, NEW type \in DOMAIN Hash16, NEW S, S = EventPlaces(type),
         NEW M, M = Under(db, "event_by_type", Hash16[type])
  PROVE  /\ S \in SUBSET Seq(Nat) /\ IsFiniteSet(S) /\ Cardinality(S) \in Nat
         /\ Cardinality(M) = Cardinality(S)
         /\ \A i \in 1..Cardinality(S) :
              InOrder(S)[i] \in S /\ InOrder(M)[i] = EventKey(InOrder(S)[i])
<1> DEFINE f == [p \in S |-> EventKey(p)]
<1>1. chain \in Chains /\ stored \in 0..Len(chain)
  BY DEF DataInv
<1>2. /\ PlacesIn("event_by_type", stored) \in SUBSET Triples
      /\ IsFiniteSet(PlacesIn("event_by_type", stored))
      /\ PlacesIn("event_by_type", stored) \in SUBSET PlacesOf("event_by_type")
  BY OneColumnFamily, Database
<1>3. /\ S \in SUBSET PlacesIn("event_by_type", stored)
      /\ \A p \in S : EventType(p) = type
  BY DEF EventPlaces
<1>4. IsFiniteSet(S) /\ S \in SUBSET Triples /\ S \in SUBSET PlacesOf("event_by_type")
  BY <1>2, <1>3, FS_Subset
<1>5. S \in SUBSET Seq(Nat)
  BY <1>4, BeforeIs
<1>6. M = {EventKey(p) : p \in S}
  BY EventsUnder DEF EventPlaces
<1>7. \A p \in S : EventKey(p) \in Seq(Nat)
  BY <1>1, <1>4, EventKeyIs, BytesNat
<1>8. \A p \in S : f[p] = EventKey(p) /\ f[p] \in M
  BY <1>6
<1>9. \A k \in M : \E p \in S : f[p] = k
  BY <1>6
<1>10. M \in SUBSET Seq(Nat)
  BY <1>6, <1>7
<1> HIDE DEF f
<1>11. \A p, q \in S : LexLess(p, q) => LexLess(f[p], f[q])
  <2> SUFFICES ASSUME NEW p \in S, NEW q \in S, LexLess(p, q) PROVE LexLess(f[p], f[q])
    OBVIOUS
  <2>1. Before(p, q)
    BY <1>4, BeforeIs
  <2>2. p \in PlacesOf("event_by_type") /\ q \in PlacesOf("event_by_type") /\ EventType(p) = EventType(q)
    BY <1>3, <1>4
  <2>3. LexLess(EventKey(p), EventKey(q))
    BY <1>1, <2>1, <2>2, EventKeysGrow
  <2> QED
    BY <1>8, <2>3
<1>12. /\ Cardinality(M) = Cardinality(S)
       /\ \A i \in 1..Cardinality(S) : InOrder(M)[i] = f[InOrder(S)[i]]
  <2>1. (\A p \in S : f[p] \in M) /\ (\A k \in M : \E p \in S : f[p] = k)
    BY <1>8, <1>9
  <2> QED
    BY ONLY <1>4, <1>5, <1>10, <1>11, <2>1, InOrderMap
<1>13. Cardinality(S) \in Nat /\ \A i \in 1..Cardinality(S) : InOrder(S)[i] \in S
  BY <1>4, <1>5, InOrderIs
<1> QED
  BY <1>4, <1>5, <1>8, <1>12, <1>13

LEMMA FirstOf ==
  ASSUME NEW n \in Nat, NEW k \in 0..n, NEW e, e = [i \in 1..n |-> e[i]]
  PROVE  Len(e) = n /\ SubSeq(e, 1, k) = [i \in 1..k |-> e[i]]
<1> DEFINE D == {e[i] : i \in 1..n}
<1>1. e \in [1..n -> D]
  OBVIOUS
<1> HIDE DEF D
<1>2. e \in Seq(D) /\ Len(e) = n
  BY <1>1
<1> QED
  BY <1>2

LEMMA ScansFollow == DataInv => ScansExact
<1> SUFFICES ASSUME DataInv,
                    NEW type \in UNION {CheckpointLines(c).event_types : c \in 1..stored},
                    NEW limit \in 1..3
             PROVE  ScanPrefix(db, "event_by_type", event_type_hash(type), limit)
                      = SubSeq(EventsOf(type), 1, IF limit < Len(EventsOf(type)) THEN limit
                                                  ELSE Len(EventsOf(type)))
  BY DEF ScansExact
<1>1. chain \in Chains /\ stored \in 0..Len(chain)
  BY DEF DataInv
<1>2. type \in DOMAIN Hash16
  <2>1. "event_types" \in Files /\ RowsOf("event_types") = "event_by_type"
    BY FileFacts DEF Files
  <2>2. type \in LinesOf(1..stored)["event_types"]
    BY <2>1 DEF LinesOf
  <2>3. PICK p \in PlacesIn("event_by_type", stored) : type = LineAt("event_types", p)
    BY <1>1, <2>1, <2>2, LinesAre
  <2>4. p \in PlacesOf("event_by_type") /\ type = EventType(p)
    BY <2>3, PlaceNat, LineAtIs
  <2> QED
    BY <1>1, <2>4, EventKeyIs
<1> DEFINE S == EventPlaces(type)
           M == Under(db, "event_by_type", Hash16[type])
           n == Cardinality(S)
           k == Least(limit, n)
           rows == ScanPrefix(db, "event_by_type", event_type_hash(type), limit)
           events == EventsOf(type)
<1>3. /\ S \in SUBSET Seq(Nat) /\ IsFiniteSet(S) /\ n \in Nat /\ Cardinality(M) = n
      /\ \A i \in 1..n : InOrder(S)[i] \in S /\ InOrder(M)[i] = EventKey(InOrder(S)[i])
  BY <1>2, EventsInOrder
<1>4. limit \in Nat \ {0}
  OBVIOUS
<1>5. rows = [i \in 1..k |-> db[<<"event_by_type", InOrder(M)[i]>>]]
  <2>1. rows = [i \in 1..Least(limit, Cardinality(M)) |-> db[<<"event_by_type", InOrder(M)[i]>>]]
    BY <1>2, <1>4, EventScan
  <2> HIDE DEF M, n, rows
  <2> QED
    BY <1>3, <2>1
<1>6. events = [i \in DOMAIN InOrder(S) |->
        [type |-> type, checkpoint |-> InOrder(S)[i][1],
         digest |-> chain[InOrder(S)[i][1]][InOrder(S)[i][2]].digest]]
  BY <1>1, EventsOfIs
<1>7. DOMAIN InOrder(S) = 1..n
  BY <1>3, InOrderIs
<1>8. \A p \in S : p \in PlacesIn("event_by_type", stored) /\ EventType(p) = type
  BY DEF EventPlaces
<1>9. \A p \in S : EventRecord(p) = [type |-> type, checkpoint |-> p[1],
                                     digest |-> chain[p[1]][p[2]].digest]
  BY <1>8 DEF EventRecord
<1>10. \A p \in S : db[<<"event_by_type", EventKey(p)>>] = EventRecord(p)
  BY <1>8, EventUnderItsKey
<1>11. k \in Nat /\ k <= n /\ k \in 0..n
  <2>1. limit \in Nat
    BY <1>4
  <2> HIDE DEF n
  <2>2. n \in Nat
    BY <1>3
  <2>3. k \in Nat /\ k <= n
    BY ONLY <2>1, <2>2, LeastFacts
  <2> HIDE DEF k
  <2> QED
    BY ONLY <2>2, <2>3
<1> HIDE DEF S, M, n, k, rows, events
<1>12. events = [i \in 1..n |-> events[i]] /\ \A i \in 1..n : events[i] = EventRecord(InOrder(S)[i])
  BY <1>3, <1>6, <1>7, <1>9
<1>13. Len(events) = n /\ SubSeq(events, 1, k) = [i \in 1..k |-> events[i]]
  BY ONLY <1>3, <1>11, <1>12, FirstOf
<1>14. \A i \in 1..k : i \in 1..n
  BY <1>3, <1>11
<1>15. \A i \in 1..k : db[<<"event_by_type", InOrder(M)[i]>>] = events[i]
  BY <1>3, <1>10, <1>12, <1>14
<1>16. rows = SubSeq(events, 1, k)
  BY <1>5, <1>13, <1>15
<1>17. k = IF limit < Len(events) THEN limit ELSE Len(events)
  BY <1>13 DEF k, Least
<1> QED
  BY <1>16, <1>17 DEF rows, events

(* The benchmark's scans of a type's events are exact: the first events of *)
(* that type in the order of the chain, as many as the limit allows.       *)
THEOREM ScansAreExact == Spec => []ScansExact
<1>1. Inv => ScansExact
  BY ScansFollow DEF Inv
<1> QED
  BY <1>1, InvHolds, PTL

-----------------------------------------------------------------------------
(* What comparing checksums tells.                                         *)

LEMMA CheckpointPlaces ==
  ASSUME chain \in Chains, NEW n \in 0..Len(chain)
  PROVE  \A p : p \in PlacesIn("checkpoint", n) <=> \E c \in 1..n : p = <<c, 0, 0>>
<1>1. Len(chain) \in Nat /\ n \in Nat
  BY ChainFacts
<1>2. ASSUME NEW p \in PlacesIn("checkpoint", n) PROVE \E c \in 1..n : p = <<c, 0, 0>>
  <2>0. Placed("checkpoint", p) /\ p[1] <= n
    BY DEF PlacesIn, PlacesOf
  <2>1. /\ p = <<p[1], p[2], p[3]>> /\ p[1] \in 1..Len(chain) /\ p[1] <= n
        /\ p[2] = 0 /\ p[3] = 0
    BY <2>0, PlaceNat DEF Placed
  <2>2. p[1] \in 1..n /\ p = <<p[1], 0, 0>>
    BY <1>1, <2>1
  <2> QED
    BY <2>2
<1>3. ASSUME NEW c \in 1..n PROVE <<c, 0, 0>> \in PlacesIn("checkpoint", n)
  <2> DEFINE p == <<c, 0, 0>>
  <2>1. c \in Nat /\ c \in 1..Len(chain) /\ c <= n /\ 0 \in Nat
    BY <1>1
  <2>2. p \in Triples
    BY <2>1, TriplesIs
  <2>3. p[1] = c /\ p[2] = 0 /\ p[3] = 0
    OBVIOUS
  <2> HIDE DEF p
  <2>4. Placed("checkpoint", p)
    BY <2>1, <2>3 DEF Placed
  <2>5. p \in PlacesIn("checkpoint", n)
    BY <2>1, <2>2, <2>3, <2>4 DEF PlacesIn, PlacesOf
  <2> QED
    BY <2>5 DEF p
<1> QED
  BY <1>2, <1>3

(* There are as many rows of checkpoints as checkpoints: their keys tell   *)
(* them apart.                                                             *)
LEMMA CheckpointRows ==
  ASSUME chain \in Chains, NEW n \in 0..Len(chain)
  PROVE  /\ IsFiniteSet(KeysOf(OneBatch(n), "checkpoint"))
         /\ KeysOf(OneBatch(n), "checkpoint") \in SUBSET Seq(Nat)
         /\ Cardinality(KeysOf(OneBatch(n), "checkpoint")) = n
<1> DEFINE K == KeysOf(OneBatch(n), "checkpoint")
           I == 1..n
           f == [c \in I |-> key_checkpoint(c)]
<1>1. Len(chain) \in Nat /\ n \in Nat /\ Fits(Len(chain), U64Len)
  BY ChainFacts
<1>2. /\ K = {KeyAt("checkpoint", p) : p \in PlacesIn("checkpoint", n)}
      /\ K \in SUBSET Seq(Nat) /\ IsFiniteSet(K)
  BY OneColumnFamily, ContentIs, BytesNat
<1>3. \A c \in I : KeyAt("checkpoint", <<c, 0, 0>>) = f[c]
  BY KeyAtIs
<1>4. \A c \in I : f[c] \in K
  BY <1>2, <1>3, CheckpointPlaces
<1>5. \A k \in K : \E c \in I : f[c] = k
  BY <1>2, <1>3, CheckpointPlaces
<1>6. \A b, c \in I : f[b] = f[c] => b = c
  <2> SUFFICES ASSUME NEW b \in I, NEW c \in I, f[b] = f[c] PROVE b = c
    OBVIOUS
  <2>1. BigEndian(b, U64Len) = BigEndian(c, U64Len)
    BY DEF key_checkpoint, encode_u64_be
  <2>2. b \in Nat /\ c \in Nat /\ b \in 0..Len(chain) /\ c \in 0..Len(chain)
    BY <1>1
  <2>3. U64Len \in Nat
    BY LengthsNat
  <2>4. Fits(b, U64Len) /\ Fits(c, U64Len)
    BY ONLY <1>1, <2>2, <2>3, FitsBelow
  <2> QED
    BY ONLY <2>1, <2>2, <2>3, <2>4, NumberFacts
<1>7. IsFiniteSet(I) /\ Cardinality(I) = n
  BY <1>1, IntervalCardinality
<1> HIDE DEF K, I, f
<1>8. Cardinality(K) = n
  BY ONLY <1>4, <1>5, <1>6, <1>7, ImageCardinality
<1> QED
  BY <1>2, <1>8 DEF K

LEMMA EntriesAre ==
  ASSUME chain \in Chains, NEW n \in 0..Len(chain)
  PROVE  ChecksumReport(OneBatch(n), ColumnFamilies)["checkpoint"].entries = n
<1> DEFINE K == KeysOf(OneBatch(n), "checkpoint")
           e == InOrder(K)
<1>1. IsFiniteSet(K) /\ K \in SUBSET Seq(Nat) /\ Cardinality(K) = n
  BY CheckpointRows
<1>2. e = [i \in 1..Cardinality(K) |-> e[i]]
  <2> DEFINE h(i) == CHOOSE s \in K : Cardinality({r \in K : LexLess(r, s)}) = i - 1
  <2>1. e = [i \in 1..Cardinality(K) |-> h(i)]
    BY DEF InOrder
  <2> HIDE DEF e, K, h
  <2> QED
    BY <2>1
<1>3. n \in Nat /\ 0 \in 0..n
  BY ChainFacts
<1> HIDE DEF K, e
<1>4. e = [i \in 1..n |-> e[i]]
  BY <1>1, <1>2
<1>5. Len(e) = n
  BY ONLY <1>3, <1>4, FirstOf
<1>6. ChecksumReport(OneBatch(n), ColumnFamilies)["checkpoint"] = CfChecksum(OneBatch(n), "checkpoint")
  BY OneColumnFamily DEF ChecksumReport
<1>7. CfChecksum(OneBatch(n), "checkpoint").entries = Len(e)
  BY DEF CfChecksum, e, K
<1> QED
  BY <1>5, <1>6, <1>7

LEMMA ChecksumFollows == DataInv => ChecksumTells
<1> SUFFICES ASSUME DataInv, NEW n \in DOMAIN chain
             PROVE  Matches(ChecksumReport(db, ColumnFamilies),
                            ChecksumReport(OneBatch(n), ColumnFamilies)) <=> n = stored
  BY DEF ChecksumTells
<1>1. chain \in Chains /\ stored \in 0..Len(chain) /\ db = OneBatch(stored)
  BY DEF DataInv
<1>2. n \in 0..Len(chain)
  BY <1>1, ChainFacts
<1> DEFINE ours == ChecksumReport(db, ColumnFamilies)
           theirs == ChecksumReport(OneBatch(n), ColumnFamilies)
<1>3. ours["checkpoint"].entries = stored /\ theirs["checkpoint"].entries = n
  BY <1>1, <1>2, EntriesAre
<1>4. DOMAIN ours = ColumnFamilies /\ DOMAIN theirs = ColumnFamilies
  BY DEF ChecksumReport
<1>5. n = stored => ours = theirs
  BY <1>1
<1> HIDE DEF ours, theirs
<1>6. ASSUME Matches(ours, theirs) PROVE n = stored
  <2>1. "checkpoint" \notin Mismatches(ours, theirs)
    BY <1>6 DEF Matches
  <2>2. ours["checkpoint"].entries = theirs["checkpoint"].entries
    BY <1>4, <2>1, OneColumnFamily DEF Mismatches
  <2> QED
    BY <1>3, <2>2
<1>7. ASSUME ours = theirs PROVE Matches(ours, theirs)
  BY <1>7 DEF Matches, Mismatches
<1> QED
  BY <1>5, <1>6, <1>7 DEF ours, theirs

(* Checksums match exactly where the same checkpoints are stored: in       *)
(* whatever batches they came the reports agree in every column family,    *)
(* and with those of fewer or more checkpoints of the chain they never do. *)
THEOREM ChecksumsTell == Spec => []ChecksumTells
<1>1. Inv => ChecksumTells
  BY ChecksumFollows DEF Inv
<1> QED
  BY <1>1, InvHolds, PTL

-----------------------------------------------------------------------------
(* What scans of an owner's prefix find.                                   *)

LEMMA OwnerPlaces ==
  ASSUME DataInv
  PROVE  \A q : q \in PlacesIn("owner_touched", stored)
                  <=> q \in Places /\ Owner(ChangeAt(q)) # None
<1>1. Places = PlacesIn("object_version", stored)
  BY PlacesAre DEF DataInv
<1>2. \A q : Placed("owner_touched", q)
               <=> Placed("object_version", q) /\ Owner(ChangeAt(q)) # None
  BY DEF Placed
<1> QED
  BY <1>1, <1>2 DEF PlacesIn, PlacesOf

(* Under the key of a change there is a row for the same object, version.  *)
OwnerLine(k) == <<db[<<"owner_touched", k>>].object, db[<<"owner_touched", k>>].version>>

LEMMA OwnerLineIs ==
  ASSUME DataInv, NEW q \in PlacesIn("owner_touched", stored)
  PROVE  OwnerLine(OwnerKey(q)) = VersionLine(ChangeAt(q))
<1> DEFINE cf == "owner_touched"
<1>1. cf \in ColumnFamilies /\ chain \in Chains
  BY OneColumnFamily DEF DataInv
<1>2. PICK r : LastOfKey(cf, stored, r) /\ KeyAt(cf, r) = KeyAt(cf, q)
  BY <1>1, Database
<1>3. db[<<cf, KeyAt(cf, r)>>] = Row(cf, r).record
  BY <1>1, <1>2, Database
<1>4. r \in PlacesOf(cf) /\ q \in PlacesOf(cf)
  BY <1>2, PlaceNat DEF LastOfKey
<1>5. OwnerKey(r) = OwnerKey(q)
  BY <1>2, KeyAtIs
<1>6. ChangeAt(r).object = ChangeAt(q).object /\ Version(ChangeAt(r)) = Version(ChangeAt(q))
  BY <1>1, <1>4, <1>5, OwnerKeysTell
<1>7. db[<<cf, OwnerKey(q)>>] = Row(cf, r).record
  BY <1>3, <1>5, KeyAtIs
<1>8. /\ db[<<cf, OwnerKey(q)>>].object = ChangeAt(q).object
      /\ db[<<cf, OwnerKey(q)>>].version = Version(ChangeAt(q))
  BY <1>6, <1>7, RecordIs
<1> QED
  BY <1>8 DEF OwnerLine, VersionLine

Given(owner, type) ==
  {q \in Places : Owner(ChangeAt(q)) = owner /\ type \in {None, ChangeAt(q).type}}

GivenKeys(owner, type) == {OwnerKey(q) : q \in Given(owner, type)}

LEMMA GivenFacts ==
  ASSUME DataInv, NEW owner \in Owners, NEW type \in Optional(DOMAIN Hash16)
  PROVE  /\ IsFiniteSet(Places) /\ Cardinality(Places) \in Nat
         /\ IsFiniteSet(Given(owner, type)) /\ Cardinality(Given(owner, type)) <= Cardinality(Places)
         /\ Given(owner, type) \in SUBSET PlacesIn("owner_touched", stored)
         /\ Under(db, "owner_touched", key_owner_touched_objects_prefix(Text[owner], type))
              = GivenKeys(owner, type)
<1> DEFINE cf == "owner_touched"
           pre == key_owner_touched_objects_prefix(Text[owner], type)
           G == Given(owner, type)
           W == PlacesIn(cf, stored)
<1>1. Places = PlacesIn("object_version", stored) /\ chain \in Chains
  BY PlacesAre DEF DataInv
<1>2. IsFiniteSet(Places)
  BY <1>1, OneColumnFamily, Database
<1>3. IsFiniteSet(G) /\ Cardinality(G) <= Cardinality(Places) /\ Cardinality(Places) \in Nat
  <2>1. G \in SUBSET Places
    BY DEF Given
  <2> HIDE DEF G
  <2> QED
    BY <1>2, <2>1, FS_Subset, FS_CardinalityType
<1>4. owner # None
  BY KeyAssumption, ChainAssumption DEF KeyAssumption, ChainAssumption
<1>5. \A q : q \in G <=> /\ q \in W /\ Owner(ChangeAt(q)) = owner
                         /\ type \in {None, ChangeAt(q).type}
  BY <1>4, OwnerPlaces DEF Given
<1>6. KeysOf(db, cf) = {OwnerKey(q) : q \in W} /\ W \in SUBSET PlacesOf(cf)
  <2>1. KeysOf(db, cf) = {KeyAt(cf, q) : q \in W} /\ W \in SUBSET PlacesOf(cf)
    BY OneColumnFamily, Database
  <2> QED
    BY <2>1, KeyAtIs
<1>7. \A q \in W : IsPrefix(pre, OwnerKey(q)) <=> Owner(ChangeAt(q)) = owner /\ type \in {None, ChangeAt(q).type}
  BY <1>1, <1>6, OwnerPrefix
<1>8. Under(db, cf, pre) = {k \in KeysOf(db, cf) : IsPrefix(pre, k)}
  BY DEF Under
<1> DEFINE M == Under(db, cf, pre)
<1> HIDE DEF pre, G, W, M
<1>9. \A k \in M : \E q \in G : k = OwnerKey(q)
  BY <1>5, <1>6, <1>7, <1>8 DEF M
<1>10. \A q \in G : OwnerKey(q) \in M
  BY <1>5, <1>6, <1>7, <1>8 DEF M
<1>11. M = {OwnerKey(q) : q \in G}
  BY <1>9, <1>10
<1>12. G \in SUBSET W
  BY <1>5
<1> QED
  BY <1>2, <1>3, <1>11, <1>12 DEF M, pre, G, W, GivenKeys

LEMMA PrefixBytes ==
  ASSUME NEW owner \in Owners, NEW type \in Optional(DOMAIN Hash16)
  PROVE  key_owner_touched_objects_prefix(Text[owner], type) \in Bytes
<1>1. owner \in DOMAIN Text
  BY ChainAssumption DEF ChainAssumption
<1>2. Text[owner] \in Bytes /\ type_tag_hash(type) \in Bytes
  BY <1>1, TextFacts, TagFacts
<1>3. Text[owner] \o type_tag_hash(type) \in Bytes
  BY <1>2, ConcatBytes
<1> QED
  BY <1>2, <1>3 DEF key_owner_touched_objects_prefix

LEMMA OwnerScanIs ==
  ASSUME DataInv, NEW owner \in Owners, NEW type \in Optional(DOMAIN Hash16),
         Places # {}
  PROVE  /\ GivenKeys(owner, type) \in SUBSET Seq(Nat) /\ IsFiniteSet(GivenKeys(owner, type))
         /\ Cardinality(GivenKeys(owner, type)) \in Nat
         /\ ScanPrefix(db, "owner_touched", key_owner_touched_objects_prefix(Text[owner], type),
                       Cardinality(Places))
              = [i \in 1..Cardinality(GivenKeys(owner, type)) |->
                   db[<<"owner_touched", InOrder(GivenKeys(owner, type))[i]>>]]
<1> DEFINE M == GivenKeys(owner, type)
           cf == "owner_touched"
           pre == key_owner_touched_objects_prefix(Text[owner], type)
           G == Given(owner, type)
           limit == Cardinality(Places)
           f == [q \in G |-> OwnerKey(q)]
<1>1. /\ IsFiniteSet(Places) /\ limit \in Nat /\ IsFiniteSet(G) /\ Cardinality(G) <= limit
      /\ G \in SUBSET PlacesIn(cf, stored) /\ Under(db, cf, pre) = M
  BY GivenFacts
<1>2. limit > 0
  <2>1. limit # 0
    BY <1>1, FS_EmptySet
  <2> HIDE DEF limit
  <2> QED
    BY <1>1, <2>1
<1>3. KeysOf(db, cf) \in SUBSET Seq(Nat) /\ IsFiniteSet(KeysOf(db, cf))
  BY OneColumnFamily, Database, BytesNat
<1>4. pre \in Seq(Nat)
  BY PrefixBytes, BytesNat
<1>5. (\A q \in G : f[q] \in M) /\ (\A k \in M : \E q \in G : f[q] = k)
  BY DEF GivenKeys
<1> HIDE DEF pre, limit, G, f, M
<1>6. /\ M \in SUBSET Seq(Nat) /\ IsFiniteSet(M) /\ Cardinality(M) \in Nat
      /\ ScanPrefix(db, cf, pre, limit) =
           [i \in 1..Least(limit, Cardinality(M)) |-> db[<<cf, InOrder(M)[i]>>]]
  <2>1. M = Under(db, cf, pre)
    BY <1>1
  <2> HIDE DEF cf
  <2> QED
    BY ONLY <1>1, <1>2, <1>3, <1>4, <2>1, ScanIs
<1>7. Cardinality(M) <= Cardinality(G)
  BY ONLY <1>1, <1>5, ImageCardinality
<1>8. Cardinality(G) \in Nat
  BY <1>1, FS_CardinalityType
<1>9. Least(limit, Cardinality(M)) = Cardinality(M)
  BY <1>1, <1>6, <1>7, <1>8 DEF Least
<1> QED
  BY <1>6, <1>9 DEF pre, limit, M

LEMMA OwnerScansFollow == DataInv => OwnerScansResolve
<1> SUFFICES ASSUME DataInv, NEW p \in Places, Owner(ChangeAt(p)) # None,
                    NEW type \in {None, ChangeAt(p).type}
             PROVE  LET owner == Owner(ChangeAt(p))
                        rows == ScanPrefix(db, "owner_touched",
                                  key_owner_touched_objects_prefix(Text[owner], type), Cardinality(Places))
                        found == {<<rows[i].object, rows[i].version>> : i \in DOMAIN rows}
                        given == {q \in Places : /\ Owner(ChangeAt(q)) = owner
                                                 /\ type \in {None, ChangeAt(q).type}}
                    IN /\ found = {VersionLine(ChangeAt(q)) : q \in given}
                       /\ \A line \in found : Answered("object_versions", line)
  BY DEF OwnerScansResolve
<1> DEFINE owner == Owner(ChangeAt(p))
           G == Given(owner, type)
           M == GivenKeys(owner, type)
           m == Cardinality(M)
           rows == ScanPrefix(db, "owner_touched",
                     key_owner_touched_objects_prefix(Text[owner], type), Cardinality(Places))
           found == {<<rows[i].object, rows[i].version>> : i \in DOMAIN rows}
<1>1. chain \in Chains /\ stored \in 0..Len(chain) /\ stored \in Nat
  BY DEF DataInv
<1>2. owner \in Owners /\ type \in Optional(DOMAIN Hash16) /\ Places # {}
  <2>1. p \in Triples /\ p[1] \in 1..Len(chain) /\ InChanges(p)
    BY PlacesFacts
  <2> QED
    BY <1>1, <2>1, ChangeFacts DEF Optional
<1> HIDE DEF owner
<1>3. /\ M \in SUBSET Seq(Nat) /\ IsFiniteSet(M) /\ m \in Nat
      /\ rows = [i \in 1..m |-> db[<<"owner_touched", InOrder(M)[i]>>]]
  BY <1>2, OwnerScanIs
<1>4. /\ \A i \in 1..m : InOrder(M)[i] \in M
      /\ \A k \in M : \E i \in 1..m : InOrder(M)[i] = k
  <2>1. \A i \in 1..m : InOrder(M)[i] \in M
    BY <1>3, InOrderIs
  <2>2. \A k \in M : Rank(M, k) + 1 \in 1..m /\ InOrder(M)[Rank(M, k) + 1] = k
    BY <1>3, InOrderIs
  <2> HIDE DEF M, m
  <2> QED
    BY <2>1, <2>2
<1>5. \A q \in G : OwnerLine(OwnerKey(q)) = VersionLine(ChangeAt(q))
  BY <1>2, GivenFacts, OwnerLineIs
<1>6. (\A k \in M : \E q \in G : OwnerKey(q) = k) /\ (\A q \in G : OwnerKey(q) \in M)
  BY DEF GivenKeys
<1>7. \A q \in G : q \in Places
  BY DEF Given
<1>8. G = {q \in Places : /\ Owner(ChangeAt(q)) = owner
                          /\ type \in {None, ChangeAt(q).type}}
  BY DEF Given
<1> HIDE DEF G, M, m, rows
<1>9. DOMAIN rows = 1..m /\ \A i \in 1..m : rows[i] = db[<<"owner_touched", InOrder(M)[i]>>]
  BY <1>3
<1>10. \A i \in 1..m : <<rows[i].object, rows[i].version>> = OwnerLine(InOrder(M)[i])
  BY <1>9 DEF OwnerLine
<1>11. \A line \in found : \E q \in G : line = VersionLine(ChangeAt(q))
  BY <1>4, <1>5, <1>6, <1>9, <1>10
<1>12. \A q \in G : VersionLine(ChangeAt(q)) \in found
  <2> TAKE q \in G
  <2>1. PICK i \in 1..m : InOrder(M)[i] = OwnerKey(q)
    BY <1>4, <1>6
  <2>2. <<rows[i].object, rows[i].version>> = VersionLine(ChangeAt(q))
    BY <1>5, <1>10, <2>1
  <2> QED
    BY <1>9, <2>2
<1> HIDE DEF found
<1>13. found = {VersionLine(ChangeAt(q)) : q \in G}
  BY <1>11, <1>12
<1>14. ASSUME NEW line \in found PROVE Answered("object_versions", line)
  <2>1. PICK q \in G : line = VersionLine(ChangeAt(q))
    BY <1>11
  <2>2. q \in PlacesIn("object_version", stored)
    BY <1>7, PlacesFacts
  <2>3. "object_versions" \in Files /\ RowsOf("object_versions") = "object_version"
    BY FileFacts DEF Files
  <2>4. line = LineAt("object_versions", q)
    BY <2>1, LineAtIs
  <2>5. LinesOf(1..stored)["object_versions"] =
          {LineAt("object_versions", r) : r \in PlacesIn("object_version", stored)}
    BY <1>1, <2>3, LinesAre
  <2>6. line \in LinesOf(1..stored)["object_versions"]
    BY <2>2, <2>4, <2>5
  <2>7. stored \in 0..stored
    BY <1>1
  <2> QED
    BY <2>3, <2>6, <2>7, LinesAnswered
<1> QED
  BY <1>8, <1>13, <1>14 DEF found, rows, owner

(* The object indexes agree: the scan of an owner's prefix, with or        *)
(* without a type, finds exactly the object versions the chain gave that   *)
(* owner, and each of them under its version, for all ids, owners, types   *)
(* and hashes.                                                             *)
THEOREM OwnerScansAlwaysResolve == Spec => []OwnerScansResolve
<1>1. Inv => OwnerScansResolve
  BY OwnerScansFollow DEF Inv
<1> QED
  BY <1>1, InvHolds, PTL
=============================================================================
