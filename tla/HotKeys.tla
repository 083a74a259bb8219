------------------------------ MODULE HotKeys -------------------------------
(***************************************************************************)
(* The keys of the column families as bytes                                *)
(* (crates/hotstore-core/src/key.rs).  A byte is a digit in base Base, so  *)
(* that small numbers already need several of them; strings and hashes are *)
(* given as the bytes they consist of.                                     *)
(***************************************************************************)
EXTENDS Integers, Sequences

CONSTANTS
  Text,     \* Text[s]: the bytes of the string s
  Hash16,   \* Hash16[s]: the leading bytes of the SHA-256 of s
  HashLen,  \* HASH16_LEN
  Base,     \* values of a byte
  U64Len,   \* bytes of a u64
  U32Len,   \* bytes of a u32
  None      \* an optional field that is absent

(* No two hashes collide, and none is all zeros.                           *)
ASSUME KeyAssumption ==
  /\ Base \in Nat \ {0, 1} /\ {HashLen, U64Len, U32Len} \subseteq Nat \ {0}
  /\ \A s \in DOMAIN Hash16 :
       /\ Hash16[s] \in Seq(0..(Base - 1)) /\ Len(Hash16[s]) = HashLen
       /\ Hash16[s] # [i \in 1..HashLen |-> 0]
       /\ \A t \in DOMAIN Hash16 : Hash16[s] = Hash16[t] => s = t
  /\ \A s \in DOMAIN Text :
       /\ Text[s] \in Seq(0..(Base - 1))
       /\ \A t \in DOMAIN Text : Text[s] = Text[t] => s = t
  /\ None \notin Nat /\ None \notin DOMAIN Text /\ None \notin DOMAIN Hash16

(* Shifts(n, width)[k] is n shifted right by k bytes.                      *)
Shifts(n, width) ==
  LET shift[k \in 0..width] == IF k = 0 THEN n ELSE shift[k - 1] \div Base
  IN shift

Fits(n, width) == Shifts(n, width)[width] = 0

BigEndian(n, width) == [i \in 1..width |-> Shifts(n, width)[width - i] % Base]

encode_u64_be_Narrow(x) == BigEndian(x, U32Len)

encode_u64_be_Little(x) == [i \in 1..U64Len |-> Shifts(x, U64Len)[i - 1] % Base]

encode_u64_be(x) == BigEndian(x, U64Len)
encode_u32_be(x) == BigEndian(x, U32Len)

key_checkpoint(seq) == encode_u64_be(seq)

key_tx_by_digest(digest) == digest

key_object_version(objectId, version) == objectId \o encode_u64_be(version)

key_object_last_seen(objectId) == objectId

event_type_hash(type) == Hash16[type]

type_tag_hash(type) == IF type = None THEN [i \in 1..HashLen |-> 0] ELSE Hash16[type]

key_event_by_type(type, checkpoint, txIndex, eventIndex) ==
  event_type_hash(type) \o encode_u64_be(checkpoint)
    \o encode_u32_be(txIndex) \o encode_u32_be(eventIndex)

key_owner_touched_object(owner, type, objectId, version) ==
  owner \o type_tag_hash(type) \o objectId \o encode_u64_be(version)

key_owner_touched_objects_prefix(owner, type) ==
  IF type = None THEN owner ELSE owner \o type_tag_hash(type)
=============================================================================
