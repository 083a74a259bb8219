------------------------------ MODULE Checksum ------------------------------
(***************************************************************************)
(* hotstore-admin checksum and compare-checksum                            *)
(* (crates/hotstore-admin/src/checksum.rs) over a store of OrderedStore.   *)
(* A digest is what was hashed, which takes SHA-256 as free of collisions; *)
(* sizes, totals and paths of a report are left out.                       *)
(***************************************************************************)
EXTENDS OrderedStore

(* update_hasher: lengths come first, so rows cannot run into each other.  *)
HashedRow(key, value) == <<Len(key), key, value>>

(* inspect_rocksdb, one column family: its rows in the order of their keys. *)
CfChecksum(store, cf) ==
  LET keys == InOrder(KeysOf(store, cf))
  IN [entries |-> Len(keys),
      sha256 |-> [i \in DOMAIN keys |-> HashedRow(keys[i], store[<<cf, keys[i]>>])]]

ChecksumReport(store, cfs) == [cf \in cfs |-> CfChecksum(store, cf)]

(* compare_checksum_reports *)
Mismatches(left, right) ==
  {cf \in DOMAIN left \cap DOMAIN right :
     \/ left[cf].entries # right[cf].entries
     \/ left[cf].sha256 # right[cf].sha256}

Matches(left, right) ==
  /\ DOMAIN left = DOMAIN right
  /\ Mismatches(left, right) = {}
=============================================================================
