---------------------------- MODULE OrderedStore ----------------------------
(***************************************************************************)
(* The storage engine's operations (crates/hotstore-db/src/traits.rs and   *)
(* rocksdb_backend.rs; toplingdb_backend.rs delegates to the latter).  A   *)
(* store is a function from <<column family, key>> to records; a column    *)
(* family is read in the byte order of its keys.                           *)
(***************************************************************************)
EXTENDS Integers, SequencesExt

(* a comes before b byte by byte; a strict prefix of b does too.           *)
LexLess(a, b) ==
  \/ IsStrictPrefix(a, b)
  \/ \E i \in DOMAIN a \cap DOMAIN b :
       a[i] < b[i] /\ \A j \in 1..(i - 1) : a[j] = b[j]

(* The members of a finite set of byte sequences in order.                 *)
InOrder(S) ==
  [i \in 1..Cardinality(S) |->
     CHOOSE s \in S : Cardinality({r \in S : LexLess(r, s)}) = i - 1]

EmptyStore == [at \in {} |-> {}]

KeysOf(store, cf) == {at[2] : at \in {at \in DOMAIN store : at[1] = cf}}

(* get, and one position of multi_get: is there a row?                     *)
Has(store, cf, key) == <<cf, key>> \in DOMAIN store

Put(cf, key, record) == [at |-> <<cf, key>>, record |-> record]

WinningPut_First(batch, at) ==
  CHOOSE i \in DOMAIN batch :
    batch[i].at = at /\ \A j \in DOMAIN batch : batch[j].at = at => i <= j

(* Of several puts of a batch under one key the last one wins.             *)
WinningPut(batch, at) ==
  CHOOSE i \in DOMAIN batch :
    batch[i].at = at /\ \A j \in DOMAIN batch : batch[j].at = at => j <= i

(* write_batch: all of the puts or none.                                   *)
WriteBatch(store, batch) ==
  LET written == {batch[i].at : i \in DOMAIN batch}
  IN [at \in DOMAIN store \cup written |->
        IF at \in written THEN batch[WinningPut(batch, at)].record ELSE store[at]]

(* The keys an iterator that begins at a first key goes over.              *)
KeysFrom(store, cf, first) == InOrder({k \in KeysOf(store, cf) : ~LexLess(k, first)})

(* Rows before the first key without the prefix; the limit is tested once  *)
(* a row was taken.                                                        *)
ScanLength(keys, prefix, limit) ==
  Cardinality({i \in DOMAIN keys :
                 /\ \A j \in 1..i : IsPrefix(prefix, keys[j])
                 /\ i = 1 \/ i - 1 < limit})

(* scan_prefix; scan_prefix_count is the length of it.                     *)
ScanPrefix(store, cf, prefix, limit) ==
  LET keys == KeysFrom(store, cf, prefix)
  IN [i \in 1..ScanLength(keys, prefix, limit) |-> store[<<cf, keys[i]>>]]
=============================================================================
