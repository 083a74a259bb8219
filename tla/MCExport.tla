------------------------------ MODULE MCExport ------------------------------
(* Small chains, and the bytes of the names in them, for TLC.              *)
EXTENDS Export

SeqsUpTo2(S) == {<<>>} \cup {<<a>> : a \in S} \cup {<<a, b>> : a, b \in S}

(* A transfer, a change without version and type, a later version of the   *)
(* first object that crosses a digit, and a package, which has no id.      *)
Change(o, v, t, ow, r) == [object |-> o, version |-> v, type |-> t, owner |-> ow, recipient |-> r]
Transfer == Change("a", 1, "T", None, "y")
Bare == Change("b", None, None, "x", None)
Later == Change("a", 2, "U", "y", None)
Wrapped == Change("b", 3, "T", None, None)
Package == Change(None, 1, None, None, None)
MCChanges == {Transfer, Bare, Later, Wrapped, Package}

Tx(d, es, cs) == [digest |-> d, events |-> es, changes |-> cs]

(* Two transactions, an empty checkpoint, and one more.                    *)
LongChains ==
  {<<<<Tx("t1", e, c), Tx("t2", <<"E">>, <<d>>)>>, <<>>, <<Tx("t3", <<"F", "E">>, <<g>>)>>>> :
     e \in {<<>>, <<"E", "E">>, <<"F", "E">>}, c \in SeqsUpTo2(MCChanges),
     d \in MCChanges, g \in MCChanges}

(* Chains whose keys are exported, twice, while they are extracted.        *)
ShortChains ==
  {<<<<Tx("t1", e, <<c>>)>>, <<Tx("t2", <<"E">>, <<d>>)>>>> :
     e \in {<<>>, <<"E", "F", "E">>}, c \in {Transfer, Bare}, d \in {Later, Bare}}

MCChains == LongChains \cup ShortChains
MCExports == [c \in MCChains |-> IF c \in ShortChains THEN 2 ELSE 0]

(* No limit bites; all of them do; a type has more events than the limit   *)
(* has types.                                                              *)
MCLimits == {[f \in Files |-> n] : n \in {4, 1, 2}}

(* Base 2: 3 has two digits.  Ids have one length; an owner's text, JSON,  *)
(* is never the beginning of another's.                                    *)
MCText ==
  [s \in {"t1", "t2", "t3", "a", "b", "x", "y"} |->
     CASE s = "t1" -> <<0>> [] s = "t2" -> <<1, 0, 0>> [] s = "t3" -> <<1>>
       [] s = "a" -> <<0, 1>> [] s = "b" -> <<1, 1>>
       [] s = "x" -> <<1, 0>> [] s = "y" -> <<1, 1, 0>>]
MCIds == {"a", "b"}
MCOwners == {"x", "y"}
MCHash16 ==
  [s \in {"E", "F", "T", "U"} |->
     CASE s = "E" -> <<0, 1, 1>> [] s = "F" -> <<1, 0, 0>>
       [] s = "T" -> <<1, 1, 0>> [] s = "U" -> <<0, 0, 1>>]
=============================================================================
