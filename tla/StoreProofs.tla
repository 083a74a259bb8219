---------------------------- MODULE StoreProofs -----------------------------
(***************************************************************************)
(* What the operators of HotKeys and OrderedStore compute, for every base, *)
(* every length of a key and every store: keys encoded big endian come in  *)
(* the order of their numbers, a scan yields the rows under its prefix in  *)
(* order up to its limit, and of several puts under one key the last wins. *)
(***************************************************************************)
EXTENDS HotKeys, OrderedStore, WellFoundedInduction, FiniteSetTheorems,
        FunctionTheorems, SequenceTheorems, TLAPS

-----------------------------------------------------------------------------
(* Induction over the numbers of a set.                                    *)

LEMMA LeastOf ==
  ASSUME NEW S \in SUBSET Nat, S # {}
  PROVE  \E n \in S : \A m \in S : n <= m
<1> DEFINE R == OpToRel(<, Nat)
<1>1. IsWellFoundedOn(R, Nat)
  BY NatLessThanWellFounded
<1> HIDE DEF R
<1>2. PICK n \in S : \A m \in S : ~(<<m, n>> \in R)
  BY <1>1, WFMin
<1>3. \A m \in S : m < n => <<m, n>> \in R
  BY DEF R, OpToRel
<1>4. \A m \in S : m \in Nat /\ n \in Nat /\ ~(m < n)
  BY <1>2, <1>3
<1> QED
  BY <1>4

LEMMA SetInduction ==
  ASSUME NEW S, 0 \in S, \A n \in Nat : n \in S => n + 1 \in S
  PROVE  \A n \in Nat : n \in S
<1> SUFFICES ASSUME Nat \ S # {} PROVE FALSE
  OBVIOUS
<1>1. PICK n \in Nat \ S : \A m \in Nat \ S : n <= m
  BY LeastOf
<1>2. n - 1 \in Nat /\ n - 1 \in S
  BY <1>1
<1> QED
  BY <1>1, <1>2

LEMMA GreatestOf ==
  ASSUME NEW N \in Nat, NEW S \in SUBSET (0..N), S # {}
  PROVE  \E n \in S : \A m \in S : m <= n
<1> DEFINE T == {N - m : m \in S}
<1>1. T \in SUBSET Nat /\ T # {}
  <2>1. \A m \in S : N - m \in Nat /\ N - m \in T
    OBVIOUS
  <2> QED
    BY <2>1
<1>2. PICK n \in T : \A m \in T : n <= m
  BY <1>1, LeastOf
<1>3. PICK g \in S : n = N - g
  BY <1>2
<1>4. \A m \in S : N - g <= N - m
  BY <1>2, <1>3
<1> QED
  BY <1>3, <1>4

(* What holds at 0 and goes from each number up to N to the next holds up  *)
(* to N.                                                                   *)
LEMMA BoundedInduction ==
  ASSUME NEW N \in Nat, NEW S, 0 \in S, \A n \in 0..(N - 1) : n \in S => n + 1 \in S
  PROVE  \A n \in 0..N : n \in S
<1> DEFINE T == {n \in Nat : n <= N => n \in S}
<1>1. 0 \in T
  OBVIOUS
<1>2. ASSUME NEW n \in Nat, n \in T PROVE n + 1 \in T
  BY <1>2
<1> HIDE DEF T
<1>3. \A n \in Nat : n \in T
  BY <1>1, <1>2, SetInduction
<1> QED
  BY <1>3 DEF T

-----------------------------------------------------------------------------
(* Shifts is the recursive function it is written as.                      *)

LEMMA ShiftsExist ==
  ASSUME NEW n, NEW width \in Nat
  PROVE  \E f : f = [k \in 0..width |-> IF k = 0 THEN n ELSE f[k - 1] \div Base]
<1> DEFINE S == {w \in Nat : \E f : f = [k \in 0..w |-> IF k = 0 THEN n ELSE f[k - 1] \div Base]}
<1>1. 0 \in S
  <2> DEFINE f == [k \in 0..0 |-> n]
  <2>1. f = [k \in 0..0 |-> IF k = 0 THEN n ELSE f[k - 1] \div Base]
    OBVIOUS
  <2> QED
    BY <2>1
<1>2. ASSUME NEW w \in Nat, w \in S
      PROVE  w + 1 \in S
  <2>1. PICK f : f = [k \in 0..w |-> IF k = 0 THEN n ELSE f[k - 1] \div Base]
    BY <1>2
  <2> DEFINE g == [k \in 0..(w + 1) |-> IF k = 0 THEN n ELSE f[k - 1] \div Base]
  <2>2. \A k \in 0..w : g[k] = f[k]
    BY <2>1
  <2>3. \A k \in 0..(w + 1) : k # 0 => k - 1 \in 0..w
    OBVIOUS
  <2>4. g = [k \in 0..(w + 1) |-> IF k = 0 THEN n ELSE g[k - 1] \div Base]
    BY <2>2, <2>3
  <2> HIDE DEF g
  <2> QED
    BY <2>4
<1> HIDE DEF S
<1>3. width \in S
  BY <1>1, <1>2, SetInduction
<1> QED
  BY <1>3 DEF S

LEMMA ShiftsAre ==
  ASSUME NEW n, NEW width \in Nat
  PROVE  /\ Shifts(n, width)[0] = n
         /\ \A k \in 1..width : Shifts(n, width)[k] = Shifts(n, width)[k - 1] \div Base
<1> DEFINE f == Shifts(n, width)
<1>1. f = [k \in 0..width |-> IF k = 0 THEN n ELSE f[k - 1] \div Base]
  BY ShiftsExist DEF Shifts
<1> HIDE DEF f
<1>2. \A k \in 0..width : f[k] = IF k = 0 THEN n ELSE f[k - 1] \div Base
  BY <1>1
<1>3. 0 \in 0..width /\ \A k \in 1..width : k \in 0..width /\ k # 0
  OBVIOUS
<1>4. f[0] = n /\ \A k \in 1..width : f[k] = f[k - 1] \div Base
  BY <1>2, <1>3
<1> QED
  BY <1>4 DEF f

LEMMA DivisionIs ==
  ASSUME NEW x \in Nat, NEW b \in Nat \ {0}
  PROVE  x \div b \in Nat /\ x % b \in 0..(b - 1) /\ x = ((x \div b) * b) + (x % b)
OBVIOUS

LEMMA DivisionGrows ==
  ASSUME NEW b \in Nat \ {0}, NEW x \in Nat, NEW y \in Nat, x <= y
  PROVE  x \div b <= y \div b
<1> DEFINE p == x \div b
           q == y \div b
           r == x % b
           s == y % b
<1>1. /\ p \in Nat /\ r \in 0..(b - 1) /\ x = (p * b) + r
      /\ q \in Nat /\ s \in 0..(b - 1) /\ y = (q * b) + s
  BY DivisionIs
<1> HIDE DEF p, q, r, s
<1>2. q < p => (q * b) + b <= p * b
  <2>1. q + 1 <= p => (q + 1) * b <= p * b
    BY <1>1
  <2>2. (q + 1) * b = (q * b) + b
    BY <1>1
  <2> QED
    BY <1>1, <2>1, <2>2
<1>3. q * b \in Nat /\ p * b \in Nat
  BY <1>1
<1>4. p <= q
  BY <1>1, <1>2, <1>3
<1> QED
  BY <1>4 DEF p, q

LEMMA BaseIs == Base \in Nat \ {0} /\ Base > 1
BY KeyAssumption DEF KeyAssumption

LEMMA ShiftsType ==
  ASSUME NEW n \in Nat, NEW width \in Nat
  PROVE  \A k \in 0..width : Shifts(n, width)[k] \in Nat
<1> DEFINE f == Shifts(n, width)
           S == {k \in Nat : f[k] \in Nat}
<1>1. f[0] = n /\ \A k \in 1..width : f[k] = f[k - 1] \div Base
  BY ShiftsAre
<1> HIDE DEF f
<1>2. 0 \in S
  BY <1>1
<1>3. ASSUME NEW k \in 0..(width - 1), k \in S
      PROVE  k + 1 \in S
  <2>1. k + 1 \in 1..width /\ (k + 1) - 1 = k /\ f[k] \in Nat
    BY <1>3
  <2>2. f[k + 1] = f[k] \div Base
    BY <1>1, <2>1
  <2>3. f[k] \div Base \in Nat
    BY <2>1, BaseIs, DivisionIs
  <2> QED
    BY <2>1, <2>2, <2>3
<1> HIDE DEF S
<1>4. \A k \in 0..width : k \in S
  BY <1>2, <1>3, BoundedInduction
<1> QED
  BY <1>4 DEF S, f

LEMMA ShiftsGrow ==
  ASSUME NEW n \in Nat, NEW m \in Nat, n <= m, NEW width \in Nat
  PROVE  \A k \in 0..width : Shifts(n, width)[k] <= Shifts(m, width)[k]
<1> DEFINE f == Shifts(n, width)
           g == Shifts(m, width)
           S == {k \in Nat : f[k] <= g[k]}
<1>1. /\ f[0] = n /\ \A k \in 1..width : f[k] = f[k - 1] \div Base
      /\ g[0] = m /\ \A k \in 1..width : g[k] = g[k - 1] \div Base
      /\ \A k \in 0..width : f[k] \in Nat /\ g[k] \in Nat
  BY ShiftsAre, ShiftsType
<1> HIDE DEF f, g
<1>2. 0 \in S
  BY <1>1
<1>3. ASSUME NEW k \in 0..(width - 1), k \in S
      PROVE  k + 1 \in S
  <2>1. k + 1 \in 1..width /\ (k + 1) - 1 = k /\ k \in 0..width /\ f[k] <= g[k] /\ k + 1 \in Nat
    BY <1>3
  <2>2. f[k + 1] = f[k] \div Base /\ g[k + 1] = g[k] \div Base
    BY <1>1, <2>1
  <2>3. f[k] \div Base <= g[k] \div Base
    BY <1>1, <2>1, BaseIs, DivisionGrows
  <2> QED
    BY <2>1, <2>2, <2>3
<1> HIDE DEF S
<1>4. \A k \in 0..width : k \in S
  BY <1>2, <1>3, BoundedInduction
<1> QED
  BY <1>4 DEF S, f, g

(* What is no more than a number that fits fits.                           *)
LEMMA FitsBelow ==
  ASSUME NEW m \in Nat, NEW n \in 0..m, NEW width \in Nat, Fits(m, width)
  PROVE  Fits(n, width)
<1>1. n \in Nat /\ n <= m /\ width \in 0..width
  OBVIOUS
<1>2. /\ Shifts(n, width)[width] <= Shifts(m, width)[width]
      /\ Shifts(n, width)[width] \in Nat
  BY <1>1, ShiftsGrow, ShiftsType
<1> QED
  BY <1>2 DEF Fits

LEMMA BigEndianBytes ==
  ASSUME NEW n \in Nat, NEW width \in Nat
  PROVE  /\ BigEndian(n, width) \in Seq(0..(Base - 1))
         /\ Len(BigEndian(n, width)) = width
<1>1. \A i \in 1..width : Shifts(n, width)[width - i] % Base \in 0..(Base - 1)
  <2> TAKE i \in 1..width
  <2> DEFINE s == Shifts(n, width)[width - i]
  <2>1. s \in Nat
    BY ShiftsType
  <2> HIDE DEF s
  <2>2. s % Base \in 0..(Base - 1)
    BY <2>1, BaseIs, DivisionIs
  <2> QED
    BY <2>2 DEF s
<1> DEFINE b == BigEndian(n, width)
<1>2. b \in [1..width -> 0..(Base - 1)]
  BY <1>1 DEF BigEndian
<1> DEFINE D == 0..(Base - 1)
<1> HIDE DEF b, D
<1>3. b \in [1..width -> D]
  BY <1>2 DEF D
<1>4. b \in Seq(D) /\ Len(b) = width
  BY <1>3
<1> QED
  BY <1>4 DEF b, D

(* encode_u64_be and encode_u32_be: the byte order of encoded numbers is   *)
(* the order of the numbers, for every width into which they fit.          *)
THEOREM BigEndianLess ==
  ASSUME NEW n \in Nat, NEW m \in Nat, n < m, NEW width \in Nat,
         Fits(n, width), Fits(m, width)
  PROVE  LexLess(BigEndian(n, width), BigEndian(m, width))
<1> DEFINE f == Shifts(n, width)
           g == Shifts(m, width)
           T == {k \in 0..width : f[k] # g[k]}
           a == BigEndian(n, width)
           b == BigEndian(m, width)
<1>1. /\ f[0] = n /\ \A k \in 1..width : f[k] = f[k - 1] \div Base
      /\ g[0] = m /\ \A k \in 1..width : g[k] = g[k - 1] \div Base
      /\ \A k \in 0..width : f[k] \in Nat /\ g[k] \in Nat /\ f[k] <= g[k]
      /\ f[width] = 0 /\ g[width] = 0
  BY ShiftsAre, ShiftsType, ShiftsGrow DEF Fits
<1>2. /\ a = [i \in 1..width |-> f[width - i] % Base]
      /\ b = [i \in 1..width |-> g[width - i] % Base]
  BY DEF BigEndian
<1> HIDE DEF f, g, a, b
<1>3. 0 \in T
  BY <1>1
<1>4. PICK k \in T : \A j \in T : j <= k
  <2>1. T \in SUBSET (0..width) /\ T # {}
    BY <1>3
  <2> HIDE DEF T
  <2> QED
    BY <2>1, GreatestOf
<1>5. k \in 0..(width - 1) /\ f[k] # g[k] /\ \A j \in (k + 1)..width : f[j] = g[j]
  BY <1>1, <1>4
<1>6. f[k] \div Base = g[k] \div Base
  <2>1. k + 1 \in 1..width /\ (k + 1) - 1 = k /\ k + 1 \in (k + 1)..width
    BY <1>5
  <2> QED
    BY <1>1, <1>5, <2>1
<1>7. f[k] % Base < g[k] % Base
  <2> DEFINE x == f[k]
             y == g[k]
             p == x \div Base
  <2>1. x \in Nat /\ y \in Nat /\ x < y /\ y \div Base = p
    BY <1>1, <1>5, <1>6
  <2> HIDE DEF x, y
  <2>2. x \div Base \in Nat /\ x % Base \in 0..(Base - 1) /\ x = ((x \div Base) * Base) + (x % Base)
    BY <2>1, BaseIs, DivisionIs
  <2>3. y % Base \in 0..(Base - 1) /\ y = ((y \div Base) * Base) + (y % Base)
    BY <2>1, BaseIs, DivisionIs
  <2>4. p = x \div Base
    OBVIOUS
  <2> HIDE DEF p
  <2>5. p \in Nat /\ x % Base \in Nat /\ y % Base \in Nat /\ x = (p * Base) + (x % Base) /\ y = (p * Base) + (y % Base)
    BY <2>1, <2>2, <2>3, <2>4, BaseIs
  <2> HIDE DEF p
  <2>6. p * Base \in Nat
    BY <2>5, BaseIs
  <2>7. x % Base < y % Base
    BY <2>1, <2>5, <2>6
  <2> QED
    BY <2>7 DEF x, y
<1> DEFINE i == width - k
<1>8. i \in 1..width /\ width - i = k /\ \A j \in 1..(i - 1) : j \in 1..width /\ width - j \in (k + 1)..width
  BY <1>5
<1> HIDE DEF i
<1>9. i \in DOMAIN a /\ i \in DOMAIN b /\ a[i] < b[i] /\ \A j \in 1..(i - 1) : a[j] = b[j]
  BY <1>2, <1>5, <1>7, <1>8
<1>10. LexLess(a, b)
  BY <1>9 DEF LexLess
<1> QED
  BY <1>10 DEF a, b

-----------------------------------------------------------------------------
(* The byte order is a strict total order, in which the sequences with one *)
(* prefix are neighbours.                                                  *)

LEMMA PrefixIs ==
  ASSUME NEW X, NEW s \in Seq(X), NEW t \in Seq(X)
  PROVE  IsPrefix(s, t) <=> Len(s) <= Len(t) /\ \A i \in 1..Len(s) : s[i] = t[i]
<1>1. Len(s) \in Nat /\ Len(t) \in Nat
  OBVIOUS
<1>2. ASSUME Len(s) <= Len(t)
      PROVE  SubSeq(s, 1, Len(s)) = SubSeq(t, 1, Len(s)) <=> \A i \in 1..Len(s) : s[i] = t[i]
  <2>1. SubSeq(s, 1, Len(s)) = [i \in 1..Len(s) |-> s[i]] /\ SubSeq(t, 1, Len(s)) = [i \in 1..Len(s) |-> t[i]]
    BY <1>1, <1>2
  <2> QED
    BY <2>1
<1> QED
  BY <1>2 DEF IsPrefix

(* a and b agree up to i, where a ends or has the smaller byte.            *)
LexAt(a, b, i) ==
  /\ i \in 1..(Len(a) + 1) /\ i <= Len(b)
  /\ \A j \in 1..(i - 1) : a[j] = b[j]
  /\ i <= Len(a) => a[i] < b[i]

LEMMA LexIs ==
  ASSUME NEW a \in Seq(Nat), NEW b \in Seq(Nat)
  PROVE  LexLess(a, b) <=> \E i \in Nat : LexAt(a, b, i)
<1>1. Len(a) \in Nat /\ Len(b) \in Nat /\ DOMAIN a = 1..Len(a) /\ DOMAIN b = 1..Len(b)
  OBVIOUS
<1>2. a = b <=> Len(a) = Len(b) /\ \A i \in 1..Len(a) : a[i] = b[i]
  OBVIOUS
<1>3. IsStrictPrefix(a, b) <=> Len(a) < Len(b) /\ \A i \in 1..Len(a) : a[i] = b[i]
  <2>1. a \in Seq(Nat) /\ b \in Seq(Nat)
    OBVIOUS
  <2>2. IsPrefix(a, b) <=> Len(a) <= Len(b) /\ \A i \in 1..Len(a) : a[i] = b[i]
    BY ONLY <2>1, PrefixIs
  <2>3. Len(a) \in Nat /\ Len(b) \in Nat
    BY <1>1
  <2>4. Len(a) < Len(b) <=> Len(a) <= Len(b) /\ Len(a) # Len(b)
    BY ONLY <2>3
  <2> QED
    BY <1>2, <2>2, <2>4 DEF IsStrictPrefix
<1>4. IsStrictPrefix(a, b) <=> LexAt(a, b, Len(a) + 1)
  BY <1>1, <1>3 DEF LexAt
<1>5. \A i \in 1..Len(a) : LexAt(a, b, i) <=> i <= Len(b) /\ a[i] < b[i] /\ \A j \in 1..(i - 1) : a[j] = b[j]
  BY <1>1 DEF LexAt
<1>6. \A i \in Nat : LexAt(a, b, i) => i \in 1..Len(a) \/ i = Len(a) + 1
  BY <1>1 DEF LexAt
<1>7. (\E i \in DOMAIN a \cap DOMAIN b : a[i] < b[i] /\ \A j \in 1..(i - 1) : a[j] = b[j])
        <=> \E i \in 1..Len(a) : LexAt(a, b, i)
  <2>1. \A i \in DOMAIN a \cap DOMAIN b : i \in 1..Len(a) /\ i <= Len(b)
    BY <1>1
  <2>2. \A i \in 1..Len(a) : i <= Len(b) => i \in DOMAIN a \cap DOMAIN b
    BY <1>1
  <2> QED
    BY <1>5, <2>1, <2>2
<1>8. Len(a) + 1 \in Nat /\ 1..Len(a) \subseteq Nat
  BY <1>1
<1> QED
  BY <1>4, <1>6, <1>7, <1>8 DEF LexLess

LEMMA LexIrreflexive ==
  ASSUME NEW a \in Seq(Nat)
  PROVE  ~LexLess(a, a)
<1>1. \A i \in Nat : ~LexAt(a, a, i)
  BY DEF LexAt
<1> QED
  BY <1>1, LexIs

LEMMA LexTransitive ==
  ASSUME NEW a \in Seq(Nat), NEW b \in Seq(Nat), NEW c \in Seq(Nat), LexLess(a, b), LexLess(b, c)
  PROVE  LexLess(a, c)
<1>1. PICK i \in Nat : LexAt(a, b, i)
  BY LexIs
<1>2. PICK j \in Nat : LexAt(b, c, j)
  BY LexIs
<1>3. /\ Len(a) \in Nat /\ Len(b) \in Nat /\ Len(c) \in Nat
      /\ \A k \in 1..Len(a) : a[k] \in Nat
      /\ \A k \in 1..Len(b) : b[k] \in Nat
      /\ \A k \in 1..Len(c) : c[k] \in Nat
  OBVIOUS
<1>4. /\ i \in 1..(Len(a) + 1) /\ i <= Len(b) /\ \A k \in 1..(i - 1) : a[k] = b[k]
      /\ (i <= Len(a) => a[i] < b[i])
  BY <1>1 DEF LexAt
<1>5. /\ j \in 1..(Len(b) + 1) /\ j <= Len(c) /\ \A k \in 1..(j - 1) : b[k] = c[k]
      /\ (j <= Len(b) => b[j] < c[j])
  BY <1>2 DEF LexAt
<1>6. /\ i \in Nat /\ j \in Nat /\ Len(a) \in Nat /\ Len(b) \in Nat /\ Len(c) \in Nat
      /\ 1 <= i /\ i <= Len(a) + 1 /\ i <= Len(b) /\ 1 <= j /\ j <= Len(b) + 1 /\ j <= Len(c)
  BY ONLY <1>3, <1>4, <1>5, i \in Nat, j \in Nat
<1>7. CASE i < j
  <2>1. i <= Len(c) /\ i \in 1..(j - 1) /\ \A k \in 1..(i - 1) : k \in 1..(j - 1)
    BY ONLY <1>7, <1>6
  <2>2. b[i] = c[i] /\ \A k \in 1..(i - 1) : a[k] = c[k]
    BY ONLY <1>4, <1>5, <2>1
  <2>3. LexAt(a, c, i)
    BY ONLY <1>4, <2>1, <2>2 DEF LexAt
  <2> QED
    BY <2>3, LexIs
<1>8. CASE j < i
  <2>1. /\ j \in 1..(i - 1) /\ j \in 1..(Len(a) + 1) /\ j <= Len(b) /\ j <= Len(c)
        /\ \A k \in 1..(j - 1) : k \in 1..(i - 1)
    BY ONLY <1>8, <1>6
  <2>2. a[j] = b[j] /\ b[j] < c[j] /\ \A k \in 1..(j - 1) : a[k] = c[k]
    BY ONLY <1>4, <1>5, <2>1
  <2>3. LexAt(a, c, j)
    BY ONLY <2>1, <2>2 DEF LexAt
  <2> QED
    BY <2>3, LexIs
<1>9. CASE i = j
  <2>1. \A k \in 1..(i - 1) : a[k] = c[k]
    BY ONLY <1>9, <1>4, <1>5
  <2>2. i <= Len(a) => /\ i <= Len(b) /\ i \in 1..Len(a) /\ i \in 1..Len(b) /\ i \in 1..Len(c)
                       /\ a[i] < b[i] /\ b[i] < c[i]
    BY ONLY <1>9, <1>6, <1>4, <1>5
  <2>3. i <= Len(a) => a[i] < c[i]
    BY ONLY <1>3, <2>2
  <2>4. LexAt(a, c, i)
    BY ONLY <1>9, <1>4, <1>5, <2>1, <2>3 DEF LexAt
  <2> QED
    BY <2>4, LexIs
<1> QED
  BY <1>7, <1>8, <1>9

LEMMA LexTotal ==
  ASSUME NEW a \in Seq(Nat), NEW b \in Seq(Nat), a # b
  PROVE  LexLess(a, b) \/ LexLess(b, a)
<1> DEFINE D == {i \in Nat : i \in 1..Len(a) /\ i \in 1..Len(b) /\ a[i] # b[i]}
<1>1. /\ Len(a) \in Nat /\ Len(b) \in Nat
      /\ \A k \in 1..Len(a) : a[k] \in Nat
      /\ \A k \in 1..Len(b) : b[k] \in Nat
  OBVIOUS
<1>2. a = b <=> Len(a) = Len(b) /\ \A i \in 1..Len(a) : a[i] = b[i]
  OBVIOUS
<1>3. CASE D = {}
  <2>1. \A i \in 1..Len(a) : i <= Len(b) => a[i] = b[i]
    <3> SUFFICES ASSUME NEW i \in 1..Len(a), i <= Len(b), a[i] # b[i] PROVE FALSE
      OBVIOUS
    <3>1. i \in Nat /\ i \in 1..Len(b)
      BY <1>1
    <3>2. i \in D
      BY <3>1
    <3> QED
      BY <1>3, <3>2
  <2>2. Len(a) # Len(b)
    BY <1>1, <1>2, <2>1
  <2>3. Len(a) < Len(b) => LexAt(a, b, Len(a) + 1)
    BY <1>1, <2>1 DEF LexAt
  <2>4. Len(b) < Len(a) => LexAt(b, a, Len(b) + 1)
    BY <1>1, <2>1 DEF LexAt
  <2>5. Len(a) + 1 \in Nat /\ Len(b) + 1 \in Nat /\ (Len(a) < Len(b) \/ Len(b) < Len(a))
    BY <1>1, <2>2
  <2> QED
    BY <2>3, <2>4, <2>5, LexIs
<1>4. CASE D # {}
  <2>1. D \in SUBSET Nat
    OBVIOUS
  <2> HIDE DEF D
  <2>2. PICK i \in D : \A j \in D : i <= j
    BY <1>4, <2>1, LeastOf
  <2>3. i \in Nat /\ i \in 1..Len(a) /\ i \in 1..Len(b) /\ a[i] # b[i]
    BY <2>2 DEF D
  <2>4. \A j \in 1..(i - 1) : a[j] = b[j]
    <3> SUFFICES ASSUME NEW j \in 1..(i - 1), a[j] # b[j] PROVE FALSE
      OBVIOUS
    <3>1. j \in D
      BY <1>1, <2>3 DEF D
    <3> QED
      BY <2>2, <2>3, <3>1
  <2>5. LexAt(a, b, i) \/ LexAt(b, a, i)
    BY <1>1, <2>3, <2>4 DEF LexAt
  <2> QED
    BY <2>3, <2>5, LexIs
<1> QED
  BY <1>3, <1>4

(* Nothing is before its own prefix.                                       *)
LEMMA LexPrefix ==
  ASSUME NEW p \in Seq(Nat), NEW k \in Seq(Nat), IsPrefix(p, k)
  PROVE  ~LexLess(k, p)
<1>1. Len(p) <= Len(k) /\ \A i \in 1..Len(p) : p[i] = k[i]
  BY PrefixIs
<1>2. \A i \in Nat : ~LexAt(k, p, i)
  BY <1>1 DEF LexAt
<1> QED
  BY <1>2, LexIs

(* Whatever is between a prefix and something that has it has it too.      *)
LEMMA LexBetween ==
  ASSUME NEW p \in Seq(Nat), NEW k \in Seq(Nat), NEW m \in Seq(Nat),
         IsPrefix(p, m), ~LexLess(k, p), LexLess(k, m)
  PROVE  IsPrefix(p, k)
<1>1. Len(p) <= Len(m) /\ \A i \in 1..Len(p) : p[i] = m[i]
  BY PrefixIs
<1>2. PICK i \in Nat : LexAt(k, m, i)
  BY LexIs
<1>3. ~LexAt(k, p, i)
  BY <1>2, LexIs
<1>4. /\ Len(p) \in Nat /\ Len(k) \in Nat /\ Len(m) \in Nat
  OBVIOUS
<1>5. i > Len(p)
  BY <1>1, <1>2, <1>3, <1>4 DEF LexAt
<1>6. Len(p) <= Len(k) /\ \A j \in 1..Len(p) : p[j] = k[j]
  BY <1>1, <1>2, <1>4, <1>5 DEF LexAt
<1> QED
  BY <1>6, PrefixIs

LEMMA ConcatIs ==
  ASSUME NEW X, NEW s \in Seq(X), NEW t \in Seq(X)
  PROVE  /\ s \o t \in Seq(X) /\ Len(s \o t) = Len(s) + Len(t)
         /\ Len(s) \in Nat /\ Len(t) \in Nat
         /\ \A i \in 1..Len(s) : (s \o t)[i] = s[i]
         /\ \A i \in 1..Len(t) : (s \o t)[Len(s) + i] = t[i]
<1>1. s \o t \in Seq(X) /\ Len(s \o t) = Len(s) + Len(t) /\ Len(s) \in Nat /\ Len(t) \in Nat
  BY ConcatProperties
<1>2. \A i \in 1..(Len(s) + Len(t)) : (s \o t)[i] = IF i <= Len(s) THEN s[i] ELSE t[i - Len(s)]
  BY ConcatProperties
<1>3. \A i \in 1..Len(s) : i \in 1..(Len(s) + Len(t)) /\ i <= Len(s)
  BY <1>1
<1>4. \A i \in 1..Len(t) : /\ Len(s) + i \in 1..(Len(s) + Len(t)) /\ ~(Len(s) + i <= Len(s))
                           /\ (Len(s) + i) - Len(s) = i
  BY <1>1
<1>5. \A i \in 1..Len(s) : (s \o t)[i] = s[i]
  BY <1>2, <1>3
<1>6. \A i \in 1..Len(t) : (s \o t)[Len(s) + i] = t[i]
  BY <1>2, <1>4
<1> QED
  BY <1>1, <1>5, <1>6

(* Sequences of one length decide, whatever comes after them, and what is  *)
(* before both does not count.                                             *)
LEMMA LexConcat ==
  ASSUME NEW a \in Seq(Nat), NEW b \in Seq(Nat), Len(a) = Len(b), LexLess(a, b),
         NEW x \in Seq(Nat), NEW y \in Seq(Nat)
  PROVE  LexLess(a \o x, b \o y)
<1>1. PICK i \in Nat : LexAt(a, b, i)
  BY LexIs
<1>2. /\ Len(a) \in Nat /\ Len(x) \in Nat /\ Len(y) \in Nat
      /\ a \o x \in Seq(Nat) /\ Len(a \o x) = Len(a) + Len(x)
      /\ b \o y \in Seq(Nat) /\ Len(b \o y) = Len(a) + Len(y)
      /\ \A j \in 1..Len(a) : (a \o x)[j] = a[j] /\ (b \o y)[j] = b[j]
  <2>1. /\ a \o x \in Seq(Nat) /\ Len(a \o x) = Len(a) + Len(x) /\ Len(a) \in Nat
        /\ Len(x) \in Nat /\ \A j \in 1..Len(a) : (a \o x)[j] = a[j]
    BY ConcatIs
  <2>2. /\ b \o y \in Seq(Nat) /\ Len(b \o y) = Len(b) + Len(y) /\ Len(y) \in Nat
        /\ \A j \in 1..Len(b) : (b \o y)[j] = b[j]
    BY ConcatIs
  <2> QED
    BY <2>1, <2>2
<1>3. i \in 1..Len(a) /\ a[i] < b[i] /\ \A j \in 1..(i - 1) : j \in 1..Len(a) /\ a[j] = b[j]
  BY <1>1, <1>2 DEF LexAt
<1> DEFINE u == a \o x
           v == b \o y
<1> HIDE DEF u, v
<1>4. LexAt(u, v, i)
  <2>1. i \in 1..(Len(u) + 1) /\ i <= Len(v)
    BY <1>2, <1>3 DEF u, v
  <2>2. u[i] < v[i] /\ \A j \in 1..(i - 1) : u[j] = v[j]
    BY <1>2, <1>3 DEF u, v
  <2> QED
    BY <2>1, <2>2 DEF LexAt
<1> QED
  BY <1>2, <1>4, LexIs DEF u, v

LEMMA LexCommon ==
  ASSUME NEW p \in Seq(Nat), NEW a \in Seq(Nat), NEW b \in Seq(Nat), LexLess(a, b)
  PROVE  LexLess(p \o a, p \o b)
<1>1. PICK i \in Nat : LexAt(a, b, i)
  BY LexIs
<1> DEFINE u == p \o a
           v == p \o b
           n == Len(p)
<1>2. /\ n \in Nat /\ Len(a) \in Nat /\ Len(b) \in Nat
      /\ u \in Seq(Nat) /\ Len(u) = n + Len(a)
      /\ v \in Seq(Nat) /\ Len(v) = n + Len(b)
      /\ \A j \in 1..n : u[j] = p[j] /\ v[j] = p[j]
      /\ \A j \in 1..Len(a) : u[n + j] = a[j]
      /\ \A j \in 1..Len(b) : v[n + j] = b[j]
  BY ConcatIs
<1> HIDE DEF u, v, n
<1>3. \A j \in 1..(n + i - 1) : j \in 1..n \/ (j - n \in 1..(i - 1) /\ j = n + (j - n))
  <2>1. n \in Nat /\ i \in Nat
    BY <1>2
  <2> QED
    BY ONLY <2>1
<1>4. \A j \in 1..(i - 1) : j \in 1..Len(a) /\ j \in 1..Len(b) /\ a[j] = b[j]
  <2>1. i \in 1..(Len(a) + 1) /\ i <= Len(b) /\ \A j \in 1..(i - 1) : a[j] = b[j]
    BY <1>1 DEF LexAt
  <2>2. Len(a) \in Nat /\ Len(b) \in Nat
    BY <1>2
  <2>3. \A j \in 1..(i - 1) : j \in 1..Len(a) /\ j \in 1..Len(b)
    BY ONLY <2>1, <2>2
  <2> QED
    BY <2>1, <2>3
<1>5. \A j \in 1..(n + i - 1) : u[j] = v[j]
  <2> TAKE j \in 1..(n + i - 1)
  <2>1. CASE j \in 1..n
    BY <1>2, <2>1
  <2>2. CASE j - n \in 1..(i - 1) /\ j = n + (j - n)
    BY <1>2, <1>4, <2>2
  <2> QED
    BY <1>3, <2>1, <2>2
<1>6. LexAt(u, v, n + i)
  <2>1. i \in 1..(Len(a) + 1) /\ i <= Len(b) /\ (i <= Len(a) => a[i] < b[i])
    BY <1>1 DEF LexAt
  <2>2. /\ n \in Nat /\ Len(a) \in Nat /\ Len(b) \in Nat
        /\ Len(u) = n + Len(a) /\ Len(v) = n + Len(b)
    BY <1>2
  <2>3. n + i \in 1..(Len(u) + 1) /\ n + i <= Len(v)
    BY ONLY <2>1, <2>2
  <2>4. n + i <= Len(u) => i \in 1..Len(a) /\ i \in 1..Len(b)
    BY ONLY <2>1, <2>2
  <2>5. n + i <= Len(u) => u[n + i] = a[i] /\ v[n + i] = b[i] /\ i <= Len(a)
    <3>1. i \in 1..Len(a) => u[n + i] = a[i]
      BY <1>2
    <3>2. i \in 1..Len(b) => v[n + i] = b[i]
      BY <1>2
    <3>3. i \in 1..Len(a) => i <= Len(a)
      BY ONLY <2>2
    <3> QED
      BY ONLY <2>4, <3>1, <3>2, <3>3
  <2>6. n + i <= Len(u) => u[n + i] < v[n + i]
    BY ONLY <2>1, <2>5
  <2> QED
    BY ONLY <1>5, <2>1, <2>2, <2>3, <2>6, i \in Nat DEF LexAt
<1>7. n + i \in Nat
  BY <1>2
<1> QED
  BY <1>2, <1>6, <1>7, LexIs DEF u, v

(* Two sequences of equal parts have equal parts.                          *)
LEMMA ConcatEqual ==
  ASSUME NEW X, NEW a \in Seq(X), NEW b \in Seq(X), NEW x \in Seq(X), NEW y \in Seq(X),
         a \o x = b \o y, Len(a) = Len(b)
  PROVE  a = b /\ x = y
<1> DEFINE u == a \o x
<1>1. u = b \o y
  OBVIOUS
<1>2. a \in Seq(X) /\ x \in Seq(X)
  OBVIOUS
<1>3. /\ Len(u) = Len(a) + Len(x) /\ Len(a) \in Nat /\ Len(x) \in Nat
      /\ \A j \in 1..Len(a) : u[j] = a[j]
      /\ \A j \in 1..Len(x) : u[Len(a) + j] = x[j]
  BY ONLY <1>2, ConcatIs
<1>4. /\ Len(u) = Len(b) + Len(y) /\ Len(y) \in Nat
      /\ \A j \in 1..Len(b) : u[j] = b[j]
      /\ \A j \in 1..Len(y) : u[Len(b) + j] = y[j]
  BY <1>1, ConcatIs
<1> HIDE DEF u
<1>5. Len(a) = Len(b)
  OBVIOUS
<1>6. \A j \in 1..Len(a) : a[j] = b[j]
  BY <1>3, <1>4, <1>5
<1>7. Len(x) = Len(y)
  BY <1>3, <1>4, <1>5
<1>8. \A j \in 1..Len(x) : x[j] = y[j]
  BY <1>3, <1>4, <1>5, <1>7
<1>9. a = b
  BY <1>5, <1>6, SeqEqual
<1>10. x = y
  BY <1>7, <1>8, SeqEqual
<1> QED
  BY <1>9, <1>10

-----------------------------------------------------------------------------
(* What batches write: of several puts under one key the last wins, and    *)
(* two batches one after the other write what they write as one.           *)

Written(batch) == {batch[i].at : i \in DOMAIN batch}

Wins(batch, at, i) ==
  /\ i \in 1..Len(batch) /\ batch[i].at = at
  /\ \A j \in 1..Len(batch) : batch[j].at = at => j <= i

LEMMA WinningPutIs ==
  ASSUME NEW X, NEW batch \in Seq(X), NEW at
  PROVE  /\ at \in Written(batch) => Wins(batch, at, WinningPut(batch, at))
         /\ \A i \in Nat : Wins(batch, at, i) => at \in Written(batch) /\ i = WinningPut(batch, at)
<1> DEFINE S == {i \in 1..Len(batch) : batch[i].at = at}
<1>1. Len(batch) \in Nat /\ DOMAIN batch = 1..Len(batch)
  BY LenProperties
<1>2. ASSUME at \in Written(batch)
      PROVE  \E i \in DOMAIN batch : Wins(batch, at, i)
  <2>1. S \in SUBSET (1..Len(batch)) /\ S # {}
    BY <1>1, <1>2 DEF Written
  <2>2. S \in SUBSET (0..Len(batch)) /\ S # {}
    BY <1>1, <2>1
  <2> HIDE DEF S
  <2>3. PICK i \in S : \A j \in S : j <= i
    BY <1>1, <2>2, GreatestOf
  <2> QED
    BY <1>1, <2>3 DEF S, Wins
<1>3. WinningPut(batch, at) = CHOOSE i \in DOMAIN batch : Wins(batch, at, i)
  BY <1>1 DEF WinningPut, Wins
<1>4. ASSUME NEW i \in Nat, Wins(batch, at, i), NEW j \in Nat, Wins(batch, at, j)
      PROVE  i = j
  BY <1>4 DEF Wins
<1>5. \A i \in DOMAIN batch : i \in Nat
  BY <1>1
<1>6. ASSUME NEW i \in Nat, Wins(batch, at, i)
      PROVE  at \in Written(batch) /\ i \in DOMAIN batch
  BY <1>1, <1>6 DEF Wins, Written
<1> QED
  BY <1>2, <1>3, <1>4, <1>5, <1>6

LEMMA WriteBatchIs ==
  ASSUME NEW s, NEW batch
  PROVE  /\ DOMAIN WriteBatch(s, batch) = DOMAIN s \cup Written(batch)
         /\ \A at \in DOMAIN s \cup Written(batch) :
              WriteBatch(s, batch)[at] =
                IF at \in Written(batch) THEN batch[WinningPut(batch, at)].record ELSE s[at]
         /\ WriteBatch(s, batch) =
              [at \in DOMAIN s \cup Written(batch) |->
                 IF at \in Written(batch) THEN batch[WinningPut(batch, at)].record ELSE s[at]]
<1>1. WriteBatch(s, batch) =
        [at \in DOMAIN s \cup Written(batch) |->
           IF at \in Written(batch) THEN batch[WinningPut(batch, at)].record ELSE s[at]]
  BY DEF WriteBatch, Written
<1> QED
  BY <1>1

(* persist_aggregated_batch appends batches to one another: writing them   *)
(* as one leaves the store that writing them one after the other leaves,   *)
(* whatever keys they share.                                               *)
THEOREM WriteConcat ==
  ASSUME NEW s, NEW X, NEW a \in Seq(X), NEW b \in Seq(X)
  PROVE  WriteBatch(WriteBatch(s, a), b) = WriteBatch(s, a \o b)
<1> DEFINE u == a \o b
           m == Len(a)
           n == Len(b)
<1>1. a \in Seq(X) /\ b \in Seq(X)
  OBVIOUS
<1>2. /\ u \in Seq(X) /\ Len(u) = m + n /\ m \in Nat /\ n \in Nat
      /\ \A i \in 1..m : u[i] = a[i]
      /\ \A i \in 1..n : u[m + i] = b[i]
  BY ONLY <1>1, ConcatIs
<1>3. DOMAIN a = 1..m /\ DOMAIN b = 1..n /\ DOMAIN u = 1..Len(u)
  BY ONLY <1>1, <1>2, LenProperties
<1> HIDE DEF u
<1>4. \A i \in 1..Len(u) : i \in 1..m \/ (i - m \in 1..n /\ i = m + (i - m))
  BY <1>2
<1>5. \A i \in 1..m : i \in 1..Len(u)
  BY <1>2
<1>6. \A i \in 1..n : m + i \in 1..Len(u) /\ m + i > m
  BY <1>2
<1> HIDE DEF m, n
<1>7. Written(u) = Written(a) \cup Written(b)
  <2>1. \A at \in Written(u) : at \in Written(a) \/ at \in Written(b)
    <3> TAKE at \in Written(u)
    <3>1. PICK i \in 1..Len(u) : u[i].at = at
      BY <1>3 DEF Written
    <3>2. CASE i \in 1..m
      BY <1>2, <1>3, <3>1, <3>2 DEF Written
    <3>3. CASE i - m \in 1..n /\ i = m + (i - m)
      <4>1. u[i] = b[i - m]
        BY <1>2, <3>3
      <4> QED
        BY <1>3, <3>1, <3>3, <4>1 DEF Written
    <3> QED
      BY <1>4, <3>2, <3>3
  <2>2. \A at \in Written(a) : at \in Written(u)
    BY <1>2, <1>3, <1>5 DEF Written
  <2>3. \A at \in Written(b) : at \in Written(u)
    BY <1>2, <1>3, <1>6 DEF Written
  <2> QED
    BY <2>1, <2>2, <2>3
<1>8. ASSUME NEW at \in Written(b)
      PROVE  u[WinningPut(u, at)] = b[WinningPut(b, at)]
  <2> DEFINE w == WinningPut(b, at)
  <2>1. Wins(b, at, w)
    BY WinningPutIs
  <2> HIDE DEF w
  <2>2. w \in 1..n /\ b[w].at = at /\ \A j \in 1..n : b[j].at = at => j <= w
    BY <2>1 DEF Wins, n
  <2>3. m + w \in 1..Len(u) /\ u[m + w] = b[w]
    BY <1>2, <1>6, <2>2
  <2>4. ASSUME NEW j \in 1..Len(u), u[j].at = at
        PROVE  j <= m + w
    <3>1. CASE j \in 1..m
      BY <1>2, <2>2, <3>1
    <3>2. CASE j - m \in 1..n /\ j = m + (j - m)
      <4>1. u[j] = b[j - m]
        BY <1>2, <3>2
      <4>2. j - m <= w
        BY <2>2, <2>4, <3>2, <4>1
      <4> QED
        BY <1>2, <2>2, <3>2, <4>2
    <3> QED
      BY <1>4, <3>1, <3>2
  <2>5. Wins(u, at, m + w) /\ m + w \in Nat
    BY <1>2, <2>2, <2>3, <2>4 DEF Wins
  <2>6. m + w = WinningPut(u, at)
    BY <1>2, <2>5, WinningPutIs
  <2> QED
    BY <2>3, <2>6 DEF w
<1>9. ASSUME NEW at \in Written(a), at \notin Written(b)
      PROVE  u[WinningPut(u, at)] = a[WinningPut(a, at)]
  <2> DEFINE w == WinningPut(a, at)
  <2>1. Wins(a, at, w)
    BY WinningPutIs
  <2> HIDE DEF w
  <2>2. w \in 1..m /\ a[w].at = at /\ \A j \in 1..m : a[j].at = at => j <= w
    BY <2>1 DEF Wins, m
  <2>3. w \in 1..Len(u) /\ u[w] = a[w]
    BY <1>2, <1>5, <2>2
  <2>4. ASSUME NEW j \in 1..Len(u), u[j].at = at
        PROVE  j <= w
    <3>1. CASE j \in 1..m
      BY <1>2, <2>2, <2>4, <3>1
    <3>2. CASE j - m \in 1..n /\ j = m + (j - m)
      <4>1. u[j] = b[j - m]
        BY <1>2, <3>2
      <4>2. at \in Written(b)
        BY <1>3, <2>4, <3>2, <4>1 DEF Written
      <4> QED
        BY <1>9, <4>2
    <3> QED
      BY <1>4, <3>1, <3>2
  <2>5. Wins(u, at, w) /\ w \in Nat
    BY <1>2, <2>2, <2>3, <2>4 DEF Wins
  <2>6. w = WinningPut(u, at)
    BY <1>2, <2>5, WinningPutIs
  <2> QED
    BY <2>3, <2>6 DEF w
<1> DEFINE v == WriteBatch(s, a)
           D == (DOMAIN s \cup Written(a)) \cup Written(b)
<1>10. /\ DOMAIN v = DOMAIN s \cup Written(a)
       /\ \A at \in DOMAIN v :
            v[at] = IF at \in Written(a) THEN a[WinningPut(a, at)].record ELSE s[at]
  <2>1. DOMAIN v = DOMAIN s \cup Written(a)
    BY WriteBatchIs
  <2>2. \A at \in DOMAIN s \cup Written(a) :
          v[at] = IF at \in Written(a) THEN a[WinningPut(a, at)].record ELSE s[at]
    BY WriteBatchIs
  <2> QED
    BY <2>1, <2>2
<1> HIDE DEF v
<1>11. WriteBatch(v, b) =
         [at \in D |-> IF at \in Written(b) THEN b[WinningPut(b, at)].record ELSE v[at]]
  BY <1>10, WriteBatchIs
<1>12. WriteBatch(s, u) =
         [at \in D |-> IF at \in Written(u) THEN u[WinningPut(u, at)].record ELSE s[at]]
  <2>1. WriteBatch(s, u) =
          [at \in DOMAIN s \cup Written(u) |->
             IF at \in Written(u) THEN u[WinningPut(u, at)].record ELSE s[at]]
    BY WriteBatchIs
  <2>2. DOMAIN s \cup Written(u) = D
    BY <1>7
  <2> QED
    BY <2>1, <2>2
<1>13. \A at \in D :
         (IF at \in Written(b) THEN b[WinningPut(b, at)].record ELSE v[at])
           = IF at \in Written(u) THEN u[WinningPut(u, at)].record ELSE s[at]
  <2> TAKE at \in D
  <2>1. CASE at \in Written(b)
    BY <1>7, <1>8, <2>1
  <2>2. CASE at \in Written(a) /\ at \notin Written(b)
    BY <1>7, <1>9, <1>10, <2>2
  <2>3. CASE at \in DOMAIN s /\ at \notin Written(a) /\ at \notin Written(b)
    BY <1>7, <1>10, <2>3
  <2> QED
    BY <2>1, <2>2, <2>3
<1> HIDE DEF D
<1>14. WriteBatch(v, b) = WriteBatch(s, u)
  BY <1>11, <1>12, <1>13
<1> QED
  BY <1>14 DEF u, v

LEMMA WriteOne ==
  ASSUME NEW s, NEW put
  PROVE  WriteBatch(s, <<put>>) =
           [at \in DOMAIN s \cup {put.at} |-> IF at = put.at THEN put.record ELSE s[at]]
<1> DEFINE b == <<put>>
<1>1. b \in Seq({put}) /\ Len(b) = 1 /\ b[1] = put /\ DOMAIN b = 1..1
  OBVIOUS
<1> HIDE DEF b
<1>2. Written(b) = {put.at}
  BY <1>1 DEF Written
<1>3. Wins(b, put.at, 1)
  BY <1>1 DEF Wins
<1>4. WinningPut(b, put.at) = 1
  BY <1>1, <1>3, WinningPutIs
<1>5. \A at \in DOMAIN s \cup {put.at} :
        (IF at \in {put.at} THEN b[WinningPut(b, at)].record ELSE s[at])
          = IF at = put.at THEN put.record ELSE s[at]
  BY <1>1, <1>4
<1>6. WriteBatch(s, b) =
        [at \in DOMAIN s \cup {put.at} |->
           IF at \in {put.at} THEN b[WinningPut(b, at)].record ELSE s[at]]
  <2>1. WriteBatch(s, b) =
          [at \in DOMAIN s \cup Written(b) |->
             IF at \in Written(b) THEN b[WinningPut(b, at)].record ELSE s[at]]
    BY WriteBatchIs
  <2> QED
    BY <1>2, <2>1
<1>7. WriteBatch(s, b) =
        [at \in DOMAIN s \cup {put.at} |-> IF at = put.at THEN put.record ELSE s[at]]
  BY <1>5, <1>6
<1> QED
  BY <1>7 DEF b

LEMMA WriteNone ==
  ASSUME NEW s, s = [at \in DOMAIN s |-> s[at]]
  PROVE  WriteBatch(s, <<>>) = s
<1> DEFINE v == WriteBatch(s, <<>>)
           b == <<>>
<1>1. Written(b) = {}
  BY DEF Written
<1>2. v = [at \in DOMAIN s |-> s[at]]
  <2> HIDE DEF b
  <2>1. WriteBatch(s, b) =
          [at \in DOMAIN s \cup Written(b) |->
             IF at \in Written(b) THEN b[WinningPut(b, at)].record ELSE s[at]]
    BY WriteBatchIs
  <2>2. DOMAIN s \cup Written(b) = DOMAIN s
    BY <1>1
  <2>3. \A at \in DOMAIN s :
          (IF at \in Written(b) THEN b[WinningPut(b, at)].record ELSE s[at]) = s[at]
    BY <1>1
  <2>4. WriteBatch(s, b) = [at \in DOMAIN s |-> s[at]]
    BY <2>1, <2>2, <2>3
  <2> QED
    BY <2>4 DEF b
<1> HIDE DEF v
<1>3. v = s
  BY <1>2
<1> QED
  BY <1>3 DEF v

-----------------------------------------------------------------------------
(* FlattenSeq puts one sequence after the other.                           *)

First(g, n) == [i \in 1..n |-> g[i]]

Flattening(g, n, f) == f = [i \in 1..n |-> IF i = 1 THEN g[i] ELSE f[i - 1] \o g[i]]

LEMMA FlatteningExists ==
  ASSUME NEW g, NEW n \in Nat
  PROVE  \E f : Flattening(g, n, f)
<1> DEFINE S == {m \in Nat : \E f : Flattening(g, m, f)}
<1>1. 0 \in S
  <2> DEFINE f == [i \in 1..0 |-> g[i]]
  <2>1. Flattening(g, 0, f)
    BY DEF Flattening
  <2> QED
    BY <2>1
<1>2. ASSUME NEW m \in Nat, m \in S
      PROVE  m + 1 \in S
  <2>1. PICK f : Flattening(g, m, f)
    BY <1>2
  <2> DEFINE h == [i \in 1..(m + 1) |-> IF i = 1 THEN g[i] ELSE f[i - 1] \o g[i]]
  <2>2. \A i \in 1..m : h[i] = f[i]
    <3>1. \A i \in 1..m : f[i] = IF i = 1 THEN g[i] ELSE f[i - 1] \o g[i]
      BY <2>1 DEF Flattening
    <3>2. \A i \in 1..m : i \in 1..(m + 1)
      OBVIOUS
    <3>3. \A i \in 1..m : h[i] = IF i = 1 THEN g[i] ELSE f[i - 1] \o g[i]
      BY <3>2
    <3> HIDE DEF h
    <3> QED
      BY <3>1, <3>3
  <2>3. \A i \in 1..(m + 1) : i # 1 => i - 1 \in 1..m
    OBVIOUS
  <2>4. h = [i \in 1..(m + 1) |-> IF i = 1 THEN g[i] ELSE h[i - 1] \o g[i]]
    BY <2>2, <2>3
  <2> HIDE DEF h
  <2>5. Flattening(g, m + 1, h)
    BY <2>4 DEF Flattening
  <2> QED
    BY <2>5
<1> HIDE DEF S
<1>3. n \in S
  BY <1>1, <1>2, SetInduction
<1> QED
  BY <1>3 DEF S

LEMMA FlatteningsAgree ==
  ASSUME NEW n \in Nat, NEW m \in Nat, n <= m, NEW g, NEW h, \A i \in 1..n : g[i] = h[i],
         NEW e, Flattening(g, n, e), NEW f, Flattening(h, m, f)
  PROVE  \A i \in 1..n : e[i] = f[i]
<1> DEFINE S == {i \in Nat : i = 0 \/ e[i] = f[i]}
<1>1. 0 \in S
  OBVIOUS
<1>2. /\ \A i \in 1..n : e[i] = IF i = 1 THEN g[i] ELSE e[i - 1] \o g[i]
      /\ \A i \in 1..m : f[i] = IF i = 1 THEN h[i] ELSE f[i - 1] \o h[i]
  BY DEF Flattening
<1>3. ASSUME NEW i \in 0..(n - 1), i \in S
      PROVE  i + 1 \in S
  <2>1. i + 1 \in 1..n /\ i + 1 \in 1..m /\ (i + 1) - 1 = i /\ (i + 1 = 1 <=> i = 0)
    OBVIOUS
  <2>2. e[i + 1] = (IF i = 0 THEN g[i + 1] ELSE e[i] \o g[i + 1])
    BY <1>2, <2>1
  <2>3. f[i + 1] = (IF i = 0 THEN g[i + 1] ELSE f[i] \o g[i + 1])
    BY <1>2, <2>1
  <2>4. e[i + 1] = f[i + 1]
    BY <1>3, <2>2, <2>3
  <2> QED
    BY <2>1, <2>4
<1> HIDE DEF S
<1>4. \A i \in 0..n : i \in S
  BY <1>1, <1>3, BoundedInduction
<1> QED
  BY <1>4 DEF S

LEMMA FlattenSeqIs ==
  ASSUME NEW g, NEW n \in Nat \ {0}
  PROVE  \E f : Flattening(First(g, n), n, f) /\ FlattenSeq(First(g, n)) = f[n]
<1> DEFINE h == First(g, n)
<1>1. Len(h) = n /\ Len(h) # 0
  BY DEF First
<1> HIDE DEF h
<1> DEFINE f == CHOOSE f : f = [i \in 1..Len(h) |-> IF i = 1 THEN h[i] ELSE f[i - 1] \o h[i]]
<1>2. FlattenSeq(h) = f[Len(h)]
  BY <1>1 DEF FlattenSeq
<1>3. f = CHOOSE f1 : Flattening(h, n, f1)
  BY <1>1 DEF Flattening
<1> HIDE DEF f
<1>4. Flattening(h, n, f)
  BY <1>3, FlatteningExists
<1> QED
  BY <1>1, <1>2, <1>4 DEF h

LEMMA FlattenNone ==
  ASSUME NEW g
  PROVE  FlattenSeq(First(g, 0)) = <<>>
<1>1. First(g, 0) = <<>>
  BY DEF First
<1>2. Len(<<>>) = 0
  OBVIOUS
<1> QED
  BY <1>1, <1>2 DEF FlattenSeq

LEMMA FlattenNext ==
  ASSUME NEW X, NEW n \in Nat, NEW g, g[n + 1] \in Seq(X)
  PROVE  FlattenSeq(First(g, n + 1)) = FlattenSeq(First(g, n)) \o g[n + 1]
<1>1. PICK f : Flattening(First(g, n + 1), n + 1, f) /\ FlattenSeq(First(g, n + 1)) = f[n + 1]
  BY FlattenSeqIs
<1>2. First(g, n + 1)[n + 1] = g[n + 1] /\ \A i \in 1..n : First(g, n + 1)[i] = First(g, n)[i]
  BY DEF First
<1>3. f[n + 1] = IF n = 0 THEN g[n + 1] ELSE f[n] \o g[n + 1]
  <2> DEFINE e == First(g, n + 1)
  <2>1. f = [i \in 1..(n + 1) |-> IF i = 1 THEN e[i] ELSE f[i - 1] \o e[i]]
    BY <1>1 DEF Flattening
  <2> HIDE DEF e
  <2>2. n + 1 \in 1..(n + 1) /\ (n + 1) - 1 = n /\ (n + 1 = 1 <=> n = 0)
    OBVIOUS
  <2>3. f[n + 1] = IF n = 0 THEN e[n + 1] ELSE f[n] \o e[n + 1]
    BY <2>1, <2>2
  <2> QED
    BY <1>2, <2>3 DEF e
<1>4. CASE n = 0
  <2>1. FlattenSeq(First(g, n)) = <<>>
    BY <1>4, FlattenNone
  <2>2. <<>> \o g[n + 1] = g[n + 1]
    BY ConcatEmptySeq
  <2> QED
    BY <1>1, <1>3, <1>4, <2>1, <2>2
<1>5. CASE n # 0
  <2>1. PICK e : Flattening(First(g, n), n, e) /\ FlattenSeq(First(g, n)) = e[n]
    BY <1>5, FlattenSeqIs
  <2>2. n \in 1..n /\ n <= n + 1 /\ n + 1 \in Nat
    BY <1>5
  <2>3. e[n] = f[n]
    <3>1. \A i \in 1..n : First(g, n)[i] = First(g, n + 1)[i]
      BY <1>2
    <3>2. \A i \in 1..n : e[i] = f[i]
      BY <1>1, <2>1, <2>2, <3>1, FlatteningsAgree
    <3> QED
      BY <2>2, <3>2
  <2> QED
    BY <1>1, <1>3, <1>5, <2>1, <2>3
<1> QED
  BY <1>4, <1>5

LEMMA FlattenType ==
  ASSUME NEW X, NEW n \in Nat, NEW g, \A i \in 1..n : g[i] \in Seq(X)
  PROVE  \A k \in 0..n : FlattenSeq(First(g, k)) \in Seq(X)
<1> DEFINE S == {k \in Nat : FlattenSeq(First(g, k)) \in Seq(X)}
<1>1. 0 \in S
  BY FlattenNone, EmptySeq
<1>2. ASSUME NEW k \in 0..(n - 1), k \in S
      PROVE  k + 1 \in S
  <2>1. k \in Nat /\ k + 1 \in 1..n /\ k + 1 \in Nat
    OBVIOUS
  <2>2. g[k + 1] \in Seq(X) /\ FlattenSeq(First(g, k)) \in Seq(X)
    BY <1>2, <2>1
  <2>3. FlattenSeq(First(g, k + 1)) = FlattenSeq(First(g, k)) \o g[k + 1]
    BY <2>1, <2>2, FlattenNext
  <2> DEFINE u == FlattenSeq(First(g, k))
             v == g[k + 1]
  <2> HIDE DEF u, v
  <2>4. u \o v \in Seq(X)
    BY <2>2, ConcatProperties DEF u, v
  <2> QED
    BY <2>1, <2>3, <2>4 DEF u, v
<1> HIDE DEF S
<1>3. \A k \in 0..n : k \in S
  BY <1>1, <1>2, BoundedInduction
<1> QED
  BY <1>3 DEF S

-----------------------------------------------------------------------------
(* InOrder lists a finite set of byte sequences in their order, each once. *)

LEMMA ImageCardinality ==
  ASSUME NEW S, IsFiniteSet(S), NEW f, NEW T, \A s \in S : f[s] \in T,
         \A t \in T : \E s \in S : f[s] = t
  PROVE  /\ IsFiniteSet(T) /\ Cardinality(T) <= Cardinality(S)
         /\ (\A r, s \in S : f[r] = f[s] => r = s) => Cardinality(T) = Cardinality(S)
<1> DEFINE g == [s \in S |-> f[s]]
<1>1. g \in [S -> T] /\ \A s \in S : g[s] = f[s]
  OBVIOUS
<1> HIDE DEF g
<1>2. g \in Surjection(S, T)
  BY <1>1, Fun_IsSurj
<1>3. (\A r, s \in S : f[r] = f[s] => r = s) => g \in Injection(S, T)
  BY <1>1, Fun_IsInj
<1>4. /\ IsFiniteSet(T) /\ Cardinality(T) <= Cardinality(S)
      /\ Cardinality(T) = Cardinality(S) <=> g \in Injection(S, T)
  BY <1>2, FS_Surjection
<1> QED
  BY <1>3, <1>4

Below(S, s) == {r \in S : LexLess(r, s)}

Rank(S, s) == Cardinality(Below(S, s))

LEMMA RankIs ==
  ASSUME NEW S \in SUBSET Seq(Nat), IsFiniteSet(S), NEW s \in S
  PROVE  Cardinality(S) \in Nat /\ Rank(S, s) \in 0..(Cardinality(S) - 1)
<1>1. Below(S, s) \in SUBSET S /\ s \notin Below(S, s)
  BY LexIrreflexive DEF Below
<1>2. Cardinality(Below(S, s)) <= Cardinality(S) /\ Cardinality(S) # Cardinality(Below(S, s))
  BY <1>1, FS_Subset
<1>3. Cardinality(Below(S, s)) \in Nat /\ Cardinality(S) \in Nat
  BY <1>1, FS_Subset, FS_CardinalityType
<1> QED
  BY <1>2, <1>3 DEF Rank

LEMMA RankGrows ==
  ASSUME NEW S \in SUBSET Seq(Nat), IsFiniteSet(S), NEW r \in S, NEW s \in S, LexLess(r, s)
  PROVE  Rank(S, r) < Rank(S, s)
<1>1. IsFiniteSet(Below(S, s))
  <2>1. Below(S, s) \in SUBSET S
    BY DEF Below
  <2> QED
    BY <2>1, FS_Subset
<1>2. Below(S, r) \in SUBSET Below(S, s)
  BY LexTransitive DEF Below
<1>3. r \in Below(S, s) /\ r \notin Below(S, r)
  BY LexIrreflexive DEF Below
<1>4. /\ Cardinality(Below(S, r)) <= Cardinality(Below(S, s))
      /\ Cardinality(Below(S, s)) # Cardinality(Below(S, r))
  BY <1>1, <1>2, <1>3, FS_Subset
<1>5. Rank(S, r) \in Nat /\ Rank(S, s) \in Nat
  BY RankIs
<1> QED
  BY <1>4, <1>5 DEF Rank

LEMMA RankTells ==
  ASSUME NEW S \in SUBSET Seq(Nat), IsFiniteSet(S), NEW r \in S, NEW s \in S
  PROVE  /\ Rank(S, r) = Rank(S, s) => r = s
         /\ Rank(S, r) < Rank(S, s) => LexLess(r, s)
<1>1. r # s => LexLess(r, s) \/ LexLess(s, r)
  BY LexTotal
<1>2. LexLess(r, s) => Rank(S, r) < Rank(S, s)
  BY RankGrows
<1>3. LexLess(s, r) => Rank(S, s) < Rank(S, r)
  BY RankGrows
<1>4. Rank(S, r) \in Nat /\ Rank(S, s) \in Nat
  BY RankIs
<1> QED
  BY <1>1, <1>2, <1>3, <1>4

LEMMA RankOnto ==
  ASSUME NEW S \in SUBSET Seq(Nat), IsFiniteSet(S)
  PROVE  \A i \in 0..(Cardinality(S) - 1) : \E s \in S : Rank(S, s) = i
<1> DEFINE n == Cardinality(S)
           f == [s \in S |-> Rank(S, s)]
           T == 0..(n - 1)
<1>1. n \in Nat
  BY FS_CardinalityType
<1>2. \A s \in S : Rank(S, s) \in T
  BY RankIs
<1>3. IsFiniteSet(T) /\ Cardinality(T) = n
  <2>1. 0 \in Int /\ n - 1 \in Int
    BY <1>1
  <2>2. IsFiniteSet(T) /\ Cardinality(T) = IF 0 > n - 1 THEN 0 ELSE ((n - 1) - 0) + 1
    BY <2>1, FS_Interval
  <2> QED
    BY <1>1, <2>2
<1>4. f \in [S -> T] /\ \A s \in S : f[s] = Rank(S, s)
  BY <1>2
<1> HIDE DEF f, T
<1>5. f \in Injection(S, T)
  BY <1>4, RankTells, Fun_IsInj
<1>6. f \in Surjection(S, T)
  BY <1>3, <1>5, FS_Injection DEF n
<1>7. \A i \in T : \E s \in S : f[s] = i
  BY <1>6, Fun_SurjectionProperties
<1> QED
  BY <1>4, <1>7 DEF T

LEMMA InOrderIs ==
  ASSUME NEW S \in SUBSET Seq(Nat), IsFiniteSet(S)
  PROVE  /\ Cardinality(S) \in Nat /\ DOMAIN InOrder(S) = 1..Cardinality(S)
         /\ \A i \in 1..Cardinality(S) :
              InOrder(S)[i] \in S /\ Rank(S, InOrder(S)[i]) = i - 1
         /\ \A s \in S : /\ Rank(S, s) + 1 \in 1..Cardinality(S)
                         /\ InOrder(S)[Rank(S, s) + 1] = s
<1>1. InOrder(S) = [i \in 1..Cardinality(S) |-> CHOOSE s \in S : Rank(S, s) = i - 1]
  BY DEF InOrder, Rank, Below
<1>2. Cardinality(S) \in Nat
  BY FS_CardinalityType
<1>3. \A i \in 1..Cardinality(S) :
        InOrder(S)[i] \in S /\ Rank(S, InOrder(S)[i]) = i - 1
  <2> TAKE i \in 1..Cardinality(S)
  <2>1. i - 1 \in 0..(Cardinality(S) - 1)
    BY <1>2
  <2>2. \E s \in S : Rank(S, s) = i - 1
    BY <2>1, RankOnto
  <2>3. InOrder(S)[i] = CHOOSE s \in S : Rank(S, s) = i - 1
    BY <1>1
  <2> QED
    BY <2>2, <2>3
<1>4. ASSUME NEW s \in S
      PROVE  Rank(S, s) + 1 \in 1..Cardinality(S) /\ InOrder(S)[Rank(S, s) + 1] = s
  <2> DEFINE i == Rank(S, s) + 1
  <2>1. i \in 1..Cardinality(S) /\ i - 1 = Rank(S, s)
    BY <1>2, RankIs
  <2> HIDE DEF i
  <2>2. InOrder(S)[i] \in S /\ Rank(S, InOrder(S)[i]) = Rank(S, s)
    BY <1>3, <2>1
  <2>3. InOrder(S)[i] = s
    BY <2>2, RankTells
  <2> QED
    BY <2>1, <2>3 DEF i
<1>5. DOMAIN InOrder(S) = 1..Cardinality(S)
  BY <1>1
<1> QED
  BY <1>2, <1>3, <1>4, <1>5

LEMMA InOrderGrows ==
  ASSUME NEW S \in SUBSET Seq(Nat), IsFiniteSet(S),
         NEW i \in 1..Cardinality(S), NEW j \in 1..Cardinality(S), i < j
  PROVE  LexLess(InOrder(S)[i], InOrder(S)[j])
<1> DEFINE r == InOrder(S)[i]
           s == InOrder(S)[j]
<1>1. r \in S /\ s \in S /\ Rank(S, r) = i - 1 /\ Rank(S, s) = j - 1 /\ Cardinality(S) \in Nat
  BY InOrderIs
<1> HIDE DEF r, s
<1>2. Rank(S, r) < Rank(S, s)
  BY <1>1
<1>3. LexLess(r, s)
  BY <1>1, <1>2, RankTells
<1> QED
  BY <1>3 DEF r, s

(* A function that keeps the order keeps the list.                         *)
LEMMA InOrderMap ==
  ASSUME NEW S \in SUBSET Seq(Nat), IsFiniteSet(S), NEW T \in SUBSET Seq(Nat), NEW f,
         \A s \in S : f[s] \in T, \A t \in T : \E s \in S : f[s] = t,
         \A r, s \in S : LexLess(r, s) => LexLess(f[r], f[s])
  PROVE  /\ IsFiniteSet(T) /\ Cardinality(T) = Cardinality(S)
         /\ \A i \in 1..Cardinality(S) : InOrder(T)[i] = f[InOrder(S)[i]]
<1>1. ASSUME NEW r \in S, NEW s \in S
      PROVE  /\ f[r] = f[s] => r = s
             /\ LexLess(f[r], f[s]) => LexLess(r, s)
  <2>1. r # s => LexLess(r, s) \/ LexLess(s, r)
    BY LexTotal
  <2>2. /\ LexLess(r, s) => LexLess(f[r], f[s])
        /\ LexLess(s, r) => LexLess(f[s], f[r])
        /\ f[r] \in Seq(Nat) /\ f[s] \in Seq(Nat)
    OBVIOUS
  <2>3. ~LexLess(f[r], f[r]) /\ ~(LexLess(f[r], f[s]) /\ LexLess(f[s], f[r]))
    BY <2>2, LexIrreflexive, LexTransitive
  <2>4. CASE r = s
    BY <2>3, <2>4
  <2>5. CASE LexLess(r, s)
    BY <2>2, <2>3, <2>5
  <2>6. CASE LexLess(s, r)
    BY <2>2, <2>3, <2>6
  <2> QED
    BY <2>1, <2>4, <2>5, <2>6
<1>2. IsFiniteSet(T) /\ Cardinality(T) = Cardinality(S)
  <2>1. IsFiniteSet(S) /\ (\A s \in S : f[s] \in T) /\ (\A t \in T : \E s \in S : f[s] = t)
    OBVIOUS
  <2>2. \A r, s \in S : f[r] = f[s] => r = s
    BY <1>1
  <2> QED
    BY ONLY <2>1, <2>2, ImageCardinality
<1>3. ASSUME NEW s \in S
      PROVE  Rank(T, f[s]) = Rank(S, s)
  <2> DEFINE A == Below(S, s)
             B == Below(T, f[s])
  <2>1. A \in SUBSET S
    BY DEF Below
  <2>2. IsFiniteSet(A)
    BY <2>1, FS_Subset
  <2>3. \A r \in A : f[r] \in B
    BY DEF Below
  <2>4. \A t \in B : \E r \in A : f[r] = t
    <3> TAKE t \in B
    <3>1. t \in T /\ LexLess(t, f[s])
      BY DEF Below
    <3>2. PICK r \in S : f[r] = t
      BY <3>1
    <3>3. r \in A
      BY <1>1, <3>1, <3>2 DEF Below
    <3> QED
      BY <3>2, <3>3
  <2>5. \A r, q \in A : f[r] = f[q] => r = q
    BY <1>1, <2>1
  <2> HIDE DEF A, B
  <2>6. Cardinality(B) = Cardinality(A)
    BY <2>2, <2>3, <2>4, <2>5, ImageCardinality
  <2> QED
    BY <2>6 DEF A, B, Rank
<1>4. ASSUME NEW i \in 1..Cardinality(S)
      PROVE  InOrder(T)[i] = f[InOrder(S)[i]]
  <2> DEFINE s == InOrder(S)[i]
             t == InOrder(T)[i]
  <2>1. s \in S /\ Rank(S, s) = i - 1
    BY InOrderIs
  <2>2. t \in T /\ Rank(T, t) = i - 1
    BY <1>2, InOrderIs
  <2> HIDE DEF s, t
  <2>3. f[s] \in T /\ Rank(T, f[s]) = Rank(T, t)
    BY <1>3, <2>1, <2>2
  <2>4. f[s] = t
    BY <1>2, <2>2, <2>3, RankTells
  <2> QED
    BY <2>4 DEF s, t
<1> QED
  BY <1>2, <1>4

-----------------------------------------------------------------------------
(* A scan yields the rows whose keys have the prefix, in the order of the  *)
(* keys, up to the limit.                                                  *)

Under(store, cf, prefix) == {k \in KeysOf(store, cf) : IsPrefix(prefix, k)}

Least(m, n) == IF m < n THEN m ELSE n

LEMMA UnderIsInitial ==
  ASSUME NEW A \in SUBSET Seq(Nat), IsFiniteSet(A), NEW p \in Seq(Nat),
         \A k \in A : ~LexLess(k, p),
         NEW M \in SUBSET A, \A k \in A : k \in M <=> IsPrefix(p, k)
  PROVE  /\ Cardinality(M) \in Nat /\ Cardinality(M) <= Cardinality(A)
         /\ \A i \in 1..Cardinality(M) : InOrder(A)[i] = InOrder(M)[i]
         /\ \A i \in 1..Cardinality(A) : InOrder(A)[i] \in M <=> i <= Cardinality(M)
<1>1. M \in SUBSET Seq(Nat) /\ IsFiniteSet(M) /\ Cardinality(M) <= Cardinality(A)
  BY FS_Subset
<1>2. Cardinality(M) \in Nat /\ Cardinality(A) \in Nat
  BY <1>1, FS_CardinalityType
<1>3. ASSUME NEW m \in M
      PROVE  Rank(A, m) = Rank(M, m)
  <2>1. \A k \in A : LexLess(k, m) => k \in M
    <3> SUFFICES ASSUME NEW k \in A, LexLess(k, m) PROVE k \in M
      OBVIOUS
    <3>1. k \in Seq(Nat) /\ m \in Seq(Nat) /\ p \in Seq(Nat) /\ IsPrefix(p, m) /\ ~LexLess(k, p)
      OBVIOUS
    <3>2. IsPrefix(p, k)
      BY <3>1, LexBetween
    <3> QED
      BY <3>2
  <2>2. Below(A, m) = Below(M, m)
    BY <2>1 DEF Below
  <2> QED
    BY <2>2 DEF Rank
<1>4. ASSUME NEW i \in 1..Cardinality(M)
      PROVE  InOrder(A)[i] = InOrder(M)[i]
  <2> DEFINE m == InOrder(M)[i]
             a == InOrder(A)[i]
  <2>1. m \in M /\ Rank(M, m) = i - 1
    BY <1>1, InOrderIs
  <2>2. i \in 1..Cardinality(A)
    BY <1>1, <1>2
  <2>3. a \in A /\ Rank(A, a) = i - 1
    BY <2>2, InOrderIs
  <2> HIDE DEF m, a
  <2>4. m \in A /\ Rank(A, m) = Rank(A, a)
    BY <1>3, <2>1, <2>3
  <2>5. a = m
    BY <2>3, <2>4, RankTells
  <2> QED
    BY <2>5 DEF m, a
<1>5. ASSUME NEW i \in 1..Cardinality(A)
      PROVE  InOrder(A)[i] \in M <=> i <= Cardinality(M)
  <2> DEFINE a == InOrder(A)[i]
  <2>1. a \in A /\ Rank(A, a) = i - 1
    BY InOrderIs
  <2>2. i <= Cardinality(M) => a \in M
    <3> HAVE i <= Cardinality(M)
    <3>1. i \in 1..Cardinality(M)
      BY <1>2
    <3>2. InOrder(M)[i] \in M
      BY <1>1, <3>1, InOrderIs
    <3> QED
      BY <1>4, <3>1, <3>2
  <2> HIDE DEF a
  <2>3. a \in M => i <= Cardinality(M)
    <3> HAVE a \in M
    <3>1. Rank(M, a) \in 0..(Cardinality(M) - 1)
      BY <1>1, RankIs
    <3>2. Rank(M, a) = i - 1
      BY <1>3, <2>1
    <3> QED
      BY <1>2, <3>1, <3>2
  <2> QED
    BY <2>2, <2>3 DEF a
<1> QED
  BY <1>1, <1>2, <1>4, <1>5

(* scan_prefix: an iterator that begins at the prefix and stops at the     *)
(* first key without it yields exactly the rows under the prefix, in the   *)
(* order of their keys, up to the limit, in every store.  With a limit of  *)
(* 0 it yields the first row, so there the prefix must have none.          *)
THEOREM ScanIs ==
  ASSUME NEW store, NEW cf, IsFiniteSet(KeysOf(store, cf)), KeysOf(store, cf) \in SUBSET Seq(Nat),
         NEW p \in Seq(Nat), NEW limit \in Nat, NEW M, M = Under(store, cf, p),
         limit > 0 \/ M = {}
  PROVE  /\ M \in SUBSET Seq(Nat) /\ IsFiniteSet(M) /\ Cardinality(M) \in Nat
         /\ ScanPrefix(store, cf, p, limit) =
              [i \in 1..Least(limit, Cardinality(M)) |-> store[<<cf, InOrder(M)[i]>>]]
<1> DEFINE K == KeysOf(store, cf)
           A == {k \in K : ~LexLess(k, p)}
           keys == InOrder(A)
           n == Cardinality(M)
           l == Least(limit, n)
<1>1. A \in SUBSET K /\ A \in SUBSET Seq(Nat)
  OBVIOUS
<1>2. IsFiniteSet(A)
  BY <1>1, FS_Subset
<1>3. \A k \in K : IsPrefix(p, k) => ~LexLess(k, p)
  BY LexPrefix
<1>4. /\ M \in SUBSET A /\ \A k \in A : k \in M <=> IsPrefix(p, k)
      /\ \A k \in A : ~LexLess(k, p)
  BY <1>3 DEF Under
<1>5. KeysFrom(store, cf, p) = keys
  BY DEF KeysFrom
<1> HIDE DEF A
<1>6. /\ n \in Nat /\ n <= Cardinality(A)
      /\ \A i \in 1..n : keys[i] = InOrder(M)[i]
      /\ \A i \in 1..Cardinality(A) : keys[i] \in M <=> i <= n
  BY <1>1, <1>2, <1>4, UnderIsInitial
<1>7. /\ Cardinality(A) \in Nat /\ DOMAIN keys = 1..Cardinality(A)
      /\ \A i \in 1..Cardinality(A) : keys[i] \in A
  BY <1>1, <1>2, InOrderIs
<1>8. M = {} => n = 0
  BY FS_EmptySet
<1> HIDE DEF keys, K, n
<1>9. l \in Nat /\ (n > 0 /\ limit < n => l = limit) /\ (n = 0 \/ n <= limit => l = n) /\ l <= n
  BY <1>6, <1>8 DEF Least
<1> DEFINE I == {i \in DOMAIN keys : /\ \A j \in 1..i : IsPrefix(p, keys[j])
                                     /\ i = 1 \/ i - 1 < limit}
<1>10. \A i \in 1..Cardinality(A) : (\A j \in 1..i : IsPrefix(p, keys[j])) <=> i <= n
  <2> TAKE i \in 1..Cardinality(A)
  <2>1. \A j \in 1..i : j \in 1..Cardinality(A) /\ (IsPrefix(p, keys[j]) <=> j <= n)
    <3> TAKE j \in 1..i
    <3>1. j \in 1..Cardinality(A)
      BY <1>7
    <3> QED
      BY <1>4, <1>6, <1>7, <3>1
  <2>2. i \in 1..i
    BY <1>7
  <2>3. (\A j \in 1..i : j <= n) <=> i <= n
    BY <1>6, <1>7, <2>2
  <2> QED
    BY <2>1, <2>3
<1>11. I = 1..l
  <2>1. \A i \in 1..Cardinality(A) : i \in I <=> i <= n /\ (i = 1 \/ i - 1 < limit)
    BY <1>7, <1>10
  <2>2. I \in SUBSET (1..Cardinality(A))
    BY <1>7
  <2> HIDE DEF I
  <2>3. \A i \in 1..Cardinality(A) : i <= n /\ (i = 1 \/ i - 1 < limit) <=> i \in 1..l
    <3>1. limit > 0 \/ n = 0
      BY <1>8
    <3> QED
      BY <1>6, <1>7, <1>9, <3>1 DEF Least
  <2>4. 1..l \in SUBSET (1..Cardinality(A))
    BY <1>6, <1>7, <1>9
  <2> QED
    BY <2>1, <2>2, <2>3, <2>4
<1>12. ScanLength(keys, p, limit) = l
  <2>1. ScanLength(keys, p, limit) = Cardinality(I)
    BY DEF ScanLength
  <2> HIDE DEF I, l
  <2>2. 1 \in Int /\ l \in Int
    BY <1>9
  <2>3. Cardinality(1..l) = IF 1 > l THEN 0 ELSE (l - 1) + 1
    BY ONLY <2>2, FS_Interval
  <2> QED
    BY <1>9, <1>11, <2>1, <2>3
<1>13. ScanPrefix(store, cf, p, limit) = [i \in 1..l |-> store[<<cf, keys[i]>>]]
  BY <1>5, <1>12 DEF ScanPrefix
<1>14. \A i \in 1..l : keys[i] = InOrder(M)[i]
  <2>1. \A i \in 1..l : i \in 1..n
    BY <1>6, <1>9
  <2> QED
    BY <1>6, <2>1
<1>15. ScanPrefix(store, cf, p, limit) = [i \in 1..l |-> store[<<cf, InOrder(M)[i]>>]]
  BY <1>13, <1>14
<1>16. M \in SUBSET Seq(Nat) /\ IsFiniteSet(M)
  BY <1>1, <1>2, <1>4, FS_Subset
<1> QED
  BY <1>6, <1>15, <1>16 DEF n

-----------------------------------------------------------------------------
(* Prefixes of concatenations.                                             *)

LEMMA PrefixConcat ==
  ASSUME NEW X, NEW a \in Seq(X), NEW x \in Seq(X)
  PROVE  /\ IsPrefix(a, a \o x)
         /\ \A b \in Seq(X) : Len(b) = Len(a) /\ IsPrefix(b, a \o x) => b = a
<1> DEFINE u == a \o x
<1>1. a \in Seq(X) /\ x \in Seq(X)
  OBVIOUS
<1>2. /\ u \in Seq(X) /\ Len(u) = Len(a) + Len(x) /\ Len(a) \in Nat /\ Len(x) \in Nat
      /\ \A i \in 1..Len(a) : u[i] = a[i]
  BY ONLY <1>1, ConcatIs
<1> HIDE DEF u
<1>3. IsPrefix(a, u)
  <2>1. Len(a) <= Len(u) /\ \A i \in 1..Len(a) : a[i] = u[i]
    BY <1>2
  <2> QED
    BY ONLY <1>1, <1>2, <2>1, PrefixIs
<1>4. ASSUME NEW b \in Seq(X), Len(b) = Len(a), IsPrefix(b, u)
      PROVE  b = a
  <2>1. \A i \in 1..Len(b) : b[i] = u[i]
    BY <1>2, <1>4, PrefixIs
  <2>2. \A i \in 1..Len(b) : b[i] = a[i]
    BY <1>2, <1>4, <2>1
  <2> QED
    BY <1>4, <2>2, SeqEqual
<1> QED
  BY <1>3, <1>4 DEF u

LEMMA PrefixesNest ==
  ASSUME NEW X, NEW p \in Seq(X), NEW q \in Seq(X), NEW k \in Seq(X),
         IsPrefix(p, k), IsPrefix(q, k)
  PROVE  IsPrefix(p, q) \/ IsPrefix(q, p)
<1>1. Len(p) <= Len(k) /\ \A i \in 1..Len(p) : p[i] = k[i]
  BY PrefixIs
<1>2. Len(q) <= Len(k) /\ \A i \in 1..Len(q) : q[i] = k[i]
  BY PrefixIs
<1>3. Len(p) \in Nat /\ Len(q) \in Nat
  OBVIOUS
<1>4. CASE Len(p) <= Len(q)
  <2>1. \A i \in 1..Len(p) : p[i] = q[i]
    BY <1>1, <1>2, <1>3, <1>4
  <2> QED
    BY <1>4, <2>1, PrefixIs
<1>5. CASE Len(q) <= Len(p)
  <2>1. \A i \in 1..Len(q) : q[i] = p[i]
    BY <1>1, <1>2, <1>3, <1>5
  <2> QED
    BY <1>5, <2>1, PrefixIs
<1> QED
  BY <1>3, <1>4, <1>5

(* The last place of a set: nothing in the set comes after it.             *)
LEMMA LastOf ==
  ASSUME NEW S \in SUBSET Seq(Nat), IsFiniteSet(S), S # {}
  PROVE  \E s \in S : \A r \in S : ~LexLess(s, r)
<1> DEFINE n == Cardinality(S)
           s == InOrder(S)[n]
<1>1. n \in Nat \ {0} /\ n \in 1..n
  BY FS_CardinalityType, FS_EmptySet
<1>2. s \in S /\ Rank(S, s) = n - 1
  BY <1>1, InOrderIs
<1> HIDE DEF s
<1>3. ASSUME NEW r \in S, LexLess(s, r)
      PROVE  FALSE
  <2>1. Rank(S, s) < Rank(S, r) /\ Rank(S, r) \in 0..(n - 1)
    BY <1>2, <1>3, RankGrows, RankIs
  <2> QED
    BY <1>1, <1>2, <2>1
<1> QED
  BY <1>2, <1>3

LEMMA FirstNext ==
  ASSUME NEW X, NEW n \in Nat, NEW g, \A i \in 1..(n + 1) : g[i] \in X
  PROVE  /\ First(g, n) \in Seq(X)
         /\ First(g, n + 1) = First(g, n) \o <<g[n + 1]>>
         /\ First(g, 0) = <<>>
<1> DEFINE a == First(g, n)
           b == First(g, n + 1)
           c == <<g[n + 1]>>
<1>1. a \in [1..n -> X] /\ \A i \in 1..n : a[i] = g[i]
  BY DEF First
<1>2. b \in [1..(n + 1) -> X] /\ \A i \in 1..(n + 1) : b[i] = g[i]
  BY DEF First
<1>3. First(g, 0) = <<>>
  BY DEF First
<1>4. c \in Seq(X) /\ Len(c) = 1 /\ c[1] = g[n + 1]
  OBVIOUS
<1> HIDE DEF a, b, c
<1>5. a \in Seq(X) /\ Len(a) = n
  BY ONLY <1>1, n \in Nat
<1>6. b \in Seq(X) /\ Len(b) = n + 1
  BY ONLY <1>2, n \in Nat
<1> DEFINE u == a \o c
<1>7. /\ u \in Seq(X) /\ Len(u) = Len(a) + Len(c)
      /\ \A i \in 1..Len(a) : u[i] = a[i]
      /\ \A i \in 1..Len(c) : u[Len(a) + i] = c[i]
  BY ONLY <1>4, <1>5, ConcatIs
<1> HIDE DEF u
<1>8. \A i \in 1..Len(b) : b[i] = u[i]
  <2> TAKE i \in 1..Len(b)
  <2>1. CASE i \in 1..n
    BY <1>1, <1>2, <1>5, <1>7, <2>1
  <2>2. CASE i = n + 1
    <3>1. 1 \in 1..Len(c) /\ u[Len(a) + 1] = c[1]
      BY <1>4, <1>7
    <3> QED
      BY <1>2, <1>4, <1>5, <2>2, <3>1
  <2> QED
    BY <1>6, <2>1, <2>2
<1>9. b = u
  BY <1>4, <1>5, <1>6, <1>7, <1>8, SeqEqual
<1> QED
  BY <1>3, <1>5, <1>9 DEF a, b, c, u

LEMMA WriteTwo ==
  ASSUME NEW s, NEW a, NEW b
  PROVE  WriteBatch(s, <<a, b>>) = WriteBatch(WriteBatch(s, <<a>>), <<b>>)
<1> DEFINE X == {a, b}
           u == <<a>>
           v == <<b>>
           w == <<a, b>>
           y == u \o v
<1>1. /\ u \in Seq(X) /\ Len(u) = 1 /\ u[1] = a
      /\ v \in Seq(X) /\ Len(v) = 1 /\ v[1] = b
      /\ w \in Seq(X) /\ Len(w) = 2 /\ w[1] = a /\ w[2] = b
  OBVIOUS
<1> HIDE DEF u, v, w, X
<1>2. <<a, b>> = u \o v
  <2>1. /\ y \in Seq(X) /\ Len(y) = Len(u) + Len(v)
        /\ \A i \in 1..Len(u) : y[i] = u[i]
        /\ \A i \in 1..Len(v) : y[Len(u) + i] = v[i]
    <3>1. u \in Seq(X) /\ v \in Seq(X)
      BY <1>1
    <3> QED
      BY ONLY <3>1, ConcatIs
  <2> HIDE DEF y
  <2>2. Len(y) = 2 /\ y[1] = a
    BY <1>1, <2>1
  <2>3. 1 \in 1..Len(v) /\ Len(u) + 1 = 2
    BY <1>1
  <2>4. y[2] = b
    BY <1>1, <2>1, <2>3
  <2>5. \A i \in 1..Len(y) : i = 1 \/ i = 2
    BY <2>2
  <2>6. y = w
    BY <1>1, <2>1, <2>2, <2>4, <2>5, SeqEqual
  <2> QED
    BY <2>6 DEF y, w
<1>3. WriteBatch(WriteBatch(s, u), v) = WriteBatch(s, u \o v)
  BY <1>1, WriteConcat
<1> QED
  BY <1>2, <1>3 DEF u, v
=============================================================================
