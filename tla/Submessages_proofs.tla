-------------------------- MODULE Submessages_proofs --------------------------
(***************************************************************************)
(* What the submessage codecs do, for every message the structs can hold:  *)
(* the bytes of a number, the words a reader takes, the bitmap of a number *)
(* set bit by bit, and that HEARTBEAT, ACKNACK and GAP decode to what was  *)
(* encoded (Submessage.cpp, SubmessageCodec.cpp).  Codecs_proofs builds on *)
(* them for DATA, the parameter lists and the invariants of Codecs.        *)
(***************************************************************************)
EXTENDS Codecs, FiniteSetTheorems, WellFoundedInduction, TLAPS

-----------------------------------------------------------------------------
(* Capacity(k), the number of values of k bytes, is a power of two. The    *)
(* model counts the subsets of 1..8k, so what a power does is proved by    *)
(* induction on least elements of sets of naturals.                        *)

(* Induction, stated for a set of numbers instead of for a predicate.      *)
LEMMA Induction ==
  ASSUME NEW S, 0 \in S, \A n \in Nat : n \in S => n + 1 \in S
  PROVE  Nat \subseteq S
<1> DEFINE R == {p \in Nat \X Nat : p[1] < p[2]}
           Bad == Nat \ S
<1> SUFFICES ASSUME Bad # {} PROVE FALSE
  OBVIOUS
<1>1. IsWellFoundedOn(R, Nat)
  BY NatLessThanWellFounded, Zenon DEF OpToRel
<1> HIDE DEF R
<1>2. Bad \in SUBSET Nat
  OBVIOUS
<1> HIDE DEF Bad
<1>3. PICK m \in Bad : \A n \in Bad : <<n, m>> \notin R
  BY <1>1, <1>2, WFMin, Zenon
<1> USE DEF R, Bad
<1>4. m \in Nat \ {0} /\ m - 1 \in Nat
  OBVIOUS
<1>5. m - 1 \notin Bad
  <2>1. <<m - 1, m>> \in Nat \X Nat /\ <<m - 1, m>>[1] < <<m - 1, m>>[2]
    BY <1>4
  <2>2. <<m - 1, m>> \in R
    BY <2>1
  <2> QED BY <2>2, <1>3
<1>6. (m - 1) + 1 \in S
  BY <1>4, <1>5
<1> QED BY <1>6, <1>4

-----------------------------------------------------------------------------
(* Powers of two, which the library knows as numbers of subsets.           *)

LEMMA PowerIsCount ==
  ASSUME NEW n \in Nat
  PROVE  /\ IsFiniteSet(SUBSET (1..n))
         /\ 2^n = Cardinality(SUBSET (1..n))
<1>1. IsFiniteSet(1..n) /\ Cardinality(1..n) = n
  BY FS_Interval
<1> QED BY <1>1, FS_SUBSET

LEMMA PowerZero == 2^0 = 1
OBVIOUS

LEMMA PowerNext ==
  ASSUME NEW n \in Nat
  PROVE  2^n \in Nat /\ 2^(n + 1) = 2 * 2^n
<1> DEFINE A == SUBSET (1..n)
           B == {s \in SUBSET (1..n + 1) : n + 1 \in s}
           f == [s \in A |-> s \cup {n + 1}]
<1>1. IsFiniteSet(A) /\ Cardinality(A) = 2^n /\ 2^n \in Nat
  BY PowerIsCount, FS_CardinalityType
<1>2. IsFiniteSet(SUBSET (1..n + 1)) /\ Cardinality(SUBSET (1..n + 1)) = 2^(n + 1)
  BY PowerIsCount
<1>3. f \in Bijection(A, B)
  <2>1. \A s \in A : s \cup {n + 1} \in B
    OBVIOUS
  <2>2. \A s, t \in A : s \cup {n + 1} = t \cup {n + 1} => s = t
    <3> SUFFICES ASSUME NEW s \in A, NEW t \in A, s \cup {n + 1} = t \cup {n + 1}
                 PROVE  s = t
      OBVIOUS
    <3>1. n + 1 \notin s /\ n + 1 \notin t
      OBVIOUS
    <3> QED BY <3>1
  <2>3. \A t \in B : \E s \in A : s \cup {n + 1} = t
    <3> SUFFICES ASSUME NEW t \in B PROVE \E s \in A : s \cup {n + 1} = t
      OBVIOUS
    <3>1. t \ {n + 1} \in A
      OBVIOUS
    <3>2. (t \ {n + 1}) \cup {n + 1} = t
      OBVIOUS
    <3> QED BY <3>1, <3>2
  <2> HIDE DEF A, B
  <2> QED BY <2>1, <2>2, <2>3 DEF Bijection, Injection, Surjection, IsInjective
<1>4. IsFiniteSet(B) /\ Cardinality(B) = 2^n
  BY <1>1, <1>3, FS_Bijection DEF ExistsBijection
<1>5. A \cup B = SUBSET (1..n + 1) /\ A \cap B = {}
  <2>1. \A s \in SUBSET (1..n + 1) : n + 1 \notin s => s \in A
    OBVIOUS
  <2>2. 1..n \subseteq 1..n + 1 /\ n + 1 \notin 1..n
    OBVIOUS
  <2> QED BY <2>1, <2>2
<1> HIDE DEF A, B
<1>6. Cardinality(A \cup B) = Cardinality(A) + Cardinality(B) - Cardinality(A \cap B)
  BY <1>1, <1>4, FS_Union
<1>7. Cardinality(A \cap B) = 0
  BY <1>5, FS_EmptySet
<1>8. 2^(n + 1) = Cardinality(A \cup B)
  BY <1>2, <1>5, Zenon
<1> QED BY <1>1, <1>4, <1>6, <1>7, <1>8

LEMMA PowerPositive ==
  \A n \in Nat : 2^n \in Nat \ {0} /\ 2^(n + 1) = 2 * 2^n
<1> DEFINE S == {n \in Nat : 2^n \in Nat \ {0}}
<1>1. 0 \in S
  BY PowerZero
<1>2. \A n \in Nat : n \in S => n + 1 \in S
  BY PowerNext
<1> HIDE DEF S
<1>3. Nat \subseteq S
  BY <1>1, <1>2, Induction
<1> QED BY <1>3, PowerNext DEF S

LEMMA PowerSum ==
  ASSUME NEW a \in Nat
  PROVE  \A b \in Nat : 2^(a + b) = 2^a * 2^b
<1> DEFINE S == {b \in Nat : 2^(a + b) = 2^a * 2^b}
<1>1. 0 \in S
  BY PowerZero, PowerPositive
<1>2. ASSUME NEW b \in Nat, b \in S PROVE b + 1 \in S
  <2>1. 2^(a + (b + 1)) = 2 * 2^(a + b)
    <3>1. a + b \in Nat /\ a + (b + 1) = (a + b) + 1
      OBVIOUS
    <3> QED BY <3>1, PowerPositive
  <2>2. 2^(b + 1) = 2 * 2^b
    BY PowerPositive
  <2>3. 2^a \in Nat /\ 2^b \in Nat
    BY PowerPositive
  <2>4. 2 * (2^a * 2^b) = 2^a * (2 * 2^b)
    BY <2>3
  <2>5. 2^(a + (b + 1)) = 2^a * 2^(b + 1)
    BY <2>1, <2>2, <2>4, <1>2
  <2> QED BY <2>5
<1> HIDE DEF S
<1>3. Nat \subseteq S
  BY <1>1, <1>2, Induction
<1> QED BY <1>3 DEF S

LEMMA PowerMonotonic ==
  ASSUME NEW a \in Nat, NEW b \in Nat, a <= b
  PROVE  2^a <= 2^b
<1>1. b - a \in Nat /\ b = a + (b - a)
  OBVIOUS
<1>2. 2^b = 2^a * 2^(b - a)
  BY <1>1, PowerSum
<1> DEFINE x == 2^a
           y == 2^(b - a)
<1>3. x \in Nat \ {0} /\ y \in Nat \ {0}
  BY <1>1, PowerPositive
<1> HIDE DEF x, y
<1>4. x <= x * y
  BY <1>3
<1> QED BY <1>2, <1>4 DEF x, y

-----------------------------------------------------------------------------
(* Folds.  A fold over 1..N is the last value of a chain; the recursive    *)
(* functions behind the folds of the community modules exist.              *)

LEMMA InductionUpTo ==
  ASSUME NEW N \in Nat, NEW S, 0 \in S,
         \A i \in 1..N : i - 1 \in S => i \in S
  PROVE  0..N \subseteq S
<1> DEFINE T == {n \in Nat : n <= N => n \in S}
<1>1. 0 \in T
  OBVIOUS
<1>2. ASSUME NEW n \in Nat, n \in T PROVE n + 1 \in T
  <2> SUFFICES ASSUME n + 1 <= N PROVE n + 1 \in S
    OBVIOUS
  <2>1. n + 1 \in 1..N /\ (n + 1) - 1 = n /\ n \in S
    BY <1>2
  <2> QED BY <2>1
<1> HIDE DEF T
<1>3. Nat \subseteq T
  BY <1>1, <1>2, Induction
<1> QED BY <1>3 DEF T

LEMMA MaxIsIn ==
  ASSUME NEW N \in Nat, NEW s \in SUBSET (1..N), s # {}
  PROVE  Max(s) \in s /\ Max(s) \in 1..N
<1> DEFINE P(k) == \A t \in SUBSET (1..k) : t # {} => \E m \in t : \A y \in t : m >= y
           T == {k \in Nat : P(k)}
<1>1. 0 \in T
  <2>1. 1..0 = {}
    OBVIOUS
  <2>2. P(0)
    BY <2>1
  <2> QED BY <2>2
<1>2. ASSUME NEW k \in Nat, k \in T PROVE k + 1 \in T
  <2> SUFFICES ASSUME NEW t \in SUBSET (1..k + 1), t # {}
               PROVE  \E m \in t : \A y \in t : m >= y
    OBVIOUS
  <2>1. CASE k + 1 \in t
    BY <2>1
  <2>2. CASE k + 1 \notin t
    <3>1. t \in SUBSET (1..k)
      BY <2>2
    <3> QED BY <3>1, <1>2
  <2> QED BY <2>1, <2>2
<1> HIDE DEF T
<1>3. Nat \subseteq T
  BY <1>1, <1>2, Induction
<1>4. \E m \in s : \A y \in s : m >= y
  BY <1>3 DEF T
<1> QED BY <1>4 DEF Max

LEMMA MaxOfRange ==
  ASSUME NEW i \in Nat \ {0}
  PROVE  Max(1..i) = i /\ (1..i) \ {i} = 1..(i - 1)
<1>1. i \in 1..i /\ \A y \in 1..i : i >= y
  OBVIOUS
<1>2. \A m \in 1..i : (\A y \in 1..i : m >= y) => m = i
  BY <1>1
<1> QED BY <1>1, <1>2 DEF Max

Iterates(g, k, base, H) ==
  \A s \in SUBSET (1..k) :
    g[s] = IF s = {} THEN base ELSE H[<<Max(s), g[s \ {Max(s)}]>>]

LEMMA IterationExists ==
  ASSUME NEW V, NEW base \in V, NEW N \in Nat, NEW H \in [(1..N) \X V -> V]
  PROVE  \E g \in [SUBSET (1..N) -> V] : Iterates(g, N, base, H)
<1> DEFINE P(k) == \E g \in [SUBSET (1..k) -> V] : Iterates(g, k, base, H)
           T == {k \in Nat : k <= N => P(k)}
<1>1. 0 \in T
  <2> DEFINE g == [s \in SUBSET (1..0) |-> base]
  <2>1. g \in [SUBSET (1..0) -> V] /\ Iterates(g, 0, base, H)
    BY DEF Iterates
  <2> HIDE DEF g
  <2>2. P(0)
    BY <2>1
  <2> QED BY <2>2
<1>2. ASSUME NEW k \in Nat, k \in T PROVE k + 1 \in T
  <2> HIDE DEF P
  <2> SUFFICES ASSUME k + 1 <= N PROVE P(k + 1)
    OBVIOUS
  <2>0. P(k)
    BY <1>2
  <2> HIDE DEF T
  <2> USE DEF P
  <2>1. PICK g \in [SUBSET (1..k) -> V] : Iterates(g, k, base, H)
    BY <2>0
  <2> DEFINE h == [s \in SUBSET (1..k + 1) |->
                     IF k + 1 \in s THEN H[<<k + 1, g[s \ {k + 1}]>>] ELSE g[s]]
  <2>2. \A s \in SUBSET (1..k + 1) : /\ s \ {k + 1} \in SUBSET (1..k)
                                     /\ k + 1 \notin s => s \in SUBSET (1..k)
    OBVIOUS
  <2>3. h \in [SUBSET (1..k + 1) -> V]
    BY <2>2
  <2>4. ASSUME NEW s \in SUBSET (1..k + 1), s # {}
        PROVE  h[s] = H[<<Max(s), h[s \ {Max(s)}]>>]
    <3>1. CASE k + 1 \in s
      <4>1. Max(s) = k + 1
        <5>1. \A y \in s : k + 1 >= y
          OBVIOUS
        <5>2. \A m \in s : (\A y \in s : m >= y) => m = k + 1
          BY <3>1, <5>1
        <5> QED BY <3>1, <5>1, <5>2 DEF Max
      <4>2. h[s \ {k + 1}] = g[s \ {k + 1}]
        BY <2>2
      <4> QED BY <3>1, <4>1, <4>2
    <3>2. CASE k + 1 \notin s
      <4>1. s \in SUBSET (1..k) /\ s \ {Max(s)} \in SUBSET (1..k)
        BY <3>2, <2>2
      <4>2. g[s] = H[<<Max(s), g[s \ {Max(s)}]>>]
        BY <4>1, <2>1, <2>4 DEF Iterates
      <4>3. h[s \ {Max(s)}] = g[s \ {Max(s)}]
        BY <3>2, <2>2
      <4> QED BY <3>2, <4>2, <4>3
    <3> QED BY <3>1, <3>2
  <2>5. h[{}] = base
    BY <2>1 DEF Iterates
  <2> HIDE DEF h
  <2>6. Iterates(h, k + 1, base, H)
    BY <2>4, <2>5 DEF Iterates
  <2> QED BY <2>3, <2>6
<1> HIDE DEF T, P
<1>3. Nat \subseteq T
  BY <1>1, <1>2, Induction
<1>4. P(N)
  BY <1>3 DEF T
<1> QED BY <1>4 DEF P

LEMMA CapacityFacts ==
  ASSUME NEW n \in Nat
  PROVE  Capacity(n) \in Nat \ {0}
<1>1. n * ByteBits \in Nat
  BY ByteBitsAssumption
<1> QED BY <1>1, PowerPositive DEF Capacity

LEMMA NatLinear ==
  ASSUME NEW a \in Nat, NEW b \in Nat, NEW c \in Nat
  PROVE  a * b + c \in Nat
OBVIOUS

(* The chain of values of FromBytes.                                       *)
Ordered(bytes, endianness) == IF endianness = "big" THEN bytes ELSE Reverse(bytes)

ValueChain(v, o) ==
  /\ v \in [0..Len(o) -> Nat]
  /\ v[0] = 0
  /\ \A i \in 1..Len(o) : v[i] = v[i - 1] * Capacity(1) + o[i]

LEMMA FromBytesChain ==
  ASSUME NEW bytes \in Seq(Nat), NEW endianness
  PROVE  LET o == Ordered(bytes, endianness) IN
         /\ o \in Seq(Nat) /\ Len(o) = Len(bytes)
         /\ \E v : ValueChain(v, o) /\ FromBytes(bytes, endianness) = v[Len(o)]
<1> DEFINE o == Ordered(bytes, endianness)
           N == Len(bytes)
           H == [p \in (1..N) \X Nat |-> p[2] * Capacity(1) + o[p[1]]]
           F(h) == [s \in SUBSET DOMAIN o |->
                      IF s = {} THEN 0
                      ELSE h[s \ {Max(s)}] * Capacity(1) + o[Max(s)]]
           iter == CHOOSE h : h = F(h)
           v == [i \in 0..N |-> iter[1..i]]
<1>1. o \in [1..N -> Nat] /\ o \in Seq(Nat) /\ Len(o) = N /\ DOMAIN o = 1..N /\ N \in Nat
  BY DEF Ordered, Reverse
<1>2. Capacity(1) \in Nat
  BY CapacityFacts
<1>3. FromBytes(bytes, endianness) = iter[DOMAIN o]
  BY DEF FromBytes, FoldLeft, MapThenFoldSet, Ordered
<1> HIDE DEF o
<1> HIDE DEF N
<1>4. H \in [(1..N) \X Nat -> Nat]
  <2>1. ASSUME NEW i \in 1..N, NEW x \in Nat PROVE x * Capacity(1) + o[i] \in Nat
    <3>1. o[i] \in Nat
      BY <1>1
    <3> QED BY <3>1, <1>2, NatLinear
  <2> QED BY <2>1
<1>5. PICK g \in [SUBSET (1..N) -> Nat] : Iterates(g, N, 0, H)
  BY <1>4, <1>1, IterationExists
<1>6. g = F(g)
  <2>1. ASSUME NEW s \in SUBSET (1..N), s # {}
        PROVE  g[s] = g[s \ {Max(s)}] * Capacity(1) + o[Max(s)]
    <3>1. Max(s) \in 1..N
      BY <2>1, <1>1, MaxIsIn
    <3>2. g[s] = H[<<Max(s), g[s \ {Max(s)}]>>]
      BY <2>1, <1>5 DEF Iterates
    <3> QED BY <3>1, <3>2
  <2>2. g[{}] = 0
    BY <1>5 DEF Iterates
  <2> QED BY <2>1, <2>2, <1>1
<1>7. iter = F(iter)
  BY <1>6
<1> HIDE DEF iter
<1>8. ASSUME NEW i \in 1..N PROVE v[i] = v[i - 1] * Capacity(1) + o[i]
  <2>1. Max(1..i) = i /\ (1..i) \ {i} = 1..(i - 1) /\ 1..i # {} /\ 1..i \in SUBSET (1..N)
    <3>1. i \in Nat \ {0} /\ i <= N
      BY <1>1
    <3>2. 1 \in 1..i /\ 1..i \subseteq 1..N
      BY <3>1, <1>1
    <3> QED BY <3>1, <3>2, MaxOfRange
  <2>2. iter[1..i] = iter[(1..i) \ {i}] * Capacity(1) + o[i]
    BY <2>1, <1>7, <1>1
  <2>3. i - 1 \in 0..N /\ i \in 0..N
    BY <1>1
  <2> QED BY <2>1, <2>2, <2>3
<1>9. v[0] = 0
  <2>1. 1..0 = {} /\ 0 \in 0..N
    BY <1>1
  <2> QED BY <2>1, <1>7, <1>1
<1>10. 0..N \subseteq {i \in 0..N : v[i] \in Nat}
  <2> DEFINE S == {i \in 0..N : v[i] \in Nat}
  <2> HIDE DEF v
  <2>1. 0 \in S
    BY <1>9, <1>1
  <2>2. ASSUME NEW i \in 1..N, i - 1 \in S PROVE i \in S
    <3>1. v[i - 1] \in Nat /\ o[i] \in Nat /\ i \in 0..N
      BY <2>2, <1>1
    <3>2. v[i - 1] * Capacity(1) + o[i] \in Nat
      BY <3>1, <1>2, NatLinear
    <3> QED BY <3>1, <3>2, <1>8
  <2> HIDE DEF S
  <2>3. 0..N \subseteq S
    BY <2>1, <2>2, <1>1, InductionUpTo
  <2> QED BY <2>3 DEF S
<1>11. v \in [0..N -> Nat] /\ v[N] = iter[DOMAIN o]
  BY <1>10, <1>1
<1> HIDE DEF v, F
<1> QED BY <1>1, <1>3, <1>8, <1>9, <1>11 DEF ValueChain, o, N

-----------------------------------------------------------------------------
(* Division, and bytes: the bytes of a number give it back.                *)

(* Division by a positive number is characterised by quotient and rest.    *)
LEMMA Division ==
  ASSUME NEW x \in Int, NEW d \in Nat \ {0}
  PROVE  /\ x \div d \in Int /\ x % d \in 0..d - 1
         /\ x = (x \div d) * d + (x % d)
<1>1. x \div d \in Int /\ x % d \in 0..d - 1 /\ x = d * (x \div d) + (x % d)
  <2>1. x % d \in 0..d - 1 /\ x = d * (x \div d) + (x % d)
    OBVIOUS
  <2>2. x \div d \in Int
    OBVIOUS
  <2> QED BY <2>1, <2>2
<1> DEFINE q == x \div d
<1>2. q \in Int
  BY <1>1
<1> HIDE DEF q
<1>3. d * q = q * d
  BY <1>2
<1> QED BY <1>1, <1>3 DEF q

LEMMA SmallMultiple ==
  ASSUME NEW q \in Int, NEW d \in Nat \ {0}, q * d < d, -d < q * d
  PROVE  q = 0
OBVIOUS

LEMMA DivisionUnique ==
  ASSUME NEW x \in Int, NEW d \in Nat \ {0}, NEW q \in Int, NEW r \in 0..d - 1,
         x = q * d + r
  PROVE  x \div d = q /\ x % d = r
<1> DEFINE p == x \div d
           s == x % d
<1>1. p \in Int /\ s \in 0..d - 1 /\ x = p * d + s
  BY Division
<1> HIDE DEF p, s
<1>2. (p - q) * d = p * d - q * d
  BY <1>1
<1>3. (p - q) * d = r - s
  BY <1>1, <1>2
<1>4. p - q = 0
  <2>1. p - q \in Int /\ (p - q) * d < d /\ -d < (p - q) * d
    BY <1>1, <1>3
  <2> QED BY <2>1, SmallMultiple
<1>5. p = q /\ s = r
  BY <1>1, <1>3, <1>4
<1> QED BY <1>5 DEF p, s

LEMMA Products ==
  ASSUME NEW a \in Int, NEW b \in Int, NEW c \in Int
  PROVE  (a * b) * c = a * (b * c) /\ a * b = b * a /\ (a + b) * c = a * c + b * c
OBVIOUS

LEMMA PreviousMultiple ==
  ASSUME NEW n \in Int, NEW b \in Int
  PROVE  (n - 1) * b = n * b - b
OBVIOUS

LEMMA PositiveProduct ==
  ASSUME NEW a \in Nat \ {0}, NEW b \in Nat \ {0}
  PROVE  a * b \in Nat \ {0}
OBVIOUS

LEMMA Bounded ==
  ASSUME NEW a \in Nat \ {0}, NEW b \in Nat \ {0}, NEW h \in 0..a - 1, NEW l \in 0..b - 1
  PROVE  h * b + l \in 0..(a * b) - 1
<1>1. h * b <= (a - 1) * b
  OBVIOUS
<1>2. (a - 1) * b = a * b - b
  OBVIOUS
<1>3. h * b \in Nat /\ a * b \in Nat
  OBVIOUS
<1> QED BY <1>1, <1>2, <1>3

(* Dividing twice; the rest of a division by a product.                    *)
LEMMA TwoDivisions ==
  ASSUME NEW x \in Int, NEW a \in Nat \ {0}, NEW b \in Nat \ {0}
  PROVE  /\ (x \div b) \div a = x \div (a * b)
         /\ x % (a * b) = ((x \div b) % a) * b + (x % b)
<1> DEFINE y == x \div b
           l == x % b
           q == y \div a
           h == y % a
<1>1. y \in Int /\ l \in 0..b - 1 /\ x = y * b + l
  BY Division
<1>2. q \in Int /\ h \in 0..a - 1 /\ y = q * a + h
  BY <1>1, Division
<1> HIDE DEF y, l, q, h
<1>3. a * b \in Nat \ {0} /\ h * b + l \in 0..(a * b) - 1
  BY <1>1, <1>2, PositiveProduct, Bounded
<1>4. x = q * (a * b) + (h * b + l)
  <2>1. y * b = (q * a) * b + h * b
    <3>1. q * a \in Int /\ h \in Int /\ b \in Int
      BY <1>2
    <3> DEFINE c == q * a
    <3> HIDE DEF c
    <3>2. (c + h) * b = c * b + h * b
      BY <3>1, Products DEF c
    <3> QED BY <3>2, <1>2 DEF c
  <2>2. (q * a) * b = q * (a * b)
    BY <1>2, Products
  <2>3. h * b \in Int /\ q * (a * b) \in Int
    BY <1>2, <1>3
  <2> QED BY <2>1, <2>2, <2>3, <1>1
<1> DEFINE d == a * b
           r == h * b + l
<1>5. d \in Nat \ {0} /\ r \in 0..d - 1 /\ x = q * d + r
  BY <1>3, <1>4
<1> HIDE DEF d, r
<1>6. x \div d = q /\ x % d = r
  BY <1>5, <1>2, DivisionUnique
<1>7. y \div a = x \div d
  BY <1>6 DEF q
<1>8. x % d = h * b + l
  BY <1>6 DEF r
<1> QED BY <1>7, <1>8, Zenon DEF d, y, l, h

-----------------------------------------------------------------------------
(* Bytes.                                                                  *)

LEMMA CapacityProduct ==
  ASSUME NEW a \in Nat, NEW b \in Nat
  PROVE  Capacity(a + b) = Capacity(a) * Capacity(b)
<1>1. a * ByteBits \in Nat /\ b * ByteBits \in Nat /\ (a + b) * ByteBits = a * ByteBits + b * ByteBits
  BY ByteBitsAssumption
<1> QED BY <1>1, PowerSum DEF Capacity

LEMMA CapacityZero == Capacity(0) = 1
<1>1. 0 * ByteBits = 0
  BY ByteBitsAssumption
<1> QED BY <1>1, PowerZero DEF Capacity

LEMMA CapacityOfOne == Capacity(1) >= 4 /\ Bytes \subseteq Nat
<1>1. 2^2 = 4
  <2>1. 2^(1 + 1) = 2 * 2^1 /\ 2^(0 + 1) = 2 * 2^0
    BY PowerPositive
  <2> QED BY <2>1, PowerZero
<1>2. 2^2 <= 2^ByteBits
  <2>1. ByteBits \in Nat /\ 2 \in Nat /\ 2 <= ByteBits
    BY ByteBitsAssumption
  <2> QED BY <2>1, PowerMonotonic
<1>3. 1 * ByteBits = ByteBits /\ 2^ByteBits \in Nat
  BY ByteBitsAssumption, PowerPositive
<1> QED BY <1>1, <1>2, <1>3 DEF Capacity, Bytes

LEMMA WiderSequence ==
  ASSUME NEW A, NEW B, A \subseteq B, NEW s \in Seq(A)
  PROVE  s \in Seq(B)
<1>1. s \in [1..Len(s) -> B] /\ Len(s) \in Nat
  OBVIOUS
<1> QED BY <1>1

LEMMA BytesAreNumbers ==
  ASSUME NEW s \in Seq(Bytes)
  PROVE  s \in Seq(Nat)
BY CapacityOfOne, WiderSequence

LEMMA CapacityMonotonic ==
  ASSUME NEW a \in Nat, NEW b \in Nat, a <= b
  PROVE  Capacity(a) <= Capacity(b)
<1>1. a * ByteBits \in Nat /\ b * ByteBits \in Nat /\ a * ByteBits <= b * ByteBits
  BY ByteBitsAssumption
<1> QED BY <1>1, PowerMonotonic DEF Capacity

LEMMA ToBytesType ==
  ASSUME NEW x \in Int, NEW n \in Nat, NEW e
  PROVE  /\ ToBytes(x, n, e) \in Seq(Bytes)
         /\ Len(ToBytes(x, n, e)) = n
         /\ DOMAIN ToBytes(x, n, e) = 1..n
<1>1. ASSUME NEW k \in Nat PROVE (x \div Capacity(k)) % Capacity(1) \in Bytes
  <2>1. Capacity(k) \in Nat \ {0} /\ Capacity(1) \in Nat \ {0}
    BY CapacityFacts
  <2>2. x \div Capacity(k) \in Int
    BY <2>1, Division
  <2> QED BY <2>1, <2>2, Division DEF Bytes
<1>2. \A i \in 1..n : i - 1 \in Nat /\ n - i \in Nat
  OBVIOUS
<1>3. ToBytes(x, n, e) \in [1..n -> Bytes]
  BY <1>1, <1>2 DEF ToBytes
<1> QED BY <1>3

(* A number that fits is read back as it was written.                      *)
LEMMA FromToBytes ==
  ASSUME NEW x \in Int, NEW n \in Nat, NEW e \in Endiannesses
  PROVE  FromBytes(ToBytes(x, n, e), e) = x % Capacity(n)
<1> DEFINE bytes == ToBytes(x, n, e)
           o == Ordered(bytes, e)
           C(i) == Capacity(i)
<1>1. bytes \in Seq(Bytes) /\ Len(bytes) = n /\ bytes \in Seq(Nat)
  BY ToBytesType, BytesAreNumbers
<1>2. \A i \in 1..n : o[i] = (x \div Capacity(n - i)) % Capacity(1)
  <2>1. CASE e = "big"
    BY <2>1 DEF Ordered, ToBytes
  <2>2. CASE e = "little"
    <3>1. ASSUME NEW i \in 1..n
          PROVE  Reverse(bytes)[i] = (x \div Capacity(n - i)) % Capacity(1)
      <4>1. n - i + 1 \in 1..n /\ (n - i + 1) - 1 = n - i
        OBVIOUS
      <4>2. Reverse(bytes)[i] = bytes[n - i + 1]
        BY <1>1 DEF Reverse
      <4>3. bytes[n - i + 1] = (x \div Capacity((n - i + 1) - 1)) % Capacity(1)
        BY <2>2, <4>1 DEF ToBytes
      <4> QED BY <4>1, <4>2, <4>3
    <3>2. o = Reverse(bytes)
      BY <2>2 DEF Ordered
    <3> QED BY <3>1, <3>2
  <2> QED BY <2>1, <2>2 DEF Endiannesses
<1> HIDE DEF bytes
<1>3. PICK v : ValueChain(v, o) /\ FromBytes(bytes, e) = v[Len(o)]
  BY <1>1, FromBytesChain
<1>4. Len(o) = n
  BY <1>1, FromBytesChain
<1> HIDE DEF o
<1> DEFINE S == {i \in 0..n : v[i] = (x \div Capacity(n - i)) % Capacity(i)}
<1>5. 0 \in S
  <2>1. v[0] = 0 /\ Capacity(0) = 1
    BY <1>3, CapacityZero DEF ValueChain
  <2>2. (x \div Capacity(n)) \in Int
    BY CapacityFacts, Division
  <2>3. (x \div Capacity(n)) % 1 = 0
    BY <2>2, Division
  <2> QED BY <2>1, <2>3
<1>6. ASSUME NEW i \in 1..n, i - 1 \in S PROVE i \in S
  <2> DEFINE a == Capacity(i - 1)
             b == Capacity(1)
             y == x \div Capacity(n - i)
  <2>1. i - 1 \in Nat /\ n - i \in Nat /\ i \in Nat /\ i \in 0..n
    OBVIOUS
  <2>2. a \in Nat \ {0} /\ b \in Nat \ {0} /\ y \in Int
    BY <2>1, CapacityFacts, Division
  <2>3. Capacity(i) = a * b
    <3>1. (i - 1) + 1 = i
      OBVIOUS
    <3> QED BY <2>1, <3>1, CapacityProduct
  <2>4. y \div b = x \div Capacity(n - (i - 1))
    <3>1. Capacity(n - (i - 1)) = b * Capacity(n - i)
      <4>1. n - (i - 1) = 1 + (n - i)
        OBVIOUS
      <4> QED BY <2>1, <4>1, CapacityProduct
    <3>2. Capacity(n - i) \in Nat \ {0}
      BY <2>1, CapacityFacts
    <3>3. (x \div Capacity(n - i)) \div b = x \div (b * Capacity(n - i))
      <4> HIDE DEF b
      <4> QED BY <2>2, <3>2, TwoDivisions
    <3> QED BY <3>1, <3>3
  <2>5. v[i] = v[i - 1] * b + o[i]
    BY <1>3, <1>4 DEF ValueChain
  <2>6. v[i - 1] = (y \div b) % a
    BY <1>6, <2>4
  <2>7. o[i] = y % b
    BY <1>2
  <2> HIDE DEF a, b, y
  <2>8. (y % (a * b)) = ((y \div b) % a) * b + (y % b)
    BY <2>2, TwoDivisions
  <2>9. v[i] = y % (a * b)
    BY <2>5, <2>6, <2>7, <2>8
  <2> QED BY <2>1, <2>3, <2>9 DEF y
<1> HIDE DEF S
<1>7. n \in S
  <2>1. 0..n \subseteq S
    BY <1>5, <1>6, InductionUpTo
  <2> QED BY <2>1
<1>8. v[n] = (x \div Capacity(0)) % Capacity(n)
  <2>1. n - n = 0
    OBVIOUS
  <2> QED BY <2>1, <1>7 DEF S
<1>9. x \div 1 = x
  BY DivisionUnique
<1> QED BY <1>3, <1>4, <1>8, <1>9, CapacityZero DEF bytes

LEMMA FromBytesType ==
  ASSUME NEW bytes \in Seq(Bytes), NEW e
  PROVE  FromBytes(bytes, e) \in 0..Capacity(Len(bytes)) - 1
<1> DEFINE o == Ordered(bytes, e)
           n == Len(bytes)
<1>1. bytes \in Seq(Nat) /\ n \in Nat
  BY BytesAreNumbers
<1>2. \A i \in 1..n : o[i] \in 0..Capacity(1) - 1
  <2>1. ASSUME NEW i \in 1..n PROVE o[i] \in Bytes
    <3>1. n - i + 1 \in 1..n
      BY <1>1
    <3> QED BY <3>1 DEF Ordered, Reverse
  <2> QED BY <2>1 DEF Bytes
<1>3. PICK v : ValueChain(v, o) /\ FromBytes(bytes, e) = v[Len(o)]
  BY <1>1, FromBytesChain
<1>4. Len(o) = n
  BY <1>1, FromBytesChain
<1> HIDE DEF o, n
<1> DEFINE S == {i \in 0..n : v[i] \in 0..Capacity(i) - 1}
<1>5. 0 \in S
  BY <1>1, <1>3, CapacityZero DEF ValueChain
<1>6. ASSUME NEW i \in 1..n, i - 1 \in S PROVE i \in S
  <2>1. i - 1 \in Nat /\ i \in 0..n
    BY <1>1
  <2>2. Capacity(i) = Capacity(i - 1) * Capacity(1)
    <3>1. (i - 1) + 1 = i
      BY <1>1
    <3> QED BY <2>1, <3>1, CapacityProduct
  <2>3. v[i] = v[i - 1] * Capacity(1) + o[i]
    BY <1>3, <1>4 DEF ValueChain
  <2>4. v[i - 1] \in 0..Capacity(i - 1) - 1
    BY <1>6
  <2> QED BY <2>1, <2>2, <2>3, <2>4, <1>2, CapacityFacts, Bounded
<1> HIDE DEF S
<1>7. 0..n \subseteq S
  BY <1>1, <1>5, <1>6, InductionUpTo
<1>8. n \in S
  BY <1>1, <1>7
<1> QED BY <1>8, <1>3, <1>4 DEF S, n

LEMMA SmallRemainder ==
  ASSUME NEW x \in Nat, NEW d \in Nat \ {0}, x < d
  PROVE  x % d = x
<1>1. 0 \in Int /\ x \in Int /\ x \in 0..d - 1 /\ x = 0 * d + x
  OBVIOUS
<1> QED BY <1>1, DivisionUnique

-----------------------------------------------------------------------------
(* Reading from a buffer: one word.                                        *)

(* Sequences.                                                              *)
LEMMA SameSequence ==
  ASSUME NEW A, NEW s \in Seq(A), NEW t \in Seq(A), Len(s) = Len(t),
         \A i \in 1..Len(s) : s[i] = t[i]
  PROVE  s = t
OBVIOUS

LEMMA Concatenation ==
  ASSUME NEW A, NEW s \in Seq(A), NEW t \in Seq(A)
  PROVE  /\ s \o t \in Seq(A) /\ Len(s \o t) = Len(s) + Len(t)
         /\ \A i \in 1..Len(s) : (s \o t)[i] = s[i]
         /\ \A i \in 1..Len(t) : (s \o t)[Len(s) + i] = t[i]
OBVIOUS

LEMMA Part ==
  ASSUME NEW A, NEW s \in Seq(A), NEW m \in Nat, NEW n \in Nat, m + n <= Len(s)
  PROVE  /\ SubSeq(s, m + 1, m + n) \in Seq(A) /\ Len(SubSeq(s, m + 1, m + n)) = n
         /\ \A i \in 1..n : SubSeq(s, m + 1, m + n)[i] = s[m + i]
<1>1. ASSUME NEW i \in (m + 1)..(m + n) PROVE s[i] \in A
  OBVIOUS
<1>2. (m + n) - (m + 1) + 1 = n
  OBVIOUS
<1> QED BY <1>1, <1>2

(* A part of a part; a part of a concatenation.                            *)
LEMMA PartOfPart ==
  ASSUME NEW A, NEW s \in Seq(A), NEW k \in Nat, NEW m \in Nat, NEW n \in Nat,
         m + n <= k, k <= Len(s)
  PROVE  SubSeq(SubSeq(s, 1, k), m + 1, m + n) = SubSeq(s, m + 1, m + n)
<1> DEFINE t == SubSeq(s, 1, k)
<1>1. t \in Seq(A) /\ Len(t) = k /\ \A i \in 1..k : t[i] = s[i]
  BY Part
<1> HIDE DEF t
<1>2. m + n <= Len(t) /\ m + n <= Len(s)
  BY <1>1
<1>3. /\ SubSeq(t, m + 1, m + n) \in Seq(A) /\ Len(SubSeq(t, m + 1, m + n)) = n
      /\ \A i \in 1..n : SubSeq(t, m + 1, m + n)[i] = t[m + i]
  BY <1>1, <1>2, Part
<1>4. /\ SubSeq(s, m + 1, m + n) \in Seq(A) /\ Len(SubSeq(s, m + 1, m + n)) = n
      /\ \A i \in 1..n : SubSeq(s, m + 1, m + n)[i] = s[m + i]
  BY <1>2, Part
<1>5. \A i \in 1..n : t[m + i] = s[m + i]
  BY <1>1
<1>6. SubSeq(t, m + 1, m + n) = SubSeq(s, m + 1, m + n)
  BY <1>3, <1>4, <1>5, SameSequence
<1> QED BY <1>6 DEF t

LEMMA PartOfFirst ==
  ASSUME NEW A, NEW s \in Seq(A), NEW t \in Seq(A), NEW m \in Nat, NEW n \in Nat,
         m + n <= Len(s)
  PROVE  SubSeq(s \o t, m + 1, m + n) = SubSeq(s, m + 1, m + n)
<1> DEFINE u == s \o t
<1>1. u \in Seq(A) /\ Len(u) = Len(s) + Len(t) /\ \A i \in 1..Len(s) : u[i] = s[i]
  BY Concatenation
<1> HIDE DEF u
<1>2. /\ SubSeq(u, m + 1, m + n) \in Seq(A) /\ Len(SubSeq(u, m + 1, m + n)) = n
      /\ \A i \in 1..n : SubSeq(u, m + 1, m + n)[i] = u[m + i]
  <2>1. m + n <= Len(u)
    BY <1>1
  <2> QED BY <1>1, <2>1, Part
<1>3. /\ SubSeq(s, m + 1, m + n) \in Seq(A) /\ Len(SubSeq(s, m + 1, m + n)) = n
      /\ \A i \in 1..n : SubSeq(s, m + 1, m + n)[i] = s[m + i]
  BY Part
<1>4. ASSUME NEW i \in 1..n PROVE u[m + i] = s[m + i]
  <2>1. m + i \in 1..Len(s)
    OBVIOUS
  <2> QED BY <2>1, <1>1
<1>5. SubSeq(u, m + 1, m + n) = SubSeq(s, m + 1, m + n)
  BY <1>2, <1>3, <1>4, SameSequence
<1> QED BY <1>5 DEF u

LEMMA PartOfSecond ==
  ASSUME NEW A, NEW s \in Seq(A), NEW t \in Seq(A), NEW m \in Nat, NEW n \in Nat,
         m + n <= Len(t)
  PROVE  SubSeq(s \o t, Len(s) + m + 1, Len(s) + m + n) = SubSeq(t, m + 1, m + n)
<1> DEFINE u == s \o t
           k == Len(s) + m
<1>1. /\ u \in Seq(A) /\ Len(u) = Len(s) + Len(t) /\ k \in Nat
      /\ \A i \in 1..Len(t) : u[Len(s) + i] = t[i]
  BY Concatenation
<1>2. k + n <= Len(u)
  BY <1>1
<1>3. \A i \in 1..n : u[k + i] = t[m + i]
  <2>1. \A i \in 1..n : m + i \in 1..Len(t) /\ k + i = Len(s) + (m + i)
    OBVIOUS
  <2> QED BY <2>1, <1>1
<1> HIDE DEF u, k
<1>4. /\ SubSeq(u, k + 1, k + n) \in Seq(A) /\ Len(SubSeq(u, k + 1, k + n)) = n
      /\ \A i \in 1..n : SubSeq(u, k + 1, k + n)[i] = u[k + i]
  BY <1>1, <1>2, Part
<1>5. /\ SubSeq(t, m + 1, m + n) \in Seq(A) /\ Len(SubSeq(t, m + 1, m + n)) = n
      /\ \A i \in 1..n : SubSeq(t, m + 1, m + n)[i] = t[m + i]
  BY Part
<1>6. SubSeq(u, k + 1, k + n) = SubSeq(t, m + 1, m + n)
  BY <1>3, <1>4, <1>5, SameSequence
<1> QED BY <1>6 DEF u, k

-----------------------------------------------------------------------------
(* Readers.                                                                *)
Values == Nat \cup Seq(Nat)

Readers ==
  [bytes : Seq(Bytes), endianness : Endiannesses, offset : Nat, valid : BOOLEAN,
   read : Seq(Values)]

WordAt(bytes, offset, e) == FromBytes(SubSeq(bytes, offset + 1, offset + 4), e)

LEMMA WordType ==
  ASSUME NEW bytes \in Seq(Bytes), NEW offset \in Nat, offset + 4 <= Len(bytes), NEW e
  PROVE  WordAt(bytes, offset, e) \in 0..Capacity(4) - 1
<1>1. /\ SubSeq(bytes, offset + 1, offset + 4) \in Seq(Bytes)
      /\ Len(SubSeq(bytes, offset + 1, offset + 4)) = 4
  BY Part
<1> QED BY <1>1, FromBytesType DEF WordAt

LEMMA InvalidStays ==
  ASSUME NEW r \in Readers
  PROVE  Invalid(r) \in Readers /\ ~Invalid(r).valid
BY DEF Readers, Invalid

LEMMA ReadEffect ==
  ASSUME NEW r \in Readers, NEW n \in Nat \ {0},
         NEW p, p = Padding(n, r.offset)
  PROVE  /\ p \in Nat
         /\ r.valid /\ r.offset + p + n <= Len(r.bytes) =>
              Read(r, n) = [r EXCEPT !.offset = r.offset + p + n,
                                     !.read = Append(r.read,
                                        FromBytes(SubSeq(r.bytes, r.offset + p + 1, r.offset + p + n),
                                                  r.endianness))]
         /\ ~(r.valid /\ r.offset + p + n <= Len(r.bytes)) => Read(r, n) = Invalid(r)
         /\ Read(r, n) \in Readers
<1>1. r.offset \in Nat /\ r.bytes \in Seq(Bytes) /\ Len(r.bytes) \in Nat /\ r.read \in Seq(Values)
      /\ r.valid \in BOOLEAN
  BY DEF Readers
<1>2. p \in Nat
  <2> DEFINE m == -r.offset
  <2>1. m \in Int
    BY <1>1
  <2>2. p = m % n
    BY DEF Padding
  <2> HIDE DEF m
  <2> QED BY <2>1, <2>2, Division
<1>3. Requires(r, p + n) <=> r.valid /\ r.offset + p + n <= Len(r.bytes)
  BY <1>1, <1>2 DEF Requires
<1>4. CASE Requires(r, p + n)
  <2> DEFINE part == SubSeq(r.bytes, r.offset + p + 1, r.offset + p + n)
             aligned == [r EXCEPT !.offset = r.offset + p]
  <2>1. part \in Seq(Bytes)
    <3>1. r.offset + p \in Nat /\ (r.offset + p) + n <= Len(r.bytes)
      BY <1>1, <1>2, <1>3, <1>4
    <3> QED BY <3>1, <1>1, Part
  <2>2. FromBytes(part, r.endianness) \in Values
    <3>1. Len(part) \in Nat
      BY <2>1
    <3> HIDE DEF part
    <3>2. FromBytes(part, r.endianness) \in 0..Capacity(Len(part)) - 1
      BY <2>1, FromBytesType
    <3> QED BY <3>1, <3>2, CapacityFacts DEF Values
  <2>3. Slice(aligned, n) = part
    BY <1>1, <1>2 DEF Slice, Readers
  <2>4. Read(r, n) = [r EXCEPT !.offset = r.offset + p + n,
                               !.read = Append(r.read, FromBytes(part, r.endianness))]
    <3>1. Read(r, n) = [aligned EXCEPT !.offset = aligned.offset + n,
                           !.read = Append(aligned.read, FromBytes(Slice(aligned, n), r.endianness))]
      BY <1>4 DEF Read
    <3> HIDE DEF part
    <3> QED BY <3>1, <2>3 DEF Readers
  <2> HIDE DEF part
  <2>5. Append(r.read, FromBytes(part, r.endianness)) \in Seq(Values)
    BY <1>1, <2>2
  <2>6. Read(r, n) \in Readers
    <3>1. r.offset + p + n \in Nat
      BY <1>1, <1>2
    <3> QED BY <3>1, <2>4, <2>5 DEF Readers
  <2> QED BY <1>2, <1>3, <1>4, <2>4, <2>6 DEF part
<1>5. CASE ~Requires(r, p + n)
  <2>1. Read(r, n) = Invalid(r)
    BY <1>5 DEF Read
  <2> QED BY <1>2, <1>3, <1>5, <2>1, InvalidStays
<1> QED BY <1>4, <1>5

LEMMA NoPadding ==
  ASSUME NEW o \in Nat, o % 4 = 0
  PROVE  Padding(4, o) = 0
<1>1. (-o) % 4 = 0
  OBVIOUS
<1> QED BY <1>1 DEF Padding

LEMMA ReadWord ==
  ASSUME NEW r \in Readers, r.offset % 4 = 0
  PROVE  /\ Read(r, 4) \in Readers
         /\ r.valid /\ r.offset + 4 <= Len(r.bytes) =>
              Read(r, 4) = [r EXCEPT !.offset = r.offset + 4,
                              !.read = Append(r.read, WordAt(r.bytes, r.offset, r.endianness))]
         /\ ~(r.valid /\ r.offset + 4 <= Len(r.bytes)) => Read(r, 4) = Invalid(r)
<1>1. r.offset \in Nat
  BY DEF Readers
<1> DEFINE p == Padding(4, r.offset)
<1>2. p = 0
  BY <1>1, NoPadding
<1>3. r.offset + p + 4 = r.offset + 4 /\ r.offset + p + 1 = r.offset + 1
  BY <1>1, <1>2
<1>4. /\ r.valid /\ r.offset + p + 4 <= Len(r.bytes) =>
           Read(r, 4) = [r EXCEPT !.offset = r.offset + p + 4,
                                  !.read = Append(r.read,
                                     FromBytes(SubSeq(r.bytes, r.offset + p + 1, r.offset + p + 4),
                                               r.endianness))]
      /\ ~(r.valid /\ r.offset + p + 4 <= Len(r.bytes)) => Read(r, 4) = Invalid(r)
      /\ Read(r, 4) \in Readers
  <2>1. 4 \in Nat \ {0} /\ p = Padding(4, r.offset)
    OBVIOUS
  <2> HIDE DEF p
  <2> QED BY <2>1, ReadEffect
<1> HIDE DEF p
<1> QED BY <1>3, <1>4 DEF WordAt

LEMMA NothingBefore ==
  ASSUME NEW A, NEW s \in Seq(A)
  PROVE  <<>> \o s = s
<1> DEFINE t == <<>>
<1>1. t \in Seq(A) /\ Len(t) = 0
  OBVIOUS
<1> HIDE DEF t
<1>2. t \o s \in Seq(A) /\ Len(t \o s) = Len(s) /\ \A i \in 1..Len(s) : (t \o s)[i] = s[i]
  <2>1. t \in Seq(A)
    BY <1>1
  <2>2. /\ t \o s \in Seq(A) /\ Len(t \o s) = Len(t) + Len(s)
        /\ \A i \in 1..Len(s) : (t \o s)[Len(t) + i] = s[i]
    BY <2>1, Concatenation
  <2> QED BY <1>1, <2>2
<1>3. t \o s = s
  BY <1>2, SameSequence
<1> QED BY <1>3 DEF t

-----------------------------------------------------------------------------
(* Reading several words is a fold of reads.                               *)

WordsAt(bytes, offset, n, e) ==
  [j \in 1..n |-> WordAt(bytes, offset + 4 * (j - 1), e)]

LEMMA FunctionIsSequence ==
  ASSUME NEW A, NEW n \in Nat, NEW f \in [1..n -> A]
  PROVE  f \in Seq(A) /\ Len(f) = n
OBVIOUS

LEMMA WordsType ==
  ASSUME NEW bytes \in Seq(Bytes), NEW offset \in Nat, NEW n \in Nat,
         offset + 4 * n <= Len(bytes), NEW e
  PROVE  /\ WordsAt(bytes, offset, n, e) \in Seq(0..Capacity(4) - 1)
         /\ WordsAt(bytes, offset, n, e) \in Seq(Values)
         /\ Len(WordsAt(bytes, offset, n, e)) = n
<1>1. ASSUME NEW j \in 1..n
      PROVE  WordAt(bytes, offset + 4 * (j - 1), e) \in 0..Capacity(4) - 1
  <2>1. offset + 4 * (j - 1) \in Nat /\ offset + 4 * (j - 1) + 4 <= Len(bytes)
    OBVIOUS
  <2> QED BY <2>1, WordType
<1>2. 0..Capacity(4) - 1 \subseteq Values
  BY CapacityFacts DEF Values
<1>3. WordsAt(bytes, offset, n, e) \in [1..n -> 0..Capacity(4) - 1]
  BY <1>1 DEF WordsAt
<1>4. WordsAt(bytes, offset, n, e) \in Seq(0..Capacity(4) - 1)
  BY <1>3, FunctionIsSequence
<1>5. Len(WordsAt(bytes, offset, n, e)) = n
  BY <1>3, FunctionIsSequence
<1> QED BY <1>2, <1>4, <1>5, WiderSequence

LEMMA OneMoreWord ==
  ASSUME NEW bytes \in Seq(Bytes), NEW offset \in Nat, NEW n \in Nat, NEW e,
         NEW s \in Seq(Values), offset + 4 * (n + 1) <= Len(bytes)
  PROVE  Append(s \o WordsAt(bytes, offset, n, e), WordAt(bytes, offset + 4 * n, e))
           = s \o WordsAt(bytes, offset, n + 1, e)
<1> DEFINE t == WordsAt(bytes, offset, n, e)
           u == WordsAt(bytes, offset, n + 1, e)
           w == WordAt(bytes, offset + 4 * n, e)
<1>1. t \in Seq(Values) /\ Len(t) = n
  <2>1. offset + 4 * n <= Len(bytes)
    OBVIOUS
  <2> QED BY <2>1, WordsType
<1>2. u \in Seq(Values) /\ Len(u) = n + 1
  BY WordsType
<1>3. \A i \in 1..n : t[i] = u[i]
  BY DEF WordsAt
<1>4. u[n + 1] = w
  <2>1. n + 1 \in 1..n + 1 /\ (n + 1) - 1 = n
    OBVIOUS
  <2> QED BY <2>1 DEF WordsAt
<1> HIDE DEF t, u, w
<1>5. w \in Values
  BY <1>2, <1>4
<1>6. s \o t \in Seq(Values) /\ Len(s \o t) = Len(s) + n
  BY <1>1
<1>7. Append(s \o t, w) \in Seq(Values) /\ Len(Append(s \o t, w)) = Len(s) + n + 1
  BY <1>5, <1>6
<1>8. s \o u \in Seq(Values) /\ Len(s \o u) = Len(s) + n + 1
  BY <1>2
<1>9. ASSUME NEW i \in 1..Len(s) + n + 1 PROVE Append(s \o t, w)[i] = (s \o u)[i]
  <2>1. CASE i <= Len(s)
    BY <2>1, <1>1, <1>2, <1>5
  <2>2. CASE i > Len(s) /\ i <= Len(s) + n
    <3>1. i - Len(s) \in 1..n
      BY <2>2
    <3> QED BY <3>1, <2>2, <1>1, <1>2, <1>3, <1>5
  <2>3. CASE i = Len(s) + n + 1
    BY <2>3, <1>1, <1>2, <1>4, <1>5, <1>6
  <2>4. i <= Len(s) \/ (i > Len(s) /\ i <= Len(s) + n) \/ i = Len(s) + n + 1
    <3>1. i \in Int /\ Len(s) \in Nat /\ i <= Len(s) + n + 1
      OBVIOUS
    <3> QED BY <3>1
  <2> QED BY <2>1, <2>2, <2>3, <2>4
<1>10. Append(s \o t, w) = s \o u
  BY <1>7, <1>8, <1>9, SameSequence
<1> QED BY <1>10 DEF t, u, w

LEMMA NextWord ==
  ASSUME NEW r \in Readers, NEW n \in Nat, r.offset + 4 * (n + 1) <= Len(r.bytes)
  PROVE  Append(r.read \o WordsAt(r.bytes, r.offset, n, r.endianness),
                WordAt(r.bytes, r.offset + 4 * n, r.endianness))
           = r.read \o WordsAt(r.bytes, r.offset, n + 1, r.endianness)
<1>1. r.offset \in Nat /\ r.bytes \in Seq(Bytes) /\ r.read \in Seq(Values)
  BY DEF Readers
<1> QED BY <1>1, OneMoreWord, Zenon

(* ReadWords as a chain of reads.                                          *)
ReadChain(v, r, count) ==
  /\ v[0] = r
  /\ \A i \in 1..count : v[i] = Read(v[i - 1], 4)

LEMMA ReadType ==
  ASSUME NEW r \in Readers, NEW n \in Nat \ {0}
  PROVE  Read(r, n) \in Readers
BY ReadEffect

LEMMA ReadWordType == \A r \in Readers : Read(r, 4) \in Readers
BY ReadType

LEMMA ReadWordsChain ==
  ASSUME NEW r \in Readers, NEW count \in Nat
  PROVE  \E v : ReadChain(v, r, count) /\ ReadWords(r, count) = v[count]
<1> DEFINE N == count
           H == [p \in (1..N) \X Readers |-> Read(p[2], 4)]
           F(h) == [s \in SUBSET (1..N) |->
                      IF s = {} THEN r ELSE Read(h[s \ {Max(s)}], 4)]
           iter == CHOOSE h : h = F(h)
           v == [i \in 0..N |-> iter[1..i]]
<1>1. DOMAIN Zeros(count) = 1..N
  BY DEF Zeros
<1>2. ReadWords(r, count) = iter[1..N]
  BY <1>1 DEF ReadWords, FoldLeft, MapThenFoldSet
<1>3. H \in [(1..N) \X Readers -> Readers]
  BY ReadType
<1>4. PICK g \in [SUBSET (1..N) -> Readers] : Iterates(g, N, r, H)
  BY <1>3, IterationExists
<1>5. g = F(g)
  <2>1. ASSUME NEW s \in SUBSET (1..N), s # {}
        PROVE  g[s] = Read(g[s \ {Max(s)}], 4)
    <3>1. Max(s) \in 1..N
      BY <2>1, MaxIsIn
    <3>2. g[s] = H[<<Max(s), g[s \ {Max(s)}]>>]
      BY <2>1, <1>4 DEF Iterates
    <3> QED BY <3>1, <3>2
  <2>2. g[{}] = r
    BY <1>4 DEF Iterates
  <2> QED BY <2>1, <2>2
<1>6. iter = F(iter)
  BY <1>5
<1> HIDE DEF iter
<1>7. ASSUME NEW i \in 1..N PROVE v[i] = Read(v[i - 1], 4)
  <2>1. Max(1..i) = i /\ (1..i) \ {i} = 1..(i - 1) /\ 1..i # {} /\ 1..i \in SUBSET (1..N)
    <3>1. i \in Nat \ {0} /\ i <= N /\ 1 \in 1..i
      OBVIOUS
    <3> QED BY <3>1, MaxOfRange
  <2>2. iter[1..i] = Read(iter[(1..i) \ {i}], 4)
    BY <2>1, <1>6
  <2>3. i \in 0..N /\ i - 1 \in 0..N
    OBVIOUS
  <2> QED BY <2>1, <2>2, <2>3
<1>8. v[0] = r
  <2>1. 1..0 = {} /\ 0 \in 0..N
    OBVIOUS
  <2> QED BY <2>1, <1>6
<1>9. v[N] = iter[1..N]
  OBVIOUS
<1> HIDE DEF v
<1> QED BY <1>2, <1>7, <1>8, <1>9 DEF ReadChain

(* Words are read from where the reader is, if there are so many.          *)
LEMMA ReadWordsEffect ==
  ASSUME NEW r \in Readers, NEW count \in Nat,
         r.valid => r.offset % 4 = 0 /\ r.offset <= Len(r.bytes)
  PROVE  /\ ReadWords(r, count) \in Readers
         /\ r.valid /\ r.offset + 4 * count <= Len(r.bytes) =>
              ReadWords(r, count) =
                [r EXCEPT !.offset = r.offset + 4 * count,
                          !.read = r.read \o WordsAt(r.bytes, r.offset, count, r.endianness)]
         /\ ~(r.valid /\ r.offset + 4 * count <= Len(r.bytes)) =>
              ~ReadWords(r, count).valid
<1> DEFINE Enough(i) == r.valid /\ r.offset + 4 * i <= Len(r.bytes)
           Read_(i) == [r EXCEPT !.offset = r.offset + 4 * i,
                          !.read = r.read \o WordsAt(r.bytes, r.offset, i, r.endianness)]
<1>1. PICK v : ReadChain(v, r, count) /\ ReadWords(r, count) = v[count]
  BY ReadWordsChain
<1>2. /\ r.offset \in Nat /\ r.bytes \in Seq(Bytes) /\ Len(r.bytes) \in Nat
      /\ r.read \in Seq(Values) /\ r.valid \in BOOLEAN
  BY DEF Readers
<1> DEFINE Good(i) == /\ v[i] \in Readers
                      /\ Enough(i) => v[i] = Read_(i)
                      /\ ~Enough(i) => ~v[i].valid
           S == {i \in 0..count : Good(i)}
<1>3. 0 \in S
  <2>1. v[0] = r
    BY <1>1 DEF ReadChain
  <2>2. WordsAt(r.bytes, r.offset, 0, r.endianness) = <<>>
    BY DEF WordsAt
  <2>3. Enough(0) => v[0] = Read_(0)
    <3>1. r.read \o <<>> = r.read /\ r.offset + 4 * 0 = r.offset
      BY <1>2
    <3> QED BY <2>1, <2>2, <3>1 DEF Readers
  <2>4. ~Enough(0) => ~r.valid
    BY <1>2
  <2> QED BY <2>1, <2>3, <2>4
<1>4. ASSUME NEW i \in 1..count, i - 1 \in S PROVE i \in S
  <2>1. v[i] = Read(v[i - 1], 4) /\ i - 1 \in Nat /\ i \in 0..count
    BY <1>1 DEF ReadChain
  <2>2. Good(i - 1)
    BY <1>4
  <2> HIDE DEF S
  <2>3. CASE Enough(i)
    <3>1. Enough(i - 1) /\ v[i - 1] = Read_(i - 1)
      BY <2>2, <2>3, <1>2
    <3> DEFINE o == r.offset + 4 * (i - 1)
               q == v[i - 1]
    <3>2. /\ q \in Readers /\ q.offset = o /\ q.valid /\ q.bytes = r.bytes
          /\ q.endianness = r.endianness
          /\ q.read = r.read \o WordsAt(r.bytes, r.offset, i - 1, r.endianness)
      BY <2>2, <3>1, <2>3 DEF Readers
    <3>3. o % 4 = 0 /\ o + 4 <= Len(r.bytes) /\ o + 4 = r.offset + 4 * i
      BY <1>2, <2>3
    <3>4. v[i] = [q EXCEPT !.offset = o + 4,
                           !.read = Append(q.read, WordAt(r.bytes, o, r.endianness))]
      <4> HIDE DEF o, q
      <4>1. v[i] = Read(q, 4)
        BY <2>1 DEF q
      <4> QED BY <4>1, <3>2, <3>3, ReadWord
    <3>5. Append(q.read, WordAt(r.bytes, o, r.endianness))
            = r.read \o WordsAt(r.bytes, r.offset, i, r.endianness)
      <4> DEFINE k == i - 1
      <4>1. k \in Nat /\ k + 1 = i /\ r.offset + 4 * (k + 1) <= Len(r.bytes)
        BY <2>3, <2>1
      <4> HIDE DEF k
      <4>2. Append(r.read \o WordsAt(r.bytes, r.offset, k, r.endianness),
                   WordAt(r.bytes, r.offset + 4 * k, r.endianness))
              = r.read \o WordsAt(r.bytes, r.offset, k + 1, r.endianness)
        BY <4>1, NextWord, Zenon
      <4> QED BY <4>1, <4>2, <3>2 DEF k
    <3>6. v[i] = Read_(i)
      <4>1. v[i] = [Read_(i - 1) EXCEPT !.offset = r.offset + 4 * i,
                       !.read = r.read \o WordsAt(r.bytes, r.offset, i, r.endianness)]
        BY <3>1, <3>3, <3>4, <3>5
      <4> QED BY <4>1 DEF Readers
    <3>7. v[i] \in Readers
      BY <2>1, <2>2, ReadWordType
    <3> QED BY <3>6, <3>7, <2>1, <2>3 DEF S
  <2>4. CASE ~Enough(i)
    <3>1. v[i - 1] \in Readers /\ v[i] \in Readers
      BY <2>1, <2>2, ReadWordType
    <3>2. ~v[i].valid
      <4>1. CASE Enough(i - 1)
        <5> DEFINE q == v[i - 1]
        <5>1. q.offset = r.offset + 4 * (i - 1) /\ q.bytes = r.bytes
          BY <4>1, <2>2 DEF Readers
        <5>2. q.offset % 4 = 0 /\ ~(q.offset + 4 <= Len(q.bytes))
          BY <5>1, <1>2, <2>4, <4>1
        <5> HIDE DEF q
        <5>3. Read(q, 4) = Invalid(q) /\ q \in Readers
          BY <5>2, <3>1, ReadWord DEF q
        <5> QED BY <5>3, <2>1, InvalidStays DEF q
      <4>2. CASE ~Enough(i - 1)
        <5>1. ~v[i - 1].valid
          BY <2>2, <4>2
        <5>2. Read(v[i - 1], 4) = Invalid(v[i - 1])
          BY <5>1 DEF Read, Requires
        <5> QED BY <5>2, <2>1, <3>1, InvalidStays
      <4> QED BY <4>1, <4>2
    <3> QED BY <3>1, <3>2, <2>1, <2>4 DEF S
  <2> QED BY <2>3, <2>4
<1> HIDE DEF S
<1>5. 0..count \subseteq S
  BY <1>3, <1>4, InductionUpTo
<1>6. Good(count)
  <2>1. count \in 0..count
    OBVIOUS
  <2> QED BY <2>1, <1>5 DEF S
<1> QED BY <1>1, <1>6

-----------------------------------------------------------------------------
(* Writing words is a fold of writes; what was written is read.            *)

LEMMA NoZeros == Zeros(0) = <<>>
BY DEF Zeros

LEMMA WriteWord ==
  ASSUME NEW data \in Seq(Bytes), Len(data) % 4 = 0, NEW x \in Int, NEW e
  PROVE  /\ Write(data, x, 4, e) = data \o ToBytes(x, 4, e)
         /\ Write(data, x, 4, e) \in Seq(Bytes)
         /\ Len(Write(data, x, 4, e)) = Len(data) + 4
<1>1. Padding(4, Len(data)) = 0
  <2>1. Len(data) \in Nat
    OBVIOUS
  <2> QED BY <2>1, NoPadding
<1>2. data \o <<>> = data
  OBVIOUS
<1>3. Write(data, x, 4, e) = data \o ToBytes(x, 4, e)
  BY <1>1, <1>2, NoZeros DEF Write
<1>4. ToBytes(x, 4, e) \in Seq(Bytes) /\ Len(ToBytes(x, 4, e)) = 4
  BY ToBytesType
<1>5. /\ data \o ToBytes(x, 4, e) \in Seq(Bytes)
      /\ Len(data \o ToBytes(x, 4, e)) = Len(data) + Len(ToBytes(x, 4, e))
  BY <1>4, Concatenation
<1> QED BY <1>3, <1>4, <1>5

LEMMA WriteType ==
  ASSUME NEW data \in Seq(Bytes), NEW x \in Int, NEW n \in Nat \ {0}, NEW e
  PROVE  Write(data, x, n, e) \in Seq(Bytes)
<1>1. ToBytes(x, n, e) \in Seq(Bytes)
  BY ToBytesType
<1>2. Padding(n, Len(data)) \in Nat
  <2> DEFINE m == -Len(data)
  <2>1. m \in Int
    OBVIOUS
  <2>2. Padding(n, Len(data)) = m % n
    BY DEF Padding
  <2> HIDE DEF m
  <2> QED BY <2>1, <2>2, Division
<1>3. Zeros(Padding(n, Len(data))) \in Seq(Bytes)
  <2> DEFINE k == Padding(n, Len(data))
  <2>1. k \in Nat
    BY <1>2
  <2> HIDE DEF k
  <2>2. 0 \in Bytes
    BY CapacityOfOne, CapacityFacts DEF Bytes
  <2>3. Zeros(k) \in [1..k -> Bytes]
    BY <2>2 DEF Zeros
  <2>4. Zeros(k) \in Seq(Bytes)
    BY <2>1, <2>3, FunctionIsSequence
  <2> QED BY <2>4 DEF k
<1> QED BY <1>1, <1>3 DEF Write

LEMMA WriteWordType ==
  ASSUME NEW values \in Seq(Int), NEW e
  PROVE  \A i \in 1..Len(values), data \in Seq(Bytes) :
            Write(data, values[i], 4, e) \in Seq(Bytes)
BY WriteType

WriteChain(v, data, values, e) ==
  /\ v[0] = data
  /\ \A i \in 1..Len(values) : v[i] = Write(v[i - 1], values[i], 4, e)

LEMMA WriteWordsChain ==
  ASSUME NEW data \in Seq(Bytes), NEW values \in Seq(Int), NEW e
  PROVE  \E v : WriteChain(v, data, values, e) /\ WriteWords(data, values, e) = v[Len(values)]
<1> DEFINE N == Len(values)
           V == Seq(Bytes)
           H == [p \in (1..N) \X V |-> Write(p[2], values[p[1]], 4, e)]
           F(h) == [s \in SUBSET (1..N) |->
                      IF s = {} THEN data ELSE Write(h[s \ {Max(s)}], values[Max(s)], 4, e)]
           iter == CHOOSE h : h = F(h)
           v == [i \in 0..N |-> iter[1..i]]
<1>1. DOMAIN values = 1..N /\ N \in Nat
  OBVIOUS
<1>2. WriteWords(data, values, e) = iter[1..N]
  BY <1>1 DEF WriteWords, FoldLeft, MapThenFoldSet
<1>3. H \in [(1..N) \X V -> V]
  BY WriteWordType
<1> HIDE DEF N
<1>4. PICK g \in [SUBSET (1..N) -> V] : Iterates(g, N, data, H)
  <2> HIDE DEF V, H
  <2>1. data \in V
    BY DEF V
  <2> QED BY <1>1, <1>3, <2>1, IterationExists
<1>5. g = F(g)
  <2>1. ASSUME NEW s \in SUBSET (1..N), s # {}
        PROVE  g[s] = Write(g[s \ {Max(s)}], values[Max(s)], 4, e)
    <3>1. Max(s) \in 1..N
      BY <2>1, <1>1, MaxIsIn
    <3>2. g[s] = H[<<Max(s), g[s \ {Max(s)}]>>]
      BY <2>1, <1>4 DEF Iterates
    <3>3. g[s \ {Max(s)}] \in V
      BY <1>4
    <3> QED BY <3>1, <3>2, <3>3
  <2>2. g[{}] = data
    BY <1>4 DEF Iterates
  <2> QED BY <2>1, <2>2
<1>6. iter = F(iter)
  BY <1>5
<1> HIDE DEF iter
<1>7. ASSUME NEW i \in 1..N PROVE v[i] = Write(v[i - 1], values[i], 4, e)
  <2>1. Max(1..i) = i /\ (1..i) \ {i} = 1..(i - 1) /\ 1..i # {} /\ 1..i \in SUBSET (1..N)
    <3>1. i \in Nat \ {0} /\ i <= N /\ 1 \in 1..i /\ 1..i \subseteq 1..N
      BY <1>1
    <3> QED BY <3>1, MaxOfRange
  <2>2. iter[1..i] = Write(iter[(1..i) \ {i}], values[i], 4, e)
    BY <2>1, <1>6
  <2>3. i \in 0..N /\ i - 1 \in 0..N
    BY <1>1
  <2> QED BY <2>1, <2>2, <2>3
<1>8. v[0] = data
  <2>1. 1..0 = {} /\ 0 \in 0..N
    BY <1>1
  <2> QED BY <2>1, <1>6
<1>9. v[N] = iter[1..N]
  BY <1>1
<1> HIDE DEF v
<1> QED BY <1>2, <1>7, <1>8, <1>9 DEF WriteChain, N

(* Words follow what has been written, in their order.                     *)
WordsFollow(w, data, values, n, e) ==
  /\ w \in Seq(Bytes) /\ Len(w) = Len(data) + 4 * n
  /\ SubSeq(w, 1, Len(data)) = data
  /\ \A j \in 1..n :
       SubSeq(w, Len(data) + 4 * (j - 1) + 1, Len(data) + 4 * (j - 1) + 4) = ToBytes(values[j], 4, e)

LEMMA WholePart ==
  ASSUME NEW A, NEW s \in Seq(A)
  PROVE  SubSeq(s, 1, Len(s)) = s
<1>1. /\ SubSeq(s, 0 + 1, 0 + Len(s)) \in Seq(A) /\ Len(SubSeq(s, 0 + 1, 0 + Len(s))) = Len(s)
      /\ \A i \in 1..Len(s) : SubSeq(s, 0 + 1, 0 + Len(s))[i] = s[0 + i]
  BY Part
<1>2. 0 + 1 = 1 /\ 0 + Len(s) = Len(s) /\ \A i \in 1..Len(s) : 0 + i = i
  OBVIOUS
<1> QED BY <1>1, <1>2, SameSequence

LEMMA FirstOfConcatenation ==
  ASSUME NEW A, NEW s \in Seq(A), NEW t \in Seq(A), NEW n \in Nat, n <= Len(s)
  PROVE  SubSeq(s \o t, 1, n) = SubSeq(s, 1, n)
<1>1. 0 \in Nat /\ 0 + n <= Len(s) /\ 0 + n = n /\ 0 + 1 = 1
  OBVIOUS
<1>2. SubSeq(s \o t, 0 + 1, 0 + n) = SubSeq(s, 0 + 1, 0 + n)
  BY <1>1, PartOfFirst
<1> QED BY <1>1, <1>2

LEMMA EndOfConcatenation ==
  ASSUME NEW A, NEW s \in Seq(A), NEW t \in Seq(A)
  PROVE  SubSeq(s \o t, Len(s) + 1, Len(s) + Len(t)) = t
<1> DEFINE u == s \o t
           k == Len(s)
           n == Len(t)
<1>1. u \in Seq(A) /\ k \in Nat /\ n \in Nat /\ Len(u) = k + n /\ \A i \in 1..n : u[k + i] = t[i]
  BY Concatenation
<1> HIDE DEF u, k, n
<1>2. /\ SubSeq(u, k + 1, k + n) \in Seq(A) /\ Len(SubSeq(u, k + 1, k + n)) = n
      /\ \A i \in 1..n : SubSeq(u, k + 1, k + n)[i] = u[k + i]
  BY <1>1, Part
<1>3. Len(t) = n
  BY DEF n
<1>4. SubSeq(u, k + 1, k + n) = t
  BY <1>1, <1>2, <1>3, SameSequence
<1> QED BY <1>4 DEF u, k, n

LEMMA OneMoreWritten ==
  ASSUME NEW w, NEW data \in Seq(Bytes), Len(data) % 4 = 0, NEW values \in Seq(Int), NEW e,
         NEW n \in Nat, n < Len(values), WordsFollow(w, data, values, n, e)
  PROVE  WordsFollow(Write(w, values[n + 1], 4, e), data, values, n + 1, e)
<1> DEFINE word == ToBytes(values[n + 1], 4, e)
           u == Write(w, values[n + 1], 4, e)
           d == Len(data)
<1>1. w \in Seq(Bytes) /\ Len(w) = d + 4 * n /\ d \in Nat /\ values[n + 1] \in Int
  BY DEF WordsFollow
<1>2. Len(w) % 4 = 0
  BY <1>1
<1>3. u = w \o word /\ u \in Seq(Bytes) /\ Len(u) = d + 4 * (n + 1)
  <2>1. u = w \o word /\ u \in Seq(Bytes) /\ Len(u) = Len(w) + 4
    BY <1>1, <1>2, WriteWord, Zenon
  <2> HIDE DEF u, word
  <2> QED BY <1>1, <2>1
<1>4. word \in Seq(Bytes) /\ Len(word) = 4
  BY <1>1, ToBytesType
<1> HIDE DEF word, u, d
<1>5. SubSeq(u, 1, d) = data
  <2>1. d <= Len(w)
    BY <1>1
  <2>2. SubSeq(w \o word, 1, d) = SubSeq(w, 1, d)
    BY <1>1, <1>4, <2>1, FirstOfConcatenation
  <2> QED BY <2>2, <1>3 DEF WordsFollow, d
<1>6. ASSUME NEW j \in 1..n
      PROVE  SubSeq(u, d + 4 * (j - 1) + 1, d + 4 * (j - 1) + 4) = ToBytes(values[j], 4, e)
  <2> DEFINE m == d + 4 * (j - 1)
  <2>1. m \in Nat /\ m + 4 <= Len(w)
    BY <1>1
  <2>2. SubSeq(w, m + 1, m + 4) = ToBytes(values[j], 4, e)
    BY DEF WordsFollow, d
  <2> HIDE DEF m
  <2>3. SubSeq(w \o word, m + 1, m + 4) = SubSeq(w, m + 1, m + 4)
    BY <1>1, <1>4, <2>1, PartOfFirst
  <2> QED BY <2>2, <2>3, <1>3 DEF m
<1>7. SubSeq(u, d + 4 * n + 1, d + 4 * n + 4) = word
  <2>1. SubSeq(w \o word, Len(w) + 1, Len(w) + Len(word)) = word
    BY <1>1, <1>4, EndOfConcatenation
  <2> QED BY <2>1, <1>1, <1>3, <1>4
<1>8. ASSUME NEW j \in 1..n + 1
      PROVE  SubSeq(u, d + 4 * (j - 1) + 1, d + 4 * (j - 1) + 4) = ToBytes(values[j], 4, e)
  <2>1. CASE j = n + 1
    <3>1. j - 1 = n
      BY <2>1
    <3> QED BY <3>1, <2>1, <1>7 DEF word
  <2>2. CASE j # n + 1
    <3>1. j \in 1..n
      BY <2>2
    <3> QED BY <3>1, <1>6
  <2> QED BY <2>1, <2>2
<1> QED BY <1>3, <1>5, <1>8 DEF WordsFollow, u, d

LEMMA WriteWordsEffect ==
  ASSUME NEW data \in Seq(Bytes), Len(data) % 4 = 0, NEW values \in Seq(Int), NEW e
  PROVE  WordsFollow(WriteWords(data, values, e), data, values, Len(values), e)
<1>1. PICK v : WriteChain(v, data, values, e) /\ WriteWords(data, values, e) = v[Len(values)]
  BY WriteWordsChain
<1> DEFINE N == Len(values)
           S == {i \in 0..N : WordsFollow(v[i], data, values, i, e)}
<1>2. N \in Nat /\ N \in 0..N
  OBVIOUS
<1>3. 0 \in S
  <2>1. v[0] = data
    BY <1>1 DEF WriteChain
  <2>2. SubSeq(data, 1, Len(data)) = data
    BY WholePart
  <2>3. WordsFollow(data, data, values, 0, e)
    BY <2>2 DEF WordsFollow
  <2> QED BY <2>1, <2>3, <1>2
<1>4. ASSUME NEW i \in 1..N, i - 1 \in S PROVE i \in S
  <2> DEFINE k == i - 1
  <2>1. k \in Nat /\ k < Len(values) /\ k + 1 = i /\ i \in 0..N
    BY <1>2
  <2>2. WordsFollow(v[k], data, values, k, e)
    BY <1>4
  <2>3. v[i] = Write(v[k], values[i], 4, e)
    BY <1>1 DEF WriteChain
  <2> HIDE DEF k, S
  <2>4. WordsFollow(Write(v[k], values[k + 1], 4, e), data, values, k + 1, e)
    BY <2>1, <2>2, OneMoreWritten
  <2> QED BY <2>1, <2>3, <2>4 DEF S
<1> HIDE DEF S
<1>5. 0..N \subseteq S
  BY <1>2, <1>3, <1>4, InductionUpTo
<1> QED BY <1>1, <1>2, <1>5 DEF S

(* ... and are read back as they were, as far as they fit.                 *)
LEMMA WordsSurvive ==
  ASSUME NEW data \in Seq(Bytes), Len(data) % 4 = 0, NEW values \in Seq(Int),
         NEW e \in Endiannesses, NEW j \in 1..Len(values)
  PROVE  WordAt(WriteWords(data, values, e), Len(data) + 4 * (j - 1), e)
           = values[j] % Capacity(4)
<1>1. SubSeq(WriteWords(data, values, e), Len(data) + 4 * (j - 1) + 1, Len(data) + 4 * (j - 1) + 4)
        = ToBytes(values[j], 4, e)
  BY WriteWordsEffect DEF WordsFollow
<1>2. values[j] \in Int
  OBVIOUS
<1> QED BY <1>1, <1>2, FromToBytes DEF WordAt

-----------------------------------------------------------------------------
(* What a reader finds at a place of the buffer.                           *)

LEMMA ReaderType ==
  ASSUME NEW c \in Seq(Bytes), NEW e \in Endiannesses
  PROVE  Reader(c, e) \in Readers
BY DEF Reader, Readers

LEMMA ReadBytesEffect ==
  ASSUME NEW r \in Readers, NEW count \in Nat
  PROVE  /\ r.valid /\ r.offset + count <= Len(r.bytes) =>
              /\ ReadBytes(r, count) =
                   [r EXCEPT !.offset = r.offset + count,
                             !.read = Append(r.read,
                                SubSeq(r.bytes, r.offset + 1, r.offset + count))]
              /\ SubSeq(r.bytes, r.offset + 1, r.offset + count) \in Seq(Bytes)
              /\ Len(SubSeq(r.bytes, r.offset + 1, r.offset + count)) = count
         /\ ~(r.valid /\ r.offset + count <= Len(r.bytes)) => ReadBytes(r, count) = Invalid(r)
         /\ ReadBytes(r, count) \in Readers
<1>1. r.offset \in Nat /\ r.bytes \in Seq(Bytes) /\ Len(r.bytes) \in Nat /\ r.read \in Seq(Values)
  BY DEF Readers
<1>2. Requires(r, count) <=> r.valid /\ r.offset + count <= Len(r.bytes)
  BY <1>1 DEF Requires
<1>3. CASE Requires(r, count)
  <2> DEFINE part == SubSeq(r.bytes, r.offset + 1, r.offset + count)
  <2>1. part \in Seq(Bytes) /\ Len(part) = count
    BY <1>1, <1>2, <1>3, Part
  <2>2. part \in Values
    BY <2>1, BytesAreNumbers DEF Values
  <2>3. ReadBytes(r, count) = [r EXCEPT !.offset = r.offset + count, !.read = Append(r.read, part)]
    BY <1>3 DEF ReadBytes, Slice, Readers
  <2> HIDE DEF part
  <2>4. ReadBytes(r, count) \in Readers
    <3>1. Append(r.read, part) \in Seq(Values) /\ r.offset + count \in Nat
      BY <1>1, <2>2
    <3> QED BY <3>1, <2>3 DEF Readers
  <2> QED BY <1>2, <1>3, <2>1, <2>3, <2>4 DEF part
<1>4. CASE ~Requires(r, count)
  <2>1. ReadBytes(r, count) = Invalid(r)
    BY <1>4 DEF ReadBytes
  <2> QED BY <1>2, <1>4, <2>1, InvalidStays
<1> QED BY <1>3, <1>4

(* A valid reader, by its parts.                                           *)
At(c, e, offset, read) ==
  [bytes |-> c, endianness |-> e, offset |-> offset, valid |-> TRUE, read |-> read]

LEMMA AtType ==
  ASSUME NEW c \in Seq(Bytes), NEW e \in Endiannesses, NEW offset \in Nat,
         NEW read \in Seq(Values)
  PROVE  At(c, e, offset, read) \in Readers
BY DEF At, Readers

LEMMA BytesRead ==
  ASSUME NEW c \in Seq(Bytes), NEW e \in Endiannesses, NEW offset \in Nat,
         NEW read \in Seq(Values), NEW count \in Nat, offset + count <= Len(c)
  PROVE  LET part == SubSeq(c, offset + 1, offset + count) IN
         /\ ReadBytes(At(c, e, offset, read), count)
              = At(c, e, offset + count, Append(read, part))
         /\ part \in Seq(Bytes) /\ Len(part) = count /\ part \in Values
<1> DEFINE r == At(c, e, offset, read)
           start == offset + 1
           end == offset + count
<1>1. r \in Readers
  BY AtType
<1>2. /\ r.offset = offset /\ r.bytes = c /\ r.valid /\ r.read = read /\ r.endianness = e
      /\ r = At(c, e, offset, read)
  BY DEF At
<1> HIDE DEF r
<1>3. /\ ReadBytes(r, count) = [r EXCEPT !.offset = end, !.read = Append(read, SubSeq(c, start, end))]
      /\ SubSeq(c, start, end) \in Seq(Bytes) /\ Len(SubSeq(c, start, end)) = count
  BY <1>1, <1>2, ReadBytesEffect
<1>4. SubSeq(c, start, end) \in Values
  BY <1>3, BytesAreNumbers DEF Values
<1>5. ReadBytes(r, count) = At(c, e, end, Append(read, SubSeq(c, start, end)))
  BY <1>2, <1>3 DEF At
<1> QED BY <1>2, <1>3, <1>4, <1>5

LEMMA Appended ==
  ASSUME NEW A, NEW s \in Seq(A), NEW b \in A
  PROVE  /\ Append(s, b) \in Seq(A) /\ Len(Append(s, b)) = Len(s) + 1
         /\ Append(s, b)[Len(s) + 1] = b
         /\ \A i \in 1..Len(s) : Append(s, b)[i] = s[i]
OBVIOUS

LEMMA TwoElements ==
  ASSUME NEW A, NEW a \in A, NEW b \in A
  PROVE  Append(Append(<<>>, a), b) = <<a, b>> /\ <<a, b>> \in Seq(A)
<1> DEFINE s == Append(<<>>, a)
           t == Append(s, b)
           u == <<a, b>>
<1>1. s \in Seq(A) /\ Len(s) = 1 /\ s[1] = a
  OBVIOUS
<1> HIDE DEF s
<1>2. t \in Seq(A) /\ Len(t) = 2 /\ t[1] = a /\ t[2] = b
  <2>1. /\ t \in Seq(A) /\ Len(t) = Len(s) + 1 /\ t[Len(s) + 1] = b
        /\ \A i \in 1..Len(s) : t[i] = s[i]
    BY <1>1, Appended
  <2>2. t[1] = s[1]
    BY <1>1, <2>1
  <2> QED BY <1>1, <2>1, <2>2
<1>3. u \in Seq(A) /\ Len(u) = 2 /\ u[1] = a /\ u[2] = b
  OBVIOUS
<1> HIDE DEF t, u
<1>4. t = u
  BY <1>2, <1>3, SameSequence
<1> QED BY <1>3, <1>4 DEF s, t, u

(* Reading numbers of several sizes, as a chain.                           *)
LEMMA ReadSizesChain ==
  ASSUME NEW r \in Readers, NEW sizes \in Seq(Nat \ {0})
  PROVE  \E v : /\ v[0] = r
                /\ \A i \in 1..Len(sizes) : v[i] = Read(v[i - 1], sizes[i])
                /\ FoldLeft(Read, r, sizes) = v[Len(sizes)]
<1> DEFINE N == Len(sizes)
           H == [p \in (1..N) \X Readers |-> Read(p[2], sizes[p[1]])]
           F(h) == [s \in SUBSET (1..N) |->
                      IF s = {} THEN r ELSE Read(h[s \ {Max(s)}], sizes[Max(s)])]
           iter == CHOOSE h : h = F(h)
           v == [i \in 0..N |-> iter[1..i]]
<1>1. DOMAIN sizes = 1..N /\ N \in Nat
  OBVIOUS
<1>2. FoldLeft(Read, r, sizes) = iter[1..N]
  BY <1>1 DEF FoldLeft, MapThenFoldSet
<1>3. H \in [(1..N) \X Readers -> Readers]
  BY ReadType
<1> HIDE DEF N
<1>4. PICK g \in [SUBSET (1..N) -> Readers] : Iterates(g, N, r, H)
  <2> HIDE DEF H
  <2> QED BY <1>1, <1>3, IterationExists
<1>5. g = F(g)
  <2>1. ASSUME NEW s \in SUBSET (1..N), s # {}
        PROVE  g[s] = Read(g[s \ {Max(s)}], sizes[Max(s)])
    <3>1. Max(s) \in 1..N
      BY <2>1, <1>1, MaxIsIn
    <3>2. g[s] = H[<<Max(s), g[s \ {Max(s)}]>>]
      BY <2>1, <1>4 DEF Iterates
    <3>3. g[s \ {Max(s)}] \in Readers
      BY <1>4
    <3> QED BY <3>1, <3>2, <3>3
  <2>2. g[{}] = r
    BY <1>4 DEF Iterates
  <2> QED BY <2>1, <2>2
<1>6. iter = F(iter)
  BY <1>5
<1> HIDE DEF iter
<1>7. ASSUME NEW i \in 1..N PROVE v[i] = Read(v[i - 1], sizes[i])
  <2>1. Max(1..i) = i /\ (1..i) \ {i} = 1..(i - 1) /\ 1..i # {} /\ 1..i \in SUBSET (1..N)
    <3>1. i \in Nat \ {0} /\ i <= N /\ 1 \in 1..i /\ 1..i \subseteq 1..N
      BY <1>1
    <3> QED BY <3>1, MaxOfRange
  <2>2. iter[1..i] = Read(iter[(1..i) \ {i}], sizes[i])
    BY <2>1, <1>6
  <2>3. i \in 0..N /\ i - 1 \in 0..N
    BY <1>1
  <2> QED BY <2>1, <2>2, <2>3
<1>8. v[0] = r
  <2>1. 1..0 = {} /\ 0 \in 0..N
    BY <1>1
  <2> QED BY <2>1, <1>6
<1>9. v[N] = iter[1..N]
  BY <1>1
<1> HIDE DEF v
<1> QED BY <1>2, <1>7, <1>8, <1>9 DEF N

LEMMA NoSizes ==
  ASSUME NEW r \in Readers
  PROVE  FoldLeft(Read, r, <<>>) = r
<1> DEFINE sizes == <<>>
<1>1. sizes \in Seq(Nat \ {0}) /\ Len(sizes) = 0
  OBVIOUS
<1> HIDE DEF sizes
<1>2. PICK v : /\ v[0] = r
               /\ \A i \in 1..Len(sizes) : v[i] = Read(v[i - 1], sizes[i])
               /\ FoldLeft(Read, r, sizes) = v[Len(sizes)]
  BY <1>1, ReadSizesChain
<1> QED BY <1>1, <1>2 DEF sizes

LEMMA TwoSizes ==
  ASSUME NEW r \in Readers
  PROVE  FoldLeft(Read, r, <<2, 2>>) = Read(Read(r, 2), 2)
<1> DEFINE sizes == <<2, 2>>
<1>1. sizes \in Seq(Nat \ {0}) /\ Len(sizes) = 2 /\ sizes[1] = 2 /\ sizes[2] = 2
  OBVIOUS
<1> HIDE DEF sizes
<1>2. PICK v : /\ v[0] = r
               /\ \A i \in 1..Len(sizes) : v[i] = Read(v[i - 1], sizes[i])
               /\ FoldLeft(Read, r, sizes) = v[Len(sizes)]
  BY <1>1, ReadSizesChain
<1>3. v[1] = Read(v[1 - 1], 2) /\ v[2] = Read(v[2 - 1], 2)
  BY <1>1, <1>2
<1>4. 1 - 1 = 0 /\ 2 - 1 = 1
  OBVIOUS
<1> QED BY <1>1, <1>2, <1>3, <1>4 DEF sizes

(* Two parts of the same size, one behind the other.                       *)
LEMMA TwoParts ==
  ASSUME NEW c \in Seq(Bytes), NEW e \in Endiannesses, NEW o \in Nat,
         NEW read \in Seq(Values), NEW n \in Nat, (o + n) + n <= Len(c)
  PROVE  LET one == SubSeq(c, o + 1, o + n)
             two == SubSeq(c, (o + n) + 1, (o + n) + n)
         IN /\ ReadBytes(ReadBytes(At(c, e, o, read), n), n)
                  = At(c, e, (o + n) + n, Append(Append(read, one), two))
            /\ one \in Seq(Bytes) /\ Len(one) = n /\ one \in Values
            /\ two \in Seq(Bytes) /\ Len(two) = n /\ two \in Values
<1> DEFINE one == SubSeq(c, o + 1, o + n)
           k == o + n
<1>1. o + n <= Len(c) /\ k \in Nat
  OBVIOUS
<1>2. /\ ReadBytes(At(c, e, o, read), n) = At(c, e, k, Append(read, one))
      /\ one \in Seq(Bytes) /\ Len(one) = n /\ one \in Values
  BY <1>1, BytesRead
<1> DEFINE before == Append(read, one)
           two == SubSeq(c, k + 1, k + n)
<1>3. before \in Seq(Values)
  BY <1>2, Appended
<1>4. k + n <= Len(c)
  OBVIOUS
<1> HIDE DEF before, one, k
<1>5. /\ ReadBytes(At(c, e, k, before), n) = At(c, e, k + n, Append(before, two))
      /\ two \in Seq(Bytes) /\ Len(two) = n /\ two \in Values
  BY <1>1, <1>3, <1>4, BytesRead
<1> QED BY <1>2, <1>5, Zenon DEF before, one, k

(* The two entity ids at the head of a control submessage.                 *)
Ids(c) == <<SubSeq(c, 1, 4), SubSeq(c, 5, 8)>>

LEMMA IdsRead ==
  ASSUME NEW c \in Seq(Bytes), NEW e \in Endiannesses, Len(c) >= 8
  PROVE  ReadIds(Reader(c, e), <<>>) = At(c, e, 8, Ids(c)) /\ Ids(c) \in Seq(Values)
<1> DEFINE o == 0
           n == 4
<1>1. Reader(c, e) = At(c, e, o, <<>>) /\ Reader(c, e) \in Readers
  BY ReaderType DEF Reader, At
<1>2. ReadIds(Reader(c, e), <<>>) = ReadBytes(ReadBytes(At(c, e, o, <<>>), n), n)
  BY <1>1, NoSizes DEF ReadIds
<1>3. o \in Nat /\ n \in Nat /\ <<>> \in Seq(Values) /\ (o + n) + n <= Len(c)
  OBVIOUS
<1>4. o + 1 = 1 /\ o + n = 4 /\ (o + n) + 1 = 5 /\ (o + n) + n = 8
  OBVIOUS
<1> HIDE DEF o, n
<1> DEFINE one == SubSeq(c, o + 1, o + n)
           two == SubSeq(c, (o + n) + 1, (o + n) + n)
<1>5. /\ ReadBytes(ReadBytes(At(c, e, o, <<>>), n), n)
           = At(c, e, (o + n) + n, Append(Append(<<>>, one), two))
      /\ one \in Values /\ two \in Values
  BY <1>3, TwoParts
<1>6. <<one, two>> = Ids(c)
  BY <1>4 DEF Ids
<1> HIDE DEF one, two
<1>7. Append(Append(<<>>, one), two) = <<one, two>> /\ <<one, two>> \in Seq(Values)
  BY <1>5, TwoElements
<1> QED BY <1>2, <1>4, <1>5, <1>6, <1>7

-----------------------------------------------------------------------------
(* Words in a row, and the block a number set occupies.                    *)

(* Reading words from a valid reader.                                      *)
LEMMA WordsRead ==
  ASSUME NEW c \in Seq(Bytes), NEW e \in Endiannesses, NEW o \in Nat,
         NEW read \in Seq(Values), NEW n \in Nat, o % 4 = 0, o <= Len(c)
  PROVE  /\ o + 4 * n <= Len(c) =>
              /\ ReadWords(At(c, e, o, read), n)
                   = At(c, e, o + 4 * n, read \o WordsAt(c, o, n, e))
              /\ read \o WordsAt(c, o, n, e) \in Seq(Values)
         /\ ~(o + 4 * n <= Len(c)) => ~ReadWords(At(c, e, o, read), n).valid
         /\ ReadWords(At(c, e, o, read), n) \in Readers
<1> DEFINE r == At(c, e, o, read)
<1>1. r \in Readers
  BY AtType
<1>2. /\ r.offset = o /\ r.bytes = c /\ r.valid /\ r.read = read /\ r.endianness = e
      /\ r = At(c, e, o, read)
  BY DEF At
<1> HIDE DEF r
<1>3. /\ ReadWords(r, n) \in Readers
      /\ o + 4 * n <= Len(c) =>
           ReadWords(r, n) = [r EXCEPT !.offset = o + 4 * n,
                                       !.read = read \o WordsAt(c, o, n, e)]
      /\ ~(o + 4 * n <= Len(c)) => ~ReadWords(r, n).valid
  BY <1>1, <1>2, ReadWordsEffect
<1> DEFINE words == WordsAt(c, o, n, e)
<1>4. o + 4 * n <= Len(c) => words \in Seq(Values)
  BY WordsType
<1> HIDE DEF words
<1>5. o + 4 * n <= Len(c) => ReadWords(r, n) = At(c, e, o + 4 * n, read \o words)
  BY <1>2, <1>3 DEF At, words
<1>6. o + 4 * n <= Len(c) => read \o words \in Seq(Values)
  BY <1>4, Concatenation
<1> QED BY <1>2, <1>3, <1>5, <1>6 DEF words

LEMMA Associative ==
  ASSUME NEW A, NEW s \in Seq(A), NEW t \in Seq(A), NEW u \in Seq(A)
  PROVE  (s \o t) \o u = s \o (t \o u)
<1> DEFINE x == s \o t
           y == t \o u
           p == x \o u
           q == s \o y
<1>1. /\ x \in Seq(A) /\ Len(x) = Len(s) + Len(t)
      /\ \A i \in 1..Len(s) : x[i] = s[i]
      /\ \A i \in 1..Len(t) : x[Len(s) + i] = t[i]
  OBVIOUS
<1>2. /\ y \in Seq(A) /\ Len(y) = Len(t) + Len(u)
      /\ \A i \in 1..Len(t) : y[i] = t[i]
      /\ \A i \in 1..Len(u) : y[Len(t) + i] = u[i]
  OBVIOUS
<1> HIDE DEF x, y
<1>t. x \in Seq(A)
  BY <1>1
<1>y. y \in Seq(A)
  BY <1>2
<1>3. /\ p \in Seq(A) /\ Len(p) = Len(x) + Len(u)
      /\ \A i \in 1..Len(x) : p[i] = x[i]
      /\ \A i \in 1..Len(u) : p[Len(x) + i] = u[i]
  BY <1>t, Concatenation
<1>4. /\ q \in Seq(A) /\ Len(q) = Len(s) + Len(y)
      /\ \A i \in 1..Len(s) : q[i] = s[i]
      /\ \A i \in 1..Len(y) : q[Len(s) + i] = y[i]
  BY <1>y, Concatenation
<1> HIDE DEF p, q
<1>5. Len(s) \in Nat /\ Len(t) \in Nat /\ Len(u) \in Nat
  OBVIOUS
<1>6. ASSUME NEW i \in 1..Len(p) PROVE p[i] = q[i]
  <2>1. CASE i <= Len(s)
    BY <2>1, <1>1, <1>2, <1>3, <1>4, <1>5
  <2>2. CASE i > Len(s) /\ i <= Len(s) + Len(t)
    <3>1. i - Len(s) \in 1..Len(t) /\ i = Len(s) + (i - Len(s)) /\ i \in 1..Len(x)
          /\ i - Len(s) \in 1..Len(y)
      BY <2>2, <1>1, <1>2, <1>5
    <3>2. p[i] = x[Len(s) + (i - Len(s))] /\ q[Len(s) + (i - Len(s))] = y[i - Len(s)]
      BY <3>1, <1>3, <1>4
    <3> QED BY <3>1, <3>2, <1>1, <1>2
  <2>3. CASE i > Len(s) + Len(t)
    <3> DEFINE j == i - (Len(s) + Len(t))
    <3>1. j \in 1..Len(u) /\ i = Len(x) + j /\ Len(t) + j \in 1..Len(y)
          /\ i = Len(s) + (Len(t) + j)
      BY <2>3, <1>1, <1>2, <1>3, <1>5
    <3> HIDE DEF j
    <3>2. p[Len(x) + j] = u[j] /\ q[Len(s) + (Len(t) + j)] = y[Len(t) + j]
      BY <3>1, <1>3, <1>4
    <3> QED BY <3>1, <3>2, <1>2
  <2>4. i \in Int
    OBVIOUS
  <2> QED BY <2>1, <2>2, <2>3, <2>4, <1>5
<1>7. Len(p) = Len(q)
  BY <1>1, <1>2, <1>3, <1>4, <1>5
<1> QED BY <1>3, <1>4, <1>6, <1>7, SameSequence DEF p, q, x, y

LEMMA WordsTogether ==
  ASSUME NEW c \in Seq(Bytes), NEW e \in Endiannesses, NEW o \in Nat,
         NEW first \in Nat, NEW second \in Nat, NEW s \in Seq(Values),
         (o + 4 * first) + 4 * second <= Len(c)
  PROVE  (s \o WordsAt(c, o, first, e)) \o WordsAt(c, o + 4 * first, second, e)
           = s \o WordsAt(c, o, first + second, e)
<1> DEFINE m == first
           n == second
           k == o + 4 * first
<1>0. m \in Nat /\ n \in Nat /\ k \in Nat /\ k = o + 4 * m /\ k + 4 * n <= Len(c)
  OBVIOUS
<1> HIDE DEF m, n, k
<1> DEFINE x == WordsAt(c, o, m, e)
           y == WordsAt(c, k, n, e)
           z == WordsAt(c, o, m + n, e)
<1>1. k \in Nat /\ o + 4 * m <= Len(c) /\ o + 4 * (m + n) <= Len(c) /\ m + n \in Nat
  BY <1>0
<1>2. x \in Seq(Values) /\ Len(x) = m
  BY <1>0, <1>1, WordsType
<1>3. y \in Seq(Values) /\ Len(y) = n
  BY <1>0, <1>1, WordsType
<1>4. z \in Seq(Values) /\ Len(z) = m + n
  BY <1>0, <1>1, WordsType
<1>5. \A i \in 1..m : x[i] = z[i]
  BY <1>0 DEF WordsAt
<1>6. ASSUME NEW i \in 1..n PROVE y[i] = z[m + i]
  <2>1. m + i \in 1..m + n /\ o + 4 * ((m + i) - 1) = k + 4 * (i - 1)
    BY <1>0
  <2> QED BY <1>0, <2>1 DEF WordsAt
<1> HIDE DEF x, y, z
<1>7. x \o y = z
  <2>1. /\ x \o y \in Seq(Values) /\ Len(x \o y) = m + n
        /\ \A i \in 1..m : (x \o y)[i] = x[i]
        /\ \A i \in 1..n : (x \o y)[m + i] = y[i]
    <3>1. x \in Seq(Values)
      BY <1>2
    <3>2. y \in Seq(Values)
      BY <1>3
    <3>3. /\ x \o y \in Seq(Values) /\ Len(x \o y) = Len(x) + Len(y)
          /\ \A i \in 1..Len(x) : (x \o y)[i] = x[i]
          /\ \A i \in 1..Len(y) : (x \o y)[Len(x) + i] = y[i]
      BY <3>1, <3>2, Concatenation
    <3> QED BY <3>3, <1>2, <1>3
  <2>2. ASSUME NEW i \in 1..m + n PROVE (x \o y)[i] = z[i]
    <3>1. CASE i \in 1..m
      BY <3>1, <2>1, <1>5
    <3>2. CASE i \notin 1..m
      <4>1. i - m \in 1..n /\ m + (i - m) = i
        BY <1>0, <3>2
      <4>2. (x \o y)[m + (i - m)] = y[i - m] /\ y[i - m] = z[m + (i - m)]
        BY <4>1, <2>1, <1>6
      <4> QED BY <4>1, <4>2
    <3> QED BY <3>1, <3>2
  <2> QED BY <2>1, <2>2, <1>0, <1>4, SameSequence
<1>8. (s \o x) \o y = s \o (x \o y)
  <2>1. x \in Seq(Values)
    BY <1>2
  <2>2. y \in Seq(Values)
    BY <1>3
  <2> QED BY <2>1, <2>2, Associative
<1> QED BY <1>7, <1>8 DEF x, y, z, m, n, k

-----------------------------------------------------------------------------
(* A sequence number set in the bytes c, from offset o on.                 *)
BaseAt(c, o, e) == SequenceNumber(WordAt(c, o, e), WordAt(c, o + 4, e))
BitsAt(c, o, e) == WordAt(c, o + 8, e)
BitmapAt(c, o, e) == WordsAt(c, o + 12, Words(BitsAt(c, o, e)), e)
SetWordsAt(c, o, e) == WordsAt(c, o, 3 + Words(BitsAt(c, o, e)), e)
SetEnd(c, o, e) == o + 12 + 4 * Words(BitsAt(c, o, e))

GoodSetAt(c, o, e) ==
  /\ BaseAt(c, o, e) > 0 /\ BitsAt(c, o, e) <= MaxBits
  /\ SetEnd(c, o, e) <= Len(c)
  /\ BitsAt(c, o, e) > 0 =>
       WordAt(c, SetEnd(c, o, e) - 4, e) % 2^UnusedBits(BitsAt(c, o, e)) = 0

LEMMA WordCount ==
  ASSUME NEW n \in Nat
  PROVE  /\ WordBits \in Nat \ {0} /\ Words(n) \in Nat
         /\ n > 0 => Words(n) > 0
         /\ n <= Words(n) * WordBits
         /\ Words(n) * WordBits - n = UnusedBits(n) /\ UnusedBits(n) \in 0..WordBits - 1
<1> DEFINE w == WordBits
           q == Words(n)
           x == n + w - 1
           r == x % w
<1>1. w \in Nat \ {0}
  BY ByteBitsAssumption DEF WordBits
<1> HIDE DEF w
<1>2. x \in Nat
  BY <1>1
<1>3. q = x \div w
  BY DEF Words, w
<1> HIDE DEF x
<1>4. q \in Int /\ r \in 0..w - 1 /\ x = q * w + r
  BY <1>1, <1>2, <1>3, Division
<1>5. q \in Nat
  <2>1. q * w > -w
    BY <1>1, <1>2, <1>4
  <2>2. (q + 1) * w > 0
    BY <2>1, <1>1, <1>4
  <2>3. q + 1 > 0
    BY <2>2, <1>1, <1>4
  <2> QED BY <2>3, <1>4
<1>6. x = n + w - 1
  BY DEF x
<1>7. q * w \in Nat /\ n <= q * w /\ q * w - n \in 0..w - 1
  BY <1>1, <1>4, <1>5, <1>6
<1>8. -n = (-q) * w + (q * w - n) /\ -n \in Int /\ -q \in Int
  BY <1>1, <1>5
<1>9. (-n) % w = q * w - n
  BY <1>1, <1>7, <1>8, DivisionUnique
<1>10. UnusedBits(n) = q * w - n
  BY <1>9 DEF UnusedBits, w
<1>11. n > 0 => q > 0
  <2> SUFFICES ASSUME n > 0, q = 0 PROVE FALSE
    BY <1>5
  <2> QED BY <1>1, <1>7
<1> QED BY <1>1, <1>5, <1>7, <1>10, <1>11 DEF w

(* read_sequence_number_set succeeds on a good set only.                   *)
LEMMA SetRead ==
  ASSUME NEW c \in Seq(Bytes), NEW e \in Endiannesses, NEW o \in Nat,
         NEW read \in Seq(Values), o % 4 = 0, o + 12 <= Len(c)
  PROVE  /\ GoodSetAt(c, o, e) =>
              /\ ReadSet(At(c, e, o, read))
                   = At(c, e, SetEnd(c, o, e), read \o SetWordsAt(c, o, e))
              /\ read \o SetWordsAt(c, o, e) \in Seq(Values)
         /\ ~GoodSetAt(c, o, e) => ~ReadSet(At(c, e, o, read)).valid
         /\ ReadSet(At(c, e, o, read)) \in Readers
<1> DEFINE three == WordsAt(c, o, 3, e)
           k == o + 12
           before == read \o three
           nb == BitsAt(c, o, e)
           base == BaseAt(c, o, e)
           n == Words(nb)
           head == At(c, e, k, before)
<1>1. 3 \in Nat /\ 4 * 3 = 12 /\ o + 4 * 3 = k /\ o <= Len(c) /\ k \in Nat /\ k <= Len(c)
  OBVIOUS
<1>2. ReadWords(At(c, e, o, read), 3) = head /\ before \in Seq(Values)
  <2>1. o + 4 * 3 <= Len(c)
    BY <1>1
  <2> QED BY <2>1, <1>1, WordsRead
<1>3. three \in Seq(Values) /\ Len(three) = 3 /\ Len(before) = Len(read) + 3
  <2>1. three \in Seq(Values) /\ Len(three) = 3
    BY <1>1, WordsType
  <2> HIDE DEF three
  <2>2. three \in Seq(Values)
    BY <2>1
  <2>3. Len(before) = Len(read) + Len(three)
    BY <2>2, Concatenation
  <2> QED BY <2>1, <2>3
<1>4. /\ before[Len(before) - 2] = WordAt(c, o, e)
      /\ before[Len(before) - 1] = WordAt(c, o + 4, e)
      /\ before[Len(before) - 0] = nb
  <2>1. three[1] = WordAt(c, o, e) /\ three[2] = WordAt(c, o + 4, e) /\ three[3] = nb
    <3>1. o + 4 * (1 - 1) = o /\ o + 4 * (2 - 1) = o + 4 /\ o + 4 * (3 - 1) = o + 8
      OBVIOUS
    <3> QED BY <3>1 DEF WordsAt, BitsAt
  <2> HIDE DEF three
  <2>2. /\ before[Len(read) + 1] = three[1] /\ before[Len(read) + 2] = three[2]
        /\ before[Len(read) + 3] = three[3]
    BY <1>3
  <2> QED BY <2>1, <2>2, <1>3
<1>5. nb \in Nat /\ n \in Nat /\ (nb > 0 => n > 0)
  <2>1. o + 8 \in Nat /\ (o + 8) + 4 <= Len(c)
    BY <1>1
  <2>2. nb \in 0..Capacity(4) - 1
    BY <2>1, WordType DEF BitsAt
  <2>3. nb \in Nat
    BY <2>2, CapacityFacts
  <2> QED BY <2>3, WordCount
<1>6. ReadSet(At(c, e, o, read)) = ReadBitmap(head, base, nb)
  <2>1. head.read = before
    BY DEF At
  <2>2. base = SequenceNumber(WordAt(c, o, e), WordAt(c, o + 4, e))
    BY DEF BaseAt
  <2> HIDE DEF head, before, nb, base
  <2> QED BY <1>2, <1>4, <2>1, <2>2 DEF ReadSet
<1>7. head.valid /\ head \in Readers
  BY <1>1, <1>2, AtType DEF At
<1> DEFINE after == ReadWords(head, n)
           all == read \o SetWordsAt(c, o, e)
           end == SetEnd(c, o, e)
           last == WordAt(c, end - 4, e)
<1>8. end = k + 4 * n
  BY <1>5 DEF SetEnd
<1>9. k % 4 = 0
  BY <1>1
<1> HIDE DEF three, before, nb, base
<1>10. /\ k + 4 * n <= Len(c) => after = At(c, e, k + 4 * n, before \o WordsAt(c, k, n, e))
       /\ k + 4 * n <= Len(c) => before \o WordsAt(c, k, n, e) \in Seq(Values)
       /\ ~(k + 4 * n <= Len(c)) => ~after.valid
       /\ after \in Readers
  BY <1>1, <1>2, <1>5, <1>9, WordsRead
<1>11. k + 4 * n <= Len(c) => before \o WordsAt(c, k, n, e) = all
  <2> SUFFICES ASSUME k + 4 * n <= Len(c) PROVE before \o WordsAt(c, k, n, e) = all
    OBVIOUS
  <2>1. k = o + 4 * 3 /\ 3 \in Nat /\ k \in Nat
    BY <1>1
  <2> DEFINE m == 3
  <2>2. k = o + 4 * m /\ m \in Nat /\ k \in Nat /\ before = read \o WordsAt(c, o, m, e)
        /\ all = read \o WordsAt(c, o, m + n, e)
    BY <2>1 DEF before, three, SetWordsAt, nb
  <2> HIDE DEF m, k, all, n
  <2>3. (read \o WordsAt(c, o, m, e)) \o WordsAt(c, k, n, e) = read \o WordsAt(c, o, m + n, e)
    <3>1. (o + 4 * m) + 4 * n <= Len(c) /\ m \in Nat /\ n \in Nat
      BY <2>2, <1>5
    <3>2. (read \o WordsAt(c, o, m, e)) \o WordsAt(c, o + 4 * m, n, e)
            = read \o WordsAt(c, o, m + n, e)
      BY <3>1, WordsTogether, ZenonT(60)
    <3> QED BY <3>2, <2>2
  <2> QED BY <2>2, <2>3
<1>12. k + 4 * n <= Len(c) /\ nb > 0 => Last(all) = last
  <2> SUFFICES ASSUME k + 4 * n <= Len(c), nb > 0 PROVE Last(all) = last
    OBVIOUS
  <2> DEFINE words == WordsAt(c, o, 3 + n, e)
  <2>1. o + 4 * (3 + n) <= Len(c) /\ 3 + n \in Nat
    BY <1>5, <1>1
  <2>2. words \in Seq(Values) /\ Len(words) = 3 + n
    BY <2>1, WordsType
  <2>3. words[3 + n] = last
    <3> HIDE DEF n, end
    <3>1. o + 4 * ((3 + n) - 1) = end - 4 /\ 3 + n \in 1..3 + n
      BY <1>5, <1>8
    <3> QED BY <3>1 DEF WordsAt
  <2>4. all = read \o words
    BY DEF SetWordsAt, nb
  <2> HIDE DEF words, all, last, n
  <2>5. /\ all \in Seq(Values) /\ Len(all) = Len(read) + (3 + n)
        /\ all[Len(read) + (3 + n)] = words[3 + n]
    <3>1. 3 + n \in 1..Len(words)
      BY <2>2, <1>5
    <3>2. words \in Seq(Values)
      BY <2>2
    <3>3. /\ all \in Seq(Values) /\ Len(all) = Len(read) + Len(words)
          /\ \A i \in 1..Len(words) : all[Len(read) + i] = words[i]
      BY <2>4, <3>2, Concatenation
    <3> QED BY <2>2, <3>1, <3>3
  <2> QED BY <2>3, <2>5, <1>5 DEF Last
<1> HIDE DEF head
<1>13. /\ GoodSetAt(c, o, e) <=>
            /\ base > 0 /\ nb <= MaxBits /\ k + 4 * n <= Len(c)
            /\ nb > 0 => last % 2^UnusedBits(nb) = 0
  <2>1. /\ GoodSetAt(c, o, e) <=>
            /\ base > 0 /\ nb <= MaxBits /\ end <= Len(c)
            /\ nb > 0 => last % 2^UnusedBits(nb) = 0
    BY DEF GoodSetAt, base, nb
  <2> HIDE DEF k, n, end, last
  <2> QED BY <1>8, <2>1
<1> HIDE DEF k, n, all, last, end
<1>14. CASE ~(base > 0 /\ nb <= MaxBits)
  <2>1. ReadSet(At(c, e, o, read)) = Invalid(head)
    BY <1>6, <1>14 DEF ReadBitmap
  <2> QED BY <1>7, <1>13, <1>14, <2>1, InvalidStays
<1>15. CASE base > 0 /\ nb <= MaxBits /\ ~(k + 4 * n <= Len(c))
  <2>1. ReadSet(At(c, e, o, read)) = after
    BY <1>6, <1>7, <1>10, <1>15 DEF ReadBitmap, NoUnusedBit, n
  <2> QED BY <2>1, <1>10, <1>13, <1>15
<1>16. CASE base > 0 /\ nb <= MaxBits /\ k + 4 * n <= Len(c)
  <2>1. after = At(c, e, k + 4 * n, all) /\ all \in Seq(Values)
    BY <1>10, <1>11, <1>16
  <2>2. ReadSet(At(c, e, o, read)) = NoUnusedBit(after, nb)
    BY <1>6, <1>7, <1>16 DEF ReadBitmap, n
  <2>3. after.valid /\ after.read = all
    BY <2>1 DEF At
  <2> HIDE DEF after
  <2>4. CASE nb > 0 /\ last % 2^UnusedBits(nb) # 0
    <3>1. ReadSet(At(c, e, o, read)) = Invalid(after)
      BY <2>2, <2>3, <2>4, <1>12, <1>16 DEF NoUnusedBit
    <3>2. ~Invalid(after).valid /\ Invalid(after) \in Readers
      BY <1>10, InvalidStays
    <3> QED BY <3>1, <3>2, <2>4, <1>13
  <2>5. CASE ~(nb > 0 /\ last % 2^UnusedBits(nb) # 0)
    <3>1. ReadSet(At(c, e, o, read)) = after
      BY <2>2, <2>3, <2>5, <1>12, <1>16 DEF NoUnusedBit
    <3> QED BY <3>1, <2>1, <2>5, <1>8, <1>10, <1>13, <1>16 DEF all, end
  <2> QED BY <2>4, <2>5
<1> QED BY <1>14, <1>15, <1>16

-----------------------------------------------------------------------------
(* What decoding each control submessage reads.                            *)

LEMMA SignedType ==
  ASSUME NEW x \in Int, NEW n \in Nat
  PROVE  Signed(x, n) \in Int
BY CapacityFacts DEF Signed

LEMMA SequenceNumberType ==
  ASSUME NEW high \in Nat, NEW low \in Nat
  PROVE  SequenceNumber(high, low) \in Int
<1> DEFINE w == Capacity(4)
           x == high * w + low
<1>1. w \in Nat
  BY CapacityFacts
<1> HIDE DEF w
<1>2. x \in Int
  BY <1>1
<1> HIDE DEF x
<1>3. Signed(x, 8) \in Int
  BY <1>2, SignedType
<1> QED BY <1>3 DEF SequenceNumber, x, w

LEMMA WordsAreNumbers ==
  ASSUME NEW c \in Seq(Bytes), NEW o \in Nat, NEW n \in Nat, o + 4 * n <= Len(c),
         NEW e \in Endiannesses
  PROVE  \A i \in 1..n : WordsAt(c, o, n, e)[i] \in Nat
<1> DEFINE words == WordsAt(c, o, n, e)
           all == 0..Capacity(4) - 1
<1>1. words \in Seq(all) /\ Len(words) = n
  BY WordsType
<1>2. all \subseteq Nat
  BY CapacityFacts
<1> HIDE DEF words, all
<1>3. \A i \in 1..n : words[i] \in all
  BY <1>1
<1> QED BY <1>2, <1>3 DEF words

(* The set among the values read: the one the bytes hold.                  *)
SetValueAt(c, o, e) ==
  [base |-> BaseAt(c, o, e), num_bits |-> BitsAt(c, o, e), bitmap |-> BitmapAt(c, o, e)]

LEMMA GoodSet ==
  ASSUME NEW c \in Seq(Bytes), NEW e \in Endiannesses, NEW o \in Nat, GoodSetAt(c, o, e),
         o + 12 <= Len(c)
  PROVE  /\ BitsAt(c, o, e) \in 0..MaxBits /\ BaseAt(c, o, e) \in Nat \ {0}
         /\ Words(BitsAt(c, o, e)) \in Nat
         /\ SetEnd(c, o, e) \in Nat
         /\ SetWordsAt(c, o, e) \in Seq(Values)
         /\ Len(SetWordsAt(c, o, e)) = 3 + Words(BitsAt(c, o, e))
         /\ BitmapAt(c, o, e) \in Seq(0..Capacity(4) - 1)
         /\ Len(BitmapAt(c, o, e)) = Words(BitsAt(c, o, e))
<1> DEFINE nb == BitsAt(c, o, e)
           n == Words(nb)
           a == o + 4
           b == o + 8
           d == o + 12
           m == 3 + n
<1>1. a \in Nat /\ b \in Nat /\ a + 4 <= Len(c) /\ b + 4 <= Len(c) /\ o + 4 <= Len(c) /\ d \in Nat
  OBVIOUS
<1>2. /\ WordAt(c, o, e) \in 0..Capacity(4) - 1 /\ WordAt(c, a, e) \in 0..Capacity(4) - 1
      /\ WordAt(c, b, e) \in 0..Capacity(4) - 1
  <2> HIDE DEF a, b
  <2> QED BY <1>1, WordType
<1>3. /\ WordAt(c, o, e) \in Nat /\ WordAt(c, a, e) \in Nat /\ nb \in Nat
  BY <1>2, CapacityFacts DEF BitsAt
<1>4. BaseAt(c, o, e) \in Int
  BY <1>3, SequenceNumberType DEF BaseAt
<1>5. n \in Nat
  BY <1>3, WordCount
<1>6. SetEnd(c, o, e) = d + 4 * n /\ SetEnd(c, o, e) <= Len(c)
  BY DEF SetEnd, GoodSetAt
<1> HIDE DEF nb, n
<1>7. d + 4 * n <= Len(c) /\ o + 4 * m <= Len(c) /\ m \in Nat
  BY <1>5, <1>6
<1> HIDE DEF d, m
<1>8. WordsAt(c, d, n, e) \in Seq(0..Capacity(4) - 1) /\ Len(WordsAt(c, d, n, e)) = n
  BY <1>1, <1>5, <1>7, WordsType
<1>9. WordsAt(c, o, m, e) \in Seq(Values) /\ Len(WordsAt(c, o, m, e)) = m
  BY <1>1, <1>5, <1>7, WordsType
<1>10. nb \in 0..MaxBits /\ BaseAt(c, o, e) \in Nat \ {0}
  BY <1>3, <1>4, SubmessagesAssumption DEF GoodSetAt, nb
<1> QED BY <1>1, <1>5, <1>6, <1>8, <1>9, <1>10 DEF nb, n, m, d, SetWordsAt, BitmapAt

LEMMA SetInRead ==
  ASSUME NEW c \in Seq(Bytes), NEW e \in Endiannesses, NEW o \in Nat, o + 12 <= Len(c),
         GoodSetAt(c, o, e), NEW before \in Seq(Values), NEW rest \in Seq(Values)
  PROVE  SetAt((before \o SetWordsAt(c, o, e)) \o rest, Len(before) + 1) = SetValueAt(c, o, e)
<1> DEFINE words == SetWordsAt(c, o, e)
           front == before \o words
           all == front \o rest
           nb == BitsAt(c, o, e)
           n == Words(nb)
           p == Len(before) + 1
           bitmap == BitmapAt(c, o, e)
           k == p + 2
<1>1. /\ words \in Seq(Values) /\ Len(words) = 3 + n /\ n \in Nat
      /\ bitmap \in Seq(0..Capacity(4) - 1) /\ Len(bitmap) = n
  BY GoodSet
<1>2. \A i \in 1..3 + n : words[i] = WordAt(c, o + 4 * (i - 1), e)
  BY DEF SetWordsAt, WordsAt
<1>3. \A i \in 1..n : bitmap[i] = WordAt(c, (o + 12) + 4 * (i - 1), e)
  BY DEF BitmapAt, WordsAt
<1>4. p \in Nat /\ k \in Nat /\ k = Len(before) + 3
  OBVIOUS
<1> HIDE DEF words
<1>5. words \in Seq(Values)
  BY <1>1
<1>6. /\ front \in Seq(Values) /\ Len(front) = Len(before) + Len(words)
      /\ \A i \in 1..Len(words) : front[Len(before) + i] = words[i]
  BY <1>5, Concatenation
<1> HIDE DEF front
<1>7. front \in Seq(Values)
  BY <1>6
<1>8. /\ all \in Seq(Values) /\ Len(all) = Len(front) + Len(rest)
      /\ \A i \in 1..Len(front) : all[i] = front[i]
  BY <1>7, Concatenation
<1> HIDE DEF all, n, p, k, bitmap
<1>9. Len(before) \in Nat /\ Len(rest) \in Nat
  OBVIOUS
<1>10. Len(front) = Len(before) + 3 + n /\ Len(all) >= Len(before) + 3 + n /\ Len(all) \in Nat
  BY <1>1, <1>6, <1>8, <1>9
<1>11. ASSUME NEW i \in 1..3 + n PROVE all[Len(before) + i] = WordAt(c, o + 4 * (i - 1), e)
  <2>1. Len(before) + i \in 1..Len(front) /\ i \in 1..Len(words)
    BY <1>1, <1>9, <1>10
  <2> QED BY <2>1, <1>2, <1>6, <1>8
<1>12. all[p] = WordAt(c, o, e) /\ all[p + 1] = WordAt(c, o + 4, e) /\ all[p + 2] = nb
  <2>1. /\ p = Len(before) + 1 /\ p + 1 = Len(before) + 2 /\ p + 2 = Len(before) + 3
        /\ 1 \in 1..3 + n /\ 2 \in 1..3 + n /\ 3 \in 1..3 + n
        /\ o + 4 * (1 - 1) = o /\ o + 4 * (2 - 1) = o + 4 /\ o + 4 * (3 - 1) = o + 8
    BY <1>1, <1>9 DEF p
  <2>2. /\ all[Len(before) + 1] = WordAt(c, o + 4 * (1 - 1), e)
        /\ all[Len(before) + 2] = WordAt(c, o + 4 * (2 - 1), e)
        /\ all[Len(before) + 3] = WordAt(c, o + 4 * (3 - 1), e)
    BY <2>1, <1>11
  <2> QED BY <2>1, <2>2 DEF BitsAt
<1> DEFINE part == SubSeq(all, k + 1, k + n)
<1>13. part \in Seq(Values) /\ Len(part) = n /\ \A i \in 1..n : part[i] = all[k + i]
  <2>1. k + n <= Len(all)
    BY <1>1, <1>4, <1>10, <1>9
  <2>2. k \in Nat /\ n \in Nat /\ all \in Seq(Values)
    BY <1>1, <1>4, <1>8
  <2> QED BY <2>1, <2>2, Part
<1>14. bitmap \in Seq(Values)
  <2>1. 0..Capacity(4) - 1 \subseteq Values
    BY CapacityFacts DEF Values
  <2> QED BY <2>1, <1>1, WiderSequence
<1>15. ASSUME NEW i \in 1..n PROVE part[i] = bitmap[i]
  <2>1. 3 + i \in 1..3 + n /\ k + i = Len(before) + (3 + i)
        /\ o + 4 * ((3 + i) - 1) = (o + 12) + 4 * (i - 1)
    BY <1>1, <1>4, <1>9
  <2>2. all[Len(before) + (3 + i)] = WordAt(c, o + 4 * ((3 + i) - 1), e)
    BY <2>1, <1>11
  <2> QED BY <2>1, <2>2, <1>3, <1>13
<1>16. part = bitmap
  <2> HIDE DEF part
  <2> QED BY <1>1, <1>13, <1>14, <1>15, SameSequence
<1>17. SetAt(all, p) = [base |-> SequenceNumber(all[p], all[p + 1]), num_bits |-> all[p + 2],
                        bitmap |-> SubSeq(all, p + 3, p + 2 + Words(all[p + 2]))]
  BY DEF SetAt
<1>18. p + 3 = k + 1 /\ p + 2 + Words(all[p + 2]) = k + n
  BY <1>1, <1>4, <1>12 DEF p, k, n
<1> QED BY <1>12, <1>16, <1>17, <1>18 DEF SetValueAt, BaseAt, all, front, words, p, bitmap

-----------------------------------------------------------------------------
(* What is read of the content c of a control submessage.                  *)
LEMMA HeartbeatRead ==
  ASSUME NEW c \in Seq(Bytes), NEW e \in Endiannesses, Len(c) >= 28
  PROVE  /\ ReadContent("heartbeat", Reader(c, e)) = At(c, e, 28, Ids(c) \o WordsAt(c, 8, 5, e))
         /\ Ids(c) \o WordsAt(c, 8, 5, e) \in Seq(Values)
<1> DEFINE o == 8
           n == 5
<1>1. ReadIds(Reader(c, e), <<>>) = At(c, e, o, Ids(c)) /\ Ids(c) \in Seq(Values)
  BY IdsRead
<1>2. o \in Nat /\ n \in Nat /\ o % 4 = 0 /\ o <= Len(c) /\ o + 4 * n <= Len(c) /\ o + 4 * n = 28
  OBVIOUS
<1>3. ReadContent("heartbeat", Reader(c, e)) = ReadWords(At(c, e, o, Ids(c)), n)
  BY <1>1 DEF ReadContent
<1> HIDE DEF o, n
<1>4. /\ ReadWords(At(c, e, o, Ids(c)), n) = At(c, e, o + 4 * n, Ids(c) \o WordsAt(c, o, n, e))
      /\ Ids(c) \o WordsAt(c, o, n, e) \in Seq(Values)
  BY <1>1, <1>2, WordsRead
<1> QED BY <1>2, <1>3, <1>4 DEF o, n

LEMMA SetEndAligned ==
  ASSUME NEW c \in Seq(Bytes), NEW e \in Endiannesses, NEW o \in Nat, GoodSetAt(c, o, e),
         o + 12 <= Len(c), o % 4 = 0
  PROVE  SetEnd(c, o, e) \in Nat /\ SetEnd(c, o, e) % 4 = 0 /\ SetEnd(c, o, e) <= Len(c)
<1> DEFINE n == Words(BitsAt(c, o, e))
           q == o \div 4
<1>1. n \in Nat
  BY GoodSet
<1> HIDE DEF n
<1>2. SetEnd(c, o, e) = (o + 12) + 4 * n
  BY DEF SetEnd, n
<1>3. ((o + 12) + 4 * n) % 4 = 0
  BY <1>1
<1> QED BY <1>1, <1>2, <1>3 DEF GoodSetAt

LEMMA AcknackRead ==
  ASSUME NEW c \in Seq(Bytes), NEW e \in Endiannesses, Len(c) >= 24
  PROVE  LET r == ReadContent("acknack", Reader(c, e))
             read == (Ids(c) \o SetWordsAt(c, 8, e)) \o WordsAt(c, SetEnd(c, 8, e), 1, e)
             good == GoodSetAt(c, 8, e) /\ SetEnd(c, 8, e) + 4 <= Len(c)
         IN /\ r.valid <=> good
            /\ good => r = At(c, e, SetEnd(c, 8, e) + 4, read) /\ read \in Seq(Values)
<1> DEFINE o == 8
           n == 1
           k == SetEnd(c, o, e)
           set == ReadSet(At(c, e, o, Ids(c)))
           r == ReadWords(set, n)
           before == Ids(c) \o SetWordsAt(c, o, e)
           read == before \o WordsAt(c, k, n, e)
           good == GoodSetAt(c, o, e) /\ k + 4 <= Len(c)
<1>1. ReadIds(Reader(c, e), <<>>) = At(c, e, o, Ids(c)) /\ Ids(c) \in Seq(Values)
  BY IdsRead
<1>2. ReadContent("acknack", Reader(c, e)) = r
  BY <1>1 DEF ReadContent
<1>3. o \in Nat /\ n \in Nat /\ o % 4 = 0 /\ o + 12 <= Len(c) /\ 4 * n = 4
  OBVIOUS
<1> SUFFICES /\ r.valid <=> good
             /\ good => r = At(c, e, k + 4, read) /\ read \in Seq(Values)
  BY <1>2
<1> HIDE DEF o, n
<1>4. /\ GoodSetAt(c, o, e) => set = At(c, e, k, before) /\ before \in Seq(Values)
      /\ ~GoodSetAt(c, o, e) => ~set.valid
      /\ set \in Readers
  BY <1>1, <1>3, SetRead
<1>5. CASE ~GoodSetAt(c, o, e)
  <2> HIDE DEF set
  <2>1. ~ReadWords(set, n).valid
    BY <1>3, <1>4, <1>5, ReadWordsEffect
  <2> QED BY <2>1, <1>5
<1>6. CASE GoodSetAt(c, o, e)
  <2>1. k \in Nat /\ k % 4 = 0 /\ k <= Len(c)
    BY <1>3, <1>6, SetEndAligned
  <2> HIDE DEF k, before
  <2>2. /\ k + 4 * n <= Len(c) =>
              /\ ReadWords(At(c, e, k, before), n) = At(c, e, k + 4 * n, before \o WordsAt(c, k, n, e))
              /\ before \o WordsAt(c, k, n, e) \in Seq(Values)
        /\ ~(k + 4 * n <= Len(c)) => ~ReadWords(At(c, e, k, before), n).valid
    BY <2>1, <1>3, <1>4, <1>6, WordsRead
  <2>3. r = ReadWords(At(c, e, k, before), n)
    BY <1>4, <1>6 DEF k, before
  <2>4. At(c, e, k + 4, read).valid
    BY DEF At
  <2> HIDE DEF read, r
  <2> QED BY <2>2, <2>3, <2>4, <1>3, <1>6 DEF read
<1> QED BY <1>5, <1>6

LEMMA GapRead ==
  ASSUME NEW c \in Seq(Bytes), NEW e \in Endiannesses, Len(c) >= 28
  PROVE  LET r == ReadContent("gap", Reader(c, e))
             read == (Ids(c) \o WordsAt(c, 8, 2, e)) \o SetWordsAt(c, 16, e)
         IN /\ r.valid <=> GoodSetAt(c, 16, e)
            /\ GoodSetAt(c, 16, e) =>
                 r = At(c, e, SetEnd(c, 16, e), read) /\ read \in Seq(Values)
            /\ Ids(c) \o WordsAt(c, 8, 2, e) \in Seq(Values)
<1> DEFINE o == 8
           n == 2
           k == 16
           before == Ids(c) \o WordsAt(c, o, n, e)
           r == ReadSet(At(c, e, k, before))
<1>1. ReadIds(Reader(c, e), <<>>) = At(c, e, o, Ids(c)) /\ Ids(c) \in Seq(Values)
  BY IdsRead
<1>2. ReadContent("gap", Reader(c, e)) = ReadSet(ReadWords(At(c, e, o, Ids(c)), n))
  BY <1>1 DEF ReadContent
<1>3. /\ o \in Nat /\ n \in Nat /\ o % 4 = 0 /\ o <= Len(c) /\ o + 4 * n <= Len(c) /\ o + 4 * n = k
      /\ k \in Nat /\ k % 4 = 0 /\ k + 12 <= Len(c)
  OBVIOUS
<1> HIDE DEF o, n, k
<1>4. /\ ReadWords(At(c, e, o, Ids(c)), n) = At(c, e, o + 4 * n, before)
      /\ before \in Seq(Values)
  BY <1>1, <1>3, WordsRead
<1> HIDE DEF before
<1>5. /\ GoodSetAt(c, k, e) =>
           /\ r = At(c, e, SetEnd(c, k, e), before \o SetWordsAt(c, k, e))
           /\ before \o SetWordsAt(c, k, e) \in Seq(Values)
      /\ ~GoodSetAt(c, k, e) => ~r.valid
  BY <1>3, <1>4, SetRead
<1>6. At(c, e, SetEnd(c, k, e), before \o SetWordsAt(c, k, e)).valid
  BY DEF At
<1>7. ReadContent("gap", Reader(c, e)) = r
  BY <1>2, <1>3, <1>4
<1> HIDE DEF r
<1>8. /\ r.valid <=> GoodSetAt(c, k, e)
      /\ GoodSetAt(c, k, e) => /\ r = At(c, e, SetEnd(c, k, e), before \o SetWordsAt(c, k, e))
                               /\ before \o SetWordsAt(c, k, e) \in Seq(Values)
  BY <1>5, <1>6
<1> QED BY <1>4, <1>7, <1>8 DEF k, before, o, n

-----------------------------------------------------------------------------
(* What decoding a DATA submessage reads.                                  *)

(* Reading a number of n bytes where no padding is needed.                 *)
LEMMA NoPaddingOf ==
  ASSUME NEW o \in Nat, NEW n \in Nat \ {0}, o % n = 0
  PROVE  Padding(n, o) = 0
<1> DEFINE q == o \div n
<1>1. q \in Int /\ o = q * n + 0
  BY Division
<1> HIDE DEF q
<1>2. -o = (-q) * n + 0 /\ -q \in Int /\ -o \in Int /\ 0 \in 0..n - 1
  BY <1>1
<1>3. (-o) % n = 0
  BY <1>2, DivisionUnique
<1> QED BY <1>3 DEF Padding

LEMMA NumberRead ==
  ASSUME NEW c \in Seq(Bytes), NEW e \in Endiannesses, NEW o \in Nat,
         NEW read \in Seq(Values), NEW n \in Nat \ {0}, o % n = 0, o + n <= Len(c)
  PROVE  LET x == FromBytes(SubSeq(c, o + 1, o + n), e) IN
         /\ Read(At(c, e, o, read), n) = At(c, e, o + n, Append(read, x))
         /\ x \in 0..Capacity(n) - 1 /\ x \in Values
         /\ Append(read, x) \in Seq(Values)
<1> DEFINE r == At(c, e, o, read)
           p == Padding(n, o)
           part == SubSeq(c, o + 1, o + n)
           x == FromBytes(part, e)
<1>1. r \in Readers
  BY AtType
<1>2. /\ r.offset = o /\ r.bytes = c /\ r.valid /\ r.read = read /\ r.endianness = e
      /\ r = At(c, e, o, read)
  BY DEF At
<1>3. p = 0
  BY NoPaddingOf
<1> HIDE DEF r
<1>4. p = Padding(n, r.offset) /\ r.offset + p + n = o + n /\ r.offset + p + 1 = o + 1
  BY <1>2, <1>3
<1> HIDE DEF p
<1>5. Read(r, n) = [r EXCEPT !.offset = o + n, !.read = Append(read, x)]
  <2>1. r.valid /\ r.offset + p + n <= Len(r.bytes)
    BY <1>2, <1>4
  <2>2. Read(r, n) = [r EXCEPT !.offset = r.offset + p + n,
                               !.read = Append(r.read,
                                  FromBytes(SubSeq(r.bytes, r.offset + p + 1, r.offset + p + n),
                                            r.endianness))]
    BY <1>1, <1>4, <2>1, ReadEffect
  <2> QED BY <2>2, <1>2, <1>4
<1>6. part \in Seq(Bytes) /\ Len(part) = n
  BY Part
<1> HIDE DEF part
<1>7. x \in 0..Capacity(n) - 1
  BY <1>6, FromBytesType
<1> HIDE DEF x
<1>8. x \in Values
  BY <1>7, CapacityFacts DEF Values
<1>9. Append(read, x) \in Seq(Values)
  BY <1>8, Appended
<1>10. Read(r, n) = At(c, e, o + n, Append(read, x))
  BY <1>2, <1>5 DEF At
<1> QED BY <1>2, <1>7, <1>8, <1>9, <1>10 DEF x, part

-----------------------------------------------------------------------------
(* What is read of the content of a DATA submessage.                       *)
DataHead(c, e) ==
  Append(Append(<<FromBytes(SubSeq(c, 1, 2), e), FromBytes(SubSeq(c, 3, 4), e)>>,
                SubSeq(c, 5, 8)), SubSeq(c, 9, 12))

LEMMA DataRead ==
  ASSUME NEW c \in Seq(Bytes), NEW e \in Endiannesses, Len(c) >= 20
  PROVE  /\ ReadContent("data", Reader(c, e)) = At(c, e, 20, DataHead(c, e) \o WordsAt(c, 12, 2, e))
         /\ DataHead(c, e) \in Seq(Values) /\ Len(DataHead(c, e)) = 4
         /\ DataHead(c, e) \o WordsAt(c, 12, 2, e) \in Seq(Values)
         /\ FromBytes(SubSeq(c, 1, 2), e) \in 0..Capacity(2) - 1
         /\ FromBytes(SubSeq(c, 3, 4), e) \in 0..Capacity(2) - 1
         /\ DataHead(c, e)[1] = FromBytes(SubSeq(c, 1, 2), e)
         /\ DataHead(c, e)[2] = FromBytes(SubSeq(c, 3, 4), e)
         /\ DataHead(c, e)[3] = SubSeq(c, 5, 8) /\ DataHead(c, e)[4] = SubSeq(c, 9, 12)
<1> DEFINE zero == 0
           two == 2
           four == 4
           k == 12
           first == FromBytes(SubSeq(c, zero + 1, zero + two), e)
           second == FromBytes(SubSeq(c, two + 1, two + two), e)
           reader == SubSeq(c, four + 1, four + four)
           writer == SubSeq(c, (four + four) + 1, (four + four) + four)
<1>1. Reader(c, e) = At(c, e, zero, <<>>) /\ Reader(c, e) \in Readers /\ <<>> \in Seq(Values)
  BY ReaderType DEF Reader, At
<1>2. ReadContent("data", Reader(c, e))
        = ReadWords(ReadBytes(ReadBytes(Read(Read(At(c, e, zero, <<>>), two), two), four), four), two)
  BY <1>1, TwoSizes DEF ReadContent, ReadIds
<1>3. /\ zero \in Nat /\ two \in Nat \ {0} /\ two \in Nat /\ four \in Nat /\ k \in Nat
      /\ zero % two = 0 /\ two % two = 0 /\ k % 4 = 0
      /\ zero + two = two /\ two + two = four /\ (four + four) + four = k
      /\ zero + two <= Len(c) /\ two + two <= Len(c) /\ (four + four) + four <= Len(c)
      /\ k <= Len(c) /\ k + 4 * two <= Len(c) /\ k + 4 * two = 20
  OBVIOUS
<1>4. /\ zero + 1 = 1 /\ zero + two = 2 /\ two + 1 = 3 /\ two + two = 4 /\ four + 1 = 5
      /\ four + four = 8 /\ (four + four) + 1 = 9 /\ (four + four) + four = 12 /\ two = 2 /\ k = 12
  OBVIOUS
<1> HIDE DEF zero, two, four, k
<1>5. /\ Read(At(c, e, zero, <<>>), two) = At(c, e, zero + two, Append(<<>>, first))
      /\ first \in 0..Capacity(two) - 1 /\ first \in Values /\ Append(<<>>, first) \in Seq(Values)
  BY <1>1, <1>3, NumberRead
<1> DEFINE one == Append(<<>>, first)
<1> HIDE DEF first
<1>6. one \in Seq(Values)
  BY <1>5
<1> HIDE DEF one
<1>7. /\ Read(At(c, e, two, one), two) = At(c, e, two + two, Append(one, second))
      /\ second \in 0..Capacity(two) - 1 /\ second \in Values /\ Append(one, second) \in Seq(Values)
  BY <1>3, <1>6, NumberRead
<1> HIDE DEF second
<1>8. Append(one, second) = <<first, second>> /\ <<first, second>> \in Seq(Values)
  BY <1>5, <1>7, TwoElements DEF one
<1> DEFINE pair == <<first, second>>
<1>9. pair \in Seq(Values) /\ Len(pair) = 2 /\ pair[1] = first /\ pair[2] = second
  BY <1>8
<1> HIDE DEF pair
<1>10. /\ ReadBytes(ReadBytes(At(c, e, four, pair), four), four)
            = At(c, e, (four + four) + four, Append(Append(pair, reader), writer))
       /\ reader \in Values /\ writer \in Values
  <2>1. pair \in Seq(Values) /\ four \in Nat /\ (four + four) + four <= Len(c)
    BY <1>3, <1>9
  <2> HIDE DEF reader, writer
  <2>2. LET x == SubSeq(c, four + 1, four + four)
            y == SubSeq(c, (four + four) + 1, (four + four) + four)
        IN /\ ReadBytes(ReadBytes(At(c, e, four, pair), four), four)
                 = At(c, e, (four + four) + four, Append(Append(pair, x), y))
           /\ x \in Values /\ y \in Values
    BY <2>1, TwoParts, ZenonT(60)
  <2> QED BY <2>2 DEF reader, writer
<1> HIDE DEF reader, writer
<1> DEFINE three == Append(pair, reader)
           head == Append(three, writer)
<1>11. /\ three \in Seq(Values) /\ Len(three) = 3 /\ three[1] = first /\ three[2] = second
       /\ three[3] = reader
  <2>1. pair \in Seq(Values)
    BY <1>9
  <2>2. /\ three \in Seq(Values) /\ Len(three) = Len(pair) + 1 /\ three[Len(pair) + 1] = reader
        /\ \A i \in 1..Len(pair) : three[i] = pair[i]
    BY <2>1, <1>10, Appended
  <2> QED BY <2>2, <1>9
<1> HIDE DEF three
<1>12. /\ head \in Seq(Values) /\ Len(head) = 4 /\ head[1] = first /\ head[2] = second
       /\ head[3] = reader /\ head[4] = writer
  <2>1. three \in Seq(Values)
    BY <1>11
  <2>2. /\ head \in Seq(Values) /\ Len(head) = Len(three) + 1 /\ head[Len(three) + 1] = writer
        /\ \A i \in 1..Len(three) : head[i] = three[i]
    BY <2>1, <1>10, Appended
  <2> QED BY <2>2, <1>11
<1> HIDE DEF head
<1>13. /\ ReadWords(At(c, e, k, head), two) = At(c, e, k + 4 * two, head \o WordsAt(c, k, two, e))
       /\ head \o WordsAt(c, k, two, e) \in Seq(Values)
  BY <1>3, <1>12, WordsRead
<1>14. head = DataHead(c, e)
  BY <1>4 DEF head, three, pair, reader, writer, first, second, DataHead
<1>15. ReadContent("data", Reader(c, e)) = ReadWords(At(c, e, k, head), two)
  BY <1>2, <1>3, <1>5, <1>7, <1>8, <1>10 DEF one, head, three, pair
<1>16. first = FromBytes(SubSeq(c, 1, 2), e) /\ second = FromBytes(SubSeq(c, 3, 4), e)
       /\ reader = SubSeq(c, 5, 8) /\ writer = SubSeq(c, 9, 12)
  BY <1>4 DEF first, second, reader, writer
<1> QED BY <1>3, <1>4, <1>5, <1>7, <1>12, <1>13, <1>14, <1>15, <1>16

-----------------------------------------------------------------------------
(* A buffer that decodes was long enough, and its fields were those.       *)

LEMMA BehindIds ==
  ASSUME NEW c \in Seq(Bytes), Ids(c) \in Seq(Values), NEW words \in Seq(Values)
  PROVE  /\ Ids(c) \o words \in Seq(Values) /\ Len(Ids(c) \o words) = 2 + Len(words)
         /\ (Ids(c) \o words)[1] = SubSeq(c, 1, 4) /\ (Ids(c) \o words)[2] = SubSeq(c, 5, 8)
         /\ \A i \in 1..Len(words) : (Ids(c) \o words)[2 + i] = words[i]
<1> DEFINE ids == Ids(c)
<1>1. Len(ids) = 2 /\ ids[1] = SubSeq(c, 1, 4) /\ ids[2] = SubSeq(c, 5, 8)
  BY DEF Ids
<1> HIDE DEF ids
<1>2. ids \in Seq(Values)
  BY DEF ids
<1> DEFINE all == ids \o words
<1>3. /\ all \in Seq(Values) /\ Len(all) = Len(ids) + Len(words)
      /\ \A i \in 1..Len(ids) : all[i] = ids[i]
      /\ \A i \in 1..Len(words) : all[Len(ids) + i] = words[i]
  BY <1>2, Concatenation
<1> HIDE DEF all
<1>4. all[1] = ids[1] /\ all[2] = ids[2]
  BY <1>1, <1>3
<1> QED BY <1>1, <1>3, <1>4 DEF all, ids

-----------------------------------------------------------------------------
(* The messages the bytes of a content hold.                               *)
HeartbeatIn(w, c, e) ==
  [kind |-> "heartbeat", from |-> DecodeMessageHeader(w.header),
   reader_id |-> SubSeq(c, 1, 4), writer_id |-> SubSeq(c, 5, 8),
   first |-> SequenceNumber(WordAt(c, 8, e), WordAt(c, 12, e)),
   last |-> SequenceNumber(WordAt(c, 16, e), WordAt(c, 20, e)),
   count |-> Signed(WordAt(c, 24, e), 4), flags |-> w.flags \ {0}]

AcknackIn(w, c, e) ==
  [kind |-> "acknack", from |-> DecodeMessageHeader(w.header),
   reader_id |-> SubSeq(c, 1, 4), writer_id |-> SubSeq(c, 5, 8), set |-> SetValueAt(c, 8, e),
   count |-> Signed(WordAt(c, SetEnd(c, 8, e), e), 4), flags |-> w.flags \ {0}]

GapIn(w, c, e) ==
  [kind |-> "gap", from |-> DecodeMessageHeader(w.header),
   reader_id |-> SubSeq(c, 1, 4), writer_id |-> SubSeq(c, 5, 8),
   start |-> SequenceNumber(WordAt(c, 8, e), WordAt(c, 12, e)), set |-> SetValueAt(c, 16, e)]

DataIn(w, c, e) ==
  [kind |-> "data", from |-> DecodeMessageHeader(w.header),
   reader_id |-> SubSeq(c, 5, 8), writer_id |-> SubSeq(c, 9, 12),
   sn |-> SequenceNumber(WordAt(c, 12, e), WordAt(c, 16, e)),
   payload |-> SubSeq(c, 4 + FromBytes(SubSeq(c, 3, 4), e) + 1, Len(c))]

LEMMA HeartbeatMade ==
  ASSUME NEW w, NEW c \in Seq(Bytes), NEW e \in Endiannesses, Len(c) >= 28
  PROVE  ControlMessage("heartbeat", w, Ids(c) \o WordsAt(c, 8, 5, e)) = HeartbeatIn(w, c, e)
<1> DEFINE words == WordsAt(c, 8, 5, e)
           read == Ids(c) \o words
<1>1. /\ words[1] = WordAt(c, 8, e) /\ words[2] = WordAt(c, 12, e) /\ words[3] = WordAt(c, 16, e)
      /\ words[4] = WordAt(c, 20, e) /\ words[5] = WordAt(c, 24, e)
  <2>1. /\ 8 + 4 * (1 - 1) = 8 /\ 8 + 4 * (2 - 1) = 12 /\ 8 + 4 * (3 - 1) = 16
        /\ 8 + 4 * (4 - 1) = 20 /\ 8 + 4 * (5 - 1) = 24
    OBVIOUS
  <2> QED BY <2>1 DEF WordsAt
<1>2. words \in Seq(Values) /\ Len(words) = 5
  <2> DEFINE o == 8
             n == 5
  <2>1. o \in Nat /\ n \in Nat /\ o + 4 * n <= Len(c)
    OBVIOUS
  <2> HIDE DEF o, n
  <2>2. WordsAt(c, o, n, e) \in Seq(Values) /\ Len(WordsAt(c, o, n, e)) = n
    BY <2>1, WordsType
  <2> QED BY <2>2 DEF o, n
<1> HIDE DEF words
<1>3. Ids(c) \in Seq(Values)
  BY IdsRead
<1>4. /\ read[1] = SubSeq(c, 1, 4) /\ read[2] = SubSeq(c, 5, 8)
      /\ \A i \in 1..Len(words) : read[2 + i] = words[i]
  <2>1. words \in Seq(Values)
    BY <1>2
  <2> QED BY <2>1, <1>3, BehindIds
<1> HIDE DEF read
<1>5. /\ read[3] = words[1] /\ read[4] = words[2] /\ read[5] = words[3] /\ read[6] = words[4]
      /\ read[7] = words[5]
  <2>1. /\ read[2 + 1] = words[1] /\ read[2 + 2] = words[2] /\ read[2 + 3] = words[3]
        /\ read[2 + 4] = words[4] /\ read[2 + 5] = words[5]
    BY <1>2, <1>4
  <2> QED BY <2>1
<1>6. ControlMessage("heartbeat", w, read) = HeartbeatIn(w, c, e)
  BY <1>1, <1>4, <1>5 DEF ControlMessage, HeartbeatIn
<1> QED BY <1>6 DEF read, words

LEMMA AcknackMade ==
  ASSUME NEW w, NEW c \in Seq(Bytes), NEW e \in Endiannesses, Len(c) >= 24,
         GoodSetAt(c, 8, e), SetEnd(c, 8, e) + 4 <= Len(c)
  PROVE  ControlMessage("acknack", w,
                        (Ids(c) \o SetWordsAt(c, 8, e)) \o WordsAt(c, SetEnd(c, 8, e), 1, e))
           = AcknackIn(w, c, e)
<1> DEFINE o == 8
           n == 1
           k == SetEnd(c, o, e)
           set == SetWordsAt(c, o, e)
           word == WordsAt(c, k, n, e)
           ids == Ids(c)
           read == (ids \o set) \o word
<1>1. ids \in Seq(Values) /\ Len(ids) = 2 /\ ids[1] = SubSeq(c, 1, 4) /\ ids[2] = SubSeq(c, 5, 8)
  <2>1. Len(ids) = 2 /\ ids[1] = SubSeq(c, 1, 4) /\ ids[2] = SubSeq(c, 5, 8)
    BY DEF Ids
  <2> QED BY <2>1, IdsRead
<1>2. o \in Nat /\ o + 12 <= Len(c) /\ n \in Nat /\ n = 1 /\ o % 4 = 0 /\ GoodSetAt(c, o, e)
      /\ k + 4 <= Len(c)
  OBVIOUS
<1> HIDE DEF o, n
<1>3. set \in Seq(Values)
  BY <1>2, GoodSet
<1>4. k \in Nat
  BY <1>2, GoodSet
<1> HIDE DEF k, ids, set
<1>5. word \in Seq(Values) /\ Len(word) = 1 /\ word[1] = WordAt(c, k, e)
  <2>1. k + 4 * n <= Len(c)
    BY <1>2, <1>4
  <2>2. word \in Seq(Values) /\ Len(word) = n
    <3>1. n \in Nat
      BY <1>2
    <3> QED BY <2>1, <3>1, <1>4, WordsType
  <2>3. k + 4 * (1 - 1) = k /\ 1 \in 1..n
    BY <1>2, <1>4
  <2>4. word[1] = WordAt(c, k + 4 * (1 - 1), e)
    BY <2>3 DEF WordsAt
  <2> QED BY <2>2, <2>3, <2>4, <1>2
<1> HIDE DEF word
<1>6. SetAt(read, 3) = SetValueAt(c, o, e)
  <2>1. ids \in Seq(Values) /\ word \in Seq(Values)
    BY <1>1, <1>5
  <2>2. SetAt((ids \o SetWordsAt(c, o, e)) \o word, Len(ids) + 1) = SetValueAt(c, o, e)
    BY <2>1, <1>2, SetInRead
  <2>3. Len(ids) + 1 = 3
    BY <1>1
  <2> QED BY <2>2, <2>3 DEF set
<1>7. /\ read[1] = SubSeq(c, 1, 4) /\ read[2] = SubSeq(c, 5, 8) /\ Last(read) = WordAt(c, k, e)
  <2> DEFINE x == ids \o set
  <2>1. ids \in Seq(Values) /\ word \in Seq(Values)
    BY <1>1, <1>5
  <2>2. /\ x \in Seq(Values) /\ Len(x) = Len(ids) + Len(set)
        /\ \A i \in 1..Len(ids) : x[i] = ids[i]
    BY <2>1, <1>3, Concatenation
  <2> HIDE DEF x
  <2>3. x \in Seq(Values)
    BY <2>2
  <2> DEFINE y == x \o word
  <2>4. /\ y \in Seq(Values) /\ Len(y) = Len(x) + Len(word)
        /\ \A i \in 1..Len(x) : y[i] = x[i]
        /\ \A i \in 1..Len(word) : y[Len(x) + i] = word[i]
    BY <2>1, <2>3, Concatenation
  <2> HIDE DEF y
  <2>5. Len(set) \in Nat
    BY <1>3
  <2>6. y[1] = ids[1] /\ y[2] = ids[2]
    <3>1. 1 \in 1..Len(ids) /\ 2 \in 1..Len(ids) /\ 1 \in 1..Len(x) /\ 2 \in 1..Len(x)
      BY <2>2, <2>5, <1>1
    <3>2. x[1] = ids[1] /\ x[2] = ids[2]
      BY <3>1, <2>2
    <3>3. y[1] = x[1] /\ y[2] = x[2]
      BY <3>1, <2>4
    <3> QED BY <3>2, <3>3
  <2>7. y[Len(y)] = word[1]
    <3>1. Len(y) = Len(x) + 1 /\ y[Len(x) + 1] = word[1]
      BY <2>4, <1>5
    <3> QED BY <3>1
  <2>8. read = y
    BY DEF x, y
  <2> QED BY <2>6, <2>7, <2>8, <1>1, <1>5 DEF Last
<1> HIDE DEF read
<1>8. ControlMessage("acknack", w, read) = AcknackIn(w, c, e)
  BY <1>6, <1>7 DEF ControlMessage, AcknackIn, o, k
<1> QED BY <1>8 DEF read, o, n, k, set, word, ids

LEMMA GapMade ==
  ASSUME NEW w, NEW c \in Seq(Bytes), NEW e \in Endiannesses, Len(c) >= 28, GoodSetAt(c, 16, e)
  PROVE  ControlMessage("gap", w, (Ids(c) \o WordsAt(c, 8, 2, e)) \o SetWordsAt(c, 16, e))
           = GapIn(w, c, e)
<1> DEFINE o == 8
           n == 2
           k == 16
           set == SetWordsAt(c, k, e)
           words == WordsAt(c, o, n, e)
           ids == Ids(c)
           before == ids \o words
           read == before \o set
           none == <<>>
<1>1. ids \in Seq(Values)
  BY IdsRead
<1>2. /\ k \in Nat /\ k + 12 <= Len(c) /\ o \in Nat /\ n \in Nat /\ n = 2 /\ GoodSetAt(c, k, e)
      /\ o + 4 * n <= Len(c) /\ k = 16 /\ o = 8
  OBVIOUS
<1> HIDE DEF o, n, k
<1>3. words \in Seq(Values) /\ Len(words) = n
  <2>1. o \in Nat /\ n \in Nat /\ o + 4 * n <= Len(c)
    BY <1>2
  <2> QED BY <2>1, WordsType
<1>4. words[1] = WordAt(c, 8, e) /\ words[2] = WordAt(c, 12, e)
  <2>1. o + 4 * (1 - 1) = 8 /\ o + 4 * (2 - 1) = 12 /\ 1 \in 1..n /\ 2 \in 1..n
    BY <1>2
  <2>2. words[1] = WordAt(c, o + 4 * (1 - 1), e) /\ words[2] = WordAt(c, o + 4 * (2 - 1), e)
    BY <2>1 DEF WordsAt
  <2> QED BY <2>1, <2>2
<1>5. set \in Seq(Values)
  BY <1>2, GoodSet
<1> HIDE DEF set, words
<1>6. /\ before \in Seq(Values) /\ Len(before) = 2 + Len(words)
      /\ before[1] = SubSeq(c, 1, 4) /\ before[2] = SubSeq(c, 5, 8)
      /\ \A i \in 1..Len(words) : before[2 + i] = words[i]
  <2>1. words \in Seq(Values)
    BY <1>3
  <2> QED BY <2>1, <1>1, BehindIds
<1> HIDE DEF before
<1>7. before[3] = words[1] /\ before[4] = words[2] /\ Len(before) = 4
  <2>1. before[2 + 1] = words[1] /\ before[2 + 2] = words[2]
    BY <1>2, <1>3, <1>6
  <2> QED BY <2>1, <1>2, <1>3, <1>6
<1>8. before \in Seq(Values)
  BY <1>6
<1>9. /\ read \in Seq(Values) /\ \A i \in 1..Len(before) : read[i] = before[i]
  BY <1>5, <1>8, Concatenation
<1>10. SetAt(read, 5) = SetValueAt(c, k, e)
  <2>1. none \in Seq(Values)
    OBVIOUS
  <2>2. read \o none = read
    BY <1>9
  <2> HIDE DEF none
  <2>3. SetAt((before \o SetWordsAt(c, k, e)) \o none, Len(before) + 1) = SetValueAt(c, k, e)
    BY <2>1, <1>2, <1>8, SetInRead
  <2>4. Len(before) + 1 = 5
    BY <1>7
  <2> HIDE DEF read
  <2> QED BY <2>2, <2>3, <2>4 DEF set, read
<1> HIDE DEF read
<1>11. read[1] = before[1] /\ read[2] = before[2] /\ read[3] = before[3] /\ read[4] = before[4]
  BY <1>7, <1>9
<1>12. ControlMessage("gap", w, read) = GapIn(w, c, e)
  BY <1>2, <1>4, <1>6, <1>7, <1>10, <1>11 DEF ControlMessage, GapIn
<1> QED BY <1>12 DEF read, before, ids, words, set, o, n, k

LEMMA DataMade ==
  ASSUME NEW w, NEW c \in Seq(Bytes), NEW e \in Endiannesses, Len(c) >= 20
  PROVE  DataMessage(w, DataHead(c, e) \o WordsAt(c, 12, 2, e), c) = DataIn(w, c, e)
<1> DEFINE o == 12
           n == 2
           head == DataHead(c, e)
           words == WordsAt(c, o, n, e)
           read == head \o words
<1>1. /\ head \in Seq(Values) /\ Len(head) = 4 /\ head[2] = FromBytes(SubSeq(c, 3, 4), e)
      /\ head[3] = SubSeq(c, 5, 8) /\ head[4] = SubSeq(c, 9, 12)
  BY DataRead
<1>2. o \in Nat /\ n \in Nat /\ o + 4 * n <= Len(c) /\ n = 2 /\ o = 12
  OBVIOUS
<1> HIDE DEF o, n, head
<1>3. words \in Seq(Values) /\ Len(words) = n
  <2>1. o \in Nat /\ n \in Nat /\ o + 4 * n <= Len(c)
    BY <1>2
  <2> QED BY <2>1, WordsType
<1>4. words[1] = WordAt(c, 12, e) /\ words[2] = WordAt(c, 16, e)
  <2>1. o + 4 * (1 - 1) = 12 /\ o + 4 * (2 - 1) = 16 /\ 1 \in 1..n /\ 2 \in 1..n
    BY <1>2
  <2>2. words[1] = WordAt(c, o + 4 * (1 - 1), e) /\ words[2] = WordAt(c, o + 4 * (2 - 1), e)
    BY <2>1 DEF WordsAt
  <2> QED BY <2>1, <2>2
<1> HIDE DEF words
<1>5. head \in Seq(Values) /\ words \in Seq(Values)
  BY <1>1, <1>3
<1>6. /\ \A i \in 1..Len(head) : read[i] = head[i]
      /\ \A i \in 1..Len(words) : read[Len(head) + i] = words[i]
  BY <1>5, Concatenation
<1> HIDE DEF read
<1>7. /\ read[2] = head[2] /\ read[3] = head[3] /\ read[4] = head[4]
      /\ read[5] = words[1] /\ read[6] = words[2]
  <2>1. read[4 + 1] = words[1] /\ read[4 + 2] = words[2]
    BY <1>1, <1>2, <1>3, <1>6
  <2> QED BY <2>1, <1>1, <1>6
<1>8. DataMessage(w, read, c) = DataIn(w, c, e)
  BY <1>1, <1>4, <1>7 DEF DataMessage, DataIn
<1> QED BY <1>8 DEF read, words, head, o, n

-----------------------------------------------------------------------------
(* Bits of a word: the number a set's bitmap asks for.                     *)

(* Each positive number has a highest bit.                                 *)
LEMMA HighestBit ==
  ASSUME NEW n \in Nat, NEW x \in Nat, 0 < x, x < 2^n
  PROVE  \E k \in 0..n - 1 : 2^k <= x /\ x < 2 * 2^k
<1> DEFINE Good(j) == x < 2^j => \E k \in 0..j - 1 : 2^k <= x /\ x < 2 * 2^k
           S == {j \in Nat : Good(j)}
<1>1. 0 \in S
  <2>1. ~(x < 2^0)
    BY PowerZero
  <2> QED BY <2>1
<1>2. ASSUME NEW j \in Nat, j \in S PROVE j + 1 \in S
  <2> DEFINE y == 2^j
             z == 2^(j + 1)
  <2>1. y \in Nat \ {0} /\ z = 2 * y
    BY PowerPositive
  <2>2. CASE x < y
    <3>1. PICK k \in 0..j - 1 : 2^k <= x /\ x < 2 * 2^k
      BY <1>2, <2>2
    <3>2. k \in 0..(j + 1) - 1
      OBVIOUS
    <3>3. Good(j + 1)
      BY <3>1, <3>2
    <3> QED BY <3>3
  <2>3. CASE ~(x < y)
    <3>1. j \in 0..(j + 1) - 1
      OBVIOUS
    <3> HIDE DEF y, z
    <3>2. x < z => y <= x /\ x < 2 * y
      BY <2>1, <2>3
    <3>3. Good(j + 1)
      BY <3>1, <3>2 DEF y, z
    <3> QED BY <3>3
  <2> QED BY <2>2, <2>3
<1> HIDE DEF S
<1>3. Nat \subseteq S
  BY <1>1, <1>2, Induction
<1>4. Good(n)
  BY <1>3 DEF S
<1> QED BY <1>4

LEMMA HighestIsSet ==
  ASSUME NEW x \in Nat, NEW y \in Nat \ {0}, y <= x, x < 2 * y
  PROVE  (x \div y) % 2 = 1
<1>1. x = 1 * y + (x - y) /\ x - y \in 0..y - 1 /\ 1 \in Int
  OBVIOUS
<1>2. x \div y = 1
  BY <1>1, DivisionUnique
<1> QED BY <1>2

(* A number whose lower u bits are 0 has its highest bit above them.       *)
LEMMA HighBits ==
  ASSUME NEW x \in Nat, NEW u \in Nat, NEW k \in Nat, x % 2^u = 0, 0 < x, x < 2 * 2^k
  PROVE  u <= k
<1> SUFFICES ASSUME k + 1 <= u PROVE FALSE
  OBVIOUS
<1> DEFINE y == 2^u
           z == 2^(k + 1)
<1>1. k + 1 \in Nat /\ z = 2 * 2^k
  BY PowerPositive
<1>2. z <= y
  BY <1>1, PowerMonotonic
<1>3. y \in Nat \ {0} /\ z \in Nat
  BY <1>1, PowerPositive
<1>4. x < z /\ x % y = 0
  BY <1>1
<1> HIDE DEF y, z
<1>5. x = 0 * y + x /\ x \in 0..y - 1 /\ 0 \in Int
  BY <1>2, <1>3, <1>4
<1>6. x % y = x
  BY <1>3, <1>5, DivisionUnique
<1> QED BY <1>4, <1>6

LEMMA WordCapacity == Capacity(4) = 2^WordBits
BY DEF Capacity, WordBits

(* A set whose bitmap has a bit, and no unused one, names a number.        *)
LEMMA AskedNumber ==
  ASSUME NEW set, set.base \in Nat, set.num_bits \in Nat,
         set.bitmap \in Seq(0..Capacity(4) - 1),
         Len(set.bitmap) = Words(set.num_bits),
         set.num_bits > 0 =>
           set.bitmap[Words(set.num_bits)] % 2^UnusedBits(set.num_bits) = 0,
         NEW w \in DOMAIN set.bitmap, set.bitmap[w] # 0
  PROVE  NumbersOf(set) # {}
<1> DEFINE nb == set.num_bits
           n == Words(nb)
           u == UnusedBits(nb)
           b == WordBits
           x == set.bitmap[w]
           full == 0..Capacity(4) - 1
<1>1. /\ b \in Nat \ {0} /\ n \in Nat /\ nb <= n * b /\ n * b - nb = u /\ u \in 0..b - 1
      /\ nb \in Nat
  BY WordCount
<1>2. w \in 1..n /\ x \in full
  <2> DEFINE bitmap == set.bitmap
  <2>1. bitmap \in Seq(full) /\ Len(bitmap) = n /\ w \in DOMAIN bitmap
    OBVIOUS
  <2> HIDE DEF bitmap, full, n
  <2>2. w \in 1..n /\ bitmap[w] \in full
    BY <2>1
  <2> QED BY <2>2 DEF bitmap
<1>3. x \in Nat /\ 0 < x /\ x < 2^b
  <2> DEFINE cap == Capacity(4)
  <2>1. cap \in Nat /\ cap = 2^b /\ full = 0..cap - 1
    BY WordCapacity, CapacityFacts
  <2> HIDE DEF cap, full, x, b
  <2>2. x \in Nat /\ x < cap
    BY <1>2, <2>1
  <2>3. x # 0
    BY DEF x
  <2> QED BY <2>1, <2>2, <2>3
<1> HIDE DEF n, x, b, u, full
<1>4. PICK k \in 0..b - 1 : 2^k <= x /\ x < 2 * 2^k
  BY <1>1, <1>3, HighestBit
<1>5. 2^k \in Nat \ {0} /\ k \in Nat
  BY <1>1, PowerPositive
<1>6. (x \div 2^k) % 2 = 1
  BY <1>3, <1>4, <1>5, HighestIsSet
<1> DEFINE rest == b - 1 - k
           offset == (w - 1) * b + rest
<1>7. rest \in 0..b - 1 /\ w - 1 \in Nat
  BY <1>1, <1>2
<1>8. offset \in Nat
  <2>1. (w - 1) * b \in Nat
    BY <1>1, <1>7
  <2> QED BY <2>1, <1>7
<1> HIDE DEF rest
<1>9. offset \div b = w - 1 /\ offset % b = rest
  <2> DEFINE q == w - 1
  <2>1. offset = q * b + rest /\ q \in Int
    BY <1>7
  <2> HIDE DEF offset, q
  <2>2. offset \div b = q /\ offset % b = rest
    <3>1. b \in Nat \ {0} /\ rest \in 0..b - 1 /\ offset \in Int
      BY <1>1, <1>7, <1>8
    <3> QED BY <2>1, <3>1, DivisionUnique
  <2> QED BY <2>2 DEF q
<1>10. b - 1 - rest = k
  BY <1>1, <1>5 DEF rest
<1>11. offset < nb
  <2>1. CASE w = n
    <3>1. nb > 0
      <4> SUFFICES ASSUME nb = 0 PROVE FALSE
        BY <1>1
      <4>1. n * b = u /\ u < b /\ n >= 1
        BY <1>1, <1>2
      <4>2. b <= n * b
        BY <1>1, <1>2
      <4> QED BY <4>1, <4>2, <1>1
    <3>2. x % 2^u = 0
      BY <2>1, <3>1 DEF x, n, u
    <3>3. u <= k
      <4>1. u \in Nat
        BY <1>1
      <4> QED BY <1>3, <1>4, <1>5, <3>2, <4>1, HighBits
    <3>4. offset = n * b - 1 - k
      <4>1. (n - 1) * b = n * b - b
        BY <1>1
      <4> QED BY <4>1, <1>1, <1>5, <2>1 DEF rest
    <3> QED BY <3>3, <3>4, <1>1, <1>5
  <2>2. CASE w # n
    <3> DEFINE p == (n - 1) * b
               t == n * b
    <3>1. w - 1 \in 0..(n - 1) - 1 /\ n - 1 \in Nat \ {0} /\ n \in Int /\ b \in Int
      BY <2>2, <1>1, <1>2
    <3>2. offset \in 0..p - 1
      BY <3>1, <1>1, <1>7, Bounded
    <3>3. p = t - b
      BY <3>1, PreviousMultiple
    <3>4. t \in Nat /\ t - nb = u /\ u <= b - 1 /\ b \in Nat /\ nb \in Nat /\ u \in Nat
      BY <1>1
    <3> HIDE DEF offset, p, t
    <3> QED BY <3>2, <3>3, <3>4
  <2> QED BY <2>1, <2>2
<1> DEFINE m == set.base + offset
<1>12. m - set.base = offset /\ m >= set.base /\ m \in set.base..set.base + nb - 1
  <2> HIDE DEF offset
  <2> QED BY <1>1, <1>8, <1>11
<1>13. InSet(m, set)
  <2> HIDE DEF offset, m
  <2>1. offset \div b < Len(set.bitmap) /\ offset \div b + 1 = w
    BY <1>1, <1>2, <1>9 DEF n
  <2>2. (set.bitmap[offset \div b + 1] \div 2^(b - 1 - (offset % b))) % 2 = 1
    BY <2>1, <1>6, <1>9, <1>10 DEF x
  <2> QED BY <1>11, <1>12, <2>1, <2>2 DEF InSet, b
<1> QED BY <1>12, <1>13 DEF NumbersOf

-----------------------------------------------------------------------------
(* A decoded submessage is valid.                                          *)

(* What decoding makes of the content c of a submessage, by its kind.      *)
MessageIn(w, c, e) ==
  CASE w.kind = "heartbeat" -> HeartbeatIn(w, c, e)
    [] w.kind = "acknack"   -> AcknackIn(w, c, e)
    [] w.kind = "gap"       -> GapIn(w, c, e)
    [] w.kind = "data"      -> DataIn(w, c, e)

Readable(w, c, e) ==
  CASE w.kind = "heartbeat" -> TRUE
    [] w.kind = "acknack"   -> GoodSetAt(c, 8, e) /\ SetEnd(c, 8, e) + 4 <= Len(c)
    [] w.kind = "gap"       -> GoodSetAt(c, 16, e)
    [] w.kind = "data"      -> /\ FromBytes(SubSeq(c, 1, 2), e) = 0
                               /\ FromBytes(SubSeq(c, 3, 4), e) >= 16
                               /\ 4 + FromBytes(SubSeq(c, 3, 4), e) <= Len(c)

LEMMA ContentDecoded ==
  ASSUME NEW w, NEW c \in Seq(Bytes), NEW e \in Endiannesses,
         w.kind \in SubmessageKinds, Len(c) >= Minimum[w.kind]
  PROVE  DecodeContent(w, c, ReadContent(w.kind, Reader(c, e)))
           = IF Readable(w, c, e) /\ Sound(MessageIn(w, c, e))
               THEN MessageIn(w, c, e) ELSE Rejected
<1> DEFINE r == ReadContent(w.kind, Reader(c, e))
<1>1. CASE w.kind = "heartbeat"
  <2>1. Len(c) >= 28
    BY <1>1 DEF Minimum
  <2> DEFINE read == Ids(c) \o WordsAt(c, 8, 5, e)
  <2>2. r = At(c, e, 28, read)
    BY <1>1, <2>1, HeartbeatRead
  <2>3. ControlMessage(w.kind, w, read) = MessageIn(w, c, e)
    BY <1>1, <2>1, HeartbeatMade DEF MessageIn
  <2>4. r.valid /\ r.read = read
    BY <2>2 DEF At
  <2> HIDE DEF r, read
  <2>5. Readable(w, c, e)
    BY <1>1 DEF Readable
  <2>6. w.kind # "data"
    BY <1>1
  <2>7. DecodeContent(w, c, r)
          = IF Sound(MessageIn(w, c, e)) THEN MessageIn(w, c, e) ELSE Rejected
    BY <2>3, <2>4, <2>6 DEF DecodeContent
  <2> QED BY <2>5, <2>7 DEF r
<1>2. CASE w.kind = "acknack"
  <2>1. Len(c) >= 24
    BY <1>2 DEF Minimum
  <2> DEFINE read == (Ids(c) \o SetWordsAt(c, 8, e)) \o WordsAt(c, SetEnd(c, 8, e), 1, e)
             good == GoodSetAt(c, 8, e) /\ SetEnd(c, 8, e) + 4 <= Len(c)
  <2>2. (r.valid <=> good) /\ (good => r = At(c, e, SetEnd(c, 8, e) + 4, read))
    BY <1>2, <2>1, AcknackRead
  <2>3. good => ControlMessage(w.kind, w, read) = MessageIn(w, c, e)
    BY <1>2, <2>1, AcknackMade DEF MessageIn
  <2>4. good => r.read = read
    BY <2>2 DEF At
  <2>5. Readable(w, c, e) <=> good
    BY <1>2 DEF Readable
  <2> HIDE DEF r, read, good
  <2>6. w.kind # "data"
    BY <1>2
  <2>7. CASE good
    <3>1. DecodeContent(w, c, r)
            = IF Sound(MessageIn(w, c, e)) THEN MessageIn(w, c, e) ELSE Rejected
      BY <2>2, <2>3, <2>4, <2>6, <2>7 DEF DecodeContent
    <3> QED BY <2>5, <2>7, <3>1 DEF r
  <2>8. CASE ~good
    <3>1. DecodeContent(w, c, r) = Rejected
      BY <2>2, <2>6, <2>8 DEF DecodeContent
    <3> QED BY <2>5, <2>8, <3>1 DEF r
  <2> QED BY <2>7, <2>8
<1>3. CASE w.kind = "gap"
  <2>1. Len(c) >= 28
    BY <1>3 DEF Minimum
  <2> DEFINE read == (Ids(c) \o WordsAt(c, 8, 2, e)) \o SetWordsAt(c, 16, e)
             good == GoodSetAt(c, 16, e)
  <2>2. (r.valid <=> good) /\ (good => r = At(c, e, SetEnd(c, 16, e), read))
    BY <1>3, <2>1, GapRead
  <2>3. good => ControlMessage(w.kind, w, read) = MessageIn(w, c, e)
    BY <1>3, <2>1, GapMade DEF MessageIn
  <2>4. good => r.read = read
    BY <2>2 DEF At
  <2>5. Readable(w, c, e) <=> good
    BY <1>3 DEF Readable
  <2> HIDE DEF r, read, good
  <2>6. w.kind # "data"
    BY <1>3
  <2>7. CASE good
    <3>1. DecodeContent(w, c, r)
            = IF Sound(MessageIn(w, c, e)) THEN MessageIn(w, c, e) ELSE Rejected
      BY <2>2, <2>3, <2>4, <2>6, <2>7 DEF DecodeContent
    <3> QED BY <2>5, <2>7, <3>1 DEF r
  <2>8. CASE ~good
    <3>1. DecodeContent(w, c, r) = Rejected
      BY <2>2, <2>6, <2>8 DEF DecodeContent
    <3> QED BY <2>5, <2>8, <3>1 DEF r
  <2> QED BY <2>7, <2>8
<1>4. CASE w.kind = "data"
  <2>1. Len(c) >= 20
    BY <1>4 DEF Minimum
  <2> DEFINE head == DataHead(c, e)
             words == WordsAt(c, 12, 2, e)
             read == head \o words
             x == FromBytes(SubSeq(c, 1, 2), e)
             y == FromBytes(SubSeq(c, 3, 4), e)
  <2>2. r = At(c, e, 20, read)
    BY <1>4, <2>1, DataRead
  <2>3. DataMessage(w, read, c) = MessageIn(w, c, e)
    BY <1>4, <2>1, DataMade DEF MessageIn
  <2>4. read[1] = x /\ read[2] = y
    <3>1. head \in Seq(Values) /\ Len(head) = 4 /\ head[1] = x /\ head[2] = y /\ read \in Seq(Values)
      BY <2>1, DataRead
    <3>2. words \in Seq(Values)
      <4> DEFINE o == 12
                 n == 2
      <4>1. o \in Nat /\ n \in Nat /\ o + 4 * n <= Len(c)
        BY <2>1
      <4> HIDE DEF o, n
      <4>2. WordsAt(c, o, n, e) \in Seq(Values)
        BY <4>1, WordsType
      <4> QED BY <4>2 DEF o, n
    <3> HIDE DEF head, words, x, y
    <3>3. head \in Seq(Values)
      BY <3>1
    <3>4. \A i \in 1..Len(head) : read[i] = head[i]
      BY <3>2, <3>3, Concatenation
    <3> HIDE DEF read
    <3> QED BY <3>1, <3>4
  <2>5. r.valid /\ r.read = read
    BY <2>2 DEF At
  <2>6. Readable(w, c, e) <=> x = 0 /\ y >= 16 /\ 4 + y <= Len(c)
    BY <1>4 DEF Readable
  <2> HIDE DEF r, read, x, y
  <2>7. DecodeContent(w, c, r)
          = IF (x = 0 /\ y >= 16 /\ 4 + y <= Len(c)) /\ Sound(MessageIn(w, c, e))
              THEN MessageIn(w, c, e) ELSE Rejected
    BY <2>3, <2>4, <2>5, <1>4 DEF DecodeContent
  <2> QED BY <2>6, <2>7 DEF r
<1> QED BY <1>1, <1>2, <1>3, <1>4 DEF SubmessageKinds, ControlKinds

-----------------------------------------------------------------------------
(* What is accepted is what the endpoints may take for granted.            *)
LEMMA WordNumber ==
  ASSUME NEW c \in Seq(Bytes), NEW o \in Nat, o + 4 <= Len(c), NEW e \in Endiannesses
  PROVE  WordAt(c, o, e) \in Nat
<1>1. WordAt(c, o, e) \in 0..Capacity(4) - 1
  BY WordType
<1> QED BY <1>1, CapacityFacts

LEMMA NumberAt ==
  ASSUME NEW c \in Seq(Bytes), NEW o \in Nat, NEW p \in Nat, p = o + 4, p + 4 <= Len(c),
         NEW e \in Endiannesses
  PROVE  SequenceNumber(WordAt(c, o, e), WordAt(c, p, e)) \in Int
<1>1. o + 4 <= Len(c)
  OBVIOUS
<1>2. WordAt(c, o, e) \in Nat /\ WordAt(c, p, e) \in Nat
  BY <1>1, WordNumber
<1> QED BY <1>2, SequenceNumberType

LEMMA CountAt ==
  ASSUME NEW c \in Seq(Bytes), NEW o \in Nat, o + 4 <= Len(c), NEW e \in Endiannesses
  PROVE  Signed(WordAt(c, o, e), 4) \in Int
<1> DEFINE x == WordAt(c, o, e)
           n == 4
<1>1. x \in Int /\ n \in Nat
  BY WordNumber
<1> HIDE DEF x, n
<1>2. Signed(x, n) \in Int
  BY <1>1, SignedType
<1> QED BY <1>2 DEF x, n

LEMMA SetNamesNumber ==
  ASSUME NEW c \in Seq(Bytes), NEW e \in Endiannesses, NEW o \in Nat, o + 12 <= Len(c),
         GoodSetAt(c, o, e)
  PROVE  /\ ValidNumbers(SetValueAt(c, o, e))
         /\ (\E w \in DOMAIN BitmapAt(c, o, e) : BitmapAt(c, o, e)[w] # 0)
              => NumbersOf(SetValueAt(c, o, e)) # {}
<1> DEFINE set == SetValueAt(c, o, e)
           nb == BitsAt(c, o, e)
           n == Words(nb)
<1>1. /\ nb \in 0..MaxBits /\ BaseAt(c, o, e) \in Nat \ {0} /\ n \in Nat
      /\ BitmapAt(c, o, e) \in Seq(0..Capacity(4) - 1) /\ Len(BitmapAt(c, o, e)) = n
  BY GoodSet
<1>2. set.base = BaseAt(c, o, e) /\ set.num_bits = nb /\ set.bitmap = BitmapAt(c, o, e)
  BY DEF SetValueAt
<1>3. nb > 0 => BitmapAt(c, o, e)[n] % 2^UnusedBits(nb) = 0
  <2> SUFFICES ASSUME nb > 0 PROVE BitmapAt(c, o, e)[n] % 2^UnusedBits(nb) = 0
    OBVIOUS
  <2>1. n > 0
    BY <1>1, WordCount
  <2>2. WordAt(c, SetEnd(c, o, e) - 4, e) % 2^UnusedBits(nb) = 0
    BY DEF GoodSetAt
  <2>3. BitmapAt(c, o, e)[n] = WordAt(c, SetEnd(c, o, e) - 4, e)
    <3>1. SetEnd(c, o, e) = o + 12 + 4 * n
      BY DEF SetEnd
    <3> HIDE DEF n
    <3>2. (o + 12) + 4 * (n - 1) = SetEnd(c, o, e) - 4 /\ n \in 1..n
      BY <1>1, <2>1, <3>1
    <3>3. BitmapAt(c, o, e)[n] = WordAt(c, (o + 12) + 4 * (n - 1), e)
      BY <3>2 DEF BitmapAt, WordsAt, n
    <3> QED BY <3>2, <3>3
  <2> QED BY <2>2, <2>3
<1>4. ValidNumbers(set)
  <2>1. set.base >= 1 /\ set.num_bits \in 0..MaxBits
    BY <1>1, <1>2
  <2> QED BY <2>1 DEF ValidNumbers
<1> HIDE DEF set, nb
<1>5. ASSUME NEW w \in DOMAIN BitmapAt(c, o, e), BitmapAt(c, o, e)[w] # 0
      PROVE  NumbersOf(set) # {}
  <2>1. /\ set.base \in Nat /\ set.num_bits \in Nat /\ set.bitmap \in Seq(0..Capacity(4) - 1)
        /\ Len(set.bitmap) = Words(set.num_bits)
        /\ set.num_bits > 0 =>
             set.bitmap[Words(set.num_bits)] % 2^UnusedBits(set.num_bits) = 0
        /\ w \in DOMAIN set.bitmap /\ set.bitmap[w] # 0
    BY <1>1, <1>2, <1>3, <1>5, SubmessagesAssumption
  <2> QED BY <2>1, AskedNumber
<1> QED BY <1>4, <1>5 DEF set

Asks(m) ==
  m.kind \in {"acknack", "gap"} =>
    ((\E w \in DOMAIN m.set.bitmap : m.set.bitmap[w] # 0) => NumbersOf(m.set) # {})

LEMMA SoundIsValid ==
  ASSUME NEW w, NEW c \in Seq(Bytes), NEW e \in Endiannesses,
         w.kind \in SubmessageKinds, Len(c) >= Minimum[w.kind],
         Readable(w, c, e), Sound(MessageIn(w, c, e))
  PROVE  /\ Valid(MessageIn(w, c, e)) /\ Asks(MessageIn(w, c, e))
         /\ MessageIn(w, c, e).kind = w.kind
<1> DEFINE m == MessageIn(w, c, e)
<1>1. CASE w.kind = "heartbeat"
  <2>1. m = HeartbeatIn(w, c, e) /\ Len(c) >= 28
    BY <1>1 DEF MessageIn, Minimum
  <2>2. m.kind = "heartbeat" /\ m.first \in Int /\ m.last \in Int /\ m.count \in Int
    <3> DEFINE f == 8
               g == 12
               h == 16
               i == 20
               j == 24
    <3>1. /\ f \in Nat /\ g \in Nat /\ g = f + 4 /\ g + 4 <= Len(c)
          /\ h \in Nat /\ i \in Nat /\ i = h + 4 /\ i + 4 <= Len(c) /\ j \in Nat /\ j + 4 <= Len(c)
      BY <2>1
    <3>2. m.kind = "heartbeat"
      BY <2>1 DEF HeartbeatIn
    <3>3. /\ m.first = SequenceNumber(WordAt(c, f, e), WordAt(c, g, e))
          /\ m.last = SequenceNumber(WordAt(c, h, e), WordAt(c, i, e))
          /\ m.count = Signed(WordAt(c, j, e), 4)
      BY <2>1 DEF HeartbeatIn
    <3> HIDE DEF m, f, g, h, i, j
    <3> QED BY <3>1, <3>2, <3>3, NumberAt, CountAt
  <2> HIDE DEF m
  <2>3. m.first > 0 /\ m.last >= m.first /\ m.count > 0
    BY <2>2 DEF Sound, m
  <2>4. 1 <= m.first /\ m.first <= m.last /\ m.count >= 1
    BY <2>2, <2>3
  <2> QED BY <1>1, <2>2, <2>4 DEF Valid, Asks, m
<1>2. CASE w.kind = "acknack"
  <2>1. m = AcknackIn(w, c, e) /\ Len(c) >= 24 /\ GoodSetAt(c, 8, e) /\ SetEnd(c, 8, e) + 4 <= Len(c)
    BY <1>2 DEF MessageIn, Minimum, Readable
  <2> DEFINE o == 8
  <2>2. o \in Nat /\ o + 12 <= Len(c) /\ o % 4 = 0
    BY <2>1
  <2>3. /\ m.kind = "acknack" /\ m.set = SetValueAt(c, o, e)
        /\ m.count = Signed(WordAt(c, SetEnd(c, o, e), e), 4)
    BY <2>1 DEF AcknackIn
  <2>4. GoodSetAt(c, o, e) /\ SetEnd(c, o, e) + 4 <= Len(c)
    BY <2>1
  <2> HIDE DEF o, m
  <2>5. m.count \in Int
    <3>1. SetEnd(c, o, e) \in Nat
      BY <2>2, <2>4, SetEndAligned
    <3> QED BY <2>3, <2>4, <3>1, CountAt
  <2>6. /\ ValidNumbers(m.set)
        /\ (\E x \in DOMAIN BitmapAt(c, o, e) : BitmapAt(c, o, e)[x] # 0) => NumbersOf(m.set) # {}
    BY <2>2, <2>3, <2>4, SetNamesNumber
  <2>7. m.set.bitmap = BitmapAt(c, o, e)
    BY <2>3 DEF SetValueAt
  <2>8. m.count >= 1
    <3>1. m.count > 0
      BY <2>3 DEF Sound, m
    <3> QED BY <2>5, <3>1
  <2>9. Valid(m)
    BY <2>3, <2>6, <2>8 DEF Valid
  <2>10. Asks(m)
    BY <2>6, <2>7 DEF Asks
  <2> QED BY <1>2, <2>3, <2>9, <2>10 DEF m
<1>3. CASE w.kind = "gap"
  <2>1. m = GapIn(w, c, e) /\ Len(c) >= 28 /\ GoodSetAt(c, 16, e)
    BY <1>3 DEF MessageIn, Minimum, Readable
  <2> DEFINE o == 16
             f == 8
             g == 12
  <2>2. o \in Nat /\ o + 12 <= Len(c) /\ f \in Nat /\ g \in Nat /\ g = f + 4 /\ g + 4 <= Len(c)
    BY <2>1
  <2>3. /\ m.kind = "gap" /\ m.set = SetValueAt(c, o, e)
        /\ m.start = SequenceNumber(WordAt(c, f, e), WordAt(c, g, e))
    BY <2>1 DEF GapIn
  <2>4. GoodSetAt(c, o, e)
    BY <2>1
  <2> HIDE DEF o, f, g, m
  <2>5. m.start \in Int
    BY <2>2, <2>3, NumberAt
  <2>6. /\ ValidNumbers(m.set)
        /\ (\E x \in DOMAIN BitmapAt(c, o, e) : BitmapAt(c, o, e)[x] # 0) => NumbersOf(m.set) # {}
    BY <2>2, <2>3, <2>4, SetNamesNumber
  <2>7. m.set.bitmap = BitmapAt(c, o, e) /\ m.set.base = BaseAt(c, o, e)
    BY <2>3 DEF SetValueAt
  <2>8. 1 <= m.start /\ m.start <= m.set.base
    <3>1. m.start > 0 /\ m.set.base >= m.start
      BY <2>3 DEF Sound, m
    <3>2. m.set.base \in Nat
      BY <2>2, <2>4, <2>7, GoodSet
    <3> QED BY <2>5, <3>1, <3>2
  <2>9. Valid(m)
    BY <2>3, <2>6, <2>8 DEF Valid
  <2>10. Asks(m)
    BY <2>6, <2>7 DEF Asks
  <2> QED BY <1>3, <2>3, <2>9, <2>10 DEF m
<1>4. CASE w.kind = "data"
  <2>1. m = DataIn(w, c, e) /\ Len(c) >= 20
    BY <1>4 DEF MessageIn, Minimum
  <2> DEFINE f == 12
             g == 16
  <2>2. f \in Nat /\ g \in Nat /\ g = f + 4 /\ g + 4 <= Len(c)
    BY <2>1
  <2>3. m.kind = "data" /\ m.sn = SequenceNumber(WordAt(c, f, e), WordAt(c, g, e))
    BY <2>1 DEF DataIn
  <2> HIDE DEF f, g, m
  <2>4. m.sn \in Int
    BY <2>2, <2>3, NumberAt
  <2>5. m.sn > 0
    BY <2>3 DEF Sound, m
  <2>6. m.sn >= 1
    BY <2>4, <2>5
  <2> QED BY <1>4, <2>3, <2>6 DEF Valid, Asks, m
<1> QED BY <1>1, <1>2, <1>3, <1>4 DEF SubmessageKinds, ControlKinds

LEMMA ContentPart ==
  ASSUME NEW w, w.content \in Seq(Bytes), w.length \in Seq(Bytes)
  PROVE  /\ ContentSize(w) \in Nat
         /\ ContentSize(w) <= Len(w.content) =>
              /\ SubSeq(w.content, 1, ContentSize(w)) \in Seq(Bytes)
              /\ Len(SubSeq(w.content, 1, ContentSize(w))) = ContentSize(w)
<1> DEFINE length == FromBytes(w.length, EndiannessOf(w))
           size == ContentSize(w)
           content == w.content
<1>1. length \in Nat
  <2> DEFINE bytes == w.length
             e == EndiannessOf(w)
  <2>1. bytes \in Seq(Bytes) /\ Len(bytes) \in Nat
    OBVIOUS
  <2> HIDE DEF bytes, e
  <2>2. FromBytes(bytes, e) \in 0..Capacity(Len(bytes)) - 1
    BY <2>1, FromBytesType
  <2> QED BY <2>1, <2>2, CapacityFacts DEF bytes, e
<1>2. content \in Seq(Bytes) /\ Len(content) \in Nat
  OBVIOUS
<1>3. size \in Nat
  BY <1>1, <1>2 DEF ContentSize
<1> HIDE DEF size, content
<1>4. size <= Len(content) =>
        SubSeq(content, 1, size) \in Seq(Bytes) /\ Len(SubSeq(content, 1, size)) = size
  BY <1>2, <1>3
<1> QED BY <1>3, <1>4 DEF size, content

(* Whatever bytes a submessage has: what is accepted is valid.             *)
LEMMA AcceptedSubmessage ==
  ASSUME NEW w, w.content \in Seq(Bytes), w.length \in Seq(Bytes),
         DecodeMessage(w) # Rejected
  PROVE  /\ Valid(DecodeMessage(w)) /\ Asks(DecodeMessage(w))
         /\ DecodeMessage(w).kind \in SubmessageKinds
<1> DEFINE e == EndiannessOf(w)
           c == SubSeq(w.content, 1, ContentSize(w))
<1>1. /\ w.kind \in DOMAIN Minimum
      /\ ContentSize(w) \in Minimum[w.kind]..Len(w.content)
      /\ DecodeMessage(w) = DecodeContent(w, c, ReadContent(w.kind, Reader(c, e)))
  BY DEF DecodeMessage
<1>2. w.kind \in SubmessageKinds
  BY <1>1 DEF Minimum, SubmessageKinds, ControlKinds
<1>3. Minimum[w.kind] \in Nat
  BY <1>1 DEF Minimum
<1>4. c \in Seq(Bytes) /\ Len(c) >= Minimum[w.kind]
  BY <1>1, <1>3, ContentPart
<1>5. e \in Endiannesses
  BY DEF EndiannessOf, Endiannesses
<1> HIDE DEF c, e
<1>6. DecodeMessage(w) = IF Readable(w, c, e) /\ Sound(MessageIn(w, c, e))
                           THEN MessageIn(w, c, e) ELSE Rejected
  BY <1>1, <1>2, <1>4, <1>5, ContentDecoded
<1>7. Readable(w, c, e) /\ Sound(MessageIn(w, c, e)) /\ DecodeMessage(w) = MessageIn(w, c, e)
  BY <1>6
<1>8. /\ Valid(MessageIn(w, c, e)) /\ Asks(MessageIn(w, c, e))
      /\ MessageIn(w, c, e).kind = w.kind
  BY <1>2, <1>4, <1>5, <1>7, SoundIsValid
<1> QED BY <1>2, <1>7, <1>8

-----------------------------------------------------------------------------
(* The bitmap encode_sequence_number_set fills, word by word.              *)

(* Folds over sets, in the order CHOOSE takes the elements.                *)
Taken(s) == CHOOSE x \in s : TRUE

IteratesSet(g, D, base, H) ==
  \A s \in D : g[s] = IF s = {} THEN base ELSE H[<<Taken(s), g[s \ {Taken(s)}]>>]

LEMMA SetIterationExists ==
  ASSUME NEW S, IsFiniteSet(S), NEW V, NEW base \in V, NEW H \in [S \X V -> V]
  PROVE  \E g \in [SUBSET S -> V] : IteratesSet(g, SUBSET S, base, H)
<1> DEFINE Small(k) == {s \in SUBSET S : Cardinality(s) <= k}
           P(k) == \E g \in [Small(k) -> V] : IteratesSet(g, Small(k), base, H)
           T == {k \in Nat : P(k)}
<1>0. \A s \in SUBSET S : /\ IsFiniteSet(s) /\ Cardinality(s) \in Nat
                          /\ Cardinality(s) <= Cardinality(S)
                          /\ Cardinality(s) = 0 <=> s = {}
                          /\ \A x \in s : Cardinality(s \ {x}) = Cardinality(s) - 1
  BY FS_Subset, FS_CardinalityType, FS_RemoveElement, FS_EmptySet
<1>1. 0 \in T
  <2>1. Small(0) = {{}}
    BY <1>0
  <2> DEFINE g == [s \in {{}} |-> base]
  <2>2. g \in [{{}} -> V] /\ IteratesSet(g, {{}}, base, H)
    BY DEF IteratesSet
  <2> HIDE DEF g, Small
  <2>3. P(0)
    BY <2>1, <2>2
  <2> QED BY <2>3
<1>2. ASSUME NEW k \in Nat, k \in T PROVE k + 1 \in T
  <2>1. PICK g \in [Small(k) -> V] : IteratesSet(g, Small(k), base, H)
    BY <1>2
  <2> DEFINE h == [s \in Small(k + 1) |->
                     IF s \in Small(k) THEN g[s] ELSE H[<<Taken(s), g[s \ {Taken(s)}]>>]]
  <2>2. \A s \in Small(k + 1) : s # {} => Taken(s) \in s /\ s \ {Taken(s)} \in Small(k)
    <3> SUFFICES ASSUME NEW s \in Small(k + 1), s # {}
                 PROVE  Taken(s) \in s /\ s \ {Taken(s)} \in Small(k)
      OBVIOUS
    <3>1. Taken(s) \in s
      BY DEF Taken
    <3>2. Cardinality(s \ {Taken(s)}) = Cardinality(s) - 1 /\ Cardinality(s) \in Nat
      BY <1>0, <3>1
    <3>3. Cardinality(s) <= k + 1 /\ s \ {Taken(s)} \in SUBSET S
      OBVIOUS
    <3>4. Cardinality(s \ {Taken(s)}) <= k
      BY <3>2, <3>3
    <3> QED BY <3>1, <3>3, <3>4
  <2>3. Small(k) \subseteq Small(k + 1) /\ {} \in Small(k)
    BY <1>0
  <2>4. \A s \in Small(k + 1) : s \in SUBSET S
    OBVIOUS
  <2> HIDE DEF Small
  <2>5. h \in [Small(k + 1) -> V]
    <3> SUFFICES ASSUME NEW s \in Small(k + 1), s \notin Small(k)
                 PROVE  H[<<Taken(s), g[s \ {Taken(s)}]>>] \in V
      OBVIOUS
    <3>1. s # {} /\ Taken(s) \in S /\ g[s \ {Taken(s)}] \in V
      BY <2>2, <2>3, <2>4
    <3> QED BY <3>1
  <2>6. ASSUME NEW s \in Small(k + 1)
        PROVE  h[s] = IF s = {} THEN base ELSE H[<<Taken(s), h[s \ {Taken(s)}]>>]
    <3>1. CASE s = {}
      <4>1. h[s] = g[s] /\ g[s] = base
        BY <2>1, <2>3, <3>1 DEF IteratesSet
      <4> QED BY <3>1, <4>1
    <3>2. CASE s # {}
      <4>1. Taken(s) \in s /\ s \ {Taken(s)} \in Small(k)
        BY <2>2, <3>2
      <4>2. h[s \ {Taken(s)}] = g[s \ {Taken(s)}]
        BY <2>3, <4>1
      <4>3. CASE s \in Small(k)
        <5>1. g[s] = H[<<Taken(s), g[s \ {Taken(s)}]>>]
          BY <2>1, <3>2, <4>3 DEF IteratesSet
        <5> QED BY <3>2, <4>2, <4>3, <5>1
      <4>4. CASE s \notin Small(k)
        BY <3>2, <4>2, <4>4
      <4> QED BY <4>3, <4>4
    <3> QED BY <3>1, <3>2
  <2> HIDE DEF h
  <2>7. IteratesSet(h, Small(k + 1), base, H)
    BY <2>6 DEF IteratesSet
  <2> QED BY <2>5, <2>7
<1>3. Small(Cardinality(S)) = SUBSET S /\ Cardinality(S) \in Nat
  BY <1>0
<1> HIDE DEF T, Small
<1>4. Nat \subseteq T
  BY <1>1, <1>2, Induction
<1>5. Cardinality(S) \in T
  BY <1>3, <1>4
<1>6. P(Cardinality(S))
  BY <1>5 DEF T
<1> QED BY <1>3, <1>6

-----------------------------------------------------------------------------
(* The words of a bitmap: a bit is added for each number.                  *)
LEMMA WordWidth == WordBits \in Nat \ {0}
BY ByteBitsAssumption DEF WordBits

LEMMA BitPlace ==
  ASSUME NEW offset \in Int
  PROVE  /\ offset % WordBits \in 0..WordBits - 1
         /\ WordBits - 1 - (offset % WordBits) \in 0..WordBits - 1
         /\ BitOf(offset) = 2^(WordBits - 1 - (offset % WordBits))
         /\ BitOf(offset) \in Nat \ {0}
<1>1. offset % WordBits \in 0..WordBits - 1
  BY WordWidth, Division
<1>2. WordBits - 1 - (offset % WordBits) \in 0..WordBits - 1
  BY <1>1, WordWidth
<1> QED BY <1>1, <1>2, PowerPositive DEF BitOf

WordOf(s) == FoldSet(LAMBDA offset, word : word + BitOf(offset), 0, s)

LEMMA WordChain ==
  ASSUME NEW S \in SUBSET Int, IsFiniteSet(S)
  PROVE  \E v \in [SUBSET S -> Nat] :
            /\ WordOf(S) = v[S]
            /\ \A s \in SUBSET S :
                 v[s] = IF s = {} THEN 0 ELSE v[s \ {Taken(s)}] + BitOf(Taken(s))
<1> DEFINE H == [p \in S \X Nat |-> p[2] + BitOf(p[1])]
           F(h) == [s \in SUBSET S |->
                      IF s = {} THEN 0 ELSE h[s \ {Taken(s)}] + BitOf(Taken(s))]
           iter == CHOOSE h : h = F(h)
<1>1. WordOf(S) = iter[S]
  BY DEF WordOf, FoldSet, MapThenFoldSet, Taken
<1>2. H \in [S \X Nat -> Nat]
  <2>1. ASSUME NEW x \in S, NEW y \in Nat PROVE y + BitOf(x) \in Nat
    <3>1. BitOf(x) \in Nat
      BY BitPlace
    <3> QED BY <3>1
  <2> QED BY <2>1
<1>3. PICK g \in [SUBSET S -> Nat] : IteratesSet(g, SUBSET S, 0, H)
  <2> HIDE DEF H
  <2> QED BY <1>2, SetIterationExists
<1>4. ASSUME NEW s \in SUBSET S
      PROVE  g[s] = IF s = {} THEN 0 ELSE g[s \ {Taken(s)}] + BitOf(Taken(s))
  <2>1. CASE s = {}
    BY <1>3, <2>1 DEF IteratesSet
  <2>2. CASE s # {}
    <3>1. Taken(s) \in S /\ g[s \ {Taken(s)}] \in Nat
      <4>1. Taken(s) \in s
        BY <2>2 DEF Taken
      <4> QED BY <4>1
    <3>2. g[s] = H[<<Taken(s), g[s \ {Taken(s)}]>>]
      BY <1>3, <2>2 DEF IteratesSet
    <3> QED BY <2>2, <3>1, <3>2
  <2> QED BY <2>1, <2>2
<1>5. g = F(g)
  BY <1>4
<1>6. iter = F(iter)
  BY <1>5
<1> HIDE DEF iter, H
<1>7. \A s \in SUBSET S : /\ s \ {Taken(s)} \in SUBSET S
                          /\ iter[s] = IF s = {} THEN 0 ELSE iter[s \ {Taken(s)}] + BitOf(Taken(s))
  BY <1>6
<1>8. iter \in [SUBSET S -> Nat]
  <2> DEFINE T == {k \in Nat : \A s \in SUBSET S : Cardinality(s) = k => iter[s] \in Nat}
  <2>0. \A s \in SUBSET S : /\ IsFiniteSet(s) /\ Cardinality(s) \in Nat
                            /\ Cardinality(s) = 0 <=> s = {}
                            /\ \A x \in s : Cardinality(s \ {x}) = Cardinality(s) - 1
    BY FS_Subset, FS_CardinalityType, FS_RemoveElement, FS_EmptySet
  <2>1. 0 \in T
    BY <1>7, <2>0
  <2>2. ASSUME NEW k \in Nat, k \in T PROVE k + 1 \in T
    <3> SUFFICES ASSUME NEW s \in SUBSET S, Cardinality(s) = k + 1 PROVE iter[s] \in Nat
      OBVIOUS
    <3>1. s # {} /\ Taken(s) \in s
      <4>1. s # {}
        BY <2>0
      <4> QED BY <4>1 DEF Taken
    <3>2. s \ {Taken(s)} \in SUBSET S /\ Cardinality(s \ {Taken(s)}) = k
      <4>1. Cardinality(s \ {Taken(s)}) = Cardinality(s) - 1
        BY <2>0, <3>1
      <4>2. Cardinality(s) - 1 = k
        OBVIOUS
      <4> QED BY <4>1, <4>2
    <3>3. iter[s \ {Taken(s)}] \in Nat
      BY <2>2, <3>2
    <3>4. BitOf(Taken(s)) \in Nat
      BY <3>1, BitPlace
    <3> QED BY <1>7, <3>1, <3>3, <3>4
  <2> HIDE DEF T
  <2>3. Nat \subseteq T
    BY <2>1, <2>2, Induction
  <2>4. \A s \in SUBSET S : iter[s] \in Nat
    BY <2>0, <2>3 DEF T
  <2> QED BY <1>6, <2>4
<1> HIDE DEF F
<1> QED BY <1>1, <1>7, <1>8

-----------------------------------------------------------------------------
(* What the submessages are written as.                                    *)

LEMMA NumberWritten ==
  ASSUME NEW data \in Seq(Bytes), NEW n \in Nat \ {0}, Len(data) % n = 0, NEW x \in Int, NEW e
  PROVE  /\ Write(data, x, n, e) = data \o ToBytes(x, n, e)
         /\ Write(data, x, n, e) \in Seq(Bytes)
         /\ Len(Write(data, x, n, e)) = Len(data) + n
<1> DEFINE d == Len(data)
<1>0. d \in Nat
  OBVIOUS
<1>1. Padding(n, d) = 0
  <2> HIDE DEF d
  <2>1. d % n = 0
    BY DEF d
  <2> QED BY <1>0, <2>1, NoPaddingOf
<1>2. data \o <<>> = data
  OBVIOUS
<1>3. Write(data, x, n, e) = data \o ToBytes(x, n, e)
  BY <1>1, <1>2, NoZeros DEF Write
<1>4. ToBytes(x, n, e) \in Seq(Bytes) /\ Len(ToBytes(x, n, e)) = n
  BY ToBytesType
<1>5. /\ data \o ToBytes(x, n, e) \in Seq(Bytes)
      /\ Len(data \o ToBytes(x, n, e)) = Len(data) + Len(ToBytes(x, n, e))
  BY <1>4, Concatenation
<1> QED BY <1>3, <1>4, <1>5

LEMMA WordsWritten ==
  ASSUME NEW data \in Seq(Bytes), Len(data) % 4 = 0, NEW values \in Seq(Int), NEW e
  PROVE  /\ WriteWords(data, values, e) \in Seq(Bytes)
         /\ Len(WriteWords(data, values, e)) = Len(data) + 4 * Len(values)
         /\ SubSeq(WriteWords(data, values, e), 1, Len(data)) = data
BY WriteWordsEffect DEF WordsFollow

(* The start of a DATA: extra flags and octetsToInlineQos.                 *)
Opening(e) == ToBytes(0, 2, e) \o ToBytes(16, 2, e)

LEMMA OpeningWritten ==
  ASSUME NEW e
  PROVE  /\ Write(Write(<<>>, 0, 2, e), 16, 2, e) = Opening(e)
         /\ Opening(e) \in Seq(Bytes) /\ Len(Opening(e)) = 4
<1> DEFINE empty == <<>>
           n == 2
           zero == 0
           x == 16
           one == Write(empty, zero, n, e)
<1>1. empty \in Seq(Bytes) /\ Len(empty) = 0
  OBVIOUS
<1>2. n \in Nat \ {0} /\ zero \in Int /\ x \in Int /\ 0 % n = 0 /\ n % n = 0 /\ n + n = 4
  OBVIOUS
<1>3. ToBytes(zero, n, e) \in Seq(Bytes)
  BY <1>2, ToBytesType
<1> HIDE DEF empty, n, zero, x
<1>4. one = empty \o ToBytes(zero, n, e) /\ one \in Seq(Bytes) /\ Len(one) = n
  <2>1. empty \in Seq(Bytes)
    BY <1>1
  <2>2. Len(empty) % n = 0
    BY <1>1, <1>2
  <2>3. n \in Nat \ {0} /\ zero \in Int
    BY <1>2
  <2>4. /\ Write(empty, zero, n, e) = empty \o ToBytes(zero, n, e)
        /\ Write(empty, zero, n, e) \in Seq(Bytes)
        /\ Len(Write(empty, zero, n, e)) = Len(empty) + n
    BY <2>1, <2>2, <2>3, NumberWritten
  <2> QED BY <1>1, <1>2, <2>4
<1>5. empty \o ToBytes(zero, n, e) = ToBytes(zero, n, e)
  BY <1>3, NothingBefore DEF empty
<1> HIDE DEF one
<1>6. /\ Write(one, x, n, e) = one \o ToBytes(x, n, e) /\ Write(one, x, n, e) \in Seq(Bytes)
      /\ Len(Write(one, x, n, e)) = Len(one) + n
  <2>1. one \in Seq(Bytes)
    BY <1>4
  <2>2. Len(one) % n = 0
    BY <1>4, <1>2
  <2>3. n \in Nat \ {0} /\ x \in Int
    BY <1>2
  <2> QED BY <2>1, <2>2, <2>3, NumberWritten
<1> QED BY <1>2, <1>4, <1>5, <1>6 DEF Opening, empty, n, zero, x, one

LEMMA TwoIds ==
  ASSUME NEW a \in BytesOf(4), NEW b \in BytesOf(4)
  PROVE  a \o b \in Seq(Bytes) /\ Len(a \o b) = 8
<1>1. a \in Seq(Bytes) /\ b \in Seq(Bytes)
  BY DEF BytesOf
<1>2. Len(a) = 4 /\ Len(b) = 4
  BY DEF BytesOf
<1>3. a \o b \in Seq(Bytes) /\ Len(a \o b) = Len(a) + Len(b)
  BY <1>1, Concatenation
<1> QED BY <1>2, <1>3

LEMMA HighLow ==
  ASSUME NEW n \in Int
  PROVE  High(n) \in Int /\ Low(n) \in Int
<1> DEFINE w == Capacity(4)
<1>1. w \in Nat \ {0}
  BY CapacityFacts
<1> HIDE DEF w
<1>2. n \div w \in Int /\ n % w \in Int
  BY <1>1, Division
<1> QED BY <1>2 DEF High, Low, w

-----------------------------------------------------------------------------
(* The set of an ACKNACK or a GAP, with its bitmap.                        *)
BlockOf(s, w) == {n - s.base : n \in {k \in s.numbers : (k - s.base) \div WordBits = w - 1}}
BitmapOf(s) == [w \in 1..Words(s.num_bits) |-> WordOf(BlockOf(s, w))]
Filled(s) == [base |-> s.base, num_bits |-> s.num_bits, bitmap |-> BitmapOf(s)]

LEMMA SetFilled ==
  ASSUME NEW s \in NumberSets
  PROVE  SetOf(s.base, s.num_bits, s.numbers) = Filled(s)
BY DEF SetOf, Filled, BitmapOf, WordOf, BlockOf

LEMMA NumberSetFacts ==
  ASSUME NEW s \in NumberSets
  PROVE  /\ s.base \in Int /\ s.num_bits \in Nat /\ s.numbers \in SUBSET Int
         /\ s.num_bits < Capacity(4)
         /\ s = [base |-> s.base, num_bits |-> s.num_bits, numbers |-> s.numbers]
         /\ Words(s.num_bits) \in Nat
         /\ s.numbers \subseteq s.base .. s.base + WordBits * Words(s.num_bits) - 1
<1>1. /\ s \in [base : SignedNumbers(8), num_bits : 0..Capacity(4) - 1, numbers : SUBSET Int]
      /\ s.numbers \subseteq s.base .. s.base + WordBits * Words(s.num_bits) - 1
  BY DEF NumberSets
<1>2. s.num_bits \in Nat /\ s.num_bits < Capacity(4)
  BY <1>1, CapacityFacts
<1>3. s.base \in Int
  <2> DEFINE n == 8
  <2>1. Capacity(n) \in Nat \ {0}
    BY CapacityFacts
  <2> HIDE DEF n
  <2>2. Capacity(n) \div 2 \in Int
    BY <2>1
  <2>3. s.base \in SignedNumbers(n)
    BY <1>1 DEF n
  <2> QED BY <2>2, <2>3 DEF SignedNumbers
<1>4. Words(s.num_bits) \in Nat
  BY <1>2, WordCount
<1> QED BY <1>1, <1>2, <1>3, <1>4

LEMMA BlockType ==
  ASSUME NEW s \in NumberSets, NEW w \in Nat
  PROVE  BlockOf(s, w) \in SUBSET Int /\ IsFiniteSet(BlockOf(s, w))
<1> DEFINE top == WordBits * Words(s.num_bits)
<1>1. /\ s.base \in Int /\ s.numbers \in SUBSET Int /\ Words(s.num_bits) \in Nat
      /\ s.numbers \subseteq s.base .. s.base + top - 1
  BY NumberSetFacts
<1>2. top \in Nat
  BY <1>1, WordWidth
<1> HIDE DEF top
<1>3. BlockOf(s, w) \subseteq 0..top - 1
  <2>1. ASSUME NEW n \in s.numbers PROVE n - s.base \in 0..top - 1
    <3>1. n \in s.base .. s.base + top - 1
      BY <1>1
    <3> QED BY <1>1, <1>2, <3>1
  <2> QED BY <2>1 DEF BlockOf
<1>4. IsFiniteSet(0..top - 1)
  <2>1. 0 \in Int /\ top - 1 \in Int
    BY <1>2
  <2> QED BY <2>1, FS_Interval
<1>5. IsFiniteSet(BlockOf(s, w))
  BY <1>3, <1>4, FS_Subset
<1>6. BlockOf(s, w) \subseteq Int
  BY <1>3, <1>2
<1> QED BY <1>5, <1>6

LEMMA BitmapType ==
  ASSUME NEW s \in NumberSets
  PROVE  BitmapOf(s) \in Seq(Nat) /\ Len(BitmapOf(s)) = Words(s.num_bits)
<1> DEFINE n == Words(s.num_bits)
<1>1. n \in Nat
  BY NumberSetFacts
<1>2. ASSUME NEW w \in 1..n PROVE WordOf(BlockOf(s, w)) \in Nat
  <2> DEFINE b == BlockOf(s, w)
  <2>1. b \in SUBSET Int /\ IsFiniteSet(b)
    BY <1>1, BlockType
  <2> HIDE DEF b
  <2>2. WordOf(b) \in Nat
    <3>1. PICK v \in [SUBSET b -> Nat] : WordOf(b) = v[b]
      BY <2>1, WordChain
    <3> QED BY <3>1
  <2> QED BY <2>2 DEF b
<1> HIDE DEF n
<1>3. BitmapOf(s) \in [1..n -> Nat]
  BY <1>2 DEF BitmapOf, n
<1> QED BY <1>1, <1>3, FunctionIsSequence DEF n

(* What is encoded of a message: its set has the bitmap instead.           *)
LEMMA BitmapAdded ==
  ASSUME NEW m \in Control \cup Datas
  PROVE  /\ m.kind \in {"acknack", "gap"} =>
              /\ WithBitmap(m) = [m EXCEPT !.set = Filled(m.set)]
              /\ m.set \in NumberSets
         /\ m.kind \notin {"acknack", "gap"} => WithBitmap(m) = m
         /\ WithBitmap(m).kind = m.kind
<1>1. CASE m \in AckNacks \cup Gaps
  <2>1. m.kind \in {"acknack", "gap"} /\ m.set \in NumberSets
    BY <1>1 DEF AckNacks, Gaps
  <2>2. WithBitmap(m) = [m EXCEPT !.set = SetOf(m.set.base, m.set.num_bits, m.set.numbers)]
    BY <2>1 DEF WithBitmap
  <2>3. [m EXCEPT !.set = Filled(m.set)].kind = m.kind
    BY <1>1 DEF AckNacks, Gaps
  <2> QED BY <2>1, <2>2, <2>3, SetFilled
<1>2. CASE m \in Heartbeats \cup Datas
  <2>1. m.kind \in {"heartbeat", "data"}
    BY <1>2 DEF Heartbeats, Datas
  <2> QED BY <2>1 DEF WithBitmap
<1> QED BY <1>1, <1>2 DEF Control

-----------------------------------------------------------------------------
(* Each body encode_submessage makes is a sequence of bytes.               *)

(* The words of the fields that are written behind the entity ids.         *)
SetFields(s) == SetWords(Filled(s))

LEMMA SetFieldsShape ==
  ASSUME NEW s \in NumberSets
  PROVE  /\ SetFields(s) \in Seq(Int) /\ Len(SetFields(s)) = 3 + Words(s.num_bits)
         /\ SetFields(s)[1] = High(s.base) /\ SetFields(s)[2] = Low(s.base)
         /\ SetFields(s)[3] = s.num_bits
         /\ \A i \in 1..Words(s.num_bits) : SetFields(s)[3 + i] = BitmapOf(s)[i]
<1> DEFINE a == High(s.base)
           b == Low(s.base)
           head == <<a, b, s.num_bits>>
           bitmap == BitmapOf(s)
<1>1. a \in Int /\ b \in Int /\ s.num_bits \in Int
  BY NumberSetFacts, HighLow
<1>2. bitmap \in Seq(Nat) /\ Len(bitmap) = Words(s.num_bits)
  BY BitmapType
<1>3. SetFields(s) = head \o bitmap
  BY DEF SetFields, SetWords, Filled
<1> HIDE DEF a, b, bitmap
<1>4. /\ head \in Seq(Int) /\ Len(head) = 3
      /\ head[1] = a /\ head[2] = b /\ head[3] = s.num_bits
  BY <1>1
<1> HIDE DEF head
<1>5. head \in Seq(Int)
  BY <1>4
<1>6. bitmap \in Seq(Int)
  <2>1. Nat \subseteq Int
    OBVIOUS
  <2> QED BY <1>2, <2>1, WiderSequence
<1>7. /\ head \o bitmap \in Seq(Int) /\ Len(head \o bitmap) = Len(head) + Len(bitmap)
      /\ \A i \in 1..Len(head) : (head \o bitmap)[i] = head[i]
      /\ \A i \in 1..Len(bitmap) : (head \o bitmap)[Len(head) + i] = bitmap[i]
  BY <1>5, <1>6, Concatenation
<1> QED BY <1>2, <1>3, <1>4, <1>7 DEF a, b, bitmap

LEMMA AcknackFields ==
  ASSUME NEW s \in NumberSets, NEW count \in Int
  PROVE  LET f == SetFields(s) \o <<count>>
             n == 3 + Words(s.num_bits)
         IN /\ f \in Seq(Int) /\ Len(f) = n + 1 /\ f[n + 1] = count
            /\ \A i \in 1..n : f[i] = SetFields(s)[i]
<1> DEFINE f == SetFields(s)
           g == <<count>>
           n == 3 + Words(s.num_bits)
<1>1. f \in Seq(Int)
  BY SetFieldsShape
<1>2. Len(f) = n /\ n \in Nat
  BY SetFieldsShape, NumberSetFacts
<1>3. g \in Seq(Int)
  OBVIOUS
<1>4. Len(g) = 1 /\ g[1] = count
  OBVIOUS
<1> HIDE DEF f, g, n
<1>5. /\ f \o g \in Seq(Int) /\ Len(f \o g) = Len(f) + Len(g)
      /\ \A i \in 1..Len(f) : (f \o g)[i] = f[i]
      /\ \A i \in 1..Len(g) : (f \o g)[Len(f) + i] = g[i]
  BY <1>1, <1>3, Concatenation
<1>6. (f \o g)[n + 1] = count
  <2>1. 1 \in 1..Len(g)
    BY <1>4
  <2> QED BY <1>2, <1>4, <1>5, <2>1
<1>7. /\ f \o g \in Seq(Int) /\ Len(f \o g) = n + 1
      /\ \A i \in 1..n : (f \o g)[i] = f[i]
  BY <1>2, <1>4, <1>5
<1> QED BY <1>6, <1>7 DEF f, g, n

LEMMA GapFields ==
  ASSUME NEW s \in NumberSets, NEW start \in Int
  PROVE  LET f == <<High(start), Low(start)>> \o SetFields(s)
             n == 3 + Words(s.num_bits)
         IN /\ f \in Seq(Int) /\ Len(f) = n + 2 /\ f[1] = High(start) /\ f[2] = Low(start)
            /\ \A i \in 1..n : f[2 + i] = SetFields(s)[i]
<1> DEFINE a == High(start)
           b == Low(start)
           f == SetFields(s)
           g == <<a, b>>
           n == 3 + Words(s.num_bits)
<1>1. f \in Seq(Int)
  BY SetFieldsShape
<1>2. Len(f) = n /\ n \in Nat
  BY SetFieldsShape, NumberSetFacts
<1>3. a \in Int /\ b \in Int
  BY HighLow
<1> HIDE DEF a, b
<1>4. g \in Seq(Int)
  BY <1>3
<1>5. Len(g) = 2 /\ g[1] = a /\ g[2] = b
  OBVIOUS
<1> HIDE DEF f, g, n
<1>6. /\ g \o f \in Seq(Int) /\ Len(g \o f) = Len(g) + Len(f)
      /\ \A i \in 1..Len(g) : (g \o f)[i] = g[i]
      /\ \A i \in 1..Len(f) : (g \o f)[Len(g) + i] = f[i]
  BY <1>1, <1>4, Concatenation
<1>7. (g \o f)[1] = a /\ (g \o f)[2] = b
  <2>1. 1 \in 1..Len(g) /\ 2 \in 1..Len(g)
    BY <1>5
  <2> QED BY <1>5, <1>6, <2>1
<1>8. /\ g \o f \in Seq(Int) /\ Len(g \o f) = n + 2
      /\ \A i \in 1..n : (g \o f)[2 + i] = f[i]
  BY <1>2, <1>5, <1>6
<1> QED BY <1>7, <1>8 DEF f, g, n, a, b

(* What the numbers of a message are.                                      *)
LEMMA SignedNumbersAreInt ==
  ASSUME NEW n \in Nat
  PROVE  /\ SignedNumbers(n) \subseteq Int
         /\ \A x \in SignedNumbers(n) : -(Capacity(n) \div 2) <= x /\ x <= Capacity(n) \div 2 - 1
         /\ Capacity(n) \div 2 \in Nat
<1> DEFINE w == Capacity(n)
<1>1. w \in Nat \ {0}
  BY CapacityFacts
<1> HIDE DEF w
<1>2. w \div 2 \in Nat
  BY <1>1
<1> QED BY <1>2 DEF SignedNumbers, w

LEMMA FieldsType ==
  ASSUME NEW m \in Control
  PROVE  Fields(WithBitmap(m)) \in Seq(Int)
<1> DEFINE long == SignedNumbers(8)
           short == SignedNumbers(4)
<1>1. long \subseteq Int /\ short \subseteq Int
  BY SignedNumbersAreInt
<1> HIDE DEF long, short
<1>2. CASE m \in Heartbeats
  <2>1. m.kind = "heartbeat" /\ m.first \in long /\ m.last \in long /\ m.count \in short
    BY <1>2 DEF Heartbeats, long, short
  <2>2. WithBitmap(m) = m
    BY <2>1, <1>2, BitmapAdded DEF Control
  <2>3. Fields(m) = <<High(m.first), Low(m.first), High(m.last), Low(m.last), m.count>>
    BY <2>1 DEF Fields
  <2>4. /\ High(m.first) \in Int /\ Low(m.first) \in Int /\ High(m.last) \in Int
        /\ Low(m.last) \in Int /\ m.count \in Int
    <3>1. m.first \in Int /\ m.last \in Int /\ m.count \in Int
      BY <1>1, <2>1
    <3> QED BY <3>1, HighLow
  <2> QED BY <2>2, <2>3, <2>4
<1>3. CASE m \in AckNacks
  <2>1. m.kind = "acknack" /\ m.set \in NumberSets /\ m.count \in short
    BY <1>3 DEF AckNacks, short
  <2>2. WithBitmap(m) = [m EXCEPT !.set = Filled(m.set)] /\ WithBitmap(m).kind = "acknack"
    BY <2>1, <1>3, BitmapAdded DEF Control
  <2>3. WithBitmap(m).set = Filled(m.set) /\ WithBitmap(m).count = m.count
    BY <1>3, <2>2 DEF AckNacks
  <2>4. Fields(WithBitmap(m)) = SetFields(m.set) \o <<m.count>>
    BY <2>2, <2>3 DEF Fields, SetFields
  <2>5. m.count \in Int
    BY <1>1, <2>1
  <2> QED BY <2>1, <2>4, <2>5, AcknackFields
<1>4. CASE m \in Gaps
  <2>1. m.kind = "gap" /\ m.set \in NumberSets /\ m.start \in long
    BY <1>4 DEF Gaps, long
  <2>2. WithBitmap(m) = [m EXCEPT !.set = Filled(m.set)] /\ WithBitmap(m).kind = "gap"
    BY <2>1, <1>4, BitmapAdded DEF Control
  <2>3. WithBitmap(m).set = Filled(m.set) /\ WithBitmap(m).start = m.start
    BY <1>4, <2>2 DEF Gaps
  <2>4. Fields(WithBitmap(m)) = <<High(m.start), Low(m.start)>> \o SetFields(m.set)
    BY <2>2, <2>3 DEF Fields, SetFields
  <2>5. m.start \in Int
    BY <1>1, <2>1
  <2> QED BY <2>1, <2>4, <2>5, GapFields
<1> QED BY <1>2, <1>3, <1>4 DEF Control

-----------------------------------------------------------------------------
(* What can be in flight.                                                  *)
SubmessageWires ==
  [kind : SubmessageKinds \cup {"info"}, header : Seq(Bytes), flags : SUBSET (0..4),
   length : Seq(Bytes), content : Seq(Bytes)]
ListWires == [kind : {"participant", "endpoint"}, bytes : Seq(Bytes)]
StringWires == [kind : {"string"}, bytes : Seq(Bytes)]

LEMMA ControlEncoded ==
  ASSUME NEW m \in Control, NEW e
  PROVE  ContentOf(WithBitmap(m), e) \in Seq(Bytes)
<1> DEFINE b == WithBitmap(m)
           ids == b.reader_id \o b.writer_id
<1>1. b.kind # "data" /\ b.reader_id = m.reader_id /\ b.writer_id = m.writer_id
  <2>1. m.kind \in ControlKinds
    BY DEF Control, Heartbeats, AckNacks, Gaps, ControlKinds
  <2>2. b = m \/ b = [m EXCEPT !.set = Filled(m.set)]
    BY BitmapAdded
  <2>3. b.kind = m.kind
    BY BitmapAdded
  <2> HIDE DEF b
  <2> QED BY <2>1, <2>2, <2>3 DEF ControlKinds, Control, Heartbeats, AckNacks, Gaps
<1>2. m.reader_id \in BytesOf(4) /\ m.writer_id \in BytesOf(4)
  BY DEF Control, Heartbeats, AckNacks, Gaps
<1>3. ids \in Seq(Bytes) /\ Len(ids) = 8
  BY <1>1, <1>2, TwoIds
<1>4. Fields(b) \in Seq(Int)
  BY FieldsType
<1>5. ContentOf(b, e) = WriteWords(ids, Fields(b), e)
  <2> HIDE DEF b
  <2> QED BY <1>1 DEF ContentOf
<1> HIDE DEF b, ids
<1>6. Len(ids) % 4 = 0
  BY <1>3
<1>7. WriteWords(ids, Fields(b), e) \in Seq(Bytes)
  BY <1>3, <1>4, <1>6, WordsWritten
<1> QED BY <1>5, <1>7 DEF b

(* The content of a DATA: the opening, the ids, the number, the payload.   *)
Number(n, e) == ToBytes(High(n), 4, e) \o ToBytes(Low(n), 4, e)
DataStart(m, e) == (Opening(e) \o m.reader_id) \o m.writer_id
NumberWords(m) == <<High(m.sn), Low(m.sn)>>

LEMMA DataStartWritten ==
  ASSUME NEW m \in Datas, NEW e
  PROVE  /\ ContentOf(WithBitmap(m), e)
              = WriteWords(DataStart(m, e), NumberWords(m), e) \o m.payload
         /\ DataStart(m, e) \in Seq(Bytes) /\ Len(DataStart(m, e)) = 12
         /\ NumberWords(m) \in Seq(Int) /\ Len(NumberWords(m)) = 2
         /\ m.payload \in Seq(Bytes) /\ WithBitmap(m) = m
<1>1. /\ m.kind = "data" /\ m.payload \in Seq(Bytes)
      /\ m.reader_id \in BytesOf(4) /\ m.writer_id \in BytesOf(4) /\ m.sn \in SignedNumbers(8)
  BY DEF Datas
<1>2. WithBitmap(m) = m
  BY <1>1, BitmapAdded
<1>3. ContentOf(m, e) = WriteWords(DataStart(m, e), NumberWords(m), e) \o m.payload
  BY <1>1, OpeningWritten DEF ContentOf, DataStart, NumberWords
<1>4. m.sn \in Int
  BY <1>1, SignedNumbersAreInt
<1>5. High(m.sn) \in Int /\ Low(m.sn) \in Int
  BY <1>4, HighLow
<1>6. NumberWords(m) \in Seq(Int) /\ Len(NumberWords(m)) = 2
  BY <1>5 DEF NumberWords
<1> DEFINE a == Opening(e)
           r == m.reader_id
           w == m.writer_id
<1>7. a \in Seq(Bytes) /\ r \in Seq(Bytes) /\ w \in Seq(Bytes)
  BY <1>1, OpeningWritten DEF BytesOf
<1>8. Len(a) = 4 /\ Len(r) = 4 /\ Len(w) = 4
  BY <1>1, OpeningWritten DEF BytesOf
<1> HIDE DEF a, r, w
<1>9. a \o r \in Seq(Bytes) /\ Len(a \o r) = Len(a) + Len(r)
  BY <1>7, Concatenation
<1>10. a \o r \in Seq(Bytes)
  BY <1>9
<1>11. (a \o r) \o w \in Seq(Bytes) /\ Len((a \o r) \o w) = Len(a \o r) + Len(w)
  BY <1>7, <1>10, Concatenation
<1>12. DataStart(m, e) \in Seq(Bytes) /\ Len(DataStart(m, e)) = 12
  BY <1>8, <1>9, <1>11 DEF DataStart, a, r, w
<1> QED BY <1>1, <1>2, <1>3, <1>6, <1>12

LEMMA DataEncoded ==
  ASSUME NEW m \in Datas, NEW e
  PROVE  ContentOf(WithBitmap(m), e) \in Seq(Bytes)
<1> DEFINE start == DataStart(m, e)
           words == NumberWords(m)
<1>1. start \in Seq(Bytes) /\ Len(start) = 12 /\ words \in Seq(Int) /\ m.payload \in Seq(Bytes)
  BY DataStartWritten
<1> HIDE DEF start, words
<1>2. Len(start) % 4 = 0
  BY <1>1
<1>3. WriteWords(start, words, e) \in Seq(Bytes)
  BY <1>1, <1>2, WordsWritten
<1>4. WriteWords(start, words, e) \o m.payload \in Seq(Bytes)
  BY <1>1, <1>3, Concatenation
<1> QED BY <1>4, DataStartWritten DEF start, words

-----------------------------------------------------------------------------
(* An encoded submessage is a sequence of bytes.                           *)

LEMMA SmallBytes == 0 \in Bytes /\ 1 \in Bytes /\ 2 \in Bytes /\ 3 \in Bytes
<1>1. Capacity(1) \in Nat /\ Capacity(1) >= 4
  BY CapacityOfOne, CapacityFacts
<1> QED BY <1>1 DEF Bytes

LEMMA HeaderEncoded ==
  ASSUME NEW from \in Senders
  PROVE  /\ EncodeMessageHeader(from) \in Seq(Bytes) /\ Len(EncodeMessageHeader(from)) = 20
         /\ SubSeq(EncodeMessageHeader(from), 1, 4) = Magic
         /\ DecodeMessageHeader(EncodeMessageHeader(from)) = from
<1> DEFINE a == Magic
           b == from.version
           c == from.vendor
           d == from.prefix
<1>1. a \in Seq(Bytes) /\ b \in Seq(Bytes) /\ c \in Seq(Bytes) /\ d \in Seq(Bytes)
  BY SubmessagesAssumption DEF Senders, BytesOf
<1>2. Len(a) = 4 /\ Len(b) = 2 /\ Len(c) = 2 /\ Len(d) = 12
  BY SubmessagesAssumption DEF Senders, BytesOf
<1>3. from = [version |-> b, vendor |-> c, prefix |-> d]
  BY DEF Senders
<1>4. EncodeMessageHeader(from) = ((a \o b) \o c) \o d
  BY DEF EncodeMessageHeader
<1> HIDE DEF a, b, c, d
<1>5. a \o b \in Seq(Bytes) /\ Len(a \o b) = Len(a) + Len(b)
  BY <1>1, Concatenation
<1> DEFINE ab == a \o b
<1>6. ab \in Seq(Bytes)
  BY <1>5
<1>7. Len(ab) = 6
  BY <1>2, <1>5
<1> HIDE DEF ab
<1>8. ab \o c \in Seq(Bytes) /\ Len(ab \o c) = Len(ab) + Len(c)
  BY <1>1, <1>6, Concatenation
<1> DEFINE abc == ab \o c
<1>9. abc \in Seq(Bytes)
  BY <1>8
<1>10. Len(abc) = 8
  BY <1>2, <1>7, <1>8
<1> HIDE DEF abc
<1>11. abc \o d \in Seq(Bytes) /\ Len(abc \o d) = Len(abc) + Len(d)
  BY <1>1, <1>9, Concatenation
<1> DEFINE h == abc \o d
<1>12. h \in Seq(Bytes) /\ Len(h) = 20
  BY <1>2, <1>10, <1>11
<1>13. EncodeMessageHeader(from) = h
  BY <1>4 DEF ab, abc
<1>14. SubSeq(h, 1, 4) = a
  <2>1. SubSeq(h, 1, 4) = SubSeq(abc, 1, 4)
    <3>1. 4 \in Nat /\ 4 <= Len(abc)
      BY <1>10
    <3> HIDE DEF h
    <3> QED BY <1>1, <1>9, <3>1, FirstOfConcatenation DEF h
  <2>2. SubSeq(abc, 1, 4) = SubSeq(ab, 1, 4)
    <3>1. 4 \in Nat /\ 4 <= Len(ab)
      BY <1>7
    <3> QED BY <1>1, <1>6, <3>1, FirstOfConcatenation DEF abc
  <2>3. SubSeq(ab, 1, 4) = SubSeq(a, 1, 4)
    <3>1. 4 \in Nat /\ 4 <= Len(a)
      BY <1>2
    <3> QED BY <1>1, <3>1, FirstOfConcatenation DEF ab
  <2>4. SubSeq(a, 1, 4) = a
    BY <1>1, <1>2, WholePart
  <2> QED BY <2>1, <2>2, <2>3, <2>4
<1>15. SubSeq(h, 9, 20) = d
  <2>1. SubSeq(abc \o d, Len(abc) + 1, Len(abc) + Len(d)) = d
    BY <1>1, <1>9, EndOfConcatenation
  <2>2. Len(abc) + 1 = 9 /\ Len(abc) + Len(d) = 20
    BY <1>2, <1>10
  <2> QED BY <2>1, <2>2
<1>16. SubSeq(h, 7, 8) = c
  <2>1. SubSeq(ab \o c, Len(ab) + 1, Len(ab) + Len(c)) = c
    BY <1>1, <1>6, EndOfConcatenation
  <2>2. SubSeq(abc, 7, 8) = c
    <3>1. Len(ab) + 1 = 7 /\ Len(ab) + Len(c) = 8
      BY <1>2, <1>7
    <3> QED BY <2>1, <3>1 DEF abc
  <2>3. SubSeq(abc \o d, 6 + 1, 6 + 2) = SubSeq(abc, 6 + 1, 6 + 2)
    <3> DEFINE m == 6
               n == 2
    <3>1. m \in Nat /\ n \in Nat /\ m + n <= Len(abc)
      BY <1>10
    <3> HIDE DEF m, n
    <3>2. SubSeq(abc \o d, m + 1, m + n) = SubSeq(abc, m + 1, m + n)
      BY <1>1, <1>9, <3>1, PartOfFirst
    <3> QED BY <3>2 DEF m, n
  <2>4. 6 + 1 = 7 /\ 6 + 2 = 8
    OBVIOUS
  <2>5. SubSeq(abc \o d, 7, 8) = SubSeq(abc, 7, 8)
    BY <2>3, <2>4
  <2> QED BY <2>2, <2>5
<1>17. SubSeq(h, 5, 6) = b
  <2>1. SubSeq(a \o b, Len(a) + 1, Len(a) + Len(b)) = b
    BY <1>1, EndOfConcatenation
  <2>2. SubSeq(ab, 5, 6) = b
    <3>1. Len(a) + 1 = 5 /\ Len(a) + Len(b) = 6
      BY <1>2
    <3> QED BY <2>1, <3>1 DEF ab
  <2> DEFINE m == 4
             n == 2
  <2>3. m \in Nat /\ n \in Nat /\ m + n <= Len(abc) /\ m + n <= Len(ab)
    BY <1>7, <1>10
  <2> HIDE DEF m, n
  <2>4. SubSeq(abc \o d, m + 1, m + n) = SubSeq(abc, m + 1, m + n)
    BY <1>1, <1>9, <2>3, PartOfFirst
  <2>5. SubSeq(ab \o c, m + 1, m + n) = SubSeq(ab, m + 1, m + n)
    BY <1>1, <1>6, <2>3, PartOfFirst
  <2>6. m + 1 = 5 /\ m + n = 6
    BY DEF m, n
  <2> QED BY <2>2, <2>4, <2>5, <2>6 DEF abc
<1> HIDE DEF h
<1>18. DecodeMessageHeader(h) = from
  BY <1>3, <1>15, <1>16, <1>17 DEF DecodeMessageHeader
<1> QED BY <1>12, <1>13, <1>14, <1>18 DEF a

LEMMA SubmessageEncoded ==
  ASSUME NEW m \in Control \cup Datas, NEW e \in Endiannesses
  PROVE  LET content == ContentOf(WithBitmap(m), e)
             w == [kind |-> m.kind, header |-> EncodeMessageHeader(m.from),
                   flags |-> FlagsOf(WithBitmap(m), e),
                   length |-> ToBytes(Len(content), 2, e), content |-> content]
         IN /\ EncodeMessage(WithBitmap(m), e) \in {w, Rejected}
            /\ w \in SubmessageWires
            /\ content \in Seq(Bytes) /\ Len(content) \in Nat
<1> DEFINE b == WithBitmap(m)
           content == ContentOf(b, e)
<1>1. b.kind = m.kind /\ m.kind \in SubmessageKinds
  <2>1. b.kind = m.kind
    BY BitmapAdded
  <2>2. m.kind \in SubmessageKinds
    BY DEF Control, Heartbeats, AckNacks, Gaps, Datas, SubmessageKinds, ControlKinds
  <2> QED BY <2>1, <2>2
<1>2. b.from = m.from /\ m.from \in Senders
  <2>1. m.from \in Senders
    BY DEF Control, Heartbeats, AckNacks, Gaps, Datas
  <2>2. b = m \/ b = [m EXCEPT !.set = Filled(m.set)]
    BY BitmapAdded
  <2>3. [m EXCEPT !.set = Filled(m.set)].from = m.from
    BY DEF Control, Heartbeats, AckNacks, Gaps, Datas
  <2> QED BY <2>1, <2>2, <2>3
<1>3. content \in Seq(Bytes) /\ Len(content) \in Nat
  <2>1. content \in Seq(Bytes)
    BY ControlEncoded, DataEncoded
  <2> QED BY <2>1
<1>4. FlagsOf(b, e) \in SUBSET (0..4)
  <2>1. m.kind \notin {"gap", "data"} => m.flags \in SUBSET (0..4)
    BY DEF Control, Heartbeats, AckNacks, Gaps, Datas
  <2>2. m.kind \notin {"gap", "data"} => b.flags = m.flags
    <3>1. b = m \/ b = [m EXCEPT !.set = Filled(m.set)]
      BY BitmapAdded
    <3>2. m.kind \notin {"gap", "data"} => [m EXCEPT !.set = Filled(m.set)].flags = m.flags
      BY DEF Control, Heartbeats, AckNacks, Gaps, Datas
    <3> QED BY <3>1, <3>2
  <2> DEFINE flags == CASE b.kind = "gap"  -> {} [] b.kind = "data" -> {2} [] OTHER -> b.flags
  <2>3. flags \in SUBSET (0..4)
    <3> HIDE DEF b
    <3>1. CASE b.kind = "gap"
      BY <3>1
    <3>2. CASE b.kind = "data"
      BY <3>2
    <3>3. CASE b.kind \notin {"gap", "data"}
      <4>1. flags = b.flags
        BY <3>3
      <4> QED BY <1>1, <2>1, <2>2, <3>3, <4>1
    <3> QED BY <3>1, <3>2, <3>3
  <2>4. FlagsOf(b, e) = (IF e = "little" THEN {0} ELSE {}) \cup flags
    BY DEF FlagsOf
  <2> HIDE DEF flags
  <2> QED BY <2>3, <2>4
<1> HIDE DEF b, content
<1>5. ToBytes(Len(content), 2, e) \in Seq(Bytes)
  <2> DEFINE n == 2
             x == Len(content)
  <2>1. x \in Int /\ n \in Nat
    BY <1>3
  <2> HIDE DEF n, x
  <2>2. ToBytes(x, n, e) \in Seq(Bytes)
    BY <2>1, ToBytesType
  <2> QED BY <2>2 DEF n, x
<1>6. EncodeMessageHeader(m.from) \in Seq(Bytes)
  BY <1>2, HeaderEncoded
<1> DEFINE w == [kind |-> m.kind, header |-> EncodeMessageHeader(m.from),
                 flags |-> FlagsOf(b, e), length |-> ToBytes(Len(content), 2, e),
                 content |-> content]
<1>7. w \in SubmessageWires
  BY <1>1, <1>3, <1>4, <1>5, <1>6 DEF SubmessageWires
<1>8. EncodeMessage(b, e) \in {w, Rejected}
  BY <1>1, <1>2 DEF EncodeMessage, content
<1> QED BY <1>3, <1>7, <1>8 DEF b, content

-----------------------------------------------------------------------------
(* Bits: adding a power of two sets the bit it stands for.                 *)

(* Bit j of the number x.                                                  *)
Bit(x, j) == (x \div 2^j) % 2

LEMMA Parity ==
  ASSUME NEW x \in Int, x % 2 = 0
  PROVE  \E q \in Int : x = q * 2
<1>1. 2 \in Nat \ {0}
  OBVIOUS
<1>2. x \div 2 \in Int /\ x = (x \div 2) * 2 + (x % 2)
  BY <1>1, Division
<1> QED BY <1>2

LEMMA EvenSum ==
  ASSUME NEW x \in Int, NEW q \in Int
  PROVE  (x + q * 2) % 2 = x % 2
<1>1. 2 \in Nat \ {0}
  OBVIOUS
<1>2. x \div 2 \in Int /\ x % 2 \in 0..2 - 1 /\ x = (x \div 2) * 2 + (x % 2)
  BY <1>1, Division
<1> DEFINE h == x \div 2
           r == x % 2
<1>3. h \in Int /\ r \in 0..2 - 1 /\ x = h * 2 + r
  BY <1>2
<1> HIDE DEF h, r
<1>4. h + q \in Int /\ x + q * 2 = (h + q) * 2 + r /\ x + q * 2 \in Int
  BY <1>3
<1>5. (x + q * 2) % 2 = r
  BY <1>1, <1>3, <1>4, DivisionUnique
<1> QED BY <1>5 DEF r

(* Adding a multiple of the divisor.                                       *)
LEMMA MultipleAdded ==
  ASSUME NEW x \in Int, NEW k \in Int, NEW d \in Nat \ {0}
  PROVE  (x + k * d) \div d = (x \div d) + k /\ (x + k * d) % d = x % d
<1> DEFINE h == x \div d
           r == x % d
<1>1. h \in Int /\ r \in 0..d - 1 /\ x = h * d + r
  BY Division
<1> HIDE DEF h, r
<1>2. h + k \in Int /\ d \in Int /\ (h + k) * d = h * d + k * d
  BY <1>1, Products
<1> DEFINE kd == k * d
           hd == h * d
           hk == (h + k) * d
<1>3. kd \in Int /\ hd \in Int /\ hk \in Int
  BY <1>1, <1>2
<1> HIDE DEF kd, hd, hk
<1>4. r \in Int
  BY <1>1
<1>5. x + kd = hk + r /\ x + kd \in Int
  BY <1>1, <1>2, <1>3, <1>4 DEF kd, hd, hk
<1>6. x + kd = (h + k) * d + r
  BY <1>5 DEF hk
<1>7. (x + kd) \div d = h + k /\ (x + kd) % d = r
  BY <1>1, <1>2, <1>5, <1>6, DivisionUnique
<1> QED BY <1>7 DEF kd, h, r

LEMMA LowerBitKept ==
  ASSUME NEW x \in Nat, NEW j \in Nat, NEW i \in Nat, i < j
  PROVE  Bit(x + 2^j, i) = Bit(x, i)
<1> DEFINE k == j - i - 1
           p == 2^k
           d == 2^i
<1>1. k \in Nat /\ j = (k + 1) + i /\ k + 1 \in Nat
  OBVIOUS
<1> HIDE DEF k
<1>2. p \in Nat \ {0} /\ d \in Nat \ {0} /\ 2^(k + 1) = 2 * p
  BY <1>1, PowerPositive
<1>3. 2^((k + 1) + i) = 2^(k + 1) * 2^i
  BY <1>1, PowerSum
<1>4. 2^j = (2 * p) * d
  BY <1>1, <1>2, <1>3
<1> HIDE DEF p, d
<1> DEFINE y == x \div d
           z == (x + 2^j) \div d
<1>5. z = y + 2 * p
  <2>1. 2 * p \in Int
    BY <1>2
  <2> DEFINE pp == 2 * p
  <2> HIDE DEF pp
  <2>2. pp \in Int /\ x \in Int /\ d \in Nat \ {0}
    BY <1>2, <2>1 DEF pp
  <2>3. (x + pp * d) \div d = (x \div d) + pp
    BY <2>2, MultipleAdded
  <2> QED BY <1>4, <2>3 DEF pp
<1>6. y \in Int
  BY <1>2, Division
<1> HIDE DEF y, z
<1>7. z % 2 = y % 2
  <2>1. z = y + p * 2 /\ p \in Int
    BY <1>2, <1>5, <1>6
  <2> QED BY <1>6, <2>1, EvenSum
<1> QED BY <1>7 DEF Bit, y, z, d

LEMMA BitAdded ==
  ASSUME NEW x \in Nat, NEW j \in Nat, Bit(x, j) = 0
  PROVE  \E q \in Nat, r \in 0..2^j - 1 :
           /\ x = (q * 2) * 2^j + r
           /\ x + 2^j = (q * 2 + 1) * 2^j + r
           /\ x \div 2^j = q * 2 /\ (x + 2^j) \div 2^j = q * 2 + 1
<1> DEFINE d == 2^j
           h == x \div d
           r == x % d
<1>1. d \in Nat \ {0}
  BY PowerPositive
<1>2. h \in Int /\ r \in 0..d - 1 /\ x = h * d + r
  <2> HIDE DEF d
  <2>1. x \in Int
    OBVIOUS
  <2> QED BY <1>1, <2>1, Division
<1>3. h % 2 = 0
  BY DEF Bit
<1>4. (x + d) \div d = h + 1
  <2> HIDE DEF d
  <2> DEFINE one == 1
  <2>1. one \in Int /\ x \in Int /\ one * d = d
    BY <1>1
  <2> HIDE DEF one
  <2>2. (x + one * d) \div d = (x \div d) + one
    BY <1>1, <2>1, MultipleAdded
  <2> QED BY <2>1, <2>2 DEF one
<1> HIDE DEF h, r
<1>5. PICK q \in Int : h = q * 2
  BY <1>2, <1>3, Parity
<1> HIDE DEF d
<1>6. h \in Nat
  <2>1. CASE h < 0
    <3>1. h <= -1 /\ -1 \in Int
      BY <1>2, <2>1
    <3>2. h * d <= (-1) * d
      BY <1>1, <1>2, <3>1, Z3
    <3>3. h * d + r < 0
      BY <1>1, <1>2, <3>2
    <3> QED BY <1>2, <3>3
  <2> QED BY <1>2, <2>1
<1>7. q \in Nat
  BY <1>5, <1>6
<1>8. x + d = (h + 1) * d + r
  <2>1. (h + 1) * d = h * d + d
    BY <1>1, <1>2, Z3
  <2> QED BY <1>1, <1>2, <2>1
<1> QED BY <1>2, <1>4, <1>5, <1>7, <1>8 DEF d, h

LEMMA HigherBitKept ==
  ASSUME NEW x \in Nat, NEW j \in Nat, Bit(x, j) = 0, NEW i \in Nat, j < i
  PROVE  Bit(x + 2^j, i) = Bit(x, i)
<1>1. PICK q \in Nat : x \div 2^j = q * 2 /\ (x + 2^j) \div 2^j = q * 2 + 1
  BY BitAdded
<1> DEFINE k == i - j - 1
           d == 2^k
           b == 2^j
<1>2. k \in Nat /\ i = (k + 1) + j /\ k + 1 \in Nat
  OBVIOUS
<1> HIDE DEF k
<1>3. d \in Nat \ {0} /\ b \in Nat \ {0} /\ 2^(k + 1) = 2 * d
  BY <1>2, PowerPositive
<1>4. 2^i = (d * 2) * b
  <2>1. 2^((k + 1) + j) = 2^(k + 1) * 2^j
    BY <1>2, PowerSum
  <2> QED BY <1>2, <1>3, <2>1
<1> HIDE DEF d, b
<1>5. ASSUME NEW y \in Int, y \div b = q * 2 \/ y \div b = q * 2 + 1
      PROVE  y \div 2^i = q \div d
  <2> DEFINE dd == d * 2
             h == y \div b
  <2>1. dd \in Nat \ {0} /\ 2 \in Nat \ {0}
    BY <1>3
  <2>2. h \div dd = y \div (dd * b)
    <3> HIDE DEF dd
    <3> QED BY <1>3, <2>1, TwoDivisions
  <2>3. h \in Int
    BY <1>3, Division
  <2>4. (h \div 2) \div d = h \div (d * 2)
    <3> HIDE DEF h
    <3> QED BY <1>3, <2>1, <2>3, TwoDivisions
  <2>5. h = q * 2 \/ h = q * 2 + 1
    BY <1>5
  <2> HIDE DEF h
  <2>6. h \div 2 = q
    BY <2>3, <2>5
  <2> QED BY <1>4, <2>2, <2>4, <2>6
<1>6. x \div 2^i = q \div d
  BY <1>1, <1>5 DEF b
<1>7. (x + 2^j) \div 2^i = q \div d
  <2>1. x + 2^j \in Int
    BY PowerPositive
  <2> QED BY <1>1, <1>5, <2>1 DEF b
<1> QED BY <1>6, <1>7 DEF Bit

LEMMA AddBit ==
  ASSUME NEW W \in Nat, NEW x \in Nat, x < 2^W, NEW j \in 0..W - 1, Bit(x, j) = 0
  PROVE  /\ x + 2^j \in Nat /\ x + 2^j < 2^W
         /\ Bit(x + 2^j, j) = 1
         /\ \A i \in Nat : i # j => Bit(x + 2^j, i) = Bit(x, i)
<1>1. PICK q \in Nat, r \in 0..2^j - 1 :
         /\ x = (q * 2) * 2^j + r
         /\ x + 2^j = (q * 2 + 1) * 2^j + r
         /\ x \div 2^j = q * 2 /\ (x + 2^j) \div 2^j = q * 2 + 1
  BY BitAdded
<1> DEFINE k == W - j - 1
           a == 2^k
           b == 2^j
<1>2. k \in Nat /\ W = (k + 1) + j /\ k + 1 \in Nat /\ j \in Nat
  OBVIOUS
<1> HIDE DEF k
<1>3. a \in Nat \ {0} /\ b \in Nat \ {0} /\ 2^(k + 1) = 2 * a
  BY <1>2, PowerPositive
<1>4. 2^W = (2 * a) * b
  <2>1. 2^((k + 1) + j) = 2^(k + 1) * 2^j
    BY <1>2, PowerSum
  <2> QED BY <1>2, <1>3, <2>1
<1>5. Bit(x + 2^j, j) = 1
  <2>1. (q * 2 + 1) % 2 = 1
    OBVIOUS
  <2> QED BY <1>1, <2>1 DEF Bit
<1>6. x + 2^j \in Nat
  BY <1>2, PowerPositive
<1>7. ASSUME NEW i \in Nat, i # j
      PROVE  Bit(x + 2^j, i) = Bit(x, i)
  <2>1. CASE i < j
    BY <1>2, <2>1, LowerBitKept
  <2>2. CASE j < i
    BY <1>2, <2>2, HigherBitKept
  <2> QED BY <1>2, <1>7, <2>1, <2>2
<1> HIDE DEF a, b
<1>8. q < a
  <2> SUFFICES ASSUME a <= q PROVE FALSE
    BY <1>3
  <2> DEFINE d == q - a
             ab == (2 * a) * b
  <2>1. d \in Nat /\ q = a + d
    BY <1>3
  <2>2. (q * 2) * b = ab + (d * 2) * b
    BY <1>3, <2>1, Z3
  <2>3. (d * 2) * b \in Nat /\ ab \in Nat
    BY <1>3, <2>1
  <2>4. x = (q * 2) * b + r /\ r \in Nat
    BY <1>1, <1>3 DEF b
  <2>5. x < ab
    BY <1>4
  <2> DEFINE db == (d * 2) * b
             qb == (q * 2) * b
  <2>6. qb = ab + db /\ x = qb + r /\ db \in Nat /\ ab \in Nat
    BY <2>2, <2>3, <2>4
  <2> HIDE DEF ab, db, qb, d
  <2> QED BY <2>4, <2>5, <2>6
<1>9. (q * 2 + 1) * b + r \in 0..((2 * a) * b) - 1
  <2>1. q * 2 + 1 \in 0..(2 * a) - 1 /\ 2 * a \in Nat \ {0} /\ r \in 0..b - 1
    BY <1>3, <1>8 DEF b
  <2> DEFINE h == q * 2 + 1
             aa == 2 * a
  <2> HIDE DEF h, aa
  <2>2. h * b + r \in 0..(aa * b) - 1
    BY <1>3, <2>1, Bounded DEF h, aa
  <2> QED BY <2>2 DEF h, aa
<1>10. x + 2^j < 2^W
  <2> DEFINE s == (q * 2 + 1) * b + r
             t == (2 * a) * b
  <2>1. s \in 0..t - 1 /\ x + 2^j = s /\ 2^W = t
    BY <1>1, <1>4, <1>9 DEF b
  <2>2. t \in Nat
    BY <1>3
  <2> HIDE DEF s, t
  <2>3. s < t
    BY <2>1, <2>2
  <2> QED BY <2>1, <2>3
<1> QED BY <1>5, <1>6, <1>7, <1>10

-----------------------------------------------------------------------------
(* A word is the sum of the powers of its bits.                            *)

Place(o) == WordBits - 1 - (o % WordBits)

LEMMA SetInduction ==
  ASSUME NEW S, IsFiniteSet(S), NEW G, {} \in G,
         \A s \in SUBSET S : s # {} /\ s \ {Taken(s)} \in G => s \in G
  PROVE  S \in G
<1> DEFINE T == {n \in Nat : \A s \in SUBSET S : Cardinality(s) = n => s \in G}
<1>1. \A s \in SUBSET S : /\ Cardinality(s) \in Nat
                          /\ Cardinality(s) = 0 <=> s = {}
                          /\ \A x \in s : Cardinality(s \ {x}) = Cardinality(s) - 1
  BY FS_Subset, FS_CardinalityType, FS_RemoveElement, FS_EmptySet
<1>2. 0 \in T
  BY <1>1
<1>3. ASSUME NEW n \in Nat, n \in T
      PROVE  n + 1 \in T
  <2> SUFFICES ASSUME NEW s \in SUBSET S, Cardinality(s) = n + 1
               PROVE  s \in G
    OBVIOUS
  <2>1. s # {} /\ Taken(s) \in s
    BY <1>1 DEF Taken
  <2>2. Cardinality(s \ {Taken(s)}) = n /\ s \ {Taken(s)} \in SUBSET S
    BY <1>1, <2>1
  <2> QED BY <1>3, <2>1, <2>2
<1> HIDE DEF T
<1>4. Nat \subseteq T
  BY <1>2, <1>3, Induction
<1>5. Cardinality(S) \in Nat
  BY <1>1
<1> QED BY <1>4, <1>5 DEF T

LEMMA ZeroBits ==
  ASSUME NEW i \in Nat
  PROVE  Bit(0, i) = 0
<1>1. 2^i \in Nat \ {0}
  BY PowerPositive
<1> DEFINE d == 2^i
<1> HIDE DEF d
<1>2. 0 \in Int /\ 0 \in 0..d - 1 /\ 0 = 0 * d + 0
  BY <1>1 DEF d
<1>3. 0 \div d = 0
  BY <1>1, <1>2, DivisionUnique DEF d
<1>4. Bit(0, i) = (0 \div d) % 2
  BY DEF Bit, d
<1>5. 0 % 2 = 0
  OBVIOUS
<1> QED BY <1>3, <1>4, <1>5

LEMMA BitsOfWord ==
  ASSUME NEW S \in SUBSET Int, IsFiniteSet(S),
         \A a, b \in S : Place(a) = Place(b) => a = b
  PROVE  /\ WordOf(S) \in Nat /\ WordOf(S) < 2^WordBits
         /\ \A i \in Nat : Bit(WordOf(S), i) = IF \E o \in S : Place(o) = i THEN 1 ELSE 0
<1>1. PICK v \in [SUBSET S -> Nat] :
         /\ WordOf(S) = v[S]
         /\ \A s \in SUBSET S :
              v[s] = IF s = {} THEN 0 ELSE v[s \ {Taken(s)}] + BitOf(Taken(s))
  BY WordChain
<1> DEFINE Q(s) ==
             /\ v[s] < 2^WordBits
             /\ \A i \in Nat : Bit(v[s], i) = IF \E o \in s : Place(o) = i THEN 1 ELSE 0
           G == {s \in SUBSET S : Q(s)}
<1>2. WordBits \in Nat /\ 2^WordBits \in Nat \ {0}
  BY WordWidth, PowerPositive
<1>3. {} \in G
  <2>1. v[{}] = 0
    BY <1>1
  <2> QED BY <1>2, <2>1, ZeroBits
<1>4. ASSUME NEW s \in SUBSET S, s # {}, s \ {Taken(s)} \in G
      PROVE  s \in G
  <2> DEFINE o == Taken(s)
             x == v[s \ {o}]
             j == Place(o)
  <2>1. o \in s /\ o \in S /\ o \in Int
    BY <1>4 DEF Taken
  <2>2. s \ {o} \in SUBSET S /\ x \in Nat
    OBVIOUS
  <2>3. j \in 0..WordBits - 1 /\ BitOf(o) = 2^j
    BY <2>1, BitPlace DEF Place
  <2>4. v[s] = x + 2^j
    <3>1. v[s] = x + BitOf(o)
      BY <1>1, <1>4
    <3> QED BY <2>3, <3>1
  <2>5. x < 2^WordBits /\ \A i \in Nat :
          Bit(x, i) = IF \E a \in s \ {o} : Place(a) = i THEN 1 ELSE 0
    BY <1>4
  <2> HIDE DEF o, x
  <2>6. \A a \in s \ {o} : Place(a) # j
    BY <2>1
  <2>7. \A a \in s : a = o \/ a \in s \ {o}
    OBVIOUS
  <2>8. Place(o) = j
    OBVIOUS
  <2> HIDE DEF j
  <2>9. j \in Nat /\ Bit(x, j) = 0
    BY <2>3, <2>5, <2>6
  <2>10. /\ x + 2^j < 2^WordBits /\ Bit(x + 2^j, j) = 1
         /\ \A i \in Nat : i # j => Bit(x + 2^j, i) = Bit(x, i)
    BY <1>2, <2>2, <2>3, <2>5, <2>9, AddBit
  <2>11. ASSUME NEW i \in Nat
         PROVE  Bit(v[s], i) = IF \E a \in s : Place(a) = i THEN 1 ELSE 0
    <3>1. CASE i = j
      BY <2>1, <2>4, <2>8, <2>10, <3>1
    <3>2. CASE i # j
      <4>1. Bit(v[s], i) = Bit(x, i)
        BY <2>4, <2>10, <3>2
      <4>2. (\E a \in s : Place(a) = i) <=> (\E a \in s \ {o} : Place(a) = i)
        BY <2>7, <2>8, <3>2
      <4> QED BY <2>5, <4>1, <4>2
    <3> QED BY <3>1, <3>2
  <2> QED BY <2>4, <2>10, <2>11
<1> HIDE DEF G
<1>5. S \in G
  BY <1>3, <1>4, SetInduction
<1> QED BY <1>1, <1>5 DEF G

(* A number whose low bits are all clear, and one that is a multiple.      *)
LEMMA LowBitsClear ==
  ASSUME NEW x \in Nat, NEW u \in Nat, x % 2^u = 0, NEW j \in Nat, j < u
  PROVE  Bit(x, j) = 0
<1> DEFINE k == u - j - 1
           p == 2^k
           d == 2^j
           e == 2^u
           h == x \div e
<1>1. k \in Nat /\ u = (k + 1) + j /\ k + 1 \in Nat
  OBVIOUS
<1> HIDE DEF k
<1>2. p \in Nat \ {0} /\ d \in Nat \ {0} /\ e \in Nat \ {0} /\ 2^(k + 1) = 2 * p
  BY <1>1, PowerPositive
<1>3. e = (2 * p) * d
  <2>1. 2^((k + 1) + j) = 2^(k + 1) * 2^j
    BY <1>1, PowerSum
  <2> QED BY <1>1, <1>2, <2>1
<1>4. x % e = 0
  OBVIOUS
<1> HIDE DEF p, d, e
<1>5. h \in Int /\ x = h * e
  <2>1. x \in Int
    OBVIOUS
  <2>2. h \in Int /\ x = h * e + (x % e)
    BY <1>2, <2>1, Division
  <2> HIDE DEF h
  <2>3. h * e \in Int
    BY <1>2, <2>2
  <2> QED BY <1>4, <2>2, <2>3
<1> HIDE DEF h
<1> DEFINE q == (h * 2) * p
<1>6. x = q * d /\ q \in Int
  <2>1. q * d = h * ((2 * p) * d)
    BY <1>2, <1>5, Z3
  <2> QED BY <1>2, <1>3, <1>5, <2>1
<1>7. q = (h * p) * 2 /\ h * p \in Int
  BY <1>2, <1>5, Z3
<1> HIDE DEF q
<1>8. x \div d = q
  <2>1. 0 \in 0..d - 1 /\ x = q * d + 0 /\ x \in Int
    <3>1. q * d \in Int
      BY <1>2, <1>6
    <3> QED BY <1>2, <1>6, <3>1
  <2> QED BY <1>2, <1>6, <2>1, DivisionUnique
<1>9. q % 2 = 0
  <2> DEFINE hp == h * p
  <2>1. hp \in Int /\ q = hp * 2
    BY <1>7
  <2> HIDE DEF hp
  <2> QED BY <2>1
<1> QED BY <1>8, <1>9 DEF Bit, d

LEMMA HighBitsOnly ==
  ASSUME NEW S \in SUBSET Int, IsFiniteSet(S), NEW u \in Nat, \A o \in S : u <= Place(o)
  PROVE  WordOf(S) % 2^u = 0
<1>1. PICK v \in [SUBSET S -> Nat] :
         /\ WordOf(S) = v[S]
         /\ \A s \in SUBSET S :
              v[s] = IF s = {} THEN 0 ELSE v[s \ {Taken(s)}] + BitOf(Taken(s))
  BY WordChain
<1> DEFINE d == 2^u
           G == {s \in SUBSET S : v[s] % d = 0}
<1>2. d \in Nat \ {0}
  BY PowerPositive
<1> HIDE DEF d
<1>3. {} \in G
  <2>1. v[{}] = 0
    BY <1>1
  <2>2. 0 \in Nat /\ 0 < d
    BY <1>2
  <2>3. 0 % d = 0
    BY <1>2, <2>2, SmallRemainder
  <2> QED BY <2>1, <2>3
<1>4. ASSUME NEW s \in SUBSET S, s # {}, s \ {Taken(s)} \in G
      PROVE  s \in G
  <2> DEFINE o == Taken(s)
             x == v[s \ {o}]
             k == Place(o) - u
  <2>1. o \in s /\ o \in S /\ o \in Int
    BY <1>4 DEF Taken
  <2>2. s \ {o} \in SUBSET S /\ x \in Nat /\ x % d = 0
    BY <1>4
  <2>3. Place(o) \in 0..WordBits - 1 /\ BitOf(o) = 2^Place(o)
    BY <2>1, BitPlace DEF Place
  <2>4. v[s] = x + 2^Place(o)
    <3>1. v[s] = x + BitOf(o)
      BY <1>1, <1>4
    <3> QED BY <2>3, <3>1
  <2>5. Place(o) \in Nat /\ u <= Place(o)
    BY <2>1, <2>3, WordWidth
  <2>6. k \in Nat /\ Place(o) = k + u
    BY <2>5
  <2> HIDE DEF o, x, k
  <2>7. 2^Place(o) = 2^k * 2^u /\ 2^k \in Nat
    BY <2>6, PowerSum, PowerPositive
  <2> DEFINE p == 2^k
  <2>8. v[s] = x + p * d /\ p \in Int /\ x \in Int
    BY <2>2, <2>4, <2>7 DEF d
  <2> HIDE DEF p
  <2>9. (x + p * d) % d = x % d
    BY <1>2, <2>8, MultipleAdded
  <2> QED BY <2>2, <2>8, <2>9
<1> HIDE DEF G
<1>5. S \in G
  BY <1>3, <1>4, SetInduction
<1> QED BY <1>1, <1>5 DEF G, d

-----------------------------------------------------------------------------
(* The last bit of a bitmap lies in its last word.                         *)

LEMMA InBlock ==
  ASSUME NEW s \in NumberSets, NEW w \in Nat \ {0}
  PROVE  /\ \A o \in BlockOf(s, w) : o \in Int /\ s.base + o \in s.numbers
                                     /\ o \div WordBits = w - 1
         /\ \A o \in Int : s.base + o \in s.numbers /\ o \div WordBits = w - 1
                             => o \in BlockOf(s, w)
<1>1. s.base \in Int /\ s.numbers \in SUBSET Int
  BY NumberSetFacts
<1> DEFINE b == s.base
           N == s.numbers
           Inside == {k \in N : (k - b) \div WordBits = w - 1}
<1>2. BlockOf(s, w) = {n - b : n \in Inside}
  BY DEF BlockOf
<1>3. ASSUME NEW o \in BlockOf(s, w)
      PROVE  o \in Int /\ b + o \in N /\ o \div WordBits = w - 1
  <2>1. PICK n \in Inside : o = n - b
    BY <1>2
  <2>2. n \in N /\ (n - b) \div WordBits = w - 1
    OBVIOUS
  <2>3. n \in Int /\ b \in Int
    BY <1>1, <2>2
  <2> HIDE DEF N, b
  <2>4. b + o = n /\ o \in Int
    BY <2>1, <2>3
  <2> QED BY <2>1, <2>2, <2>4
<1>4. ASSUME NEW o \in Int, b + o \in N, o \div WordBits = w - 1
      PROVE  o \in BlockOf(s, w)
  <2> DEFINE n == b + o
  <2>1. n - b = o
    BY <1>1
  <2>2. n \in Inside
    BY <1>4, <2>1
  <2> HIDE DEF n, Inside
  <2> QED BY <1>2, <2>1, <2>2
<1> QED BY <1>3, <1>4

LEMMA PlaceInWord ==
  ASSUME NEW o \in Int
  PROVE  /\ o \div WordBits \in Int /\ o % WordBits \in 0..WordBits - 1
         /\ o = (o \div WordBits) * WordBits + (o % WordBits)
         /\ Place(o) \in 0..WordBits - 1 /\ Place(o) \in Nat
         /\ o % WordBits = WordBits - 1 - Place(o)
         /\ WordBits \in Nat \ {0}
<1> DEFINE W == WordBits
           q == o \div W
           r == o % W
<1>1. W \in Nat \ {0}
  BY WordWidth
<1>2. q \in Int /\ r \in 0..W - 1 /\ o = q * W + r
  <2> HIDE DEF W
  <2> QED BY <1>1, Division
<1>3. Place(o) = W - 1 - r
  BY DEF Place
<1> HIDE DEF W, q, r
<1>4. W - 1 - r \in 0..W - 1 /\ W - 1 - r \in Nat /\ r = W - 1 - (W - 1 - r)
  BY <1>1, <1>2
<1> QED BY <1>1, <1>2, <1>3, <1>4 DEF W, q, r

LEMMA SamePlace ==
  ASSUME NEW a \in Int, NEW b \in Int, a \div WordBits = b \div WordBits, Place(a) = Place(b)
  PROVE  a = b
<1>1. a % WordBits = b % WordBits
  BY PlaceInWord
<1> DEFINE x == (a \div WordBits) * WordBits
           y == (b \div WordBits) * WordBits
<1>2. x = y
  OBVIOUS
<1>3. a = x + (a % WordBits) /\ b = y + (b % WordBits)
  BY PlaceInWord
<1> HIDE DEF x, y
<1> QED BY <1>1, <1>2, <1>3

LEMMA BitmapWord ==
  ASSUME NEW s \in NumberSets, NEW w \in 1..Words(s.num_bits)
  PROVE  /\ BitmapOf(s)[w] = WordOf(BlockOf(s, w))
         /\ BitmapOf(s)[w] \in Nat /\ BitmapOf(s)[w] < Capacity(4)
         /\ \A o \in Int : o \div WordBits = w - 1 =>
              Bit(BitmapOf(s)[w], Place(o)) = IF s.base + o \in s.numbers THEN 1 ELSE 0
<1>1. w \in Nat \ {0}
  BY NumberSetFacts
<1>2. BitmapOf(s)[w] = WordOf(BlockOf(s, w))
  BY DEF BitmapOf
<1> DEFINE S == BlockOf(s, w)
<1>3. S \in SUBSET Int /\ IsFiniteSet(S)
  BY <1>1, BlockType
<1>4. /\ \A o \in S : o \in Int /\ s.base + o \in s.numbers /\ o \div WordBits = w - 1
      /\ \A o \in Int : s.base + o \in s.numbers /\ o \div WordBits = w - 1 => o \in S
  BY <1>1, InBlock
<1> HIDE DEF S
<1>5. \A a, b \in S : Place(a) = Place(b) => a = b
  <2> SUFFICES ASSUME NEW a \in S, NEW b \in S, Place(a) = Place(b)
               PROVE  a = b
    OBVIOUS
  <2>1. a \in Int /\ b \in Int /\ a \div WordBits = b \div WordBits
    BY <1>4
  <2> QED BY <2>1, SamePlace
<1>6. /\ WordOf(S) \in Nat /\ WordOf(S) < 2^WordBits
      /\ \A i \in Nat : Bit(WordOf(S), i) = IF \E o \in S : Place(o) = i THEN 1 ELSE 0
  BY <1>3, <1>5, BitsOfWord
<1>7. ASSUME NEW o \in Int, o \div WordBits = w - 1
      PROVE  Bit(WordOf(S), Place(o)) = IF s.base + o \in s.numbers THEN 1 ELSE 0
  <2>1. Place(o) \in Nat
    BY PlaceInWord
  <2>2. CASE s.base + o \in s.numbers
    <3>1. o \in S
      BY <1>4, <1>7, <2>2
    <3> QED BY <1>6, <2>1, <2>2, <3>1
  <2>3. CASE s.base + o \notin s.numbers
    <3>1. \A a \in S : Place(a) # Place(o)
      <4> SUFFICES ASSUME NEW a \in S, Place(a) = Place(o) PROVE FALSE
        OBVIOUS
      <4>1. a \in Int /\ a \div WordBits = o \div WordBits /\ s.base + a \in s.numbers
        BY <1>4, <1>7
      <4>2. a = o
        BY <4>1, SamePlace
      <4> QED BY <2>3, <4>1, <4>2
    <3> QED BY <1>6, <2>1, <2>3, <3>1
  <2> QED BY <2>2, <2>3
<1>8. Capacity(4) = 2^WordBits
  BY WordCapacity
<1> QED BY <1>2, <1>6, <1>7, <1>8 DEF S

(* Of the words of a bitmap the last one is short of UnusedBits.           *)
LEMMA LastWord ==
  ASSUME NEW n \in Nat
  PROVE  /\ \A o \in Int : o <= n - 1 => o \div WordBits <= Words(n) - 1
         /\ \A o \in Int : o \div WordBits = Words(n) - 1 =>
              (o <= n - 1 <=> UnusedBits(n) <= Place(o))
         /\ \A o \in Int : n <= o /\ o <= WordBits * Words(n) - 1 =>
              o \div WordBits = Words(n) - 1
<1> DEFINE W == WordBits
           k == Words(n)
           u == UnusedBits(n)
<1>1. W \in Nat \ {0} /\ k \in Nat /\ k * W - n = u /\ u \in 0..W - 1
  BY WordCount
<1> HIDE DEF W, k, u
<1>2. ASSUME NEW o \in Int
      PROVE  /\ o <= n - 1 => o \div W <= k - 1
             /\ o \div W = k - 1 => (o <= n - 1 <=> u <= Place(o))
             /\ n <= o /\ o <= W * k - 1 => o \div W = k - 1
  <2> DEFINE q == o \div W
             r == o % W
             p == Place(o)
  <2>1. q \in Int /\ r \in 0..W - 1 /\ o = q * W + r /\ r = W - 1 - p /\ p \in Nat
    BY PlaceInWord DEF W
  <2> HIDE DEF q, r, p
  <2>2. n = k * W - u /\ k * W \in Int
    BY <1>1
  <2>3. ASSUME o <= n - 1 PROVE q <= k - 1
    <3> SUFFICES ASSUME k <= q PROVE FALSE
      BY <1>1, <2>1
    <3>1. k * W <= q * W
      BY <1>1, <2>1, Z3
    <3> DEFINE a == k * W
               b == q * W
    <3>2. a \in Int /\ b \in Int /\ a <= b /\ o = b + r /\ n = a - u
      BY <1>1, <2>1, <2>2, <3>1
    <3> HIDE DEF a, b
    <3> QED BY <1>1, <2>1, <2>3, <3>2
  <2>4. ASSUME q = k - 1 PROVE o <= n - 1 <=> u <= p
    <3>1. q * W = k * W - W
      BY <1>1, <2>1, <2>4, Z3
    <3> DEFINE a == k * W
               b == q * W
    <3>2. a \in Int /\ b = a - W /\ o = b + r /\ n = a - u
      BY <1>1, <2>1, <2>2, <3>1
    <3> HIDE DEF a, b
    <3>3. o = a - 1 - p
      BY <1>1, <2>1, <3>2
    <3> QED BY <1>1, <2>1, <3>2, <3>3
  <2>5. ASSUME n <= o, o <= W * k - 1 PROVE q = k - 1
    <3>1. W * k = k * W
      BY <1>1, Z3
    <3>2. CASE k <= q
      <4>1. k * W <= q * W
        BY <1>1, <2>1, <3>2, Z3
      <4> DEFINE a == k * W
                 b == q * W
      <4>2. a \in Int /\ b \in Int /\ a <= b /\ o = b + r /\ o <= a - 1
        BY <1>1, <2>1, <2>2, <2>5, <3>1, <4>1
      <4> HIDE DEF a, b
      <4> QED BY <1>1, <2>1, <4>2
    <3>3. CASE q <= k - 2
      <4>1. q * W <= (k - 2) * W /\ (k - 2) * W = k * W - 2 * W
        BY <1>1, <2>1, <3>3, Z3
      <4> DEFINE a == k * W
                 b == q * W
      <4>2. a \in Int /\ b \in Int /\ b <= a - 2 * W /\ o = b + r /\ n = a - u
        BY <1>1, <2>1, <2>2, <4>1
      <4> HIDE DEF a, b
      <4>3. o < n
        BY <1>1, <2>1, <4>2
      <4> QED BY <2>5, <4>3
    <3> QED BY <1>1, <2>1, <3>2, <3>3
  <2> QED BY <2>3, <2>4, <2>5 DEF q, p
<1> QED BY <1>2 DEF W, k, u

-----------------------------------------------------------------------------
(* The set that is written fits the set that was given.                    *)

InRange(s) == s.numbers \subseteq s.base .. s.base + s.num_bits - 1

LEMMA FilledFields ==
  ASSUME NEW s
  PROVE  /\ Filled(s).base = s.base /\ Filled(s).num_bits = s.num_bits
         /\ Filled(s).bitmap = BitmapOf(s)
BY DEF Filled

LEMMA NumbersKept ==
  ASSUME NEW s \in NumberSets, InRange(s), NEW r,
         r.base = s.base, r.num_bits = s.num_bits, r.bitmap = BitmapOf(s)
  PROVE  NumbersOf(r) = s.numbers
<1> DEFINE b == s.base
           k == s.num_bits
<1>1. b \in Int /\ k \in Nat
  BY NumberSetFacts
<1>2. Len(BitmapOf(s)) = Words(k) /\ Words(k) \in Nat
  BY <1>1, BitmapType, NumberSetFacts
<1>3. ASSUME NEW n \in b..b + k - 1
      PROVE  InSet(n, r) <=> n \in s.numbers
  <2> DEFINE o == n - b
             q == o \div WordBits
             w == q + 1
             bitmap == BitmapOf(s)
  <2>1. o \in Int /\ 0 <= o /\ o <= k - 1 /\ n = b + o /\ n >= b /\ o < k
    BY <1>1
  <2>2. q <= Words(k) - 1 /\ q \in Int
    BY <1>1, <2>1, LastWord, PlaceInWord
  <2>3. q >= 0
    <3> DEFINE p == o % WordBits
    <3>1. o = q * WordBits + p /\ p \in 0..WordBits - 1 /\ WordBits \in Nat \ {0} /\ q \in Int
      BY <2>1, PlaceInWord
    <3> DEFINE x == WordBits
    <3> HIDE DEF p, q, o, x
    <3>2. CASE q <= -1
      <4>1. q * x <= -x
        BY <3>1, <3>2, Z3 DEF x
      <4> DEFINE qx == q * x
      <4>2. qx \in Int /\ qx <= -x /\ o = qx + p /\ p \in 0..x - 1 /\ x \in Nat
        BY <3>1, <4>1 DEF x
      <4> HIDE DEF qx
      <4> QED BY <2>1, <4>2
    <3> QED BY <3>1, <3>2
  <2>4. w \in 1..Words(k) /\ w = q + 1 /\ q = w - 1
    BY <1>2, <2>2, <2>3
  <2>5. InSet(n, r) <=> /\ n >= b /\ o < k /\ q < Len(bitmap)
                        /\ Bit(bitmap[w], Place(o)) = 1
    BY DEF InSet, Bit, Place
  <2>6. q < Len(bitmap)
    BY <1>2, <2>2
  <2>7. Bit(bitmap[w], Place(o)) = IF s.base + o \in s.numbers THEN 1 ELSE 0
    <3> HIDE DEF o, w, bitmap
    <3>1. o \div WordBits = w - 1
      BY <2>4
    <3> QED BY <2>1, <2>4, <3>1, BitmapWord DEF bitmap
  <2> HIDE DEF o, q, w, bitmap
  <2>8. s.base + o = n
    BY <2>1
  <2> QED BY <2>1, <2>5, <2>6, <2>7, <2>8
<1>4. NumbersOf(r) = {n \in b..b + k - 1 : InSet(n, r)}
  BY DEF NumbersOf
<1>5. s.numbers \subseteq b..b + k - 1
  BY DEF InRange
<1> HIDE DEF b, k
<1> QED BY <1>3, <1>4, <1>5

LEMMA ValidFilled ==
  ASSUME NEW s \in NumberSets, ValidSet(Filled(s))
  PROVE  s.base > 0 /\ s.num_bits <= MaxBits /\ InRange(s)
<1> DEFINE b == s.base
           n == s.num_bits
           k == Words(n)
           u == UnusedBits(n)
           bitmap == BitmapOf(s)
<1>1. /\ b \in Int /\ n \in Nat /\ s.numbers \in SUBSET Int /\ k \in Nat
      /\ s.numbers \subseteq b .. b + WordBits * k - 1
  BY NumberSetFacts
<1>2. WordBits \in Nat \ {0} /\ k * WordBits - n = u /\ u \in 0..WordBits - 1
  BY <1>1, WordCount
<1>3. /\ b > 0 /\ n <= MaxBits /\ Len(bitmap) = k
      /\ bitmap # <<>> => bitmap[k] % 2^u = 0
  <2>1. /\ b > 0 /\ n <= MaxBits /\ Len(bitmap) = k
        /\ bitmap # <<>> => Last(bitmap) % 2^u = 0
    BY FilledFields DEF ValidSet
  <2>2. Last(bitmap) = bitmap[Len(bitmap)]
    BY DEF Last
  <2> HIDE DEF bitmap, u
  <2> QED BY <2>1, <2>2
<1>4. ASSUME NEW x \in s.numbers
      PROVE  x \in b..b + n - 1
  <2> DEFINE o == x - b
  <2>1. x \in Int /\ o \in Int /\ x = b + o /\ 0 <= o /\ o <= WordBits * k - 1
    BY <1>1, <1>2
  <2> HIDE DEF o
  <2> SUFFICES ASSUME n <= o PROVE FALSE
    BY <1>1, <2>1
  <2>2. o \div WordBits = k - 1
    BY <1>1, <2>1, LastWord
  <2>3. ~(o <= n - 1)
    BY <1>1, <2>1
  <2>4. Place(o) < u /\ Place(o) \in Nat
    <3>1. ~(u <= Place(o))
      BY <1>1, <2>1, <2>2, <2>3, LastWord
    <3>2. Place(o) \in Nat
      BY <2>1, PlaceInWord
    <3> QED BY <1>2, <3>1, <3>2
  <2>5. k \in 1..k
    <3>1. CASE k = 0
      <4>1. WordBits * k = 0
        BY <1>2, <3>1
      <4> QED BY <2>1, <4>1
    <3> QED BY <1>1, <3>1
  <2>6. Bit(bitmap[k], Place(o)) = 1 /\ bitmap[k] \in Nat
    <3>1. b + o \in s.numbers
      BY <2>1
    <3>2. /\ \A i \in Int : i \div WordBits = k - 1 =>
               Bit(bitmap[k], Place(i)) = IF s.base + i \in s.numbers THEN 1 ELSE 0
          /\ bitmap[k] \in Nat
      BY <2>5, BitmapWord
    <3> QED BY <2>1, <2>2, <3>1, <3>2
  <2>7. bitmap # <<>>
    BY <1>3, <2>5
  <2>8. bitmap[k] % 2^u = 0
    BY <1>3, <2>7
  <2>9. u \in Nat
    BY <1>2
  <2> HIDE DEF bitmap, u, k
  <2>10. Bit(bitmap[k], Place(o)) = 0
    BY <2>4, <2>6, <2>8, <2>9, LowBitsClear
  <2> QED BY <2>6, <2>10
<1> QED BY <1>3, <1>4 DEF InRange

LEMMA FittingSetValid ==
  ASSUME NEW s \in NumberSets, s.base > 0, s.num_bits <= MaxBits, InRange(s)
  PROVE  ValidSet(Filled(s))
<1> DEFINE b == s.base
           n == s.num_bits
           k == Words(n)
           u == UnusedBits(n)
           bitmap == BitmapOf(s)
<1>1. b \in Int /\ n \in Nat /\ s.numbers \in SUBSET Int /\ k \in Nat
  BY NumberSetFacts
<1>2. u \in Nat
  BY <1>1, WordCount, WordWidth
<1>3. Len(bitmap) = k /\ bitmap \in Seq(Nat)
  BY BitmapType
<1>4. ASSUME bitmap # <<>>
      PROVE  Last(bitmap) % 2^u = 0
  <2>1. k \in 1..k /\ k \in Nat \ {0}
    BY <1>1, <1>3, <1>4
  <2> DEFINE S == BlockOf(s, k)
  <2>2. bitmap[k] = WordOf(S)
    BY <2>1, BitmapWord
  <2>3. S \in SUBSET Int /\ IsFiniteSet(S)
    BY <1>1, BlockType
  <2>4. \A o \in S : o \in Int /\ b + o \in s.numbers /\ o \div WordBits = k - 1
    BY <2>1, InBlock
  <2> HIDE DEF S
  <2>5. ASSUME NEW o \in S
        PROVE  u <= Place(o)
    <3>1. b + o \in b..b + n - 1
      BY <2>4 DEF InRange
    <3>2. o <= n - 1 /\ o \in Int
      BY <1>1, <2>4, <3>1
    <3> QED BY <1>1, <2>4, <3>2, LastWord
  <2>6. WordOf(S) % 2^u = 0
    <3> HIDE DEF u
    <3> QED BY <1>2, <2>3, <2>5, HighBitsOnly
  <2>7. Last(bitmap) = bitmap[k]
    BY <1>3 DEF Last
  <2> HIDE DEF bitmap, u, k
  <2> QED BY <2>2, <2>6, <2>7
<1> QED BY <1>3, <1>4, FilledFields DEF ValidSet

-----------------------------------------------------------------------------
(* A number and a set of numbers decode to themselves.                     *)

(* Numbers come back from the words they are written as.                   *)
LEMMA SignedBack ==
  ASSUME NEW n \in Nat, NEW x \in SignedNumbers(n)
  PROVE  Signed(x % Capacity(n), n) = x
<1> DEFINE C == Capacity(n)
           h == C \div 2
           r == x % C
<1>1. C \in Nat \ {0} /\ x \in Int /\ h \in Nat /\ -h <= x /\ x <= h - 1
  BY CapacityFacts, SignedNumbersAreInt
<1>2. 2 * h <= C
  <2>1. 2 \in Nat \ {0}
    OBVIOUS
  <2>2. C = h * 2 + (C % 2) /\ C % 2 \in 0..2 - 1
    <3>1. C \in Int /\ h = C \div 2
      BY <1>1
    <3> HIDE DEF C, h
    <3> QED BY <2>1, <3>1, Division
  <2> DEFINE k == C % 2
  <2>3. k \in Nat /\ C = h * 2 + k
    BY <2>2
  <2> HIDE DEF k, h
  <2> QED BY <1>1, <2>3
<1>3. Signed(r, n) = IF r < h THEN r ELSE r - C
  BY DEF Signed
<1> HIDE DEF C, h
<1>4. ASSUME x >= 0
      PROVE  Signed(r, n) = x
  <2>1. r = x
    <3>1. x \in Nat /\ x < C
      BY <1>1, <1>2, <1>4
    <3> QED BY <1>1, <3>1, SmallRemainder
  <2>2. x < h
    BY <1>1
  <2>3. Signed(r, n) = IF r < h THEN r ELSE r - C
    BY <1>3
  <2> HIDE DEF r
  <2> QED BY <2>1, <2>2, <2>3
<1>5. ASSUME x < 0
      PROVE  Signed(r, n) = x
  <2> DEFINE y == x + C
  <2>1. y \in 0..C - 1 /\ -1 \in Int /\ x = (-1) * C + y
    BY <1>1, <1>2, <1>5
  <2>2. ~(y < h) /\ y - C = x
    BY <1>1, <1>2, <1>5
  <2> HIDE DEF y
  <2>3. r = y
    BY <1>1, <2>1, DivisionUnique
  <2> HIDE DEF r
  <2> QED BY <1>3, <2>2, <2>3
<1>6. x >= 0 \/ x < 0
  BY <1>1
<1>7. Signed(r, n) = x
  BY <1>4, <1>5, <1>6
<1> QED BY <1>7 DEF r, C

LEMMA NumberBack ==
  ASSUME NEW x \in SignedNumbers(8)
  PROVE  SequenceNumber(High(x) % Capacity(4), Low(x) % Capacity(4)) = x
<1> DEFINE C == Capacity(4)
           low == x % C
           high == (x \div C) % C
<1>1. C \in Nat \ {0} /\ x \in Int
  <2>1. 4 \in Nat /\ 8 \in Nat
    OBVIOUS
  <2> QED BY <2>1, CapacityFacts, SignedNumbersAreInt
<1>2. Capacity(8) = C * C
  <2>1. 4 \in Nat /\ 8 = 4 + 4
    OBVIOUS
  <2> QED BY <2>1, CapacityProduct
<1> HIDE DEF C
<1>3. low \in 0..C - 1
  BY <1>1, Division
<1>4. low % C = low
  <2> HIDE DEF low
  <2> QED BY <1>1, <1>3, SmallRemainder
<1>5. x % (C * C) = high * C + low
  BY <1>1, TwoDivisions
<1>6. High(x) % C = high /\ Low(x) % C = low
  BY <1>4 DEF High, Low, C
<1>7. SequenceNumber(high, low) = Signed(high * C + low, 8)
  BY DEF SequenceNumber, C
<1>8. Signed(x % Capacity(8), 8) = x
  <2>1. 8 \in Nat
    OBVIOUS
  <2> QED BY <2>1, SignedBack
<1> HIDE DEF low, high
<1>9. SequenceNumber(high, low) = x
  BY <1>2, <1>5, <1>7, <1>8
<1> QED BY <1>6, <1>9 DEF C

(* From a position on, content holds the words f.                          *)
WordsHold(c, o, f, e) ==
  \A j \in 1..Len(f), place \in Nat :
    place = o + 4 * (j - 1) => WordAt(c, place, e) = f[j] % Capacity(4)

LEMMA WordsHeld ==
  ASSUME NEW data \in Seq(Bytes), Len(data) % 4 = 0, NEW f \in Seq(Int),
         NEW e \in Endiannesses
  PROVE  WordsHold(WriteWords(data, f, e), Len(data), f, e)
<1> SUFFICES ASSUME NEW j \in 1..Len(f), NEW place \in Nat, place = Len(data) + 4 * (j - 1)
             PROVE  WordAt(WriteWords(data, f, e), place, e) = f[j] % Capacity(4)
  BY DEF WordsHold
<1>1. WordAt(WriteWords(data, f, e), Len(data) + 4 * (j - 1), e) = f[j] % Capacity(4)
  BY WordsSurvive
<1> QED BY <1>1

(* A set whose words the content holds is read back as it was filled.      *)
LEMMA SetBack ==
  ASSUME NEW s \in NumberSets, ValidSet(Filled(s)), NEW c \in Seq(Bytes), NEW o \in Nat,
         NEW e \in Endiannesses,
         \A j \in 1..3 + Words(s.num_bits), place \in Nat :
           place = o + 4 * (j - 1) => WordAt(c, place, e) = SetFields(s)[j] % Capacity(4),
         o + 12 + 4 * Words(s.num_bits) <= Len(c)
  PROVE  /\ SetValueAt(c, o, e) = Filled(s)
         /\ SetEnd(c, o, e) = o + 12 + 4 * Words(s.num_bits)
         /\ GoodSetAt(c, o, e)
<1> DEFINE k == Words(s.num_bits)
           C == Capacity(4)
           f == SetFields(s)
           bitmap == BitmapOf(s)
           end == o + 12 + 4 * k
<1>1. /\ k \in Nat /\ s.base \in Int /\ s.num_bits \in Nat /\ s.num_bits < C
      /\ s.base \in SignedNumbers(8)
  BY NumberSetFacts DEF NumberSets
<1>2. C \in Nat \ {0}
  <2>1. 4 \in Nat
    OBVIOUS
  <2> QED BY <2>1, CapacityFacts
<1>3. /\ f[1] = High(s.base) /\ f[2] = Low(s.base) /\ f[3] = s.num_bits
      /\ \A i \in 1..k : f[3 + i] = bitmap[i]
  BY SetFieldsShape
<1>4. \A i \in 1..k : bitmap[i] \in Nat /\ bitmap[i] < C
  BY BitmapWord
<1>5. Len(bitmap) = k /\ bitmap \in Seq(Nat)
  BY BitmapType
<1>6. /\ s.base > 0 /\ s.num_bits <= MaxBits
      /\ bitmap # <<>> => Last(bitmap) % 2^UnusedBits(s.num_bits) = 0
  BY FilledFields DEF ValidSet
<1>7. \A j \in 1..3 + k, place \in Nat :
        place = o + 4 * (j - 1) => WordAt(c, place, e) = f[j] % C
  OBVIOUS
<1> HIDE DEF k, C, f, bitmap
<1>8. WordAt(c, o, e) = f[1] % C
  <2>1. 1 \in 1..3 + k /\ o = o + 4 * (1 - 1)
    BY <1>1
  <2> QED BY <1>7, <2>1
<1>9. WordAt(c, o + 4, e) = f[2] % C
  <2>1. 2 \in 1..3 + k /\ o + 4 = o + 4 * (2 - 1) /\ o + 4 \in Nat
    BY <1>1
  <2> QED BY <1>7, <2>1
<1>10. WordAt(c, o + 8, e) = f[3] % C
  <2>1. 3 \in 1..3 + k /\ o + 8 = o + 4 * (3 - 1) /\ o + 8 \in Nat
    BY <1>1
  <2> QED BY <1>7, <2>1
<1>11. BaseAt(c, o, e) = s.base
  BY <1>1, <1>3, <1>8, <1>9, NumberBack DEF BaseAt, C
<1>12. BitsAt(c, o, e) = s.num_bits
  BY <1>1, <1>2, <1>3, <1>10, SmallRemainder DEF BitsAt
<1>13. Words(BitsAt(c, o, e)) = k
  BY <1>12 DEF k
<1>14. SetEnd(c, o, e) = end
  BY <1>13 DEF SetEnd
<1>15. ASSUME NEW i \in 1..k, NEW place \in Nat, place = o + 12 + 4 * (i - 1)
       PROVE  WordAt(c, place, e) = bitmap[i]
  <2>1. 3 + i \in 1..3 + k /\ place = o + 4 * ((3 + i) - 1)
    BY <1>1, <1>15
  <2>2. WordAt(c, place, e) = f[3 + i] % C
    BY <1>7, <2>1
  <2>3. bitmap[i] % C = bitmap[i]
    BY <1>2, <1>4, SmallRemainder
  <2> QED BY <1>3, <2>2, <2>3
<1>16. BitmapAt(c, o, e) = bitmap
  <2>1. BitmapAt(c, o, e) = [j \in 1..k |-> WordAt(c, o + 12 + 4 * (j - 1), e)]
    BY <1>13 DEF BitmapAt, WordsAt
  <2>2. ASSUME NEW j \in 1..k
        PROVE  WordAt(c, o + 12 + 4 * (j - 1), e) = bitmap[j]
    <3>1. o + 12 + 4 * (j - 1) \in Nat
      BY <1>1
    <3> QED BY <1>15, <3>1
  <2>3. bitmap \in [1..k -> Nat]
    BY <1>5
  <2>4. bitmap = [j \in 1..k |-> bitmap[j]]
    BY <2>3
  <2> QED BY <2>1, <2>2, <2>4
<1>17. SetValueAt(c, o, e) = Filled(s)
  BY <1>11, <1>12, <1>16 DEF SetValueAt, Filled, bitmap
<1>18. BitsAt(c, o, e) > 0 => WordAt(c, SetEnd(c, o, e) - 4, e) % 2^UnusedBits(BitsAt(c, o, e)) = 0
  <2> SUFFICES ASSUME s.num_bits > 0
               PROVE  WordAt(c, end - 4, e) % 2^UnusedBits(s.num_bits) = 0
    BY <1>12, <1>14
  <2>1. k > 0
    BY <1>1, WordCount DEF k
  <2>2. k \in 1..k /\ end - 4 = o + 12 + 4 * (k - 1) /\ end - 4 \in Nat
    BY <1>1, <2>1
  <2>3. WordAt(c, end - 4, e) = bitmap[k]
    BY <1>15, <2>2
  <2>4. bitmap # <<>> /\ Last(bitmap) = bitmap[k]
    BY <1>5, <2>1 DEF Last
  <2> QED BY <1>6, <2>3, <2>4
<1>19. end <= Len(c)
  BY DEF k
<1>20. GoodSetAt(c, o, e)
  BY <1>6, <1>11, <1>12, <1>14, <1>18, <1>19 DEF GoodSetAt
<1> QED BY <1>14, <1>17, <1>20 DEF end, k

-----------------------------------------------------------------------------
(* The content of the control submessages.                                 *)

LEMMA IdsOf ==
  ASSUME NEW a \in BytesOf(4), NEW b \in BytesOf(4)
  PROVE  SubSeq(a \o b, 1, 4) = a /\ SubSeq(a \o b, 5, 8) = b
<1>1. a \in Seq(Bytes) /\ b \in Seq(Bytes)
  BY DEF BytesOf
<1>2. Len(a) = 4 /\ Len(b) = 4
  BY DEF BytesOf
<1>3. SubSeq(a \o b, Len(a) + 1, Len(a) + Len(b)) = b
  BY <1>1, EndOfConcatenation
<1>4. SubSeq(a \o b, 1, 4) = SubSeq(a, 1, 4)
  <2>1. 4 \in Nat /\ 4 <= Len(a)
    BY <1>2
  <2> QED BY <1>1, <2>1, FirstOfConcatenation
<1>5. SubSeq(a, 1, Len(a)) = a
  BY <1>1, WholePart
<1>6. SubSeq(a, 1, 4) = a
  BY <1>2, <1>5
<1>7. 4 + 1 = 5 /\ 4 + 4 = 8
  OBVIOUS
<1>8. SubSeq(a \o b, 4 + 1, 4 + 4) = b
  BY <1>2, <1>3
<1> QED BY <1>4, <1>6, <1>7, <1>8

(* The content of a control submessage: two ids and the words of its       *)
(* fields.                                                                 *)
LEMMA ControlContent ==
  ASSUME NEW m \in Control, NEW e \in Endiannesses
  PROVE  LET c == ContentOf(WithBitmap(m), e)
             f == Fields(WithBitmap(m))
         IN /\ c \in Seq(Bytes) /\ f \in Seq(Int)
            /\ Len(c) = 8 + 4 * Len(f)
            /\ SubSeq(c, 1, 4) = m.reader_id /\ SubSeq(c, 5, 8) = m.writer_id
            /\ WordsHold(c, 8, f, e)
<1> DEFINE c == ContentOf(WithBitmap(m), e)
           f == Fields(WithBitmap(m))
           ids == m.reader_id \o m.writer_id
<1>1. f \in Seq(Int)
  BY FieldsType
<1>2. m.reader_id \in BytesOf(4) /\ m.writer_id \in BytesOf(4)
  BY DEF Control, Heartbeats, AckNacks, Gaps
<1>3. ids \in Seq(Bytes) /\ Len(ids) = 8
  BY <1>2, TwoIds
<1>4. c = WriteWords(ids, f, e)
  <2>1. m \in Control \cup Datas
    OBVIOUS
  <2>2. WithBitmap(m).kind = m.kind /\ m.kind # "data"
    BY <2>1, BitmapAdded DEF Control, Heartbeats, AckNacks, Gaps
  <2>3. WithBitmap(m).reader_id = m.reader_id /\ WithBitmap(m).writer_id = m.writer_id
    <3>1. CASE m \in Heartbeats
      BY <2>1, <3>1, BitmapAdded DEF Heartbeats
    <3>2. CASE m \in AckNacks
      <4>1. WithBitmap(m) = [m EXCEPT !.set = Filled(m.set)]
        BY <2>1, <3>2, BitmapAdded DEF AckNacks
      <4> QED BY <3>2, <4>1 DEF AckNacks
    <3>3. CASE m \in Gaps
      <4>1. WithBitmap(m) = [m EXCEPT !.set = Filled(m.set)]
        BY <2>1, <3>3, BitmapAdded DEF Gaps
      <4> QED BY <3>3, <4>1 DEF Gaps
    <3> QED BY <3>1, <3>2, <3>3 DEF Control
  <2> QED BY <2>2, <2>3 DEF ContentOf
<1>5. 8 % 4 = 0
  OBVIOUS
<1> HIDE DEF ids, f
<1>6. Len(ids) % 4 = 0
  BY <1>3, <1>5
<1>7. /\ WriteWords(ids, f, e) \in Seq(Bytes)
      /\ Len(WriteWords(ids, f, e)) = Len(ids) + 4 * Len(f)
      /\ SubSeq(WriteWords(ids, f, e), 1, Len(ids)) = ids
  BY <1>1, <1>3, <1>6, WordsWritten
<1>8. WordsHold(WriteWords(ids, f, e), Len(ids), f, e)
  BY <1>1, <1>3, <1>6, WordsHeld
<1> HIDE DEF c
<1>9. c \in Seq(Bytes) /\ Len(c) = 8 + 4 * Len(f) /\ SubSeq(c, 1, 8) = ids
  BY <1>3, <1>4, <1>7
<1>10. SubSeq(c, 1, 4) = SubSeq(ids, 1, 4) /\ SubSeq(c, 5, 8) = SubSeq(ids, 5, 8)
  <2>1. Len(f) \in Nat
    BY <1>1
  <2>2. 8 <= Len(c) /\ 8 \in Nat /\ 0 \in Nat /\ 4 \in Nat /\ 0 + 4 <= 8 /\ 4 + 4 <= 8
    BY <1>9, <2>1
  <2>3. SubSeq(SubSeq(c, 1, 8), 0 + 1, 0 + 4) = SubSeq(c, 0 + 1, 0 + 4)
    BY <1>9, <2>2, PartOfPart
  <2>4. SubSeq(SubSeq(c, 1, 8), 4 + 1, 4 + 4) = SubSeq(c, 4 + 1, 4 + 4)
    BY <1>9, <2>2, PartOfPart
  <2> QED BY <1>9, <2>3, <2>4
<1>11. SubSeq(ids, 1, 4) = m.reader_id /\ SubSeq(ids, 5, 8) = m.writer_id
  BY <1>2, IdsOf DEF ids
<1> QED BY <1>1, <1>3, <1>4, <1>8, <1>9, <1>10, <1>11 DEF c, f

-----------------------------------------------------------------------------
(* HEARTBEAT, ACKNACK and GAP decode to what was encoded.                  *)

(* A control submessage is read as it was written.                         *)
LEMMA HeartbeatBack ==
  ASSUME NEW m \in Heartbeats, NEW e \in Endiannesses, NEW c,
         c = ContentOf(WithBitmap(m), e),
         NEW w, w.header = EncodeMessageHeader(m.from), w.flags \ {0} = m.flags
  PROVE  HeartbeatIn(w, c, e) = m /\ Len(c) = 28
<1> DEFINE f == Fields(WithBitmap(m))
<1>1. /\ m.first \in SignedNumbers(8) /\ m.last \in SignedNumbers(8)
      /\ m.count \in SignedNumbers(4) /\ m.from \in Senders /\ m.kind = "heartbeat"
  BY DEF Heartbeats
<1>2. m \in Control /\ m \in Control \cup Datas
  BY DEF Control
<1>3. WithBitmap(m) = m
  BY <1>1, <1>2, BitmapAdded
<1>4. /\ f = <<High(m.first), Low(m.first), High(m.last), Low(m.last), m.count>>
  BY <1>1, <1>3 DEF Fields
<1>5. /\ c \in Seq(Bytes) /\ Len(c) = 8 + 4 * Len(f)
      /\ SubSeq(c, 1, 4) = m.reader_id /\ SubSeq(c, 5, 8) = m.writer_id
      /\ WordsHold(c, 8, f, e)
  BY <1>2, ControlContent
<1>6. /\ Len(f) = 5 /\ f[1] = High(m.first) /\ f[2] = Low(m.first) /\ f[3] = High(m.last)
      /\ f[4] = Low(m.last) /\ f[5] = m.count
  BY <1>4
<1> HIDE DEF f
<1>7. /\ WordAt(c, 8, e) = f[1] % Capacity(4) /\ WordAt(c, 12, e) = f[2] % Capacity(4)
      /\ WordAt(c, 16, e) = f[3] % Capacity(4) /\ WordAt(c, 20, e) = f[4] % Capacity(4)
      /\ WordAt(c, 24, e) = f[5] % Capacity(4)
  <2>1. /\ {1, 2, 3, 4, 5} \subseteq 1..Len(f) /\ {8, 12, 16, 20, 24} \subseteq Nat
        /\ 8 = 8 + 4 * (1 - 1) /\ 12 = 8 + 4 * (2 - 1) /\ 16 = 8 + 4 * (3 - 1)
        /\ 20 = 8 + 4 * (4 - 1) /\ 24 = 8 + 4 * (5 - 1)
    BY <1>6
  <2> QED BY <1>5, <2>1 DEF WordsHold
<1>8. /\ SequenceNumber(WordAt(c, 8, e), WordAt(c, 12, e)) = m.first
      /\ SequenceNumber(WordAt(c, 16, e), WordAt(c, 20, e)) = m.last
  BY <1>1, <1>6, <1>7, NumberBack
<1>9. Signed(WordAt(c, 24, e), 4) = m.count
  <2>1. 4 \in Nat
    OBVIOUS
  <2> QED BY <1>1, <1>6, <1>7, <2>1, SignedBack
<1>10. DecodeMessageHeader(w.header) = m.from
  BY <1>1, HeaderEncoded
<1>11. HeartbeatIn(w, c, e)
         = [kind |-> m.kind, from |-> m.from, reader_id |-> m.reader_id,
            writer_id |-> m.writer_id, first |-> m.first, last |-> m.last,
            count |-> m.count, flags |-> m.flags]
  BY <1>1, <1>5, <1>8, <1>9, <1>10 DEF HeartbeatIn
<1>12. m = [kind |-> m.kind, from |-> m.from, reader_id |-> m.reader_id,
            writer_id |-> m.writer_id, first |-> m.first, last |-> m.last,
            count |-> m.count, flags |-> m.flags]
  BY DEF Heartbeats
<1> QED BY <1>5, <1>6, <1>11, <1>12

LEMMA WordsLimit ==
  ASSUME NEW n \in Nat, n <= MaxBits
  PROVE  Words(n) <= Words(MaxBits) /\ Words(n) \in Nat
<1>1. MaxBits \in Nat /\ WordBits \in Nat \ {0}
  BY WordWidth, SubmessagesAssumption
<1> DEFINE a == Words(n)
           b == Words(MaxBits)
           W == WordBits
           x == n + W - 1
           y == MaxBits + W - 1
<1>2. a \in Nat /\ b \in Nat
  BY <1>1, WordCount
<1>3. x \in Int /\ y \in Int /\ x <= y
  BY <1>1
<1>4. a = x \div W /\ b = y \div W
  BY DEF Words
<1> HIDE DEF a, b, x, y, W
<1>5. W \in Nat \ {0}
  BY <1>1 DEF W
<1>6. x % W \in 0..W - 1 /\ x = a * W + (x % W) /\ y % W \in 0..W - 1 /\ y = b * W + (y % W)
  BY <1>3, <1>4, <1>5, Division
<1> DEFINE r == x % W
           s == y % W
<1> HIDE DEF r, s
<1>7. r \in 0..W - 1 /\ x = a * W + r /\ s \in 0..W - 1 /\ y = b * W + s
  BY <1>6 DEF r, s
<1>8. ASSUME b < a
      PROVE  FALSE
  <2>1. a = b + (a - b) /\ a - b \in Nat \ {0}
    BY <1>2, <1>8
  <2>2. (b + 1) * W <= a * W
    BY <1>2, <1>5, <1>8, Z3
  <2>3. (b + 1) * W = b * W + W
    BY <1>2, <1>5, Z3
  <2> DEFINE p == b * W
             q == a * W
  <2>4. p \in Int /\ q \in Int
    BY <1>2, <1>5
  <2>5. p + W <= q /\ x = q + r /\ y = p + s
    BY <1>7, <2>2, <2>3
  <2> HIDE DEF p, q
  <2> QED BY <1>3, <1>5, <1>7, <2>4, <2>5
<1> QED BY <1>2, <1>8 DEF a, b

LEMMA AcknackBack ==
  ASSUME NEW m \in AckNacks, NEW e \in Endiannesses, NEW c,
         c = ContentOf(WithBitmap(m), e), ValidSet(Filled(m.set)),
         NEW w, w.header = EncodeMessageHeader(m.from), w.flags \ {0} = m.flags
  PROVE  /\ AcknackIn(w, c, e) = [m EXCEPT !.set = Filled(m.set)]
         /\ Len(c) = 24 + 4 * Words(m.set.num_bits)
         /\ GoodSetAt(c, 8, e) /\ SetEnd(c, 8, e) + 4 <= Len(c)
<1> DEFINE f == Fields(WithBitmap(m))
           s == m.set
           k == Words(m.set.num_bits)
           n == 3 + k
<1>1. /\ s \in NumberSets /\ m.count \in SignedNumbers(4) /\ m.from \in Senders
      /\ m.kind = "acknack"
  BY DEF AckNacks
<1>2. m \in Control /\ m \in Control \cup Datas
  BY DEF Control
<1>3. WithBitmap(m) = [m EXCEPT !.set = Filled(s)]
  BY <1>1, <1>2, BitmapAdded
<1>4. f = SetFields(s) \o <<m.count>>
  <2>1. /\ WithBitmap(m).set = Filled(s) /\ WithBitmap(m).count = m.count
        /\ WithBitmap(m).kind = "acknack"
    BY <1>1, <1>3 DEF AckNacks
  <2> QED BY <2>1 DEF Fields, SetFields
<1>5. /\ c \in Seq(Bytes) /\ Len(c) = 8 + 4 * Len(f)
      /\ SubSeq(c, 1, 4) = m.reader_id /\ SubSeq(c, 5, 8) = m.writer_id
      /\ WordsHold(c, 8, f, e)
  BY <1>2, ControlContent
<1>6. k \in Nat /\ m.count \in Int
  <2>1. 4 \in Nat
    OBVIOUS
  <2>2. m.count \in Int
    BY <1>1, <2>1, SignedNumbersAreInt
  <2> QED BY <1>1, <2>2, NumberSetFacts
<1>7. /\ Len(f) = n + 1 /\ f[n + 1] = m.count
      /\ \A i \in 1..n : f[i] = SetFields(s)[i]
  <2>1. LET g == SetFields(s) \o <<m.count>>
        IN Len(g) = n + 1 /\ g[n + 1] = m.count /\ \A i \in 1..n : g[i] = SetFields(s)[i]
    <3> HIDE DEF f
    <3> QED BY <1>1, <1>6, AcknackFields
  <2> QED BY <1>4, <2>1
<1> HIDE DEF f, k, s
<1>8. Len(c) = 24 + 4 * k
  BY <1>5, <1>6, <1>7
<1>9. ASSUME NEW j \in 1..3 + k, NEW place \in Nat, place = 8 + 4 * (j - 1)
      PROVE  WordAt(c, place, e) = SetFields(s)[j] % Capacity(4)
  <2>1. j \in 1..Len(f)
    BY <1>6, <1>7
  <2>2. WordAt(c, place, e) = f[j] % Capacity(4)
    BY <1>5, <1>9, <2>1 DEF WordsHold
  <2> QED BY <1>7, <2>2
<1>10. /\ SetValueAt(c, 8, e) = Filled(s)
       /\ SetEnd(c, 8, e) = 8 + 12 + 4 * k
       /\ GoodSetAt(c, 8, e)
  <2>1. 8 \in Nat /\ 8 + 12 + 4 * k <= Len(c)
    BY <1>6, <1>8
  <2>2. ValidSet(Filled(s))
    BY DEF s
  <2>3. \A j \in 1..3 + Words(s.num_bits), place \in Nat :
          place = 8 + 4 * (j - 1) => WordAt(c, place, e) = SetFields(s)[j] % Capacity(4)
    BY <1>9 DEF k, s
  <2> QED BY <1>1, <1>5, <2>1, <2>2, <2>3, SetBack DEF k, s
<1>11. Signed(WordAt(c, SetEnd(c, 8, e), e), 4) = m.count
  <2>1. /\ n + 1 \in 1..Len(f) /\ SetEnd(c, 8, e) \in Nat
        /\ SetEnd(c, 8, e) = 8 + 4 * ((n + 1) - 1)
    BY <1>6, <1>7, <1>10
  <2>2. WordAt(c, SetEnd(c, 8, e), e) = f[n + 1] % Capacity(4)
    BY <1>5, <2>1 DEF WordsHold
  <2>3. 4 \in Nat
    OBVIOUS
  <2> QED BY <1>1, <1>7, <2>2, <2>3, SignedBack
<1>12. DecodeMessageHeader(w.header) = m.from
  BY <1>1, HeaderEncoded
<1>13. AcknackIn(w, c, e)
         = [kind |-> m.kind, from |-> m.from, reader_id |-> m.reader_id,
            writer_id |-> m.writer_id, set |-> Filled(s), count |-> m.count, flags |-> m.flags]
  BY <1>1, <1>5, <1>10, <1>11, <1>12 DEF AcknackIn
<1>14. [m EXCEPT !.set = Filled(s)]
         = [kind |-> m.kind, from |-> m.from, reader_id |-> m.reader_id,
            writer_id |-> m.writer_id, set |-> Filled(s), count |-> m.count, flags |-> m.flags]
  BY DEF AckNacks
<1>15. SetEnd(c, 8, e) + 4 <= Len(c)
  BY <1>6, <1>8, <1>10
<1> QED BY <1>8, <1>10, <1>13, <1>14, <1>15 DEF s, k

LEMMA GapBack ==
  ASSUME NEW m \in Gaps, NEW e \in Endiannesses, NEW c,
         c = ContentOf(WithBitmap(m), e), ValidSet(Filled(m.set)),
         NEW w, w.header = EncodeMessageHeader(m.from)
  PROVE  /\ GapIn(w, c, e) = [m EXCEPT !.set = Filled(m.set)]
         /\ Len(c) = 28 + 4 * Words(m.set.num_bits)
         /\ GoodSetAt(c, 16, e)
<1> DEFINE f == Fields(WithBitmap(m))
           s == m.set
           k == Words(m.set.num_bits)
           n == 3 + k
<1>1. /\ s \in NumberSets /\ m.start \in SignedNumbers(8) /\ m.from \in Senders
      /\ m.kind = "gap"
  BY DEF Gaps
<1>2. m \in Control /\ m \in Control \cup Datas
  BY DEF Control
<1>3. WithBitmap(m) = [m EXCEPT !.set = Filled(s)]
  BY <1>1, <1>2, BitmapAdded
<1>4. f = <<High(m.start), Low(m.start)>> \o SetFields(s)
  <2>1. /\ WithBitmap(m).set = Filled(s) /\ WithBitmap(m).start = m.start
        /\ WithBitmap(m).kind = "gap"
    BY <1>1, <1>3 DEF Gaps
  <2> QED BY <2>1 DEF Fields, SetFields
<1>5. /\ c \in Seq(Bytes) /\ Len(c) = 8 + 4 * Len(f)
      /\ SubSeq(c, 1, 4) = m.reader_id /\ SubSeq(c, 5, 8) = m.writer_id
      /\ WordsHold(c, 8, f, e)
  BY <1>2, ControlContent
<1>6. k \in Nat /\ m.start \in Int
  <2>1. 8 \in Nat
    OBVIOUS
  <2>2. m.start \in Int
    BY <1>1, <2>1, SignedNumbersAreInt
  <2> QED BY <1>1, <2>2, NumberSetFacts
<1>7. /\ Len(f) = n + 2 /\ f[1] = High(m.start) /\ f[2] = Low(m.start)
      /\ \A i \in 1..n : f[2 + i] = SetFields(s)[i]
  <2> DEFINE g == <<High(m.start), Low(m.start)>> \o SetFields(s)
  <2>1. /\ Len(g) = n + 2 /\ g[1] = High(m.start) /\ g[2] = Low(m.start)
        /\ \A i \in 1..n : g[2 + i] = SetFields(s)[i]
    BY <1>1, <1>6, GapFields
  <2>2. f = g
    BY <1>4
  <2> HIDE DEF f, g, n
  <2> QED BY <2>1, <2>2
<1> HIDE DEF f, k, s
<1>8. Len(c) = 28 + 4 * k
  BY <1>5, <1>6, <1>7
<1>9. ASSUME NEW j \in 1..3 + k, NEW place \in Nat, place = 16 + 4 * (j - 1)
      PROVE  WordAt(c, place, e) = SetFields(s)[j] % Capacity(4)
  <2>1. 2 + j \in 1..Len(f) /\ place = 8 + 4 * ((2 + j) - 1)
    BY <1>6, <1>7, <1>9
  <2>2. WordAt(c, place, e) = f[2 + j] % Capacity(4)
    BY <1>5, <2>1 DEF WordsHold
  <2> QED BY <1>7, <2>2
<1>10. SetValueAt(c, 16, e) = Filled(s) /\ GoodSetAt(c, 16, e)
  <2>1. 16 \in Nat /\ 16 + 12 + 4 * k <= Len(c)
    BY <1>6, <1>8
  <2>2. ValidSet(Filled(s))
    BY DEF s
  <2>3. \A j \in 1..3 + Words(s.num_bits), place \in Nat :
          place = 16 + 4 * (j - 1) => WordAt(c, place, e) = SetFields(s)[j] % Capacity(4)
    BY <1>9 DEF k, s
  <2> QED BY <1>1, <1>5, <2>1, <2>2, <2>3, SetBack DEF k, s
<1>11. SequenceNumber(WordAt(c, 8, e), WordAt(c, 12, e)) = m.start
  <2>1. {1, 2} \subseteq 1..Len(f) /\ {8, 12} \subseteq Nat /\ 8 = 8 + 4 * (1 - 1) /\ 12 = 8 + 4 * (2 - 1)
    BY <1>6, <1>7
  <2>2. WordAt(c, 8, e) = f[1] % Capacity(4) /\ WordAt(c, 12, e) = f[2] % Capacity(4)
    BY <1>5, <2>1 DEF WordsHold
  <2> QED BY <1>1, <1>7, <2>2, NumberBack
<1>12. DecodeMessageHeader(w.header) = m.from
  BY <1>1, HeaderEncoded
<1>13. GapIn(w, c, e)
         = [kind |-> m.kind, from |-> m.from, reader_id |-> m.reader_id,
            writer_id |-> m.writer_id, start |-> m.start, set |-> Filled(s)]
  BY <1>1, <1>5, <1>10, <1>11, <1>12 DEF GapIn
<1>14. [m EXCEPT !.set = Filled(s)]
         = [kind |-> m.kind, from |-> m.from, reader_id |-> m.reader_id,
            writer_id |-> m.writer_id, start |-> m.start, set |-> Filled(s)]
  BY DEF Gaps
<1> QED BY <1>8, <1>10, <1>13, <1>14 DEF s, k
=============================================================================
