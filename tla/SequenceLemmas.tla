---------------------------- MODULE SequenceLemmas ----------------------------
(***************************************************************************)
(* Facts about numbers and sequences that the proofs of the components     *)
(* share. Induction is stated over sets of numbers instead of predicates,  *)
(* so that first-order provers can use it.                                 *)
(***************************************************************************)
EXTENDS Integers, Sequences, FiniteSets, SequencesExt, SequenceTheorems,
        FiniteSetTheorems, WellFoundedInduction, TLAPS

(* Every nonempty set of naturals has a least element.                     *)
LEMMA LeastNat ==
  ASSUME NEW T, T \subseteq Nat, T # {}
  PROVE  \E n \in T : \A m \in T : n <= m
<1>1. PICK n \in T : \A m \in T : ~(<<m, n>> \in OpToRel(<, Nat))
  BY NatLessThanWellFounded, WFMin, Zenon
<1>2. \A m \in T : ~(m < n)
  BY <1>1 DEF OpToRel
<1> QED
  BY <1>2

(* Every nonempty bounded set of naturals has a greatest element.          *)
LEMMA GreatestNat ==
  ASSUME NEW T, T \subseteq Nat, T # {}, NEW b \in Nat, \A n \in T : n <= b
  PROVE  \E n \in T : \A m \in T : n >= m
<1> DEFINE U == { b - n : n \in T }
<1>1. U \subseteq Nat /\ U # {}
  <2>1. \A n \in T : n \in Nat /\ b - n \in Nat
    OBVIOUS
  <2> QED
    BY <2>1
<1>2. PICK k \in U : \A m \in U : k <= m
  BY <1>1, LeastNat
<1>3. PICK n \in T : k = b - n
  BY <1>2
<1>4. \A m \in T : b - n <= b - m
  BY <1>2, <1>3
<1> QED
  BY <1>3, <1>4

(* Induction up to a bound: what holds of 0 and goes from each number to   *)
(* the next holds of all of them.                                          *)
LEMMA InductionTo ==
  ASSUME NEW n \in Nat, NEW T, 0 \in T,
         \A i \in 1..n : i - 1 \in T => i \in T
  PROVE  0..n \subseteq T
<1> DEFINE U == { i \in 0..n : i \notin T }
<1>1. SUFFICES ASSUME U # {} PROVE FALSE
  OBVIOUS
<1>2. PICK i \in U : \A j \in U : i <= j
  <2>1. U \subseteq Nat
    OBVIOUS
  <2> HIDE DEF U
  <2> QED
    BY <1>1, <2>1, LeastNat
<1>3. i \in 1..n
  BY <1>2
<1>4. i - 1 \in T
  BY <1>2, <1>3
<1> QED
  BY <1>2, <1>3, <1>4

(* Induction over the naturals.                                            *)
LEMMA NatSetInduction ==
  ASSUME NEW T, 0 \in T, \A n \in Nat : n \in T => n + 1 \in T
  PROVE  Nat \subseteq T
<1>1. SUFFICES ASSUME NEW n \in Nat PROVE n \in T
  OBVIOUS
<1>2. \A i \in 1..n : i - 1 \in T => i \in T
  <2>1. ASSUME NEW i \in 1..n, i - 1 \in T PROVE i \in T
    <3>1. i - 1 \in Nat /\ (i - 1) + 1 = i
      OBVIOUS
    <3> QED
      BY <2>1, <3>1
  <2> QED
    BY <2>1
<1> QED
  BY <1>2, InductionTo

(* h records a value after every step: x at first, then what the i-th      *)
(* function makes of it.                                                   *)
Records(h, F, x, n) ==
  h[0] = x /\ \A i \in 1..n : h[i] = F[i][h[i - 1]]

(* Whatever the steps are, there is such a record.                         *)
LEMMA Iteration ==
  ASSUME NEW n \in Nat, NEW S, NEW x \in S,
         NEW F \in [1..n -> [S -> S]]
  PROVE  \E h \in [0..n -> S] : Records(h, F, x, n)
<1> DEFINE Upto(m) == { h \in [0..m -> S] :
                             h[0] = x /\ \A i \in 1..m : h[i] = F[i][h[i - 1]] }
           T == { m \in 0..n : Upto(m) # {} }
<1>1. 0 \in T
  <2>1. [i \in 0..0 |-> x] \in Upto(0)
    OBVIOUS
  <2> QED
    BY <2>1
<1>2. ASSUME NEW m \in 1..n, m - 1 \in T
      PROVE  m \in T
  <2>1. PICK h : h \in Upto(m - 1)
    BY <1>2
  <2> DEFINE g == [i \in 0..m |-> IF i = m THEN F[m][h[m - 1]] ELSE h[i]]
  <2>2. m - 1 \in 0..(m - 1) /\ h \in [0..(m - 1) -> S] /\ 0 \in 0..m /\ 0 # m
    BY <2>1
  <2>3. F[m][h[m - 1]] \in S
    BY <2>2
  <2>4. g \in [0..m -> S]
    BY <2>2, <2>3
  <2>5. g[0] = x
    BY <2>1, <2>2
  <2>6. ASSUME NEW i \in 1..m PROVE g[i] = F[i][g[i - 1]]
    <3>1. i - 1 \in 0..m /\ i - 1 # m /\ i \in 0..m
      OBVIOUS
    <3>2. CASE i = m
      BY <3>1, <3>2
    <3>3. CASE i # m
      BY <3>1, <3>3, <2>1
    <3> QED
      BY <3>2, <3>3
  <2>7. g \in Upto(m)
    BY <2>4, <2>5, <2>6
  <2> QED
    BY <2>7
<1>3. 0..n \subseteq T
  BY <1>1, <1>2, InductionTo
<1> QED
  BY <1>3 DEF Records

(* Two functions that do the same at 0, and at each number if they do at   *)
(* the one before...                                                       *)
InStep(f, g, n) ==
  f[0] = g[0] /\ \A i \in 1..n : f[i - 1] = g[i - 1] => f[i] = g[i]

(* ... agree.                                                              *)
LEMMA Agreement ==
  ASSUME NEW n \in Nat, NEW f, NEW g, InStep(f, g, n)
  PROVE  \A i \in 0..n : f[i] = g[i]
<1> DEFINE T == { i \in 0..n : f[i] = g[i] }
<1>1. 0 \in T
  BY DEF InStep
<1>2. \A i \in 1..n : i - 1 \in T => i \in T
  BY DEF InStep
<1>3. 0..n \subseteq T
  BY <1>1, <1>2, InductionTo
<1> QED
  BY <1>3

(* A total order on a nonempty finite set of numbers has a first element.  *)
(* R is the order, as the set of its pairs.                                *)
LEMMA FirstOfOrder ==
  ASSUME NEW b \in Nat, NEW S, S \subseteq 0..b, S # {}, NEW R,
         \A i, j \in S : <<i, j>> \in R \/ <<j, i>> \in R,
         \A i, j, k \in S : <<i, j>> \in R /\ <<j, k>> \in R => <<i, k>> \in R
  PROVE  \E i \in S : \A j \in S : <<i, j>> \in R
<1> DEFINE Upto(n) == S \cap (0..n)
           T == { n \in 0..b : Upto(n) = {} \/
                    \E i \in Upto(n) : \A j \in Upto(n) : <<i, j>> \in R }
<1>1. 0 \in T
  <2>1. \A i, j \in Upto(0) : i = j /\ i \in S
    OBVIOUS
  <2>2. \A i, j \in Upto(0) : <<i, j>> \in R
    BY <2>1
  <2> QED
    BY <2>2
<1>2. ASSUME NEW n \in 1..b, n - 1 \in T PROVE n \in T
  <2>1. \A j \in Upto(n) : j \in S /\ (j = n \/ j \in Upto(n - 1))
    OBVIOUS
  <2>2. \A j \in Upto(n - 1) : j \in Upto(n)
    OBVIOUS
  <2>3. <<n, n>> \in R \/ n \notin S
    OBVIOUS
  <2>4. CASE n \notin S
    <3>1. Upto(n) = Upto(n - 1)
      BY <2>1, <2>2, <2>4
    <3>2. Upto(n - 1) = {} \/
            \E i \in Upto(n - 1) : \A j \in Upto(n - 1) : <<i, j>> \in R
      BY <1>2
    <3> HIDE DEF Upto
    <3> QED
      BY <3>1, <3>2
  <2>5. CASE n \in S /\ Upto(n - 1) = {}
    <3>1. \A j \in Upto(n) : j = n
      BY <2>1, <2>5
    <3>2. n \in Upto(n)
      BY <2>5
    <3> QED
      BY <2>3, <2>5, <3>1, <3>2
  <2>6. CASE n \in S /\ Upto(n - 1) # {}
    <3>1. PICK i \in Upto(n - 1) : \A j \in Upto(n - 1) : <<i, j>> \in R
      BY <1>2, <2>6
    <3>2. i \in S /\ i \in Upto(n) /\ n \in Upto(n)
      BY <2>2, <2>6
    <3>3. CASE <<i, n>> \in R
      <4>1. \A j \in Upto(n) : <<i, j>> \in R
        BY <2>1, <3>1, <3>3
      <4> QED
        BY <3>2, <4>1
    <3>4. CASE <<n, i>> \in R
      <4>1. \A j \in Upto(n) : <<n, j>> \in R
        BY <2>1, <2>3, <2>6, <3>1, <3>2, <3>4
      <4> QED
        BY <3>2, <4>1
    <3> QED
      BY <2>6, <3>2, <3>3, <3>4
  <2> QED
    BY <2>4, <2>5, <2>6
<1>3. 0..b \subseteq T
  BY <1>1, <1>2, InductionTo
<1>4. b \in T
  <2>1. b \in 0..b
    OBVIOUS
  <2> QED
    BY <1>3, <2>1
<1>5. Upto(b) = S
  OBVIOUS
<1> HIDE DEF Upto
<1> QED
  BY <1>4, <1>5

(* Numbers with keys: there is a last one among those of the largest key,  *)
(* a first one among those of the largest and of the smallest key.         *)
LEMMA KeyOrder ==
  ASSUME NEW b \in Nat, NEW S, S \subseteq 0..b, S # {}, NEW key \in [S -> Nat]
  PROVE  /\ \E i \in S : \A j \in S :
              key[i] > key[j] \/ (key[i] = key[j] /\ i >= j)
         /\ \E i \in S : \A j \in S :
              key[i] > key[j] \/ (key[i] = key[j] /\ i <= j)
         /\ \E i \in S : \A j \in S :
              key[i] < key[j] \/ (key[i] = key[j] /\ i <= j)
<1> DEFINE Final == { r \in S \X S :
                       key[r[1]] > key[r[2]] \/ (key[r[1]] = key[r[2]] /\ r[1] >= r[2]) }
           First == { r \in S \X S :
                        key[r[1]] > key[r[2]] \/ (key[r[1]] = key[r[2]] /\ r[1] <= r[2]) }
           Least == { r \in S \X S :
                        key[r[1]] < key[r[2]] \/ (key[r[1]] = key[r[2]] /\ r[1] <= r[2]) }
<1>1. \A i \in S : i \in Nat /\ key[i] \in Nat
  OBVIOUS
<1>2. \A i, j \in S :
        /\ <<i, j>> \in Final <=> key[i] > key[j] \/ (key[i] = key[j] /\ i >= j)
        /\ <<i, j>> \in First <=> key[i] > key[j] \/ (key[i] = key[j] /\ i <= j)
        /\ <<i, j>> \in Least <=> key[i] < key[j] \/ (key[i] = key[j] /\ i <= j)
  OBVIOUS
<1> HIDE DEF Final, First, Least
<1>3. \E i \in S : \A j \in S : <<i, j>> \in Final
  <2>1. ASSUME NEW i \in S, NEW j \in S
        PROVE  <<i, j>> \in Final \/ <<j, i>> \in Final
    <3>1. \/ key[i] > key[j] \/ (key[i] = key[j] /\ i >= j)
          \/ key[j] > key[i] \/ (key[j] = key[i] /\ j >= i)
      BY <1>1
    <3> QED
      BY <1>2, <3>1
  <2>2. \A i, j, k \in S : <<i, j>> \in Final /\ <<j, k>> \in Final => <<i, k>> \in Final
    BY <1>1, <1>2
  <2> QED
    BY <2>1, <2>2, FirstOfOrder
<1>4. \E i \in S : \A j \in S : <<i, j>> \in First
  <2>1. ASSUME NEW i \in S, NEW j \in S
        PROVE  <<i, j>> \in First \/ <<j, i>> \in First
    <3>1. \/ key[i] > key[j] \/ (key[i] = key[j] /\ i <= j)
          \/ key[j] > key[i] \/ (key[j] = key[i] /\ j <= i)
      BY <1>1
    <3> QED
      BY <1>2, <3>1
  <2>2. \A i, j, k \in S : <<i, j>> \in First /\ <<j, k>> \in First => <<i, k>> \in First
    BY <1>1, <1>2
  <2> QED
    BY <2>1, <2>2, FirstOfOrder
<1>5. \E i \in S : \A j \in S : <<i, j>> \in Least
  <2>1. ASSUME NEW i \in S, NEW j \in S
        PROVE  <<i, j>> \in Least \/ <<j, i>> \in Least
    <3>1. \/ key[i] < key[j] \/ (key[i] = key[j] /\ i <= j)
          \/ key[j] < key[i] \/ (key[j] = key[i] /\ j <= i)
      BY <1>1
    <3> QED
      BY <1>2, <3>1
  <2>2. \A i, j, k \in S : <<i, j>> \in Least /\ <<j, k>> \in Least => <<i, k>> \in Least
    BY <1>1, <1>2
  <2> QED
    BY <2>1, <2>2, FirstOfOrder
<1> QED
  BY <1>2, <1>3, <1>4, <1>5

-----------------------------------------------------------------------------
(* RemoveAt closes the gap: what was behind the removed element moves up.  *)
LEMMA RemoveAtFacts ==
  ASSUME NEW S, NEW s \in Seq(S), NEW i \in 1..Len(s)
  PROVE  /\ RemoveAt(s, i) \in Seq(S)
         /\ Len(RemoveAt(s, i)) = Len(s) - 1
         /\ \A j \in 1..Len(s) - 1 :
              RemoveAt(s, i)[j] = IF j < i THEN s[j] ELSE s[j + 1]
<1>1. Len(s) \in Nat /\ \A j \in 1..Len(s) : s[j] \in S
  BY LenProperties, ElementOfSeq
<1> DEFINE a == SubSeq(s, 1, i - 1)
           b == SubSeq(s, i + 1, Len(s))
<1>2. /\ a \in Seq(S) /\ Len(a) = i - 1
      /\ \A j \in 1..i - 1 : a[j] = s[j]
  <2>1. \A j \in 1..i - 1 : s[j] \in S
    BY <1>1
  <2>2. 1 \in Int /\ i - 1 \in Int
    BY <1>1
  <2>3. /\ a \in Seq(S) /\ Len(a) = IF 1 <= i - 1 THEN i - 1 - 1 + 1 ELSE 0
        /\ \A j \in 1..i - 1 - 1 + 1 : a[j] = s[1 + j - 1]
    BY <2>1, <2>2, SubSeqProperties
  <2> QED
    BY <2>3
<1>3. /\ b \in Seq(S) /\ Len(b) = Len(s) - i
      /\ \A j \in 1..Len(s) - i : b[j] = s[i + j]
  <2>1. \A j \in i + 1..Len(s) : s[j] \in S
    BY <1>1
  <2>2. i + 1 \in Int /\ Len(s) \in Int
    BY <1>1
  <2>3. /\ b \in Seq(S) /\ Len(b) = IF i + 1 <= Len(s) THEN Len(s) - (i + 1) + 1 ELSE 0
        /\ \A j \in 1..Len(s) - (i + 1) + 1 : b[j] = s[i + 1 + j - 1]
    BY <2>1, <2>2, SubSeqProperties
  <2> QED
    BY <2>3, <1>1
<1>4. RemoveAt(s, i) = a \o b
  BY DEF RemoveAt
<1> HIDE DEF a, b
<1>5. /\ a \o b \in Seq(S)
      /\ Len(a \o b) = Len(a) + Len(b)
      /\ \A j \in 1..Len(a) + Len(b) :
           (a \o b)[j] = IF j <= Len(a) THEN a[j] ELSE b[j - Len(a)]
  BY <1>2, <1>3, ConcatProperties
<1> QED
  BY <1>1, <1>2, <1>3, <1>4, <1>5

(* The places at which an element occurs.                                  *)
Places(s, x) == { i \in DOMAIN s : s[i] = x }

(* There are finitely many places, all of them positions of the sequence.  *)
LEMMA PlacesFinite ==
  ASSUME NEW S, NEW s \in Seq(S), NEW x
  PROVE  /\ IsFiniteSet(Places(s, x)) /\ Cardinality(Places(s, x)) \in Nat
         /\ \A i \in Places(s, x) : i \in 1..Len(s)
<1>1. Len(s) \in Nat /\ DOMAIN s = 1..Len(s)
  BY LenProperties
<1>2. IsFiniteSet(1..Len(s))
  BY <1>1, FS_Interval
<1>3. Places(s, x) \in SUBSET (1..Len(s))
  BY <1>1 DEF Places
<1>4. IsFiniteSet(Places(s, x))
  BY <1>2, <1>3, FS_Subset
<1> QED
  BY <1>3, <1>4, FS_CardinalityType

(* An element that is appended occurs at one place more...                 *)
LEMMA PlacesAppend ==
  ASSUME NEW S, NEW s \in Seq(S), NEW y \in S, NEW x
  PROVE  Cardinality(Places(Append(s, y), x))
           = Cardinality(Places(s, x)) + (IF x = y THEN 1 ELSE 0)
<1>1. Len(s) \in Nat /\ DOMAIN s = 1..Len(s)
  BY LenProperties
<1>2. /\ Append(s, y) \in Seq(S) /\ Len(Append(s, y)) = Len(s) + 1
      /\ \A i \in 1..Len(s) : Append(s, y)[i] = s[i]
      /\ Append(s, y)[Len(s) + 1] = y
  BY AppendProperties
<1>3. DOMAIN Append(s, y) = 1..Len(s) + 1
  BY <1>2, LenProperties
<1>4. IsFiniteSet(Places(s, x)) /\ Len(s) + 1 \notin Places(s, x)
  BY <1>1, PlacesFinite
<1>5. CASE x = y
  <2>1. Places(Append(s, y), x) = Places(s, x) \cup {Len(s) + 1}
    BY <1>1, <1>2, <1>3, <1>5 DEF Places
  <2> QED
    BY <1>4, <1>5, <2>1, FS_AddElement
<1>6. CASE x # y
  <2>1. Places(Append(s, y), x) = Places(s, x)
    BY <1>1, <1>2, <1>3, <1>6 DEF Places
  <2> QED
    BY <2>1, <1>6, PlacesFinite
<1> QED
  BY <1>5, <1>6

(* ... or leaves from the front.                                           *)
LEMMA PlacesTail ==
  ASSUME NEW S, NEW s \in Seq(S), s # <<>>, NEW x
  PROVE  Cardinality(Places(Tail(s), x))
           = Cardinality(Places(s, x)) - (IF x = Head(s) THEN 1 ELSE 0)
<1>1. Len(s) \in Nat \ {0} /\ DOMAIN s = 1..Len(s)
  BY LenProperties, EmptySeq
<1>2. /\ Tail(s) \in Seq(S) /\ Len(Tail(s)) = Len(s) - 1
      /\ \A i \in 1..Len(s) - 1 : Tail(s)[i] = s[i + 1]
  BY HeadTailProperties
<1>3. DOMAIN Tail(s) = 1..Len(s) - 1 /\ Head(s) = s[1]
  BY <1>2, LenProperties
<1>4. /\ IsFiniteSet(Places(s, x)) /\ IsFiniteSet(Places(Tail(s), x))
      /\ Cardinality(Places(s, x)) \in Nat
  BY <1>2, PlacesFinite
<1> DEFINE R == Places(s, x) \ {1}
           f == [i \in Places(Tail(s), x) |-> i + 1]
<1>5. f \in Bijection(Places(Tail(s), x), R)
  <2>1. \A i \in Places(Tail(s), x) : i \in 1..Len(s) - 1 /\ i + 1 \in R
    BY <1>1, <1>2, <1>3 DEF Places
  <2>2. \A j \in R : j - 1 \in Places(Tail(s), x) /\ (j - 1) + 1 = j
    BY <1>1, <1>2, <1>3 DEF Places
  <2>3. f \in [Places(Tail(s), x) -> R]
    BY <2>1
  <2>4. \A i, j \in Places(Tail(s), x) : f[i] = f[j] => i = j
    BY <2>1
  <2>5. \A j \in R : \E i \in Places(Tail(s), x) : f[i] = j
    BY <2>2
  <2> QED
    BY <2>3, <2>4, <2>5 DEF Bijection, Injection, Surjection, IsInjective
<1>6. Cardinality(R) = Cardinality(Places(Tail(s), x))
  BY <1>4, <1>5, FS_Bijection DEF ExistsBijection
<1>7. Cardinality(R) = Cardinality(Places(s, x)) - (IF 1 \in Places(s, x) THEN 1 ELSE 0)
  <2>1. Cardinality(Places(s, x) \ {1}) = IF 1 \in Places(s, x)
                                          THEN Cardinality(Places(s, x)) - 1
                                          ELSE Cardinality(Places(s, x))
    BY <1>4, FS_RemoveElement, Zenon
  <2> QED
    BY <1>4, <2>1
<1>8. 1 \in Places(s, x) <=> x = Head(s)
  BY <1>1, <1>3 DEF Places
<1> QED
  BY <1>6, <1>7, <1>8

-----------------------------------------------------------------------------
(* The elements of a sequence are the values at its positions.             *)
LEMMA ElementsFacts ==
  ASSUME NEW S, NEW s \in Seq(S)
  PROVE  /\ Len(s) \in Nat /\ DOMAIN s = 1..Len(s)
         /\ \A i \in 1..Len(s) : s[i] \in S /\ s[i] \in ToSet(s)
         /\ \A x \in ToSet(s) : x \in S /\ \E i \in 1..Len(s) : x = s[i]
         /\ s = <<>> <=> ToSet(s) = {}
<1>1. Len(s) \in Nat /\ DOMAIN s = 1..Len(s)
  BY LenProperties
<1>2. /\ \A i \in 1..Len(s) : s[i] \in S /\ s[i] \in ToSet(s)
      /\ \A x \in ToSet(s) : x \in S /\ \E i \in 1..Len(s) : x = s[i]
  BY <1>1, ElementOfSeq DEF ToSet
<1>3. CASE s = <<>>
  <2>1. Len(s) = 0
    BY <1>3, EmptySeq
  <2> QED
    BY <1>1, <1>2, <1>3, <2>1
<1>4. CASE s # <<>>
  <2>1. Len(s) \in Nat \ {0}
    BY <1>4, EmptySeq
  <2>2. 1 \in 1..Len(s)
    BY <2>1
  <2> QED
    BY <1>1, <1>2, <1>4, <2>2
<1> QED
  BY <1>1, <1>2, <1>3, <1>4

(* Every element is related to every later one. R is the relation, as the  *)
(* set of its pairs.                                                       *)
Related(s, R) == \A i, j \in DOMAIN s : i < j => <<s[i], s[j]>> \in R

(* No element occurs twice.                                                *)
Once(s) == \A i, j \in DOMAIN s : s[i] = s[j] => i = j

(* What is appended becomes an element, related to every earlier one.      *)
LEMMA AppendFacts ==
  ASSUME NEW S, NEW s \in Seq(S), NEW x \in S
  PROVE  /\ Append(s, x) \in Seq(S) /\ Len(Append(s, x)) = Len(s) + 1
         /\ ToSet(Append(s, x)) = ToSet(s) \cup {x}
         /\ \A R : Related(s, R) /\ (\A y \in ToSet(s) : <<y, x>> \in R)
                   => Related(Append(s, x), R)
<1> DEFINE t == Append(s, x)
<1>1. /\ t \in Seq(S) /\ Len(t) = Len(s) + 1
      /\ \A i \in 1..Len(s) : t[i] = s[i]
      /\ t[Len(s) + 1] = x
  BY AppendProperties
<1> HIDE DEF t
<1>2. /\ Len(s) \in Nat /\ DOMAIN s = 1..Len(s) /\ DOMAIN t = 1..Len(s) + 1
  BY <1>1, LenProperties
<1>3. \A i \in 1..Len(s) + 1 : i \in 1..Len(s) \/ i = Len(s) + 1
  BY <1>2
<1>4. ToSet(t) = ToSet(s) \cup {x}
  <2>1. \A y \in ToSet(t) : y \in ToSet(s) \cup {x}
    BY <1>1, <1>2, <1>3 DEF ToSet
  <2>2. \A y \in ToSet(s) : y \in ToSet(t)
    <3>1. \A i \in 1..Len(s) : i \in 1..Len(s) + 1
      BY <1>2
    <3> QED
      BY <1>1, <1>2, <3>1 DEF ToSet
  <2>3. x \in ToSet(t)
    <3>1. Len(s) + 1 \in 1..Len(s) + 1
      BY <1>2
    <3> QED
      BY <1>1, <1>2, <3>1 DEF ToSet
  <2> QED
    BY <2>1, <2>2, <2>3
<1>5. ASSUME NEW R, Related(s, R), \A y \in ToSet(s) : <<y, x>> \in R
      PROVE  Related(t, R)
  <2>1. ASSUME NEW i \in 1..Len(s) + 1, NEW j \in 1..Len(s) + 1, i < j
        PROVE  <<t[i], t[j]>> \in R
    <3>1. i \in 1..Len(s)
      BY <1>2, <2>1
    <3>2. CASE j \in 1..Len(s)
      BY <1>1, <1>2, <1>5, <2>1, <3>1, <3>2 DEF Related
    <3>3. CASE j = Len(s) + 1
      BY <1>1, <1>2, <1>5, <3>1, <3>3 DEF ToSet
    <3> QED
      BY <1>3, <3>2, <3>3
  <2> QED
    BY <1>2, <2>1 DEF Related
<1> QED
  BY <1>1, <1>4, <1>5 DEF t

(* InsertAt makes room: what was at or behind the place moves down.        *)
LEMMA InsertAtFacts ==
  ASSUME NEW S, NEW s \in Seq(S), NEW i \in 1..Len(s) + 1, NEW x \in S
  PROVE  /\ InsertAt(s, i, x) \in Seq(S)
         /\ Len(InsertAt(s, i, x)) = Len(s) + 1
         /\ \A j \in 1..Len(s) + 1 :
              InsertAt(s, i, x)[j] = IF j < i THEN s[j]
                                     ELSE IF j = i THEN x ELSE s[j - 1]
<1>1. Len(s) \in Nat /\ \A j \in 1..Len(s) : s[j] \in S
  BY LenProperties, ElementOfSeq
<1> DEFINE a == SubSeq(s, 1, i - 1)
           b == SubSeq(s, i, Len(s))
           m == <<x>>
<1>2. /\ a \in Seq(S) /\ Len(a) = i - 1
      /\ \A j \in 1..i - 1 : a[j] = s[j]
  <2>1. \A j \in 1..i - 1 : s[j] \in S
    BY <1>1
  <2>2. 1 \in Int /\ i - 1 \in Int
    BY <1>1
  <2>3. /\ a \in Seq(S) /\ Len(a) = IF 1 <= i - 1 THEN i - 1 - 1 + 1 ELSE 0
        /\ \A j \in 1..i - 1 - 1 + 1 : a[j] = s[1 + j - 1]
    BY <2>1, <2>2, SubSeqProperties
  <2> QED
    BY <2>3, <1>1
<1>3. /\ b \in Seq(S) /\ Len(b) = Len(s) - i + 1
      /\ \A j \in 1..Len(s) - i + 1 : b[j] = s[i + j - 1]
  <2>1. \A j \in i..Len(s) : s[j] \in S
    BY <1>1
  <2>2. i \in Int /\ Len(s) \in Int
    BY <1>1
  <2>3. /\ b \in Seq(S) /\ Len(b) = IF i <= Len(s) THEN Len(s) - i + 1 ELSE 0
        /\ \A j \in 1..Len(s) - i + 1 : b[j] = s[i + j - 1]
    BY <2>1, <2>2, SubSeqProperties
  <2> QED
    BY <2>3, <1>1
<1>4. m \in Seq(S) /\ Len(m) = 1 /\ m[1] = x
  OBVIOUS
<1>5. InsertAt(s, i, x) = (a \o m) \o b
  BY DEF InsertAt
<1> HIDE DEF a, b, m
<1>6. /\ a \o m \in Seq(S) /\ Len(a \o m) = i
      /\ \A j \in 1..i : (a \o m)[j] = IF j <= i - 1 THEN s[j] ELSE x
  <2>1. /\ a \o m \in Seq(S) /\ Len(a \o m) = Len(a) + Len(m)
        /\ \A j \in 1..Len(a) + Len(m) :
             (a \o m)[j] = IF j <= Len(a) THEN a[j] ELSE m[j - Len(a)]
    BY <1>2, <1>4, ConcatProperties
  <2> QED
    BY <1>1, <1>2, <1>4, <2>1
<1> DEFINE c == a \o m
           d == c \o b
<1>7. /\ d \in Seq(S) /\ Len(d) = Len(c) + Len(b)
      /\ \A j \in 1..Len(c) + Len(b) :
           d[j] = IF j <= Len(c) THEN c[j] ELSE b[j - Len(c)]
  <2>1. c \in Seq(S) /\ b \in Seq(S)
    BY <1>3, <1>6
  <2> HIDE DEF c
  <2> QED
    BY <2>1, ConcatProperties
<1>8. InsertAt(s, i, x) = d
  BY <1>5
<1> HIDE DEF d
<1>9. Len(d) = Len(s) + 1 /\ Len(c) = i /\ Len(c) + Len(b) = Len(s) + 1
  BY <1>1, <1>3, <1>6, <1>7
<1>10. ASSUME NEW j \in 1..Len(s) + 1
       PROVE  d[j] = IF j < i THEN s[j] ELSE IF j = i THEN x ELSE s[j - 1]
  <2>1. d[j] = IF j <= i THEN c[j] ELSE b[j - i]
    BY <1>7, <1>9
  <2>2. CASE j <= i
    <3>1. j \in 1..i /\ c[j] = IF j <= i - 1 THEN s[j] ELSE x
      BY <1>6, <2>2
    <3> QED
      BY <2>1, <2>2, <3>1
  <2>3. CASE j > i
    <3>1. j - i \in 1..Len(s) - i + 1 /\ i + (j - i) - 1 = j - 1
      BY <1>1, <2>3
    <3>2. b[j - i] = s[j - 1]
      BY <1>3, <3>1
    <3>3. ~(j <= i) /\ ~(j < i) /\ j # i
      BY <2>3
    <3> QED
      BY <2>1, <3>2, <3>3
  <2> QED
    BY <2>2, <2>3
<1> QED
  BY <1>7, <1>8, <1>9, <1>10

(* A sequence that has each element once is as long as they are many.      *)
LEMMA OnceLength ==
  ASSUME NEW S, NEW s \in Seq(S)
  PROVE  /\ IsFiniteSet(ToSet(s)) /\ Cardinality(ToSet(s)) \in Nat
         /\ Once(s) => Cardinality(ToSet(s)) = Len(s)
<1>1. /\ Len(s) \in Nat /\ DOMAIN s = 1..Len(s) /\ s \in [1..Len(s) -> S]
  BY LenProperties
<1>2. IsFiniteSet(1..Len(s)) /\ Cardinality(1..Len(s)) = Len(s)
  BY <1>1, FS_Interval
<1>3. s \in Surjection(1..Len(s), ToSet(s))
  BY <1>1 DEF Surjection, ToSet
<1>4. IsFiniteSet(ToSet(s)) /\ Cardinality(ToSet(s)) \in Nat
  BY <1>2, <1>3, FS_Surjection, FS_CardinalityType
<1>5. ASSUME Once(s) PROVE Cardinality(ToSet(s)) = Len(s)
  <2>1. s \in Bijection(1..Len(s), ToSet(s))
    BY <1>1, <1>3, <1>5 DEF Bijection, Injection, Surjection, IsInjective, Once
  <2> QED
    BY <1>2, <2>1, FS_Bijection DEF ExistsBijection
<1> QED
  BY <1>4, <1>5

(* t is s with x put in at the i-th place.                                 *)
Inserted(t, s, i, x) ==
  /\ Len(t) = Len(s) + 1
  /\ \A j \in 1..Len(s) + 1 :
       t[j] = IF j < i THEN s[j] ELSE IF j = i THEN x ELSE s[j - 1]

(* x has the relation to what is before and behind the i-th place.         *)
Between(s, i, x, R) ==
  /\ \A j \in 1..i - 1 : <<s[j], x>> \in R
  /\ \A j \in i..Len(s) : <<x, s[j]>> \in R

(* InsertAt and a concatenation at the front do that.                      *)
LEMMA InsertingFacts ==
  ASSUME NEW S, NEW s \in Seq(S), NEW x \in S
  PROVE  /\ \A i \in 1..Len(s) + 1 :
              InsertAt(s, i, x) \in Seq(S) /\ Inserted(InsertAt(s, i, x), s, i, x)
         /\ <<x>> \o s \in Seq(S) /\ Inserted(<<x>> \o s, s, 1, x)
<1>1. ASSUME NEW i \in 1..Len(s) + 1
      PROVE  InsertAt(s, i, x) \in Seq(S) /\ Inserted(InsertAt(s, i, x), s, i, x)
  BY InsertAtFacts DEF Inserted
<1> DEFINE m == <<x>>
           t == m \o s
<1>2. m \in Seq(S) /\ Len(m) = 1 /\ m[1] = x /\ s \in Seq(S) /\ Len(s) \in Nat
  BY LenProperties
<1> HIDE DEF m
<1>3. /\ t \in Seq(S) /\ Len(t) = Len(m) + Len(s)
      /\ \A j \in 1..Len(m) + Len(s) :
           t[j] = IF j <= Len(m) THEN m[j] ELSE s[j - Len(m)]
  BY <1>2, ConcatProperties
<1> HIDE DEF t
<1>4. Inserted(t, s, 1, x)
  <2>1. ASSUME NEW j \in 1..Len(s) + 1
        PROVE  t[j] = IF j < 1 THEN s[j] ELSE IF j = 1 THEN x ELSE s[j - 1]
    <3>1. j \in 1..Len(m) + Len(s) /\ ~(j < 1) /\ (j <= 1 <=> j = 1)
      BY <1>2
    <3> QED
      BY <1>2, <1>3, <3>1
  <2>2. Len(t) = Len(s) + 1
    BY <1>2, <1>3
  <2> QED
    BY <2>1, <2>2 DEF Inserted
<1> QED
  BY <1>1, <1>3, <1>4 DEF m, t

(* One more element; it keeps every relation that it has to those before   *)
(* and behind its place.                                                   *)
LEMMA InsertedFacts ==
  ASSUME NEW S, NEW s \in Seq(S), NEW t \in Seq(S), NEW i \in 1..Len(s) + 1,
         NEW x \in S, Inserted(t, s, i, x)
  PROVE  /\ ToSet(t) = ToSet(s) \cup {x}
         /\ \A R : Related(s, R) /\ Between(s, i, x, R) => Related(t, R)
<1>1. Len(s) \in Nat /\ i \in Nat /\ i >= 1 /\ i <= Len(s) + 1
  BY LenProperties
<1>2. /\ DOMAIN s = 1..Len(s) /\ Len(t) = Len(s) + 1 /\ DOMAIN t = 1..Len(s) + 1
  BY LenProperties DEF Inserted
<1>3. \A j \in 1..Len(s) + 1 : \/ j = i /\ t[j] = x
                               \/ j \in 1..i - 1 /\ j \in 1..Len(s) /\ t[j] = s[j]
                               \/ j - 1 \in i..Len(s) /\ j - 1 \in 1..Len(s) /\ t[j] = s[j - 1]
  <2>1. ASSUME NEW j \in 1..Len(s) + 1
        PROVE  \/ j = i /\ t[j] = x
               \/ j \in 1..i - 1 /\ j \in 1..Len(s) /\ t[j] = s[j]
               \/ j - 1 \in i..Len(s) /\ j - 1 \in 1..Len(s) /\ t[j] = s[j - 1]
    <3>1. t[j] = IF j < i THEN s[j] ELSE IF j = i THEN x ELSE s[j - 1]
      BY DEF Inserted
    <3>2. CASE j < i
      BY <1>1, <3>1, <3>2
    <3>3. CASE j = i
      BY <3>1, <3>3
    <3>4. CASE j > i
      BY <1>1, <3>1, <3>4
    <3> QED
      BY <1>1, <3>2, <3>3, <3>4
  <2> QED
    BY <2>1
<1>4. \A j \in 1..Len(s) : \/ j \in 1..Len(s) + 1 /\ t[j] = s[j]
                           \/ j + 1 \in 1..Len(s) + 1 /\ t[j + 1] = s[j]
  <2>1. ASSUME NEW j \in 1..Len(s)
        PROVE  \/ j \in 1..Len(s) + 1 /\ t[j] = s[j]
               \/ j + 1 \in 1..Len(s) + 1 /\ t[j + 1] = s[j]
    <3>1. j \in 1..Len(s) + 1 /\ j + 1 \in 1..Len(s) + 1
      BY <1>1
    <3>2. CASE j < i
      BY <3>1, <3>2 DEF Inserted
    <3>3. CASE j >= i
      <4>1. t[j + 1] = IF j + 1 < i THEN s[j + 1] ELSE IF j + 1 = i THEN x ELSE s[(j + 1) - 1]
        BY <3>1 DEF Inserted
      <4>2. ~(j + 1 < i) /\ j + 1 # i /\ (j + 1) - 1 = j
        BY <1>1, <3>3
      <4> QED
        BY <3>1, <4>1, <4>2
    <3> QED
      BY <1>1, <3>2, <3>3
  <2> QED
    BY <2>1
<1>5. ToSet(t) = ToSet(s) \cup {x}
  <2>1. /\ \A y : y \in ToSet(t) <=> \E j \in 1..Len(s) + 1 : y = t[j]
        /\ \A y : y \in ToSet(s) <=> \E j \in 1..Len(s) : y = s[j]
    BY <1>2 DEF ToSet
  <2>2. i \in 1..Len(s) + 1 /\ t[i] = x
    BY <1>1 DEF Inserted
  <2>3. \A y \in ToSet(t) : y \in ToSet(s) \cup {x}
    BY <1>3, <2>1
  <2>4. \A y \in ToSet(s) : y \in ToSet(t)
    BY <1>4, <2>1
  <2> QED
    BY <2>1, <2>2, <2>3, <2>4
<1>6. ASSUME NEW R, Related(s, R), Between(s, i, x, R)
      PROVE  Related(t, R)
  <2> USE DEF Between
  <2>1. \A j, k \in 1..Len(s) : j < k => <<s[j], s[k]>> \in R
    BY <1>2, <1>6 DEF Related
  <2>2. ASSUME NEW j \in 1..Len(s) + 1, NEW k \in 1..Len(s) + 1, j < k
        PROVE  <<t[j], t[k]>> \in R
    <3>1. CASE j = i /\ t[j] = x
      <4>1. k - 1 \in i..Len(s) /\ t[k] = s[k - 1]
        BY <1>1, <1>3, <2>2, <3>1
      <4> QED
        BY <1>6, <3>1, <4>1
    <3>2. CASE j \in 1..i - 1 /\ j \in 1..Len(s) /\ t[j] = s[j]
      <4>1. CASE k = i /\ t[k] = x
        BY <1>6, <3>2, <4>1
      <4>2. CASE k \in 1..i - 1 /\ k \in 1..Len(s) /\ t[k] = s[k]
        BY <2>1, <2>2, <3>2, <4>2
      <4>3. CASE k - 1 \in i..Len(s) /\ k - 1 \in 1..Len(s) /\ t[k] = s[k - 1]
        <5>1. j < k - 1
          BY <1>1, <3>2, <4>3
        <5> QED
          BY <2>1, <3>2, <4>3, <5>1
      <4> QED
        BY <1>3, <4>1, <4>2, <4>3
    <3>3. CASE j - 1 \in i..Len(s) /\ j - 1 \in 1..Len(s) /\ t[j] = s[j - 1]
      <4>1. k - 1 \in 1..Len(s) /\ t[k] = s[k - 1] /\ j - 1 < k - 1
        BY <1>1, <1>3, <2>2, <3>3
      <4> QED
        BY <2>1, <3>3, <4>1
    <3> QED
      BY <1>3, <3>1, <3>2, <3>3
  <2> QED
    BY <1>2, <2>2 DEF Related
<1> QED
  BY <1>5, <1>6
==============================================================================
