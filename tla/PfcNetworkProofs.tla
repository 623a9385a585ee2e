--------------------------- MODULE PfcNetworkProofs ---------------------------
(***************************************************************************)
(* Theorems about PfcNetwork, for every network: any flows and routes,     *)
(* thresholds, queue configurations and bounds.                            *)
(***************************************************************************)
EXTENDS PfcNetwork, SequenceLemmas

-----------------------------------------------------------------------------
(* Packets in several queues at once. d is a function of sequences; R says *)
(* which elements are counted in which sequence.                           *)

Spots(d, R) ==
  { a \in (DOMAIN d) \X Nat :
      a[2] \in DOMAIN d[a[1]] /\ <<a[1], d[a[1]][a[2]]>> \in R }

(* A spot is a position of one of the sequences.                           *)
LEMMA SpotAt ==
  ASSUME NEW L, NEW S, NEW d \in [L -> Seq(S)], NEW R, NEW l, NEW i
  PROVE  <<l, i>> \in Spots(d, R) <=>
           l \in L /\ i \in 1..Len(d[l]) /\ <<l, d[l][i]>> \in R
<1>1. \A m \in L : Len(d[m]) \in Nat /\ DOMAIN d[m] = 1..Len(d[m])
  BY LenProperties
<1>2. <<l, i>> \in Spots(d, R) <=>
        /\ l \in L /\ i \in Nat
        /\ i \in DOMAIN d[l] /\ <<l, d[l][i]>> \in R
  BY DEF Spots
<1> QED
  BY <1>1, <1>2

LEMMA SpotsArePairs ==
  ASSUME NEW L, NEW S, NEW d \in [L -> Seq(S)], NEW R, NEW a \in Spots(d, R)
  PROVE  a[1] \in L /\ a[2] \in 1..Len(d[a[1]]) /\ a[2] \in Nat /\ a = <<a[1], a[2]>>
<1>1. a = <<a[1], a[2]>> /\ a[1] \in L /\ a[2] \in Nat
  BY DEF Spots
<1> DEFINE l == a[1]
           i == a[2]
<1>2. <<l, i>> \in Spots(d, R)
  BY <1>1
<1> HIDE DEF l, i
<1>3. i \in 1..Len(d[l])
  BY <1>2, SpotAt
<1> QED
  BY <1>1, <1>3 DEF l, i

(* There are finitely many positions, and so are the spots.                *)
Positions(d, L) == UNION { {l} \X DOMAIN d[l] : l \in L }

LEMMA PositionsFinite ==
  ASSUME NEW L, IsFiniteSet(L), NEW S, NEW d \in [L -> Seq(S)]
  PROVE  IsFiniteSet(Positions(d, L))
<1> DEFINE T == { {l} \X DOMAIN d[l] : l \in L }
           f == [l \in L |-> {l} \X DOMAIN d[l]]
<1>1. IsFiniteSet(T)
  <2>1. f \in [L -> T] /\ \A t \in T : \E l \in L : f[l] = t
    OBVIOUS
  <2> QED
    BY <2>1, FS_Surjection DEF Surjection
<1>2. ASSUME NEW l \in L PROVE IsFiniteSet({l} \X DOMAIN d[l])
  <2>1. DOMAIN d[l] = 1..Len(d[l]) /\ Len(d[l]) \in Nat
    BY LenProperties
  <2>2. IsFiniteSet(1..Len(d[l]))
    BY <2>1, FS_Interval
  <2>3. IsFiniteSet({l})
    BY FS_Singleton
  <2> QED
    BY <2>1, <2>2, <2>3, FS_Product
<1>3. \A t \in T : IsFiniteSet(t)
  BY <1>2
<1> QED
  BY <1>1, <1>3, FS_UNION DEF Positions

LEMMA SpotsFinite ==
  ASSUME NEW L, IsFiniteSet(L), NEW S, NEW d \in [L -> Seq(S)], NEW R
  PROVE  IsFiniteSet(Spots(d, R)) /\ Cardinality(Spots(d, R)) \in Nat
<1> DEFINE P == Positions(d, L)
<1>1. IsFiniteSet(P)
  BY PositionsFinite
<1>2. Spots(d, R) \in SUBSET P
  <2>1. ASSUME NEW a \in Spots(d, R) PROVE a \in P
    <3>1. a[1] \in L /\ a[2] \in 1..Len(d[a[1]]) /\ a = <<a[1], a[2]>>
      BY SpotsArePairs
    <3>2. DOMAIN d[a[1]] = 1..Len(d[a[1]])
      BY <3>1, LenProperties
    <3>3. a \in {a[1]} \X DOMAIN d[a[1]]
      BY <3>1, <3>2
    <3> QED
      BY <3>1, <3>3 DEF Positions
  <2> QED
    BY <2>1
<1>3. IsFiniteSet(Spots(d, R))
  BY <1>1, <1>2, FS_Subset
<1> QED
  BY <1>3, FS_CardinalityType

(* One more element at the end of one sequence...                          *)
Longer(d, l, x) == [d EXCEPT ![l] = Append(d[l], x)]

LEMMA SpotsAppend ==
  ASSUME NEW L, IsFiniteSet(L), NEW S, NEW d \in [L -> Seq(S)], NEW R,
         NEW l \in L, NEW x \in S
  PROVE  /\ Longer(d, l, x) \in [L -> Seq(S)]
         /\ Cardinality(Spots(Longer(d, l, x), R))
              = Cardinality(Spots(d, R)) + (IF <<l, x>> \in R THEN 1 ELSE 0)
<1> DEFINE e == [d EXCEPT ![l] = Append(d[l], x)]
           n == Len(d[l])
<1>1. /\ n \in Nat /\ Append(d[l], x) \in Seq(S) /\ Len(Append(d[l], x)) = n + 1
      /\ \A i \in 1..n : Append(d[l], x)[i] = d[l][i]
      /\ Append(d[l], x)[n + 1] = x
  BY AppendProperties, LenProperties
<1>2. e \in [L -> Seq(S)]
  BY <1>1
<1>3. e[l] = Append(d[l], x) /\ \A m \in L : m # l => e[m] = d[m]
  OBVIOUS
<1> HIDE DEF e, n
<1>4. IsFiniteSet(Spots(d, R)) /\ Cardinality(Spots(d, R)) \in Nat
  BY SpotsFinite
<1>5. ASSUME NEW m, NEW i
      PROVE  /\ <<m, i>> \in Spots(d, R) <=>
                   m \in L /\ i \in 1..Len(d[m]) /\ <<m, d[m][i]>> \in R
             /\ <<m, i>> \in Spots(e, R) <=>
                   m \in L /\ i \in 1..Len(e[m]) /\ <<m, e[m][i]>> \in R
  BY <1>2, SpotAt
<1>6. ASSUME NEW m \in L, NEW i
      PROVE  <<m, i>> \in Spots(e, R) <=>
               \/ <<m, i>> \in Spots(d, R)
               \/ m = l /\ i = n + 1 /\ <<l, x>> \in R
  <2>1. CASE m = l
    <3>1. <<l, i>> \in Spots(e, R) <=> i \in 1..n + 1 /\ <<l, e[l][i]>> \in R
      BY <1>1, <1>3, <1>5
    <3>2. <<l, i>> \in Spots(d, R) <=> i \in 1..n /\ <<l, d[l][i]>> \in R
      BY <1>5 DEF n
    <3>3. i \in 1..n + 1 <=> i \in 1..n \/ i = n + 1
      BY <1>1
    <3> QED
      BY <1>1, <1>3, <2>1, <3>1, <3>2, <3>3
  <2>2. CASE m # l
    BY <1>3, <1>5, <2>2
  <2> QED
    BY <2>1, <2>2
<1>7. ASSUME NEW a, a \in Spots(e, R) \/ a \in Spots(d, R) \/ a = <<l, n + 1>>
      PROVE  a[1] \in L /\ a = <<a[1], a[2]>>
  BY <1>2, <1>7, SpotsArePairs
<1>8. <<l, n + 1>> \notin Spots(d, R)
  <2>1. n + 1 \notin 1..n /\ n = Len(d[l])
    BY <1>1 DEF n
  <2> QED
    BY <1>5, <2>1
<1>9. CASE <<l, x>> \in R
  <2>1. ASSUME NEW a
        PROVE  a \in Spots(e, R) <=> a \in Spots(d, R) \cup {<<l, n + 1>>}
    BY <1>6, <1>7, <1>9
  <2>2. Spots(e, R) = Spots(d, R) \cup {<<l, n + 1>>}
    BY <2>1
  <2> QED
    BY <1>2, <1>4, <1>8, <1>9, <2>2, FS_AddElement DEF e, Longer
<1>10. CASE <<l, x>> \notin R
  <2>1. ASSUME NEW a PROVE a \in Spots(e, R) <=> a \in Spots(d, R)
    BY <1>6, <1>7, <1>10
  <2>2. Spots(e, R) = Spots(d, R)
    BY <2>1
  <2> QED
    BY <1>2, <1>4, <1>10, <2>2 DEF e, Longer
<1> QED
  BY <1>9, <1>10

(* ... or one less, from anywhere.                                         *)
Shorter(d, l, k) == [d EXCEPT ![l] = RemoveAt(d[l], k)]

LEMMA SpotsRemove ==
  ASSUME NEW L, IsFiniteSet(L), NEW S, NEW d \in [L -> Seq(S)], NEW R,
         NEW l \in L, NEW k \in 1..Len(d[l])
  PROVE  /\ Shorter(d, l, k) \in [L -> Seq(S)]
         /\ Cardinality(Spots(Shorter(d, l, k), R))
              = Cardinality(Spots(d, R)) - (IF <<l, d[l][k]>> \in R THEN 1 ELSE 0)
<1> DEFINE e == [d EXCEPT ![l] = RemoveAt(d[l], k)]
           n == Len(d[l])
           T == Spots(d, R) \ {<<l, k>>}
           up(a) == IF a[1] = l /\ a[2] >= k THEN <<l, a[2] + 1>> ELSE a
           f == [a \in Spots(e, R) |-> up(a)]
<1>1. /\ n \in Nat /\ RemoveAt(d[l], k) \in Seq(S) /\ Len(RemoveAt(d[l], k)) = n - 1
      /\ \A j \in 1..n - 1 :
           RemoveAt(d[l], k)[j] = IF j < k THEN d[l][j] ELSE d[l][j + 1]
      /\ k \in Nat /\ 1 <= k /\ k <= n
  <2>1. d[l] \in Seq(S) /\ n \in Nat
    BY LenProperties
  <2>2. k \in Nat /\ 1 <= k /\ k <= n
    BY <2>1
  <2> QED
    BY <2>1, <2>2, RemoveAtFacts
<1>2. e \in [L -> Seq(S)]
  BY <1>1
<1>3. e[l] = RemoveAt(d[l], k) /\ \A m \in L : m # l => e[m] = d[m]
  OBVIOUS
<1> HIDE DEF e, n
<1>4. /\ IsFiniteSet(Spots(d, R)) /\ Cardinality(Spots(d, R)) \in Nat
      /\ IsFiniteSet(Spots(e, R)) /\ Cardinality(Spots(e, R)) \in Nat
  BY <1>2, SpotsFinite
<1>5. ASSUME NEW m, NEW i
      PROVE  /\ <<m, i>> \in Spots(d, R) <=>
                   m \in L /\ i \in 1..Len(d[m]) /\ <<m, d[m][i]>> \in R
             /\ <<m, i>> \in Spots(e, R) <=>
                   m \in L /\ i \in 1..Len(e[m]) /\ <<m, e[m][i]>> \in R
  BY <1>2, SpotAt
<1>6. ASSUME NEW i
      PROVE  /\ <<l, i>> \in Spots(e, R) <=>
                   i \in 1..n - 1 /\ <<l, IF i < k THEN d[l][i] ELSE d[l][i + 1]>> \in R
             /\ <<l, i>> \in Spots(d, R) <=> i \in 1..n /\ <<l, d[l][i]>> \in R
             /\ \A m : m # l => (<<m, i>> \in Spots(e, R) <=> <<m, i>> \in Spots(d, R))
  <2>1. <<l, i>> \in Spots(e, R) <=> i \in 1..n - 1 /\ <<l, e[l][i]>> \in R
    BY <1>1, <1>3, <1>5
  <2>2. <<l, i>> \in Spots(d, R) <=> i \in 1..n /\ <<l, d[l][i]>> \in R
    BY <1>5 DEF n
  <2>3. ASSUME NEW m, m # l
        PROVE  <<m, i>> \in Spots(e, R) <=> <<m, i>> \in Spots(d, R)
    BY <1>3, <1>5, <2>3
  <2> QED
    BY <1>1, <1>3, <2>1, <2>2, <2>3
<1>7. ASSUME NEW a, a \in Spots(e, R) \/ a \in Spots(d, R)
       PROVE  a[1] \in L /\ a[2] \in Nat /\ a = <<a[1], a[2]>>
  BY <1>2, <1>7, SpotsArePairs
<1>8. f \in Bijection(Spots(e, R), T)
  <2>1. ASSUME NEW a \in Spots(e, R) PROVE up(a) \in T
    <3>1. PICK m \in L, i \in Nat : a = <<m, i>>
      BY <1>7
    <3>2. CASE m = l /\ i >= k
      <4>1. i \in 1..n - 1 /\ <<l, IF i < k THEN d[l][i] ELSE d[l][i + 1]>> \in R
        BY <1>6, <3>1, <3>2
      <4>2. ~(i < k) /\ i + 1 \in 1..n /\ i + 1 # k
        BY <1>1, <3>2, <4>1
      <4>3. i + 1 \in 1..n /\ <<l, d[l][i + 1]>> \in R /\ i + 1 # k
        BY <4>1, <4>2
      <4>4. up(a) = <<l, i + 1>>
        BY <3>1, <3>2
      <4>5. <<l, i + 1>> \in Spots(d, R)
        BY <1>6, <4>3
      <4>6. <<l, i + 1>> # <<l, k>>
        BY <4>3
      <4> HIDE DEF up
      <4> QED
        BY <4>4, <4>5, <4>6
    <3>3. CASE m = l /\ ~(i >= k)
      <4>1. i \in 1..n - 1 /\ <<l, IF i < k THEN d[l][i] ELSE d[l][i + 1]>> \in R
        BY <1>6, <3>1, <3>3
      <4>2. i < k /\ i \in 1..n /\ i # k
        BY <1>1, <3>3, <4>1
      <4>3. i \in 1..n /\ <<l, d[l][i]>> \in R /\ i # k
        BY <4>1, <4>2
      <4>4. up(a) = <<l, i>>
        BY <3>1, <3>3
      <4>5. <<l, i>> \in Spots(d, R)
        BY <1>6, <4>3
      <4>6. <<l, i>> # <<l, k>>
        BY <4>3
      <4> HIDE DEF up
      <4> QED
        BY <4>4, <4>5, <4>6
    <3>4. CASE m # l
      BY <1>6, <3>1, <3>4
    <3> QED
      BY <3>2, <3>3, <3>4
  <2>2. ASSUME NEW b \in T PROVE \E a \in Spots(e, R) : up(a) = b
    <3>1. PICK m \in L, i \in Nat : b = <<m, i>>
      BY <1>7
    <3>2. CASE m = l /\ i > k
      <4>1. i \in 1..n /\ <<l, d[l][i]>> \in R
        BY <1>6, <3>1, <3>2
      <4>2. /\ i - 1 \in 1..n - 1 /\ ~(i - 1 < k) /\ (i - 1) + 1 = i /\ i - 1 >= k
            /\ <<l, d[l][i]>> \in R
        BY <1>1, <3>2, <4>1
      <4>3. <<l, i - 1>> \in Spots(e, R)
        BY <1>6, <4>2
      <4>4. up(<<l, i - 1>>) = b
        BY <3>1, <3>2, <4>2
      <4> QED
        BY <4>3, <4>4
    <3>3. CASE m = l /\ ~(i > k)
      <4>1. i \in 1..n /\ <<l, d[l][i]>> \in R /\ i # k
        BY <1>6, <3>1, <3>3
      <4>2. i < k /\ i \in 1..n - 1 /\ <<l, d[l][i]>> \in R
        BY <1>1, <3>3, <4>1
      <4>3. <<l, i>> \in Spots(e, R) /\ up(<<l, i>>) = b
        BY <1>1, <1>6, <3>1, <3>3, <4>2
      <4> QED
        BY <4>3
    <3>4. CASE m # l
      <4>1. b \in Spots(e, R) /\ up(b) = b
        BY <1>6, <3>1, <3>4
      <4> QED
        BY <4>1
    <3> QED
      BY <3>2, <3>3, <3>4
  <2>3. ASSUME NEW a \in Spots(e, R), NEW b \in Spots(e, R), up(a) = up(b)
        PROVE  a = b
    <3>1. PICK m \in L, i \in Nat : a = <<m, i>>
      BY <1>7
    <3>2. PICK o \in L, j \in Nat : b = <<o, j>>
      BY <1>7
    <3>3. /\ up(a) = IF m = l /\ i >= k THEN <<l, i + 1>> ELSE <<m, i>>
          /\ up(b) = IF o = l /\ j >= k THEN <<l, j + 1>> ELSE <<o, j>>
      BY <3>1, <3>2
    <3>4. m = o
      BY <2>3, <3>3
    <3>5. i = j
      BY <1>1, <2>3, <3>3, <3>4
    <3> QED
      BY <3>1, <3>2, <3>4, <3>5
  <2> HIDE DEF up, T
  <2>4. f \in [Spots(e, R) -> T]
    BY <2>1
  <2>5. \A a, b \in Spots(e, R) : f[a] = f[b] => a = b
    BY <2>3
  <2>6. \A b \in T : \E a \in Spots(e, R) : f[a] = b
    BY <2>2
  <2> QED
    BY <2>4, <2>5, <2>6 DEF Bijection, Injection, Surjection, IsInjective
<1>9. Cardinality(T) = Cardinality(Spots(e, R))
  BY <1>4, <1>8, FS_Bijection DEF ExistsBijection
<1>10. Cardinality(T) = IF <<l, k>> \in Spots(d, R) THEN Cardinality(Spots(d, R)) - 1
                                                    ELSE Cardinality(Spots(d, R))
  <2> DEFINE A == Spots(d, R)
             z == <<l, k>>
  <2>1. IsFiniteSet(A)
    BY <1>4
  <2> HIDE DEF A, z
  <2>2. Cardinality(A \ {z}) = IF z \in A THEN Cardinality(A) - 1 ELSE Cardinality(A)
    BY <2>1, FS_RemoveElement, Zenon
  <2> QED
    BY <2>2 DEF A, z
<1>11. <<l, k>> \in Spots(d, R) <=> <<l, d[l][k]>> \in R
  BY <1>5
<1> HIDE DEF T, f, up
<1>12. Cardinality(Spots(e, R))
         = Cardinality(Spots(d, R)) - (IF <<l, d[l][k]>> \in R THEN 1 ELSE 0)
  BY <1>4, <1>9, <1>10, <1>11
<1> QED
  BY <1>2, <1>12 DEF e, Shorter

-----------------------------------------------------------------------------
(* The queue object, with packets from a set S whose prio and size are     *)
(* numbers.                                                                *)

Numbered(S) == \A p \in S : p.prio \in Nat /\ p.size \in Nat

Queues(S) ==
  [ pkts : Seq(S), bytes : Int, contains_pause : {FALSE},
    sq_queue : {<<>>}, sq_counts : {EmptyQueue({}).sq_counts} ]

(* The fields of a queue object.                                           *)
LEMMA QueueFields ==
  ASSUME NEW S, NEW q \in Queues(S)
  PROVE  /\ q.pkts \in Seq(S) /\ q.bytes \in Int /\ q.contains_pause = FALSE
         /\ Len(q.pkts) \in Nat /\ DOMAIN q.pkts = 1..Len(q.pkts)
         /\ \A i \in 1..Len(q.pkts) : q.pkts[i] \in S
<1>1. q.pkts \in Seq(S) /\ q.bytes \in Int /\ q.contains_pause = FALSE
  BY DEF Queues
<1> QED
  BY <1>1, LenProperties, ElementOfSeq

LEMMA EmptyIsQueue ==
  ASSUME NEW S
  PROVE  EmptyQueue({}) \in Queues(S) /\ EmptyQueue({}).pkts = <<>>
<1>1. <<>> \in Seq(S)
  BY EmptySeq
<1> QED
  BY <1>1 DEF EmptyQueue, Queues

(* PacketQueue::enque and PacketQueue::remove.                             *)
LEMMA PushFacts ==
  ASSUME NEW S, Numbered(S), NEW q \in Queues(S), NEW p \in S
  PROVE  Push(q, p) \in Queues(S) /\ Push(q, p).pkts = Append(q.pkts, p)
<1>1. q.pkts \in Seq(S) /\ q.bytes \in Int /\ p.size \in Nat
  BY QueueFields DEF Numbered
<1>2. Append(q.pkts, p) \in Seq(S) /\ q.bytes + p.size \in Int
  BY <1>1, AppendProperties
<1> QED
  BY <1>2 DEF Push, Queues

LEMMA TakeFacts ==
  ASSUME NEW S, Numbered(S), NEW q \in Queues(S), NEW i \in 1..Len(q.pkts)
  PROVE  Take(q, i) \in Queues(S) /\ Take(q, i).pkts = RemoveAt(q.pkts, i)
<1>1. q.pkts \in Seq(S) /\ q.bytes \in Int /\ q.pkts[i].size \in Nat
  BY QueueFields DEF Numbered
<1>2. RemoveAt(q.pkts, i) \in Seq(S) /\ q.bytes - q.pkts[i].size \in Int
  BY <1>1, RemoveAtFacts
<1> QED
  BY <1>2 DEF Take, Queues

(* drop_prio_ finds a packet.                                              *)
LEMMA WorstPrioFacts ==
  ASSUME NEW S, Numbered(S), NEW q \in Queues(S), q.pkts # <<>>
  PROVE  WorstPrio(QConf, q) \in 1..Len(q.pkts)
<1> DEFINE n == Len(q.pkts)
           C == { i \in DOMAIN q.pkts :
                    ~QConf.qib \/ q.bytes - q.pkts[i].size < LimitBytes(QConf) }
           key == [i \in C |-> q.pkts[i].prio]
<1>1. n \in Nat \ {0} /\ DOMAIN q.pkts = 1..n
  BY QueueFields, EmptySeq
<1>2. CASE C = {}
  BY <1>1, <1>2 DEF WorstPrio
<1>3. CASE C # {}
  <2>1. C \subseteq 0..n
    BY <1>1
  <2>2. key \in [C -> Nat]
    BY QueueFields DEF Numbered
  <2>3. \A i \in C : key[i] = q.pkts[i].prio
    OBVIOUS
  <2> HIDE DEF key
  <2>4. \E i \in C : \A j \in C : key[i] > key[j] \/ (key[i] = key[j] /\ i >= j)
    <3>1. n \in Nat
      BY <1>1
    <3> HIDE DEF C, n
    <3> QED
      BY <1>3, <2>1, <2>2, <3>1, KeyOrder
  <2>5. \E i \in C : \A j \in C :
          \/ q.pkts[i].prio > q.pkts[j].prio
          \/ (q.pkts[i].prio = q.pkts[j].prio /\ i >= j)
    BY <2>3, <2>4
  <2>6. WorstPrio(QConf, q) \in C
    BY <1>3, <2>5 DEF WorstPrio
  <2> QED
    BY <1>1, <2>6
<1> QED
  BY <1>2, <1>3

LEMMA VictimFacts ==
  ASSUME NEW S, Numbered(S), NEW q \in Queues(S), q.pkts # <<>>
  PROVE  Victim(QConf, q) \in 1..Len(q.pkts)
<1>1. Len(q.pkts) \in Nat \ {0}
  BY QueueFields, EmptySeq
<1>2. QConf.drop \in {"front", "prio", "tail"}
  BY PfcNetworkAssumption
<1>3. CASE QConf.drop = "front"
  BY <1>1, <1>3 DEF Victim
<1>4. CASE QConf.drop = "prio"
  BY <1>4, WorstPrioFacts DEF Victim
<1>5. CASE QConf.drop = "tail"
  BY <1>1, <1>5 DEF Victim
<1> QED
  BY <1>2, <1>3, <1>4, <1>5

(* deque_prio_ finds a packet...                                           *)
LEMMA MostUrgentFacts ==
  ASSUME NEW S, Numbered(S), NEW q \in Queues(S), q.pkts # <<>>
  PROVE  MostUrgent(q) \in DOMAIN q.pkts
<1> DEFINE n == Len(q.pkts)
           D == DOMAIN q.pkts
           key == [i \in D |-> q.pkts[i].prio]
<1>1. n \in Nat \ {0} /\ DOMAIN q.pkts = 1..n
  BY QueueFields, EmptySeq
<1>2. D \subseteq 0..n /\ D # {}
  <2>1. 1 \in 1..n /\ 1..n \subseteq 0..n
    BY <1>1
  <2> QED
    BY <1>1, <2>1
<1>3. key \in [D -> Nat]
  BY QueueFields DEF Numbered
<1>4. \A i \in D : key[i] = q.pkts[i].prio
  OBVIOUS
<1> HIDE DEF key
<1>5. \E i \in D : \A j \in D : key[i] < key[j] \/ (key[i] = key[j] /\ i <= j)
  <2>1. n \in Nat
    BY <1>1
  <2> HIDE DEF D, n
  <2> QED
    BY <1>2, <1>3, <2>1, KeyOrder
<1>6. \E i \in D : \A j \in D :
        \/ q.pkts[i].prio < q.pkts[j].prio
        \/ (q.pkts[i].prio = q.pkts[j].prio /\ i <= j)
  BY <1>4, <1>5
<1> QED
  BY <1>6 DEF MostUrgent

(* ... and so does keep_order_.                                            *)
LEMMA FirstOfFlowFacts ==
  ASSUME NEW S, NEW q \in Queues(S), NEW k \in DOMAIN q.pkts
  PROVE  FirstOfFlow(q, q.pkts[k].flow) \in DOMAIN q.pkts
<1> DEFINE f == q.pkts[k].flow
           C == { i \in DOMAIN q.pkts : q.pkts[i].flow = f }
<1>1. DOMAIN q.pkts \subseteq Nat
  BY QueueFields
<1>2. C \subseteq Nat /\ C # {}
  BY <1>1
<1>3. \E i \in C : \A j \in C : i <= j
  <2> HIDE DEF C
  <2> QED
    BY <1>2, LeastNat
<1>4. \E i \in DOMAIN q.pkts :
        /\ q.pkts[i].flow = f
        /\ \A j \in DOMAIN q.pkts : q.pkts[j].flow = f => i <= j
  BY <1>3
<1> QED
  BY <1>4 DEF FirstOfFlow

LEMMA DequeIndexFacts ==
  ASSUME NEW S, Numbered(S), NEW q \in Queues(S), q.pkts # <<>>
  PROVE  DequeIndex(QConf, q) \in 1..Len(q.pkts)
<1>1. Len(q.pkts) \in Nat \ {0} /\ DOMAIN q.pkts = 1..Len(q.pkts)
  BY QueueFields, EmptySeq
<1>2. ~PauseFirst(QConf, q)
  BY PfcNetworkAssumption DEF PauseFirst
<1>3. MostUrgent(q) \in DOMAIN q.pkts
  BY MostUrgentFacts
<1>4. FirstOfFlow(q, q.pkts[MostUrgent(q)].flow) \in DOMAIN q.pkts
  BY <1>3, FirstOfFlowFacts
<1>5. CASE QConf.deque_prio /\ QConf.keep_order
  BY <1>1, <1>2, <1>4, <1>5 DEF DequeIndex
<1>6. CASE QConf.deque_prio /\ ~QConf.keep_order
  BY <1>1, <1>2, <1>3, <1>6 DEF DequeIndex
<1>7. CASE ~QConf.deque_prio
  <2>1. DequeIndex(QConf, q) = 1
    BY <1>2, <1>7 DEF DequeIndex
  <2> QED
    BY <1>1, <2>1
<1> QED
  BY <1>5, <1>6, <1>7

(* DropTail::enque appends the packet, and drops one or none.              *)
Fits(e, over) ==
  \/ e.dropped = <<>> /\ e.dq.pkts = over
  \/ \E v \in 1..Len(over) :
       e.dropped = <<over[v]>> /\ e.dq.pkts = RemoveAt(over, v)

LEMMA EnqueFacts ==
  ASSUME NEW S, Numbered(S), NEW q \in Queues(S), NEW p \in S
  PROVE  /\ Enque(QConf, q, p).dq \in Queues(S)
         /\ Fits(Enque(QConf, q, p), Append(q.pkts, p))
<1> DEFINE e == Enque(QConf, q, p)
           over == Push(q, p)
           v == Victim(QConf, over)
<1>1. over \in Queues(S) /\ over.pkts = Append(q.pkts, p)
  BY PushFacts
<1>2. QConf.pause_enabled = FALSE
  BY PfcNetworkAssumption
<1>3. CASE ~WouldOverflow(QConf, q, p)
  <2>1. e = [dq |-> over, dropped |-> <<>>]
    BY <1>2, <1>3 DEF Enque
  <2> QED
    BY <1>1, <2>1 DEF Fits
<1>4. CASE WouldOverflow(QConf, q, p)
  <2>1. e = [dq |-> Take(over, v), dropped |-> <<over.pkts[v]>>]
    BY <1>2, <1>4 DEF Enque
  <2>2. over.pkts # <<>>
    <3>1. q.pkts \in Seq(S) /\ Len(q.pkts) \in Nat
      BY QueueFields
    <3>2. Len(Append(q.pkts, p)) = Len(q.pkts) + 1 /\ Len(<<>>) = 0
      BY <3>1, AppendProperties, EmptySeq
    <3> QED
      BY <1>1, <3>1, <3>2
  <2>3. v \in 1..Len(over.pkts)
    BY <1>1, <2>2, VictimFacts
  <2>4. Take(over, v) \in Queues(S) /\ Take(over, v).pkts = RemoveAt(over.pkts, v)
    BY <1>1, <2>3, TakeFacts
  <2> HIDE DEF over, v
  <2>5. /\ e.dq \in Queues(S) /\ e.dropped = <<over.pkts[v]>>
        /\ e.dq.pkts = RemoveAt(over.pkts, v)
    BY <2>1, <2>4
  <2> QED
    BY <1>1, <2>3, <2>5 DEF Fits
<1> QED
  BY <1>3, <1>4

(* DropTail::deque takes one packet from a nonempty queue.                 *)
LEMMA DequeFacts ==
  ASSUME NEW S, Numbered(S), NEW q \in Queues(S), q.pkts # <<>>
  PROVE  LET d == Deque(QConf, q)
         IN  /\ d.dq \in Queues(S)
             /\ \E i \in 1..Len(q.pkts) :
                  d.p = q.pkts[i] /\ d.dq.pkts = RemoveAt(q.pkts, i)
<1> DEFINE i == DequeIndex(QConf, q)
<1>1. i \in 1..Len(q.pkts)
  BY DequeIndexFacts
<1>2. ~PauseFirst(QConf, q) /\ QConf.drop # "smart"
  BY PfcNetworkAssumption DEF PauseFirst
<1>3. Deque(QConf, q) = [p |-> q.pkts[i], dq |-> Take(q, i)]
  BY <1>2 DEF Deque
<1>4. Take(q, i) \in Queues(S) /\ Take(q, i).pkts = RemoveAt(q.pkts, i)
  BY <1>1, TakeFacts
<1> HIDE DEF i
<1> QED
  BY <1>1, <1>3, <1>4

-----------------------------------------------------------------------------
(* The network.                                                            *)

(* Links join two nodes, both ways.                                        *)
LEMMA LinkFacts ==
  /\ \A l \in Links : /\ l[1] \in Nodes /\ l[2] \in Nodes /\ l = <<l[1], l[2]>>
                      /\ Back(l) \in Links /\ NoPort # l[1] /\ NoPort # l[2]
  /\ \A f \in Flows : Hops(f) \subseteq Links
  /\ DOMAIN Thr \subseteq Links
<1>1. ASSUME NEW f \in Flows, NEW l \in Hops(f)
      PROVE  l[1] \in Nodes /\ l[2] \in Nodes /\ l = <<l[1], l[2]>>
  <2>1. PICK i \in 1..Len(Route[f]) - 1 : l = <<Route[f][i], Route[f][i + 1]>>
    BY DEF Hops
  <2>2. Route[f] \in Seq(Nodes)
    BY PfcNetworkAssumption
  <2>3. Len(Route[f]) \in Nat
    BY <2>2, LenProperties
  <2>4. i \in 1..Len(Route[f]) /\ i + 1 \in 1..Len(Route[f])
    BY <2>3
  <2>5. Route[f][i] \in Nodes /\ Route[f][i + 1] \in Nodes
    BY <2>2, <2>4, ElementOfSeq
  <2> QED
    BY <2>1, <2>5
<1>2. \A l \in Forward : l[1] \in Nodes /\ l[2] \in Nodes /\ l = <<l[1], l[2]>>
  BY <1>1 DEF Forward
<1>3. ASSUME NEW l \in Links
      PROVE  l[1] \in Nodes /\ l[2] \in Nodes /\ l = <<l[1], l[2]>> /\ Back(l) \in Links
  <2>1. CASE l \in Forward
    BY <1>2, <2>1 DEF Links, Back
  <2>2. CASE l \notin Forward
    <3>1. PICK m \in Forward : l = <<m[2], m[1]>>
      BY <2>2 DEF Links
    <3>2. Back(l) = m
      BY <1>2, <3>1 DEF Back
    <3> QED
      BY <1>2, <3>1, <3>2 DEF Links
  <2> QED
    BY <2>1, <2>2
<1>4. NoPort \notin Nodes /\ DOMAIN Thr \subseteq Links
  BY PfcNetworkAssumption
<1>5. \A f \in Flows : Hops(f) \subseteq Links
  BY DEF Forward, Links
<1> QED
  BY <1>3, <1>4, <1>5

LEMMA LinksFinite == IsFiniteSet(Links)
<1>1. ASSUME NEW f \in Flows PROVE IsFiniteSet(Hops(f))
  <2> DEFINE I == 1..Len(Route[f]) - 1
             h == [i \in I |-> <<Route[f][i], Route[f][i + 1]>>]
  <2>1. Len(Route[f]) \in Nat
    BY PfcNetworkAssumption, LenProperties
  <2>2. IsFiniteSet(I)
    BY <2>1, FS_Interval
  <2>3. h \in [I -> Hops(f)] /\ \A l \in Hops(f) : \E i \in I : h[i] = l
    BY DEF Hops
  <2> HIDE DEF I, h
  <2> QED
    BY <2>2, <2>3, FS_Surjection DEF Surjection
<1>2. IsFiniteSet(Forward)
  <2> DEFINE T == { Hops(f) : f \in Flows }
             h == [f \in Flows |-> Hops(f)]
  <2>1. IsFiniteSet(Flows)
    BY PfcNetworkAssumption
  <2>2. h \in [Flows -> T] /\ \A t \in T : \E f \in Flows : h[f] = t
    OBVIOUS
  <2>3. \A t \in T : IsFiniteSet(t)
    BY <1>1
  <2>4. Forward = UNION T
    BY DEF Forward
  <2> HIDE DEF T, h
  <2>5. IsFiniteSet(T)
    BY <2>1, <2>2, FS_Surjection DEF Surjection
  <2> QED
    BY <2>3, <2>4, <2>5, FS_UNION
<1> DEFINE B == { <<l[2], l[1]>> : l \in Forward }
           h == [l \in Forward |-> <<l[2], l[1]>>]
<1>3. h \in [Forward -> B] /\ \A b \in B : \E l \in Forward : h[l] = b
  OBVIOUS
<1>4. Links = Forward \cup B
  BY DEF Links
<1> HIDE DEF B, h
<1>5. IsFiniteSet(B)
  BY <1>2, <1>3, FS_Surjection DEF Surjection
<1> QED
  BY <1>2, <1>4, <1>5, FS_Union

(* Where a flow does not end it goes on.                                   *)
LEMMA OutLinkFacts ==
  ASSUME NEW f \in Flows
  PROVE  /\ OutLink(f, Route[f][1]) \in Hops(f) /\ Route[f][1] # Sink(f)
         /\ OutLink(f, Route[f][1])[1] = Route[f][1]
         /\ \A l \in Hops(f) :
              l[2] # Sink(f) => OutLink(f, l[2]) \in Hops(f) /\ OutLink(f, l[2])[1] = l[2]
<1>1. /\ Len(Route[f]) \in Nat /\ Len(Route[f]) >= 2
      /\ DOMAIN Route[f] = 1..Len(Route[f])
      /\ \A i, j \in 1..Len(Route[f]) : i # j => Route[f][i] # Route[f][j]
  <2>1. Route[f] \in Seq(Nodes)
    BY PfcNetworkAssumption
  <2>2. Len(Route[f]) \in Nat /\ DOMAIN Route[f] = 1..Len(Route[f])
    BY <2>1, LenProperties
  <2> QED
    BY <2>2, PfcNetworkAssumption
<1>2. ASSUME NEW i \in 1..Len(Route[f]) - 1
      PROVE  /\ OutLink(f, Route[f][i]) \in Hops(f)
             /\ OutLink(f, Route[f][i])[1] = Route[f][i]
  <2> DEFINE l == <<Route[f][i], Route[f][i + 1]>>
  <2>1. l \in Hops(f) /\ l[1] = Route[f][i]
    BY DEF Hops
  <2> HIDE DEF l
  <2> QED
    BY <2>1 DEF OutLink
<1>3. 1 \in 1..Len(Route[f]) - 1 /\ 1 # Len(Route[f]) /\ 1 \in 1..Len(Route[f])
      /\ Len(Route[f]) \in 1..Len(Route[f])
  BY <1>1
<1>4. ASSUME NEW l \in Hops(f), l[2] # Sink(f)
      PROVE  OutLink(f, l[2]) \in Hops(f) /\ OutLink(f, l[2])[1] = l[2]
  <2>1. PICK i \in 1..Len(Route[f]) - 1 : l = <<Route[f][i], Route[f][i + 1]>>
    BY DEF Hops
  <2>2. i + 1 # Len(Route[f])
    BY <1>4, <2>1 DEF Sink
  <2>3. i + 1 \in 1..Len(Route[f]) - 1
    BY <1>1, <2>2
  <2> QED
    BY <1>2, <2>1, <2>3
<1> QED
  BY <1>1, <1>2, <1>3, <1>4 DEF Sink

-----------------------------------------------------------------------------
(* What is where: control frames in a queue have no input port, a packet   *)
(* on a wire has that of the link, and data stay on their route.           *)

Ins == Nodes \cup {NoPort}

ControlFrames(I) ==
  [ kind : {"PAUSE", "RESUME"}, flow : Links, prio : Nat, size : Nat,
    in : I, seq : {0} ]

DataPackets(I) ==
  [ kind : {"DATA"}, flow : Flows, prio : Nat, size : Nat,
    in : I, seq : 0..MaxSend ]

Packets == ControlFrames(Ins) \cup DataPackets(Ins)

PacketsOf(l) ==
  ControlFrames({NoPort}) \cup { p \in DataPackets(Ins) : l \in Hops(p.flow) }

Stamped(l) ==
  ControlFrames({l[1]}) \cup { p \in DataPackets({l[1]}) : l \in Hops(p.flow) }

Wires(l) == Seq([p : Stamped(l), cut : BOOLEAN])

LinkStates(l) ==
  [ dq : Queues(PacketsOf(l)), blocked : BOOLEAN, intr : BOOLEAN, wire : Wires(l) ]

PortStates == [cnt : Nat, paused : BOOLEAN, lost : Nat]

Snapshots ==
  { s \in [ link : [Links -> UNION { LinkStates(l) : l \in Links }],
            port : [Links -> PortStates], abort : BOOLEAN ] :
      \A l \in Links : s.link[l] \in LinkStates(l) }

(* Control frames and data are told apart by their kind.                   *)
LEMMA PacketFacts ==
  ASSUME NEW l \in Links
  PROVE  /\ Numbered(PacketsOf(l)) /\ PacketsOf(l) \subseteq Packets
         /\ \A p \in PacketsOf(l) \cup Stamped(l) :
              IF IsControl(p)
              THEN p.kind \in {"PAUSE", "RESUME"} /\ p.flow \in Links
              ELSE /\ p.kind = "DATA" /\ p.flow \in Flows /\ l \in Hops(p.flow)
                   /\ p.seq \in 0..MaxSend
         /\ \A p \in PacketsOf(l) : IsControl(p) => p.in = NoPort
         /\ \A p \in PacketsOf(l) : [p EXCEPT !.in = l[1]] \in Stamped(l)
         /\ \A p \in Stamped(l) : p.in = l[1]
<1>1. l[1] \in Ins
  BY LinkFacts DEF Ins
<1>2. Numbered(PacketsOf(l)) /\ PacketsOf(l) \subseteq Packets
  BY DEF Numbered, PacketsOf, Packets, ControlFrames, DataPackets, Ins
<1>3. ASSUME NEW p \in PacketsOf(l) \cup Stamped(l)
      PROVE  IF IsControl(p)
             THEN p.kind \in {"PAUSE", "RESUME"} /\ p.flow \in Links
             ELSE /\ p.kind = "DATA" /\ p.flow \in Flows /\ l \in Hops(p.flow)
                  /\ p.seq \in 0..MaxSend
  BY DEF PacketsOf, Stamped, ControlFrames, DataPackets, IsControl
<1>4. ASSUME NEW p \in PacketsOf(l)
      PROVE  /\ IsControl(p) => p.in = NoPort
             /\ [p EXCEPT !.in = l[1]] \in Stamped(l)
  <2>1. CASE p \in ControlFrames({NoPort})
    <3>1. p.in = NoPort /\ [p EXCEPT !.in = l[1]] \in ControlFrames({l[1]})
      BY <2>1 DEF ControlFrames
    <3> QED
      BY <3>1 DEF Stamped
  <2>2. CASE p \in DataPackets(Ins) /\ l \in Hops(p.flow)
    <3> DEFINE r == [p EXCEPT !.in = l[1]]
    <3>1. r \in DataPackets({l[1]}) /\ r.flow = p.flow /\ ~IsControl(p)
      BY <2>2 DEF DataPackets, IsControl
    <3> QED
      BY <2>2, <3>1 DEF Stamped
  <2> QED
    BY <2>1, <2>2 DEF PacketsOf
<1>5. \A p \in Stamped(l) : p.in = l[1]
  BY DEF Stamped, ControlFrames, DataPackets
<1> QED
  BY <1>2, <1>3, <1>4, <1>5

(* Data from a wire fit into the queue of the next link of their flow.     *)
LEMMA ForwardFacts ==
  ASSUME NEW l \in Links, NEW p \in Stamped(l), p.kind = "DATA",
         l[2] # Sink(p.flow)
  PROVE  LET m == OutLink(p.flow, l[2])
         IN  m \in Links /\ m[1] = l[2] /\ p \in PacketsOf(m) /\ p.in = l[1]
<1>1. p \in DataPackets({l[1]}) /\ l \in Hops(p.flow)
  BY DEF Stamped, ControlFrames
<1>2. p.flow \in Flows /\ p.in = l[1] /\ p \in DataPackets(Ins)
  BY <1>1, LinkFacts DEF DataPackets, Ins
<1>3. /\ OutLink(p.flow, l[2]) \in Hops(p.flow)
      /\ OutLink(p.flow, l[2])[1] = l[2]
  BY <1>1, <1>2, OutLinkFacts
<1> QED
  BY <1>2, <1>3, LinkFacts DEF PacketsOf

(* Frames and packets when they are made.                                  *)
LEMMA NewPacketFacts ==
  /\ \A l \in Links : \A k \in {"PAUSE", "RESUME"} :
       ControlFrame(k, l) \in PacketsOf(l) /\ ControlFrame(k, l).in = NoPort
  /\ \A f \in Flows : \A n \in 0..MaxSend : \A l \in Hops(f) :
       DataPacket(f, n) \in PacketsOf(l)
<1>1. CtlPrio \in Nat /\ CtlSize \in Nat
  BY PfcNetworkAssumption
<1>2. \A f \in Flows : Prio[f] \in Nat /\ Size[f] \in Nat
  BY PfcNetworkAssumption
<1>3. \A l \in Links : \A k \in {"PAUSE", "RESUME"} :
        ControlFrame(k, l) \in ControlFrames({NoPort}) /\ ControlFrame(k, l).in = NoPort
  BY <1>1 DEF ControlFrame, ControlFrames
<1>4. ASSUME NEW f \in Flows, NEW n \in 0..MaxSend, NEW l \in Hops(f)
      PROVE  DataPacket(f, n) \in PacketsOf(l)
  <2>1. DataPacket(f, n) \in DataPackets(Ins) /\ DataPacket(f, n).flow = f
    BY <1>2 DEF DataPacket, DataPackets, Ins
  <2> QED
    BY <2>1 DEF PacketsOf
<1> QED
  BY <1>3, <1>4 DEF PacketsOf

(* A sequence over a set is one over a larger set.                         *)
LEMMA SeqGrows ==
  ASSUME NEW S, NEW T, S \subseteq T, NEW s \in Seq(S)
  PROVE  s \in Seq(T)
<1>1. s \in [1..Len(s) -> S] /\ Len(s) \in Nat
  BY LenProperties
<1>2. s \in [1..Len(s) -> T]
  BY <1>1
<1> QED
  BY <1>1, <1>2, IsASeq

(* The fields of a snapshot, and what changing one of them leaves.         *)
LEMMA SnapshotFields ==
  ASSUME NEW s \in Snapshots
  PROVE  /\ s = [link |-> s.link, port |-> s.port, abort |-> s.abort]
         /\ DOMAIN s.link = Links /\ s.port \in [Links -> PortStates] /\ s.abort \in BOOLEAN
         /\ s.link \in [Links -> UNION { LinkStates(l) : l \in Links }]
         /\ \A l \in Links : /\ s.link[l] \in LinkStates(l)
                             /\ s.link[l].dq \in Queues(PacketsOf(l))
                             /\ s.link[l].dq.pkts \in Seq(PacketsOf(l))
                             /\ s.link[l].dq.pkts \in Seq(Packets)
                             /\ s.link[l].blocked \in BOOLEAN
                             /\ s.link[l].intr \in BOOLEAN
                             /\ s.link[l].wire \in Wires(l)
<1>1. /\ s \in [ link : [Links -> UNION { LinkStates(l) : l \in Links }],
                 port : [Links -> PortStates], abort : BOOLEAN ]
      /\ \A l \in Links : s.link[l] \in LinkStates(l)
  BY DEF Snapshots
<1>2. ASSUME NEW l \in Links
      PROVE  /\ s.link[l].dq \in Queues(PacketsOf(l))
             /\ s.link[l].blocked \in BOOLEAN /\ s.link[l].intr \in BOOLEAN
             /\ s.link[l].wire \in Wires(l)
  BY <1>1 DEF LinkStates
<1>3. ASSUME NEW l \in Links
      PROVE  s.link[l].dq.pkts \in Seq(PacketsOf(l)) /\ s.link[l].dq.pkts \in Seq(Packets)
  <2>1. s.link[l].dq.pkts \in Seq(PacketsOf(l))
    BY <1>2, QueueFields
  <2> QED
    BY <2>1, PacketFacts, SeqGrows
<1> QED
  BY <1>1, <1>2, <1>3

LEMMA SnapshotIntro ==
  ASSUME NEW link1, NEW port1, NEW abort1,
         DOMAIN link1 = Links, link1 = [l \in Links |-> link1[l]],
         \A l \in Links : link1[l] \in LinkStates(l),
         port1 \in [Links -> PortStates], abort1 \in BOOLEAN
  PROVE  [link |-> link1, port |-> port1, abort |-> abort1] \in Snapshots
<1>1. link1 \in [Links -> UNION { LinkStates(l) : l \in Links }]
  OBVIOUS
<1> QED
  BY <1>1 DEF Snapshots

(* One link changes, but for its queue.                                    *)
SetBlocked(s, l, b) == [s EXCEPT !.link[l].blocked = b]
SetIntr(s, l, b) == [s EXCEPT !.link[l].intr = b]
SetWire(s, l, w) == [s EXCEPT !.link[l].wire = w]
SetAbort(s, b) == [s EXCEPT !.abort = b]

SameQueues(s, t) ==
  t.port = s.port /\ \A m \in Links : t.link[m].dq = s.link[m].dq

LEMMA LinkIntro ==
  ASSUME NEW s \in Snapshots, NEW l \in Links, NEW x \in LinkStates(l),
         x.dq = s.link[l].dq, NEW t,
         t = [link |-> [s.link EXCEPT ![l] = x], port |-> s.port, abort |-> s.abort]
  PROVE  t \in Snapshots /\ SameQueues(s, t)
<1> DEFINE k == [s.link EXCEPT ![l] = x]
<1>1. /\ DOMAIN s.link = Links /\ s.port \in [Links -> PortStates]
      /\ s.link = [m \in Links |-> s.link[m]]
      /\ \A m \in Links : s.link[m] \in LinkStates(m)
      /\ s.abort \in BOOLEAN
  BY SnapshotFields
<1>2. /\ DOMAIN k = Links /\ k = [m \in Links |-> k[m]]
      /\ k[l] = x /\ \A m \in Links : m # l => k[m] = s.link[m]
  BY <1>1
<1> HIDE DEF k
<1>3. \A m \in Links : k[m] \in LinkStates(m) /\ k[m].dq = s.link[m].dq
  BY <1>1, <1>2
<1>4. [link |-> k, port |-> s.port, abort |-> s.abort] \in Snapshots
  BY <1>1, <1>2, <1>3, SnapshotIntro
<1>5. t = [link |-> k, port |-> s.port, abort |-> s.abort]
  BY DEF k
<1> QED
  BY <1>3, <1>4, <1>5 DEF SameQueues

LEMMA SetFacts ==
  ASSUME NEW s \in Snapshots, NEW l \in Links, NEW b \in BOOLEAN, NEW w \in Wires(l)
  PROVE  /\ SetBlocked(s, l, b) \in Snapshots /\ SameQueues(s, SetBlocked(s, l, b))
         /\ SetIntr(s, l, b) \in Snapshots /\ SameQueues(s, SetIntr(s, l, b))
         /\ SetWire(s, l, w) \in Snapshots /\ SameQueues(s, SetWire(s, l, w))
         /\ SetAbort(s, b) \in Snapshots /\ SameQueues(s, SetAbort(s, b))
<1> DEFINE o == s.link[l]
           x == [o EXCEPT !.blocked = b]
           y == [o EXCEPT !.intr = b]
           z == [o EXCEPT !.wire = w]
<1>1. s = [link |-> s.link, port |-> s.port, abort |-> s.abort]
  BY SnapshotFields
<1>2. o \in LinkStates(l)
  BY SnapshotFields
<1>3. /\ x \in LinkStates(l) /\ x.dq = o.dq
      /\ y \in LinkStates(l) /\ y.dq = o.dq
      /\ z \in LinkStates(l) /\ z.dq = o.dq
  <2> HIDE DEF o
  <2> QED
    BY <1>2 DEF LinkStates
<1>4. /\ SetBlocked(s, l, b) = [link |-> [s.link EXCEPT ![l] = x], port |-> s.port,
                                abort |-> s.abort]
      /\ SetIntr(s, l, b) = [link |-> [s.link EXCEPT ![l] = y], port |-> s.port,
                             abort |-> s.abort]
      /\ SetWire(s, l, w) = [link |-> [s.link EXCEPT ![l] = z], port |-> s.port,
                             abort |-> s.abort]
  <2>1. /\ SetBlocked(s, l, b) = [link |-> [s.link EXCEPT ![l].blocked = b],
                                  port |-> s.port, abort |-> s.abort]
        /\ SetIntr(s, l, b) = [link |-> [s.link EXCEPT ![l].intr = b],
                               port |-> s.port, abort |-> s.abort]
        /\ SetWire(s, l, w) = [link |-> [s.link EXCEPT ![l].wire = w],
                               port |-> s.port, abort |-> s.abort]
    BY <1>1 DEF SetBlocked, SetIntr, SetWire
  <2>2. /\ [s.link EXCEPT ![l].blocked = b] = [s.link EXCEPT ![l] = x]
        /\ [s.link EXCEPT ![l].intr = b] = [s.link EXCEPT ![l] = y]
        /\ [s.link EXCEPT ![l].wire = w] = [s.link EXCEPT ![l] = z]
    OBVIOUS
  <2> HIDE DEF x, y, z
  <2> QED
    BY <2>1, <2>2
<1> HIDE DEF x, y, z
<1>5. SetBlocked(s, l, b) \in Snapshots /\ SameQueues(s, SetBlocked(s, l, b))
  BY <1>3, <1>4, LinkIntro
<1>6. SetIntr(s, l, b) \in Snapshots /\ SameQueues(s, SetIntr(s, l, b))
  BY <1>3, <1>4, LinkIntro
<1>7. SetWire(s, l, w) \in Snapshots /\ SameQueues(s, SetWire(s, l, w))
  BY <1>3, <1>4, LinkIntro
<1>8. SetAbort(s, b) \in Snapshots /\ SameQueues(s, SetAbort(s, b))
  BY DEF SetAbort, Snapshots, SameQueues
<1> QED
  BY <1>5, <1>6, <1>7, <1>8

-----------------------------------------------------------------------------
(* The handlers. Each keeps the types, and the counters exact but for the  *)
(* packets that are counted and not yet queued: those of the ports H.      *)

Queued(s) == [l \in Links |-> s.link[l].dq.pkts]

From(q) == { e \in Links \X Packets : e[1][1] = q[1] /\ e[2].in = q[2] }

HeldIn(s, q) == Cardinality(Spots(Queued(s), From(q)))

Exact(s, H) ==
  \A q \in Links :
    s.port[q].cnt = HeldIn(s, q) + s.port[q].lost + (IF q \in H THEN 1 ELSE 0)

LEMMA QueuedType ==
  ASSUME NEW s \in Snapshots
  PROVE  /\ Queued(s) \in [Links -> Seq(Packets)]
         /\ \A l \in Links : Queued(s)[l] = s.link[l].dq.pkts
         /\ \A q \in Links : HeldIn(s, q) \in Nat
<1>1. Queued(s) \in [Links -> Seq(Packets)]
  BY SnapshotFields DEF Queued
<1>2. \A q \in Links : HeldIn(s, q) \in Nat
  BY <1>1, LinksFinite, SpotsFinite DEF HeldIn
<1> QED
  BY <1>1, <1>2 DEF Queued

(* Which ports a packet in a queue is counted at: that of its input.       *)
LEMMA FromFacts ==
  ASSUME NEW l \in Links, NEW p \in Packets, NEW q \in Links
  PROVE  <<l, p>> \in From(q) <=> q = <<l[1], p.in>>
<1>1. q = <<q[1], q[2]>>
  BY LinkFacts
<1>2. <<l, p>> \in From(q) <=> l[1] = q[1] /\ p.in = q[2]
  BY DEF From
<1> QED
  BY <1>1, <1>2

(* The counters are as exact after a handler that leaves queues, counters  *)
(* and losses alone.                                                       *)
LEMMA ExactStays ==
  ASSUME NEW s \in Snapshots, NEW t \in Snapshots, NEW H, Exact(s, H),
         \A l \in Links : t.link[l].dq.pkts = s.link[l].dq.pkts,
         \A q \in Links : t.port[q].cnt = s.port[q].cnt /\ t.port[q].lost = s.port[q].lost
  PROVE  Exact(t, H)
<1>1. Queued(t) = Queued(s)
  BY DEF Queued
<1> QED
  BY <1>1 DEF Exact, HeldIn

(* LinkDelay::recv.                                                        *)
LEMMA TransmitFacts ==
  ASSUME NEW s \in Snapshots, NEW l \in Links, NEW p \in Stamped(l)
  PROVE  Transmit(s, l, p) \in Snapshots /\ SameQueues(s, Transmit(s, l, p))
<1> DEFINE w == Append(s.link[l].wire, [p |-> p, cut |-> FALSE])
           b == s.abort \/ s.link[l].intr
           t == SetWire(s, l, w)
           u == SetIntr(t, l, TRUE)
<1>1. s.link[l].wire \in Wires(l) /\ b \in BOOLEAN
  BY SnapshotFields, Zenon
<1>2. w \in Wires(l)
  BY <1>1, AppendProperties DEF Wires
<1>3. Transmit(s, l, p) = SetAbort(u, b)
  BY DEF Transmit, SetWire, SetIntr, SetAbort
<1> HIDE DEF w, b
<1>4. t \in Snapshots /\ SameQueues(s, t)
  BY <1>2, SetFacts
<1> HIDE DEF t
<1>5. u \in Snapshots /\ SameQueues(t, u)
  BY <1>2, <1>4, SetFacts
<1> HIDE DEF u
<1>6. SetAbort(u, b) \in Snapshots /\ SameQueues(u, SetAbort(u, b))
  BY <1>1, <1>2, <1>5, SetFacts
<1> QED
  BY <1>3, <1>4, <1>5, <1>6 DEF SameQueues

(* Queue's enque: a packet already counted is queued, and what is dropped  *)
(* becomes a loss.                                                         *)
LEMMA EnqueuedFacts ==
  ASSUME NEW s \in Snapshots, NEW l \in Links, NEW p \in PacketsOf(l),
         NEW H, <<l[1], p.in>> \notin H, Exact(s, H \cup {<<l[1], p.in>>})
  PROVE  Enqueued(s, l, p) \in Snapshots /\ Exact(Enqueued(s, l, p), H)
<1> DEFINE e    == Enque(QConf, s.link[l].dq, p)
           gone == { <<l[1], e.dropped[i].in>> : i \in DOMAIN e.dropped }
           x    == [s.link[l] EXCEPT !.dq = e.dq]
           k    == [s.link EXCEPT ![l] = x]
           r    == [q \in Links |-> IF q \in gone THEN [s.port[q] EXCEPT !.lost = @ + 1]
                                                  ELSE s.port[q]]
           t    == Enqueued(s, l, p)
           over == Append(s.link[l].dq.pkts, p)
           d    == [Queued(s) EXCEPT ![l] = over]
<1>1. t = [link |-> k, port |-> r, abort |-> s.abort]
  <2> DEFINE c  == e.dq
             s1 == [s EXCEPT !.link[l].dq = c]
  <2>1. s = [link |-> s.link, port |-> s.port, abort |-> s.abort]
    BY SnapshotFields
  <2>2. t = [s1 EXCEPT !.port = r]
    BY DEF Enqueued
  <2> HIDE DEF c, gone
  <2>3. s1 = [link |-> [s.link EXCEPT ![l].dq = c], port |-> s.port, abort |-> s.abort]
    BY <2>1
  <2>4. [s.link EXCEPT ![l].dq = c] = [s.link EXCEPT ![l] = [s.link[l] EXCEPT !.dq = c]]
    OBVIOUS
  <2> HIDE DEF s1, r, t
  <2>5. t = [link |-> [s.link EXCEPT ![l].dq = c], port |-> r, abort |-> s.abort]
    BY <2>2, <2>3
  <2> QED
    BY <2>4, <2>5 DEF c
<1>2. /\ s.link[l].dq \in Queues(PacketsOf(l)) /\ s.link[l].dq.pkts \in Seq(PacketsOf(l))
      /\ s.link[l].dq.pkts \in Seq(Packets)
      /\ s.link[l] \in LinkStates(l) /\ s.abort \in BOOLEAN
      /\ DOMAIN s.link = Links /\ s.link = [m \in Links |-> s.link[m]]
      /\ \A m \in Links : s.link[m] \in LinkStates(m)
      /\ s.port \in [Links -> PortStates]
  BY SnapshotFields
<1>3. Numbered(PacketsOf(l)) /\ PacketsOf(l) \subseteq Packets
  BY PacketFacts
<1>4. e.dq \in Queues(PacketsOf(l)) /\ Fits(e, over)
  BY <1>2, <1>3, EnqueFacts
<1> HIDE DEF e
<1>5. x \in LinkStates(l) /\ x.dq = e.dq
  BY <1>2, <1>4 DEF LinkStates
<1> HIDE DEF x
<1>6. /\ DOMAIN k = Links /\ k = [m \in Links |-> k[m]]
      /\ k[l] = x /\ \A m \in Links : m # l => k[m] = s.link[m]
  BY <1>2
<1> HIDE DEF k
<1>7. \A m \in Links : k[m] \in LinkStates(m)
  BY <1>2, <1>5, <1>6
<1>8. ASSUME NEW q \in Links
      PROVE  /\ r[q] \in PortStates /\ r[q].cnt = s.port[q].cnt
             /\ r[q].lost = s.port[q].lost + (IF q \in gone THEN 1 ELSE 0)
             /\ s.port[q].lost \in Nat /\ s.port[q].cnt \in Nat
  <2> DEFINE o == s.port[q]
  <2>1. o \in PortStates /\ o.lost \in Nat /\ o.cnt \in Nat
    BY <1>2 DEF PortStates
  <2>2. r[q] = IF q \in gone THEN [o EXCEPT !.lost = o.lost + 1] ELSE o
    OBVIOUS
  <2> HIDE DEF o, gone, r
  <2>3. CASE q \in gone
    <3>1. r[q] = [o EXCEPT !.lost = o.lost + 1]
      BY <2>2, <2>3
    <3>2. r[q] \in PortStates /\ r[q].cnt = o.cnt /\ r[q].lost = o.lost + 1
      BY <2>1, <3>1 DEF PortStates
    <3> QED
      BY <2>1, <2>3, <3>2 DEF o
  <2>4. CASE q \notin gone
    <3>1. r[q] = o
      BY <2>2, <2>4
    <3> QED
      BY <2>1, <2>4, <3>1 DEF o
  <2> QED
    BY <2>3, <2>4
<1>9. t \in Snapshots
  <2>1. r \in [Links -> PortStates]
    BY <1>8
  <2> HIDE DEF r, t
  <2> QED
    BY <1>1, <1>2, <1>6, <1>7, <2>1, SnapshotIntro
<1>10. /\ Queued(t) = [Queued(s) EXCEPT ![l] = e.dq.pkts]
       /\ Queued(s) \in [Links -> Seq(Packets)] /\ Queued(s)[l] = s.link[l].dq.pkts
       /\ \A q \in Links : t.port[q].cnt = s.port[q].cnt
       /\ \A q \in Links :
            t.port[q].lost = s.port[q].lost + (IF q \in gone THEN 1 ELSE 0)
  <2>1. t.link = k /\ t.port = r
    BY <1>1
  <2> HIDE DEF t, r, gone
  <2>2. /\ \A q \in Links : t.port[q].cnt = s.port[q].cnt
        /\ \A q \in Links :
            t.port[q].lost = s.port[q].lost + (IF q \in gone THEN 1 ELSE 0)
    BY <1>8, <2>1
  <2>3. Queued(t) = [Queued(s) EXCEPT ![l] = e.dq.pkts]
    BY <1>5, <1>6, <2>1 DEF Queued
  <2> QED
    BY <2>2, <2>3, QueuedType
<1>11. ASSUME NEW q \in Links
       PROVE  /\ d \in [Links -> Seq(Packets)]
              /\ HeldIn(s, q) \in Nat
              /\ Cardinality(Spots(d, From(q)))
                   = HeldIn(s, q) + (IF q = <<l[1], p.in>> THEN 1 ELSE 0)
  <2>1. p \in Packets
    BY <1>3
  <2>2. <<l, p>> \in From(q) <=> q = <<l[1], p.in>>
    BY <2>1, FromFacts
  <2>3. HeldIn(s, q) \in Nat
    BY QueuedType
  <2>4. /\ d \in [Links -> Seq(Packets)]
        /\ Cardinality(Spots(d, From(q)))
             = Cardinality(Spots(Queued(s), From(q))) + (IF <<l, p>> \in From(q) THEN 1 ELSE 0)
    <3> DEFINE R == From(q)
    <3>1. d = Longer(Queued(s), l, p)
      BY <1>10 DEF Longer
    <3> HIDE DEF d, R
    <3>2. Queued(s) \in [Links -> Seq(Packets)]
      BY QueuedType
    <3>3. /\ Longer(Queued(s), l, p) \in [Links -> Seq(Packets)]
          /\ Cardinality(Spots(Longer(Queued(s), l, p), R))
               = Cardinality(Spots(Queued(s), R)) + (IF <<l, p>> \in R THEN 1 ELSE 0)
      BY <2>1, <3>2, LinksFinite, SpotsAppend
    <3> QED
      BY <3>1, <3>3 DEF R
  <2> QED
    BY <2>2, <2>3, <2>4 DEF HeldIn
<1>12. ASSUME NEW q \in Links
       PROVE  s.port[q].cnt = HeldIn(s, q) + s.port[q].lost
                                + (IF q \in H THEN 1 ELSE 0)
                                + (IF q = <<l[1], p.in>> THEN 1 ELSE 0)
  <2>1. s.port[q].cnt = HeldIn(s, q) + s.port[q].lost
                          + (IF q \in H \cup {<<l[1], p.in>>} THEN 1 ELSE 0)
    BY DEF Exact
  <2>2. HeldIn(s, q) \in Nat /\ s.port[q].lost \in Nat
    BY <1>8, QueuedType
  <2> QED
    BY <2>1, <2>2
<1>13. ASSUME e.dropped = <<>>, e.dq.pkts = over
       PROVE  Exact(t, H)
  <2>1. gone = {}
    BY <1>13
  <2>2. Queued(t) = d
    BY <1>10, <1>13
  <2>3. ASSUME NEW q \in Links
        PROVE  t.port[q].cnt = HeldIn(t, q) + t.port[q].lost + (IF q \in H THEN 1 ELSE 0)
    <3>1. HeldIn(t, q) = HeldIn(s, q) + (IF q = <<l[1], p.in>> THEN 1 ELSE 0)
      BY <1>11, <2>2 DEF HeldIn
    <3>2. t.port[q].lost = s.port[q].lost /\ t.port[q].cnt = s.port[q].cnt
      BY <1>8, <1>10, <2>1
    <3> DEFINE a == IF q = <<l[1], p.in>> THEN 1 ELSE 0
               b == IF q \in H THEN 1 ELSE 0
    <3>3. s.port[q].cnt = HeldIn(s, q) + s.port[q].lost + b + a
      BY <1>12
    <3>4. a \in Nat /\ b \in Nat /\ HeldIn(t, q) = HeldIn(s, q) + a
      BY <3>1
    <3>5. HeldIn(s, q) \in Nat /\ s.port[q].lost \in Nat
      BY <1>8, <1>11
    <3> HIDE DEF t, r, gone, d, a, b
    <3>6. t.port[q].cnt = HeldIn(t, q) + t.port[q].lost + b
      BY <3>2, <3>3, <3>4, <3>5
    <3> QED
      BY <3>6 DEF b
  <2> QED
    BY <1>9, <2>3 DEF Exact
<1>14. ASSUME NEW v \in 1..Len(over), e.dropped = <<over[v]>>, e.dq.pkts = RemoveAt(over, v)
       PROVE  Exact(t, H)
  <2>1. gone = {<<l[1], over[v].in>>}
    <3> DEFINE z == over[v]
    <3> HIDE DEF z
    <3>1. e.dropped = <<z>>
      BY <1>14 DEF z
    <3>2. DOMAIN e.dropped = {1} /\ e.dropped[1] = z
      BY <3>1
    <3>3. gone = {<<l[1], z.in>>}
      BY <3>2
    <3> QED
      BY <3>3 DEF z
  <2>2. over \in Seq(Packets) /\ over[v] \in Packets
    <3>1. over \in Seq(Packets)
      BY <1>2, <1>3, AppendProperties
    <3> QED
      BY <3>1, ElementOfSeq
  <2> HIDE DEF gone, t, r
  <2>3. d[l] = over /\ Queued(t) = [d EXCEPT ![l] = RemoveAt(d[l], v)]
    BY <1>10, <1>14
  <2> HIDE DEF over, d
  <2>4. ASSUME NEW q \in Links
        PROVE  t.port[q].cnt = HeldIn(t, q) + t.port[q].lost + (IF q \in H THEN 1 ELSE 0)
    <3>1. Cardinality(Spots(Queued(t), From(q)))
            = Cardinality(Spots(d, From(q))) - (IF <<l, d[l][v]>> \in From(q) THEN 1 ELSE 0)
      <4> DEFINE R == From(q)
      <4>1. v \in 1..Len(d[l]) /\ d \in [Links -> Seq(Packets)]
        BY <1>11, <2>3
      <4>2. Queued(t) = Shorter(d, l, v)
        BY <2>3 DEF Shorter
      <4> HIDE DEF R
      <4>3. Cardinality(Spots(Shorter(d, l, v), R))
              = Cardinality(Spots(d, R)) - (IF <<l, d[l][v]>> \in R THEN 1 ELSE 0)
        BY <4>1, LinksFinite, SpotsRemove
      <4> QED
        BY <4>2, <4>3 DEF R
    <3>2. <<l, d[l][v]>> \in From(q) <=> q = <<l[1], over[v].in>>
      BY <2>2, <2>3, FromFacts
    <3>3. HeldIn(t, q) = HeldIn(s, q) + (IF q = <<l[1], p.in>> THEN 1 ELSE 0)
                           - (IF q = <<l[1], over[v].in>> THEN 1 ELSE 0)
      BY <1>11, <3>1, <3>2 DEF HeldIn
    <3>4. t.port[q].lost = s.port[q].lost + (IF q = <<l[1], over[v].in>> THEN 1 ELSE 0)
      BY <1>10, <2>1
    <3>5. t.port[q].cnt = s.port[q].cnt
      BY <1>10
    <3> DEFINE a == IF q = <<l[1], p.in>> THEN 1 ELSE 0
               b == IF q \in H THEN 1 ELSE 0
               c == IF q = <<l[1], over[v].in>> THEN 1 ELSE 0
    <3>6. s.port[q].cnt = HeldIn(s, q) + s.port[q].lost + b + a
      BY <1>12
    <3>7. /\ a \in Nat /\ b \in Nat /\ c \in Nat
          /\ HeldIn(t, q) = HeldIn(s, q) + a - c /\ t.port[q].lost = s.port[q].lost + c
      BY <3>3, <3>4
    <3>8. HeldIn(s, q) \in Nat /\ s.port[q].lost \in Nat
      BY <1>8, <1>11
    <3> HIDE DEF a, b, c
    <3> DEFINE h == HeldIn(s, q)
               n == s.port[q].lost
    <3>9. h + n + b + a = (h + a - c) + (n + c) + b
      <4>1. h \in Nat /\ n \in Nat /\ a \in Nat /\ b \in Nat /\ c \in Nat
        BY <3>7, <3>8
      <4> HIDE DEF h, n
      <4> QED
        BY <4>1
    <3>10. t.port[q].cnt = HeldIn(t, q) + t.port[q].lost + b
      BY <3>5, <3>6, <3>7, <3>9, Zenon DEF h, n
    <3> QED
      BY <3>10 DEF b
  <2> QED
    BY <2>4 DEF Exact
<1>15. Exact(t, H)
  <2> HIDE DEF t, over
  <2> QED
    BY <1>4, <1>13, <1>14 DEF Fits
<1> QED
  BY <1>9, <1>15

(* Queue's deque, with deque_callback's accounting: the counter of the     *)
(* packet's input port, which is not 0, goes down with what is queued.     *)
TakenOut(s, l) ==
  LET d    == Deque(QConf, s.link[l].dq)
      from == IF IsControl(d.p) \/ d.p.in = NoPort THEN {} ELSE {<<l[1], d.p.in>>}
  IN  Uncounted([s EXCEPT !.link[l].dq = d.dq], from)

LEMMA TakenOutFacts ==
  ASSUME NEW s \in Snapshots, NEW l \in Links, s.link[l].dq.pkts # <<>>,
         NEW H, Exact(s, H)
  PROVE  /\ Deque(QConf, s.link[l].dq).p \in PacketsOf(l)
         /\ TakenOut(s, l) \in Snapshots /\ Exact(TakenOut(s, l), H)
<1> DEFINE d    == Deque(QConf, s.link[l].dq)
           from == IF IsControl(d.p) \/ d.p.in = NoPort THEN {}
                   ELSE {<<l[1], d.p.in>>}
           x    == [s.link[l] EXCEPT !.dq = d.dq]
           k    == [s.link EXCEPT ![l] = x]
           r    == [q \in Links |-> IF q \in from
                                    THEN [s.port[q] EXCEPT !.cnt = Decremented(@)]
                                    ELSE s.port[q]]
           u    == Uncounted([s EXCEPT !.link[l].dq = d.dq], from)
           Q    == Queued(s)
<1>1. u = [link |-> k, port |-> r, abort |-> s.abort]
  <2> DEFINE c  == d.dq
             s1 == [s EXCEPT !.link[l].dq = c]
  <2>1. s = [link |-> s.link, port |-> s.port, abort |-> s.abort]
    BY SnapshotFields
  <2> HIDE DEF from, c
  <2>2. s1 = [link |-> [s.link EXCEPT ![l].dq = c], port |-> s.port, abort |-> s.abort]
    BY <2>1
  <2>3. [s.link EXCEPT ![l].dq = c] = [s.link EXCEPT ![l] = [s.link[l] EXCEPT !.dq = c]]
    OBVIOUS
  <2> HIDE DEF s1
  <2>4. s1.port = s.port
    BY <2>2
  <2>5. Uncounted(s1, from) = [s1 EXCEPT !.port = r]
    BY <2>4 DEF Uncounted
  <2> HIDE DEF r
  <2>6. Uncounted(s1, from)
          = [link |-> [s.link EXCEPT ![l].dq = c], port |-> r, abort |-> s.abort]
    BY <2>2, <2>5
  <2> QED
    BY <2>3, <2>6 DEF s1, c
<1>2. /\ s.link[l].dq \in Queues(PacketsOf(l)) /\ s.link[l].dq.pkts \in Seq(PacketsOf(l))
      /\ s.link[l] \in LinkStates(l) /\ s.abort \in BOOLEAN
      /\ DOMAIN s.link = Links /\ s.link = [m \in Links |-> s.link[m]]
      /\ \A m \in Links : s.link[m] \in LinkStates(m)
      /\ s.port \in [Links -> PortStates]
  BY SnapshotFields
<1>3. Numbered(PacketsOf(l)) /\ PacketsOf(l) \subseteq Packets
  BY PacketFacts
<1>4. /\ d.dq \in Queues(PacketsOf(l))
      /\ \E i \in 1..Len(s.link[l].dq.pkts) :
           d.p = s.link[l].dq.pkts[i] /\ d.dq.pkts = RemoveAt(s.link[l].dq.pkts, i)
  BY <1>2, <1>3, DequeFacts
<1> HIDE DEF d
<1>5. PICK i \in 1..Len(s.link[l].dq.pkts) :
        d.p = s.link[l].dq.pkts[i] /\ d.dq.pkts = RemoveAt(s.link[l].dq.pkts, i)
  BY <1>4
<1>6. d.p \in PacketsOf(l) /\ d.p \in Packets
  BY <1>2, <1>3, <1>5, ElementOfSeq
<1>7. \A q \in Links : q \in from <=> q = <<l[1], d.p.in>>
  <2>1. IsControl(d.p) => d.p.in = NoPort
    BY <1>6, PacketFacts
  <2>2. <<l[1], NoPort>> \notin Links
    BY LinkFacts
  <2> QED
    BY <2>1, <2>2
<1> HIDE DEF from
<1>8. x \in LinkStates(l) /\ x.dq = d.dq
  BY <1>2, <1>4 DEF LinkStates
<1> HIDE DEF x
<1>9. /\ DOMAIN k = Links /\ k = [m \in Links |-> k[m]]
      /\ k[l] = x /\ \A m \in Links : m # l => k[m] = s.link[m]
  BY <1>2
<1> HIDE DEF k
<1>10. \A m \in Links : k[m] \in LinkStates(m)
  BY <1>2, <1>8, <1>9
<1>11. ASSUME NEW q \in Links
       PROVE  /\ r[q] \in PortStates /\ r[q].lost = s.port[q].lost
              /\ q \notin from => r[q].cnt = s.port[q].cnt
              /\ q \in from /\ s.port[q].cnt >= 1 => r[q].cnt = s.port[q].cnt - 1
              /\ s.port[q].lost \in Nat /\ s.port[q].cnt \in Nat
  <2> DEFINE o == s.port[q]
  <2>1. o \in PortStates /\ o.lost \in Nat /\ o.cnt \in Nat
    BY <1>2 DEF PortStates
  <2>2. r[q] = IF q \in from THEN [o EXCEPT !.cnt = Decremented(o.cnt)] ELSE o
    OBVIOUS
  <2> HIDE DEF o, r
  <2>3. CASE q \in from
    <3>1. r[q] = [o EXCEPT !.cnt = Decremented(o.cnt)]
      BY <2>2, <2>3
    <3>2. /\ Decremented(o.cnt) \in Nat
          /\ o.cnt >= 1 => Decremented(o.cnt) = o.cnt - 1
      BY <2>1, PfcNetworkAssumption DEF Decremented
    <3>3. r[q] \in PortStates /\ r[q].cnt = Decremented(o.cnt) /\ r[q].lost = o.lost
      BY <2>1, <3>1, <3>2 DEF PortStates
    <3> QED
      BY <2>1, <2>3, <3>2, <3>3 DEF o
  <2>4. CASE q \notin from
    <3>1. r[q] = o
      BY <2>2, <2>4
    <3> QED
      BY <2>1, <2>4, <3>1 DEF o
  <2> QED
    BY <2>3, <2>4
<1>12. u \in Snapshots
  <2>1. r \in [Links -> PortStates]
    BY <1>11
  <2> HIDE DEF r, u
  <2> QED
    BY <1>1, <1>2, <1>9, <1>10, <2>1, SnapshotIntro
<1>13. Q \in [Links -> Seq(Packets)] /\ Q[l] = s.link[l].dq.pkts
  BY QueuedType
<1>14. Queued(u) = Shorter(Q, l, i)
  <2>1. u.link = k
    BY <1>1
  <2> HIDE DEF u, r
  <2>2. Queued(u) = [Queued(s) EXCEPT ![l] = d.dq.pkts]
    BY <1>8, <1>9, <2>1 DEF Queued
  <2>3. d.dq.pkts = RemoveAt(Q[l], i)
    BY <1>5, <1>13
  <2> QED
    BY <2>2, <2>3 DEF Shorter
<1>15. u.port = r
  BY <1>1
<1> HIDE DEF u, r
<1>16. ASSUME NEW q \in Links
       PROVE  u.port[q].cnt = HeldIn(u, q) + u.port[q].lost + (IF q \in H THEN 1 ELSE 0)
  <2> DEFINE R == From(q)
             b == IF q \in H THEN 1 ELSE 0
  <2>1. Cardinality(Spots(Shorter(Q, l, i), R))
          = Cardinality(Spots(Q, R)) - (IF <<l, Q[l][i]>> \in R THEN 1 ELSE 0)
    <3>1. i \in 1..Len(Q[l]) /\ Q \in [Links -> Seq(Packets)]
      BY <1>13
    <3> HIDE DEF Q, R
    <3> QED
      BY <3>1, LinksFinite, SpotsRemove
  <2>2. <<l, Q[l][i]>> \in R <=> q \in from
    BY <1>5, <1>6, <1>7, <1>13, FromFacts
  <2>3. HeldIn(u, q) = HeldIn(s, q) - (IF q \in from THEN 1 ELSE 0)
    BY <1>14, <2>1, <2>2 DEF HeldIn
  <2>4. HeldIn(u, q) \in Nat /\ HeldIn(s, q) \in Nat
    BY <1>12, QueuedType
  <2>5. s.port[q].cnt = HeldIn(s, q) + s.port[q].lost + b /\ b \in Nat
    BY DEF Exact
  <2> HIDE DEF b, Q, R
  <2>6. CASE q \in from
    <3>1. HeldIn(u, q) = HeldIn(s, q) - 1
      BY <2>3, <2>6
    <3>2. s.port[q].cnt >= 1
      BY <1>11, <2>4, <2>5, <3>1
    <3>3. u.port[q].cnt = s.port[q].cnt - 1 /\ u.port[q].lost = s.port[q].lost
      BY <1>11, <1>15, <2>6, <3>2
    <3>4. u.port[q].cnt = HeldIn(u, q) + u.port[q].lost + b
      BY <1>11, <2>4, <2>5, <3>1, <3>3
    <3> QED
      BY <3>4 DEF b
  <2>7. CASE q \notin from
    <3>1. HeldIn(u, q) = HeldIn(s, q)
      BY <2>3, <2>4, <2>7
    <3>2. u.port[q].cnt = s.port[q].cnt /\ u.port[q].lost = s.port[q].lost
      BY <1>11, <1>15, <2>7
    <3> QED
      BY <2>5, <3>1, <3>2 DEF b
  <2> QED
    BY <2>6, <2>7
<1>17. Exact(u, H)
  BY <1>16 DEF Exact
<1> QED
  BY <1>6, <1>12, <1>17 DEF u, d, from, TakenOut

-----------------------------------------------------------------------------
(* The calls under way in one event.                                       *)

Openings ==
  { o \in [l : Links, p : UNION { Stamped(m) : m \in Links },
           to : SUBSET Links, blocks : BOOLEAN] : o.p \in Stamped(o.l) }

Receipts == { r \in [l : Links, p : Packets] : r.p \in PacketsOf(r.l) }

InPort(r) == <<r.l[1], r.p.in>>

CallStates == [s : Snapshots, open : Seq(Openings), recv : SUBSET Receipts]

Sound(c, H) ==
  /\ c \in CallStates
  /\ c.recv = {} \/ \E r \in Receipts : c.recv = {r}
  /\ \A r \in c.recv : InPort(r) \notin H
  /\ Exact(c.s, H \cup { InPort(r) : r \in c.recv })

LEMMA CallsFields ==
  ASSUME NEW s, NEW open, NEW recv
  PROVE  /\ Calls(s, open, recv).s = s /\ Calls(s, open, recv).open = open
         /\ Calls(s, open, recv).recv = recv
         /\ s \in Snapshots /\ open \in Seq(Openings) /\ recv \subseteq Receipts
              => Calls(s, open, recv) \in CallStates
BY DEF Calls, CallStates

(* Only ports count.                                                       *)
LEMMA ExactOnLinks ==
  ASSUME NEW s, NEW H, NEW G, Exact(s, H), \A q \in Links : q \in H <=> q \in G
  PROVE  Exact(s, G)
BY DEF Exact

(* No port is that of a control frame.                                     *)
LEMMA NoPortFacts ==
  ASSUME NEW l \in Links
  PROVE  <<l[1], NoPort>> \notin Links
BY LinkFacts

LEMMA DequeuedFacts ==
  ASSUME NEW c, NEW H \in SUBSET Links, NEW l \in Links, NEW blocks \in BOOLEAN,
         c.s \in Snapshots, c.open \in Seq(Openings), Exact(c.s, H),
         c.s.link[l].dq.pkts # <<>>
  PROVE  /\ Sound(Dequeued(c, l, blocks), H)
         /\ \A r \in Dequeued(c, l, blocks).recv : InPort(r) \notin Links
<1> DEFINE d    == Deque(QConf, c.s.link[l].dq)
           from == IF IsControl(d.p) \/ d.p.in = NoPort THEN {}
                   ELSE {<<l[1], d.p.in>>}
           u    == TakenOut(c.s, l)
           to   == { q \in from : Resumes(u, q) }
           o    == [l |-> l, p |-> [d.p EXCEPT !.in = l[1]], to |-> to,
                    blocks |-> blocks]
           recv == { [l |-> q, p |-> ControlFrame("RESUME", q)] : q \in to }
<1>1. Dequeued(c, l, blocks) = Calls(u, Append(c.open, o), recv)
  BY DEF Dequeued, TakenOut
<1>2. d.p \in PacketsOf(l) /\ u \in Snapshots /\ Exact(u, H)
  BY TakenOutFacts
<1>3. /\ \A q, m \in to : q = m
      /\ \A q \in to : q \in DOMAIN Thr
  BY DEF Resumes
<1> HIDE DEF d, from, u
<1>4. to \subseteq Links
  BY <1>3, LinkFacts
<1> HIDE DEF to
<1>5. o \in Openings
  <2>1. [d.p EXCEPT !.in = l[1]] \in Stamped(l)
    BY <1>2, PacketFacts
  <2> QED
    BY <1>4, <2>1 DEF Openings
<1> HIDE DEF o
<1>6. Append(c.open, o) \in Seq(Openings)
  BY <1>5, AppendProperties
<1>7. ASSUME NEW q \in to
      PROVE  /\ [l |-> q, p |-> ControlFrame("RESUME", q)] \in Receipts
             /\ InPort([l |-> q, p |-> ControlFrame("RESUME", q)]) = <<q[1], NoPort>>
             /\ <<q[1], NoPort>> \notin Links
  <2> DEFINE p == ControlFrame("RESUME", q)
  <2>1. q \in Links
    BY <1>4
  <2>2. p \in PacketsOf(q) /\ p.in = NoPort /\ p \in Packets
    BY <2>1, NewPacketFacts, PacketFacts
  <2> HIDE DEF p
  <2>3. [l |-> q, p |-> p] \in Receipts /\ InPort([l |-> q, p |-> p]) = <<q[1], NoPort>>
    BY <2>1, <2>2 DEF Receipts, InPort
  <2> QED
    BY <2>1, <2>3, NoPortFacts DEF p
<1>8. \A r \in recv : InPort(r) \notin Links /\ r \in Receipts
  BY <1>7
<1>9. recv = {} \/ \E r \in Receipts : recv = {r}
  <2>1. \A r, w \in recv : r = w
    BY <1>3
  <2> HIDE DEF recv
  <2>2. ASSUME NEW r \in recv PROVE recv = {r}
    BY <2>1
  <2> QED
    BY <1>8, <2>2
<1> HIDE DEF recv
<1>10. Exact(u, H \cup { InPort(r) : r \in recv })
  <2>1. \A q \in Links : q \in H <=> q \in H \cup { InPort(r) : r \in recv }
    BY <1>8
  <2> QED
    BY <1>2, <2>1, ExactOnLinks
<1>11. \A r \in recv : InPort(r) \notin H
  BY <1>8
<1> DEFINE D == Dequeued(c, l, blocks)
<1>12. D.s = u /\ D.recv = recv /\ D \in CallStates
  <2> DEFINE open == Append(c.open, o)
  <2>1. D = Calls(u, open, recv)
    BY <1>1
  <2> HIDE DEF open, D
  <2>2. open \in Seq(Openings) /\ recv \subseteq Receipts /\ u \in Snapshots
    BY <1>2, <1>6, <1>8 DEF open
  <2> QED
    BY <2>1, <2>2, CallsFields
<1> HIDE DEF D
<1>13. Sound(D, H)
  BY <1>9, <1>10, <1>11, <1>12 DEF Sound
<1> QED
  BY <1>8, <1>12, <1>13 DEF D

(* A call of Queue::recv, and the return from one.                         *)
LEMMA ReceivedFacts ==
  ASSUME NEW c, NEW H \in SUBSET Links, Sound(c, H)
  PROVE  /\ Sound(Received(c), H)
         /\ \A r \in Received(c).recv : InPort(r) \notin Links
<1>1. CASE c.recv = {}
  <2>1. Received(c) = c
    BY <1>1 DEF Received
  <2> QED
    BY <1>1, <2>1
<1>2. ASSUME NEW r \in Receipts, c.recv = {r}
      PROVE  /\ Sound(Received(c), H)
             /\ \A w \in Received(c).recv : InPort(w) \notin Links
  <2> DEFINE s == Enqueued(c.s, r.l, r.p)
             z == Calls(s, c.open, {})
  <2>1. (CHOOSE w \in c.recv : TRUE) = r
    BY <1>2
  <2>2. Received(c) = IF s.link[r.l].blocked \/ s.link[r.l].dq.pkts = <<>>
                      THEN z ELSE Dequeued(z, r.l, TRUE)
    BY <1>2, <2>1 DEF Received
  <2>3. r.l \in Links /\ r.p \in PacketsOf(r.l) /\ r \in c.recv
    BY <1>2 DEF Receipts
  <2>4. c.s \in Snapshots /\ c.open \in Seq(Openings) /\ InPort(r) \notin H
    BY <2>3 DEF Sound, CallStates
  <2>5. Exact(c.s, H \cup {<<r.l[1], r.p.in>>})
    <3>1. { InPort(w) : w \in c.recv } = {<<r.l[1], r.p.in>>}
      BY <1>2 DEF InPort
    <3> QED
      BY <3>1 DEF Sound
  <2>6. s \in Snapshots /\ Exact(s, H)
    BY <2>3, <2>4, <2>5, EnqueuedFacts DEF InPort
  <2> HIDE DEF s
  <2>7. z.s = s /\ z.open = c.open /\ z.recv = {} /\ z \in CallStates
    BY <2>4, <2>6, CallsFields
  <2> HIDE DEF z
  <2>8. CASE s.link[r.l].blocked \/ s.link[r.l].dq.pkts = <<>>
    <3>1. Received(c) = z
      BY <2>2, <2>8
    <3>2. H \cup { InPort(w) : w \in z.recv } = H
      BY <2>7
    <3>3. Sound(z, H)
      BY <2>4, <2>6, <2>7, <3>2 DEF Sound
    <3> QED
      BY <2>7, <3>1, <3>3
  <2>9. CASE ~(s.link[r.l].blocked \/ s.link[r.l].dq.pkts = <<>>)
    <3>1. Received(c) = Dequeued(z, r.l, TRUE)
      BY <2>2, <2>9
    <3>2. z.s.link[r.l].dq.pkts # <<>>
      BY <2>7, <2>9
    <3>3. /\ Sound(Dequeued(z, r.l, TRUE), H)
          /\ \A w \in Dequeued(z, r.l, TRUE).recv : InPort(w) \notin Links
      BY <2>3, <2>4, <2>6, <2>7, <3>2, DequeuedFacts
    <3> QED
      BY <3>1, <3>3
  <2> QED
    BY <2>8, <2>9
<1> QED
  BY <1>1, <1>2 DEF Sound

(* What follows the RESUME of a deque_callback.                            *)
LEMMA UnpausedFacts ==
  ASSUME NEW s \in Snapshots, NEW to
  PROVE  LET u == Unpaused(s, to)
         IN  /\ u \in Snapshots /\ u.link = s.link
             /\ \A q \in Links : /\ u.port[q].cnt = s.port[q].cnt
                                 /\ u.port[q].lost = s.port[q].lost
<1> DEFINE r == [q \in Links |-> IF q \in to THEN [s.port[q] EXCEPT !.paused = FALSE]
                                            ELSE s.port[q]]
           u == Unpaused(s, to)
<1>1. /\ s = [link |-> s.link, port |-> s.port, abort |-> s.abort]
      /\ s.port \in [Links -> PortStates] /\ s.abort \in BOOLEAN
      /\ DOMAIN s.link = Links /\ s.link = [m \in Links |-> s.link[m]]
      /\ \A m \in Links : s.link[m] \in LinkStates(m)
  BY SnapshotFields
<1>2. u = [s EXCEPT !.port = r]
  BY DEF Unpaused
<1>3. ASSUME NEW q \in Links
      PROVE  /\ r[q] \in PortStates /\ r[q].cnt = s.port[q].cnt
             /\ r[q].lost = s.port[q].lost
  BY <1>1 DEF PortStates
<1>4. r \in [Links -> PortStates]
  BY <1>3
<1> HIDE DEF r, u
<1>5. u = [link |-> s.link, port |-> r, abort |-> s.abort]
  BY <1>1, <1>2
<1>6. u \in Snapshots
  BY <1>1, <1>4, <1>5, SnapshotIntro
<1> QED
  BY <1>3, <1>5, <1>6 DEF u

LEMMA ReturnedFacts ==
  ASSUME NEW s \in Snapshots, NEW o \in Openings, NEW H, Exact(s, H)
  PROVE  Returned(s, o) \in Snapshots /\ Exact(Returned(s, o), H)
<1> DEFINE u == Unpaused(s, o.to)
           b == u.link[o.l].blocked \/ o.blocks
           v == SetBlocked(u, o.l, b)
           t == Transmit(v, o.l, o.p)
<1>1. o.l \in Links /\ o.p \in Stamped(o.l) /\ o.blocks \in BOOLEAN
  BY DEF Openings
<1>2. /\ u \in Snapshots /\ u.link = s.link
      /\ \A q \in Links : u.port[q].cnt = s.port[q].cnt /\ u.port[q].lost = s.port[q].lost
  BY UnpausedFacts
<1>3. Returned(s, o) = t
  BY DEF Returned, SetBlocked
<1> HIDE DEF u
<1>4. b \in BOOLEAN
  <2>1. u.link[o.l].blocked \in BOOLEAN
    BY <1>1, <1>2, SnapshotFields
  <2> QED
    BY <1>1, <2>1
<1> HIDE DEF b
<1>5. v \in Snapshots /\ SameQueues(u, v)
  <2>1. u.link[o.l].wire \in Wires(o.l)
    BY <1>1, <1>2, SnapshotFields
  <2> QED
    BY <1>1, <1>2, <1>4, <2>1, SetFacts
<1> HIDE DEF v
<1>6. t \in Snapshots /\ SameQueues(v, t)
  BY <1>1, <1>5, TransmitFacts
<1> HIDE DEF t
<1>7. /\ \A m \in Links : t.link[m].dq.pkts = s.link[m].dq.pkts
      /\ \A q \in Links : t.port[q].cnt = s.port[q].cnt /\ t.port[q].lost = s.port[q].lost
  BY <1>2, <1>5, <1>6 DEF SameQueues
<1>8. Exact(t, H)
  BY <1>6, <1>7, ExactStays
<1> QED
  BY <1>3, <1>6, <1>8

LEMMA DepthFacts ==
  ASSUME NEW s \in Snapshots
  PROVE  Depth(s) \in Nat /\ Depth(s) >= 2
<1> DEFINE P == UNION { {l} \X DOMAIN s.link[l].dq.pkts : l \in Links }
           Q == Queued(s)
<1>1. Q \in [Links -> Seq(Packets)]
  BY QueuedType
<1>2. Positions(Q, Links) = P
  BY DEF Positions, Queued
<1> HIDE DEF Q
<1>3. IsFiniteSet(Positions(Q, Links))
  BY <1>1, LinksFinite, PositionsFinite
<1> HIDE DEF P
<1>4. Cardinality(P) \in Nat
  BY <1>2, <1>3, FS_CardinalityType
<1> QED
  BY <1>4 DEF Depth, P

(* down lists what is left of the calls of c, one Queue::recv after the    *)
(* other.                                                                  *)
GoesDown(down, c, n) ==
  down[0] = c /\ \A i \in 1 .. n : down[i] = Received(down[i - 1])

(* The calls go down, one Queue::recv after the other...                   *)
LEMMA Descent ==
  ASSUME NEW c, NEW H \in SUBSET Links, Sound(c, H), NEW n \in Nat, n >= 1
  PROVE  LET down == CHOOSE f : f = [k \in 0 .. n |-> IF k = 0 THEN c
                                                       ELSE Received(f[k - 1])]
         IN  /\ Sound(down[n], H)
             /\ \A r \in down[n].recv : InPort(r) \notin Links
             /\ GoesDown(down, c, n)
<1> DEFINE S == { x \in CallStates : Sound(x, H) }
           F == [i \in 1 .. n |-> [x \in S |-> Received(x)]]
           Body(f) == [k \in 0 .. n |-> IF k = 0 THEN c ELSE Received(f[k - 1])]
           down == CHOOSE f : f = Body(f)
<1>1. c \in S
  BY DEF Sound
<1>2. ASSUME NEW x \in S
      PROVE  Received(x) \in S /\ \A r \in Received(x).recv : InPort(r) \notin Links
  <2>1. /\ Sound(Received(x), H)
        /\ \A r \in Received(x).recv : InPort(r) \notin Links
    BY ReceivedFacts
  <2> QED
    BY <2>1 DEF Sound
<1> HIDE DEF S
<1>3. F \in [1 .. n -> [S -> S]] /\ \A i \in 1 .. n : \A x \in S : F[i][x] = Received(x)
  BY <1>2
<1> HIDE DEF F
<1>4. PICK h \in [0 .. n -> S] : Records(h, F, c, n)
  BY <1>1, <1>3, Iteration
<1>5. h[0] = c /\ \A i \in 1 .. n : h[i] = Received(h[i - 1])
  <2>1. ASSUME NEW i \in 1 .. n PROVE h[i] = Received(h[i - 1])
    <3>1. i - 1 \in 0 .. n
      OBVIOUS
    <3>2. h[i - 1] \in S /\ h[i] = F[i][h[i - 1]]
      BY <1>4, <3>1 DEF Records
    <3> QED
      BY <1>3, <3>2
  <2> QED
    BY <1>4, <2>1 DEF Records
<1>6. h = Body(h)
  <2>1. \A i \in 0 .. n : h[i] = IF i = 0 THEN c ELSE Received(h[i - 1])
    BY <1>5
  <2> QED
    BY <2>1
<1>7. down = Body(down)
  BY <1>6
<1> HIDE DEF down
<1>8. down[0] = c /\ \A i \in 1 .. n : down[i] = Received(down[i - 1])
  <2>1. \A i \in 0 .. n : down[i] = Body(down)[i]
    BY <1>7
  <2>2. 0 \in 0 .. n /\ \A i \in 1 .. n : i \in 0 .. n /\ i # 0
    OBVIOUS
  <2> QED
    BY <2>1, <2>2
<1>9. \A i \in 0 .. n : down[i] = h[i]
  <2>1. InStep(down, h, n)
    BY <1>5, <1>8 DEF InStep
  <2> QED
    BY <2>1, Agreement
<1>10. n \in 1 .. n /\ n \in 0 .. n /\ n - 1 \in 0 .. n
  OBVIOUS
<1>11. h[n - 1] \in S /\ h[n] = Received(h[n - 1])
  BY <1>5, <1>10
<1>12. h[n] \in S /\ \A r \in h[n].recv : InPort(r) \notin Links
  BY <1>2, <1>11
<1>13. Sound(down[n], H) /\ \A r \in down[n].recv : InPort(r) \notin Links
  BY <1>9, <1>10, <1>12 DEF S
<1> QED
  BY <1>8, <1>13 DEF down, GoesDown

(* ... and return, from the innermost.                                     *)
LEMMA Ascent ==
  ASSUME NEW s \in Snapshots, NEW H, Exact(s, H), NEW open \in Seq(Openings)
  PROVE  LET up == CHOOSE f : f = [k \in 0 .. Len(open) |->
                                     IF k = 0 THEN s
                                     ELSE Returned(f[k - 1], open[Len(open) + 1 - k])]
         IN  up[Len(open)] \in Snapshots /\ Exact(up[Len(open)], H)
<1> DEFINE n == Len(open)
           S == { x \in Snapshots : Exact(x, H) }
           F == [i \in 1 .. n |-> [x \in S |-> Returned(x, open[n + 1 - i])]]
           Body(f) == [k \in 0 .. n |-> IF k = 0 THEN s
                                        ELSE Returned(f[k - 1], open[n + 1 - k])]
           up == CHOOSE f : f = Body(f)
<1>1. s \in S /\ n \in Nat
  BY LenProperties
<1>2. ASSUME NEW x \in S, NEW i \in 1 .. n PROVE Returned(x, open[n + 1 - i]) \in S
  <2>1. n + 1 - i \in 1 .. n
    BY <1>1
  <2>2. open[n + 1 - i] \in Openings
    BY <2>1, ElementOfSeq
  <2> QED
    BY <2>2, ReturnedFacts
<1> HIDE DEF S, n
<1>3. /\ F \in [1 .. n -> [S -> S]]
      /\ \A i \in 1 .. n : \A x \in S : F[i][x] = Returned(x, open[n + 1 - i])
  BY <1>2
<1> HIDE DEF F
<1>4. PICK h \in [0 .. n -> S] : Records(h, F, s, n)
  BY <1>1, <1>3, Iteration
<1>5. h[0] = s /\ \A i \in 1 .. n : h[i] = Returned(h[i - 1], open[n + 1 - i])
  <2>1. ASSUME NEW i \in 1 .. n PROVE h[i] = Returned(h[i - 1], open[n + 1 - i])
    <3>1. i - 1 \in 0 .. n
      BY <1>1
    <3>2. h[i - 1] \in S /\ h[i] = F[i][h[i - 1]]
      BY <1>4, <3>1 DEF Records
    <3> QED
      BY <1>3, <3>2
  <2> QED
    BY <1>4, <2>1 DEF Records
<1>6. h = Body(h)
  <2>1. \A i \in 0 .. n : h[i] = IF i = 0 THEN s ELSE Returned(h[i - 1], open[n + 1 - i])
    BY <1>1, <1>5
  <2> QED
    BY <2>1
<1>7. up = Body(up)
  BY <1>6
<1> HIDE DEF up
<1>8. up[0] = s /\ \A i \in 1 .. n : up[i] = Returned(up[i - 1], open[n + 1 - i])
  <2>1. \A i \in 0 .. n : up[i] = Body(up)[i]
    BY <1>7
  <2>2. 0 \in 0 .. n /\ \A i \in 1 .. n : i \in 0 .. n /\ i # 0
    BY <1>1
  <2> QED
    BY <2>1, <2>2
<1>9. \A i \in 0 .. n : up[i] = h[i]
  <2>1. InStep(up, h, n)
    BY <1>5, <1>8 DEF InStep
  <2> QED
    BY <1>1, <2>1, Agreement
<1>10. n \in 0 .. n
  BY <1>1
<1>11. up[n] \in S
  BY <1>9, <1>10
<1> QED
  BY <1>11 DEF up, S, n

LEMMA CompletedFacts ==
  ASSUME NEW c, NEW H \in SUBSET Links, Sound(c, H)
  PROVE  Completed(c) \in Snapshots /\ Exact(Completed(c), H)
<1> DEFINE n == Depth(c.s)
           down == CHOOSE f : f = [k \in 0 .. n |-> IF k = 0 THEN c
                                                     ELSE Received(f[k - 1])]
           d == down[n]
           m == Len(d.open)
           up == CHOOSE f : f = [k \in 0 .. m |->
                                   IF k = 0 THEN d.s
                                   ELSE Returned(f[k - 1], d.open[m + 1 - k])]
<1>1. Completed(c) = up[m]
  BY DEF Completed, Descended, Ascended
<1>2. n \in Nat /\ n >= 1
  <2>1. c.s \in Snapshots
    BY DEF Sound, CallStates
  <2>2. Depth(c.s) \in Nat /\ Depth(c.s) >= 2
    BY <2>1, DepthFacts
  <2> QED
    BY <2>2
<1> HIDE DEF n
<1>3. Sound(d, H) /\ \A r \in d.recv : InPort(r) \notin Links
  BY <1>2, Descent
<1> HIDE DEF d, down
<1>4. d.s \in Snapshots /\ d.open \in Seq(Openings)
      /\ Exact(d.s, H \cup { InPort(r) : r \in d.recv })
  BY <1>3 DEF Sound, CallStates
<1>5. Exact(d.s, H)
  <2>1. \A q \in Links : q \in H \cup { InPort(r) : r \in d.recv } <=> q \in H
    BY <1>3
  <2> QED
    BY <1>4, <2>1, ExactOnLinks
<1>6. up[m] \in Snapshots /\ Exact(up[m], H)
  BY <1>4, <1>5, Ascent
<1> QED
  BY <1>1, <1>6

-----------------------------------------------------------------------------
(* The entry points.                                                       *)

LEMMA QueueRecvFacts ==
  ASSUME NEW s \in Snapshots, NEW l \in Links, NEW p \in PacketsOf(l),
         NEW H \in SUBSET Links, <<l[1], p.in>> \notin H,
         Exact(s, H \cup {<<l[1], p.in>>})
  PROVE  QueueRecv(s, l, p) \in Snapshots /\ Exact(QueueRecv(s, l, p), H)
<1> DEFINE r == [l |-> l, p |-> p]
           c == Calls(s, <<>>, {r})
<1>1. r \in Receipts /\ InPort(r) = <<l[1], p.in>>
  BY PacketFacts DEF Receipts, InPort
<1>2. <<>> \in Seq(Openings)
  BY EmptySeq
<1> HIDE DEF r
<1>3. c.s = s /\ c.recv = {r} /\ c \in CallStates
  <2> DEFINE open == <<>>
             recv == {r}
  <2>1. open \in Seq(Openings) /\ recv \subseteq Receipts /\ c = Calls(s, open, recv)
    BY <1>1, <1>2
  <2> HIDE DEF open, recv, c
  <2>2. c.s = s /\ c.recv = recv /\ c \in CallStates
    BY <2>1, CallsFields
  <2> QED
    BY <2>2 DEF recv
<1> HIDE DEF c
<1>4. { InPort(w) : w \in c.recv } = {<<l[1], p.in>>}
  BY <1>1, <1>3
<1>5. Sound(c, H)
  BY <1>1, <1>3, <1>4 DEF Sound
<1> QED
  BY <1>5, CompletedFacts DEF QueueRecv, c, r

LEMMA QueueResumeFacts ==
  ASSUME NEW s \in Snapshots, NEW l \in Links, s.link[l].dq.pkts # <<>>,
         NEW H \in SUBSET Links, Exact(s, H)
  PROVE  QueueResume(s, l) \in Snapshots /\ Exact(QueueResume(s, l), H)
<1> DEFINE z == Calls(s, <<>>, {})
<1>1. <<>> \in Seq(Openings)
  BY EmptySeq
<1>2. z.s = s /\ z.open = <<>>
  BY CallsFields
<1> HIDE DEF z
<1>3. Sound(Dequeued(z, l, FALSE), H)
  BY <1>1, <1>2, DequeuedFacts
<1> QED
  BY <1>3, CompletedFacts DEF QueueResume, z

(* Counting a packet at its port, with the PAUSE that may cause.           *)
LEMMA CountFacts ==
  ASSUME NEW s \in Snapshots, NEW q \in Links, Exact(s, {})
  PROVE  Count(s, q) \in Snapshots /\ Exact(Count(s, q), {q})
<1> DEFINE n == s.port[q].cnt + 1
           s1 == [s EXCEPT !.port[q].cnt = n]
           r == [s.port EXCEPT ![q].cnt = n]
           p == ControlFrame("PAUSE", q)
           u == QueueRecv(s1, q, p)
           v == [u EXCEPT !.port[q].paused = TRUE]
           w == [u.port EXCEPT ![q].paused = TRUE]
<1>1. /\ s = [link |-> s.link, port |-> s.port, abort |-> s.abort]
      /\ s.port \in [Links -> PortStates] /\ s.abort \in BOOLEAN
      /\ DOMAIN s.link = Links /\ s.link = [m \in Links |-> s.link[m]]
      /\ \A m \in Links : s.link[m] \in LinkStates(m)
  BY SnapshotFields
<1>2. /\ r \in [Links -> PortStates] /\ r[q].cnt = s.port[q].cnt + 1
      /\ \A m \in Links : m # q => r[m].cnt = s.port[m].cnt
      /\ \A m \in Links : r[m].lost = s.port[m].lost
  BY <1>1 DEF PortStates
<1>3. s1 = [link |-> s.link, port |-> r, abort |-> s.abort]
  BY <1>1
<1> HIDE DEF s1, r
<1>4. s1 \in Snapshots
  BY <1>1, <1>2, <1>3, SnapshotIntro
<1>5. Exact(s1, {q})
  <2>1. Queued(s1) = Queued(s)
    BY <1>3 DEF Queued
  <2>2. ASSUME NEW m \in Links
        PROVE  s1.port[m].cnt = HeldIn(s1, m) + s1.port[m].lost
                                  + (IF m \in {q} THEN 1 ELSE 0)
    <3>1. HeldIn(s1, m) = HeldIn(s, m) /\ HeldIn(s, m) \in Nat
      BY <2>1, QueuedType DEF HeldIn
    <3>2. s.port[m].cnt = HeldIn(s, m) + s.port[m].lost /\ s.port[m].lost \in Nat
      <4>1. s.port[m].lost \in Nat
        BY <1>1 DEF PortStates
      <4>2. s.port[m].cnt = HeldIn(s, m) + s.port[m].lost + 0
        BY DEF Exact
      <4> QED
        BY <3>1, <4>1, <4>2
    <3>3. s1.port[m].lost = s.port[m].lost
      BY <1>2, <1>3
    <3>4. s1.port[m].cnt = s.port[m].cnt + (IF m = q THEN 1 ELSE 0)
      <4>1. CASE m = q
        BY <1>2, <1>3, <4>1
      <4>2. CASE m # q
        <5>1. s1.port[m].cnt = s.port[m].cnt
          BY <1>2, <1>3, <4>2
        <5> QED
          BY <3>1, <3>2, <4>2, <5>1
      <4> QED
        BY <4>1, <4>2
    <3> QED
      BY <3>1, <3>2, <3>3, <3>4
  <2> QED
    BY <2>2 DEF Exact
<1>6. p \in PacketsOf(q) /\ <<q[1], p.in>> \notin Links
  BY NewPacketFacts, NoPortFacts
<1> HIDE DEF p
<1>7. u \in Snapshots /\ Exact(u, {q})
  <2>1. \A m \in Links : m \in {q} <=> m \in {q} \cup {<<q[1], p.in>>}
    BY <1>6
  <2>2. Exact(s1, {q} \cup {<<q[1], p.in>>})
    BY <1>5, <2>1, ExactOnLinks
  <2> QED
    BY <1>4, <1>6, <2>2, QueueRecvFacts
<1> HIDE DEF u
<1>8. /\ u.abort \in BOOLEAN
      /\ DOMAIN u.link = Links /\ u.link = [m \in Links |-> u.link[m]]
      /\ \A m \in Links : u.link[m] \in LinkStates(m)
  BY <1>7, SnapshotFields
<1>9. /\ w \in [Links -> PortStates]
      /\ \A m \in Links : w[m].cnt = u.port[m].cnt /\ w[m].lost = u.port[m].lost
  <2>1. u.port \in [Links -> PortStates]
    BY <1>7, SnapshotFields
  <2> QED
    BY <2>1 DEF PortStates
<1>10. v = [link |-> u.link, port |-> w, abort |-> u.abort]
  <2>1. u = [link |-> u.link, port |-> u.port, abort |-> u.abort]
    BY <1>7, SnapshotFields
  <2> DEFINE b == TRUE
  <2> HIDE DEF b
  <2>2. [u EXCEPT !.port[q].paused = b]
          = [link |-> u.link, port |-> [u.port EXCEPT ![q].paused = b],
             abort |-> u.abort]
    BY <2>1
  <2> QED
    BY <2>2 DEF b
<1> HIDE DEF w, v
<1>11. v \in Snapshots
  BY <1>8, <1>9, <1>10, SnapshotIntro
<1>12. Exact(v, {q})
  BY <1>7, <1>9, <1>10, <1>11, ExactStays
<1>13. Count(s, q) = v \/ Count(s, q) = s1
  BY DEF Count, v, u, p, s1
<1> QED
  BY <1>4, <1>5, <1>11, <1>12, <1>13

LEMMA ExactSame ==
  ASSUME NEW s \in Snapshots, NEW t \in Snapshots, NEW H, Exact(s, H), SameQueues(s, t)
  PROVE  Exact(t, H)
BY ExactStays DEF SameQueues

(* A PAUSE frame marks the packet whose transmission it interrupts.        *)
LEMMA CutFacts ==
  ASSUME NEW l \in Links, NEW w \in Wires(l)
  PROVE  [w EXCEPT ![Len(w)].cut = TRUE] \in Wires(l)
<1> DEFINE E == [p : Stamped(l), cut : BOOLEAN]
           n == Len(w)
           e == [w[n] EXCEPT !.cut = TRUE]
           v == [w EXCEPT ![n] = e]
<1>1. w \in [1..n -> E] /\ n \in Nat /\ DOMAIN w = 1..n
  BY LenProperties DEF Wires
<1>2. n >= 1 => e \in E
  <2>1. n >= 1 => w[n] \in E
    BY <1>1
  <2> QED
    BY <2>1
<1>3. [w EXCEPT ![n].cut = TRUE] = v
  OBVIOUS
<1> HIDE DEF n, e
<1>4. v \in [1..n -> E]
  <2>1. \A i \in 1..n : v[i] \in E
    BY <1>1, <1>2
  <2>2. v = [i \in 1..n |-> v[i]]
    BY <1>1
  <2> HIDE DEF v, E
  <2> QED
    BY <2>1, <2>2
<1> HIDE DEF v, E
<1>5. v \in Seq(E)
  BY <1>1, <1>4, IsASeq
<1> QED
  BY <1>3, <1>5 DEF Wires, E, n

LEMMA PausedFacts ==
  ASSUME NEW s \in Snapshots, NEW l \in Links
  PROVE  Paused(s, l) \in Snapshots /\ SameQueues(s, Paused(s, l))
<1> DEFINE o == s.link[l].wire
           w == IF s.link[l].intr /\ ~AvoidReordering
                THEN [o EXCEPT ![Len(o)].cut = TRUE] ELSE o
           t == SetIntr(s, l, FALSE)
           u == SetBlocked(t, l, TRUE)
<1>1. o \in Wires(l)
  BY SnapshotFields
<1>2. w \in Wires(l)
  BY <1>1, CutFacts
<1>3. Paused(s, l) = SetWire(u, l, w)
  BY DEF Paused, SetIntr, SetBlocked, SetWire
<1> HIDE DEF w, o
<1>4. t \in Snapshots /\ SameQueues(s, t)
  BY <1>2, SetFacts
<1> HIDE DEF t
<1>5. u \in Snapshots /\ SameQueues(t, u)
  BY <1>2, <1>4, SetFacts
<1> HIDE DEF u
<1>6. SetWire(u, l, w) \in Snapshots /\ SameQueues(u, SetWire(u, l, w))
  BY <1>2, <1>5, SetFacts
<1> QED
  BY <1>3, <1>4, <1>5, <1>6 DEF SameQueues

LEMMA ResumedFacts ==
  ASSUME NEW s \in Snapshots, NEW l \in Links
  PROVE  Resumed(s, l) \in Snapshots /\ SameQueues(s, Resumed(s, l))
<1> DEFINE t == SetBlocked(s, l, FALSE)
           b == s.abort \/ ~s.link[l].blocked
<1>1. Resumed(s, l) = SetAbort(t, b)
  BY DEF Resumed, SetBlocked, SetAbort
<1>2. s.link[l].wire \in Wires(l) /\ b \in BOOLEAN
  BY SnapshotFields, Zenon
<1> HIDE DEF b
<1>3. t \in Snapshots /\ SameQueues(s, t)
  BY <1>2, SetFacts
<1> HIDE DEF t
<1>4. SetAbort(t, b) \in Snapshots /\ SameQueues(t, SetAbort(t, b))
  BY <1>2, <1>3, SetFacts
<1> QED
  BY <1>1, <1>3, <1>4 DEF SameQueues

(* A packet from a wire.                                                   *)
LEMMA ReceiveFacts ==
  ASSUME NEW s \in Snapshots, Exact(s, {}), NEW l \in Links, NEW p \in Stamped(l)
  PROVE  Receive(s, l[2], p) \in Snapshots /\ Exact(Receive(s, l[2], p), {})
<1>1. IF IsControl(p)
      THEN p.kind \in {"PAUSE", "RESUME"} /\ p.flow \in Links
      ELSE p.kind = "DATA" /\ p.flow \in Flows
  BY PacketFacts
<1>2. CASE p.kind = "PAUSE"
  <2>1. Receive(s, l[2], p) = Paused(s, Back(p.flow))
    BY <1>2 DEF Receive
  <2>2. Back(p.flow) \in Links
    BY <1>1, <1>2, LinkFacts
  <2> QED
    BY <2>1, <2>2, PausedFacts, ExactSame
<1>3. CASE p.kind = "RESUME"
  <2>1. Receive(s, l[2], p) = Resumed(s, Back(p.flow))
    BY <1>3 DEF Receive
  <2>2. Back(p.flow) \in Links
    BY <1>1, <1>3, LinkFacts
  <2> QED
    BY <2>1, <2>2, ResumedFacts, ExactSame
<1>4. CASE p.kind = "DATA" /\ l[2] = Sink(p.flow)
  BY <1>4 DEF Receive
<1>5. CASE p.kind = "DATA" /\ l[2] # Sink(p.flow)
  <2> DEFINE m == OutLink(p.flow, l[2])
             q == Back(l)
             t == Count(s, q)
  <2>1. m \in Links /\ m[1] = l[2] /\ p \in PacketsOf(m) /\ p.in = l[1]
    BY <1>5, ForwardFacts
  <2>2. q \in Links /\ q = <<l[2], p.in>> /\ p.in # NoPort
    BY <2>1, LinkFacts DEF Back
  <2>3. Receive(s, l[2], p) = QueueRecv(t, m, p)
    BY <1>5, <2>2 DEF Receive
  <2> HIDE DEF m
  <2>4. t \in Snapshots /\ Exact(t, {q})
    BY <2>2, CountFacts
  <2>5. <<m[1], p.in>> = q
    BY <2>1, <2>2
  <2> HIDE DEF t
  <2>6. Exact(t, {} \cup {<<m[1], p.in>>})
    BY <2>4, <2>5
  <2>7. QueueRecv(t, m, p) \in Snapshots /\ Exact(QueueRecv(t, m, p), {})
    BY <2>1, <2>4, <2>6, QueueRecvFacts
  <2> QED
    BY <2>3, <2>7
<1> QED
  BY <1>1, <1>2, <1>3, <1>4, <1>5

(* A packet from an agent.                                                 *)
LEMMA SendFacts ==
  ASSUME NEW s \in Snapshots, Exact(s, {}), NEW f \in Flows, NEW n \in 0..MaxSend
  PROVE  LET t == Receive(s, Route[f][1], DataPacket(f, n))
         IN  t \in Snapshots /\ Exact(t, {})
<1> DEFINE x == Route[f][1]
           p == DataPacket(f, n)
           m == OutLink(f, x)
<1>1. m \in Hops(f) /\ m[1] = x /\ x # Sink(f) /\ m \in Links
  BY OutLinkFacts, LinkFacts
<1>2. p \in PacketsOf(m) /\ p.in = NoPort /\ p.kind = "DATA" /\ p.flow = f
  <2>1. p \in PacketsOf(m)
    BY <1>1, NewPacketFacts
  <2> QED
    BY <2>1 DEF DataPacket
<1> HIDE DEF p
<1>3. Receive(s, x, p) = QueueRecv(s, m, p)
  BY <1>1, <1>2 DEF Receive
<1> HIDE DEF m
<1>4. <<m[1], p.in>> \notin Links
  BY <1>1, <1>2, NoPortFacts
<1>5. Exact(s, {} \cup {<<m[1], p.in>>})
  <2>1. \A q \in Links : q \in {} <=> q \in {} \cup {<<m[1], p.in>>}
    BY <1>4
  <2> QED
    BY <2>1, ExactOnLinks
<1>6. QueueRecv(s, m, p) \in Snapshots /\ Exact(QueueRecv(s, m, p), {})
  BY <1>1, <1>2, <1>5, QueueRecvFacts
<1> QED
  BY <1>3, <1>6 DEF p

-----------------------------------------------------------------------------
(* The counters of every network are exact.                                *)

IInv ==
  /\ Now \in Snapshots /\ Exact(Now, {})
  /\ sent \in [Flows -> 0..MaxSend]

(* Held is what Exact counts.                                              *)
LEMMA HeldFacts ==
  ASSUME Now \in Snapshots, NEW q \in Links
  PROVE  Held(q) = HeldIn(Now, q)
<1> DEFINE Q == Queued(Now)
           P == UNION { {l} \X DOMAIN link[l].dq.pkts : l \in Links }
<1>1. Q \in [Links -> Seq(Packets)] /\ \A l \in Links : Q[l] = link[l].dq.pkts
  BY QueuedType DEF Now
<1>2. ASSUME NEW a, a \in HeldAt(q)
      PROVE  a \in Spots(Q, From(q))
  <2>1. a \in P /\ a[1][1] = q[1] /\ link[a[1]].dq.pkts[a[2]].in = q[2]
    BY <1>2 DEF HeldAt
  <2>2. PICK l \in Links : a \in {l} \X DOMAIN link[l].dq.pkts
    BY <2>1
  <2>3. a = <<l, a[2]>> /\ a[1] = l /\ a[2] \in DOMAIN Q[l]
    BY <1>1, <2>2
  <2>4. DOMAIN Q[l] = 1..Len(Q[l]) /\ Q[l][a[2]] \in Packets
    BY <1>1, <2>3, LenProperties, ElementOfSeq
  <2>5. <<l, Q[l][a[2]]>> \in From(q)
    BY <1>1, <2>1, <2>3, <2>4 DEF From
  <2> HIDE DEF Q
  <2>6. <<l, a[2]>> \in Spots(Q, From(q))
    BY <1>1, <2>3, <2>4, <2>5, SpotAt
  <2> QED
    BY <2>3, <2>6
<1>3. ASSUME NEW a, a \in Spots(Q, From(q))
      PROVE  a \in HeldAt(q)
  <2>1. a[1] \in Links /\ a[2] \in 1..Len(Q[a[1]]) /\ a = <<a[1], a[2]>>
    BY <1>1, <1>3, SpotsArePairs
  <2>2. <<a[1], Q[a[1]][a[2]]>> \in From(q)
    BY <1>3 DEF Spots
  <2>3. DOMAIN Q[a[1]] = 1..Len(Q[a[1]])
    BY <1>1, <2>1, LenProperties
  <2>4. a \in {a[1]} \X DOMAIN link[a[1]].dq.pkts
    BY <1>1, <2>1, <2>3
  <2>5. a \in P
    BY <2>1, <2>4
  <2>6. a[1][1] = q[1] /\ link[a[1]].dq.pkts[a[2]].in = q[2]
    BY <1>1, <2>1, <2>2 DEF From
  <2> QED
    BY <2>5, <2>6 DEF HeldAt
<1>4. HeldAt(q) = Spots(Q, From(q))
  BY <1>2, <1>3
<1> QED
  BY <1>4 DEF Held, HeldIn

LEMMA InitExact ==
  Init => IInv
<1> SUFFICES ASSUME Init PROVE IInv
  OBVIOUS
<1> DEFINE e == EmptyQueue({})
           o == [dq |-> e, blocked |-> FALSE, intr |-> FALSE, wire |-> <<>>]
           r == [cnt |-> 0, paused |-> FALSE, lost |-> 0]
<1>1. /\ link = [l \in Links |-> o] /\ port = [q \in Links |-> r]
      /\ sent = [f \in Flows |-> 0] /\ abort = FALSE
  BY DEF Init
<1>2. ASSUME NEW l \in Links PROVE o \in LinkStates(l)
  <2>1. e \in Queues(PacketsOf(l))
    BY EmptyIsQueue
  <2>2. <<>> \in Wires(l)
    BY EmptySeq DEF Wires
  <2> HIDE DEF e
  <2> QED
    BY <2>1, <2>2 DEF LinkStates
<1>3. o.dq.pkts = <<>>
  BY EmptyIsQueue
<1>4. r \in PortStates /\ r.cnt = 0 /\ r.lost = 0
  BY DEF PortStates
<1> HIDE DEF o, r
<1>5. Now \in Snapshots
  <2>1. /\ DOMAIN link = Links /\ link = [l \in Links |-> link[l]]
        /\ \A l \in Links : link[l] \in LinkStates(l)
    BY <1>1, <1>2
  <2>2. port \in [Links -> PortStates] /\ abort \in BOOLEAN
    BY <1>1, <1>4
  <2> QED
    BY <2>1, <2>2, SnapshotIntro DEF Now
<1>6. ASSUME NEW q \in Links
      PROVE  Now.port[q].cnt = HeldIn(Now, q) + Now.port[q].lost + (IF q \in {} THEN 1 ELSE 0)
  <2> DEFINE Q == Queued(Now)
  <2>1. Q \in [Links -> Seq(Packets)] /\ \A l \in Links : Q[l] = <<>>
    <3>1. \A l \in Links : Q[l] = link[l].dq.pkts
      BY <1>5, QueuedType DEF Now
    <3>2. Q \in [Links -> Seq(Packets)]
      BY <1>5, QueuedType
    <3> QED
      BY <1>1, <1>3, <3>1, <3>2
  <2> HIDE DEF Q
  <2>2. Spots(Q, From(q)) = {}
    <3>1. ASSUME NEW a \in Spots(Q, From(q)) PROVE FALSE
      <4>1. a[1] \in Links /\ a[2] \in 1..Len(Q[a[1]])
        BY <2>1, SpotsArePairs
      <4>2. Len(Q[a[1]]) = 0
        BY <2>1, <4>1
      <4> QED
        BY <4>1, <4>2
    <3> QED
      BY <3>1
  <2>3. HeldIn(Now, q) = 0
    BY <2>2, FS_EmptySet DEF HeldIn, Q
  <2>4. Now.port[q].cnt = 0 /\ Now.port[q].lost = 0
    BY <1>1, <1>4 DEF Now
  <2> QED
    BY <2>3, <2>4
<1>7. sent \in [Flows -> 0..MaxSend]
  BY <1>1, PfcNetworkAssumption
<1> QED
  BY <1>5, <1>6, <1>7 DEF IInv, Exact

(* A handler's result is the next state.                                   *)
LEMMA BecomesFacts ==
  ASSUME NEW s \in Snapshots, Exact(s, {}), Becomes(s)
  PROVE  Now' \in Snapshots /\ Exact(Now', {})
<1>1. s = [link |-> s.link, port |-> s.port, abort |-> s.abort]
  BY SnapshotFields
<1>2. Now' = s
  BY <1>1 DEF Becomes, Now
<1> QED
  BY <1>2

LEMMA NextExact ==
  IInv /\ [Next]_vars => IInv'
<1> SUFFICES ASSUME IInv, [Next]_vars PROVE IInv'
  OBVIOUS
<1> USE DEF IInv
<1>1. ASSUME NEW f \in Flows, AgentSend(f) PROVE IInv'
  <2> DEFINE t == Receive(Now, Route[f][1], DataPacket(f, sent'[f]))
  <2>1. sent' \in [Flows -> 0..MaxSend] /\ sent'[f] \in 0..MaxSend
    BY <1>1, PfcNetworkAssumption DEF AgentSend
  <2>2. t \in Snapshots /\ Exact(t, {})
    BY <2>1, SendFacts
  <2>3. Becomes(t)
    BY <1>1 DEF AgentSend
  <2> HIDE DEF t
  <2> QED
    BY <2>1, <2>2, <2>3, BecomesFacts
<1>2. ASSUME NEW l \in Links, TxDone(l) PROVE IInv'
  <2> DEFINE s == SetIntr(Now, l, FALSE)
             u == SetBlocked(s, l, FALSE)
             t == QueueResume(s, l)
  <2>1. Now.link[l].wire \in Wires(l) /\ Now.link[l].dq.pkts = link[l].dq.pkts
    BY SnapshotFields DEF Now
  <2>2. s \in Snapshots /\ SameQueues(Now, s)
    BY <2>1, SetFacts
  <2>3. Exact(s, {}) /\ s.link[l].dq.pkts = link[l].dq.pkts
    BY <2>1, <2>2, ExactSame DEF SameQueues
  <2>4. IF link[l].dq.pkts = <<>> THEN Becomes(u) ELSE Becomes(t)
    BY <1>2 DEF TxDone, SetIntr, SetBlocked
  <2>5. sent' = sent
    BY <1>2 DEF TxDone
  <2> HIDE DEF s
  <2>6. CASE link[l].dq.pkts = <<>>
    <3>1. u \in Snapshots /\ SameQueues(s, u)
      BY <2>1, <2>2, SetFacts
    <3> HIDE DEF u
    <3>2. Exact(u, {})
      BY <2>2, <2>3, <3>1, ExactSame
    <3>3. Becomes(u)
      BY <2>4, <2>6
    <3> QED
      BY <2>5, <3>1, <3>2, <3>3, BecomesFacts
  <2>7. CASE link[l].dq.pkts # <<>>
    <3>1. t \in Snapshots /\ Exact(t, {})
      BY <2>2, <2>3, <2>7, QueueResumeFacts
    <3> HIDE DEF t
    <3>2. Becomes(t)
      BY <2>4, <2>7
    <3> QED
      BY <2>5, <3>1, <3>2, BecomesFacts
  <2> QED
    BY <2>6, <2>7
<1>3. ASSUME NEW l \in Links, NEW i \in DOMAIN link[l].wire, Arrive(l, i) PROVE IInv'
  <2> DEFINE w == RemoveAt(link[l].wire, i)
             s == SetWire(Now, l, w)
             p == link[l].wire[i].p
             t == Receive(s, l[2], p)
  <2>1. link[l].wire \in Wires(l)
    BY SnapshotFields DEF Now
  <2>2. i \in 1..Len(link[l].wire) /\ Len(link[l].wire) \in Nat
    BY <2>1, LenProperties DEF Wires
  <2>3. w \in Wires(l)
    BY <2>1, <2>2, RemoveAtFacts DEF Wires
  <2>4. p \in Stamped(l)
    <3>1. link[l].wire[i] \in [p : Stamped(l), cut : BOOLEAN]
      BY <2>1, <2>2, ElementOfSeq DEF Wires
    <3> QED
      BY <3>1
  <2>5. Becomes(t) /\ sent' = sent
    BY <1>3 DEF Arrive, SetWire, Now
  <2> HIDE DEF w, p
  <2>6. s \in Snapshots /\ SameQueues(Now, s)
    BY <2>3, SetFacts
  <2> HIDE DEF s
  <2>7. Exact(s, {})
    BY <2>6, ExactSame
  <2>8. t \in Snapshots /\ Exact(t, {})
    BY <2>4, <2>6, <2>7, ReceiveFacts
  <2> HIDE DEF t
  <2> QED
    BY <2>5, <2>8, BecomesFacts
<1>4. CASE UNCHANGED vars
  <2>1. Now' = Now /\ sent' = sent
    BY <1>4 DEF vars, Now
  <2> QED
    BY <2>1
<1> QED
  BY <1>1, <1>2, <1>3, <1>4 DEF Next

(* In every network, whatever its routes, thresholds, queues and traffic:  *)
(* at every node, over all of its output queues, an input counter is the   *)
(* number of packets queued from that input plus those its queues dropped. *)
THEOREM CountersAreExact == Spec => []CounterExact
<1>1. Init => IInv
  BY InitExact
<1>2. IInv /\ [Next]_vars => IInv'
  BY NextExact
<1>3. IInv => CounterExact
  <2> SUFFICES ASSUME IInv, NEW q \in Links
               PROVE  port[q].cnt = Held(q) + port[q].lost
    BY DEF CounterExact
  <2>1. /\ Held(q) = HeldIn(Now, q) /\ HeldIn(Now, q) \in Nat
        /\ Now.port[q] = port[q]
    BY HeldFacts, QueuedType DEF IInv, Now
  <2>2. port[q].lost \in Nat
    <3>1. Now.port \in [Links -> PortStates]
      BY SnapshotFields DEF IInv
    <3> QED
      BY <3>1 DEF Now, PortStates
  <2>3. port[q].cnt = Held(q) + port[q].lost + 0
    BY <2>1 DEF IInv, Exact
  <2> QED
    BY <2>1, <2>2, <2>3
<1> QED
  BY <1>1, <1>2, <1>3, PTL DEF Spec

-----------------------------------------------------------------------------
(* Depth is enough. A call that leads to another has taken a packet of     *)
(* some neighbour out of a queue, and only the first can have put one in.  *)

Others == { e \in Links \X Packets : e[2].in # NoPort }

Transit(s) == Cardinality(Spots(Queued(s), Others))

LEMMA TransitFacts ==
  ASSUME NEW s \in Snapshots
  PROVE  Transit(s) \in Nat /\ Transit(s) + 2 <= Depth(s)
<1> DEFINE Q == Queued(s)
           P == UNION { {l} \X DOMAIN s.link[l].dq.pkts : l \in Links }
<1>1. Q \in [Links -> Seq(Packets)]
  BY QueuedType
<1>2. Positions(Q, Links) = P
  BY DEF Positions, Queued
<1> HIDE DEF Q, P
<1>3. IsFiniteSet(Positions(Q, Links))
  BY <1>1, LinksFinite, PositionsFinite
<1>4. Spots(Q, Others) \in SUBSET Positions(Q, Links)
  <2>1. ASSUME NEW a \in Spots(Q, Others) PROVE a \in Positions(Q, Links)
    <3>1. a[1] \in Links /\ a[2] \in 1..Len(Q[a[1]]) /\ a = <<a[1], a[2]>>
      BY <1>1, SpotsArePairs
    <3>2. DOMAIN Q[a[1]] = 1..Len(Q[a[1]])
      BY <1>1, <3>1, LenProperties
    <3>3. a \in {a[1]} \X DOMAIN Q[a[1]]
      BY <3>1, <3>2
    <3> QED
      BY <3>1, <3>3 DEF Positions
  <2> QED
    BY <2>1
<1>5. Cardinality(Spots(Q, Others)) <= Cardinality(Positions(Q, Links))
  BY <1>3, <1>4, FS_Subset
<1>6. Cardinality(Positions(Q, Links)) \in Nat
  BY <1>3, FS_CardinalityType
<1>7. Cardinality(Spots(Q, Others)) \in Nat
  BY <1>1, LinksFinite, SpotsFinite
<1> QED
  BY <1>2, <1>5, <1>6, <1>7 DEF Transit, Depth, P, Q

(* What enque leaves in the queues is what was there, and perhaps the      *)
(* packet that arrives...                                                  *)
LEMMA TransitEnqueued ==
  ASSUME NEW s \in Snapshots, NEW l \in Links, NEW p \in PacketsOf(l)
  PROVE  Transit(Enqueued(s, l, p)) <= Transit(s) + (IF p.in = NoPort THEN 0 ELSE 1)
<1> DEFINE e    == Enque(QConf, s.link[l].dq, p)
           t    == Enqueued(s, l, p)
           Q    == Queued(s)
           over == Append(s.link[l].dq.pkts, p)
           d    == Longer(Q, l, p)
<1>1. /\ s.link[l].dq \in Queues(PacketsOf(l))
      /\ DOMAIN s.link = Links /\ s.link[l] \in LinkStates(l)
      /\ s = [link |-> s.link, port |-> s.port, abort |-> s.abort]
  BY SnapshotFields
<1>2. Numbered(PacketsOf(l)) /\ PacketsOf(l) \subseteq Packets
  BY PacketFacts
<1>3. Fits(e, over)
  BY <1>1, <1>2, EnqueFacts
<1>4. Q \in [Links -> Seq(Packets)] /\ Q[l] = s.link[l].dq.pkts
  BY QueuedType
<1>5. \A m \in Links : t.link[m].dq.pkts = IF m = l THEN e.dq.pkts ELSE s.link[m].dq.pkts
  <2> DEFINE c  == e.dq
             s1 == [s EXCEPT !.link[l].dq = c]
             gone == { <<l[1], e.dropped[i].in>> : i \in DOMAIN e.dropped }
             r  == [q \in Links |-> IF q \in gone THEN [s.port[q] EXCEPT !.lost = @ + 1]
                                                  ELSE s.port[q]]
  <2>1. t = [s1 EXCEPT !.port = r]
    BY DEF Enqueued
  <2> HIDE DEF c, gone, r, t
  <2>2. s1 = [link |-> [s.link EXCEPT ![l].dq = c], port |-> s.port, abort |-> s.abort]
    BY <1>1
  <2> HIDE DEF s1
  <2>3. t.link = [s.link EXCEPT ![l].dq = c]
    BY <2>1, <2>2
  <2>4. [s.link EXCEPT ![l].dq = c] = [s.link EXCEPT ![l] = [s.link[l] EXCEPT !.dq = c]]
    OBVIOUS
  <2>5. [s.link[l] EXCEPT !.dq = c].dq = c
    BY <1>1 DEF LinkStates
  <2> QED
    BY <1>1, <2>3, <2>4, <2>5 DEF c
<1> HIDE DEF e, t
<1>6. Queued(t) = [Q EXCEPT ![l] = e.dq.pkts]
  BY <1>5 DEF Queued
<1>7. p \in Packets /\ (<<l, p>> \in Others <=> p.in # NoPort)
  BY <1>2 DEF Others
<1> DEFINE n == Cardinality(Spots(d, Others))
           more == IF p.in = NoPort THEN 0 ELSE 1
<1>8. Transit(s) \in Nat
  BY TransitFacts
<1>9. d \in [Links -> Seq(Packets)] /\ n = Transit(s) + more
  <2>1. /\ Longer(Q, l, p) \in [Links -> Seq(Packets)]
        /\ Cardinality(Spots(Longer(Q, l, p), Others))
             = Cardinality(Spots(Q, Others)) + (IF <<l, p>> \in Others THEN 1 ELSE 0)
    <3> HIDE DEF Q
    <3> QED
      BY <1>4, <1>7, LinksFinite, SpotsAppend
  <2> QED
    BY <1>7, <2>1 DEF Transit
<1>10. d[l] = over
  BY <1>4 DEF Longer
<1>11. CASE e.dq.pkts = over
  <2>1. Queued(t) = d
    BY <1>4, <1>6, <1>11 DEF Longer
  <2> QED
    BY <1>8, <1>9, <2>1 DEF Transit, t
<1>12. ASSUME NEW v \in 1..Len(over), e.dq.pkts = RemoveAt(over, v)
       PROVE  Transit(t) <= Transit(s) + more
  <2>1. Queued(t) = Shorter(d, l, v)
    BY <1>4, <1>6, <1>10, <1>12 DEF Longer, Shorter
  <2>2. Cardinality(Spots(Shorter(d, l, v), Others))
          = Cardinality(Spots(d, Others)) - (IF <<l, d[l][v]>> \in Others THEN 1 ELSE 0)
    <3>1. v \in 1..Len(d[l])
      BY <1>10
    <3> HIDE DEF d
    <3> QED
      BY <1>9, <3>1, LinksFinite, SpotsRemove
  <2>3. n \in Nat
    BY <1>8, <1>9
  <2> HIDE DEF n, t
  <2>4. Transit(t) <= n
    BY <2>1, <2>2, <2>3 DEF Transit, n
  <2> QED
    BY <1>9, <2>4 DEF n
<1> QED
  BY <1>3, <1>11, <1>12 DEF Fits, t

(* ... and what deque leaves is one packet less.                           *)
LEMMA TransitTakenOut ==
  ASSUME NEW s \in Snapshots, NEW l \in Links, s.link[l].dq.pkts # <<>>,
         Deque(QConf, s.link[l].dq).p.in # NoPort
  PROVE  Transit(TakenOut(s, l)) + 1 = Transit(s)
<1> DEFINE d    == Deque(QConf, s.link[l].dq)
           from == IF IsControl(d.p) \/ d.p.in = NoPort THEN {} ELSE {<<l[1], d.p.in>>}
           u    == TakenOut(s, l)
           Q    == Queued(s)
<1>1. /\ s.link[l].dq \in Queues(PacketsOf(l)) /\ s.link[l].dq.pkts \in Seq(PacketsOf(l))
      /\ DOMAIN s.link = Links /\ s.link[l] \in LinkStates(l)
      /\ s = [link |-> s.link, port |-> s.port, abort |-> s.abort]
  BY SnapshotFields
<1>2. Numbered(PacketsOf(l)) /\ PacketsOf(l) \subseteq Packets
  BY PacketFacts
<1>3. PICK i \in 1..Len(s.link[l].dq.pkts) :
        d.p = s.link[l].dq.pkts[i] /\ d.dq.pkts = RemoveAt(s.link[l].dq.pkts, i)
  BY <1>1, <1>2, DequeFacts
<1>4. d.p \in Packets
  BY <1>1, <1>2, <1>3, ElementOfSeq
<1>5. Q \in [Links -> Seq(Packets)] /\ Q[l] = s.link[l].dq.pkts
  BY QueuedType
<1>6. \A m \in Links : u.link[m].dq.pkts = IF m = l THEN d.dq.pkts ELSE s.link[m].dq.pkts
  <2> DEFINE c  == d.dq
             s1 == [s EXCEPT !.link[l].dq = c]
  <2>1. u = Uncounted(s1, from)
    BY DEF TakenOut
  <2> HIDE DEF c, from, u
  <2>2. s1 = [link |-> [s.link EXCEPT ![l].dq = c], port |-> s.port, abort |-> s.abort]
    BY <1>1
  <2> HIDE DEF s1
  <2>3. u.link = [s.link EXCEPT ![l].dq = c]
    BY <2>1, <2>2 DEF Uncounted
  <2>4. [s.link EXCEPT ![l].dq = c] = [s.link EXCEPT ![l] = [s.link[l] EXCEPT !.dq = c]]
    OBVIOUS
  <2>5. [s.link[l] EXCEPT !.dq = c].dq = c
    BY <1>1 DEF LinkStates
  <2> QED
    BY <1>1, <2>3, <2>4, <2>5 DEF c
<1>7. d.p.in # NoPort
  OBVIOUS
<1> HIDE DEF d, u
<1>8. Queued(u) = Shorter(Q, l, i)
  BY <1>3, <1>5, <1>6 DEF Queued, Shorter
<1>9. <<l, Q[l][i]>> \in Others
  BY <1>3, <1>4, <1>5, <1>7 DEF Others
<1>10. Cardinality(Spots(Shorter(Q, l, i), Others))
         = Cardinality(Spots(Q, Others)) - (IF <<l, Q[l][i]>> \in Others THEN 1 ELSE 0)
  <2>1. i \in 1..Len(Q[l])
    BY <1>5
  <2> HIDE DEF Q
  <2> QED
    BY <1>5, <2>1, LinksFinite, SpotsRemove
<1>11. Transit(s) \in Nat
  BY TransitFacts
<1>12. Transit(u) = Transit(s) - 1
  BY <1>8, <1>9, <1>10 DEF Transit
<1> QED
  BY <1>11, <1>12 DEF u

(* A deque_callback sends a RESUME only for a packet of a neighbour.       *)
LEMMA TransitDequeued ==
  ASSUME NEW c, NEW l \in Links, NEW blocks, c.s \in Snapshots,
         c.s.link[l].dq.pkts # <<>>, Dequeued(c, l, blocks).recv # {}
  PROVE  /\ Transit(Dequeued(c, l, blocks).s) + 1 = Transit(c.s)
         /\ \A r \in Dequeued(c, l, blocks).recv : r.p.in = NoPort
<1> DEFINE d    == Deque(QConf, c.s.link[l].dq)
           from == IF IsControl(d.p) \/ d.p.in = NoPort THEN {}
                   ELSE {<<l[1], d.p.in>>}
           u    == TakenOut(c.s, l)
           to   == { q \in from : Resumes(u, q) }
           o    == [l |-> l, p |-> [d.p EXCEPT !.in = l[1]], to |-> to,
                    blocks |-> blocks]
           recv == { [l |-> q, p |-> ControlFrame("RESUME", q)] : q \in to }
           open == Append(c.open, o)
<1>1. Dequeued(c, l, blocks) = Calls(u, open, recv)
  BY Zenon DEF Dequeued, TakenOut
<1>2. \A q : ControlFrame("RESUME", q).in = NoPort
  BY DEF ControlFrame
<1>3. \A r \in recv : r.p.in = NoPort
  BY <1>2
<1>4. recv # {} => d.p.in # NoPort
  OBVIOUS
<1> HIDE DEF d, recv, open, u
<1>5. Dequeued(c, l, blocks).s = u /\ Dequeued(c, l, blocks).recv = recv
  BY <1>1, CallsFields
<1>6. Transit(u) + 1 = Transit(c.s)
  BY <1>4, <1>5, TransitTakenOut DEF d, u
<1>7. \A r \in Dequeued(c, l, blocks).recv : r.p.in = NoPort
  BY <1>3, <1>5, Zenon
<1> QED
  BY <1>5, <1>6, <1>7, Zenon

(* So it is with the calls of Queue::recv.                                 *)
LEMMA TransitReceived ==
  ASSUME NEW c, NEW H \in SUBSET Links, Sound(c, H), Received(c).recv # {}
  PROVE  \E r \in Receipts :
           /\ c.recv = {r}
           /\ Transit(Received(c).s) + 1 <= Transit(c.s) + (IF r.p.in = NoPort THEN 0 ELSE 1)
           /\ \A w \in Received(c).recv : w.p.in = NoPort
<1>1. c.recv # {}
  BY Zenon DEF Received
<1>2. PICK r \in Receipts : c.recv = {r}
  BY <1>1 DEF Sound
<1> DEFINE s == Enqueued(c.s, r.l, r.p)
           z == Calls(s, c.open, {})
           more == IF r.p.in = NoPort THEN 0 ELSE 1
<1>3. (CHOOSE w \in c.recv : TRUE) = r
  BY <1>2
<1>4. Received(c) = IF s.link[r.l].blocked \/ s.link[r.l].dq.pkts = <<>>
                    THEN z ELSE Dequeued(z, r.l, TRUE)
  BY <1>2, <1>3 DEF Received
<1>5. r.l \in Links /\ r.p \in PacketsOf(r.l) /\ c.s \in Snapshots
  BY DEF Receipts, Sound, CallStates
<1>6. Exact(c.s, H \cup {<<r.l[1], r.p.in>>}) /\ <<r.l[1], r.p.in>> \notin H
  <2>1. { InPort(w) : w \in c.recv } = {<<r.l[1], r.p.in>>}
    BY <1>2 DEF InPort
  <2> QED
    BY <1>2, <2>1 DEF Sound, InPort
<1>7. s \in Snapshots /\ Transit(s) <= Transit(c.s) + more
  BY <1>5, <1>6, EnqueuedFacts, TransitEnqueued
<1> HIDE DEF s
<1>8. z.s = s /\ z.recv = {}
  BY CallsFields
<1> HIDE DEF z
<1>9. Received(c) = Dequeued(z, r.l, TRUE) /\ z.s.link[r.l].dq.pkts # <<>>
  BY <1>4, <1>8
<1>10. /\ Transit(Received(c).s) + 1 = Transit(s)
       /\ \A w \in Received(c).recv : w.p.in = NoPort
  <2> DEFINE D == Dequeued(z, r.l, TRUE)
  <2>1. z.s \in Snapshots /\ D.recv # {}
    BY <1>7, <1>8, <1>9, Zenon
  <2>2. Transit(D.s) + 1 = Transit(z.s) /\ \A w \in D.recv : w.p.in = NoPort
    BY <1>5, <1>9, <2>1, TransitDequeued, Zenon
  <2> QED
    BY <1>8, <1>9, <2>2, Zenon
<1>11. Transit(Received(c).s) + 1 <= Transit(c.s) + more
  BY <1>7, <1>10
<1> HIDE DEF more
<1>12. /\ c.recv = {r}
       /\ Transit(Received(c).s) + 1 <= Transit(c.s) + more
       /\ \A w \in Received(c).recv : w.p.in = NoPort
  BY <1>2, <1>10, <1>11, Zenon
<1> QED
  BY <1>12, Zenon DEF more

(* Going down from call to call, none is left when Depth allows no more.   *)
LEMMA CallsRunOut ==
  ASSUME NEW c, NEW H \in SUBSET Links, Sound(c, H), NEW down, down[0] = c,
         \A k \in 1..Depth(c.s) : down[k] = Received(down[k - 1])
  PROVE  down[Depth(c.s)].recv = {}
<1> DEFINE n == Depth(c.s)
           m == Transit(c.s)
           Falls(k) == /\ Sound(down[k], H)
                       /\ k >= 1 /\ down[k].recv # {} =>
                            /\ Transit(down[k].s) + k <= m + 1
                            /\ \A r \in down[k].recv : r.p.in = NoPort
           T == { k \in 0..n : Falls(k) }
<1>1. m \in Nat /\ n \in Nat /\ m + 2 <= n
  <2>1. c.s \in Snapshots
    BY DEF Sound, CallStates
  <2> QED
    BY <2>1, TransitFacts, DepthFacts
<1>2. ASSUME NEW x, Sound(x, H) PROVE x.s \in Snapshots /\ Transit(x.s) \in Nat
  <2>1. x.s \in Snapshots
    BY <1>2 DEF Sound, CallStates
  <2> QED
    BY <2>1, TransitFacts
<1>3. \A k \in 1..n : down[k] = Received(down[k - 1])
  OBVIOUS
<1> HIDE DEF n, m
<1>4. 0 \in T
  BY <1>1
<1>5. ASSUME NEW k \in 1..n, k - 1 \in T PROVE k \in T
  <2> DEFINE x == down[k - 1]
             y == down[k]
  <2>1. Sound(x, H) /\ y = Received(x) /\ k \in Nat /\ k \in 0..n
    BY <1>1, <1>3, <1>5
  <2>2. Sound(y, H)
    BY <2>1, ReceivedFacts
  <2>3. /\ k - 1 >= 1 /\ x.recv # {} =>
             /\ Transit(x.s) + (k - 1) <= m + 1
             /\ \A r \in x.recv : r.p.in = NoPort
        /\ k = 1 => x = c
    BY <1>5, <2>1
  <2> HIDE DEF x, y
  <2>4. Transit(x.s) \in Nat /\ Transit(y.s) \in Nat
    BY <1>2, <2>1, <2>2
  <2>5. ASSUME y.recv # {}
        PROVE  Transit(y.s) + k <= m + 1 /\ \A r \in y.recv : r.p.in = NoPort
    <3>1. PICK r \in Receipts :
            /\ x.recv = {r}
            /\ Transit(y.s) + 1 <= Transit(x.s) + (IF r.p.in = NoPort THEN 0 ELSE 1)
            /\ \A w \in y.recv : w.p.in = NoPort
      BY <2>1, <2>5, TransitReceived
    <3>2. CASE k = 1
      BY <1>1, <2>3, <2>4, <3>1, <3>2 DEF m
    <3>3. CASE k # 1
      <4>1. k - 1 >= 1 /\ r \in x.recv
        BY <2>1, <3>1, <3>3
      <4>2. Transit(x.s) + (k - 1) <= m + 1 /\ r.p.in = NoPort
        BY <2>3, <4>1
      <4>3. Transit(y.s) + 1 <= Transit(x.s)
        BY <2>4, <3>1, <4>2
      <4>4. Transit(y.s) + k <= m + 1
        BY <1>1, <2>1, <2>4, <4>2, <4>3
      <4> QED
        BY <3>1, <4>4
    <3> QED
      BY <3>2, <3>3
  <2> QED
    BY <2>1, <2>2, <2>5 DEF x, y
<1> HIDE DEF T
<1>6. 0..n \subseteq T
  BY <1>1, <1>4, <1>5, InductionTo
<1>7. n \in 0..n /\ n >= 1
  BY <1>1
<1>8. Falls(n)
  BY <1>6, <1>7 DEF T
<1>9. Transit(down[n].s) \in Nat
  BY <1>2, <1>8
<1>10. down[n].recv = {}
  BY <1>1, <1>7, <1>8, <1>9
<1> QED
  BY <1>10 DEF n

(* No call of an event is left undone: when deque_callback has re-entered  *)
(* the queues as often as Depth allows, nothing is called any more. So     *)
(* Completed is the code's recursion, and that always ends.                *)
THEOREM CallsEnd ==
  ASSUME NEW c, NEW H \in SUBSET Links, Sound(c, H)
  PROVE  Descended(c).recv = {}
<1> DEFINE n == Depth(c.s)
           down == CHOOSE f : f = [k \in 0 .. n |-> IF k = 0 THEN c
                                                     ELSE Received(f[k - 1])]
<1>1. Descended(c) = down[n]
  BY DEF Descended
<1>2. n \in Nat /\ n >= 1
  <2>1. c.s \in Snapshots
    BY DEF Sound, CallStates
  <2>2. Depth(c.s) \in Nat /\ Depth(c.s) >= 2
    BY <2>1, DepthFacts
  <2> QED
    BY <2>2
<1> HIDE DEF n
<1>3. GoesDown(down, c, n)
  BY <1>2, Descent
<1> HIDE DEF down
<1>4. down[n].recv = {}
  BY <1>3, CallsRunOut DEF n, GoesDown
<1> QED
  BY <1>1, <1>4
==============================================================================
