--------------------------- MODULE ReassemblyProofs ---------------------------
(***************************************************************************)
(* Proofs about the operators of ReassemblyQueue, for queues of any        *)
(* length: what add() and clearto() do to the bytes a queue holds, that    *)
(* they keep both lists and total_ in step, and what nexthole() finds.     *)
(* Then, with SackEnds, what holds between a receiver, the ACKs it sent    *)
(* and the sender's scoreboard, whoever sends which segments.              *)
(***************************************************************************)
EXTENDS SackEnds, SequenceLemmas

-----------------------------------------------------------------------------
(* Lists of nodes.                                                         *)

Nodes == {b \in [s : Nat, e : Nat] : b.s < b.e}

(* h[n] is what Without keeps of the first n elements.                     *)
Keeps(h, q, B) ==
  /\ h[0] = <<>>
  /\ \A i \in 1..Len(q) : /\ q[i] \in B => h[i] = h[i - 1]
                          /\ q[i] \notin B => h[i] = Append(h[i - 1], q[i])

(* There is such a record, and Without is the last of its sequences.       *)
LEMMA WithoutSteps ==
  ASSUME NEW S, NEW q \in Seq(S), NEW B
  PROVE  \E h \in [0..Len(q) -> Seq(S)] :
           Keeps(h, q, B) /\ Without(q, B) = h[Len(q)]
<1> DEFINE n == Len(q)
           Step(i, w) == IF q[i] \in B THEN w ELSE Append(w, q[i])
           F == [i \in 1..n |-> [w \in Seq(S) |-> Step(i, w)]]
           Body(f) == [i \in 0..n |-> IF i = 0 THEN <<>> ELSE Step(i, f[i - 1])]
           kept == CHOOSE f : f = Body(f)
<1>1. n \in Nat /\ \A i \in 1..n : q[i] \in S
  BY ElementsFacts
<1>2. \A i \in 1..n : \A w \in Seq(S) : Step(i, w) \in Seq(S)
  BY <1>1, AppendProperties
<1>3. F \in [1..n -> [Seq(S) -> Seq(S)]] /\ <<>> \in Seq(S)
  BY <1>2, EmptySeq
<1>4. \A i \in 1..n : \A w \in Seq(S) : F[i][w] = Step(i, w)
  OBVIOUS
<1> HIDE DEF F, Step
<1>5. PICK h \in [0..n -> Seq(S)] : Records(h, F, <<>>, n)
  <2> HIDE DEF n
  <2> QED
    BY <1>1, <1>3, Iteration
<1>6. h[0] = <<>> /\ \A i \in 1..n : h[i - 1] \in Seq(S) /\ h[i] = Step(i, h[i - 1])
  <2>1. ASSUME NEW i \in 1..n PROVE h[i - 1] \in Seq(S) /\ h[i] = Step(i, h[i - 1])
    <3>1. i - 1 \in 0..n
      BY <1>1
    <3>2. h[i - 1] \in Seq(S) /\ h[i] = F[i][h[i - 1]]
      BY <1>5, <3>1 DEF Records
    <3> QED
      BY <1>4, <3>2
  <2> QED
    BY <1>5, <2>1 DEF Records
<1>7. Without(q, B) = kept[n]
  BY DEF Without, Step
<1>8. h = Body(h)
  <2>1. \A i \in 0..n : h[i] = IF i = 0 THEN <<>> ELSE Step(i, h[i - 1])
    BY <1>1, <1>6
  <2> HIDE DEF n
  <2> QED
    BY <2>1
<1>9. kept = Body(kept)
  BY <1>8
<1> HIDE DEF kept
<1>10. kept[0] = <<>> /\ \A i \in 1..n : kept[i] = Step(i, kept[i - 1])
  <2>1. \A i \in 0..n : kept[i] = Body(kept)[i]
    BY <1>9
  <2>2. 0 \in 0..n /\ \A i \in 1..n : i \in 0..n /\ i # 0
    BY <1>1
  <2> HIDE DEF n
  <2> QED
    BY <2>1, <2>2
<1>11. \A i \in 0..n : kept[i] = h[i]
  <2>1. InStep(kept, h, n)
    BY <1>6, <1>10 DEF InStep
  <2> HIDE DEF n
  <2> QED
    BY <1>1, <2>1, Agreement
<1>12. Without(q, B) = h[n]
  BY <1>1, <1>7, <1>11
<1>13. Keeps(h, q, B)
  BY <1>6 DEF Keeps, Step
<1> QED
  BY <1>12, <1>13

(* Without leaves the elements that are not in B, in their order.          *)
LEMMA WithoutFacts ==
  ASSUME NEW S, NEW q \in Seq(S), NEW B
  PROVE  /\ Without(q, B) \in Seq(S)
         /\ ToSet(Without(q, B)) = ToSet(q) \ B
         /\ \A R : Related(q, R) => Related(Without(q, B), R)
<1>1. PICK h \in [0..Len(q) -> Seq(S)] :
           Keeps(h, q, B) /\ Without(q, B) = h[Len(q)]
  BY WithoutSteps
<1>2. /\ Len(q) \in Nat /\ DOMAIN q = 1..Len(q)
      /\ \A i \in 1..Len(q) : q[i] \in S
  BY ElementsFacts
<1> DEFINE Upto(n) == {q[i] : i \in 1..n} \ B
           T == {n \in 0..Len(q) : /\ ToSet(h[n]) = Upto(n)
                                   /\ \A R : Related(q, R) => Related(h[n], R)}
<1>3. 0 \in T
  <2>1. ToSet(<<>>) = {}
    BY DEF ToSet
  <2>2. \A R : Related(<<>>, R)
    BY DEF Related
  <2>3. Upto(0) = {}
    OBVIOUS
  <2> QED
    BY <1>1, <1>2, <2>1, <2>2, <2>3 DEF Keeps
<1>4. ASSUME NEW n \in 1..Len(q), n - 1 \in T PROVE n \in T
  <2>1. Upto(n) = Upto(n - 1) \cup ({q[n]} \ B)
    <3>1. \A i \in 1..n : i = n \/ i \in 1..n - 1
      BY <1>2
    <3>2. n \in 1..n /\ \A i \in 1..n - 1 : i \in 1..n
      BY <1>2
    <3> QED
      BY <3>1, <3>2
  <2>2. h[n - 1] \in Seq(S) /\ q[n] \in S
    <3>1. n - 1 \in 0..Len(q)
      BY <1>2
    <3> QED
      BY <1>2, <3>1
  <2>3. ToSet(h[n - 1]) = Upto(n - 1)
    BY <1>4
  <2>4. CASE q[n] \in B
    <3>1. h[n] = h[n - 1] /\ Upto(n) = Upto(n - 1)
      BY <1>1, <2>1, <2>4 DEF Keeps
    <3> HIDE DEF Upto
    <3> QED
      BY <1>4, <3>1
  <2>5. CASE q[n] \notin B
    <3>1. h[n] = Append(h[n - 1], q[n])
      BY <1>1, <2>5 DEF Keeps
    <3>2. ToSet(h[n]) = Upto(n)
      <4>1. ToSet(h[n]) = ToSet(h[n - 1]) \cup {q[n]}
        BY <2>2, <3>1, AppendFacts
      <4> HIDE DEF Upto
      <4> QED
        BY <2>1, <2>3, <2>5, <4>1
    <3>3. ASSUME NEW R, Related(q, R) PROVE Related(h[n], R)
      <4>1. Related(h[n - 1], R)
        BY <1>4, <3>3
      <4>2. ASSUME NEW y \in ToSet(h[n - 1]) PROVE <<y, q[n]>> \in R
        <5>1. PICK i \in 1..n - 1 : y = q[i]
          BY <2>3, <4>2
        <5>2. i \in DOMAIN q /\ n \in DOMAIN q /\ i < n
          BY <1>2
        <5> QED
          BY <3>3, <5>1, <5>2 DEF Related
      <4> QED
        BY <2>2, <3>1, <4>1, <4>2, AppendFacts
    <3> HIDE DEF Upto
    <3> QED
      BY <3>2, <3>3
  <2> QED
    BY <2>4, <2>5
<1>5. Len(q) \in T
  <2>1. 0..Len(q) \subseteq T
    <3> HIDE DEF T
    <3> QED
      BY <1>2, <1>3, <1>4, InductionTo
  <2> QED
    BY <1>2, <2>1
<1>6. Upto(Len(q)) = ToSet(q) \ B
  BY <1>2 DEF ToSet
<1>7. Without(q, B) \in Seq(S)
  BY <1>1, <1>2
<1> HIDE DEF Upto
<1> QED
  BY <1>1, <1>5, <1>6, <1>7

(* Each node ends before the next one starts, or where it starts.          *)
Ordered(q) == \A i, j \in DOMAIN q : i < j => q[i].e <= q[j].s

(* The same as a relation, and as one that Once asks for.                  *)
Before == {p \in Nodes \X Nodes : p[1].e <= p[2].s}

Unequal == {p \in Nodes \X Nodes : p[1] # p[2]}

(* Both are what every pair of elements has in this relation.              *)
LEMMA AsRelations ==
  ASSUME NEW q \in Seq(Nodes)
  PROVE  /\ Ordered(q) <=> Related(q, Before)
         /\ Once(q) <=> Related(q, Unequal)
<1>1. /\ Len(q) \in Nat /\ DOMAIN q = 1..Len(q)
      /\ \A i \in 1..Len(q) : q[i] \in Nodes
  BY ElementsFacts
<1>2. Ordered(q) <=> Related(q, Before)
  <2>1. \A i, j \in 1..Len(q) : <<q[i], q[j]>> \in Before <=> q[i].e <= q[j].s
    BY <1>1 DEF Before
  <2> QED
    BY <1>1, <2>1 DEF Ordered, Related
<1>3. Once(q) <=> Related(q, Unequal)
  <2>1. \A i, j \in 1..Len(q) : <<q[i], q[j]>> \in Unequal <=> q[i] # q[j]
    BY <1>1 DEF Unequal
  <2>2. \A i, j \in 1..Len(q) : i < j \/ j < i \/ i = j
    BY <1>1
  <2>3. \A i \in 1..Len(q) : ~(i < i)
    BY <1>1
  <2> QED
    BY <1>1, <2>1, <2>2, <2>3 DEF Once, Related
<1> QED
  BY <1>2, <1>3

(* The nodes of an ordered list share no byte; the head is the first.      *)
LEMMA OrderedFacts ==
  ASSUME NEW q \in Seq(Nodes), Ordered(q)
  PROVE  /\ Once(q)
         /\ \A x, y \in ToSet(q) : x = y \/ x.e <= y.s \/ y.e <= x.s
         /\ q # <<>> => /\ Head(q) \in ToSet(q) /\ Head(q) = q[1]
                        /\ \A x \in ToSet(q) : x = Head(q) \/ Head(q).e <= x.s
<1>1. /\ Len(q) \in Nat /\ DOMAIN q = 1..Len(q)
      /\ \A i \in 1..Len(q) : q[i] \in Nodes /\ q[i] \in ToSet(q)
      /\ \A x \in ToSet(q) : \E i \in 1..Len(q) : x = q[i]
  BY ElementsFacts
<1>2. \A i, j \in 1..Len(q) : i < j => q[i].e <= q[j].s
  BY <1>1 DEF Ordered
<1>3. \A i, j \in 1..Len(q) : i < j \/ j < i \/ i = j
  BY <1>1
<1>4. \A i \in 1..Len(q) : q[i].s \in Nat /\ q[i].e \in Nat /\ q[i].s < q[i].e
  BY <1>1 DEF Nodes
<1>5. Once(q)
  <2>1. \A i, j \in 1..Len(q) : i < j => q[i] # q[j]
    BY <1>2, <1>4
  <2> QED
    BY <1>1, <1>3, <2>1 DEF Once
<1>6. \A x, y \in ToSet(q) : x = y \/ x.e <= y.s \/ y.e <= x.s
  BY <1>1, <1>2, <1>3
<1>7. ASSUME q # <<>>
      PROVE  /\ Head(q) \in ToSet(q) /\ Head(q) = q[1]
             /\ \A x \in ToSet(q) : x = Head(q) \/ Head(q).e <= x.s
  <2>1. Len(q) \in Nat \ {0} /\ Head(q) = q[1]
    BY <1>7, EmptySeq
  <2>2. 1 \in 1..Len(q) /\ \A i \in 1..Len(q) : i = 1 \/ 1 < i
    BY <2>1
  <2> QED
    BY <1>1, <1>2, <2>1, <2>2
<1> QED
  BY <1>5, <1>6, <1>7

-----------------------------------------------------------------------------
(* The bytes of a set of nodes.                                            *)

Cover(S) == UNION {b.s .. b.e - 1 : b \in S}

(* A byte is covered if some node holds it.                                *)
LEMMA CoverFacts ==
  ASSUME NEW S, S \subseteq Nodes
  PROVE  /\ \A x : x \in Cover(S) <=> x \in Nat /\ \E b \in S : b.s <= x /\ x < b.e
         /\ \A q : ToSet(q) = S => Bytes(q) = Cover(S)
<1>1. \A x : x \in Cover(S) <=> \E b \in S : x \in b.s .. b.e - 1
  BY DEF Cover
<1>2. \A b \in S : b.s \in Nat /\ b.e \in Nat
  BY DEF Nodes
<1>3. \A x : \A b \in S : x \in b.s .. b.e - 1 <=> x \in Nat /\ b.s <= x /\ x < b.e
  BY <1>2
<1>4. \A x : x \in Cover(S) <=> x \in Nat /\ \E b \in S : b.s <= x /\ x < b.e
  BY <1>1, <1>3
<1>5. \A q : ToSet(q) = S => Bytes(q) = Cover(S)
  BY DEF Bytes, Cover
<1> QED
  BY <1>4, <1>5

(* h[n] is the number of bytes of the first n nodes.                       *)
Counts(h, q) ==
  /\ h = [i \in 0..Len(q) |-> h[i]]
  /\ h[0] = 0
  /\ \A i \in 1..Len(q) : h[i] = h[i - 1] + (q[i].e - q[i].s)

(* SumBytes is the last of such numbers.                                   *)
LEMMA SumBytesCounts ==
  ASSUME NEW q \in Seq(Nodes), NEW h, Counts(h, q)
  PROVE  SumBytes(q) = h[Len(q)]
<1> DEFINE n == Len(q)
           Body(f) == [i \in 0..n |-> IF i = 0 THEN 0 ELSE f[i - 1] + (q[i].e - q[i].s)]
           sum == CHOOSE f : f = Body(f)
<1>1. n \in Nat
  BY LenProperties
<1>2. h[0] = 0 /\ \A i \in 1..n : h[i] = h[i - 1] + (q[i].e - q[i].s)
  BY DEF Counts
<1>3. h = [i \in 0..n |-> h[i]]
  BY DEF Counts
<1>4. SumBytes(q) = sum[n]
  BY DEF SumBytes
<1>5. n = Len(q)
  OBVIOUS
<1> HIDE DEF n
<1>6. h = Body(h)
  <2>1. ASSUME NEW i \in 0..n
        PROVE  h[i] = IF i = 0 THEN 0 ELSE h[i - 1] + (q[i].e - q[i].s)
    <3>1. i = 0 \/ (i # 0 /\ i \in 1..n)
      BY <1>1
    <3> QED
      BY <1>2, <3>1
  <2> QED
    BY <1>3, <2>1
<1>7. sum = Body(sum)
  BY <1>6
<1> HIDE DEF sum
<1>8. sum[0] = 0 /\ \A i \in 1..n : sum[i] = sum[i - 1] + (q[i].e - q[i].s)
  <2>1. \A i \in 0..n : sum[i] = Body(sum)[i]
    BY <1>7
  <2>2. 0 \in 0..n /\ \A i \in 1..n : i \in 0..n /\ i # 0
    BY <1>1
  <2> QED
    BY <2>1, <2>2
<1>9. \A i \in 0..n : sum[i] = h[i]
  <2>1. InStep(sum, h, n)
    BY <1>2, <1>8 DEF InStep
  <2> QED
    BY <1>1, <2>1, Agreement
<1> QED
  BY <1>1, <1>4, <1>5, <1>9

(* cnts() and total_ add up the lengths of nodes; in an ordered list that  *)
(* is the number of bytes.                                                 *)
LEMMA SumBytesFacts ==
  ASSUME NEW q \in Seq(Nodes), Ordered(q)
  PROVE  /\ IsFiniteSet(Cover(ToSet(q))) /\ Cardinality(Cover(ToSet(q))) \in Nat
         /\ SumBytes(q) = Cardinality(Cover(ToSet(q)))
<1> DEFINE n == Len(q)
           First(i) == Cover({q[k] : k \in 1..i})
           h == [i \in 0..n |-> Cardinality(First(i))]
           T == {i \in 0..n : /\ IsFiniteSet(First(i))
                              /\ i > 0 => h[i] = h[i - 1] + (q[i].e - q[i].s)}
<1>1. /\ n \in Nat /\ DOMAIN q = 1..n
      /\ \A i \in 1..n : q[i] \in Nodes
  BY ElementsFacts
<1>2. First(0) = {} /\ IsFiniteSet(First(0)) /\ Cardinality(First(0)) = 0
  <2>1. First(0) = {}
    BY DEF Cover
  <2> QED
    BY <2>1, FS_EmptySet
<1>3. 0 \in T
  BY <1>1, <1>2
<1>4. ASSUME NEW i \in 1..n, i - 1 \in T PROVE i \in T
  <2> DEFINE I == q[i].s .. q[i].e - 1
  <2>1. q[i].s \in Nat /\ q[i].e \in Nat /\ q[i].s < q[i].e
    BY <1>1 DEF Nodes
  <2>2. IsFiniteSet(I) /\ Cardinality(I) = q[i].e - q[i].s
    <3>1. ASSUME NEW lo \in Nat, NEW hi \in Nat, lo < hi
          PROVE  IsFiniteSet(lo .. hi - 1) /\ Cardinality(lo .. hi - 1) = hi - lo
      <4>1. lo \in Int /\ hi - 1 \in Int /\ ~(lo > hi - 1)
        BY <3>1
      <4> QED
        BY <4>1, FS_Interval
    <3> QED
      BY <2>1, <3>1
  <2>3. First(i) = First(i - 1) \cup I
    <3>1. \A k \in 1..i : k = i \/ k \in 1..i - 1
      BY <1>1
    <3>2. i \in 1..i /\ \A k \in 1..i - 1 : k \in 1..i
      BY <1>1
    <3>3. {q[k] : k \in 1..i} = {q[k] : k \in 1..i - 1} \cup {q[i]}
      BY <3>1, <3>2
    <3> QED
      BY <3>3 DEF Cover
  <2>4. First(i - 1) \cap I = {}
    <3>1. SUFFICES ASSUME NEW x \in First(i - 1), x \in I PROVE FALSE
      OBVIOUS
    <3>2. PICK k \in 1..i - 1 : x \in q[k].s .. q[k].e - 1
      BY DEF Cover
    <3>3. k \in 1..n /\ k < i
      BY <1>1
    <3>4. q[k].e <= q[i].s
      BY <1>1, <3>3 DEF Ordered
    <3>5. q[k].s \in Nat /\ q[k].e \in Nat
      BY <1>1, <3>3 DEF Nodes
    <3> QED
      BY <2>1, <3>1, <3>2, <3>4, <3>5
  <2>5. IsFiniteSet(First(i - 1))
    BY <1>4
  <2> HIDE DEF I, First
  <2>6. /\ IsFiniteSet(First(i))
        /\ Cardinality(First(i)) = Cardinality(First(i - 1)) + Cardinality(I) - Cardinality({})
    BY <2>2, <2>3, <2>4, <2>5, FS_Union
  <2>7. Cardinality({}) = 0 /\ Cardinality(First(i - 1)) \in Nat
    BY <2>5, FS_EmptySet, FS_CardinalityType
  <2>8. i - 1 \in 0..n /\ i \in 0..n
    BY <1>1
  <2>9. h[i] = h[i - 1] + (q[i].e - q[i].s)
    BY <2>1, <2>2, <2>6, <2>7, <2>8
  <2> QED
    BY <2>6, <2>8, <2>9
<1> HIDE DEF First
<1>5. 0..n \subseteq T
  <2> HIDE DEF T, n
  <2> QED
    BY <1>1, <1>3, <1>4, InductionTo
<1>6. SumBytes(q) = h[n]
  <2>1. Counts(h, q)
    <3>1. h[0] = 0
      BY <1>1, <1>2
    <3>2. \A i \in 1..n : i > 0 /\ i \in T
      BY <1>1, <1>5
    <3>3. h = [i \in 0..n |-> h[i]]
      OBVIOUS
    <3> QED
      BY <3>1, <3>2, <3>3 DEF Counts
  <2> HIDE DEF h
  <2> QED
    BY <2>1, SumBytesCounts
<1>7. First(n) = Cover(ToSet(q))
  BY <1>1 DEF First, ToSet
<1>8. n \in 0..n /\ n \in T
  BY <1>1, <1>5
<1>9. h[n] = Cardinality(First(n)) /\ IsFiniteSet(First(n))
  BY <1>8
<1> QED
  BY <1>6, <1>7, <1>9, FS_CardinalityType

-----------------------------------------------------------------------------
(* Queues whose two lists hold the same nodes.                             *)

RawQueues == [fifo : Seq(Nodes), lifo : Seq(Nodes), total : Int, nxt : Int]

(* S is the set of the nodes of r.                                         *)
Lists(r, S) ==
  /\ r \in RawQueues
  /\ Ordered(r.fifo) /\ ToSet(r.fifo) = S
  /\ Once(r.lifo) /\ ToSet(r.lifo) = S

(* What the lists hold are nodes.                                          *)
LEMMA ListsFacts ==
  ASSUME NEW r, NEW S, Lists(r, S)
  PROVE  /\ r.fifo \in Seq(Nodes) /\ r.lifo \in Seq(Nodes)
         /\ r.total \in Int /\ r.nxt \in Int
         /\ S \subseteq Nodes
         /\ \A b \in S : b.s \in Nat /\ b.e \in Nat /\ b.s < b.e
         /\ \A x, y \in S : x = y \/ x.e <= y.s \/ y.e <= x.s
<1>1. /\ r.fifo \in Seq(Nodes) /\ r.lifo \in Seq(Nodes)
      /\ r.total \in Int /\ r.nxt \in Int
  BY DEF Lists, RawQueues
<1>2. ToSet(r.fifo) = S /\ Ordered(r.fifo)
  BY DEF Lists
<1>3. S \subseteq Nodes
  BY <1>1, <1>2, ElementsFacts
<1>4. \A b \in S : b.s \in Nat /\ b.e \in Nat /\ b.s < b.e
  BY <1>3 DEF Nodes
<1>5. \A x, y \in S : x = y \/ x.e <= y.s \/ y.e <= x.s
  BY <1>1, <1>2, OrderedFacts
<1> QED
  BY <1>1, <1>3, <1>4, <1>5

(* fremove and sremove take the same nodes from both lists.                *)
LEMMA UnlinkFacts ==
  ASSUME NEW r, NEW S, Lists(r, S), NEW B
  PROVE  /\ Lists(Unlink(r, B), S \ B)
         /\ Unlink(r, B).total = r.total /\ Unlink(r, B).nxt = r.nxt
<1> DEFINE f == Without(r.fifo, B)
           l == Without(r.lifo, B)
           u == Unlink(r, B)
<1>1. r.fifo \in Seq(Nodes) /\ r.lifo \in Seq(Nodes)
  BY ListsFacts
<1>2. f \in Seq(Nodes) /\ l \in Seq(Nodes)
  BY <1>1, WithoutFacts
<1>3. ToSet(f) = S \ B /\ ToSet(l) = S \ B
  BY <1>1, WithoutFacts DEF Lists
<1>4. Ordered(f)
  <2>1. Related(r.fifo, Before)
    BY <1>1, AsRelations DEF Lists
  <2>2. Related(f, Before)
    BY <1>1, <2>1, WithoutFacts
  <2> HIDE DEF f
  <2> QED
    BY <1>2, <2>2, AsRelations
<1>5. Once(l)
  <2>1. Related(r.lifo, Unequal)
    BY <1>1, AsRelations DEF Lists
  <2>2. Related(l, Unequal)
    BY <1>1, <2>1, WithoutFacts
  <2> HIDE DEF l
  <2> QED
    BY <1>2, <2>2, AsRelations
<1>6. u = [r EXCEPT !.fifo = f, !.lifo = l]
  BY DEF Unlink
<1> HIDE DEF f, l, u
<1>7. /\ u \in RawQueues /\ u.fifo = f /\ u.lifo = l
      /\ u.total = r.total /\ u.nxt = r.nxt
  BY <1>2, <1>6 DEF Lists, RawQueues
<1>8. Lists(u, S \ B)
  BY <1>3, <1>4, <1>5, <1>7 DEF Lists
<1> QED
  BY <1>7, <1>8 DEF u

(* w is q with c in the place of b.                                        *)
Swapped(w, q, b, c) ==
  /\ Len(w) = Len(q)
  /\ \A i \in 1..Len(q) : w[i] = IF q[i] = b THEN c ELSE q[i]

(* A node is replaced in place.                                            *)
LEMMA ReplaceAllFacts ==
  ASSUME NEW q \in Seq(Nodes), NEW b \in ToSet(q), NEW c \in Nodes
  PROVE  /\ ReplaceAll(q, b, c) \in Seq(Nodes)
         /\ Len(ReplaceAll(q, b, c)) = Len(q)
         /\ ToSet(ReplaceAll(q, b, c)) = (ToSet(q) \ {b}) \cup {c}
         /\ \A i \in 1..Len(q) :
              ReplaceAll(q, b, c)[i] = IF q[i] = b THEN c ELSE q[i]
<1> DEFINE w == ReplaceAll(q, b, c)
<1>1. /\ Len(q) \in Nat /\ DOMAIN q = 1..Len(q)
      /\ \A i \in 1..Len(q) : q[i] \in Nodes /\ q[i] \in ToSet(q)
      /\ \A x \in ToSet(q) : \E i \in 1..Len(q) : x = q[i]
  BY ElementsFacts
<1>2. /\ DOMAIN w = 1..Len(q)
      /\ \A i \in 1..Len(q) : w[i] = IF q[i] = b THEN c ELSE q[i]
  BY DEF ReplaceAll
<1>3. w \in [1..Len(q) -> Nodes]
  BY <1>1 DEF ReplaceAll
<1> HIDE DEF w
<1>4. w \in Seq(Nodes) /\ Len(w) = Len(q)
  <2>1. w \in Seq(Nodes)
    BY <1>1, <1>3, IsASeq
  <2>2. Len(w) \in Nat /\ DOMAIN w = 1..Len(w)
    BY <2>1, LenProperties
  <2> QED
    BY <1>1, <1>2, <2>1, <2>2
<1>5. ToSet(w) = (ToSet(q) \ {b}) \cup {c}
  <2>1. \A x : x \in ToSet(w) <=> \E i \in 1..Len(q) : x = w[i]
    BY <1>2 DEF ToSet
  <2>2. \A x \in ToSet(w) : x \in (ToSet(q) \ {b}) \cup {c}
    BY <1>1, <1>2, <2>1
  <2>3. \A x \in ToSet(q) \ {b} : x \in ToSet(w)
    BY <1>1, <1>2, <2>1
  <2>4. c \in ToSet(w)
    BY <1>1, <1>2, <2>1
  <2> QED
    BY <2>2, <2>3, <2>4
<1> QED
  BY <1>2, <1>4, <1>5 DEF w

(* c is between the same neighbours in S as b.                             *)
Fits(S, b, c) ==
  \A x \in S \ {b} : /\ x.e <= b.s => x.e <= c.s
                     /\ b.e <= x.s => c.e <= x.s

(* A node changes on both lists; it must stay between its neighbours.      *)
LEMMA ChangeFacts ==
  ASSUME NEW r, NEW S, Lists(r, S), NEW b \in S, NEW c \in Nodes, c = b \/ c \notin S,
         Fits(S, b, c)
  PROVE  /\ Lists(Change(r, b, c), (S \ {b}) \cup {c})
         /\ Change(r, b, c).total = r.total /\ Change(r, b, c).nxt = r.nxt
         /\ Swapped(Change(r, b, c).fifo, r.fifo, b, c)
<1> DEFINE f == ReplaceAll(r.fifo, b, c)
           l == ReplaceAll(r.lifo, b, c)
           u == Change(r, b, c)
<1>1. /\ r.fifo \in Seq(Nodes) /\ r.lifo \in Seq(Nodes)
      /\ ToSet(r.fifo) = S /\ ToSet(r.lifo) = S
  BY ListsFacts DEF Lists
<1>2. /\ f \in Seq(Nodes) /\ Len(f) = Len(r.fifo) /\ ToSet(f) = (S \ {b}) \cup {c}
      /\ \A i \in 1..Len(r.fifo) : f[i] = IF r.fifo[i] = b THEN c ELSE r.fifo[i]
  BY <1>1, ReplaceAllFacts
<1>3. /\ l \in Seq(Nodes) /\ Len(l) = Len(r.lifo) /\ ToSet(l) = (S \ {b}) \cup {c}
      /\ \A i \in 1..Len(r.lifo) : l[i] = IF r.lifo[i] = b THEN c ELSE r.lifo[i]
  BY <1>1, ReplaceAllFacts
<1>4. u = [r EXCEPT !.fifo = f, !.lifo = l]
  BY DEF Change
<1> HIDE DEF f, l, u
<1>5. Ordered(f)
  <2>1. /\ DOMAIN f = 1..Len(r.fifo) /\ DOMAIN r.fifo = 1..Len(r.fifo)
        /\ \A i \in 1..Len(r.fifo) : r.fifo[i] \in S
    BY <1>1, <1>2, ElementsFacts
  <2>2. Once(r.fifo) /\ \A x \in S : x.s < x.e /\ x.s \in Nat /\ x.e \in Nat
    BY <1>1, OrderedFacts, ListsFacts DEF Lists
  <2>3. ASSUME NEW i \in 1..Len(r.fifo), NEW j \in 1..Len(r.fifo), i < j
        PROVE  f[i].e <= f[j].s
    <3>1. r.fifo[i].e <= r.fifo[j].s
      BY <2>1, <2>3 DEF Lists, Ordered
    <3>2. r.fifo[i] # r.fifo[j]
      BY <2>1, <2>2, <2>3, <3>1
    <3>3. CASE r.fifo[i] = b
      BY <1>2, <2>1, <3>1, <3>2, <3>3 DEF Fits
    <3>4. CASE r.fifo[j] = b
      BY <1>2, <2>1, <3>1, <3>2, <3>4 DEF Fits
    <3>5. CASE r.fifo[i] # b /\ r.fifo[j] # b
      BY <1>2, <3>1, <3>5
    <3> QED
      BY <3>3, <3>4, <3>5
  <2> QED
    BY <2>1, <2>3 DEF Ordered
<1>6. Once(l)
  <2>1. /\ DOMAIN l = 1..Len(r.lifo) /\ DOMAIN r.lifo = 1..Len(r.lifo)
        /\ \A i \in 1..Len(r.lifo) : r.lifo[i] \in S
    BY <1>1, <1>3, ElementsFacts
  <2>2. \A i, j \in 1..Len(r.lifo) : r.lifo[i] = r.lifo[j] => i = j
    BY <2>1 DEF Lists, Once
  <2>3. \A i, j \in 1..Len(r.lifo) : l[i] = l[j] => i = j
    BY <1>3, <2>1, <2>2
  <2> QED
    BY <2>1, <2>3 DEF Once
<1>7. /\ u \in RawQueues /\ u.fifo = f /\ u.lifo = l
      /\ u.total = r.total /\ u.nxt = r.nxt
  BY <1>2, <1>3, <1>4 DEF Lists, RawQueues
<1>8. Lists(u, (S \ {b}) \cup {c})
  BY <1>2, <1>3, <1>5, <1>6, <1>7 DEF Lists
<1> QED
  BY <1>2, <1>7, <1>8 DEF u, Swapped

(* A new node, as endfast links it in behind the k-th one.                 *)
Linked(r, k, n) ==
  [r EXCEPT !.fifo = InsertAt(@, k + 1, n),
            !.lifo = <<n>> \o @,
            !.total = @ + n.e - n.s]

(* n goes behind the k-th node.                                            *)
Behind(q, k, n) ==
  /\ \A i \in 1..k : q[i].e <= n.s
  /\ \A i \in k + 1..Len(q) : n.e <= q[i].s

(* It is on both lists, in its place.                                      *)
LEMMA LinkedFacts ==
  ASSUME NEW r, NEW S, Lists(r, S), NEW k \in 0..Len(r.fifo), NEW n \in Nodes,
         Behind(r.fifo, k, n)
  PROVE  /\ Lists(Linked(r, k, n), S \cup {n}) /\ n \notin S
         /\ Linked(r, k, n).total = r.total + n.e - n.s
         /\ Linked(r, k, n).nxt = r.nxt
<1> DEFINE f == InsertAt(r.fifo, k + 1, n)
           l == <<n>> \o r.lifo
           u == Linked(r, k, n)
<1>1. /\ r.fifo \in Seq(Nodes) /\ r.lifo \in Seq(Nodes)
      /\ ToSet(r.fifo) = S /\ ToSet(r.lifo) = S
      /\ r.total \in Int
  BY ListsFacts DEF Lists
<1>2. /\ Len(r.fifo) \in Nat /\ Len(r.lifo) \in Nat
      /\ \A i \in 1..Len(r.fifo) : r.fifo[i] \in Nodes
      /\ \A x \in S : \E i \in 1..Len(r.fifo) : x = r.fifo[i]
      /\ \A i \in 1..Len(r.lifo) : r.lifo[i] \in S /\ r.lifo[i] \in Nodes
  <2>1. /\ Len(r.fifo) \in Nat
        /\ \A i \in 1..Len(r.fifo) : r.fifo[i] \in Nodes
        /\ \A x \in ToSet(r.fifo) : \E i \in 1..Len(r.fifo) : x = r.fifo[i]
    BY <1>1, ElementsFacts
  <2>2. /\ Len(r.lifo) \in Nat
        /\ \A i \in 1..Len(r.lifo) : r.lifo[i] \in ToSet(r.lifo) /\ r.lifo[i] \in Nodes
    BY <1>1, ElementsFacts
  <2> QED
    BY <1>1, <2>1, <2>2
<1>3. n.s \in Nat /\ n.e \in Nat /\ n.s < n.e
  BY DEF Nodes
<1>4. k + 1 \in 1..Len(r.fifo) + 1 /\ 1 \in 1..Len(r.lifo) + 1 /\ (k + 1) - 1 = k
  BY <1>2
<1>5. u = [r EXCEPT !.fifo = f, !.lifo = l, !.total = @ + n.e - n.s]
  BY DEF Linked
<1>6. f \in Seq(Nodes) /\ Inserted(f, r.fifo, k + 1, n)
  BY <1>1, <1>4, InsertingFacts
<1>7. l \in Seq(Nodes) /\ Inserted(l, r.lifo, 1, n)
  BY <1>1, InsertingFacts
<1> HIDE DEF f, l, u
<1>8. n \notin S
  <2>1. \A i \in 1..Len(r.fifo) :
          r.fifo[i].s \in Nat /\ r.fifo[i].e \in Nat /\ r.fifo[i].s < r.fifo[i].e
    BY <1>2 DEF Nodes
  <2>2. \A i \in 1..Len(r.fifo) : i \in 1..k \/ i \in k + 1..Len(r.fifo)
    BY <1>2
  <2>3. \A i \in 1..Len(r.fifo) : r.fifo[i].e <= n.s \/ n.e <= r.fifo[i].s
    BY <2>2 DEF Behind
  <2>4. \A i \in 1..Len(r.fifo) : r.fifo[i] # n
    BY <1>3, <2>1, <2>3
  <2> QED
    BY <1>2, <2>4
<1>9. ToSet(f) = S \cup {n} /\ Ordered(f)
  <2>1. Related(r.fifo, Before)
    BY <1>1, AsRelations DEF Lists
  <2>2. \A i \in 1..(k + 1) - 1 : <<r.fifo[i], n>> \in Before
    <3>1. \A i \in 1..k : r.fifo[i] \in Nodes /\ r.fifo[i].e <= n.s
      BY <1>2 DEF Behind
    <3> QED
      BY <1>4, <3>1 DEF Before
  <2>3. \A i \in k + 1..Len(r.fifo) : <<n, r.fifo[i]>> \in Before
    <3>1. \A i \in k + 1..Len(r.fifo) : r.fifo[i] \in Nodes /\ n.e <= r.fifo[i].s
      BY <1>2 DEF Behind
    <3> QED
      BY <3>1 DEF Before
  <2>4. Related(f, Before) /\ ToSet(f) = S \cup {n}
    <3>1. Between(r.fifo, k + 1, n, Before)
      BY <2>2, <2>3 DEF Between
    <3> QED
      BY <1>1, <1>4, <1>6, <2>1, <3>1, InsertedFacts
  <2> QED
    BY <1>6, <2>4, AsRelations
<1>10. ToSet(l) = S \cup {n} /\ Once(l)
  <2>1. Related(r.lifo, Unequal)
    BY <1>1, AsRelations DEF Lists
  <2>2. \A i \in 1..1 - 1 : <<r.lifo[i], n>> \in Unequal
    OBVIOUS
  <2>3. \A i \in 1..Len(r.lifo) : <<n, r.lifo[i]>> \in Unequal
    BY <1>2, <1>8 DEF Unequal
  <2>4. Between(r.lifo, 1, n, Unequal)
    BY <2>2, <2>3 DEF Between
  <2>5. Related(l, Unequal) /\ ToSet(l) = S \cup {n}
    BY <1>1, <1>4, <1>7, <2>1, <2>4, InsertedFacts
  <2> QED
    BY <1>7, <2>5, AsRelations
<1>11. /\ u \in RawQueues /\ u.fifo = f /\ u.lifo = l
       /\ u.total = r.total + n.e - n.s /\ u.nxt = r.nxt
  <2>1. r \in RawQueues
    BY DEF Lists
  <2>2. r.total + n.e - n.s \in Int
    BY <1>1, <1>3
  <2> QED
    BY <1>5, <1>6, <1>7, <2>1, <2>2 DEF RawQueues
<1>12. Lists(u, S \cup {n})
  BY <1>9, <1>10, <1>11 DEF Lists
<1> QED
  BY <1>8, <1>11, <1>12 DEF u

-----------------------------------------------------------------------------
(* Queues as they are between two calls.                                   *)

(* Nodes that touch or overlap have been joined.                           *)
Apart(S) == \A b, c \in S : b = c \/ b.e < c.s \/ c.e < b.s

(* Both lists hold the same nodes, in order on one of them, and total_     *)
(* counts their bytes.                                                     *)
Sound(r) ==
  /\ Lists(r, ToSet(r.fifo))
  /\ Apart(ToSet(r.fifo))
  /\ r.total = Cardinality(Cover(ToSet(r.fifo)))

(* No byte is both of some nodes and of the others.                        *)
LEMMA CoverSets ==
  ASSUME NEW r, NEW S, Lists(r, S), NEW B, B \subseteq S
  PROVE  /\ Cover(S \ B) = Cover(S) \ Cover(B)
         /\ Cover(S) = Cover(S \ B) \cup Cover(B)
<1>1. /\ S \subseteq Nodes
      /\ \A b \in S : b.s \in Nat /\ b.e \in Nat /\ b.s < b.e
      /\ \A x, y \in S : x = y \/ x.e <= y.s \/ y.e <= x.s
  BY ListsFacts
<1>3. B \subseteq Nodes /\ S \ B \subseteq Nodes
  BY <1>1
<1>4. Cover(S) = Cover(S \ B) \cup Cover(B)
  BY DEF Cover
<1>5. Cover(S \ B) \cap Cover(B) = {}
  <2>1. ASSUME NEW x \in Cover(S \ B), x \in Cover(B) PROVE FALSE
    <3>1. x \in Nat
      BY <1>3, <2>1, CoverFacts
    <3>2. PICK b \in S \ B : b.s <= x /\ x < b.e
      BY <1>3, CoverFacts
    <3>3. PICK c \in B : c.s <= x /\ x < c.e
      BY <1>3, <2>1, CoverFacts
    <3>4. b \in S /\ c \in S /\ b # c
      BY <3>2, <3>3
    <3>5. b.e <= c.s \/ c.e <= b.s
      BY <1>1, <3>4
    <3>6. b.s \in Nat /\ b.e \in Nat /\ c.s \in Nat /\ c.e \in Nat
      BY <1>1, <3>4
    <3> QED
      BY <3>1, <3>2, <3>3, <3>5, <3>6
  <2> QED
    BY <2>1
<1>6. Cover(S \ B) = Cover(S) \ Cover(B)
  BY <1>4, <1>5
<1> QED
  BY <1>4, <1>6

(* Their numbers add up.                                                   *)
LEMMA CoverSplit ==
  ASSUME NEW r, NEW S, Lists(r, S), NEW B, B \subseteq S
  PROVE  /\ Cardinality(Cover(S)) = Cardinality(Cover(S \ B)) + Cardinality(Cover(B))
         /\ Cardinality(Cover(S)) \in Nat /\ Cardinality(Cover(B)) \in Nat
         /\ Cardinality(Cover(S \ B)) \in Nat
<1>1. IsFiniteSet(Cover(S))
  BY ListsFacts, SumBytesFacts DEF Lists
<1>2. Cover(S) = Cover(S \ B) \cup Cover(B) /\ Cover(S \ B) = Cover(S) \ Cover(B)
  BY CoverSets
<1>3. Cover(S \ B) \cap Cover(B) = {}
  BY <1>2
<1>4. IsFiniteSet(Cover(S \ B)) /\ IsFiniteSet(Cover(B))
  BY <1>1, <1>2, FS_Subset
<1>5. /\ Cardinality(Cover(S)) \in Nat /\ Cardinality(Cover(B)) \in Nat
      /\ Cardinality(Cover(S \ B)) \in Nat
  BY <1>1, <1>4, FS_CardinalityType
<1>6. Cardinality(Cover(S \ B) \cup Cover(B))
        = Cardinality(Cover(S \ B)) + Cardinality(Cover(B)) - Cardinality({})
  BY <1>3, <1>4, FS_Union
<1>7. Cardinality({}) = 0
  BY FS_EmptySet
<1> QED
  BY <1>2, <1>5, <1>6, <1>7

(* One node holds its length.                                              *)
LEMMA CoverOne ==
  ASSUME NEW b \in Nodes
  PROVE  /\ Cover({b}) = b.s .. b.e - 1
         /\ Cardinality(Cover({b})) = b.e - b.s
<1>1. Cover({b}) = b.s .. b.e - 1
  BY DEF Cover
<1>2. ASSUME NEW lo \in Nat, NEW hi \in Nat, lo < hi
      PROVE  Cardinality(lo .. hi - 1) = hi - lo
  <2>1. lo \in Int /\ hi - 1 \in Int /\ ~(lo > hi - 1)
    BY <1>2
  <2> QED
    BY <2>1, FS_Interval
<1> QED
  BY <1>1, <1>2 DEF Nodes

(* A node adds its length.                                                 *)
LEMMA CoverAdd ==
  ASSUME NEW r, NEW U, Lists(r, U), NEW c \in U
  PROVE  /\ Cardinality(Cover(U)) = Cardinality(Cover(U \ {c})) + (c.e - c.s)
         /\ Cardinality(Cover(U)) \in Nat /\ Cardinality(Cover(U \ {c})) \in Nat
<1>1. {c} \subseteq U /\ c \in Nodes
  BY ListsFacts
<1>2. /\ Cardinality(Cover(U)) = Cardinality(Cover(U \ {c})) + Cardinality(Cover({c}))
      /\ Cardinality(Cover(U)) \in Nat /\ Cardinality(Cover(U \ {c})) \in Nat
  BY <1>1, CoverSplit
<1> QED
  BY <1>1, <1>2, CoverOne

(* Deleted nodes leave both lists and total_.                              *)
LEMMA DropFacts ==
  ASSUME NEW r, Sound(r), NEW B, B \subseteq ToSet(r.fifo)
  PROVE  /\ Sound(Drop(r, B))
         /\ ToSet(Drop(r, B).fifo) = ToSet(r.fifo) \ B
         /\ Drop(r, B).nxt = r.nxt
<1> DEFINE S == ToSet(r.fifo)
           o == Only(r.fifo, B)
           u == Unlink(r, B)
           d == Drop(r, B)
<1>1. Lists(r, S) /\ r.fifo \in Seq(Nodes) /\ r.total = Cardinality(Cover(S))
  BY ListsFacts DEF Sound
<1>2. /\ Lists(u, S \ B) /\ u.total = r.total /\ u.nxt = r.nxt
  BY <1>1, UnlinkFacts
<1>3. o \in Seq(Nodes) /\ ToSet(o) = B /\ Ordered(o)
  <2>1. /\ o \in Seq(Nodes) /\ ToSet(o) = S \ (S \ B)
        /\ \A R : Related(r.fifo, R) => Related(o, R)
    BY <1>1, WithoutFacts DEF Only
  <2>2. Related(r.fifo, Before)
    BY <1>1, AsRelations DEF Lists
  <2>3. S \ (S \ B) = B
    OBVIOUS
  <2> HIDE DEF o
  <2> QED
    BY <2>1, <2>2, <2>3, AsRelations
<1>4. SumBytes(o) = Cardinality(Cover(B))
  BY <1>3, SumBytesFacts
<1>5. d = [u EXCEPT !.total = @ - SumBytes(o)]
  BY DEF Drop
<1>6. B \subseteq S
  OBVIOUS
<1> HIDE DEF S, o, u, d
<1>7. /\ Cardinality(Cover(S)) = Cardinality(Cover(S \ B)) + Cardinality(Cover(B))
      /\ Cardinality(Cover(S \ B)) \in Nat /\ Cardinality(Cover(B)) \in Nat
  BY <1>1, <1>6, CoverSplit
<1>8. u.total - SumBytes(o) = Cardinality(Cover(S \ B))
  BY <1>1, <1>2, <1>4, <1>7
<1>9. /\ d \in RawQueues /\ d.fifo = u.fifo /\ d.lifo = u.lifo
      /\ d.total = Cardinality(Cover(S \ B)) /\ d.nxt = r.nxt
  BY <1>2, <1>5, <1>7, <1>8 DEF Lists, RawQueues
<1>10. Lists(d, S \ B) /\ ToSet(d.fifo) = S \ B
  BY <1>2, <1>9 DEF Lists
<1>11. Apart(S \ B)
  BY DEF Sound, Apart, S
<1>12. Sound(d)
  BY <1>9, <1>10, <1>11 DEF Sound
<1> QED
  BY <1>9, <1>10, <1>12 DEF S, d

(* startseq_ or endseq_ of a node moves, and total_ with it.               *)
Reshaped(r, b, c) == [Change(r, b, c) EXCEPT !.total = @ + (c.e - c.s) - (b.e - b.s)]

(* c is between the same neighbours as b and touches neither.              *)
FitsApart(S, b, c) ==
  \A x \in S \ {b} : /\ x.e < b.s => x.e < c.s
                     /\ b.e < x.s => c.e < x.s

(* As long as the node does not reach another one, the queue stays sound.  *)
LEMMA ReshapeFacts ==
  ASSUME NEW r, Sound(r), NEW b \in ToSet(r.fifo), NEW c \in Nodes,
         FitsApart(ToSet(r.fifo), b, c)
  PROVE  /\ Sound(Reshaped(r, b, c))
         /\ ToSet(Reshaped(r, b, c).fifo) = (ToSet(r.fifo) \ {b}) \cup {c}
         /\ Reshaped(r, b, c).nxt = r.nxt
         /\ Swapped(Reshaped(r, b, c).fifo, r.fifo, b, c)
<1> DEFINE S == ToSet(r.fifo)
           T == S \ {b}
           u == Change(r, b, c)
           d == Reshaped(r, b, c)
<1>1. Lists(r, S) /\ Apart(S) /\ r.total = Cardinality(Cover(S))
  BY DEF Sound
<1>2. \A x \in S : x.s \in Nat /\ x.e \in Nat /\ x.s < x.e
  BY <1>1, ListsFacts
<1>3. c.s \in Nat /\ c.e \in Nat /\ c.s < c.e
  BY DEF Nodes
<1>4. \A x \in T : x.e < c.s \/ c.e < x.s
  <2>1. ASSUME NEW x \in T PROVE x.e < c.s \/ c.e < x.s
    <3>1. x.e < b.s \/ b.e < x.s
      BY <1>1 DEF Apart
    <3> QED
      BY <3>1 DEF FitsApart
  <2> QED
    BY <2>1
<1>5. c \notin T
  BY <1>2, <1>3, <1>4
<1>6. /\ Lists(u, T \cup {c}) /\ u.total = r.total /\ u.nxt = r.nxt
      /\ Swapped(u.fifo, r.fifo, b, c)
  <2>1. Fits(S, b, c)
    <3>1. ASSUME NEW x \in T
          PROVE  (x.e <= b.s => x.e <= c.s) /\ (b.e <= x.s => c.e <= x.s)
      <4>1. x.e < b.s \/ b.e < x.s
        BY <1>1 DEF Apart
      <4>2. /\ x.e < b.s => x.e < c.s
            /\ b.e < x.s => c.e < x.s
        BY DEF FitsApart
      <4> QED
        BY <1>2, <1>3, <4>1, <4>2
    <3> QED
      BY <3>1 DEF Fits
  <2>2. b \in S /\ (c = b \/ c \notin S)
    BY <1>5
  <2> HIDE DEF S
  <2> QED
    BY <1>1, <2>1, <2>2, ChangeFacts
<1>7. d = [u EXCEPT !.total = @ + (c.e - c.s) - (b.e - b.s)]
  BY DEF Reshaped
<1>8. b \in S /\ b \in Nodes
  BY <1>1, ListsFacts
<1> HIDE DEF S, u, d
<1>9. /\ Cardinality(Cover(S)) = Cardinality(Cover(T)) + (b.e - b.s)
      /\ Cardinality(Cover(S)) \in Nat
  BY <1>1, <1>8, CoverSplit, CoverOne
<1>10. /\ Cardinality(Cover(T \cup {c})) = Cardinality(Cover(T)) + (c.e - c.s)
       /\ Cardinality(Cover(T)) \in Nat
  <2> DEFINE U == T \cup {c}
  <2>1. c \in U /\ U \ {c} = T /\ Lists(u, U)
    BY <1>5, <1>6
  <2> HIDE DEF U
  <2>2. /\ Cardinality(Cover(U)) = Cardinality(Cover(U \ {c})) + (c.e - c.s)
        /\ Cardinality(Cover(U \ {c})) \in Nat
    BY <2>1, CoverAdd
  <2> QED
    BY <2>1, <2>2 DEF U
<1>11. u.total + (c.e - c.s) - (b.e - b.s) = Cardinality(Cover(T \cup {c}))
  <2> HIDE DEF T
  <2> QED
    BY <1>1, <1>2, <1>3, <1>6, <1>8, <1>9, <1>10
<1>12. /\ d \in RawQueues /\ d.fifo = u.fifo /\ d.lifo = u.lifo
       /\ d.total = Cardinality(Cover(T \cup {c})) /\ d.nxt = r.nxt
  <2>1. u \in RawQueues /\ Cardinality(Cover(T \cup {c})) \in Int
    BY <1>2, <1>3, <1>6, <1>8, <1>9, <1>10 DEF Lists
  <2> HIDE DEF T
  <2> QED
    BY <1>6, <1>7, <1>11, <2>1 DEF RawQueues
<1>13. Lists(d, T \cup {c}) /\ ToSet(d.fifo) = T \cup {c}
  BY <1>6, <1>12 DEF Lists
<1>14. Apart(T \cup {c})
  BY <1>1, <1>4 DEF Apart
<1>15. Sound(d)
  BY <1>12, <1>13, <1>14 DEF Sound
<1> QED
  BY <1>6, <1>12, <1>13, <1>15 DEF S, d

-----------------------------------------------------------------------------
(* Joining.                                                                *)

(* What coalesce joins to the new node n, and the node that results.       *)
JoinedTo(S, n) == {p \in S : p.e = n.s} \union {q \in S : q.s = n.e} \union {n}

MergedWith(S, n) ==
  Block(CHOOSE s \in {b.s : b \in JoinedTo(S, n)} : \A b \in JoinedTo(S, n) : s <= b.s,
        CHOOSE e \in {b.e : b \in JoinedTo(S, n)} : \A b \in JoinedTo(S, n) : e >= b.e)

(* It covers what it replaces and touches nothing else.                    *)
LEMMA MergedFacts ==
  ASSUME NEW S, S \subseteq Nodes, Apart(S), NEW n \in Nodes,
         \A x \in S : x.e <= n.s \/ n.e <= x.s
  PROVE  LET J == JoinedTo(S, n)
             m == MergedWith(S, n)
         IN  /\ m \in Nodes /\ m.s <= n.s /\ n.e <= m.e
             /\ \A b \in J : m.s <= b.s /\ b.e <= m.e
             /\ Cover(J) = Cover({m})
             /\ \A x \in S \ J : x.e < m.s \/ m.e < x.s
<1> DEFINE J == JoinedTo(S, n)
           m == MergedWith(S, n)
           prev == {p \in S : p.e = n.s}
           next == {q \in S : q.s = n.e}
<1>1. /\ n.s \in Nat /\ n.e \in Nat /\ n.s < n.e
      /\ \A b \in S : b.s \in Nat /\ b.e \in Nat /\ b.s < b.e
  BY DEF Nodes
<1>2. J = prev \cup next \cup {n}
  BY DEF JoinedTo
<1>3. \A b \in J : b.s \in Nat /\ b.e \in Nat /\ b.s < b.e
  BY <1>1, <1>2
<1>4. \A b, c \in S : b = c \/ b.e < c.s \/ c.e < b.s
  BY DEF Apart
<1>5. /\ \A b, c \in prev : b = c
      /\ \A b, c \in next : b = c
  BY <1>1, <1>4
<1>6. \E s \in {b.s : b \in J} : \A b \in J : s <= b.s
  <2>1. CASE prev = {}
    <3>1. \A b \in J : n.s <= b.s
      BY <1>1, <1>2, <2>1
    <3> QED
      BY <1>2, <3>1
  <2>2. CASE prev # {}
    <3>1. PICK p \in prev : TRUE
      BY <2>2
    <3>2. \A b \in J : p.s <= b.s
      BY <1>1, <1>2, <1>5, <3>1
    <3> QED
      BY <1>2, <3>1, <3>2
  <2> QED
    BY <2>1, <2>2
<1>7. \E e \in {b.e : b \in J} : \A b \in J : e >= b.e
  <2>1. CASE next = {}
    <3>1. \A b \in J : n.e >= b.e
      BY <1>1, <1>2, <2>1
    <3> QED
      BY <1>2, <3>1
  <2>2. CASE next # {}
    <3>1. PICK p \in next : TRUE
      BY <2>2
    <3>2. \A b \in J : p.e >= b.e
      BY <1>1, <1>2, <1>5, <3>1
    <3> QED
      BY <1>2, <3>1, <3>2
  <2> QED
    BY <2>1, <2>2
<1> DEFINE lo == CHOOSE s \in {b.s : b \in J} : \A b \in J : s <= b.s
           hi == CHOOSE e \in {b.e : b \in J} : \A b \in J : e >= b.e
<1>8. lo \in {b.s : b \in J} /\ \A b \in J : lo <= b.s
  BY <1>6
<1>9. hi \in {b.e : b \in J} /\ \A b \in J : hi >= b.e
  BY <1>7
<1>10. m.s = lo /\ m.e = hi /\ m = [s |-> lo, e |-> hi]
  BY DEF MergedWith, Block
<1> HIDE DEF J, m, lo, hi
<1>11. PICK first \in J : m.s = first.s /\ \A b \in J : m.s <= b.s
  BY <1>8, <1>10
<1>12. PICK last \in J : m.e = last.e /\ \A b \in J : b.e <= m.e
  BY <1>3, <1>9, <1>10
<1>13. m.s \in Nat /\ m.e \in Nat /\ m.s <= n.s /\ n.e <= m.e /\ n \in J
  BY <1>2, <1>3, <1>11, <1>12
<1>14. m \in Nodes
  <2>1. lo \in Nat /\ hi \in Nat /\ lo < hi
    BY <1>1, <1>10, <1>13
  <2> QED
    BY <1>10, <2>1 DEF Nodes
<1>15. \A x \in S \ J : x.e < m.s \/ m.e < x.s
  <2>1. ASSUME NEW x \in S, x \notin J PROVE x.e < m.s \/ m.e < x.s
    <3>1. /\ x.s \in Nat /\ x.e \in Nat /\ x.s < x.e
          /\ x.e < n.s \/ n.e < x.s
      BY <1>1, <1>2, <2>1
    <3>2. CASE x.e < n.s
      <4>1. \A b \in J : x.e < b.s
        <5>1. ASSUME NEW b \in prev PROVE x.e < b.s
          <6>1. b \in S /\ b.e = n.s /\ b # x
            BY <1>2, <2>1
          <6>2. x.e < b.s \/ b.e < x.s
            BY <1>4, <6>1
          <6> QED
            BY <1>1, <3>1, <3>2, <6>1, <6>2
        <5>2. ASSUME NEW b \in next PROVE x.e < b.s
          BY <1>1, <3>1, <3>2
        <5> QED
          BY <1>2, <3>2, <5>1, <5>2
      <4> QED
        BY <1>11, <4>1
    <3>3. CASE n.e < x.s
      <4>1. \A b \in J : b.e < x.s
        <5>1. ASSUME NEW b \in next PROVE b.e < x.s
          <6>1. b \in S /\ b.s = n.e /\ b # x
            BY <1>2, <2>1
          <6>2. x.e < b.s \/ b.e < x.s
            BY <1>4, <6>1
          <6> QED
            BY <1>1, <3>1, <3>3, <6>1, <6>2
        <5>2. ASSUME NEW b \in prev PROVE b.e < x.s
          BY <1>1, <3>1, <3>3
        <5> QED
          BY <1>2, <3>3, <5>1, <5>2
      <4> QED
        BY <1>12, <4>1
    <3> QED
      BY <3>1, <3>2, <3>3
  <2> QED
    BY <2>1
<1>16. Cover(J) = Cover({m})
  <2>1. J \subseteq Nodes
    BY <1>2
  <2>2. \A x : x \in Cover(J) <=> x \in Nat /\ \E b \in J : b.s <= x /\ x < b.e
    BY <2>1, CoverFacts
  <2>3. \A x : x \in Cover({m}) <=> x \in Nat /\ m.s <= x /\ x < m.e
    <3>1. {m} \subseteq Nodes
      BY <1>14
    <3>2. \A x : x \in Cover({m}) <=> x \in Nat /\ \E b \in {m} : b.s <= x /\ x < b.e
      BY <3>1, CoverFacts
    <3> QED
      BY <3>2
  <2>4. ASSUME NEW x \in Cover(J) PROVE x \in Cover({m})
    <3>1. x \in Nat
      BY <2>2
    <3>2. PICK b \in J : b.s <= x /\ x < b.e
      BY <2>2
    <3>3. m.s <= b.s /\ b.e <= m.e
      BY <1>11, <1>12
    <3>4. b.s \in Nat /\ b.e \in Nat /\ m.s \in Nat /\ m.e \in Nat
      BY <1>3, <1>13
    <3>5. m.s <= x /\ x < m.e
      BY <3>1, <3>2, <3>3, <3>4
    <3> QED
      BY <2>3, <3>1, <3>5
  <2>5. ASSUME NEW x \in Cover({m}) PROVE x \in Cover(J)
    <3>1. x \in Nat /\ m.s <= x /\ x < m.e
      BY <2>3
    <3>2. CASE x < n.s
      <4>1. first \in prev
        BY <1>1, <1>2, <1>11, <3>1, <3>2
      <4> QED
        BY <1>11, <2>2, <3>1, <3>2, <4>1
    <3>3. CASE n.s <= x /\ x < n.e
      BY <1>13, <2>2, <3>1, <3>3
    <3>4. CASE n.e <= x
      <4>1. last \in next
        BY <1>1, <1>2, <1>12, <3>1, <3>4
      <4> QED
        BY <1>12, <2>2, <3>1, <3>4, <4>1
    <3> QED
      BY <1>1, <3>1, <3>2, <3>3, <3>4
  <2> QED
    BY <2>4, <2>5
<1> QED
  BY <1>11, <1>12, <1>13, <1>14, <1>15, <1>16 DEF J, m

(* rcv_nxt_ moves behind a node that it reaches; the lists stay.           *)
LEMMA AdvanceFacts ==
  ASSUME NEW r \in RawQueues, NEW b \in Nodes
  PROVE  LET w == Advance(r, b)
         IN  /\ w \in RawQueues
             /\ w.fifo = r.fifo /\ w.lifo = r.lifo /\ w.total = r.total
             /\ w.nxt = IF r.nxt >= b.s THEN b.e ELSE r.nxt
<1> DEFINE w == Advance(r, b)
<1>1. b.s \in Nat /\ b.e \in Int
  BY DEF Nodes
<1>2. CASE r.nxt >= b.s
  <2>1. w = [r EXCEPT !.nxt = b.e]
    BY <1>2 DEF Advance
  <2> HIDE DEF w
  <2>2. /\ w \in RawQueues
        /\ w.fifo = r.fifo /\ w.lifo = r.lifo /\ w.total = r.total
        /\ w.nxt = b.e
    BY <1>1, <2>1 DEF RawQueues
  <2> QED
    BY <1>2, <2>2 DEF w
<1>3. CASE ~(r.nxt >= b.s)
  <2>1. w = r
    BY <1>3 DEF Advance
  <2> QED
    BY <1>3, <2>1
<1> QED
  BY <1>2, <1>3

(* rcv_nxt_ of w is what that of r becomes by a node of w, which is the    *)
(* first one or one that holds the segment s .. e-1.                       *)
Moved(r, w, s, e) ==
  \E m \in ToSet(w.fifo) :
    /\ w.nxt = IF r.nxt >= m.s THEN m.e ELSE r.nxt
    /\ m = Head(w.fifo) \/ (m.s <= s /\ e <= m.e)

(* An inserted segment is held, joined to the nodes it touches.            *)
LEMMA InsertFacts ==
  ASSUME NEW r, Sound(r), NEW k \in 0..Len(r.fifo), NEW n \in Nodes,
         Behind(r.fifo, k, n)
  PROVE  /\ Sound(Insert(r, k, n))
         /\ Cover(ToSet(Insert(r, k, n).fifo)) = Cover(ToSet(r.fifo)) \cup Cover({n})
         /\ Moved(r, Insert(r, k, n), n.s, n.e)
<1> DEFINE S == ToSet(r.fifo)
           new == Linked(r, k, n)
           prev == {p \in S : p.e = n.s}
           next == {q \in S : q.s = n.e}
           J == JoinedTo(S, n)
           m == MergedWith(S, n)
           keep == CHOOSE b \in J : b \in prev \/ (prev = {} /\ (b \in next \/ next = {}))
           u == Unlink(new, J \ {keep})
           w == Change(u, keep, m)
           v == Advance(w, m)
           A == S \cup {n}
           U == A \ (J \ {keep})
           X == S \ J
           T == X \cup {m}
<1>1. Insert(r, k, n) = v
  BY DEF Insert, Linked, JoinedTo, MergedWith
<1>2. /\ Lists(r, S) /\ Apart(S) /\ r.total = Cardinality(Cover(S))
      /\ S \subseteq Nodes
  BY ListsFacts DEF Sound
<1>3. \A x \in S : x.e <= n.s \/ n.e <= x.s
  <2>1. /\ Len(r.fifo) \in Nat
        /\ \A x \in S : \E i \in 1..Len(r.fifo) : x = r.fifo[i]
    BY <1>2, ListsFacts, ElementsFacts
  <2>2. \A i \in 1..Len(r.fifo) : i \in 1..k \/ i \in k + 1..Len(r.fifo)
    BY <2>1
  <2> QED
    BY <2>1, <2>2 DEF Behind
<1>4. /\ Lists(new, A) /\ n \notin S
      /\ new.total = r.total + n.e - n.s /\ new.nxt = r.nxt
  <2>1. Lists(r, S)
    BY <1>2
  <2> HIDE DEF S, prev, next, J, m, keep, u, w, v, U, X, T
  <2> QED
    BY <2>1, LinkedFacts
<1>5. /\ m \in Nodes /\ m.s <= n.s /\ n.e <= m.e
      /\ \A b \in J : m.s <= b.s /\ b.e <= m.e
      /\ Cover(J) = Cover({m})
      /\ \A x \in X : x.e < m.s \/ m.e < x.s
  BY <1>2, <1>3, MergedFacts
<1>6. J = prev \cup next \cup {n} /\ n \in J /\ J \subseteq A
  BY DEF JoinedTo
<1>7. keep \in J
  <2>1. \E b \in J : b \in prev \/ (prev = {} /\ (b \in next \/ next = {}))
    BY <1>6
  <2> QED
    BY <2>1
<1>8. A = X \cup J /\ keep \in U /\ U \ {keep} = X
  BY <1>6, <1>7
<1>9. \A b \in A : b \in Nodes /\ b.s \in Nat /\ b.e \in Nat /\ b.s < b.e
  BY <1>4, ListsFacts
<1>10. m.s \in Nat /\ m.e \in Nat /\ m.s < m.e
  BY <1>5 DEF Nodes
<1> HIDE DEF S, new, prev, next, J, m, keep, u, w, v
<1>11. Lists(u, U) /\ u.total = new.total /\ u.nxt = new.nxt
  <2> HIDE DEF A
  <2> QED
    BY <1>4, UnlinkFacts DEF u
<1> HIDE DEF A, U, X
<1>12. \A x \in X : x.s \in Nat /\ x.e \in Nat /\ x.s < x.e
  BY <1>8, <1>9
<1>13. m = keep \/ m \notin U
  <2>1. m \notin X
    BY <1>5, <1>10
  <2> QED
    BY <1>8, <2>1
<1>14. Fits(U, keep, m)
  <2>1. /\ keep.s \in Nat /\ keep.e \in Nat /\ keep.s < keep.e
        /\ m.s <= keep.s /\ keep.e <= m.e
    BY <1>5, <1>7, <1>8, <1>9
  <2>2. ASSUME NEW x \in X
        PROVE  (x.e <= keep.s => x.e <= m.s) /\ (keep.e <= x.s => m.e <= x.s)
    <3>1. x.e < m.s \/ m.e < x.s
      BY <1>5
    <3> QED
      BY <1>10, <1>12, <2>1, <3>1
  <2> QED
    BY <1>8, <2>2 DEF Fits
<1>15. Lists(w, T) /\ w.total = new.total /\ w.nxt = new.nxt
  <2>1. Lists(w, (U \ {keep}) \cup {m}) /\ w.total = u.total /\ w.nxt = u.nxt
    BY <1>5, <1>8, <1>11, <1>13, <1>14, ChangeFacts DEF w
  <2> QED
    BY <1>8, <1>11, <2>1
<1>16. /\ v \in RawQueues
       /\ v.fifo = w.fifo /\ v.lifo = w.lifo /\ v.total = w.total
       /\ v.nxt = IF w.nxt >= m.s THEN m.e ELSE w.nxt
  <2>1. w \in RawQueues
    BY <1>15 DEF Lists
  <2> QED
    BY <1>5, <2>1, AdvanceFacts DEF v
<1>17. Cover(T) = Cover(A) /\ Cover(A) = Cover(S) \cup Cover({n})
  <2>1. Cover(T) = Cover(X) \cup Cover({m})
    BY DEF Cover
  <2>2. Cover(A) = Cover(X) \cup Cover(J)
    BY <1>8 DEF Cover
  <2>3. Cover(A) = Cover(S) \cup Cover({n})
    BY DEF Cover, A
  <2> QED
    BY <1>5, <2>1, <2>2, <2>3
<1>18. Cardinality(Cover(A)) = Cardinality(Cover(S)) + (n.e - n.s)
  <2>1. n \in A /\ A \ {n} = S
    BY <1>4 DEF A
  <2> QED
    BY <1>4, <2>1, CoverAdd
<1>19. Cardinality(Cover(S)) \in Nat /\ n.s \in Nat /\ n.e \in Nat
  <2>1. Cardinality(Cover(S)) \in Nat
    BY <1>2, ListsFacts, SumBytesFacts DEF Lists
  <2> QED
    BY <2>1 DEF Nodes
<1>20. v.total = Cardinality(Cover(T))
  <2>1. v.total = Cardinality(Cover(S)) + n.e - n.s
    BY <1>2, <1>4, <1>15, <1>16
  <2> HIDE DEF T
  <2> QED
    BY <1>17, <1>18, <1>19, <2>1
<1>21. Lists(v, T) /\ ToSet(v.fifo) = T
  BY <1>15, <1>16 DEF Lists
<1>22. Apart(T)
  <2>1. Apart(X)
    BY <1>2 DEF Apart, X
  <2> QED
    BY <1>5, <2>1 DEF Apart
<1>23. Sound(v)
  BY <1>20, <1>21, <1>22 DEF Sound
<1>24. Moved(r, v, n.s, n.e)
  <2>1. m \in ToSet(v.fifo)
    BY <1>21
  <2>2. v.nxt = IF r.nxt >= m.s THEN m.e ELSE r.nxt
    BY <1>4, <1>15, <1>16
  <2> QED
    BY <1>5, <2>1, <2>2 DEF Moved
<1>25. Cover(ToSet(v.fifo)) = Cover(ToSet(r.fifo)) \cup Cover({n})
  BY <1>17, <1>21 DEF S
<1> QED
  BY <1>1, <1>23, <1>24, <1>25

-----------------------------------------------------------------------------
(* Fitting a segment in.                                                   *)

(* Bytes that are all held and follow each other are in one node.          *)
LEMMA Contiguous ==
  ASSUME NEW S, S \subseteq Nodes, Apart(S), NEW s \in Nat, NEW e \in Nat, s < e,
         s .. e - 1 \subseteq Cover(S)
  PROVE  \E b \in S : b.s <= s /\ e <= b.e
<1>1. \A x \in s .. e - 1 : \E b \in S : b.s <= x /\ x < b.e
  BY CoverFacts
<1>2. \A b \in S : b.s \in Nat /\ b.e \in Nat /\ b.s < b.e
  BY DEF Nodes
<1>3. s \in s .. e - 1
  OBVIOUS
<1>4. PICK b \in S : b.s <= s /\ s < b.e
  BY <1>1, <1>3
<1>5. CASE b.e < e
  <2>1. b.e \in s .. e - 1
    BY <1>2, <1>4, <1>5
  <2>2. PICK c \in S : c.s <= b.e /\ b.e < c.e
    BY <1>1, <2>1
  <2>3. b = c \/ b.e < c.s \/ c.e < b.s
    BY DEF Apart
  <2>4. b.s \in Nat /\ b.e \in Nat /\ b.s < b.e /\ c.s \in Nat /\ c.e \in Nat
    BY <1>2
  <2> QED
    BY <2>2, <2>3, <2>4
<1>6. CASE ~(b.e < e)
  <2>1. e <= b.e
    BY <1>2, <1>6
  <2> QED
    BY <1>4, <2>1
<1> QED
  BY <1>5, <1>6

(* w is r with the bytes s .. e-1.                                         *)
Gained(r, w, s, e) ==
  /\ Sound(w)
  /\ Cover(ToSet(w.fifo)) = Cover(ToSet(r.fifo)) \cup (s .. e - 1)
  /\ Moved(r, w, s, e)

(* What is inserted may be less than the segment if the rest is held.      *)
LEMMA GainedByInsert ==
  ASSUME NEW r, Sound(r), NEW k \in 0..Len(r.fifo),
         NEW s \in Nat, NEW e \in Nat, NEW lo \in Nat, NEW hi \in Nat,
         s <= lo, lo < hi, hi <= e,
         Behind(r.fifo, k, Block(lo, hi)),
         \A x \in s .. e - 1 : x < lo \/ hi <= x => x \in Cover(ToSet(r.fifo))
  PROVE  Gained(r, Insert(r, k, Block(lo, hi)), s, e)
<1> DEFINE n == Block(lo, hi)
           w == Insert(r, k, n)
           S == ToSet(r.fifo)
           T == ToSet(w.fifo)
<1>1. n \in Nodes /\ n.s = lo /\ n.e = hi /\ Behind(r.fifo, k, n)
  BY DEF Block, Nodes
<1>2. Sound(w) /\ Cover(T) = Cover(S) \cup Cover({n}) /\ Moved(r, w, n.s, n.e)
  <2> HIDE DEF n
  <2> QED
    BY <1>1, InsertFacts
<1>3. Cover({n}) = lo .. hi - 1
  <2> HIDE DEF n
  <2> QED
    BY <1>1, CoverOne
<1> HIDE DEF n, w
<1>4. Cover(T) = Cover(S) \cup (s .. e - 1)
  <2>1. \A x \in s .. e - 1 : x \in Cover(S) \/ x \in lo .. hi - 1
    OBVIOUS
  <2>2. \A x \in lo .. hi - 1 : x \in s .. e - 1
    OBVIOUS
  <2> QED
    BY <1>2, <1>3, <2>1, <2>2
<1>5. T \subseteq Nodes /\ Apart(T)
  BY <1>2, ListsFacts DEF Sound
<1>6. PICK b \in T : b.s <= s /\ e <= b.e
  <2>1. s .. e - 1 \subseteq Cover(T) /\ s < e
    BY <1>4
  <2> HIDE DEF T
  <2> QED
    BY <1>5, <2>1, Contiguous
<1>7. PICK m \in T : /\ w.nxt = IF r.nxt >= m.s THEN m.e ELSE r.nxt
                     /\ m = Head(w.fifo) \/ (m.s <= n.s /\ n.e <= m.e)
  BY <1>2 DEF Moved
<1>8. m = Head(w.fifo) \/ (m.s <= s /\ e <= m.e)
  <2>1. CASE m.s <= n.s /\ n.e <= m.e
    <3>1. b.s \in Nat /\ b.e \in Nat /\ m.s \in Nat /\ m.e \in Nat
      BY <1>5 DEF Nodes
    <3>2. b = m \/ b.e < m.s \/ m.e < b.s
      BY <1>5 DEF Apart
    <3>3. b = m
      BY <1>1, <1>6, <2>1, <3>1, <3>2
    <3> QED
      BY <1>6, <3>3
  <2> QED
    BY <1>7, <2>1
<1>9. Moved(r, w, s, e)
  BY <1>7, <1>8 DEF Moved
<1> QED
  BY <1>2, <1>4, <1>9 DEF Gained, w, n

(* If nodes were only stretched, rcv_nxt_ is compared with the first one.  *)
LEMMA GainedByAdvance ==
  ASSUME NEW r, NEW w, Sound(w), w.nxt = r.nxt, ToSet(w.fifo) # {},
         NEW s, NEW e,
         Cover(ToSet(w.fifo)) = Cover(ToSet(r.fifo)) \cup (s .. e - 1)
  PROVE  Gained(r, Advance(w, Head(w.fifo)), s, e)
<1> DEFINE b == Head(w.fifo)
           v == Advance(w, b)
<1>1. w \in RawQueues /\ w.fifo \in Seq(Nodes) /\ Ordered(w.fifo)
  BY ListsFacts DEF Sound, Lists
<1>2. b \in ToSet(w.fifo) /\ b \in Nodes
  <2>1. w.fifo # <<>>
    BY <1>1, ElementsFacts
  <2>2. b \in ToSet(w.fifo)
    BY <1>1, <2>1, OrderedFacts
  <2> QED
    BY <1>1, <2>2, ElementsFacts
<1>3. /\ v \in RawQueues
      /\ v.fifo = w.fifo /\ v.lifo = w.lifo /\ v.total = w.total
      /\ v.nxt = IF w.nxt >= b.s THEN b.e ELSE w.nxt
  <2> HIDE DEF b
  <2> QED
    BY <1>1, <1>2, AdvanceFacts
<1> HIDE DEF v
<1>4. Sound(v)
  BY <1>3 DEF Sound, Lists
<1>5. Moved(r, v, s, e)
  BY <1>2, <1>3 DEF Moved
<1> QED
  BY <1>3, <1>4, <1>5 DEF Gained, v

(* Where add() stops searching: the last node that ends at or before s,    *)
(* the first that starts at or behind e.                                   *)
LastBefore(q, s) == Max({0} \union {k \in DOMAIN q : q[k].e <= s})

FirstBehind(q, e) == Min({Len(q) + 1} \union {k \in DOMAIN q : q[k].s >= e})

(* i and j are these two, and between them are nodes that the segment      *)
(* overlaps in part.                                                       *)
Positions(q, s, e, i, j) ==
  /\ i \in 0..Len(q) /\ j \in 1..Len(q) + 1 /\ i < j
  /\ \A k \in 1..i : q[k].e <= s
  /\ \A k \in j..Len(q) : e <= q[k].s
  /\ \A k \in i + 1..j - 1 :
       q[k].e > s /\ q[k].s < e /\ (q[k].s < s \/ q[k].e > e)

(* There are at most two of them.                                          *)
LEMMA PositionFacts ==
  ASSUME NEW q \in Seq(Nodes), Ordered(q), NEW s \in Nat, NEW e \in Nat, s < e,
         \A b \in ToSet(q) : ~(s <= b.s /\ b.e <= e)
  PROVE  /\ Positions(q, s, e, LastBefore(q, s), FirstBehind(q, e))
         /\ FirstBehind(q, e) <= LastBefore(q, s) + 3
<1> DEFINE n == Len(q)
           L == {0} \union {k \in DOMAIN q : q[k].e <= s}
           F == {n + 1} \union {k \in DOMAIN q : q[k].s >= e}
           i == LastBefore(q, s)
           j == FirstBehind(q, e)
<1>1. /\ n \in Nat /\ DOMAIN q = 1..n
      /\ \A k \in 1..n : q[k] \in Nodes /\ q[k] \in ToSet(q)
  BY ElementsFacts
<1>2. \A k \in 1..n : /\ q[k].s \in Nat /\ q[k].e \in Nat /\ q[k].s < q[k].e
                      /\ q[k].s < s \/ q[k].e > e
  <2>1. ASSUME NEW k \in 1..n
        PROVE  /\ q[k].s \in Nat /\ q[k].e \in Nat /\ q[k].s < q[k].e
               /\ q[k].s < s \/ q[k].e > e
    <3>1. q[k].s \in Nat /\ q[k].e \in Nat /\ q[k].s < q[k].e
      BY <1>1 DEF Nodes
    <3>2. ~(s <= q[k].s /\ q[k].e <= e)
      BY <1>1
    <3> QED
      BY <3>1, <3>2
  <2> QED
    BY <2>1
<1>3. \A k, l \in 1..n : k < l => q[k].e <= q[l].s
  BY <1>1 DEF Ordered
<1>4. L \subseteq Nat /\ L # {} /\ (\A k \in L : k <= n) /\ n \in Nat
  BY <1>1
<1>5. F \subseteq Nat /\ F # {}
  BY <1>1
<1>6. i = CHOOSE k \in L : \A l \in L : k >= l
  BY DEF LastBefore, Max
<1>7. j = CHOOSE k \in F : \A l \in F : k <= l
  BY DEF FirstBehind, Min
<1>8. L = {0} \cup {k \in 1..n : q[k].e <= s}
  BY <1>1
<1>9. F = {n + 1} \cup {k \in 1..n : q[k].s >= e}
  BY <1>1
<1> HIDE DEF n, L, F, i, j
<1>10. i \in L /\ \A l \in L : i >= l
  <2>1. \E k \in L : \A l \in L : k >= l
    BY <1>4, GreatestNat
  <2> QED
    BY <1>6, <2>1
<1>11. j \in F /\ \A l \in F : j <= l
  <2>1. \E k \in F : \A l \in F : k <= l
    BY <1>5, LeastNat
  <2> QED
    BY <1>7, <2>1
<1>12. i \in 0..n /\ (i # 0 => i \in 1..n /\ q[i].e <= s)
  BY <1>1, <1>8, <1>10
<1>13. j \in 1..n + 1 /\ (j # n + 1 => j \in 1..n /\ q[j].s >= e)
  BY <1>1, <1>9, <1>11
<1>14. \A k \in 1..i : k \in 1..n /\ q[k].e <= s
  <2>1. ASSUME NEW k \in 1..i PROVE k \in 1..n /\ q[k].e <= s
    <3>1. k \in 1..n /\ i \in 1..n /\ i # 0 /\ (k < i \/ k = i)
      BY <1>1, <1>12
    <3>2. q[i].e <= s
      BY <1>12, <3>1
    <3>3. CASE k < i
      <4>1. q[k].e <= q[i].s /\ q[i].s < q[i].e
        BY <1>2, <1>3, <3>1, <3>3
      <4>2. q[k].e \in Nat /\ q[i].s \in Nat /\ q[i].e \in Nat
        BY <1>2, <3>1
      <4> QED
        BY <3>1, <3>2, <4>1, <4>2
    <3> QED
      BY <3>1, <3>2, <3>3
  <2> QED
    BY <2>1
<1>15. \A k \in j..n : k \in 1..n /\ e <= q[k].s
  <2>1. ASSUME NEW k \in j..n PROVE k \in 1..n /\ e <= q[k].s
    <3>1. k \in 1..n /\ j \in 1..n /\ j # n + 1 /\ (j < k \/ k = j)
      BY <1>1, <1>13
    <3>2. q[j].s >= e
      BY <1>13, <3>1
    <3>3. CASE j < k
      <4>1. q[j].e <= q[k].s /\ q[j].s < q[j].e
        BY <1>2, <1>3, <3>1, <3>3
      <4>2. q[k].s \in Nat /\ q[j].s \in Nat /\ q[j].e \in Nat
        BY <1>2, <3>1
      <4> QED
        BY <3>1, <3>2, <4>1, <4>2
    <3>4. CASE k = j
      BY <1>2, <3>1, <3>2, <3>4
    <3> QED
      BY <3>1, <3>3, <3>4
  <2> QED
    BY <2>1
<1>16. i < j
  <2>1. SUFFICES ASSUME j <= i PROVE FALSE
    BY <1>1, <1>12, <1>13
  <2>2. i \in j..n /\ i \in 1..i /\ i \in 1..n
    BY <1>1, <1>12, <1>13, <2>1
  <2>3. q[i].e <= s /\ e <= q[i].s
    BY <1>14, <1>15, <2>2
  <2> QED
    BY <1>2, <2>2, <2>3
<1>17. \A k \in i + 1..j - 1 : k \in 1..n /\ q[k].e > s /\ q[k].s < e
  <2>1. ASSUME NEW k \in i + 1..j - 1 PROVE k \in 1..n /\ q[k].e > s /\ q[k].s < e
    <3>1. k \in 1..n /\ ~(i >= k) /\ ~(j <= k)
      BY <1>1, <1>12, <1>13
    <3>2. k \notin L /\ k \notin F
      BY <1>10, <1>11, <3>1
    <3>3. ~(q[k].e <= s) /\ ~(q[k].s >= e)
      BY <1>8, <1>9, <3>1, <3>2
    <3> QED
      BY <1>2, <3>1, <3>3
  <2> QED
    BY <2>1
<1>18. j <= i + 3
  <2>1. SUFFICES ASSUME j >= i + 4 PROVE FALSE
    BY <1>1, <1>12, <1>13
  <2>2. /\ i + 1 \in i + 1..j - 1 /\ i + 2 \in i + 1..j - 1 /\ i + 3 \in i + 1..j - 1
        /\ i + 1 < i + 2 /\ i + 2 < i + 3
    BY <1>1, <1>12, <1>13, <2>1
  <2>3. i + 1 \in 1..n /\ i + 2 \in 1..n /\ i + 3 \in 1..n
    BY <1>17, <2>2
  <2>4. q[i + 1].e > s /\ q[i + 3].s < e
    BY <1>17, <2>2
  <2>5. q[i + 1].e <= q[i + 2].s /\ q[i + 2].e <= q[i + 3].s
    BY <1>3, <2>2, <2>3
  <2>6. q[i + 2].s < s \/ q[i + 2].e > e
    BY <1>2, <2>3
  <2>7. /\ q[i + 1].e \in Nat /\ q[i + 2].s \in Nat /\ q[i + 2].e \in Nat
        /\ q[i + 3].s \in Nat
    BY <1>2, <2>3
  <2>8. ASSUME NEW a \in Nat, NEW b \in Nat, NEW c \in Nat, NEW d \in Nat,
               a > s, d < e, a <= b, c <= d
        PROVE  ~(b < s \/ c > e)
    BY <2>8
  <2> QED
    BY <2>4, <2>5, <2>6, <2>7, <2>8
<1>19. Positions(q, s, e, i, j)
  <2>1. \A k \in i + 1..j - 1 : q[k].s < s \/ q[k].e > e
    BY <1>2, <1>17
  <2> QED
    BY <1>12, <1>13, <1>14, <1>15, <1>16, <1>17, <2>1 DEF Positions, n
<1> QED
  BY <1>18, <1>19 DEF i, j

(* Bytes of a single node, and of its neighbourhood.                       *)
LEMMA CoverHas ==
  ASSUME NEW S, S \subseteq Nodes, NEW b \in S, NEW x \in Nat, b.s <= x, x < b.e
  PROVE  x \in Cover(S)
BY CoverFacts

(* A node that is stretched over the segment.                              *)
LEMMA StretchFacts ==
  ASSUME NEW r, Sound(r), NEW b \in ToSet(r.fifo), NEW c \in Nodes,
         FitsApart(ToSet(r.fifo), b, c),
         NEW s \in Nat, NEW e \in Nat,
         c.s <= b.s, b.e <= c.e, c.s <= s, e <= c.e,
         \A x \in c.s .. c.e - 1 : (b.s <= x /\ x < b.e) \/ (s <= x /\ x < e)
  PROVE  /\ Sound(Reshaped(r, b, c)) /\ Reshaped(r, b, c).nxt = r.nxt
         /\ ToSet(Reshaped(r, b, c).fifo) # {}
         /\ Cover(ToSet(Reshaped(r, b, c).fifo)) = Cover(ToSet(r.fifo)) \cup (s .. e - 1)
         /\ Swapped(Reshaped(r, b, c).fifo, r.fifo, b, c)
<1> DEFINE S == ToSet(r.fifo)
           w == Reshaped(r, b, c)
<1>1. /\ Sound(w) /\ w.nxt = r.nxt /\ ToSet(w.fifo) = (S \ {b}) \cup {c}
      /\ Swapped(w.fifo, r.fifo, b, c)
  BY ReshapeFacts
<1>2. b \in Nodes
  BY ListsFacts DEF Sound
<1>3. Cover(S) = Cover(S \ {b}) \cup Cover({b})
  BY DEF Cover
<1>4. Cover(ToSet(w.fifo)) = Cover(S \ {b}) \cup Cover({c})
  BY <1>1 DEF Cover
<1>5. Cover({b}) = b.s .. b.e - 1 /\ Cover({c}) = c.s .. c.e - 1
  BY <1>2, CoverOne
<1>6. c.s .. c.e - 1 = (b.s .. b.e - 1) \cup (s .. e - 1)
  <2>1. b.s \in Nat /\ b.e \in Nat /\ c.s \in Nat /\ c.e \in Nat
    BY <1>2 DEF Nodes
  <2>2. \A x \in c.s .. c.e - 1 : x \in (b.s .. b.e - 1) \cup (s .. e - 1)
    BY <2>1
  <2>3. \A x \in (b.s .. b.e - 1) \cup (s .. e - 1) : x \in c.s .. c.e - 1
    BY <2>1
  <2> QED
    BY <2>2, <2>3
<1> HIDE DEF w, S
<1>7. Cover(ToSet(w.fifo)) = Cover(S) \cup (s .. e - 1)
  BY <1>3, <1>4, <1>5, <1>6
<1> QED
  BY <1>1, <1>7 DEF w, S

(* add() after the overlapped nodes are gone holds what it held and the    *)
(* segment.                                                                *)
LEMMA FitFacts ==
  ASSUME NEW r, Sound(r), NEW s \in Nat, NEW e \in Nat, s < e,
         \A b \in ToSet(r.fifo) : ~(s <= b.s /\ b.e <= e)
  PROVE  Gained(r, Fit(r, s, e), s, e)
<1> DEFINE q == r.fifo
           i == LastBefore(q, s)
           j == FirstBehind(q, e)
           left == i + 1 < j /\ (i = 0 \/ q[i + 1].s < s)
           right == i + 1 < j /\ (j = Len(q) + 1 \/ q[j - 1].e > e)
           stretched == [Change(r, q[i + 1], Block(s, q[i + 1].e))
                           EXCEPT !.total = @ + q[i + 1].s - s]
           wide == IF left /\ s < q[i + 1].s THEN stretched ELSE r
           last == wide.fifo[j - 1]
           longer == [Change(wide, last, Block(last.s, e))
                        EXCEPT !.total = @ + e - last.e]
           wider == IF right /\ e > last.e THEN longer ELSE wide
           start == IF left THEN q[i + 1].e ELSE s
           end == IF right THEN last.s ELSE e
           S == ToSet(q)
           Goal == Gained(r, Fit(r, s, e), s, e)
<1>1. Fit(r, s, e) =
        IF end <= start THEN Advance(wider, Head(wider.fifo))
        ELSE Insert(wider, IF left THEN i + 1 ELSE i, Block(start, end))
  BY DEF Fit, LastBefore, FirstBehind
<1>2. /\ Lists(r, S) /\ Apart(S) /\ r \in RawQueues
      /\ q \in Seq(Nodes) /\ Ordered(q)
  BY ListsFacts DEF Sound, Lists
<1>3. /\ Len(q) \in Nat /\ S \subseteq Nodes
      /\ \A k \in 1..Len(q) : /\ q[k] \in S /\ q[k] \in Nodes
                              /\ q[k].s \in Nat /\ q[k].e \in Nat /\ q[k].s < q[k].e
      /\ \A x \in S : \E k \in 1..Len(q) : x = q[k]
  <2>1. /\ Len(q) \in Nat
        /\ \A k \in 1..Len(q) : q[k] \in S /\ q[k] \in Nodes
        /\ \A x \in S : \E k \in 1..Len(q) : x = q[k]
    BY <1>2, ElementsFacts
  <2> QED
    BY <1>2, <2>1, ListsFacts
<1>4. Positions(q, s, e, i, j) /\ j <= i + 3
  BY <1>2, PositionFacts
<1> HIDE DEF i, j, S
<1>5. /\ i \in 0..Len(q) /\ j \in 1..Len(q) + 1 /\ i < j /\ i \in Nat /\ j \in Nat
      /\ \A k \in 1..i : q[k].e <= s
      /\ \A k \in j..Len(q) : e <= q[k].s
      /\ \A k \in i + 1..j - 1 :
           q[k].e > s /\ q[k].s < e /\ (q[k].s < s \/ q[k].e > e)
  BY <1>4 DEF Positions
<1>6. \A k \in 1..Len(q) : \A x \in q[k].s .. q[k].e - 1 : x \in Cover(S)
  <2>1. ASSUME NEW k \in 1..Len(q), NEW x \in q[k].s .. q[k].e - 1 PROVE x \in Cover(S)
    <3>1. q[k] \in S /\ q[k].s \in Nat /\ q[k].e \in Nat
      BY <1>3
    <3>2. x \in Nat /\ q[k].s <= x /\ x < q[k].e
      BY <3>1
    <3> QED
      BY <1>3, <3>1, <3>2, CoverHas
  <2> QED
    BY <2>1
<1> HIDE DEF left, right, wide, last, longer, wider, start, end, stretched, Goal
<1>7. CASE j = i + 1
  <2>1. ~left /\ ~right
    BY <1>5, <1>7 DEF left, right
  <2>2. wider = r /\ start = s /\ end = e
    BY <2>1 DEF wider, wide, start, end
  <2>3. Fit(r, s, e) = Insert(r, i, Block(s, e))
    BY <1>1, <2>1, <2>2
  <2>4. Behind(q, i, Block(s, e))
    <3>1. Block(s, e).s = s /\ Block(s, e).e = e
      BY DEF Block
    <3> QED
      BY <1>5, <1>7, <3>1 DEF Behind
  <2>5. Gained(r, Insert(r, i, Block(s, e)), s, e)
    <3>1. \A x \in s .. e - 1 : x < s \/ e <= x => x \in Cover(ToSet(r.fifo))
      OBVIOUS
    <3>2. s <= s /\ e <= e
      OBVIOUS
    <3> QED
      BY <1>5, <2>4, <3>1, <3>2, GainedByInsert
  <2> QED
    BY <2>3, <2>5
<1>8. CASE j = i + 2
  <2> DEFINE m == q[i + 1]
  <2>1. /\ i + 1 \in i + 1..j - 1 /\ j - 1 = i + 1 /\ i + 1 \in 1..Len(q) /\ i + 1 < j
    BY <1>5, <1>8
  <2>2. m \in S /\ m \in Nodes /\ m.s \in Nat /\ m.e \in Nat /\ m.s < m.e
    BY <1>3, <2>1
  <2>3. m.e > s /\ m.s < e /\ (m.s < s \/ m.e > e)
    BY <1>5, <2>1
  <2>4. q[i + 1] = m /\ q[j - 1] = m
    BY <2>1
  <2>5. /\ \A k \in 1..i : k \in 1..Len(q) /\ q[k] # m
        /\ \A k \in j..Len(q) : k \in 1..Len(q) /\ q[k] # m
        /\ \A k \in 1..Len(q) : k = i + 1 \/ k \in 1..i \/ k \in j..Len(q)
    <3>1. Once(q) /\ DOMAIN q = 1..Len(q)
      BY <1>2, OrderedFacts, LenProperties
    <3>2. /\ \A k \in 1..i : k \in 1..Len(q) /\ k # i + 1
          /\ \A k \in j..Len(q) : k \in 1..Len(q) /\ k # i + 1
          /\ \A k \in 1..Len(q) : k = i + 1 \/ k \in 1..i \/ k \in j..Len(q)
      BY <1>3, <1>5, <1>8
    <3> QED
      BY <2>1, <3>1, <3>2 DEF Once
  <2> HIDE DEF m
  <2>6. ASSUME NEW x \in S, x # m PROVE x.e <= s \/ e <= x.s
    <3>1. PICK k \in 1..Len(q) : x = q[k]
      BY <1>3
    <3>2. k \in 1..i \/ k \in j..Len(q)
      BY <2>4, <2>5, <2>6, <3>1
    <3> QED
      BY <1>5, <3>1, <3>2
  <2>7. ASSUME NEW x \in s .. e - 1, m.s <= x, x < m.e PROVE x \in Cover(S)
    <3>1. x \in Nat
      OBVIOUS
    <3> QED
      BY <1>3, <2>2, <2>7, <3>1, CoverHas
  <2>8. CASE left /\ right
    <3>1. Sound(wider) /\ wider.nxt = r.nxt /\ ToSet(wider.fifo) # {}
          /\ Cover(ToSet(wider.fifo)) = Cover(S) \cup (s .. e - 1)
          /\ end <= start
      <4>1. CASE s < m.s
        <5> DEFINE c == Block(s, m.e)
        <5>1. i = 0 /\ e < m.e
          BY <2>2, <2>3, <2>4, <2>8, <4>1 DEF left
        <5>2. c \in Nodes /\ c.s = s /\ c.e = m.e
          BY <2>2, <2>3 DEF Block, Nodes
        <5>3. wide = [Change(r, m, c) EXCEPT !.total = @ + m.s - s]
          BY <2>4, <2>8, <4>1 DEF wide, stretched
        <5> HIDE DEF c
        <5>4. FitsApart(S, m, c)
          <6>1. ASSUME NEW x \in S, x # m PROVE ~(x.e < m.s)
            <7>1. PICK k \in 1..Len(q) : x = q[k]
              BY <1>3
            <7>2. k \in j..Len(q)
              BY <2>4, <2>5, <5>1, <6>1, <7>1
            <7>3. e <= x.s /\ x.s \in Nat /\ x.e \in Nat /\ x.s < x.e
              BY <1>3, <1>5, <7>1, <7>2
            <7> QED
              BY <2>2, <2>3, <7>3
          <6> QED
            BY <5>2, <6>1 DEF FitsApart
        <5>5. wide = Reshaped(r, m, c)
          <6> DEFINE u == Change(r, m, c)
          <6>1. u.total \in Int
            <7>1. r.total \in Int /\ u.total = r.total
              BY <1>2 DEF Change, RawQueues
            <7> QED
              BY <7>1
          <6> HIDE DEF u
          <6>2. u.total + m.s - s = u.total + (c.e - c.s) - (m.e - m.s)
            BY <2>2, <5>2, <6>1
          <6>3. wide = [u EXCEPT !.total = u.total + m.s - s]
            BY <5>3 DEF u
          <6>4. Reshaped(r, m, c) = [u EXCEPT !.total = u.total + (c.e - c.s) - (m.e - m.s)]
            BY DEF u, Reshaped
          <6> QED
            BY <6>2, <6>3, <6>4
        <5>6. /\ Sound(wide) /\ wide.nxt = r.nxt /\ ToSet(wide.fifo) # {}
              /\ Cover(ToSet(wide.fifo)) = Cover(ToSet(r.fifo)) \cup (s .. e - 1)
              /\ Swapped(wide.fifo, r.fifo, m, c)
          <6>1. /\ c.s <= m.s /\ m.e <= c.e /\ c.s <= s /\ e <= c.e
                /\ m \in ToSet(r.fifo) /\ FitsApart(ToSet(r.fifo), m, c)
            BY <2>2, <4>1, <5>1, <5>2, <5>4 DEF S
          <6>2. \A x \in c.s .. c.e - 1 : (m.s <= x /\ x < m.e) \/ (s <= x /\ x < e)
            BY <2>2, <2>3, <5>2
          <6> QED
            BY <5>2, <5>5, <6>1, <6>2, StretchFacts
        <5>7. last = c
          BY <2>1, <2>4, <5>6 DEF last, Swapped
        <5>8. wider = wide
          BY <2>2, <5>1, <5>2, <5>7 DEF wider
        <5>9. start = m.e /\ end = s
          BY <2>4, <2>8, <5>2, <5>7 DEF start, end
        <5> QED
          BY <2>2, <2>3, <5>6, <5>8, <5>9 DEF S
      <4>2. CASE ~(s < m.s)
        <5>1. wide = r /\ last = m
          BY <2>4, <4>2 DEF wide, last
        <5>2. start = m.e /\ end = m.s /\ end <= start
          BY <2>2, <2>4, <2>8, <5>1 DEF start, end
        <5>3. CASE e > m.e
          <6> DEFINE c == Block(m.s, e)
          <6>1. j = Len(q) + 1
            BY <2>2, <2>4, <2>8, <5>3 DEF right
          <6>2. c \in Nodes /\ c.s = m.s /\ c.e = e
            BY <2>2, <2>3 DEF Block, Nodes
          <6>3. wider = [Change(r, m, c) EXCEPT !.total = @ + e - m.e]
            BY <2>8, <5>1, <5>3 DEF wider, longer
          <6> HIDE DEF c
          <6>4. FitsApart(S, m, c)
            <7>1. ASSUME NEW x \in S, x # m PROVE ~(m.e < x.s)
              <8>1. PICK k \in 1..Len(q) : x = q[k]
                BY <1>3
              <8>2. k \in 1..i
                <9>1. k \in 1..i \/ k \in j..Len(q)
                  BY <2>4, <2>5, <7>1, <8>1
                <9> QED
                  BY <1>3, <6>1, <9>1
              <8>3. x.e <= s /\ x.s \in Nat /\ x.e \in Nat /\ x.s < x.e
                BY <1>3, <1>5, <8>1, <8>2
              <8> QED
                BY <2>2, <2>3, <8>3
            <7> QED
              BY <6>2, <7>1 DEF FitsApart
          <6>5. wider = Reshaped(r, m, c)
            <7> DEFINE u == Change(r, m, c)
            <7>1. u.total \in Int
              <8>1. r.total \in Int /\ u.total = r.total
                BY <1>2 DEF Change, RawQueues
              <8> QED
                BY <8>1
            <7> HIDE DEF u
            <7>2. u.total + e - m.e = u.total + (c.e - c.s) - (m.e - m.s)
              BY <2>2, <6>2, <7>1
            <7>3. wider = [u EXCEPT !.total = u.total + e - m.e]
              BY <6>3 DEF u
            <7>4. Reshaped(r, m, c) = [u EXCEPT !.total = u.total + (c.e - c.s) - (m.e - m.s)]
              BY DEF u, Reshaped
            <7> QED
              BY <7>2, <7>3, <7>4
          <6>6. /\ Sound(wider) /\ wider.nxt = r.nxt /\ ToSet(wider.fifo) # {}
                /\ Cover(ToSet(wider.fifo)) = Cover(ToSet(r.fifo)) \cup (s .. e - 1)
            <7>1. /\ c.s <= m.s /\ m.e <= c.e /\ c.s <= s /\ e <= c.e
                  /\ m \in ToSet(r.fifo) /\ FitsApart(ToSet(r.fifo), m, c)
              BY <2>2, <4>2, <5>3, <6>2, <6>4 DEF S
            <7>2. \A x \in c.s .. c.e - 1 : (m.s <= x /\ x < m.e) \/ (s <= x /\ x < e)
              BY <2>2, <2>3, <6>2
            <7> QED
              BY <6>2, <6>5, <7>1, <7>2, StretchFacts
          <6> QED
            BY <5>2, <6>6 DEF S
        <5>4. CASE ~(e > m.e)
          <6>1. wider = r
            BY <5>1, <5>4 DEF wider
          <6>2. s .. e - 1 \subseteq Cover(S)
            BY <2>2, <2>7, <4>2, <5>4
          <6> QED
            BY <2>2, <5>2, <6>1, <6>2 DEF S
        <5> QED
          BY <5>3, <5>4
      <4> QED
        BY <4>1, <4>2
    <3>2. Fit(r, s, e) = Advance(wider, Head(wider.fifo))
      BY <1>1, <3>1
    <3>3. Gained(r, Advance(wider, Head(wider.fifo)), s, e)
      BY <3>1, GainedByAdvance DEF S
    <3> QED
      BY <3>2, <3>3
  <2>9. CASE left /\ ~right
    <3>1. m.s < s /\ m.e <= e /\ j # Len(q) + 1
      BY <2>1, <2>2, <2>3, <2>4, <2>9 DEF right
    <3>2. wide = r /\ wider = r /\ start = m.e /\ end = e
      BY <2>2, <2>4, <2>9, <3>1 DEF wide, wider, start, end
    <3>3. CASE m.e = e
      <4>1. Fit(r, s, e) = Advance(r, Head(r.fifo))
        BY <1>1, <3>2, <3>3
      <4>2. s .. e - 1 \subseteq Cover(S)
        BY <2>2, <2>7, <3>1, <3>3
      <4>3. Cover(ToSet(r.fifo)) = Cover(ToSet(r.fifo)) \cup (s .. e - 1) /\ ToSet(r.fifo) # {}
        BY <2>2, <4>2 DEF S
      <4> QED
        BY <4>1, <4>3, GainedByAdvance
    <3>4. CASE m.e # e
      <4> DEFINE lo == m.e
                 k == i + 1
                 n == Block(lo, e)
      <4>1. lo \in Nat /\ s <= lo /\ lo < e /\ e <= e
        BY <2>2, <2>3, <3>1, <3>4
      <4>2. Fit(r, s, e) = Insert(r, k, Block(lo, e))
        BY <1>1, <2>9, <3>2, <4>1
      <4>3. k \in 0..Len(r.fifo)
        BY <2>1
      <4>4. Behind(q, k, n)
        <5>1. n.s = m.e /\ n.e = e
          BY DEF Block
        <5> HIDE DEF n
        <5>2. ASSUME NEW l \in 1..i + 1 PROVE q[l].e <= n.s
          <6>1. CASE l = i + 1
            BY <2>2, <2>4, <5>1, <6>1
          <6>2. CASE l \in 1..i
            <7>1. q[l].e <= s /\ l \in 1..Len(q)
              BY <1>5, <6>2
            <7>2. q[l].e \in Nat
              BY <1>3, <7>1
            <7> QED
              BY <2>2, <2>3, <5>1, <7>1, <7>2
          <6> QED
            BY <1>5, <6>1, <6>2
        <5>3. ASSUME NEW l \in i + 1 + 1..Len(q) PROVE n.e <= q[l].s
          <6>1. l \in j..Len(q)
            BY <1>5, <1>8
          <6> QED
            BY <1>5, <5>1, <6>1
        <5> QED
          BY <5>2, <5>3 DEF Behind
      <4>5. \A x \in s .. e - 1 : x < lo \/ e <= x => x \in Cover(ToSet(r.fifo))
        <5>1. ASSUME NEW x \in s .. e - 1, x < lo \/ e <= x PROVE x \in Cover(S)
          <6>1. m.s <= x /\ x < m.e
            BY <2>2, <3>1, <5>1
          <6> QED
            BY <2>7, <6>1
        <5> QED
          BY <5>1 DEF S
      <4>6. Behind(r.fifo, k, Block(lo, e))
        BY <4>4
      <4> HIDE DEF lo, k, n
      <4>7. Gained(r, Insert(r, k, Block(lo, e)), s, e)
        BY <4>1, <4>3, <4>5, <4>6, GainedByInsert
      <4> QED
        BY <4>2, <4>7
    <3> QED
      BY <3>3, <3>4
  <2>10. CASE ~left /\ right
    <3>1. s <= m.s /\ m.e > e /\ i # 0
      BY <2>1, <2>2, <2>3, <2>4, <2>10 DEF left
    <3>2. wide = r
      BY <2>10 DEF wide
    <3>3. last = m
      BY <2>4, <3>2 DEF last
    <3>4. wider = r /\ start = s /\ end = m.s
      BY <2>2, <2>10, <3>1, <3>2, <3>3 DEF wider, start, end
    <3>5. CASE m.s = s
      <4>1. Fit(r, s, e) = Advance(r, Head(r.fifo))
        BY <1>1, <3>4, <3>5
      <4>2. s .. e - 1 \subseteq Cover(S)
        BY <2>2, <2>7, <3>1, <3>5
      <4>3. Cover(ToSet(r.fifo)) = Cover(ToSet(r.fifo)) \cup (s .. e - 1) /\ ToSet(r.fifo) # {}
        BY <2>2, <4>2 DEF S
      <4> QED
        BY <4>1, <4>3, GainedByAdvance
    <3>6. CASE m.s # s
      <4> DEFINE hi == m.s
                 n == Block(s, hi)
      <4>1. hi \in Nat /\ s <= s /\ s < hi /\ hi <= e
        BY <2>2, <2>3, <3>1, <3>6
      <4>2. Fit(r, s, e) = Insert(r, i, Block(s, hi))
        BY <1>1, <2>10, <3>4, <4>1
      <4>3. i \in 0..Len(r.fifo)
        BY <1>5
      <4>4. Behind(q, i, n)
        <5>1. n.s = s /\ n.e = m.s
          BY DEF Block
        <5> HIDE DEF n
        <5>2. \A l \in 1..i : q[l].e <= n.s
          BY <1>5, <5>1
        <5>3. ASSUME NEW l \in i + 1..Len(q) PROVE n.e <= q[l].s
          <6>1. CASE l = i + 1
            BY <2>2, <2>4, <5>1, <6>1
          <6>2. CASE l # i + 1
            <7>1. l \in j..Len(q) /\ l \in 1..Len(q)
              BY <1>5, <1>8, <6>2
            <7>2. e <= q[l].s /\ q[l].s \in Nat
              BY <1>3, <1>5, <7>1
            <7> QED
              BY <2>2, <2>3, <5>1, <7>2
          <6> QED
            BY <6>1, <6>2
        <5> QED
          BY <5>2, <5>3 DEF Behind
      <4>5. \A x \in s .. e - 1 : x < s \/ hi <= x => x \in Cover(ToSet(r.fifo))
        <5>1. ASSUME NEW x \in s .. e - 1, x < s \/ hi <= x PROVE x \in Cover(S)
          <6>1. m.s <= x /\ x < m.e
            BY <2>2, <3>1, <5>1
          <6> QED
            BY <2>7, <6>1
        <5> QED
          BY <5>1 DEF S
      <4>6. Behind(r.fifo, i, Block(s, hi))
        BY <4>4
      <4> HIDE DEF hi, n
      <4>7. Gained(r, Insert(r, i, Block(s, hi)), s, e)
        BY <4>1, <4>3, <4>5, <4>6, GainedByInsert
      <4> QED
        BY <4>2, <4>7
    <3> QED
      BY <3>5, <3>6
  <2>11. CASE ~left /\ ~right
    BY <2>1, <2>2, <2>3, <2>4, <2>11 DEF left, right
  <2> QED
    BY <2>8, <2>9, <2>10, <2>11
<1>9. CASE j = i + 3
  <2>1. /\ i + 1 \in i + 1..j - 1 /\ i + 2 \in i + 1..j - 1 /\ j - 1 = i + 2
        /\ i + 1 \in 1..Len(q) /\ i + 2 \in 1..Len(q) /\ i + 1 < i + 2 /\ i + 1 < j
    BY <1>5, <1>9
  <2> DEFINE a == q[i + 1]
             b == q[i + 2]
  <2>2. /\ a \in S /\ b \in S
        /\ a.s \in Nat /\ a.e \in Nat /\ a.s < a.e
        /\ b.s \in Nat /\ b.e \in Nat /\ b.s < b.e
    BY <1>3, <2>1
  <2>3. a.e <= b.s
    BY <1>2, <2>1, LenProperties DEF Ordered
  <2>4. a.e > s /\ b.s < e /\ (a.s < s \/ a.e > e) /\ (b.s < s \/ b.e > e)
    BY <1>5, <2>1
  <2>5. q[i + 1] = a /\ q[j - 1] = b
    BY <2>1
  <2> HIDE DEF a, b
  <2>6. a.e < b.s
    <3>1. a = b \/ a.e < b.s \/ b.e < a.s
      BY <1>2, <2>2 DEF Apart
    <3> QED
      BY <2>2, <2>3, <3>1
  <2>7. a.s < s /\ b.e > e
    BY <2>2, <2>4, <2>6
  <2>8. left /\ right
    BY <2>1, <2>5, <2>7 DEF left, right
  <2>9. wide = r
    BY <2>2, <2>5, <2>7 DEF wide
  <2>10. last = b
    BY <2>5, <2>9 DEF last
  <2>11. wider = r
    BY <2>2, <2>7, <2>9, <2>10 DEF wider
  <2>12. start = a.e /\ end = b.s
    BY <2>5, <2>8, <2>10 DEF start, end
  <2>13. Fit(r, s, e) = Insert(r, i + 1, Block(a.e, b.s))
    BY <1>1, <2>2, <2>6, <2>8, <2>11, <2>12
  <2>14. Behind(q, i + 1, Block(a.e, b.s))
    <3> DEFINE n == Block(a.e, b.s)
    <3>1. n.s = a.e /\ n.e = b.s
      BY DEF Block
    <3> HIDE DEF n
    <3>2. ASSUME NEW k \in 1..i + 1 PROVE q[k].e <= n.s
      <4>1. CASE k = i + 1
        BY <2>2, <2>5, <3>1, <4>1
      <4>2. CASE k \in 1..i
        <5>1. q[k].e <= s /\ k \in 1..Len(q)
          BY <1>5, <4>2
        <5>2. q[k].e \in Nat
          BY <1>3, <5>1
        <5> QED
          BY <2>2, <2>4, <3>1, <5>1, <5>2
      <4> QED
        BY <1>5, <4>1, <4>2
    <3>3. ASSUME NEW k \in i + 1 + 1..Len(q) PROVE n.e <= q[k].s
      <4>1. CASE k = i + 2
        BY <2>1, <2>2, <2>5, <3>1, <4>1
      <4>2. CASE k # i + 2
        <5>1. k \in j..Len(q) /\ k \in 1..Len(q)
          BY <1>5, <1>9, <4>2
        <5>2. e <= q[k].s /\ q[k].s \in Nat
          BY <1>3, <1>5, <5>1
        <5> QED
          BY <2>2, <2>4, <3>1, <5>2
      <4> QED
        BY <4>1, <4>2
    <3> QED
      BY <3>2, <3>3 DEF Behind, n
  <2>15. ASSUME NEW x \in s .. e - 1, x < a.e \/ b.s <= x PROVE x \in Cover(S)
    <3>1. x \in Nat
      OBVIOUS
    <3>2. CASE x < a.e
      BY <1>3, <2>2, <2>7, <3>1, <3>2, CoverHas
    <3>3. CASE b.s <= x
      <4>1. x < b.e
        BY <2>2, <2>7
      <4> QED
        BY <1>3, <2>2, <3>1, <3>3, <4>1, CoverHas
    <3> QED
      BY <2>15, <3>2, <3>3
  <2>16. Gained(r, Insert(r, i + 1, Block(a.e, b.s)), s, e)
    <3> DEFINE lo == a.e
               hi == b.s
               k == i + 1
    <3>1. lo \in Nat /\ hi \in Nat /\ s <= lo /\ lo < hi /\ hi <= e
      BY <2>2, <2>4, <2>6
    <3>2. k \in 0..Len(r.fifo) /\ Behind(r.fifo, k, Block(lo, hi))
      BY <1>3, <2>1, <2>14
    <3>3. \A x \in s .. e - 1 : x < lo \/ hi <= x => x \in Cover(ToSet(r.fifo))
      BY <2>15 DEF S
    <3> HIDE DEF lo, hi, k
    <3>4. Gained(r, Insert(r, k, Block(lo, hi)), s, e)
      BY <3>1, <3>2, <3>3, GainedByInsert
    <3> QED
      BY <3>4 DEF lo, hi, k
  <2> QED
    BY <2>13, <2>16
<1> QED
  BY <1>4, <1>5, <1>7, <1>8, <1>9

(* add() of any segment: the queue then holds what it held and the bytes   *)
(* of the segment.                                                         *)
LEMMA AddFacts ==
  ASSUME NEW r, Sound(r), NEW s \in Nat, NEW e \in Nat, s < e
  PROVE  /\ Sound(Add(r, s, e))
         /\ Cover(ToSet(Add(r, s, e).fifo)) = Cover(ToSet(r.fifo)) \cup (s .. e - 1)
         /\ \/ Add(r, s, e) = r /\ Block(s, e) \in ToSet(r.fifo)
            \/ Moved(r, Add(r, s, e), s, e)
<1> DEFINE S == ToSet(r.fifo)
           B == Covered(r, s, e)
           d == Drop(r, B)
<1>1. Lists(r, S) /\ S \subseteq Nodes
  BY ListsFacts DEF Sound
<1>2. CASE Block(s, e) \in S
  <2>1. Add(r, s, e) = r
    BY <1>2 DEF Add
  <2>2. ASSUME NEW x \in s .. e - 1 PROVE x \in Cover(S)
    <3>1. Block(s, e).s = s /\ Block(s, e).e = e /\ x \in Nat /\ s <= x /\ x < e
      BY DEF Block
    <3> HIDE DEF S
    <3> QED
      BY <1>1, <1>2, <3>1, CoverHas
  <2> QED
    BY <1>2, <2>1, <2>2
<1>3. CASE Block(s, e) \notin S
  <2>1. Add(r, s, e) = Fit(d, s, e)
    BY <1>3 DEF Add
  <2>2. B \subseteq S /\ \A b \in S : b \in B <=> s <= b.s /\ b.e <= e
    BY DEF Covered
  <2>3. Sound(d) /\ ToSet(d.fifo) = S \ B /\ d.nxt = r.nxt
    <3> HIDE DEF B
    <3> QED
      BY <2>2, DropFacts
  <2>4. Cover(B) \subseteq s .. e - 1
    <3>1. ASSUME NEW x \in Cover(B) PROVE x \in s .. e - 1
      <4>1. B \subseteq Nodes
        BY <1>1, <2>2
      <4>2. x \in Nat
        BY <4>1, CoverFacts
      <4>3. PICK b \in B : b.s <= x /\ x < b.e
        BY <4>1, CoverFacts
      <4>4. b.s \in Nat /\ b.e \in Nat /\ s <= b.s /\ b.e <= e
        BY <2>2, <4>1 DEF Nodes
      <4> QED
        BY <4>2, <4>3, <4>4
    <3> QED
      BY <3>1
  <2>5. Cover(S) = Cover(S \ B) \cup Cover(B)
    BY <2>2 DEF Cover
  <2> HIDE DEF S, B, d
  <2>6. Gained(d, Fit(d, s, e), s, e)
    <3>1. \A b \in ToSet(d.fifo) : ~(s <= b.s /\ b.e <= e)
      BY <2>2, <2>3
    <3> QED
      BY <2>3, <3>1, FitFacts
  <2>7. Sound(Fit(d, s, e)) /\ Moved(r, Fit(d, s, e), s, e)
    BY <2>3, <2>6 DEF Gained, Moved
  <2>8. Cover(ToSet(Fit(d, s, e).fifo)) = Cover(S \ B) \cup (s .. e - 1)
    BY <2>3, <2>6 DEF Gained
  <2>9. Cover(ToSet(Fit(d, s, e).fifo)) = Cover(S) \cup (s .. e - 1)
    BY <2>4, <2>5, <2>8
  <2> QED
    BY <2>1, <2>7, <2>9 DEF S
<1> QED
  BY <1>2, <1>3

(* clearto(): the bytes below seq are gone, the others are still there.    *)
LEMMA ClearToFacts ==
  ASSUME NEW r, Sound(r), NEW seq \in Nat
  PROVE  /\ Sound(ClearTo(r, seq)) /\ ClearTo(r, seq).nxt = r.nxt
         /\ \A x : x \in Cover(ToSet(ClearTo(r, seq).fifo))
                     <=> x \in Cover(ToSet(r.fifo)) /\ seq <= x
         /\ \A b \in ToSet(ClearTo(r, seq).fifo) : seq <= b.s
<1> DEFINE S == ToSet(r.fifo)
           B == {b \in S : b.e <= seq}
           d == Drop(r, B)
           p == Head(d.fifo)
           T == ToSet(d.fifo)
           w == ClearTo(r, seq)
<1>1. Lists(r, S) /\ S \subseteq Nodes
      /\ \A b \in S : b.s \in Nat /\ b.e \in Nat /\ b.s < b.e
  BY ListsFacts DEF Sound
<1>2. Sound(d) /\ T = S \ B /\ d.nxt = r.nxt
  <2>1. B \subseteq S
    OBVIOUS
  <2> HIDE DEF B
  <2> QED
    BY <2>1, DropFacts
<1>3. w = IF d.fifo # <<>> /\ p.s <= seq
          THEN [Change(d, p, Block(seq, p.e)) EXCEPT !.total = @ - (seq - p.s)]
          ELSE d
  BY DEF ClearTo
<1>4. \A b \in S : b \in T <=> seq < b.e
  BY <1>1, <1>2
<1>5. T \subseteq S
  BY <1>2
<1> HIDE DEF S, B, d, w
<1>6. d.fifo \in Seq(Nodes) /\ Ordered(d.fifo) /\ d \in RawQueues
  BY <1>2, ListsFacts DEF Sound, Lists
<1>7. ASSUME d.fifo # <<>>
      PROVE  p \in T /\ \A x \in T : x = p \/ p.e <= x.s
  BY <1>6, <1>7, OrderedFacts
<1>8. T = {} <=> d.fifo = <<>>
  BY <1>6, ElementsFacts
<1> HIDE DEF p, T
<1>9. \A x : x \in Cover(S) <=> x \in Nat /\ \E b \in S : b.s <= x /\ x < b.e
  BY <1>1, CoverFacts
<1>10. \A x : x \in Cover(T) <=> x \in Nat /\ \E b \in T : b.s <= x /\ x < b.e
  BY <1>1, <1>5, CoverFacts
<1>11. CASE ~(d.fifo # <<>> /\ p.s <= seq)
  <2>1. w = d
    BY <1>3, <1>11
  <2>2. ASSUME NEW b \in T PROVE seq < b.s
    <3>1. d.fifo # <<>> /\ p \in T /\ (b = p \/ p.e <= b.s)
      BY <1>7, <1>8
    <3>2. b.s \in Nat /\ p.s \in Nat /\ p.e \in Nat /\ p.s < p.e
      BY <1>1, <1>5, <3>1
    <3> QED
      BY <1>11, <3>1, <3>2
  <2>3. ASSUME NEW x PROVE x \in Cover(T) <=> x \in Cover(S) /\ seq <= x
    <3>1. ASSUME x \in Cover(T) PROVE x \in Cover(S) /\ seq <= x
      <4>1. x \in Nat
        BY <1>10, <3>1
      <4>2. PICK b \in T : b.s <= x /\ x < b.e
        BY <1>10, <3>1
      <4>3. seq < b.s /\ b.s \in Nat
        BY <1>1, <1>5, <2>2
      <4> QED
        BY <1>5, <1>9, <4>1, <4>2, <4>3
    <3>2. ASSUME x \in Cover(S), seq <= x PROVE x \in Cover(T)
      <4>1. x \in Nat
        BY <1>9, <3>2
      <4>2. PICK b \in S : b.s <= x /\ x < b.e
        BY <1>9, <3>2
      <4>3. b \in T
        BY <1>1, <1>4, <3>2, <4>1, <4>2
      <4> QED
        BY <1>10, <4>1, <4>2, <4>3
    <3> QED
      BY <3>1, <3>2
  <2>4. \A b \in T : seq <= b.s
    BY <1>1, <1>5, <2>2
  <2> QED
    BY <1>2, <2>1, <2>3, <2>4 DEF S, T, w
<1>12. CASE d.fifo # <<>> /\ p.s <= seq
  <2> DEFINE c == Block(seq, p.e)
  <2>1. p \in T /\ \A x \in T : x = p \/ p.e <= x.s
    BY <1>7, <1>12
  <2>2. p \in S /\ p.s \in Nat /\ p.e \in Nat /\ p.s < p.e /\ seq < p.e
    BY <1>1, <1>4, <1>5, <2>1
  <2>3. c \in Nodes /\ c.s = seq /\ c.e = p.e
    BY <2>2 DEF Block, Nodes
  <2>4. w = [Change(d, p, c) EXCEPT !.total = @ - (seq - p.s)]
    BY <1>3, <1>12
  <2> HIDE DEF c
  <2>5. FitsApart(T, p, c)
    <3>1. ASSUME NEW x \in T PROVE x.e < p.s => x.e < c.s
      <4>1. x.e \in Nat
        BY <1>1, <1>5
      <4> QED
        BY <1>12, <2>2, <2>3, <4>1
    <3> QED
      BY <2>3, <3>1 DEF FitsApart
  <2>6. w = Reshaped(d, p, c)
    <3> DEFINE u == Change(d, p, c)
    <3>1. u.total \in Int
      <4>1. d.total \in Int /\ u.total = d.total
        BY <1>6 DEF Change, RawQueues
      <4> QED
        BY <4>1
    <3> HIDE DEF u
    <3>2. u.total - (seq - p.s) = u.total + (c.e - c.s) - (p.e - p.s)
      BY <2>2, <2>3, <3>1
    <3>3. w = [u EXCEPT !.total = u.total - (seq - p.s)]
      BY <2>4 DEF u
    <3>4. w = [u EXCEPT !.total = u.total + (c.e - c.s) - (p.e - p.s)]
      BY <3>2, <3>3
    <3> QED
      BY <3>4 DEF Reshaped, u
  <2>7. Sound(w) /\ w.nxt = r.nxt /\ ToSet(w.fifo) = (T \ {p}) \cup {c}
    <3>1. p \in ToSet(d.fifo) /\ FitsApart(ToSet(d.fifo), p, c) /\ c \in Nodes /\ Sound(d)
      BY <1>2, <2>1, <2>3, <2>5 DEF T
    <3>2. /\ Sound(Reshaped(d, p, c)) /\ Reshaped(d, p, c).nxt = d.nxt
          /\ ToSet(Reshaped(d, p, c).fifo) = (ToSet(d.fifo) \ {p}) \cup {c}
      BY <3>1, ReshapeFacts
    <3> QED
      BY <1>2, <2>6, <3>2 DEF T
  <2> DEFINE W == (T \ {p}) \cup {c}
  <2>8. \A b \in W : b = c \/ (b \in T /\ b \in S /\ p.e <= b.s)
    BY <1>5, <2>1
  <2>9. \A b \in W : seq <= b.s
    <3>1. ASSUME NEW b \in W PROVE seq <= b.s
      <4>1. CASE b = c
        BY <2>3, <4>1
      <4>2. CASE b \in S /\ p.e <= b.s
        <5>1. b.s \in Nat
          BY <1>1, <4>2
        <5> QED
          BY <2>2, <4>2, <5>1
      <4> QED
        BY <2>8, <4>1, <4>2
    <3> QED
      BY <3>1
  <2>10. W \subseteq Nodes
    BY <1>1, <2>3, <2>8
  <2>11. \A x : x \in Cover(W) <=> x \in Nat /\ \E b \in W : b.s <= x /\ x < b.e
    <3> HIDE DEF W
    <3> QED
      BY <2>10, CoverFacts
  <2>12. ASSUME NEW x PROVE x \in Cover(W) <=> x \in Cover(S) /\ seq <= x
    <3>1. ASSUME x \in Cover(W) PROVE x \in Cover(S) /\ seq <= x
      <4>1. x \in Nat
        BY <2>11, <3>1
      <4>2. PICK b \in W : b.s <= x /\ x < b.e
        BY <2>11, <3>1
      <4>3. b.s \in Nat /\ seq <= b.s
        BY <2>9, <2>10 DEF Nodes
      <4>4. seq <= x
        BY <4>1, <4>2, <4>3
      <4>5. CASE b = c
        <5>1. p.s <= x /\ x < p.e
          BY <1>12, <2>2, <2>3, <4>1, <4>2, <4>4, <4>5
        <5> QED
          BY <1>9, <2>2, <4>1, <4>4, <5>1
      <4>6. CASE b \in S
        BY <1>9, <4>1, <4>2, <4>4, <4>6
      <4> QED
        BY <2>8, <4>5, <4>6
    <3>2. ASSUME x \in Cover(S), seq <= x PROVE x \in Cover(W)
      <4>1. x \in Nat
        BY <1>9, <3>2
      <4>2. PICK b \in S : b.s <= x /\ x < b.e
        BY <1>9, <3>2
      <4>3. b \in T
        BY <1>1, <1>4, <3>2, <4>1, <4>2
      <4>4. CASE b = p
        <5>1. c \in W /\ c.s <= x /\ x < c.e
          BY <2>3, <3>2, <4>2, <4>4
        <5> QED
          BY <2>11, <4>1, <5>1
      <4>5. CASE b # p
        <5>1. b \in W
          BY <4>3, <4>5
        <5> HIDE DEF W
        <5> QED
          BY <2>11, <4>1, <4>2, <5>1
      <4> QED
        BY <4>4, <4>5
    <3> QED
      BY <3>1, <3>2
  <2> HIDE DEF W
  <2>13. ToSet(w.fifo) = W
    BY <2>7 DEF W
  <2> QED
    BY <2>7, <2>9, <2>12, <2>13 DEF S, w
<1> QED
  BY <1>11, <1>12

-----------------------------------------------------------------------------
(* What a sound queue is good for.                                         *)

(* Sound is more than WellFormed asks for.                                 *)
LEMMA SoundWellFormed ==
  ASSUME NEW r, Sound(r)
  PROVE  WellFormed(r)
<1> DEFINE S == ToSet(r.fifo)
           q == r.fifo
<1>1. /\ Lists(r, S) /\ Apart(S) /\ r.total = Cardinality(Cover(S))
      /\ q \in Seq(Nodes) /\ r.lifo \in Seq(Nodes) /\ Ordered(q)
      /\ ToSet(r.lifo) = S /\ Once(r.lifo)
  BY ListsFacts DEF Sound, Lists
<1>2. /\ Len(q) \in Nat /\ DOMAIN q = 1..Len(q)
      /\ \A k \in 1..Len(q) : q[k] \in Nodes /\ q[k] \in S
  BY <1>1, ElementsFacts
<1>3. Once(q)
  BY <1>1, OrderedFacts
<1>4. \A k \in DOMAIN q : q[k].s < q[k].e
  BY <1>2 DEF Nodes
<1>5. ASSUME NEW k \in 1..Len(q) - 1 PROVE q[k].e < q[k + 1].s
  <2>1. k \in 1..Len(q) /\ k + 1 \in 1..Len(q) /\ k < k + 1 /\ k # k + 1
    BY <1>2
  <2>2. q[k] # q[k + 1] /\ q[k].e <= q[k + 1].s
    BY <1>1, <1>2, <1>3, <2>1 DEF Once, Ordered
  <2>3. q[k].e < q[k + 1].s \/ q[k + 1].e < q[k].s
    BY <1>1, <1>2, <2>1, <2>2 DEF Apart
  <2>4. /\ q[k].s \in Nat /\ q[k].e \in Nat /\ q[k].s < q[k].e
        /\ q[k + 1].s \in Nat /\ q[k + 1].e \in Nat /\ q[k + 1].s < q[k + 1].e
    BY <1>2, <2>1 DEF Nodes
  <2> QED
    BY <2>2, <2>3, <2>4
<1>6. Len(r.lifo) = Len(q)
  <2>1. Cardinality(ToSet(q)) = Len(q)
    BY <1>1, <1>3, OnceLength
  <2>2. Cardinality(ToSet(r.lifo)) = Len(r.lifo)
    BY <1>1, OnceLength
  <2> QED
    BY <1>1, <2>1, <2>2
<1>7. r.total = SumBytes(q)
  BY <1>1, SumBytesFacts
<1> QED
  BY <1>1, <1>4, <1>5, <1>6, <1>7 DEF WellFormed

(* There is only one order of the same nodes.                              *)
LEMMA OrderedUnique ==
  ASSUME NEW a \in Seq(Nodes), NEW b \in Seq(Nodes), Ordered(a), Ordered(b),
         ToSet(a) = ToSet(b)
  PROVE  a = b
<1>1. Once(a) /\ Once(b)
  BY OrderedFacts
<1>2. Len(a) = Len(b)
  BY <1>1, OnceLength
<1>3. /\ Len(a) \in Nat /\ DOMAIN a = 1..Len(a)
      /\ \A i \in 1..Len(a) : a[i] \in Nodes /\ a[i] \in ToSet(a)
      /\ \A x \in ToSet(a) : \E i \in 1..Len(a) : x = a[i]
  BY ElementsFacts
<1>4. /\ DOMAIN b = 1..Len(a)
      /\ \A i \in 1..Len(a) : b[i] \in Nodes /\ b[i] \in ToSet(a)
      /\ \A x \in ToSet(a) : \E i \in 1..Len(a) : x = b[i]
  BY <1>2, ElementsFacts
<1> DEFINE D == {i \in 1..Len(a) : a[i] # b[i]}
<1>5. D = {}
  <2>1. SUFFICES ASSUME D # {} PROVE FALSE
    OBVIOUS
  <2>2. PICK i \in D : \A k \in D : i <= k
    <3>1. D \subseteq Nat
      OBVIOUS
    <3> HIDE DEF D
    <3> QED
      BY <2>1, <3>1, LeastNat
  <2>3. i \in 1..Len(a) /\ a[i] # b[i]
    OBVIOUS
  <2>4. \A k \in 1..Len(a) : k < i => a[k] = b[k]
    <3>1. ASSUME NEW k \in 1..Len(a), k < i PROVE a[k] = b[k]
      <4>1. ~(i <= k)
        BY <2>3, <3>1
      <4> QED
        BY <2>2, <4>1
    <3> QED
      BY <3>1
  <2>5. PICK k \in 1..Len(a) : a[i] = b[k]
    BY <1>3, <1>4, <2>3
  <2>6. PICK l \in 1..Len(a) : b[i] = a[l]
    BY <1>3, <1>4, <2>3
  <2>7. k > i
    <3>1. ~(k < i)
      BY <1>1, <1>3, <2>3, <2>4, <2>5 DEF Once
    <3>2. k # i
      BY <2>3, <2>5
    <3> QED
      BY <2>3, <3>1, <3>2
  <2>8. l > i
    <3>1. ~(l < i)
      BY <1>1, <1>4, <2>3, <2>4, <2>6 DEF Once
    <3>2. l # i
      BY <2>3, <2>6
    <3> QED
      BY <2>3, <3>1, <3>2
  <2>9. b[i].e <= a[i].s
    BY <1>4, <2>3, <2>5, <2>7 DEF Ordered
  <2>10. a[i].e <= b[i].s
    BY <1>3, <2>3, <2>6, <2>8 DEF Ordered
  <2>11. /\ a[i].s \in Nat /\ a[i].e \in Nat /\ a[i].s < a[i].e
         /\ b[i].s \in Nat /\ b[i].e \in Nat /\ b[i].s < b[i].e
    BY <1>3, <1>4, <2>3 DEF Nodes
  <2> QED
    BY <2>9, <2>10, <2>11
<1>6. \A i \in 1..Len(a) : a[i] = b[i]
  BY <1>5
<1> HIDE DEF D
<1> QED
  BY <1>2, <1>6, SeqEqual

(* Only leaves the elements that are in B, in their order.                 *)
LEMMA OnlyFacts ==
  ASSUME NEW q \in Seq(Nodes), Ordered(q), NEW B, B \subseteq ToSet(q)
  PROVE  Only(q, B) \in Seq(Nodes) /\ ToSet(Only(q, B)) = B /\ Ordered(Only(q, B))
<1> DEFINE o == Only(q, B)
<1>1. /\ o \in Seq(Nodes) /\ ToSet(o) = ToSet(q) \ (ToSet(q) \ B)
      /\ \A R : Related(q, R) => Related(o, R)
  BY WithoutFacts DEF Only
<1>2. Related(q, Before)
  BY AsRelations
<1>3. ToSet(q) \ (ToSet(q) \ B) = B
  OBVIOUS
<1> HIDE DEF o
<1>4. Ordered(o)
  BY <1>1, <1>2, AsRelations
<1> QED
  BY <1>1, <1>3, <1>4 DEF o

(* What is left when the first node is taken away.                         *)
LEMMA TailFacts ==
  ASSUME NEW q \in Seq(Nodes), Ordered(q), q # <<>>
  PROVE  /\ Tail(q) \in Seq(Nodes) /\ Ordered(Tail(q))
         /\ ToSet(Tail(q)) = ToSet(q) \ {Head(q)}
<1> DEFINE t == Tail(q)
           n == Len(q) - 1
<1>1. /\ Len(q) \in Nat \ {0} /\ DOMAIN q = 1..Len(q) /\ Head(q) = q[1]
      /\ \A x \in ToSet(q) : \E i \in 1..Len(q) : x = q[i]
      /\ \A i \in 1..Len(q) : q[i] \in ToSet(q)
  BY EmptySeq, ElementsFacts
<1>2. /\ t \in Seq(Nodes) /\ Len(t) = n
      /\ \A i \in 1..n : t[i] = q[i + 1]
  BY HeadTailProperties
<1> HIDE DEF t
<1>3. DOMAIN t = 1..n
  BY <1>2, LenProperties
<1>4. Ordered(t)
  <2>1. ASSUME NEW i \in 1..n, NEW j \in 1..n, i < j PROVE t[i].e <= t[j].s
    <3>1. i + 1 \in 1..Len(q) /\ j + 1 \in 1..Len(q) /\ i + 1 < j + 1
      BY <1>1, <2>1
    <3>2. t[i] = q[i + 1] /\ t[j] = q[j + 1]
      BY <1>2
    <3>3. q[i + 1].e <= q[j + 1].s
      <4> DEFINE k == i + 1
                 l == j + 1
      <4>1. k \in DOMAIN q /\ l \in DOMAIN q /\ k < l
        BY <1>1, <3>1
      <4> HIDE DEF k, l
      <4>2. q[k].e <= q[l].s
        BY <4>1 DEF Ordered
      <4> QED
        BY <4>2 DEF k, l
    <3> QED
      BY <3>2, <3>3
  <2> QED
    BY <1>3, <2>1 DEF Ordered
<1>5. ToSet(t) = ToSet(q) \ {Head(q)}
  <2>1. Once(q)
    BY OrderedFacts
  <2>2. \A x : x \in ToSet(t) <=> \E i \in 1..n : x = t[i]
    BY <1>3 DEF ToSet
  <2>3. ASSUME NEW i \in 1..n PROVE t[i] \in ToSet(q) /\ t[i] # Head(q)
    <3>1. i + 1 \in 1..Len(q) /\ 1 \in 1..Len(q) /\ i + 1 # 1
      BY <1>1
    <3> QED
      BY <1>1, <1>2, <2>1, <3>1 DEF Once
  <2>4. ASSUME NEW x \in ToSet(q), x # Head(q) PROVE x \in ToSet(t)
    <3>1. PICK i \in 1..Len(q) : x = q[i]
      BY <1>1
    <3>2. i - 1 \in 1..n /\ (i - 1) + 1 = i
      BY <1>1, <2>4, <3>1
    <3>3. t[i - 1] = q[i]
      BY <1>2, <3>2
    <3> QED
      BY <2>2, <3>1, <3>2, <3>3
  <2> QED
    BY <2>2, <2>3, <2>4
<1> QED
  BY <1>2, <1>4, <1>5 DEF t

(* nexthole() finds the first hole and counts what is above it.            *)
HoleExact(r, seq) ==
  LET h     == NextHole(r, seq)
      above == Only(r.fifo, {b \in ToSet(r.fifo) : b.s > h.hole})
  IN  IF \E b \in ToSet(r.fifo) : b.e >= seq
      THEN /\ h.hole >= seq /\ h.hole \notin Bytes(r.fifo)
           /\ seq .. h.hole - 1 \subseteq Bytes(r.fifo)
           /\ h.bytes = IF above = <<>> THEN -1 ELSE SumBytes(above)
           /\ h.blks = IF above = <<>> THEN -1 ELSE Len(above)
      ELSE h.hole = -1

(* It does so on every sound queue.                                        *)
LEMMA NextHoleFacts ==
  ASSUME NEW r, Sound(r), NEW seq \in Int
  PROVE  HoleExact(r, seq) /\ NextHole(r, seq).hole \in Int
<1> DEFINE S == ToSet(r.fifo)
           B == {b \in S : b.e >= seq}
           a == Only(r.fifo, B)
           hd == Head(a)
           h == NextHole(r, seq)
           A == {b \in S : b.s > h.hole}
           Count(q) == IF q = <<>> THEN -1 ELSE SumBytes(q)
           Number(q) == IF q = <<>> THEN -1 ELSE Len(q)
<1>1. /\ Lists(r, S) /\ Apart(S) /\ S \subseteq Nodes
      /\ r.fifo \in Seq(Nodes) /\ Ordered(r.fifo)
      /\ \A b \in S : b.s \in Nat /\ b.e \in Nat /\ b.s < b.e
  BY ListsFacts DEF Sound, Lists
<1>2. Bytes(r.fifo) = Cover(S)
      /\ \A x : x \in Cover(S) <=> x \in Nat /\ \E b \in S : b.s <= x /\ x < b.e
  BY <1>1, CoverFacts
<1>3. a \in Seq(Nodes) /\ ToSet(a) = B /\ Ordered(a)
  <2>1. B \subseteq S
    OBVIOUS
  <2> HIDE DEF B
  <2> QED
    BY <1>1, <2>1, OnlyFacts
<1>4. h = IF a = <<>> THEN [hole |-> -1, blks |-> -1, bytes |-> -1]
          ELSE IF hd.s > seq
               THEN [hole |-> seq, blks |-> Number(a), bytes |-> Count(a)]
               ELSE [hole |-> hd.e, blks |-> Number(Tail(a)), bytes |-> Count(Tail(a))]
  BY DEF NextHole
<1>5. HoleExact(r, seq) <=>
        IF B # {}
        THEN /\ h.hole >= seq /\ h.hole \notin Cover(S)
             /\ seq .. h.hole - 1 \subseteq Cover(S)
             /\ h.bytes = Count(Only(r.fifo, A))
             /\ h.blks = Number(Only(r.fifo, A))
        ELSE h.hole = -1
  BY <1>2 DEF HoleExact
<1> HIDE DEF S, a, h, Count, Number
<1>6. a = <<>> <=> B = {}
  BY <1>3, ElementsFacts
<1>7. ASSUME B = {} PROVE HoleExact(r, seq)
  <2>1. h.hole = -1
    BY <1>4, <1>6, <1>7
  <2> QED
    BY <1>5, <1>7, <2>1
<1>8. ASSUME B # {} PROVE HoleExact(r, seq)
  <2>1. hd \in B /\ \A x \in B : x = hd \/ hd.e <= x.s
    BY <1>3, <1>6, <1>8, OrderedFacts
  <2> HIDE DEF hd
  <2>2. hd \in S /\ hd.s \in Nat /\ hd.e \in Nat /\ hd.s < hd.e /\ hd.e >= seq
    BY <1>1, <2>1
  <2>3. CASE hd.s > seq
    <3>1. h.hole = seq /\ h.blks = Number(a) /\ h.bytes = Count(a)
      BY <1>4, <1>6, <1>8, <2>3
    <3>2. \A x \in B : x.s > seq
      BY <1>1, <2>1, <2>2, <2>3
    <3>3. A = B
      BY <1>1, <3>1, <3>2
    <3>4. Only(r.fifo, A) = a
      BY <3>3 DEF a
    <3>5. seq \notin Cover(S)
      <4>1. SUFFICES ASSUME seq \in Cover(S) PROVE FALSE
        OBVIOUS
      <4>2. PICK b \in S : b.s <= seq /\ seq < b.e
        BY <1>2, <4>1
      <4>3. b \in B /\ b.s \in Nat
        BY <1>1, <4>2
      <4> QED
        BY <3>2, <4>2, <4>3
    <3>6. seq .. seq - 1 = {} /\ seq >= seq
      OBVIOUS
    <3> HIDE DEF A, B
    <3> QED
      BY <1>5, <1>8, <3>1, <3>4, <3>5, <3>6
  <2>4. CASE ~(hd.s > seq)
    <3>1. h.hole = hd.e /\ h.blks = Number(Tail(a)) /\ h.bytes = Count(Tail(a))
      BY <1>4, <1>6, <1>8, <2>4
    <3>2. Tail(a) \in Seq(Nodes) /\ Ordered(Tail(a)) /\ ToSet(Tail(a)) = B \ {hd}
      BY <1>3, <1>6, <1>8, TailFacts DEF hd
    <3>3. A = B \ {hd}
      <4>1. ASSUME NEW x \in B, x # hd PROVE x \in A
        <5>1. x \in S /\ hd.e <= x.s /\ x.s \in Nat /\ x.e \in Nat /\ x.s < x.e
          BY <1>1, <2>1, <4>1
        <5>2. hd.e < x.s \/ x.e < hd.s
          BY <1>1, <2>2, <4>1, <5>1 DEF Apart
        <5> QED
          BY <2>2, <3>1, <5>1, <5>2
      <4>2. ASSUME NEW x \in A PROVE x \in B /\ x # hd
        <5>1. x \in S /\ hd.e < x.s /\ x.s \in Nat /\ x.e \in Nat /\ x.s < x.e
          BY <1>1, <2>2, <3>1
        <5> QED
          BY <2>2, <5>1
      <4> QED
        BY <4>1, <4>2
    <3>4. Only(r.fifo, A) = Tail(a)
      <4>1. A \subseteq S
        OBVIOUS
      <4> HIDE DEF A, B
      <4>2. /\ Only(r.fifo, A) \in Seq(Nodes) /\ Ordered(Only(r.fifo, A))
            /\ ToSet(Only(r.fifo, A)) = A
        BY <1>1, <4>1, OnlyFacts DEF S
      <4> QED
        BY <3>2, <3>3, <4>2, OrderedUnique
    <3>5. hd.e \notin Cover(S)
      <4>1. SUFFICES ASSUME hd.e \in Cover(S) PROVE FALSE
        OBVIOUS
      <4>2. PICK b \in S : b.s <= hd.e /\ hd.e < b.e
        BY <1>2, <4>1
      <4>3. b.s \in Nat /\ b.e \in Nat /\ (b = hd \/ hd.e < b.s \/ b.e < hd.s)
        BY <1>1, <2>2 DEF Apart
      <4> QED
        BY <2>2, <4>2, <4>3
    <3>6. ASSUME NEW x \in seq .. hd.e - 1 PROVE x \in Cover(S)
      <4>1. x \in Nat /\ hd.s <= x /\ x < hd.e
        BY <2>2, <2>4
      <4> QED
        BY <1>2, <2>2, <4>1
    <3> HIDE DEF A, B
    <3> QED
      BY <1>5, <1>8, <2>2, <3>1, <3>4, <3>5, <3>6
  <2> QED
    BY <2>3, <2>4
<1>9. h.hole \in Int
  <2>1. CASE a = <<>>
    BY <1>4, <2>1
  <2>2. CASE a # <<>>
    <3>1. hd \in ToSet(a)
      BY <1>3, <2>2, OrderedFacts
    <3>2. hd.e \in Int
      BY <1>1, <1>3, <3>1
    <3> QED
      BY <1>4, <2>2, <3>2
  <2> QED
    BY <2>1, <2>2
<1> QED
  BY <1>7, <1>8, <1>9 DEF h

-----------------------------------------------------------------------------
(* The receiver's queue.                                                   *)

(* The first and the last byte of a node are held.                         *)
LEMMA EndsCovered ==
  ASSUME NEW S, S \subseteq Nodes, NEW b \in S
  PROVE  b.s \in Cover(S) /\ b.e - 1 \in Cover(S)
<1>1. b.s \in Nat /\ b.e \in Nat /\ b.s < b.e
  BY DEF Nodes
<1>2. b.s <= b.s /\ b.e - 1 \in Nat /\ b.s <= b.e - 1 /\ b.e - 1 < b.e
  BY <1>1
<1> QED
  BY <1>1, <1>2, CoverHas

(* Nothing that is in order waits.                                         *)
Waits(r) ==
  Sound(r) /\ r.nxt \in Nat /\ \A b \in ToSet(r.fifo) : r.nxt < b.s

(* What arrived: the bytes in order and those that wait.                   *)
Arrived(r) == 0 .. r.nxt - 1 \union Cover(ToSet(r.fifo))

(* A byte that waits is above rcv_nxt_.                                    *)
LEMMA WaitsFacts ==
  ASSUME NEW r, Waits(r)
  PROVE  /\ ToSet(r.fifo) \subseteq Nodes /\ r.fifo \in Seq(Nodes) /\ r \in RawQueues
         /\ \A x \in Cover(ToSet(r.fifo)) : x \in Nat /\ r.nxt < x
         /\ r.nxt \notin Arrived(r)
<1>1. ToSet(r.fifo) \subseteq Nodes /\ r.fifo \in Seq(Nodes) /\ r \in RawQueues
  BY ListsFacts DEF Waits, Sound, Lists
<1>2. ASSUME NEW x \in Cover(ToSet(r.fifo)) PROVE x \in Nat /\ r.nxt < x
  <2>1. x \in Nat
    BY <1>1, CoverFacts
  <2>2. PICK b \in ToSet(r.fifo) : b.s <= x /\ x < b.e
    BY <1>1, CoverFacts
  <2>3. b.s \in Nat /\ r.nxt \in Nat /\ r.nxt < b.s
    BY <1>1 DEF Waits, Nodes
  <2> QED
    BY <2>1, <2>2, <2>3
<1>3. r.nxt \notin Arrived(r)
  <2>1. r.nxt \in Nat
    BY DEF Waits
  <2>2. r.nxt \notin Cover(ToSet(r.fifo))
    BY <1>2, <2>1
  <2> QED
    BY <2>1, <2>2 DEF Arrived
<1> QED
  BY <1>1, <1>2, <1>3

(* What is held is what arrived.                                           *)
LEMMA BytesAreCover ==
  ASSUME NEW r, Sound(r)
  PROVE  /\ Bytes(r.fifo) = Cover(ToSet(r.fifo))
         /\ (0 .. r.nxt - 1) \cup Bytes(r.fifo) = Arrived(r)
<1>1. ToSet(r.fifo) \subseteq Nodes
  BY ListsFacts DEF Sound
<1> QED
  BY <1>1, CoverFacts DEF Arrived

(* reass() of a segment that starts above rcv_nxt_: it waits.              *)
LEMMA ReassAbove ==
  ASSUME NEW r, Waits(r), NEW s \in Nat, NEW e \in Nat, s < e, r.nxt < s
  PROVE  LET w == Reass(r, s, e)
         IN  Waits(w) /\ w.nxt = r.nxt /\ Arrived(w) = Arrived(r) \cup (s .. e - 1)
<1> DEFINE w == Reass(r, s, e)
           S == ToSet(r.fifo)
           T == ToSet(w.fifo)
<1>1. w = Add(r, s, e) /\ r.nxt \in Nat /\ Sound(r)
  BY DEF Reass, Waits
<1>2. /\ Sound(w) /\ Cover(T) = Cover(S) \cup (s .. e - 1)
      /\ w = r \/ Moved(r, w, s, e)
  BY <1>1, AddFacts
<1>3. T \subseteq Nodes
  BY <1>2, ListsFacts DEF Sound
<1>4. \A x \in Cover(T) : r.nxt < x
  BY <1>1, <1>2, WaitsFacts
<1> HIDE DEF w, S, T
<1>5. \A b \in T : r.nxt < b.s
  BY <1>3, <1>4, EndsCovered
<1>6. w.nxt = r.nxt
  <2>1. CASE w = r
    BY <2>1
  <2>2. CASE Moved(r, w, s, e)
    <3>1. PICK m \in T : w.nxt = IF r.nxt >= m.s THEN m.e ELSE r.nxt
      BY <2>2 DEF Moved, T
    <3>2. m.s \in Nat /\ r.nxt < m.s
      BY <1>3, <1>5 DEF Nodes
    <3>3. ~(r.nxt >= m.s)
      BY <1>1, <3>2
    <3> QED
      BY <3>1, <3>3
  <2> QED
    BY <1>2, <2>1, <2>2
<1>7. Waits(w)
  BY <1>1, <1>2, <1>5, <1>6 DEF Waits, T
<1>8. Arrived(w) = Arrived(r) \cup (s .. e - 1)
  <2>1. Cover(ToSet(w.fifo)) = Cover(ToSet(r.fifo)) \cup (s .. e - 1)
    BY <1>2 DEF T, S
  <2> QED
    BY <1>6, <2>1 DEF Arrived
<1> QED
  BY <1>6, <1>7, <1>8 DEF w

(* reass() of a segment that fills the first hole: rcv_nxt_ goes to the    *)
(* end of the node that results, and that node goes.                       *)
LEMMA ReassAt ==
  ASSUME NEW r, Waits(r), NEW e \in Nat, r.nxt < e
  PROVE  LET w == Reass(r, r.nxt, e)
         IN  Waits(w) /\ r.nxt <= w.nxt /\ Arrived(w) = Arrived(r) \cup (r.nxt .. e - 1)
<1> DEFINE n == r.nxt
           a == Add(r, n, e)
           w == ClearTo(a, a.nxt)
           S == ToSet(r.fifo)
           A == ToSet(a.fifo)
           T == ToSet(w.fifo)
<1>1. Reass(r, r.nxt, e) = w
  BY DEF Reass
<1>2. Sound(r) /\ n \in Nat /\ S \subseteq Nodes /\ (\A b \in S : n < b.s)
      /\ \A x \in Cover(S) : x \in Nat /\ n < x
  BY WaitsFacts DEF Waits
<1>3. /\ Sound(a) /\ Cover(A) = Cover(S) \cup (n .. e - 1)
      /\ Block(n, e) \in S \/ Moved(r, a, n, e)
  BY <1>2, AddFacts
<1>4. Moved(r, a, n, e)
  <2>1. Block(n, e).s = n
    BY DEF Block
  <2>2. Block(n, e) \notin S
    BY <1>2, <2>1
  <2> QED
    BY <1>3, <2>2
<1>5. /\ A \subseteq Nodes /\ Apart(A) /\ a.fifo \in Seq(Nodes) /\ Ordered(a.fifo)
      /\ \A b \in A : b.s \in Nat /\ b.e \in Nat /\ b.s < b.e
  BY <1>3, ListsFacts DEF Sound, Lists
<1>6. \A x \in Cover(A) : x \in Nat /\ n <= x
  BY <1>2, <1>3
<1> HIDE DEF a, w, S, A, T
<1>7. \A b \in A : n <= b.s
  BY <1>5, <1>6, EndsCovered
<1>8. PICK m \in A : /\ a.nxt = IF n >= m.s THEN m.e ELSE n
                     /\ m = Head(a.fifo) \/ (m.s <= n /\ e <= m.e)
  BY <1>4 DEF Moved, A
<1>9. m.s = n
  <2>1. CASE m.s <= n
    BY <1>2, <1>5, <1>7, <2>1
  <2>2. CASE m = Head(a.fifo)
    <3>1. n \in Cover(A)
      BY <1>2, <1>3
    <3>2. PICK b \in A : b.s <= n /\ n < b.e
      BY <1>5, <3>1, CoverFacts
    <3>3. m = b \/ m.e <= b.s
      <4>1. a.fifo # <<>>
        BY <1>5, ElementsFacts DEF A
      <4> QED
        BY <1>5, <2>2, <4>1, OrderedFacts DEF A
    <3> QED
      BY <1>2, <1>5, <1>7, <3>2, <3>3
  <2> QED
    BY <1>8, <2>1, <2>2
<1>10. a.nxt = m.e /\ m.e \in Nat /\ n < m.e
  BY <1>2, <1>5, <1>8, <1>9
<1>11. /\ Sound(w) /\ w.nxt = m.e
       /\ \A x : x \in Cover(T) <=> x \in Cover(A) /\ m.e <= x
  BY <1>3, <1>10, ClearToFacts DEF w, A, T
<1>12. T \subseteq Nodes
  BY <1>11, ListsFacts DEF Sound, T
<1>13. m.e \notin Cover(A)
  <2>1. SUFFICES ASSUME m.e \in Cover(A) PROVE FALSE
    OBVIOUS
  <2>2. PICK c \in A : c.s <= m.e /\ m.e < c.e
    BY <1>5, <2>1, CoverFacts
  <2>3. c = m \/ c.e < m.s \/ m.e < c.s
    BY <1>5 DEF Apart
  <2>4. c.s \in Nat /\ c.e \in Nat /\ m.s \in Nat /\ m.e \in Nat /\ m.s < m.e
    BY <1>5
  <2> QED
    BY <2>2, <2>3, <2>4
<1>14. \A b \in T : m.e < b.s
  <2>1. ASSUME NEW b \in T PROVE m.e < b.s
    <3>1. b.s \in Cover(T) /\ b.s \in Nat
      BY <1>12, EndsCovered DEF Nodes
    <3>2. b.s \in Cover(A) /\ m.e <= b.s
      BY <1>11, <3>1
    <3> QED
      BY <1>10, <1>13, <3>1, <3>2
  <2> QED
    BY <2>1
<1>15. Waits(w)
  BY <1>10, <1>11, <1>14 DEF Waits, T
<1>16. Arrived(w) = Arrived(r) \cup (n .. e - 1)
  <2>1. \A x \in n .. m.e - 1 : x \in Cover(A)
    <3>1. ASSUME NEW x \in n .. m.e - 1 PROVE x \in Cover(A)
      <4>1. x \in Nat /\ m.s <= x /\ x < m.e
        BY <1>2, <1>9, <1>10
      <4> QED
        BY <1>5, <4>1, CoverHas
    <3> QED
      BY <3>1
  <2>2. \A x \in 0 .. m.e - 1 : x \in 0 .. n - 1 \/ x \in n .. m.e - 1
    BY <1>2, <1>10
  <2>3. \A x \in 0 .. n - 1 : x \in 0 .. m.e - 1
    BY <1>2, <1>10
  <2>4. \A x \in Cover(A) : m.e <= x \/ x \in 0 .. m.e - 1
    BY <1>6, <1>10
  <2>5. (0 .. m.e - 1) \cup Cover(T) = (0 .. n - 1) \cup Cover(A)
    BY <1>11, <2>1, <2>2, <2>3, <2>4
  <2>6. Arrived(w) = (0 .. m.e - 1) \cup Cover(T)
    BY <1>11 DEF Arrived, T
  <2>7. Arrived(r) = (0 .. n - 1) \cup Cover(S)
    BY DEF Arrived, S
  <2> QED
    BY <1>3, <2>5, <2>6, <2>7
<1> QED
  BY <1>1, <1>2, <1>10, <1>11, <1>15, <1>16

(* recv of a segment with data: what had arrived is kept, the bytes of the *)
(* segment are added, and rcv_nxt_ does not fall.                          *)
LEMMA ReceivedFacts ==
  ASSUME NEW r, Waits(r), NEW s \in Nat, NEW e \in Nat, s < e
  PROVE  LET w == Received(r, s, e)
         IN  Waits(w) /\ r.nxt <= w.nxt /\ Arrived(w) = Arrived(r) \cup (s .. e - 1)
<1> DEFINE n == r.nxt
           new == Trimmed(r, s)
           w == Received(r, s, e)
<1>1. n \in Nat /\ Sound(r) /\ r \in RawQueues
  BY WaitsFacts DEF Waits
<1>2. w = IF e <= n THEN r
          ELSE IF new = n /\ r.fifo = <<>> THEN [r EXCEPT !.nxt = e]
          ELSE Reass(r, new, e)
  BY DEF Received
<1>3. new = IF s < n THEN n ELSE s
  BY DEF Trimmed
<1> HIDE DEF n, new, w
<1>4. CASE e <= n
  <2>1. w = r
    BY <1>2, <1>4
  <2>2. \A x \in s .. e - 1 : x \in 0 .. n - 1
    BY <1>1, <1>4
  <2>3. Arrived(r) = Arrived(r) \cup (s .. e - 1)
    BY <2>2 DEF Arrived, n
  <2> QED
    BY <1>1, <2>1, <2>3 DEF w, n
<1>5. CASE n < e
  <2>1. new \in Nat /\ n <= new /\ new < e
    BY <1>1, <1>3, <1>5
  <2>2. ~(e <= n)
    BY <1>1, <1>5
  <2>3. Arrived(r) \cup (s .. e - 1) = Arrived(r) \cup (new .. e - 1)
    <3>1. \A x \in s .. e - 1 : x \in 0 .. n - 1 \/ x \in new .. e - 1
      BY <1>1, <1>3, <2>1
    <3>2. \A x \in new .. e - 1 : x \in s .. e - 1
      BY <1>1, <1>3, <2>1
    <3> QED
      BY <3>1, <3>2 DEF Arrived, n
  <2>4. CASE new = n /\ r.fifo = <<>>
    <3>1. w = [r EXCEPT !.nxt = e]
      BY <1>2, <2>2, <2>4
    <3>2. /\ w \in RawQueues /\ w.nxt = e
          /\ w.fifo = r.fifo /\ w.lifo = r.lifo /\ w.total = r.total
      BY <1>1, <3>1 DEF RawQueues
    <3>3. Sound(w)
      BY <1>1, <3>2 DEF Sound, Lists
    <3>4. ToSet(w.fifo) = {}
      BY <2>4, <3>2 DEF ToSet
    <3>5. Waits(w)
      BY <3>2, <3>3, <3>4 DEF Waits
    <3>6. Cover(ToSet(w.fifo)) = {} /\ Cover(ToSet(r.fifo)) = {}
      BY <3>2, <3>4 DEF Cover
    <3>7. 0 .. e - 1 = (0 .. n - 1) \cup (n .. e - 1)
      BY <1>1, <1>5
    <3>8. Arrived(w) = Arrived(r) \cup (new .. e - 1)
      BY <2>4, <3>2, <3>6, <3>7 DEF Arrived, n
    <3>9. n <= w.nxt
      BY <1>1, <1>5, <3>2
    <3> QED
      BY <2>3, <3>5, <3>8, <3>9 DEF w, n
  <2>5. CASE ~(new = n /\ r.fifo = <<>>)
    <3>1. w = Reass(r, new, e)
      BY <1>2, <2>2, <2>5
    <3>2. Waits(w) /\ n <= w.nxt /\ Arrived(w) = Arrived(r) \cup (new .. e - 1)
      <4>1. CASE new = n
        BY <1>5, <3>1, <4>1, ReassAt DEF n
      <4>2. CASE new # n
        <5>1. r.nxt < new
          BY <1>1, <2>1, <4>2 DEF n
        <5>2. Waits(w) /\ w.nxt = r.nxt /\ Arrived(w) = Arrived(r) \cup (new .. e - 1)
          BY <2>1, <3>1, <5>1, ReassAbove
        <5> QED
          BY <1>1, <5>2 DEF n
      <4> QED
        BY <4>1, <4>2
    <3> QED
      BY <2>3, <3>2 DEF w, n
  <2> QED
    BY <2>4, <2>5
<1> QED
  BY <1>1, <1>4, <1>5

-----------------------------------------------------------------------------
(* The sender's scoreboard.                                                *)

(* sack_min_ is at most highest_ack_, which no block holds.                *)
Boards(n) ==
  {w \in RawQueues : Sound(w) /\ n \notin Cover(ToSet(w.fifo)) /\ w.nxt \in -1 .. n}

(* It stays so when a block that does not hold it goes to the scoreboard,  *)
(* although add() moves sack_min_.                                         *)
LEMMA ScoreboardAdd ==
  ASSUME NEW n \in Nat, NEW w \in Boards(n), NEW b \in Nodes, n \notin Cover({b})
  PROVE  /\ Add(w, b.s, b.e) \in Boards(n)
         /\ Cover(ToSet(Add(w, b.s, b.e).fifo)) = Cover(ToSet(w.fifo)) \cup Cover({b})
<1> DEFINE a == Add(w, b.s, b.e)
           A == ToSet(a.fifo)
<1>1. b.s \in Nat /\ b.e \in Nat /\ b.s < b.e
  BY DEF Nodes
<1>8. Cover({b}) = b.s .. b.e - 1
  BY CoverOne
<1>2. Sound(w) /\ n \notin Cover(ToSet(w.fifo)) /\ w.nxt \in -1 .. n
  BY DEF Boards
<1>3. /\ Sound(a) /\ Cover(A) = Cover(ToSet(w.fifo)) \cup Cover({b})
      /\ a = w \/ Moved(w, a, b.s, b.e)
  <2>1. /\ Sound(a) /\ Cover(A) = Cover(ToSet(w.fifo)) \cup (b.s .. b.e - 1)
        /\ a = w \/ Moved(w, a, b.s, b.e)
    BY <1>1, <1>2, AddFacts
  <2> QED
    BY <1>8, <2>1
<1>4. /\ A \subseteq Nodes /\ a \in RawQueues
      /\ \A m \in A : m.s \in Nat /\ m.e \in Nat /\ m.s < m.e
  BY <1>3, ListsFacts DEF Sound, Lists
<1>5. n \notin Cover(A)
  BY <1>2, <1>3
<1> HIDE DEF a, A
<1>6. a.nxt \in -1 .. n
  <2>1. CASE a = w
    BY <1>2, <2>1
  <2>2. CASE Moved(w, a, b.s, b.e)
    <3>1. PICK m \in A : a.nxt = IF w.nxt >= m.s THEN m.e ELSE w.nxt
      BY <2>2 DEF Moved, A
    <3>2. CASE w.nxt >= m.s
      <4>1. m.s <= n /\ m.s \in Nat /\ m.e \in Nat
        BY <1>2, <1>4, <3>2
      <4>2. ~(n < m.e)
        BY <1>4, <1>5, <4>1, CoverHas
      <4> QED
        BY <3>1, <3>2, <4>1, <4>2
    <3>3. CASE ~(w.nxt >= m.s)
      BY <1>2, <3>1, <3>3
    <3> QED
      BY <3>2, <3>3
  <2> QED
    BY <1>3, <2>1, <2>2
<1>7. a \in Boards(n)
  BY <1>3, <1>4, <1>5, <1>6 DEF Boards, A
<1> QED
  BY <1>3, <1>7 DEF a, A

(* h[i] is the scoreboard when the first i blocks of a SACK option are on  *)
(* it.                                                                     *)
Told(h, old, sack) ==
  /\ h[0] = old
  /\ \A i \in 1 .. Len(sack) : h[i] = Add(h[i - 1], sack[i].s, sack[i].e)

(* process_sack goes through these scoreboards.                            *)
LEMMA ProcessSackSteps ==
  ASSUME NEW n \in Nat, NEW old \in Boards(n), NEW sack \in Seq(Nodes),
         n \notin Cover(ToSet(sack))
  PROVE  \E h \in [0 .. Len(sack) -> Boards(n)] :
           Told(h, old, sack) /\ ProcessSack(old, sack) = h[Len(sack)]
<1> DEFINE k == Len(sack)
           Step(i, w) == Add(w, sack[i].s, sack[i].e)
           F == [i \in 1..k |-> [w \in Boards(n) |-> Step(i, w)]]
           Body(f) == [i \in 0..k |-> IF i = 0 THEN old
                                      ELSE IF sack[i].s < sack[i].e
                                           THEN Step(i, f[i - 1]) ELSE f[i - 1]]
           told == CHOOSE f : f = Body(f)
<1>1. k \in Nat /\ \A i \in 1..k : sack[i] \in Nodes /\ sack[i] \in ToSet(sack)
  BY ElementsFacts
<1>2. \A i \in 1..k : \A w \in Boards(n) : Step(i, w) \in Boards(n)
  <2>1. ASSUME NEW i \in 1..k, NEW w \in Boards(n) PROVE Step(i, w) \in Boards(n)
    <3>1. sack[i] \in Nodes /\ n \notin Cover({sack[i]})
      <4>1. sack[i] \in Nodes
        BY <1>1
      <4>2. Cover({sack[i]}) \subseteq Cover(ToSet(sack))
        BY <1>1 DEF Cover
      <4> QED
        BY <4>1, <4>2
    <3> QED
      BY <3>1, ScoreboardAdd
  <2> QED
    BY <2>1
<1>3. F \in [1..k -> [Boards(n) -> Boards(n)]]
  BY <1>2
<1>4. \A i \in 1..k : \A w \in Boards(n) : F[i][w] = Step(i, w)
  OBVIOUS
<1> HIDE DEF F, Step
<1>5. PICK h \in [0..k -> Boards(n)] : Records(h, F, old, k)
  <2> HIDE DEF k
  <2> QED
    BY <1>1, <1>3, Iteration
<1>6. h[0] = old /\ \A i \in 1..k : h[i] = Step(i, h[i - 1])
  <2>1. ASSUME NEW i \in 1..k PROVE h[i] = Step(i, h[i - 1])
    <3>1. i - 1 \in 0..k
      BY <1>1
    <3>2. h[i - 1] \in Boards(n) /\ h[i] = F[i][h[i - 1]]
      BY <1>5, <3>1 DEF Records
    <3> QED
      BY <1>4, <3>2
  <2> QED
    BY <1>5, <2>1 DEF Records
<1>7. ProcessSack(old, sack) = told[k]
  BY DEF ProcessSack, Step
<1>8. \A i \in 1..k : sack[i].s < sack[i].e
  BY <1>1 DEF Nodes
<1>9. h = Body(h)
  <2>1. \A i \in 0..k : h[i] = IF i = 0 THEN old
                               ELSE IF sack[i].s < sack[i].e
                                    THEN Step(i, h[i - 1]) ELSE h[i - 1]
    BY <1>1, <1>6, <1>8
  <2> HIDE DEF k
  <2> QED
    BY <2>1
<1>10. told = Body(told)
  BY <1>9
<1> HIDE DEF told
<1>11. told[0] = old /\ \A i \in 1..k : told[i] = Step(i, told[i - 1])
  <2>1. \A i \in 0..k : told[i] = Body(told)[i]
    BY <1>10
  <2>2. 0 \in 0..k /\ \A i \in 1..k : i \in 0..k /\ i # 0
    BY <1>1
  <2> HIDE DEF k
  <2> QED
    BY <1>8, <2>1, <2>2
<1>12. \A i \in 0..k : told[i] = h[i]
  <2>1. InStep(told, h, k)
    BY <1>6, <1>11 DEF InStep
  <2> HIDE DEF k
  <2> QED
    BY <1>1, <2>1, Agreement
<1>13. k \in 0..k
  BY <1>1
<1>14. Told(h, old, sack)
  BY <1>6 DEF Told, Step
<1> QED
  BY <1>7, <1>12, <1>13, <1>14

(* The blocks of an ACK that do not hold highest_ack_ are added to what    *)
(* the scoreboard holds.                                                   *)
LEMMA ProcessSackFacts ==
  ASSUME NEW n \in Nat, NEW old \in Boards(n), NEW sack \in Seq(Nodes),
         n \notin Cover(ToSet(sack))
  PROVE  /\ ProcessSack(old, sack) \in Boards(n)
         /\ Cover(ToSet(ProcessSack(old, sack).fifo))
              = Cover(ToSet(old.fifo)) \cup Cover(ToSet(sack))
<1> DEFINE k == Len(sack)
           First(i) == {sack[j] : j \in 1..i}
           C(w) == Cover(ToSet(w.fifo))
<1>1. /\ k \in Nat /\ DOMAIN sack = 1..k
      /\ \A i \in 1..k : sack[i] \in Nodes /\ sack[i] \in ToSet(sack)
  BY ElementsFacts
<1>2. PICK h \in [0..k -> Boards(n)] :
           Told(h, old, sack) /\ ProcessSack(old, sack) = h[k]
  BY ProcessSackSteps
<1> DEFINE T == {i \in 0..k : C(h[i]) = C(old) \cup Cover(First(i))}
<1>3. 0 \in T
  <2>1. First(0) = {}
    OBVIOUS
  <2>2. Cover(First(0)) = {}
    BY <2>1 DEF Cover
  <2>3. h[0] = old
    BY <1>2 DEF Told
  <2> HIDE DEF First, C
  <2> QED
    BY <1>1, <2>2, <2>3
<1>4. \A i \in 1..k : i - 1 \in T => i \in T
  <2>1. ASSUME NEW i \in 1..k, i - 1 \in T PROVE i \in T
    <3>1. h[i] = Add(h[i - 1], sack[i].s, sack[i].e)
      BY <1>2 DEF Told
    <3>2. h[i - 1] \in Boards(n) /\ sack[i] \in Nodes
      BY <1>1, <1>2
    <3>3. n \notin Cover({sack[i]})
      <4>1. Cover({sack[i]}) \subseteq Cover(ToSet(sack))
        BY <1>1 DEF Cover
      <4> QED
        BY <4>1
    <3>4. C(h[i]) = C(h[i - 1]) \cup Cover({sack[i]})
      BY <3>1, <3>2, <3>3, ScoreboardAdd
    <3>5. First(i) = First(i - 1) \cup {sack[i]}
      <4>1. \A j \in 1..i : j = i \/ j \in 1..i - 1
        BY <1>1
      <4>2. i \in 1..i /\ \A j \in 1..i - 1 : j \in 1..i
        BY <1>1
      <4> QED
        BY <4>1, <4>2
    <3>6. Cover(First(i)) = Cover(First(i - 1)) \cup Cover({sack[i]})
      <4> HIDE DEF First
      <4> QED
        BY <3>5 DEF Cover
    <3>7. C(h[i - 1]) = C(old) \cup Cover(First(i - 1)) /\ i \in 0..k
      BY <2>1
    <3> HIDE DEF First, C
    <3> QED
      BY <3>4, <3>6, <3>7
  <2> QED
    BY <2>1
<1>5. 0..k \subseteq T
  <2> HIDE DEF T, k
  <2> QED
    BY <1>1, <1>3, <1>4, InductionTo
<1>6. k \in T
  BY <1>1, <1>5
<1>7. First(k) = ToSet(sack)
  BY <1>1 DEF ToSet
<1>8. h[k] \in Boards(n)
  BY <1>1, <1>2
<1> HIDE DEF First
<1> QED
  BY <1>2, <1>6, <1>7, <1>8

(* ack_action for an ACK that advances: nothing is left that it            *)
(* acknowledges, the rest stays.                                           *)
LEMMA AckedFacts ==
  ASSUME NEW n \in Nat, NEW old \in Boards(n), NEW m \in Nat, n < m,
         m \notin Cover(ToSet(old.fifo))
  PROVE  LET w == Acked(old, m)
         IN  /\ w \in Boards(m)
             /\ Cover(ToSet(w.fifo)) \subseteq Cover(ToSet(old.fifo))
             /\ \A b \in ToSet(w.fifo) : m <= b.s
<1> DEFINE w == Acked(old, m)
           r == [old EXCEPT !.nxt = m]
<1>1. Sound(old) /\ old.nxt \in Int /\ old.nxt < m /\ old \in RawQueues
  BY DEF Boards
<1>2. CASE old.fifo = <<>>
  <2>1. w = old
    BY <1>2 DEF Acked
  <2>2. ToSet(old.fifo) = {}
    BY <1>2 DEF ToSet
  <2>3. old.nxt \in -1 .. m
    BY DEF Boards
  <2>4. w \in Boards(m)
    BY <1>1, <2>1, <2>3 DEF Boards
  <2> QED
    BY <2>1, <2>2, <2>4
<1>3. CASE old.fifo # <<>>
  <2>1. w = ClearTo(r, m)
    BY <1>1, <1>3 DEF Acked
  <2>2. /\ r \in RawQueues /\ r.nxt = m
        /\ r.fifo = old.fifo /\ r.lifo = old.lifo /\ r.total = old.total
    BY <1>1 DEF RawQueues
  <2> HIDE DEF r
  <2>3. Sound(r)
    BY <1>1, <2>2 DEF Sound, Lists
  <2> HIDE DEF w
  <2>4. /\ Sound(w) /\ w.nxt = r.nxt
        /\ \A x : x \in Cover(ToSet(w.fifo)) <=> x \in Cover(ToSet(r.fifo)) /\ m <= x
        /\ \A b \in ToSet(w.fifo) : m <= b.s
    BY <2>1, <2>3, ClearToFacts
  <2>5. Cover(ToSet(w.fifo)) \subseteq Cover(ToSet(old.fifo))
    BY <2>2, <2>4
  <2>6. w \in RawQueues
    BY <2>4 DEF Sound, Lists
  <2>7. w \in Boards(m)
    <3>1. m \notin Cover(ToSet(w.fifo))
      BY <2>5
    <3>2. w.nxt \in -1 .. m
      BY <2>2, <2>4
    <3> QED
      BY <2>4, <2>6, <3>1, <3>2 DEF Boards
  <2> QED
    BY <2>4, <2>5, <2>7 DEF w
<1> QED
  BY <1>2, <1>3

(* A queue without nodes is sound, and a scoreboard whatever its sack_min_ *)
(* is, as long as that is at most highest_ack_.                            *)
LEMMA EmptyFacts ==
  ASSUME NEW i \in Int
  PROVE  LET w == EmptyQueue(i)
         IN  /\ Sound(w) /\ w \in RawQueues /\ w.nxt = i /\ ToSet(w.fifo) = {}
             /\ Cover(ToSet(w.fifo)) = {}
             /\ \A n \in Nat : i \in -1 .. n => w \in Boards(n)
<1> DEFINE w == EmptyQueue(i)
<1>1. /\ w.fifo = <<>> /\ w.lifo = <<>> /\ w.total = 0 /\ w.nxt = i
      /\ w \in RawQueues
  BY EmptySeq DEF EmptyQueue, RawQueues
<1>2. ToSet(<<>>) = {} /\ Cover({}) = {} /\ Cardinality({}) = 0
  BY FS_EmptySet DEF ToSet, Cover
<1>3. Ordered(<<>>) /\ Once(<<>>) /\ Apart({})
  BY DEF Ordered, Once, Apart
<1> HIDE DEF w
<1>4. Sound(w)
  BY <1>1, <1>2, <1>3 DEF Sound, Lists
<1>5. \A n \in Nat : i \in -1 .. n => w \in Boards(n)
  BY <1>1, <1>2, <1>4 DEF Boards
<1> QED
  BY <1>1, <1>2, <1>4, <1>5 DEF w

(* gensack sends nodes of the queue, at most max_sack_blocks_ of them.     *)
LEMMA AckOfFacts ==
  ASSUME NEW r, Sound(r)
  PROVE  /\ AckOf(r).ackno = r.nxt
         /\ AckOf(r).sack \in Seq(Nodes) /\ Len(AckOf(r).sack) <= MaxSackBlocks
         /\ Cover(ToSet(AckOf(r).sack)) \subseteq Cover(ToSet(r.fifo))
<1> DEFINE q == r.lifo
           m == IF MaxSackBlocks < Len(q) THEN MaxSackBlocks ELSE Len(q)
           s == SubSeq(q, 1, m)
<1>1. AckOf(r) = [ackno |-> r.nxt, sack |-> s]
  BY DEF AckOf, GenSack
<1>2. q \in Seq(Nodes) /\ ToSet(q) = ToSet(r.fifo)
  BY ListsFacts DEF Sound, Lists
<1>3. /\ Len(q) \in Nat /\ DOMAIN q = 1..Len(q)
      /\ \A i \in 1..Len(q) : q[i] \in Nodes /\ q[i] \in ToSet(q)
  BY <1>2, ElementsFacts
<1>4. m \in Nat /\ m <= Len(q) /\ m <= MaxSackBlocks
  BY <1>3, SackEndsAssumption
<1>5. s \in Seq(Nodes) /\ Len(s) = m /\ \A i \in 1..m : s[i] = q[i]
  <2> HIDE DEF m, q
  <2>1. \A i \in 1..m : q[i] \in Nodes
    BY <1>3, <1>4
  <2>2. 1 \in 1..Len(q) + 1 /\ m \in 1 - 1..Len(q) /\ m - 1 + 1 = m
    BY <1>3, <1>4
  <2>3. /\ s \in Seq(Nodes) /\ Len(s) = m - 1 + 1
        /\ \A i \in 1..m - 1 + 1 : s[i] = q[1 + i - 1]
    BY <1>2, <2>2, SubSeqProperties
  <2> QED
    BY <1>4, <2>3
<1> HIDE DEF s, m, q
<1>6. ToSet(s) \subseteq ToSet(q)
  <2>1. \A x \in ToSet(s) : \E i \in 1..m : x = s[i]
    BY <1>5, ElementsFacts
  <2> QED
    BY <1>3, <1>4, <1>5, <2>1
<1>7. Cover(ToSet(s)) \subseteq Cover(ToSet(r.fifo))
  BY <1>2, <1>6 DEF Cover
<1> QED
  BY <1>1, <1>4, <1>5, <1>7

-----------------------------------------------------------------------------
(* Both ends and the ACKs between them.                                    *)

(* An ACK asks for no more than the receiver asks for now, and says        *)
(* nothing of a byte that did not arrive.                                  *)
Truthful(a, r) ==
  /\ a.ackno \in 0 .. r.nxt
  /\ a.sack \in Seq(Nodes) /\ Len(a.sack) <= MaxSackBlocks
  /\ Cover(ToSet(a.sack)) \subseteq Arrived(r)

(* No block holds the byte that highest_ack_ (u) or an ACK asks for,       *)
(* whichever ACKs the two come from.  w is the scoreboard, A the ACKs.     *)
NumbersNotSacked(A, u, w) ==
  /\ \A a \in A : u \notin Cover(ToSet(a.sack))
  /\ \A a \in A : a.ackno \notin Cover(ToSet(w.fifo))
  /\ \A a, b \in A : a.ackno \notin Cover(ToSet(b.sack))

(* The sender knows less than the receiver.                                *)
KnowsLess(r, u, w) ==
  u \in 0 .. r.nxt /\ w \in Boards(u) /\ Cover(ToSet(w.fifo)) \subseteq Arrived(r)

(* A receiver, the ACKs under way, highest_ack_ and the scoreboard of a    *)
(* connection.                                                             *)
Coherent(r, A, u, w) ==
  /\ Waits(r)
  /\ KnowsLess(r, u, w)
  /\ \A a \in A : Truthful(a, r)
  /\ NumbersNotSacked(A, u, w)

(* Nothing has been sent; the first byte is n.                             *)
LEMMA EmptyCoherent ==
  ASSUME NEW n \in Nat
  PROVE  /\ Coherent(EmptyQueue(n), {}, n, EmptyQueue(-1))
         /\ Arrived(EmptyQueue(n)) = 0 .. n - 1
<1> DEFINE r == EmptyQueue(n)
           w == EmptyQueue(-1)
<1>1. /\ Sound(r) /\ r.nxt = n /\ ToSet(r.fifo) = {} /\ Cover(ToSet(r.fifo)) = {}
  BY EmptyFacts
<1>2. w \in Boards(n) /\ Cover(ToSet(w.fifo)) = {}
  <2>1. -1 \in Int /\ -1 \in -1 .. n
    OBVIOUS
  <2> QED
    BY <2>1, EmptyFacts
<1> HIDE DEF r, w
<1>3. Waits(r) /\ Arrived(r) = 0 .. n - 1
  BY <1>1 DEF Waits, Arrived
<1>4. KnowsLess(r, n, w)
  BY <1>1, <1>2 DEF KnowsLess
<1> QED
  BY <1>3, <1>4 DEF Coherent, NumbersNotSacked, r, w

(* A segment arrives: the ACK it is answered with is truthful, asks for a  *)
(* byte that no block has, and its blocks are above what any ACK asks for. *)
LEMMA ReceiveCoherent ==
  ASSUME NEW r, NEW A, NEW u, NEW w, Coherent(r, A, u, w),
         NEW s \in Nat, NEW e \in Nat, s < e
  PROVE  LET x == Received(r, s, e)
         IN  /\ Coherent(x, A \cup {AckOf(x)}, u, w) /\ Waits(x)
             /\ r.nxt <= x.nxt /\ Arrived(x) = Arrived(r) \cup (s .. e - 1)
<1> DEFINE x == Received(r, s, e)
           new == AckOf(x)
<1>1. Waits(r) /\ KnowsLess(r, u, w) /\ NumbersNotSacked(A, u, w)
  BY DEF Coherent
<1>4. /\ Waits(x) /\ r.nxt <= x.nxt /\ Arrived(x) = Arrived(r) \cup (s .. e - 1)
  BY <1>1, ReceivedFacts
<1> HIDE DEF x
<1>6. r.nxt \in Nat /\ x.nxt \in Nat /\ Sound(x)
  BY <1>1, <1>4 DEF Waits
<1>7. /\ \A y \in Cover(ToSet(x.fifo)) : y \in Nat /\ x.nxt < y
      /\ x.nxt \notin Arrived(x)
  BY <1>4, WaitsFacts
<1>8. /\ new.ackno = x.nxt
      /\ new.sack \in Seq(Nodes) /\ Len(new.sack) <= MaxSackBlocks
      /\ Cover(ToSet(new.sack)) \subseteq Cover(ToSet(x.fifo))
  BY <1>6, AckOfFacts
<1> HIDE DEF new
<1>9. /\ u \in 0 .. r.nxt /\ w \in Boards(u)
      /\ Cover(ToSet(w.fifo)) \subseteq Arrived(r)
  BY <1>1 DEF KnowsLess
<1>10. \A a \in A : Truthful(a, r)
  BY DEF Coherent
<1>11. Truthful(new, x)
  <2>1. x.nxt \in 0 .. x.nxt
    BY <1>6
  <2>2. Cover(ToSet(new.sack)) \subseteq Arrived(x)
    BY <1>8 DEF Arrived
  <2> QED
    BY <1>8, <2>1, <2>2 DEF Truthful
<1>12. ASSUME NEW a \in A PROVE Truthful(a, x)
  <2>1. a.ackno \in 0 .. r.nxt /\ Cover(ToSet(a.sack)) \subseteq Arrived(r)
    BY <1>10 DEF Truthful
  <2>2. a.ackno \in 0 .. x.nxt
    BY <1>4, <1>6, <2>1
  <2>3. Cover(ToSet(a.sack)) \subseteq Arrived(x)
    BY <1>4, <2>1
  <2> QED
    BY <1>10, <2>2, <2>3 DEF Truthful
<1>14. KnowsLess(x, u, w)
  <2>1. u \in 0 .. x.nxt
    BY <1>4, <1>6, <1>9
  <2>2. Cover(ToSet(w.fifo)) \subseteq Arrived(x)
    BY <1>4, <1>9
  <2> QED
    BY <1>9, <2>1, <2>2 DEF KnowsLess
<1>15. \A y \in 0 .. r.nxt : y \notin Cover(ToSet(new.sack))
  <2>1. ASSUME NEW y \in 0 .. r.nxt PROVE ~(x.nxt < y)
    BY <1>4, <1>6
  <2> QED
    BY <1>7, <1>8, <2>1
<1>16. new.ackno \notin Cover(ToSet(new.sack))
  <2>1. ~(x.nxt < x.nxt)
    BY <1>6
  <2> QED
    BY <1>7, <1>8, <2>1
<1>17. \A a \in A : new.ackno \notin Cover(ToSet(a.sack))
  BY <1>7, <1>8, <1>12 DEF Truthful
<1>18. new.ackno \notin Cover(ToSet(w.fifo))
  BY <1>4, <1>7, <1>8, <1>9
<1>19. /\ \A a \in A : u \notin Cover(ToSet(a.sack))
       /\ \A a \in A : a.ackno \notin Cover(ToSet(w.fifo))
       /\ \A a, b \in A : a.ackno \notin Cover(ToSet(b.sack))
  BY <1>1 DEF NumbersNotSacked
<1>20. /\ u \notin Cover(ToSet(new.sack))
       /\ \A a \in A : a.ackno \notin Cover(ToSet(new.sack))
  BY <1>9, <1>10, <1>15 DEF Truthful
<1>21. NumbersNotSacked(A \cup {new}, u, w)
  BY <1>16, <1>17, <1>18, <1>19, <1>20 DEF NumbersNotSacked
<1>22. \A a \in A \cup {new} : Truthful(a, x)
  BY <1>11, <1>12
<1>23. Coherent(x, A \cup {new}, u, w)
  BY <1>4, <1>14, <1>21, <1>22 DEF Coherent
<1> QED
  BY <1>4, <1>23 DEF x, new

(* An ACK arrives: its blocks go to the scoreboard, its number becomes     *)
(* highest_ack_ if that is lower, and then what it acknowledges goes.      *)
LEMMA AnswerCoherent ==
  ASSUME NEW r, NEW A, NEW u, NEW w, Coherent(r, A, u, w), NEW a \in A
  PROVE  LET told == ProcessSack(w, a.sack)
             v    == IF a.ackno > u THEN a.ackno ELSE u
             x    == IF a.ackno > u THEN Acked(told, v) ELSE told
         IN  /\ Coherent(r, A, v, x)
             /\ v > u => \A b \in ToSet(x.fifo) : b.s >= v
<1> DEFINE told == ProcessSack(w, a.sack)
           v == IF a.ackno > u THEN a.ackno ELSE u
           x == IF a.ackno > u THEN Acked(told, v) ELSE told
<1>2. /\ u \in 0 .. r.nxt /\ w \in Boards(u) /\ Waits(r)
      /\ Cover(ToSet(w.fifo)) \subseteq Arrived(r)
  BY DEF Coherent, KnowsLess
<1>3. /\ a.ackno \in 0 .. r.nxt /\ a.sack \in Seq(Nodes)
      /\ Cover(ToSet(a.sack)) \subseteq Arrived(r)
  BY DEF Coherent, Truthful
<1>4. /\ \A b \in A : u \notin Cover(ToSet(b.sack))
      /\ \A b \in A : b.ackno \notin Cover(ToSet(w.fifo))
      /\ \A b, c \in A : b.ackno \notin Cover(ToSet(c.sack))
  BY DEF Coherent, NumbersNotSacked
<1>5. r.nxt \in Nat /\ u \in Nat /\ a.ackno \in Nat
  BY <1>2, <1>3 DEF Waits
<1>6. /\ told \in Boards(u)
      /\ Cover(ToSet(told.fifo)) = Cover(ToSet(w.fifo)) \cup Cover(ToSet(a.sack))
  BY <1>2, <1>3, <1>4, <1>5, ProcessSackFacts
<1> HIDE DEF told
<1>7. \A b \in A : b.ackno \notin Cover(ToSet(told.fifo))
  BY <1>4, <1>6
<1>8. /\ x \in Boards(v)
      /\ Cover(ToSet(x.fifo)) \subseteq Cover(ToSet(told.fifo))
      /\ v > u => \A b \in ToSet(x.fifo) : v <= b.s
  <2>1. CASE a.ackno > u
    <3>1. v = a.ackno /\ x = Acked(told, a.ackno)
      BY <2>1
    <3>2. u < a.ackno /\ a.ackno \notin Cover(ToSet(told.fifo))
      BY <1>5, <1>7, <2>1
    <3> HIDE DEF v, x
    <3> QED
      BY <1>5, <1>6, <3>1, <3>2, AckedFacts
  <2>2. CASE ~(a.ackno > u)
    <3>1. v = u /\ x = told
      BY <2>2
    <3>2. ~(u > u)
      BY <1>5
    <3> HIDE DEF v, x
    <3> QED
      BY <1>6, <3>1, <3>2
  <2> QED
    BY <2>1, <2>2
<1>9. v \in 0 .. r.nxt /\ v \in {u, a.ackno}
  BY <1>2, <1>3
<1> HIDE DEF v, x
<1>11. KnowsLess(r, v, x)
  BY <1>2, <1>3, <1>6, <1>8, <1>9 DEF KnowsLess
<1>13. NumbersNotSacked(A, v, x)
  BY <1>4, <1>7, <1>8, <1>9 DEF NumbersNotSacked
<1>14. Coherent(r, A, v, x)
  BY <1>2, <1>11, <1>13 DEF Coherent
<1>15. v > u => \A b \in ToSet(x.fifo) : b.s >= v
  <2>1. \A b \in ToSet(x.fifo) : b.s \in Nat
    BY <1>8, ListsFacts DEF Boards, Sound
  <2>2. v \in Nat
    BY <1>5, <1>9
  <2> QED
    BY <1>8, <2>1, <2>2
<1> QED
  BY <1>14, <1>15 DEF v, x, told

(* ACKs that are lost or used up leave the others as they are.             *)
LEMMA FewerCoherent ==
  ASSUME NEW r, NEW A, NEW u, NEW w, Coherent(r, A, u, w), NEW B, B \subseteq A
  PROVE  Coherent(r, B, u, w)
BY DEF Coherent, NumbersNotSacked

(* An empty scoreboard says nothing.                                       *)
LEMMA ClearedCoherent ==
  ASSUME NEW r, NEW A, NEW u, NEW w, Coherent(r, A, u, w)
  PROVE  Coherent(r, A, u, Cleared(u))
<1> DEFINE c == Cleared(u)
<1>1. c = EmptyQueue(u)
  BY DEF Cleared
<1>2. u \in 0 .. r.nxt /\ r.nxt \in Nat
  BY DEF Coherent, KnowsLess, Waits
<1>3. u \in Int /\ u \in Nat /\ u \in -1 .. u
  BY <1>2
<1> HIDE DEF c
<1>4. c \in Boards(u) /\ Cover(ToSet(c.fifo)) = {}
  BY <1>1, <1>3, EmptyFacts
<1>5. KnowsLess(r, u, c)
  BY <1>2, <1>4 DEF KnowsLess
<1>6. NumbersNotSacked(A, u, c)
  BY <1>4 DEF Coherent, NumbersNotSacked
<1> QED
  BY <1>5, <1>6 DEF Coherent, c
==============================================================================
