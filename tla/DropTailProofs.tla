---------------------------- MODULE DropTailProofs ----------------------------
(***************************************************************************)
(* Proofs about one DropTail queue, for every set of configurations, flows,*)
(* priorities, sizes and limits, and any number of arrivals.               *)
(***************************************************************************)
EXTENDS DropTail, SequenceLemmas

-----------------------------------------------------------------------------
(* Packets.                                                                *)

(* What the rest relies on of every packet a queue may hold.               *)
LEMMA PacketFields ==
  ASSUME NEW p \in Packets
  PROVE  /\ p.id \in 1..MaxPackets /\ p.flow \in AllFlows
         /\ p.prio \in Nat /\ p.size \in Nat \ {0}
         /\ IsControl(p) => p.flow = CtlFlow
         /\ ~IsControl(p) => p.flow \in Flows
<1>1. PICK id \in 1..MaxPackets : p \in DataPackets(id) \cup ControlFrames(id)
  BY DEF Packets
<1>2. CASE p \in DataPackets(id)
  BY <1>2, DropTailAssumption DEF DataPackets, IsControl, AllFlows
<1>3. CASE p \in ControlFrames(id)
  BY <1>3, DropTailAssumption DEF ControlFrames, IsControl, AllFlows
<1> QED
  BY <1>1, <1>2, <1>3

-----------------------------------------------------------------------------
(* The sum of the sizes.                                                   *)

(* h[n] is the size of the first n packets of s.                           *)
Sums(s, h) == h[0] = 0 /\ \A i \in 1..Len(s) : h[i] = h[i - 1] + s[i].size

(* Every sequence of packets has such a record of sums.                    *)
LEMMA SumsExist ==
  ASSUME NEW s \in Seq(Packets)
  PROVE  \E h \in [0..Len(s) -> Nat] : Sums(s, h)
<1>1. Len(s) \in Nat /\ \A i \in 1..Len(s) : s[i].size \in Nat
  BY LenProperties, ElementOfSeq, PacketFields
<1> DEFINE F == [i \in 1..Len(s) |-> [n \in Nat |-> n + s[i].size]]
<1>2. \A i \in 1..Len(s) : \A n \in Nat : F[i][n] = n + s[i].size
  BY <1>1
<1>3. F \in [1..Len(s) -> [Nat -> Nat]]
  BY <1>1
<1> HIDE DEF F
<1>4. PICK h \in [0..Len(s) -> Nat] : Records(h, F, 0, Len(s))
  <2>1. Len(s) \in Nat /\ 0 \in Nat
    BY <1>1
  <2> QED
    BY <1>3, <2>1, Iteration
<1>5. ASSUME NEW i \in 1..Len(s) PROVE h[i] = h[i - 1] + s[i].size
  <2>1. i - 1 \in 0..Len(s)
    BY <1>1
  <2>2. h[i - 1] \in Nat
    BY <2>1
  <2> QED
    BY <1>2, <1>4, <2>2 DEF Records
<1> QED
  BY <1>4, <1>5 DEF Sums, Records

(* BytesOf is the last of the sums, whichever function records them.       *)
LEMMA BytesOfSums ==
  ASSUME NEW s \in Seq(Packets), NEW g, Sums(s, g)
  PROVE  BytesOf(s) = g[Len(s)]
<1>1. Len(s) \in Nat
  BY LenProperties
<1> DEFINE Body(f) == [n \in 0..Len(s) |-> IF n = 0 THEN 0 ELSE f[n - 1] + s[n].size]
           sum == CHOOSE f : f = Body(f)
<1>2. BytesOf(s) = sum[Len(s)]
  BY DEF BytesOf
<1>3. PICK h \in [0..Len(s) -> Nat] : Sums(s, h)
  BY SumsExist
<1>4. h = Body(h)
  BY <1>1, <1>3 DEF Sums
<1>5. sum = Body(sum)
  BY <1>4
<1> HIDE DEF sum
<1>6. sum[0] = 0 /\ \A i \in 1..Len(s) : sum[i] = sum[i - 1] + s[i].size
  <2>1. sum[0] = Body(sum)[0]
    BY <1>5
  <2>2. \A i \in 1..Len(s) : sum[i] = Body(sum)[i]
    BY <1>5
  <2> QED
    BY <1>1, <2>1, <2>2
<1>7. \A i \in 0..Len(s) : sum[i] = g[i]
  <2>1. InStep(sum, g, Len(s))
    BY <1>6 DEF Sums, InStep
  <2> QED
    BY <1>1, <2>1, Agreement
<1> QED
  BY <1>1, <1>2, <1>7

(* A sum of sizes is a natural number.                                     *)
LEMMA BytesOfType ==
  ASSUME NEW s \in Seq(Packets)
  PROVE  BytesOf(s) \in Nat
<1>1. PICK h \in [0..Len(s) -> Nat] : Sums(s, h)
  BY SumsExist
<1> QED
  BY <1>1, BytesOfSums, LenProperties

(* An empty queue holds no bytes.                                          *)
LEMMA BytesOfEmpty == BytesOf(<<>>) = 0
<1>1. <<>> \in Seq(Packets) /\ Len(<<>>) = 0
  BY EmptySeq
<1>2. Sums(<<>>, [n \in 0..0 |-> 0])
  BY <1>1 DEF Sums
<1> QED
  BY <1>1, <1>2, BytesOfSums

(* PacketQueue::enque adds the size of what it appends...                  *)
LEMMA BytesOfAppend ==
  ASSUME NEW s \in Seq(Packets), NEW p \in Packets
  PROVE  BytesOf(Append(s, p)) = BytesOf(s) + p.size
<1>1. Len(s) \in Nat
  BY LenProperties
<1>2. /\ Append(s, p) \in Seq(Packets) /\ Len(Append(s, p)) = Len(s) + 1
      /\ \A i \in 1..Len(s) : Append(s, p)[i] = s[i]
      /\ Append(s, p)[Len(s) + 1] = p
  BY AppendProperties
<1>3. PICK h \in [0..Len(s) -> Nat] : Sums(s, h)
  BY SumsExist
<1> DEFINE g == [i \in 0..Len(s) + 1 |->
                   IF i = Len(s) + 1 THEN h[Len(s)] + p.size ELSE h[i]]
<1>4. Sums(Append(s, p), g)
  <2>1. g[0] = 0
    BY <1>1, <1>3 DEF Sums
  <2>2. ASSUME NEW i \in 1..Len(s) + 1
        PROVE  g[i] = g[i - 1] + Append(s, p)[i].size
    <3>1. i - 1 \in 0..Len(s) + 1 /\ i - 1 # Len(s) + 1
      BY <1>1
    <3>2. CASE i = Len(s) + 1
      BY <1>1, <1>2, <3>1, <3>2
    <3>3. CASE i # Len(s) + 1
      BY <1>1, <1>2, <1>3, <3>1, <3>3 DEF Sums
    <3> QED
      BY <3>2, <3>3
  <2> HIDE DEF g
  <2> QED
    BY <1>2, <2>1, <2>2 DEF Sums
<1>5. BytesOf(Append(s, p)) = g[Len(s) + 1] /\ BytesOf(s) = h[Len(s)]
  BY <1>2, <1>3, <1>4, BytesOfSums
<1> QED
  BY <1>1, <1>5

(* ... and PacketQueue::remove subtracts that of what it removes.          *)
LEMMA BytesOfRemoveAt ==
  ASSUME NEW s \in Seq(Packets), NEW i \in 1..Len(s)
  PROVE  BytesOf(RemoveAt(s, i)) = BytesOf(s) - s[i].size
<1>1. Len(s) \in Nat /\ s[i].size \in Nat
  BY LenProperties, ElementOfSeq, PacketFields
<1> DEFINE t == RemoveAt(s, i)
<1>2. /\ t \in Seq(Packets) /\ Len(t) = Len(s) - 1
      /\ \A j \in 1..Len(s) - 1 : t[j] = IF j < i THEN s[j] ELSE s[j + 1]
  BY RemoveAtFacts
<1> HIDE DEF t
<1>3. PICK h \in [0..Len(s) -> Nat] : Sums(s, h)
  BY SumsExist
<1>4. h[0] = 0 /\ \A j \in 1..Len(s) : h[j] = h[j - 1] + s[j].size
  BY <1>3 DEF Sums
<1>5. \A j \in 1..Len(s) : s[j].size \in Nat
  BY ElementOfSeq, PacketFields
<1> DEFINE g == [j \in 0..Len(s) - 1 |->
                   IF j < i THEN h[j] ELSE h[j + 1] - s[i].size]
<1>6. Sums(t, g)
  <2>1. g[0] = 0
    BY <1>1, <1>4
  <2>2. ASSUME NEW j \in 1..Len(s) - 1
        PROVE  g[j] = g[j - 1] + t[j].size
    <3>1. /\ j - 1 \in 0..Len(s) - 1 /\ j \in 0..Len(s) - 1
          /\ j + 1 \in 1..Len(s) /\ j \in 1..Len(s)
          /\ h[j - 1] \in Nat /\ h[j] \in Nat /\ h[j + 1] \in Nat
          /\ (j + 1) - 1 = j /\ (j - 1) + 1 = j
      BY <1>1
    <3>2. h[j] = h[j - 1] + s[j].size /\ h[j + 1] = h[j] + s[j + 1].size
      BY <1>4, <3>1
    <3>3. CASE j < i
      BY <1>1, <1>2, <3>1, <3>2, <3>3
    <3>4. CASE j = i
      <4>1. g[j] = h[j + 1] - s[i].size /\ g[j - 1] = h[j - 1] /\ t[j] = s[j + 1]
        BY <1>1, <1>2, <3>1, <3>4
      <4> QED
        BY <4>1, <3>1, <3>2, <3>4, <1>5
    <3>5. CASE j > i
      <4>1. /\ g[j] = h[j + 1] - s[i].size /\ g[j - 1] = h[j] - s[i].size
            /\ t[j] = s[j + 1]
        <5>1. ~(j < i) /\ ~(j - 1 < i)
          BY <1>1, <3>1, <3>5
        <5> QED
          BY <1>1, <1>2, <3>1, <5>1
      <4> QED
        BY <4>1, <3>1, <3>2, <1>1, <1>5
    <3> QED
      BY <1>1, <3>3, <3>4, <3>5
  <2> HIDE DEF g
  <2> QED
    BY <1>2, <2>1, <2>2 DEF Sums
<1>7. BytesOf(t) = g[Len(s) - 1] /\ BytesOf(s) = h[Len(s)]
  BY <1>2, <1>3, <1>6, BytesOfSums
<1>8. g[Len(s) - 1] = h[Len(s)] - s[i].size
  <2>1. CASE i = Len(s)
    <3>1. h[Len(s)] = h[Len(s) - 1] + s[i].size /\ h[Len(s) - 1] \in Nat
      BY <1>1, <1>4, <2>1
    <3>2. g[Len(s) - 1] = h[Len(s) - 1]
      BY <1>1, <2>1
    <3> QED
      BY <1>1, <3>1, <3>2
  <2>2. CASE i # Len(s)
    BY <1>1, <2>2
  <2> QED
    BY <2>1, <2>2
<1> QED
  BY <1>7, <1>8 DEF t

-----------------------------------------------------------------------------
(* The queue object.                                                       *)

InOrder(s) == \A i, j \in DOMAIN s : i < j => s[i].id < s[j].id

(* What the operators of the queue rely on and keep.                       *)
Sound(q) == q \in Queues /\ q.bytes = BytesOf(q.pkts) /\ InOrder(q.pkts)

(* t holds nothing that s does not hold.                                   *)
Within(t, s) == \A i \in DOMAIN t : \E j \in DOMAIN s : t[i] = s[j]

(* The fields of a queue object, and the positions of its packets.         *)
LEMMA QueueFields ==
  ASSUME NEW q, q \in Queues
  PROVE  /\ q.pkts \in Seq(Packets) /\ q.bytes \in Nat
         /\ q.contains_pause \in BOOLEAN /\ q.sq_queue \in Seq(AllFlows)
         /\ q.sq_counts \in [AllFlows -> Nat]
         /\ Len(q.pkts) \in Nat /\ DOMAIN q.pkts = 1..Len(q.pkts)
         /\ \A i \in DOMAIN q.pkts : q.pkts[i] \in Packets
<1>1. q.pkts \in Seq(Packets)
  BY DEF Queues
<1>2. Len(q.pkts) \in Nat /\ DOMAIN q.pkts = 1..Len(q.pkts)
  BY <1>1, LenProperties
<1>3. \A i \in DOMAIN q.pkts : q.pkts[i] \in Packets
  BY <1>1, <1>2, ElementOfSeq
<1> QED
  BY <1>1, <1>2, <1>3 DEF Queues

(* PacketQueue::enque of a latest packet keeps bytes_ and the order, and   *)
(* touches nothing else.                                                   *)
LEMMA PushFacts ==
  ASSUME NEW q, Sound(q), NEW p \in Packets,
         \A i \in DOMAIN q.pkts : q.pkts[i].id < p.id
  PROVE  /\ Sound(Push(q, p))
         /\ Push(q, p).pkts = Append(q.pkts, p)
         /\ Push(q, p).bytes = q.bytes + p.size
         /\ Push(q, p).contains_pause = q.contains_pause
         /\ Push(q, p).sq_queue = q.sq_queue
         /\ Push(q, p).sq_counts = q.sq_counts
<1> DEFINE r == Push(q, p)
<1>1. q \in Queues /\ q.bytes = BytesOf(q.pkts) /\ InOrder(q.pkts)
  BY DEF Sound
<1>2. q.pkts \in Seq(Packets) /\ Len(q.pkts) \in Nat
      /\ DOMAIN q.pkts = 1..Len(q.pkts) /\ q.bytes \in Nat /\ p.size \in Nat
  BY <1>1, QueueFields, PacketFields
<1>3. /\ Append(q.pkts, p) \in Seq(Packets)
      /\ Len(Append(q.pkts, p)) = Len(q.pkts) + 1
      /\ \A i \in 1..Len(q.pkts) : Append(q.pkts, p)[i] = q.pkts[i]
      /\ Append(q.pkts, p)[Len(q.pkts) + 1] = p
      /\ DOMAIN Append(q.pkts, p) = 1..Len(q.pkts) + 1
  BY <1>2, AppendProperties, LenProperties
<1>4. /\ r.pkts = Append(q.pkts, p) /\ r.bytes = q.bytes + p.size
      /\ r.contains_pause = q.contains_pause
      /\ r.sq_queue = q.sq_queue /\ r.sq_counts = q.sq_counts
  BY <1>1 DEF Push, Queues
<1>5. r \in Queues
  <2> DEFINE t == Append(q.pkts, p)
  <2>1. r = [q EXCEPT !.pkts = t, !.bytes = q.bytes + p.size]
    BY DEF Push
  <2>2. t \in Seq(Packets) /\ q.bytes + p.size \in Nat
    BY <1>2, <1>3
  <2> HIDE DEF t, r
  <2> QED
    BY <1>1, <2>1, <2>2 DEF Queues
<1>6. r.bytes = BytesOf(r.pkts)
  BY <1>1, <1>2, <1>4, BytesOfAppend
<1>7. InOrder(Append(q.pkts, p))
  <2>1. \A i \in 1..Len(q.pkts) : q.pkts[i].id < p.id
    BY <1>2
  <2>2. \A i, j \in 1..Len(q.pkts) : i < j => q.pkts[i].id < q.pkts[j].id
    BY <1>1, <1>2 DEF InOrder
  <2>3. ASSUME NEW i \in 1..Len(q.pkts) + 1, NEW j \in 1..Len(q.pkts) + 1, i < j
        PROVE  Append(q.pkts, p)[i].id < Append(q.pkts, p)[j].id
    <3>1. i \in 1..Len(q.pkts)
      BY <1>2, <2>3
    <3>2. CASE j = Len(q.pkts) + 1
      BY <1>3, <2>1, <3>1, <3>2
    <3>3. CASE j # Len(q.pkts) + 1
      <4>1. j \in 1..Len(q.pkts)
        BY <1>2, <3>3
      <4> QED
        BY <1>3, <2>2, <2>3, <3>1, <4>1
    <3> QED
      BY <3>2, <3>3
  <2> QED
    BY <1>3, <2>3 DEF InOrder
<1> QED
  BY <1>4, <1>5, <1>6, <1>7 DEF Sound

(* PacketQueue::remove from anywhere keeps bytes_ and the order, and       *)
(* touches nothing else.                                                   *)
LEMMA TakeFacts ==
  ASSUME NEW q, Sound(q), NEW i \in 1..Len(q.pkts)
  PROVE  /\ Sound(Take(q, i))
         /\ Take(q, i).pkts = RemoveAt(q.pkts, i)
         /\ Len(Take(q, i).pkts) = Len(q.pkts) - 1
         /\ \A j \in 1..Len(q.pkts) - 1 :
              Take(q, i).pkts[j] = IF j < i THEN q.pkts[j] ELSE q.pkts[j + 1]
         /\ Within(Take(q, i).pkts, q.pkts)
         /\ Take(q, i).bytes = q.bytes - q.pkts[i].size
         /\ Take(q, i).contains_pause = q.contains_pause
         /\ Take(q, i).sq_queue = q.sq_queue
         /\ Take(q, i).sq_counts = q.sq_counts
<1> DEFINE r == Take(q, i)
           t == RemoveAt(q.pkts, i)
           n == Len(q.pkts)
<1>1. q \in Queues /\ q.bytes = BytesOf(q.pkts) /\ InOrder(q.pkts)
  BY DEF Sound
<1>2. q.pkts \in Seq(Packets) /\ n \in Nat /\ DOMAIN q.pkts = 1..n
  BY <1>1, QueueFields
<1>3. /\ t \in Seq(Packets) /\ Len(t) = n - 1
      /\ \A j \in 1..n - 1 : t[j] = IF j < i THEN q.pkts[j] ELSE q.pkts[j + 1]
  BY <1>2, RemoveAtFacts
<1>4. DOMAIN t = 1..n - 1
  BY <1>3, LenProperties
<1>5. /\ r.pkts = t /\ r.bytes = q.bytes - q.pkts[i].size
      /\ r.contains_pause = q.contains_pause
      /\ r.sq_queue = q.sq_queue /\ r.sq_counts = q.sq_counts
  BY <1>1 DEF Take, Queues
<1>6. BytesOf(t) = q.bytes - q.pkts[i].size /\ BytesOf(t) \in Nat
  BY <1>1, <1>2, <1>3, BytesOfRemoveAt, BytesOfType
<1>7. r \in Queues
  <2>1. r = [q EXCEPT !.pkts = t, !.bytes = q.bytes - q.pkts[i].size]
    BY DEF Take
  <2>2. t \in Seq(Packets) /\ q.bytes - q.pkts[i].size \in Nat
    BY <1>3, <1>6
  <2> HIDE DEF t, r
  <2> QED
    BY <1>1, <2>1, <2>2 DEF Queues
<1> HIDE DEF t, r
<1>8. InOrder(t)
  <2>1. ASSUME NEW j \in 1..n - 1, NEW k \in 1..n - 1, j < k
        PROVE  t[j].id < t[k].id
    <3>1. \A x, y \in 1..n : x < y => q.pkts[x].id < q.pkts[y].id
      BY <1>1, <1>2 DEF InOrder
    <3>2. j \in 1..n /\ j + 1 \in 1..n /\ k \in 1..n /\ k + 1 \in 1..n
      BY <1>2
    <3>3. CASE k < i
      BY <1>3, <2>1, <3>1, <3>2, <3>3
    <3>4. CASE ~(k < i)
      <4>1. t[k] = q.pkts[k + 1] /\ j < k + 1 /\ j + 1 < k + 1
        BY <1>3, <2>1, <3>4, <3>2
      <4>2. t[j] = q.pkts[j] \/ t[j] = q.pkts[j + 1]
        BY <1>3
      <4> QED
        BY <3>1, <3>2, <4>1, <4>2
    <3> QED
      BY <3>3, <3>4
  <2> QED
    BY <1>4, <2>1 DEF InOrder
<1>9. Within(t, q.pkts)
  <2>1. ASSUME NEW j \in 1..n - 1 PROVE \E k \in 1..n : t[j] = q.pkts[k]
    BY <1>2, <1>3
  <2> QED
    BY <1>2, <1>4, <2>1 DEF Within
<1> QED
  BY <1>3, <1>5, <1>6, <1>7, <1>8, <1>9 DEF Sound, r, t

-----------------------------------------------------------------------------
(* Which packet is dropped, and which one departs.                         *)

(* drop_prio_ finds a packet; in a byte limited queue one whose removal    *)
(* gets it under the limit, else the arrival.                              *)
LEMMA WorstPrioFacts ==
  ASSUME NEW c \in QueueConfigs, NEW q, q \in Queues, q.pkts # <<>>
  PROVE  /\ WorstPrio(c, q) \in 1..Len(q.pkts)
         /\ c.qib => \/ WorstPrio(c, q) = Len(q.pkts)
                     \/ q.bytes - q.pkts[WorstPrio(c, q)].size < LimitBytes(c)
<1> DEFINE n == Len(q.pkts)
           S == { i \in DOMAIN q.pkts :
                    ~c.qib \/ q.bytes - q.pkts[i].size < LimitBytes(c) }
           key == [i \in S |-> q.pkts[i].prio]
           v == WorstPrio(c, q)
<1>1. n \in Nat \ {0} /\ DOMAIN q.pkts = 1..n
  BY QueueFields, EmptySeq
<1>2. CASE S = {}
  BY <1>1, <1>2 DEF WorstPrio
<1>3. CASE S # {}
  <2>1. S \subseteq 0..n
    BY <1>1
  <2>2. key \in [S -> Nat]
    BY QueueFields, PacketFields
  <2>3. \A i \in S : key[i] = q.pkts[i].prio
    OBVIOUS
  <2> HIDE DEF key
  <2>4. \E i \in S : \A j \in S : key[i] > key[j] \/ (key[i] = key[j] /\ i >= j)
    <3> HIDE DEF S
    <3> QED
      BY <1>1, <1>3, <2>1, <2>2, KeyOrder
  <2>5. \E i \in S : \A j \in S :
          \/ q.pkts[i].prio > q.pkts[j].prio
          \/ (q.pkts[i].prio = q.pkts[j].prio /\ i >= j)
    BY <2>3, <2>4
  <2>6. v \in S
    BY <1>3, <2>5 DEF WorstPrio
  <2> QED
    BY <1>1, <2>6
<1> QED
  BY <1>2, <1>3

(* drop_smart_ finds a packet.                                             *)
LEMMA BusiestFlowFacts ==
  ASSUME NEW q, q \in Queues, q.pkts # <<>>
  PROVE  BusiestFlow(q) \in 1..Len(q.pkts)
<1> DEFINE n == Len(q.pkts)
           S == { i \in DOMAIN q.pkts : q.sq_counts[q.pkts[i].flow] > 0 }
           key == [i \in S |-> q.sq_counts[q.pkts[i].flow]]
<1>1. n \in Nat \ {0} /\ DOMAIN q.pkts = 1..n
  BY QueueFields, EmptySeq
<1>2. CASE S = {}
  BY <1>1, <1>2 DEF BusiestFlow
<1>3. CASE S # {}
  <2>1. S \subseteq 0..n
    BY <1>1
  <2>2. key \in [S -> Nat]
    BY QueueFields, PacketFields
  <2>3. \A i \in S : key[i] = q.sq_counts[q.pkts[i].flow]
    OBVIOUS
  <2> HIDE DEF key
  <2>4. \E i \in S : \A j \in S : key[i] > key[j] \/ (key[i] = key[j] /\ i <= j)
    <3> HIDE DEF S
    <3> QED
      BY <1>1, <1>3, <2>1, <2>2, KeyOrder
  <2>5. \E i \in S : \A j \in S :
          \/ q.sq_counts[q.pkts[i].flow] > q.sq_counts[q.pkts[j].flow]
          \/ (q.sq_counts[q.pkts[i].flow] = q.sq_counts[q.pkts[j].flow] /\ i <= j)
    BY <2>3, <2>4
  <2>6. BusiestFlow(q) \in S
    BY <1>3, <2>5 DEF BusiestFlow
  <2> QED
    BY <1>1, <2>6
<1> QED
  BY <1>2, <1>3

(* Every drop policy finds a packet; what the limit needs of it.           *)
LEMMA VictimFacts ==
  ASSUME NEW c \in QueueConfigs, NEW q, q \in Queues, q.pkts # <<>>
  PROVE  /\ Victim(c, q) \in 1..Len(q.pkts)
         /\ c.drop = "tail" => Victim(c, q) = Len(q.pkts)
         /\ c.drop = "prio" /\ c.qib =>
              \/ Victim(c, q) = Len(q.pkts)
              \/ q.bytes - q.pkts[Victim(c, q)].size < LimitBytes(c)
<1>1. Len(q.pkts) \in Nat \ {0}
  BY QueueFields, EmptySeq
<1>2. c.drop \in {"front", "prio", "smart", "tail"}
  BY DEF QueueConfigs
<1>3. /\ c.drop = "front" => Victim(c, q) = 1
      /\ c.drop = "prio" => Victim(c, q) = WorstPrio(c, q)
      /\ c.drop = "smart" => Victim(c, q) = BusiestFlow(q)
      /\ c.drop = "tail" => Victim(c, q) = Len(q.pkts)
  BY <1>2 DEF Victim
<1> QED
  BY <1>1, <1>2, <1>3, WorstPrioFacts, BusiestFlowFacts

(* deque_prio_ finds a packet.                                             *)
LEMMA MostUrgentFacts ==
  ASSUME NEW q, q \in Queues, q.pkts # <<>>
  PROVE  MostUrgent(q) \in DOMAIN q.pkts
<1> DEFINE n == Len(q.pkts)
           S == DOMAIN q.pkts
           key == [i \in S |-> q.pkts[i].prio]
<1>1. n \in Nat \ {0} /\ DOMAIN q.pkts = 1..n
  BY QueueFields, EmptySeq
<1>2. S \subseteq 0..n /\ S # {}
  <2>1. 1 \in 1..n /\ 1..n \subseteq 0..n
    BY <1>1
  <2> QED
    BY <1>1, <2>1
<1>3. key \in [S -> Nat]
  BY QueueFields, PacketFields
<1>4. \A i \in S : key[i] = q.pkts[i].prio
  OBVIOUS
<1> HIDE DEF key
<1>5. \E i \in S : \A j \in S : key[i] < key[j] \/ (key[i] = key[j] /\ i <= j)
  <2> HIDE DEF S
  <2> QED
    BY <1>1, <1>2, <1>3, KeyOrder
<1>6. \E i \in S : \A j \in S :
        \/ q.pkts[i].prio < q.pkts[j].prio
        \/ (q.pkts[i].prio = q.pkts[j].prio /\ i <= j)
  BY <1>4, <1>5
<1> QED
  BY <1>6 DEF MostUrgent

(* keep_order_ finds the first packet of a flow that has one.              *)
LEMMA FirstOfFlowFacts ==
  ASSUME NEW q, q \in Queues, NEW k \in DOMAIN q.pkts, NEW f, f = q.pkts[k].flow
  PROVE  /\ FirstOfFlow(q, f) \in DOMAIN q.pkts
         /\ q.pkts[FirstOfFlow(q, f)].flow = f
         /\ \A j \in DOMAIN q.pkts : q.pkts[j].flow = f => FirstOfFlow(q, f) <= j
<1> DEFINE S == { i \in DOMAIN q.pkts : q.pkts[i].flow = f }
<1>1. DOMAIN q.pkts \subseteq Nat
  BY QueueFields
<1>2. S \subseteq Nat /\ S # {}
  BY <1>1
<1>3. \E i \in S : \A j \in S : i <= j
  <2> HIDE DEF S
  <2> QED
    BY <1>2, LeastNat
<1>4. \E i \in DOMAIN q.pkts :
        /\ q.pkts[i].flow = f
        /\ \A j \in DOMAIN q.pkts : q.pkts[j].flow = f => i <= j
  BY <1>3
<1> QED
  BY <1>4 DEF FirstOfFlow

(* The pause branch of deque() finds a control frame if there is one.      *)
LEMMA PauseIndexFacts ==
  ASSUME NEW q, q \in Queues, ControlAt(q) # {}
  PROVE  PauseIndex(q) \in ControlAt(q)
<1>1. /\ ControlAt(q) \subseteq Nat /\ Len(q.pkts) \in Nat
      /\ \A i \in ControlAt(q) : i <= Len(q.pkts)
  BY QueueFields DEF ControlAt
<1>2. \E i \in ControlAt(q) : \A j \in ControlAt(q) : i >= j
  BY <1>1, GreatestNat
<1> QED
  BY <1>2 DEF PauseIndex

(* Where the next packet is taken from. In a queue that keeps the order of *)
(* its flows, nothing of the same flow is before it.                       *)
LEMMA DequeIndexFacts ==
  ASSUME NEW c \in QueueConfigs, NEW q, q \in Queues, q.pkts # <<>>,
         DequeAsserts(c, q)
  PROVE  /\ DequeIndex(c, q) \in DOMAIN q.pkts
         /\ PauseFirst(c, q) => DequeIndex(c, q) \in ControlAt(q)
         /\ ~PauseFirst(c, q) /\ (~c.deque_prio \/ c.keep_order) =>
              \A j \in DOMAIN q.pkts :
                q.pkts[j].flow = q.pkts[DequeIndex(c, q)].flow => DequeIndex(c, q) <= j
<1>1. Len(q.pkts) \in Nat \ {0} /\ DOMAIN q.pkts = 1..Len(q.pkts)
  BY QueueFields, EmptySeq
<1>2. CASE PauseFirst(c, q)
  <2>1. PauseIndex(q) \in ControlAt(q)
    BY <1>2, PauseIndexFacts DEF DequeAsserts
  <2>2. DequeIndex(c, q) = PauseIndex(q)
    BY <1>2 DEF DequeIndex
  <2> QED
    BY <1>2, <2>1, <2>2 DEF ControlAt
<1>3. CASE ~PauseFirst(c, q) /\ c.deque_prio
  <2>1. MostUrgent(q) \in DOMAIN q.pkts
    BY MostUrgentFacts
  <2>2. CASE c.keep_order
    <3>1. DequeIndex(c, q) = FirstOfFlow(q, q.pkts[MostUrgent(q)].flow)
      BY <1>3, <2>2 DEF DequeIndex
    <3> QED
      BY <1>3, <2>1, <3>1, FirstOfFlowFacts
  <2>3. CASE ~c.keep_order
    <3>1. DequeIndex(c, q) = MostUrgent(q)
      BY <1>3, <2>3 DEF DequeIndex
    <3> QED
      BY <1>3, <2>1, <2>3, <3>1
  <2> QED
    BY <2>2, <2>3
<1>4. CASE ~PauseFirst(c, q) /\ ~c.deque_prio
  <2>1. DequeIndex(c, q) = 1
    BY <1>4 DEF DequeIndex
  <2> QED
    BY <1>1, <1>4, <2>1
<1> QED
  BY <1>2, <1>3, <1>4

-----------------------------------------------------------------------------
(* DropTail::enque.                                                        *)

(* enque() keeps the queue sound, adds at most the arrival and leaves      *)
(* drop_smart_'s window alone.                                             *)
LEMMA EnqueFacts ==
  ASSUME NEW c \in QueueConfigs, NEW q, Sound(q), NEW p \in Packets,
         \A i \in DOMAIN q.pkts : q.pkts[i].id < p.id
  PROVE  LET r == Enque(c, q, p)
         IN  /\ Sound(r.dq)
             /\ \A i \in DOMAIN r.dq.pkts :
                  r.dq.pkts[i] = p \/ \E j \in DOMAIN q.pkts : r.dq.pkts[i] = q.pkts[j]
             /\ r.dq.sq_queue = q.sq_queue /\ r.dq.sq_counts = q.sq_counts
<1> DEFINE r == Enque(c, q, p)
           over == Push(q, p)
           v == Victim(c, over)
<1>1. q \in Queues
  BY DEF Sound
<1>2. /\ Sound(over) /\ over.pkts = Append(q.pkts, p)
      /\ over.sq_queue = q.sq_queue /\ over.sq_counts = q.sq_counts
  BY PushFacts
<1>3. /\ Len(q.pkts) \in Nat /\ DOMAIN q.pkts = 1..Len(q.pkts)
      /\ q.pkts \in Seq(Packets)
  BY <1>1, QueueFields
<1>4. /\ DOMAIN over.pkts = 1..Len(q.pkts) + 1 /\ over.pkts # <<>>
      /\ Len(over.pkts) = Len(q.pkts) + 1
      /\ \A i \in 1..Len(q.pkts) : over.pkts[i] = q.pkts[i]
      /\ over.pkts[Len(q.pkts) + 1] = p
  BY <1>2, <1>3, AppendProperties, LenProperties
<1>5. \A i \in DOMAIN over.pkts :
        over.pkts[i] = p \/ \E j \in DOMAIN q.pkts : over.pkts[i] = q.pkts[j]
  <2>1. \A i \in 1..Len(q.pkts) + 1 : i \in 1..Len(q.pkts) \/ i = Len(q.pkts) + 1
    BY <1>3
  <2> QED
    BY <1>3, <1>4, <2>1
<1> HIDE DEF over
<1>6. CASE c.pause_enabled /\ IsControl(p)
  <2>1. r.dq = [over EXCEPT !.contains_pause = TRUE]
    BY <1>6 DEF Enque, over
  <2>2. over \in Queues
    BY <1>2 DEF Sound
  <2>3. /\ r.dq.pkts = over.pkts /\ r.dq.bytes = over.bytes
        /\ r.dq.sq_queue = over.sq_queue /\ r.dq.sq_counts = over.sq_counts
        /\ r.dq \in Queues
    BY <2>1, <2>2 DEF Queues
  <2> QED
    BY <1>2, <1>5, <2>3 DEF Sound
<1>7. CASE ~(c.pause_enabled /\ IsControl(p)) /\ ~WouldOverflow(c, q, p)
  <2>1. r.dq = over
    BY <1>7 DEF Enque, over
  <2> QED
    BY <1>2, <1>5, <2>1
<1>8. CASE ~(c.pause_enabled /\ IsControl(p)) /\ WouldOverflow(c, q, p)
  <2>1. r.dq = Take(over, v)
    BY <1>8 DEF Enque, over
  <2>2. over \in Queues /\ v \in 1..Len(over.pkts)
    BY <1>2, <1>4, VictimFacts DEF Sound
  <2>3. /\ Sound(Take(over, v)) /\ Within(Take(over, v).pkts, over.pkts)
        /\ Take(over, v).sq_queue = over.sq_queue
        /\ Take(over, v).sq_counts = over.sq_counts
    BY <1>2, <2>2, TakeFacts
  <2>4. \A i \in DOMAIN r.dq.pkts : \E k \in DOMAIN over.pkts : r.dq.pkts[i] = over.pkts[k]
    BY <2>1, <2>3 DEF Within
  <2> HIDE DEF r, v
  <2> QED
    BY <1>2, <1>5, <2>1, <2>3, <2>4 DEF r
<1> QED
  BY <1>6, <1>7, <1>8

(* The queue is not over its limit, where the drop policy promises so.     *)
UnderLimit(c, q) ==
  /\ ~c.qib => Len(q.pkts) <= c.qlim
  /\ c.qib /\ c.drop \in {"tail", "prio"} => q.bytes <= LimitBytes(c)

(* An arrival does not take a limited queue over its limit.                *)
LEMMA EnqueLimit ==
  ASSUME NEW c \in QueueConfigs, ~c.pause_enabled, NEW q, Sound(q),
         NEW p \in Packets, \A i \in DOMAIN q.pkts : q.pkts[i].id < p.id,
         UnderLimit(c, q)
  PROVE  UnderLimit(c, Enque(c, q, p).dq)
<1> DEFINE r == Enque(c, q, p)
           over == Push(q, p)
           v == Victim(c, over)
<1>1. q \in Queues /\ q.bytes \in Nat /\ Len(q.pkts) \in Nat /\ q.pkts \in Seq(Packets)
  BY QueueFields DEF Sound
<1>2. /\ Sound(over) /\ over.pkts = Append(q.pkts, p) /\ over.bytes = q.bytes + p.size
  BY PushFacts
<1>3. /\ Len(over.pkts) = Len(q.pkts) + 1 /\ over.pkts # <<>>
      /\ over.pkts[Len(q.pkts) + 1] = p
  BY <1>1, <1>2, AppendProperties
<1>4. c.qlim \in Nat /\ c.mean_pktsize \in Nat /\ c.qib \in BOOLEAN /\ p.size \in Nat
  BY PacketFields DEF QueueConfigs
<1>5. LimitBytes(c) \in Nat
  BY <1>4 DEF LimitBytes
<1> HIDE DEF over
<1>6. CASE ~WouldOverflow(c, q, p)
  <2>1. r.dq = over
    BY <1>6 DEF Enque, over
  <2> HIDE DEF r
  <2>2. CASE c.qib
    BY <1>1, <1>2, <1>4, <1>5, <1>6, <2>1, <2>2 DEF WouldOverflow, UnderLimit, r
  <2>3. CASE ~c.qib
    BY <1>1, <1>3, <1>4, <1>6, <2>1, <2>3 DEF WouldOverflow, UnderLimit, r
  <2> QED
    BY <2>2, <2>3
<1>7. CASE WouldOverflow(c, q, p)
  <2>1. r.dq = Take(over, v)
    BY <1>7 DEF Enque, over
  <2>2. /\ over \in Queues /\ v \in 1..Len(over.pkts)
        /\ c.drop = "tail" => v = Len(over.pkts)
        /\ c.drop = "prio" /\ c.qib =>
             v = Len(over.pkts) \/ over.bytes - over.pkts[v].size < LimitBytes(c)
    BY <1>2, <1>3, VictimFacts DEF Sound
  <2> HIDE DEF v
  <2>3. /\ Len(Take(over, v).pkts) = Len(over.pkts) - 1
        /\ Take(over, v).bytes = over.bytes - over.pkts[v].size
        /\ Take(over, v) \in Queues
    BY <1>2, <2>2, TakeFacts DEF Sound
  <2> HIDE DEF r
  <2>4. CASE ~c.qib
    BY <1>1, <1>3, <2>1, <2>3, <2>4 DEF UnderLimit, r
  <2>5. CASE c.qib /\ c.drop \in {"tail", "prio"}
    <3>1. CASE v = Len(over.pkts)
      <4>1. over.pkts[v] = p
        BY <1>3, <3>1
      <4>2. Take(over, v).bytes = q.bytes
        BY <1>1, <1>2, <1>4, <2>3, <4>1
      <4> QED
        BY <2>1, <2>5, <4>2 DEF UnderLimit, r
    <3>2. CASE v # Len(over.pkts)
      <4>1. Take(over, v).bytes < LimitBytes(c)
        BY <2>2, <2>3, <2>5, <3>2
      <4>2. Take(over, v).bytes \in Nat
        BY <2>3, QueueFields
      <4> QED
        BY <1>5, <2>1, <2>5, <4>1, <4>2 DEF UnderLimit, r
    <3> QED
      BY <3>1, <3>2
  <2>6. CASE c.qib /\ c.drop \notin {"tail", "prio"}
    BY <2>6 DEF UnderLimit
  <2> QED
    BY <1>4, <2>4, <2>5, <2>6
<1> QED
  BY <1>6, <1>7

(* An arrival that drops nothing queued leaves every control frame, and    *)
(* contains_pause_ changes only with a control frame to find.              *)
LEMMA EnquePause ==
  ASSUME NEW c \in QueueConfigs, NEW q, Sound(q), NEW p \in Packets,
         \A i \in DOMAIN q.pkts : q.pkts[i].id < p.id,
         DequeAsserts(c, q),
         \A i \in DOMAIN Enque(c, q, p).dropped : Enque(c, q, p).dropped[i] = p
  PROVE  DequeAsserts(c, Enque(c, q, p).dq)
<1> DEFINE r == Enque(c, q, p)
           over == Push(q, p)
           v == Victim(c, over)
<1>1. q \in Queues /\ Len(q.pkts) \in Nat /\ q.pkts \in Seq(Packets)
      /\ DOMAIN q.pkts = 1..Len(q.pkts)
  BY QueueFields DEF Sound
<1>2. /\ Sound(over) /\ over.pkts = Append(q.pkts, p)
      /\ over.contains_pause = q.contains_pause
  BY PushFacts
<1>3. /\ Len(over.pkts) = Len(q.pkts) + 1 /\ over.pkts # <<>>
      /\ \A i \in 1..Len(q.pkts) : over.pkts[i] = q.pkts[i]
      /\ over.pkts[Len(q.pkts) + 1] = p
      /\ DOMAIN over.pkts = 1..Len(q.pkts) + 1
  BY <1>1, <1>2, AppendProperties, LenProperties
<1> HIDE DEF over
<1>4. ControlAt(q) \subseteq ControlAt(over)
  BY <1>1, <1>3 DEF ControlAt
<1>5. CASE ~c.pause_enabled
  BY <1>5 DEF DequeAsserts, PauseFirst
<1>6. CASE c.pause_enabled /\ IsControl(p)
  <2>1. r.dq = [over EXCEPT !.contains_pause = TRUE]
    BY <1>6 DEF Enque, over
  <2>2. r.dq.pkts = over.pkts
    BY <1>2, <2>1 DEF Sound, Queues
  <2>3. Len(q.pkts) + 1 \in ControlAt(r.dq)
    BY <1>1, <1>3, <1>6, <2>2 DEF ControlAt
  <2> QED
    BY <2>3 DEF DequeAsserts
<1>7. CASE c.pause_enabled /\ ~IsControl(p) /\ ~WouldOverflow(c, q, p)
  <2>1. r.dq = over
    BY <1>7 DEF Enque, over
  <2> QED
    BY <1>2, <1>4, <2>1 DEF DequeAsserts, PauseFirst
<1>8. CASE c.pause_enabled /\ ~IsControl(p) /\ WouldOverflow(c, q, p)
  <2>1. r.dq = Take(over, v) /\ r.dropped = <<over.pkts[v]>>
    BY <1>8 DEF Enque, over
  <2>2. v \in 1..Len(over.pkts)
    BY <1>2, <1>3, VictimFacts DEF Sound
  <2>3. over.pkts[v] = p
    <3>1. 1 \in DOMAIN r.dropped /\ r.dropped[1] = over.pkts[v]
      BY <2>1
    <3> QED
      BY <3>1
  <2> HIDE DEF r, v
  <2>4. /\ Len(Take(over, v).pkts) = Len(over.pkts) - 1
        /\ \A j \in 1..Len(over.pkts) - 1 :
             Take(over, v).pkts[j] = IF j < v THEN over.pkts[j] ELSE over.pkts[j + 1]
        /\ Take(over, v).contains_pause = over.contains_pause
        /\ DOMAIN Take(over, v).pkts = 1..Len(Take(over, v).pkts)
    BY <1>2, <2>2, TakeFacts, QueueFields DEF Sound
  <2>5. ASSUME NEW k \in ControlAt(over) PROVE ControlAt(Take(over, v)) # {}
    <3>1. k \in 1..Len(over.pkts) /\ IsControl(over.pkts[k])
      BY <1>3 DEF ControlAt
    <3>2. k # v
      BY <1>8, <2>3, <3>1
    <3>3. CASE k < v
      <4>1. k \in 1..Len(over.pkts) - 1 /\ Take(over, v).pkts[k] = over.pkts[k]
        BY <1>1, <1>3, <2>2, <2>4, <3>1, <3>3
      <4>2. k \in ControlAt(Take(over, v))
        BY <2>4, <3>1, <4>1 DEF ControlAt
      <4> QED
        BY <4>2
    <3>4. CASE k > v
      <4>1. /\ k - 1 \in 1..Len(over.pkts) - 1 /\ ~(k - 1 < v) /\ (k - 1) + 1 = k
        BY <1>1, <1>3, <2>2, <3>1, <3>4
      <4>2. Take(over, v).pkts[k - 1] = over.pkts[k]
        BY <2>4, <4>1
      <4>3. k - 1 \in ControlAt(Take(over, v))
        BY <2>4, <3>1, <4>1, <4>2 DEF ControlAt
      <4> QED
        BY <4>3
    <3> QED
      BY <1>1, <1>3, <2>2, <3>1, <3>2, <3>3, <3>4
  <2>6. PauseFirst(c, r.dq) => PauseFirst(c, q)
    BY <1>2, <2>1, <2>4 DEF PauseFirst
  <2> QED
    BY <1>4, <2>1, <2>5, <2>6 DEF DequeAsserts, r
<1> QED
  BY <1>5, <1>6, <1>7, <1>8

-----------------------------------------------------------------------------
(* DropTail::deque.                                                        *)

(* The counts of drop_smart_ are those of its window.                      *)
WindowOf(c, q) ==
  /\ Len(q.sq_queue) <= c.sq_limit
  /\ \A f \in AllFlows : q.sq_counts[f] = Cardinality(Places(q.sq_queue, f))

(* A departing flow that enters the window keeps the counts exact and the  *)
(* window within its limit.                                                *)
LEMMA SlideFacts ==
  ASSUME NEW c \in QueueConfigs, NEW q, q \in Queues, WindowOf(c, q),
         NEW f \in AllFlows
  PROVE  LET r == SlideWindow(c, q, f)
         IN  /\ r \in Queues /\ WindowOf(c, r)
             /\ r.pkts = q.pkts /\ r.bytes = q.bytes
             /\ r.contains_pause = q.contains_pause
<1> DEFINE r == SlideWindow(c, q, f)
           w == Append(q.sq_queue, f)
           counts == [q.sq_counts EXCEPT ![f] = @ + 1]
<1>1. /\ q.sq_queue \in Seq(AllFlows) /\ q.sq_counts \in [AllFlows -> Nat]
      /\ Len(q.sq_queue) \in Nat /\ c.sq_limit \in Nat
  BY QueueFields, LenProperties DEF QueueConfigs
<1>2. w \in Seq(AllFlows) /\ w # <<>> /\ Len(w) = Len(q.sq_queue) + 1
  BY <1>1, AppendProperties
<1>3. counts \in [AllFlows -> Nat]
  BY <1>1
<1>4. \A g \in AllFlows : counts[g] = Cardinality(Places(w, g))
  <2>1. \A g \in AllFlows : counts[g] = q.sq_counts[g] + (IF g = f THEN 1 ELSE 0)
    BY <1>1
  <2>2. \A g \in AllFlows : Cardinality(Places(w, g))
           = Cardinality(Places(q.sq_queue, g)) + (IF g = f THEN 1 ELSE 0)
    BY <1>1, PlacesAppend
  <2> QED
    BY <2>1, <2>2 DEF WindowOf
<1> HIDE DEF w, counts
<1>5. CASE Len(w) > c.sq_limit
  <2> DEFINE fewer == [counts EXCEPT ![Head(w)] = @ - 1]
  <2>1. r = [q EXCEPT !.sq_queue = Tail(w), !.sq_counts = fewer]
    BY <1>5 DEF SlideWindow, w, counts
  <2>2. /\ Tail(w) \in Seq(AllFlows) /\ Head(w) \in AllFlows
        /\ Len(Tail(w)) = Len(w) - 1
    BY <1>2, HeadTailProperties
  <2>3. \A g \in AllFlows : fewer[g] = counts[g] - (IF g = Head(w) THEN 1 ELSE 0)
    BY <1>3, <2>2
  <2>4. \A g \in AllFlows : fewer[g] = Cardinality(Places(Tail(w), g))
    <3>1. \A g \in AllFlows : Cardinality(Places(Tail(w), g))
             = Cardinality(Places(w, g)) - (IF g = Head(w) THEN 1 ELSE 0)
      BY <1>2, PlacesTail
    <3> QED
      BY <1>4, <2>3, <3>1
  <2>5. \A g \in AllFlows : fewer[g] \in Nat
    BY <2>2, <2>4, PlacesFinite
  <2>6. fewer \in [AllFlows -> Nat]
    <3>1. DOMAIN fewer = AllFlows /\ fewer = [g \in AllFlows |-> fewer[g]]
      BY <1>3
    <3> QED
      BY <2>5, <3>1
  <2> HIDE DEF fewer, r
  <2>7. /\ r \in Queues /\ r.sq_queue = Tail(w) /\ r.sq_counts = fewer
        /\ r.pkts = q.pkts /\ r.bytes = q.bytes /\ r.contains_pause = q.contains_pause
    BY <2>1, <2>2, <2>6 DEF Queues
  <2>8. Len(Tail(w)) <= c.sq_limit
    BY <1>1, <1>2, <2>2 DEF WindowOf
  <2> QED
    BY <2>4, <2>7, <2>8 DEF WindowOf, r
<1>6. CASE ~(Len(w) > c.sq_limit)
  <2>1. r = [q EXCEPT !.sq_queue = w, !.sq_counts = counts]
    BY <1>6 DEF SlideWindow, w, counts
  <2> HIDE DEF r
  <2>2. /\ r \in Queues /\ r.sq_queue = w /\ r.sq_counts = counts
        /\ r.pkts = q.pkts /\ r.bytes = q.bytes /\ r.contains_pause = q.contains_pause
    BY <1>2, <1>3, <2>1 DEF Queues
  <2>3. Len(w) <= c.sq_limit
    BY <1>1, <1>2, <1>6
  <2> QED
    BY <1>4, <2>2, <2>3 DEF WindowOf, r
<1> QED
  BY <1>5, <1>6

(* deque() takes out exactly the packet it returns, wherever it was, and   *)
(* keeps the queue sound and the window exact.                             *)
LEMMA DequeFacts ==
  ASSUME NEW c \in QueueConfigs, NEW q, Sound(q), WindowOf(c, q),
         q.pkts # <<>>, DequeAsserts(c, q)
  PROVE  LET i == DequeIndex(c, q)
             r == Deque(c, q)
         IN  /\ i \in 1..Len(q.pkts) /\ r.p = q.pkts[i] /\ r.p \in Packets
             /\ Sound(r.dq) /\ WindowOf(c, r.dq)
             /\ Len(r.dq.pkts) = Len(q.pkts) - 1
             /\ \A j \in 1..Len(q.pkts) - 1 :
                  r.dq.pkts[j] = IF j < i THEN q.pkts[j] ELSE q.pkts[j + 1]
             /\ r.dq.bytes = q.bytes - q.pkts[i].size
             /\ r.dq.contains_pause = (q.contains_pause /\ ~PauseFirst(c, q))
<1> DEFINE i == DequeIndex(c, q)
           r == Deque(c, q)
           rest == Take(q, i)
<1>1. /\ q \in Queues /\ Len(q.pkts) \in Nat /\ DOMAIN q.pkts = 1..Len(q.pkts)
      /\ q.contains_pause \in BOOLEAN
      /\ \A j \in DOMAIN q.pkts : q.pkts[j] \in Packets
  BY QueueFields DEF Sound
<1>2. i \in 1..Len(q.pkts)
  BY <1>1, DequeIndexFacts
<1>3. r.p = q.pkts[i]
  BY DEF Deque
<1>4. q.pkts[i] \in Packets /\ q.pkts[i].flow \in AllFlows
  BY <1>1, <1>2, PacketFields
<1> HIDE DEF i
<1>5. /\ Sound(rest) /\ Len(rest.pkts) = Len(q.pkts) - 1
      /\ \A j \in 1..Len(q.pkts) - 1 :
           rest.pkts[j] = IF j < i THEN q.pkts[j] ELSE q.pkts[j + 1]
      /\ rest.bytes = q.bytes - q.pkts[i].size
      /\ rest.contains_pause = q.contains_pause
      /\ rest.sq_queue = q.sq_queue /\ rest.sq_counts = q.sq_counts
  BY <1>2, TakeFacts
<1>6. WindowOf(c, rest) /\ rest \in Queues
  BY <1>5 DEF WindowOf, Sound
<1> HIDE DEF rest
<1>7. CASE PauseFirst(c, q)
  <2>1. r.dq = [rest EXCEPT !.contains_pause = FALSE]
    BY <1>7 DEF Deque, rest, i
  <2> HIDE DEF r
  <2>2. /\ r.dq.pkts = rest.pkts /\ r.dq.bytes = rest.bytes
        /\ r.dq.contains_pause = FALSE
        /\ r.dq.sq_queue = rest.sq_queue /\ r.dq.sq_counts = rest.sq_counts
        /\ r.dq \in Queues
    BY <1>6, <2>1 DEF Queues
  <2>3. Sound(r.dq) /\ WindowOf(c, r.dq)
    BY <1>5, <1>6, <2>2 DEF Sound, WindowOf
  <2> QED
    BY <1>1, <1>2, <1>3, <1>4, <1>5, <1>7, <2>2, <2>3 DEF i, r
<1>8. CASE ~PauseFirst(c, q) /\ c.drop = "smart" /\ ~c.deque_prio
  <2>1. r.dq = SlideWindow(c, rest, q.pkts[i].flow)
    BY <1>8 DEF Deque, rest, i
  <2> HIDE DEF r
  <2>2. /\ r.dq \in Queues /\ WindowOf(c, r.dq)
        /\ r.dq.pkts = rest.pkts /\ r.dq.bytes = rest.bytes
        /\ r.dq.contains_pause = rest.contains_pause
    BY <1>4, <1>6, <2>1, SlideFacts
  <2>3. Sound(r.dq)
    BY <1>5, <2>2 DEF Sound
  <2> QED
    BY <1>1, <1>2, <1>3, <1>4, <1>5, <1>8, <2>2, <2>3 DEF i, r
<1>9. CASE ~PauseFirst(c, q) /\ ~(c.drop = "smart" /\ ~c.deque_prio)
  <2>1. r.dq = rest
    BY <1>9 DEF Deque, rest, i
  <2> HIDE DEF r
  <2> QED
    BY <1>1, <1>2, <1>3, <1>4, <1>5, <1>6, <1>9, <2>1 DEF i, r
<1> QED
  BY <1>7, <1>8, <1>9

-----------------------------------------------------------------------------
(* DropTail::shrink_queue.                                                 *)

(* A turn of shrink_queue's loop finds a packet to drop: a queue over its  *)
(* limit is not empty.                                                     *)
LEMMA DropOneFacts ==
  ASSUME NEW c \in QueueConfigs, NEW q, Sound(q), OverLimit(c, q)
  PROVE  /\ Sound(DropOne(c, q)) /\ Within(DropOne(c, q).pkts, q.pkts)
         /\ Len(DropOne(c, q).pkts) = Len(q.pkts) - 1
         /\ DropOne(c, q).sq_queue = q.sq_queue
         /\ DropOne(c, q).sq_counts = q.sq_counts
<1>1. /\ Len(q.pkts) \in Nat /\ q.pkts \in Seq(Packets) /\ q.bytes = BytesOf(q.pkts)
  BY QueueFields DEF Sound
<1>2. c.qlim \in Nat /\ LimitBytes(c) \in Nat
  BY DEF QueueConfigs, LimitBytes
<1>3. q.pkts # <<>>
  <2>1. SUFFICES ASSUME q.pkts = <<>> PROVE FALSE
    OBVIOUS
  <2>2. Len(q.pkts) = 0 /\ q.bytes = 0
    BY <1>1, <2>1, BytesOfEmpty, EmptySeq
  <2> QED
    BY <1>2, <2>2 DEF OverLimit
<1>4. Len(q.pkts) \in Nat \ {0}
  BY <1>1, <1>3, EmptySeq
<1> DEFINE i == IF c.drop = "front" THEN 1 ELSE Len(q.pkts)
<1>5. i \in 1..Len(q.pkts) /\ DropOne(c, q) = Take(q, i)
  BY <1>4 DEF DropOne
<1> HIDE DEF i
<1> QED
  BY <1>5, TakeFacts

(* Whatever is within a part is within the whole.                          *)
LEMMA WithinTrans ==
  ASSUME NEW s, NEW t, NEW u, Within(s, t), Within(t, u)
  PROVE  Within(s, u)
  BY DEF Within

(* shrink_queue's loop stops under the limit, after at most as many turns  *)
(* as there are packets, and only drops.                                   *)
LEMMA ShrinkFacts ==
  ASSUME NEW c \in QueueConfigs, NEW q, Sound(q)
  PROVE  /\ Sound(Shrink(c, q)) /\ Within(Shrink(c, q).pkts, q.pkts)
         /\ ~OverLimit(c, Shrink(c, q))
         /\ Shrink(c, q).sq_queue = q.sq_queue
         /\ Shrink(c, q).sq_counts = q.sq_counts
<1> DEFINE n == Len(q.pkts)
           S == { x \in Queues : /\ Sound(x) /\ Within(x.pkts, q.pkts)
                                 /\ x.sq_queue = q.sq_queue
                                 /\ x.sq_counts = q.sq_counts }
           Turn(x) == IF OverLimit(c, x) THEN DropOne(c, x) ELSE x
           F == [i \in 1..n |-> [x \in S |-> Turn(x)]]
           Body(f) == [i \in 0..n |-> IF i = 0 THEN q ELSE Turn(f[i - 1])]
           after == CHOOSE f : f = Body(f)
<1>1. n \in Nat
  BY QueueFields DEF Sound
<1>2. q \in S
  BY DEF Sound, Within
<1>3. \A x \in S : Turn(x) \in S
  <2>1. ASSUME NEW x \in S, OverLimit(c, x) PROVE DropOne(c, x) \in S
    <3>1. /\ Sound(DropOne(c, x)) /\ Within(DropOne(c, x).pkts, x.pkts)
          /\ DropOne(c, x).sq_queue = x.sq_queue
          /\ DropOne(c, x).sq_counts = x.sq_counts
      BY <2>1, DropOneFacts
    <3>2. Within(DropOne(c, x).pkts, q.pkts)
      BY <3>1, WithinTrans
    <3>3. DropOne(c, x) \in Queues
      BY <3>1 DEF Sound
    <3> QED
      BY <3>1, <3>2, <3>3
  <2> QED
    BY <2>1
<1> HIDE DEF S
<1>4. F \in [1..n -> [S -> S]]
  BY <1>3
<1>5. \A i \in 1..n : \A x \in S : F[i][x] = Turn(x)
  OBVIOUS
<1> HIDE DEF F
<1>6. PICK h \in [0..n -> S] : Records(h, F, q, n)
  <2> HIDE DEF n
  <2> QED
    BY <1>1, <1>2, <1>4, Iteration
<1>7. h[0] = q /\ \A i \in 1..n : h[i - 1] \in S /\ h[i] = Turn(h[i - 1])
  <2>1. ASSUME NEW i \in 1..n PROVE h[i - 1] \in S /\ h[i] = Turn(h[i - 1])
    <3>1. i - 1 \in 0..n
      BY <1>1
    <3>2. h[i - 1] \in S
      BY <3>1
    <3>3. h[i] = F[i][h[i - 1]]
      BY <1>6 DEF Records
    <3> QED
      BY <1>5, <3>2, <3>3
  <2> QED
    BY <1>6, <2>1 DEF Records
<1>8. Shrink(c, q) = h[n]
  <2>1. Shrink(c, q) = after[n]
    BY DEF Shrink
  <2>2. h = Body(h)
    <3>1. \A i \in 0..n : h[i] = IF i = 0 THEN q ELSE Turn(h[i - 1])
      BY <1>1, <1>7
    <3> HIDE DEF n, Turn
    <3> QED
      BY <3>1
  <2>3. after = Body(after)
    BY <2>2
  <2> HIDE DEF after
  <2>4. after[0] = q /\ \A i \in 1..n : after[i] = Turn(after[i - 1])
    <3>1. \A i \in 0..n : after[i] = Body(after)[i]
      BY <2>3
    <3>2. \A i \in 1..n : i \in 0..n /\ i # 0
      BY <1>1
    <3>3. 0 \in 0..n
      BY <1>1
    <3> HIDE DEF n, Turn
    <3> QED
      BY <3>1, <3>2, <3>3
  <2>5. InStep(after, h, n)
    BY <1>7, <2>4 DEF InStep
  <2>6. n \in Nat
    BY <1>1
  <2>7. \A i \in 0..n : after[i] = h[i]
    <3> HIDE DEF n
    <3> QED
      BY <2>5, <2>6, Agreement
  <2>8. n \in 0..n
    BY <1>1
  <2> QED
    BY <2>1, <2>7, <2>8
<1>9. \A x \in S : Sound(x) /\ Len(x.pkts) \in Nat
  BY QueueFields DEF S
<1> DEFINE T == { i \in 0..n : ~OverLimit(c, h[i]) \/ Len(h[i].pkts) = n - i }
<1>10. 0..n \subseteq T
  <2>1. 0 \in T
    BY <1>1, <1>7
  <2>2. ASSUME NEW i \in 1..n, i - 1 \in T PROVE i \in T
    <3>1. h[i - 1] \in S /\ h[i] = Turn(h[i - 1])
      BY <1>7
    <3>2. CASE OverLimit(c, h[i - 1])
      <4>1. h[i] = DropOne(c, h[i - 1])
        BY <3>1, <3>2
      <4>2. Len(h[i].pkts) = Len(h[i - 1].pkts) - 1
        BY <1>9, <3>1, <3>2, <4>1, DropOneFacts
      <4>3. Len(h[i - 1].pkts) = n - (i - 1)
        BY <2>2, <3>2
      <4> QED
        BY <1>1, <4>2, <4>3
    <3>3. CASE ~OverLimit(c, h[i - 1])
      BY <3>1, <3>3
    <3> QED
      BY <3>2, <3>3
  <2> HIDE DEF T, n
  <2> QED
    BY <1>1, <2>1, <2>2, InductionTo
<1>11. h[n] \in S /\ (~OverLimit(c, h[n]) \/ Len(h[n].pkts) = 0)
  <2>1. n \in 0..n /\ n - n = 0
    BY <1>1
  <2> QED
    BY <1>10, <2>1
<1>12. ~OverLimit(c, h[n])
  BY <1>9, <1>11, DropOneFacts
<1> QED
  BY <1>8, <1>11, <1>12 DEF S
-----------------------------------------------------------------------------
(* The inductive invariant.                                                *)

(* What departed had arrived: a later arrival is later than every departure.*)
DepartedArrived == \A f \in AllFlows : last[f] <= arrived

IInv ==
  /\ TypeOK /\ BytesExact /\ ArrivalOrder /\ DepartedArrived
  /\ LimitRespected /\ FlowOrder /\ WindowExact /\ PauseFlagSound

(* The invariant in terms of what the lemmas above are about.              *)
LEMMA InvariantFacts ==
  ASSUME TypeOK
  PROVE  /\ conf \in QueueConfigs /\ dq \in Queues
         /\ BytesExact /\ ArrivalOrder => Sound(dq)
         /\ WindowExact <=> WindowOf(conf, dq)
         /\ LimitRespected <=> (~conf.pause_enabled => UnderLimit(conf, dq))
<1>1. conf \in QueueConfigs /\ dq \in Queues
  BY DEF TypeOK
<1>2. BytesExact /\ ArrivalOrder => Sound(dq)
  BY <1>1 DEF BytesExact, ArrivalOrder, Sound, InOrder
<1>3. WindowExact <=> WindowOf(conf, dq)
  <2>1. \A f \in AllFlows :
          Cardinality(Places(dq.sq_queue, f))
            = Cardinality({ i \in DOMAIN dq.sq_queue : dq.sq_queue[i] = f })
    BY DEF Places
  <2> QED
    BY <2>1 DEF WindowExact, WindowOf
<1>4. LimitRespected <=> (~conf.pause_enabled => UnderLimit(conf, dq))
  BY DEF LimitRespected, UnderLimit
<1> QED
  BY <1>1, <1>2, <1>3, <1>4

(* A new queue is empty, and so is its window.                             *)
LEMMA InitIInv == Init => IInv
<1> SUFFICES ASSUME Init PROVE IInv
  OBVIOUS
<1>1. /\ dq.pkts = <<>> /\ dq.bytes = 0 /\ dq.contains_pause = FALSE
      /\ dq.sq_queue = <<>> /\ dq.sq_counts = [f \in AllFlows |-> 0]
  BY DEF Init, EmptyQueue
<1>2. /\ <<>> \in Seq(Packets) /\ <<>> \in Seq(AllFlows) /\ Len(<<>>) = 0
      /\ DOMAIN dq.pkts = {} /\ DOMAIN dq.sq_queue = {}
  BY <1>1, EmptySeq
<1>3. conf \in QueueConfigs
  BY DropTailAssumption DEF Init
<1>4. TypeOK
  <2>1. dq \in Queues
    BY <1>2 DEF Init, EmptyQueue, Queues
  <2>2. 0 \in 0..MaxPackets
    BY DropTailAssumption
  <2>3. arrived \in 0..MaxPackets /\ last \in [AllFlows -> 0..MaxPackets]
    BY <2>2 DEF Init
  <2>4. evicted \in BOOLEAN
    BY DEF Init
  <2> QED
    BY <1>3, <2>1, <2>3, <2>4 DEF TypeOK
<1>5. BytesExact
  BY <1>1, BytesOfEmpty DEF BytesExact
<1>6. ArrivalOrder /\ FlowOrder
  BY <1>2 DEF ArrivalOrder, FlowOrder
<1>7. DepartedArrived
  BY DEF Init, DepartedArrived
<1>8. LimitRespected
  BY <1>1, <1>2, <1>3 DEF LimitRespected, QueueConfigs, LimitBytes
<1>9. WindowExact
  <2>1. \A f \in AllFlows : { i \in DOMAIN dq.sq_queue : dq.sq_queue[i] = f } = {}
    BY <1>2
  <2>2. Cardinality({}) = 0
    BY FS_EmptySet
  <2>3. \A f \in AllFlows : dq.sq_counts[f] = 0
    BY <1>1
  <2> QED
    BY <1>1, <1>2, <1>3, <2>1, <2>2, <2>3 DEF WindowExact, QueueConfigs
<1>10. PauseFlagSound
  BY <1>1 DEF PauseFlagSound, DequeAsserts, PauseFirst
<1> QED
  BY <1>4, <1>5, <1>6, <1>7, <1>8, <1>9, <1>10 DEF IInv

(* An arrival is later than everything queued and everything departed.     *)
LEMMA ArriveIInv ==
  ASSUME IInv, arrived < MaxPackets,
         NEW p \in DataPackets(arrived + 1) \cup ControlFrames(arrived + 1),
         Arrive(p)
  PROVE  IInv'
<1> DEFINE r == Enque(conf, dq, p)
<1>1. /\ TypeOK /\ BytesExact /\ ArrivalOrder /\ DepartedArrived
      /\ LimitRespected /\ FlowOrder /\ WindowExact /\ PauseFlagSound
  BY DEF IInv
<1>2. /\ conf \in QueueConfigs /\ dq \in Queues /\ Sound(dq)
      /\ WindowOf(conf, dq) /\ (~conf.pause_enabled => UnderLimit(conf, dq))
  BY <1>1, InvariantFacts
<1>3. /\ arrived \in 0..MaxPackets /\ last \in [AllFlows -> 0..MaxPackets]
      /\ evicted \in BOOLEAN /\ MaxPackets \in Nat
  BY <1>1, DropTailAssumption DEF TypeOK
<1>4. p.id = arrived + 1
  BY DEF DataPackets, ControlFrames
<1>5. p \in Packets /\ p.flow \in AllFlows
  <2>1. arrived + 1 \in 1..MaxPackets
    BY <1>3
  <2>2. p \in Packets
    BY <2>1 DEF Packets
  <2> QED
    BY <2>2, PacketFields
<1>6. \A i \in DOMAIN dq.pkts : dq.pkts[i] \in Packets /\ dq.pkts[i].id \in 1..MaxPackets
  BY <1>2, QueueFields, PacketFields
<1>7. \A i \in DOMAIN dq.pkts : dq.pkts[i].id <= arrived /\ dq.pkts[i].id < p.id
  BY <1>1, <1>3, <1>4, <1>6 DEF ArrivalOrder
<1>8. /\ dq' = r.dq /\ arrived' = arrived + 1 /\ conf' = conf /\ last' = last
      /\ evicted' = (evicted \/ \E i \in DOMAIN r.dropped : r.dropped[i] # p)
  BY <1>4 DEF Arrive
<1>9. /\ Sound(r.dq) /\ r.dq.sq_queue = dq.sq_queue /\ r.dq.sq_counts = dq.sq_counts
      /\ \A i \in DOMAIN r.dq.pkts :
           r.dq.pkts[i] = p \/ \E j \in DOMAIN dq.pkts : r.dq.pkts[i] = dq.pkts[j]
  BY <1>2, <1>5, <1>7, EnqueFacts
<1>10. ~conf.pause_enabled => UnderLimit(conf, r.dq)
  BY <1>2, <1>5, <1>7, EnqueLimit
<1>11. /\ DequeAsserts(conf, dq) /\ (\A i \in DOMAIN r.dropped : r.dropped[i] = p)
          => DequeAsserts(conf, r.dq)
  BY <1>2, <1>5, <1>7, EnquePause
<1> HIDE DEF r
<1>12. TypeOK'
  BY <1>2, <1>3, <1>8, <1>9 DEF TypeOK, Sound
<1>13. BytesExact'
  BY <1>8, <1>9 DEF BytesExact, Sound
<1>14. ArrivalOrder'
  <2>1. \A i \in DOMAIN r.dq.pkts : r.dq.pkts[i].id <= arrived + 1
    BY <1>3, <1>4, <1>6, <1>7, <1>9
  <2> QED
    BY <1>8, <1>9, <2>1 DEF ArrivalOrder, Sound, InOrder
<1>15. DepartedArrived'
  BY <1>1, <1>3, <1>8 DEF DepartedArrived
<1>16. LimitRespected'
  BY <1>8, <1>10 DEF LimitRespected, UnderLimit
<1>17. FlowOrder'
  <2> SUFFICES ASSUME ~conf.deque_prio \/ conf.keep_order, NEW i \in DOMAIN r.dq.pkts
               PROVE  \/ conf.pause_enabled /\ IsControl(r.dq.pkts[i])
                      \/ r.dq.pkts[i].id > last[r.dq.pkts[i].flow]
    BY <1>8 DEF FlowOrder
  <2>1. CASE r.dq.pkts[i] = p
    <3>1. last[p.flow] <= arrived /\ last[p.flow] \in Nat
      BY <1>1, <1>3, <1>5 DEF DepartedArrived
    <3> QED
      BY <1>3, <1>4, <2>1, <3>1
  <2>2. CASE \E j \in DOMAIN dq.pkts : r.dq.pkts[i] = dq.pkts[j]
    BY <1>1, <2>2 DEF FlowOrder
  <2> QED
    BY <1>9, <2>1, <2>2
<1>18. WindowExact'
  <2>1. WindowOf(conf, r.dq)
    BY <1>2, <1>9 DEF WindowOf
  <2> QED
    BY <1>8, <2>1 DEF WindowExact, WindowOf, Places
<1>19. PauseFlagSound'
  BY <1>1, <1>8, <1>11 DEF PauseFlagSound
<1> QED
  BY <1>12, <1>13, <1>14, <1>15, <1>16, <1>17, <1>18, <1>19 DEF IInv

(* A departure leaves the packets behind it in order; when the queue keeps *)
(* the order of flows, the departing packet is the earliest of its flow.   *)
LEMMA DepartIInv == IInv /\ Depart => IInv'
<1> SUFFICES ASSUME IInv, Depart PROVE IInv'
  OBVIOUS
<1> DEFINE i == DequeIndex(conf, dq)
           r == Deque(conf, dq)
           n == Len(dq.pkts)
<1>1. /\ TypeOK /\ BytesExact /\ ArrivalOrder /\ DepartedArrived
      /\ LimitRespected /\ FlowOrder /\ WindowExact /\ PauseFlagSound
  BY DEF IInv
<1>2. /\ conf \in QueueConfigs /\ dq \in Queues /\ Sound(dq)
      /\ WindowOf(conf, dq) /\ (~conf.pause_enabled => UnderLimit(conf, dq))
  BY <1>1, InvariantFacts
<1>3. /\ arrived \in 0..MaxPackets /\ last \in [AllFlows -> 0..MaxPackets]
      /\ evicted \in BOOLEAN /\ MaxPackets \in Nat
  BY <1>1, DropTailAssumption DEF TypeOK
<1>4. dq.pkts # <<>> /\ DequeAsserts(conf, dq)
  BY DEF Depart
<1>5. /\ dq' = r.dq /\ last' = [last EXCEPT ![r.p.flow] = r.p.id]
      /\ conf' = conf /\ arrived' = arrived /\ evicted' = evicted
  BY DEF Depart
<1>6. /\ n \in Nat /\ DOMAIN dq.pkts = 1..n
      /\ \A j \in 1..n : /\ dq.pkts[j] \in Packets /\ dq.pkts[j].id \in 1..MaxPackets
                         /\ dq.pkts[j].flow \in AllFlows /\ dq.pkts[j].size \in Nat
  BY <1>2, QueueFields, PacketFields
<1>7. /\ i \in 1..n /\ r.p = dq.pkts[i] /\ r.p \in Packets
      /\ Sound(r.dq) /\ WindowOf(conf, r.dq) /\ Len(r.dq.pkts) = n - 1
      /\ \A j \in 1..n - 1 :
           r.dq.pkts[j] = IF j < i THEN dq.pkts[j] ELSE dq.pkts[j + 1]
      /\ r.dq.bytes = dq.bytes - dq.pkts[i].size
      /\ r.dq.contains_pause = (dq.contains_pause /\ ~PauseFirst(conf, dq))
  BY <1>2, <1>4, DequeFacts
<1>8. /\ PauseFirst(conf, dq) => i \in ControlAt(dq)
      /\ ~PauseFirst(conf, dq) /\ (~conf.deque_prio \/ conf.keep_order) =>
           \A j \in DOMAIN dq.pkts : dq.pkts[j].flow = dq.pkts[i].flow => i <= j
  BY <1>2, <1>4, DequeIndexFacts
<1> HIDE DEF i, r
<1>9. DOMAIN r.dq.pkts = 1..n - 1 /\ r.dq \in Queues /\ r.dq.bytes \in Nat
  BY <1>7, QueueFields DEF Sound
<1>10. \A j \in 1..n - 1 : \E k \in 1..n : k # i /\ r.dq.pkts[j] = dq.pkts[k]
  <2>1. ASSUME NEW j \in 1..n - 1, j < i PROVE \E k \in 1..n : k # i /\ r.dq.pkts[j] = dq.pkts[k]
    BY <1>6, <1>7, <2>1
  <2>2. ASSUME NEW j \in 1..n - 1, ~(j < i) PROVE \E k \in 1..n : k # i /\ r.dq.pkts[j] = dq.pkts[k]
    <3>1. j + 1 \in 1..n /\ j + 1 # i /\ r.dq.pkts[j] = dq.pkts[j + 1]
      BY <1>6, <1>7, <2>2
    <3> QED
      BY <3>1
  <2> QED
    BY <2>1, <2>2
<1> HIDE DEF n
<1>11. r.p.id \in 0..MaxPackets /\ r.p.id <= arrived /\ r.p.flow \in AllFlows
  BY <1>1, <1>6, <1>7 DEF ArrivalOrder
<1>12. TypeOK'
  BY <1>2, <1>3, <1>5, <1>9, <1>11 DEF TypeOK
<1>13. BytesExact'
  BY <1>5, <1>7 DEF BytesExact, Sound
<1>14. ArrivalOrder'
  <2>1. \A j \in DOMAIN r.dq.pkts : r.dq.pkts[j].id <= arrived
    BY <1>1, <1>6, <1>9, <1>10 DEF ArrivalOrder
  <2> QED
    BY <1>5, <1>7, <2>1 DEF ArrivalOrder, Sound, InOrder
<1>15. DepartedArrived'
  BY <1>1, <1>3, <1>5, <1>11 DEF DepartedArrived
<1>16. LimitRespected'
  <2>1. ASSUME ~conf.pause_enabled PROVE UnderLimit(conf, r.dq)
    <3>1. UnderLimit(conf, dq) /\ dq.bytes \in Nat /\ conf.qlim \in Nat
          /\ LimitBytes(conf) \in Nat
      BY <1>2, <2>1, QueueFields DEF QueueConfigs, LimitBytes
    <3>2. Len(r.dq.pkts) <= Len(dq.pkts) /\ r.dq.bytes <= dq.bytes
      BY <1>6, <1>7, <1>9, <3>1 DEF n
    <3>3. Len(dq.pkts) \in Nat /\ Len(r.dq.pkts) \in Nat
      BY <1>2, <1>9, QueueFields
    <3> QED
      BY <1>9, <3>1, <3>2, <3>3 DEF UnderLimit
  <2> QED
    BY <1>5, <2>1 DEF LimitRespected, UnderLimit
<1>17. FlowOrder'
  <2> DEFINE L == [last EXCEPT ![r.p.flow] = r.p.id]
  <2> SUFFICES ASSUME ~conf.deque_prio \/ conf.keep_order, NEW j \in 1..n - 1
               PROVE  \/ conf.pause_enabled /\ IsControl(r.dq.pkts[j])
                      \/ r.dq.pkts[j].id > L[r.dq.pkts[j].flow]
    BY <1>5, <1>9 DEF FlowOrder
  <2>1. PICK k \in 1..n : k # i /\ r.dq.pkts[j] = dq.pkts[k]
    BY <1>10
  <2>2. \/ conf.pause_enabled /\ IsControl(dq.pkts[k])
        \/ dq.pkts[k].id > last[dq.pkts[k].flow]
    BY <1>1, <1>6 DEF FlowOrder
  <2>3. CASE dq.pkts[k].flow # r.p.flow
    <3>1. L[dq.pkts[k].flow] = last[dq.pkts[k].flow]
      BY <1>3, <1>6, <2>3
    <3> QED
      BY <2>1, <2>2, <3>1
  <2>4. CASE dq.pkts[k].flow = r.p.flow /\ ~PauseFirst(conf, dq)
    <3>1. i < k
      <4>1. k \in DOMAIN dq.pkts /\ dq.pkts[k].flow = dq.pkts[i].flow
        BY <1>6, <1>7, <2>4
      <4>2. i <= k
        BY <1>8, <2>4, <4>1
      <4>3. i \in Int /\ k \in Int
        BY <1>6, <1>7
      <4> QED
        BY <2>1, <4>2, <4>3
    <3>2. dq.pkts[i].id < dq.pkts[k].id
      BY <1>1, <1>6, <1>7, <3>1 DEF ArrivalOrder
    <3>3. L[dq.pkts[k].flow] = r.p.id
      BY <1>3, <1>11, <2>4
    <3> QED
      BY <1>6, <1>7, <2>1, <3>2, <3>3
  <2>5. CASE dq.pkts[k].flow = r.p.flow /\ PauseFirst(conf, dq)
    <3>1. IsControl(r.p) /\ conf.pause_enabled
      BY <1>7, <1>8, <2>5 DEF ControlAt, PauseFirst
    <3>2. r.p.flow = CtlFlow
      BY <1>7, <3>1, PacketFields
    <3>3. IsControl(dq.pkts[k])
      BY <1>6, <2>5, <3>2, PacketFields, DropTailAssumption
    <3> QED
      BY <2>1, <3>1, <3>3
  <2> QED
    BY <2>3, <2>4, <2>5
<1>18. WindowExact'
  BY <1>5, <1>7 DEF WindowExact, WindowOf, Places
<1>19. PauseFlagSound'
  <2>1. ~PauseFirst(conf, r.dq)
    BY <1>7 DEF PauseFirst
  <2> QED
    BY <1>5, <2>1 DEF PauseFlagSound, DequeAsserts
<1> QED
  BY <1>12, <1>13, <1>14, <1>15, <1>16, <1>17, <1>18, <1>19 DEF IInv

(* A lower limit is met by dropping, which keeps everything else as it is. *)
LEMMA SetLimitIInv ==
  ASSUME IInv, NEW m \in NewLimits, SetLimit(m)
  PROVE  IInv'
<1> DEFINE c == [conf EXCEPT !.qlim = m]
           s == Shrink(c, dq)
<1>1. /\ TypeOK /\ BytesExact /\ ArrivalOrder /\ DepartedArrived
      /\ LimitRespected /\ FlowOrder /\ WindowExact /\ PauseFlagSound
  BY DEF IInv
<1>2. /\ conf \in QueueConfigs /\ dq \in Queues /\ Sound(dq) /\ WindowOf(conf, dq)
  BY <1>1, InvariantFacts
<1>3. /\ arrived \in 0..MaxPackets /\ last \in [AllFlows -> 0..MaxPackets]
      /\ evicted \in BOOLEAN /\ MaxPackets \in Nat
  BY <1>1, DropTailAssumption DEF TypeOK
<1>4. m \in Nat
  BY DropTailAssumption
<1>5. /\ c \in QueueConfigs /\ c.sq_limit = conf.sq_limit /\ c.drop = conf.drop
      /\ c.qib = conf.qib /\ c.deque_prio = conf.deque_prio
      /\ c.keep_order = conf.keep_order /\ c.pause_enabled = conf.pause_enabled
  BY <1>2, <1>4 DEF QueueConfigs
<1>6. /\ conf' = c /\ arrived' = arrived /\ last' = last
      /\ dq' = s /\ evicted' = (evicted \/ s # dq)
  BY DEF SetLimit
<1> HIDE DEF c
<1>7. /\ Sound(s) /\ Within(s.pkts, dq.pkts) /\ ~OverLimit(c, s)
      /\ s.sq_queue = dq.sq_queue /\ s.sq_counts = dq.sq_counts
  BY <1>2, <1>5, ShrinkFacts
<1> HIDE DEF s
<1>8. /\ s \in Queues /\ Len(s.pkts) \in Nat /\ s.bytes \in Nat
  BY <1>7, QueueFields DEF Sound
<1>9. TypeOK'
  BY <1>3, <1>5, <1>6, <1>8 DEF TypeOK
<1>10. BytesExact'
  BY <1>6, <1>7 DEF BytesExact, Sound
<1>11. ArrivalOrder'
  <2>1. \A i \in DOMAIN s.pkts : s.pkts[i].id <= arrived
    BY <1>1, <1>7 DEF ArrivalOrder, Within
  <2> QED
    BY <1>6, <1>7, <2>1 DEF ArrivalOrder, Sound, InOrder
<1>12. DepartedArrived'
  BY <1>1, <1>6 DEF DepartedArrived
<1>13. LimitRespected'
  <2>1. c.qlim \in Nat /\ LimitBytes(c) \in Nat
    BY <1>5 DEF QueueConfigs, LimitBytes
  <2>2. UnderLimit(c, s)
    BY <1>7, <1>8, <2>1 DEF UnderLimit, OverLimit
  <2> QED
    BY <1>6, <2>2 DEF LimitRespected, UnderLimit
<1>14. FlowOrder'
  <2> SUFFICES ASSUME ~conf.deque_prio \/ conf.keep_order, NEW i \in DOMAIN s.pkts
               PROVE  \/ conf.pause_enabled /\ IsControl(s.pkts[i])
                      \/ s.pkts[i].id > last[s.pkts[i].flow]
    BY <1>5, <1>6 DEF FlowOrder
  <2>1. PICK j \in DOMAIN dq.pkts : s.pkts[i] = dq.pkts[j]
    BY <1>7 DEF Within
  <2> QED
    BY <1>1, <2>1 DEF FlowOrder
<1>15. WindowExact'
  <2>1. WindowOf(c, s)
    BY <1>2, <1>5, <1>7 DEF WindowOf
  <2> QED
    BY <1>6, <2>1 DEF WindowExact, WindowOf, Places
<1>16. PauseFlagSound'
  <2>1. ASSUME ~evicted, s = dq PROVE DequeAsserts(c, s)
    BY <1>1, <1>5, <2>1 DEF PauseFlagSound, DequeAsserts, PauseFirst
  <2> QED
    BY <1>6, <2>1 DEF PauseFlagSound
<1> QED
  BY <1>9, <1>10, <1>11, <1>12, <1>13, <1>14, <1>15, <1>16 DEF IInv

(* Every step, and every stutter, keeps the invariant.                     *)
LEMMA NextIInv == IInv /\ [Next]_vars => IInv'
<1> SUFFICES ASSUME IInv, [Next]_vars PROVE IInv'
  OBVIOUS
<1>1. CASE ArriveAny
  BY <1>1, ArriveIInv DEF ArriveAny
<1>2. CASE Depart
  BY <1>2, DepartIInv
<1>3. CASE \E m \in NewLimits : SetLimit(m)
  BY <1>3, SetLimitIInv
<1>4. CASE UNCHANGED vars
  BY <1>4 DEF vars, IInv, TypeOK, BytesExact, ArrivalOrder, DepartedArrived,
              LimitRespected, FlowOrder, WindowExact, PauseFlagSound
<1> QED
  BY <1>1, <1>2, <1>3, <1>4 DEF Next

(* The inductive invariant holds of every behaviour.                       *)
THEOREM Invariance == Spec => []IInv
  BY InitIInv, NextIInv, PTL DEF Spec

(* The queue object is always well formed.                                 *)
THEOREM TypeCorrect == Spec => []TypeOK
<1>1. IInv => TypeOK
  BY DEF IInv
<1> QED
  BY <1>1, Invariance, PTL

(* bytes_ is the sum of the sizes of what is queued.                       *)
THEOREM BytesAlwaysExact == Spec => []BytesExact
<1>1. IInv => BytesExact
  BY DEF IInv
<1> QED
  BY <1>1, Invariance, PTL

(* The queue stays in order of arrival, whatever leaves from the middle.   *)
THEOREM KeepsArrivalOrder == Spec => []ArrivalOrder
<1>1. IInv => ArrivalOrder
  BY DEF IInv
<1> QED
  BY <1>1, Invariance, PTL

(* No limited queue is ever over its limit, the drop policies that look at *)
(* sizes included.                                                         *)
THEOREM LimitAlwaysRespected == Spec => []LimitRespected
<1>1. IInv => LimitRespected
  BY DEF IInv
<1> QED
  BY <1>1, Invariance, PTL

(* FIFO queues, and priority queues that keep order, never reorder a flow. *)
THEOREM FlowsKeptInOrder == Spec => []FlowOrder
<1>1. IInv => FlowOrder
  BY DEF IInv
<1> QED
  BY <1>1, Invariance, PTL

(* The counts drop_smart_ keeps by hand are those of its window.           *)
THEOREM WindowAlwaysExact == Spec => []WindowExact
<1>1. IInv => WindowExact
  BY DEF IInv
<1> QED
  BY <1>1, Invariance, PTL

(* Until something queued is dropped, deque()'s assertions hold.           *)
THEOREM PauseAssertsHold == Spec => []PauseFlagSound
<1>1. IInv => PauseFlagSound
  BY DEF IInv
<1> QED
  BY <1>1, Invariance, PTL
==============================================================================
