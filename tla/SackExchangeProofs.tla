-------------------------- MODULE SackExchangeProofs --------------------------
(***************************************************************************)
(* Proofs about SackExchange, for every number of bytes, of SACK blocks    *)
(* and of ACKs under way.                                                  *)
(*                                                                         *)
(* The scoreboard's sack_min_ is moved by add() as if it were rcv_nxt_.    *)
(* That it stays at or below highest_ack_, so that pack_action still       *)
(* clears, rests on a relation between all the numbers and all the blocks  *)
(* of the connection, which has to be part of the inductive invariant: no  *)
(* block, on the scoreboard or under way, holds a byte whose number is, or *)
(* ever was, asked for by an ACK that is still of interest.                *)
(***************************************************************************)
EXTENDS SackExchange, ReassemblyProofs

-----------------------------------------------------------------------------
(* The inductive invariant.                                                *)

(* Receiver, ACKs and sender are coherent, and the receiver holds no byte  *)
(* that was never sent.                                                    *)
IInv == Coherent(rcv, acks, una, board) /\ Arrived(rcv) \subseteq 0 .. MaxSeq - 1

(* What IInv says of each end.                                             *)
LEMMA InvariantFacts ==
  ASSUME IInv
  PROVE  /\ Waits(rcv) /\ Sound(rcv) /\ rcv.nxt \in Nat
         /\ Arrived(rcv) \subseteq 0 .. MaxSeq - 1
         /\ una \in 0 .. rcv.nxt /\ board \in Boards(una) /\ Sound(board)
         /\ Cover(ToSet(board.fifo)) \subseteq Arrived(rcv)
         /\ \A a \in acks : Truthful(a, rcv)
BY DEF IInv, Coherent, KnowsLess, Waits, Boards

(* Nothing has been sent.                                                  *)
LEMMA InitSound == Init => IInv
<1> SUFFICES ASSUME Init PROVE IInv
  OBVIOUS
<1>1. rcv = EmptyQueue(0) /\ acks = {} /\ una = 0 /\ board = EmptyQueue(-1)
  BY DEF Init
<1>2. /\ Coherent(EmptyQueue(0), {}, 0, EmptyQueue(-1))
      /\ Arrived(EmptyQueue(0)) = 0 .. 0 - 1
  BY EmptyCoherent
<1>3. 0 .. 0 - 1 = {}
  OBVIOUS
<1> QED
  BY <1>1, <1>2, <1>3 DEF IInv

(* rcv_nxt_ goes up to the number of bytes at most.                        *)
LEMMA NxtBounded ==
  ASSUME NEW r, Waits(r), Arrived(r) \subseteq 0 .. MaxSeq - 1
  PROVE  r.nxt \in 0 .. MaxSeq
<1>1. r.nxt \in Nat /\ MaxSeq \in Nat
  BY SackExchangeAssumption DEF Waits
<1>2. CASE r.nxt = 0
  BY <1>1, <1>2
<1>3. CASE r.nxt > 0
  <2>1. r.nxt - 1 \in 0 .. r.nxt - 1
    BY <1>1, <1>3
  <2>2. r.nxt - 1 \in 0 .. MaxSeq - 1
    BY <2>1 DEF Arrived
  <2> QED
    BY <1>1, <2>2
<1> QED
  BY <1>1, <1>2, <1>3

(* A segment arrives.                                                      *)
LEMMA RecvDataSound ==
  ASSUME IInv, NEW s \in 0 .. MaxSeq, NEW e \in 0 .. MaxSeq, s < e, RecvData(s, e)
  PROVE  /\ IInv'
         /\ rcv.nxt <= rcv'.nxt /\ Arrived(rcv') = Arrived(rcv) \cup (s .. e - 1)
<1>1. /\ rcv' = Received(rcv, s, e) /\ acks' = acks \cup {AckOf(rcv')}
      /\ una' = una /\ board' = board
  BY DEF RecvData
<1>2. s \in Nat /\ e \in Nat /\ s .. e - 1 \subseteq 0 .. MaxSeq - 1
  BY SackExchangeAssumption
<1>3. Coherent(rcv, acks, una, board) /\ Arrived(rcv) \subseteq 0 .. MaxSeq - 1
  BY DEF IInv
<1>4. /\ Coherent(rcv', acks', una, board) /\ rcv.nxt <= rcv'.nxt
      /\ Arrived(rcv') = Arrived(rcv) \cup (s .. e - 1)
  BY <1>1, <1>2, <1>3, ReceiveCoherent
<1> QED
  BY <1>1, <1>2, <1>3, <1>4 DEF IInv

(* An ACK arrives.                                                         *)
LEMMA RecvAckSound ==
  ASSUME IInv, NEW a \in acks, RecvAck(a)
  PROVE  /\ IInv' /\ rcv' = rcv
         /\ una' > una => \A b \in ToSet(board'.fifo) : b.s >= una'
<1> DEFINE told == ProcessSack(board, a.sack)
           v == IF a.ackno > una THEN a.ackno ELSE una
           x == IF a.ackno > una THEN Acked(told, v) ELSE told
<1>1. rcv' = rcv /\ acks' = acks \ {a} /\ una' = v /\ board' = x
  BY DEF RecvAck
<1>2. /\ Coherent(rcv, acks, v, x)
      /\ v > una => \A b \in ToSet(x.fifo) : b.s >= v
  BY AnswerCoherent DEF IInv
<1> HIDE DEF v, x
<1>3. Coherent(rcv, acks \ {a}, v, x)
  BY <1>2, FewerCoherent
<1> QED
  BY <1>1, <1>2, <1>3 DEF IInv

(* An ACK is lost.                                                         *)
LEMMA LoseAckSound ==
  ASSUME IInv, NEW a \in acks, LoseAck(a)
  PROVE  IInv' /\ rcv' = rcv /\ una' = una
<1>1. rcv' = rcv /\ acks' = acks \ {a} /\ una' = una /\ board' = board
  BY DEF LoseAck
<1>2. Coherent(rcv, acks \ {a}, una, board)
  BY FewerCoherent DEF IInv
<1> QED
  BY <1>1, <1>2 DEF IInv

(* The timer expires.                                                      *)
LEMMA TimeoutSound ==
  ASSUME IInv, Timeout
  PROVE  IInv' /\ rcv' = rcv /\ una' = una
<1>1. board' = Cleared(una) /\ rcv' = rcv /\ acks' = acks /\ una' = una
  BY DEF Timeout
<1>2. Coherent(rcv, acks, una, Cleared(una))
  BY ClearedCoherent DEF IInv
<1> QED
  BY <1>1, <1>2 DEF IInv

-----------------------------------------------------------------------------
(* The theorems.                                                           *)

(* What a step does to what arrived: nothing, or a segment is added.       *)
ReceiverStep ==
  \/ rcv' = rcv
  \/ \E s, e \in 0 .. MaxSeq :
       s < e /\ rcv.nxt <= rcv'.nxt /\ Arrived(rcv') = Arrived(rcv) \cup (s .. e - 1)

(* An ACK that advances leaves nothing on the scoreboard that it           *)
(* acknowledges.                                                           *)
ClearingStep == una' > una => \A b \in ToSet(board'.fifo) : b.s >= una'

(* Every step keeps the inductive invariant, and is one of these.          *)
LEMMA NextSound ==
  ASSUME IInv, [Next]_vars
  PROVE  IInv' /\ ReceiverStep /\ ClearingStep
<1>1. una \in Int
  BY InvariantFacts
<1>2. ~(una > una)
  BY <1>1
<1>3. CASE UNCHANGED vars
  <2>1. rcv' = rcv /\ acks' = acks /\ una' = una /\ board' = board
    BY <1>3 DEF vars
  <2> QED
    BY <1>2, <2>1 DEF IInv, ReceiverStep, ClearingStep
<1>4. ASSUME NEW s \in 0 .. MaxSeq, NEW e \in 0 .. MaxSeq, s < e, RecvData(s, e)
      PROVE  IInv' /\ ReceiverStep /\ ClearingStep
  <2>1. una' = una
    BY <1>4 DEF RecvData
  <2>2. /\ IInv' /\ rcv.nxt <= rcv'.nxt
        /\ Arrived(rcv') = Arrived(rcv) \cup (s .. e - 1)
    BY <1>4, RecvDataSound
  <2> QED
    BY <1>2, <1>4, <2>1, <2>2 DEF ReceiverStep, ClearingStep
<1>5. ASSUME NEW a \in acks, RecvAck(a)
      PROVE  IInv' /\ ReceiverStep /\ ClearingStep
  BY <1>5, RecvAckSound DEF ReceiverStep, ClearingStep
<1>6. ASSUME NEW a \in acks, LoseAck(a)
      PROVE  IInv' /\ ReceiverStep /\ ClearingStep
  BY <1>2, <1>6, LoseAckSound DEF ReceiverStep, ClearingStep
<1>7. CASE Timeout
  BY <1>2, <1>7, TimeoutSound DEF ReceiverStep, ClearingStep
<1> QED
  BY <1>3, <1>4, <1>5, <1>6, <1>7 DEF Next

(* The inductive invariant holds throughout.                               *)
THEOREM Invariance == Spec => []IInv
<1>1. Init => IInv
  BY InitSound
<1>2. IInv /\ [Next]_vars => IInv'
  BY NextSound
<1> QED
  BY <1>1, <1>2, PTL DEF Spec

(* The same of the two ends.                                               *)
LEMMA HeldIsArrived ==
  ASSUME IInv
  PROVE  Held = Arrived(rcv) /\ Bytes(board.fifo) = Cover(ToSet(board.fifo))
<1>1. Sound(rcv) /\ Sound(board)
  BY InvariantFacts
<1> QED
  BY <1>1, BytesAreCover DEF Held

(* A node whose bytes were sent is a block.                                *)
LEMMA NodesAreBlocks ==
  ASSUME NEW q \in Seq(Nodes), Cover(ToSet(q)) \subseteq 0 .. MaxSeq - 1
  PROVE  q \in Seq(Blocks)
<1>1. /\ Len(q) \in Nat /\ \A i \in 1..Len(q) : q[i] \in Nodes /\ q[i] \in ToSet(q)
      /\ ToSet(q) \subseteq Nodes /\ q = [i \in 1..Len(q) |-> q[i]]
  BY ElementsFacts, LenProperties
<1>2. ASSUME NEW i \in 1..Len(q) PROVE q[i] \in Blocks
  <2>1. q[i] \in Nodes /\ q[i].s \in Cover(ToSet(q)) /\ q[i].e - 1 \in Cover(ToSet(q))
    BY <1>1, EndsCovered
  <2>2. q[i].s \in 0 .. MaxSeq - 1 /\ q[i].e - 1 \in 0 .. MaxSeq - 1
    BY <2>1
  <2>3. q[i].s \in Nat /\ q[i].e \in Nat /\ q[i] = [s |-> q[i].s, e |-> q[i].e]
    BY <2>1 DEF Nodes
  <2>4. q[i].s \in 0 .. MaxSeq /\ q[i].e \in 0 .. MaxSeq
    <3>1. ASSUME NEW x \in Nat, NEW y \in Nat, x \in 0 .. MaxSeq - 1, y - 1 \in 0 .. MaxSeq - 1
          PROVE  x \in 0 .. MaxSeq /\ y \in 0 .. MaxSeq
      BY <3>1, SackExchangeAssumption
    <3> QED
      BY <2>2, <2>3, <3>1
  <2> QED
    BY <2>3, <2>4 DEF Blocks, Seqs
<1> QED
  BY <1>1, <1>2

(* Both queues are queues of blocks that were sent, ACKs carry at most     *)
(* max_sack_blocks_ blocks: TypeOK.                                        *)
THEOREM TypeCorrect == Spec => []TypeOK
<1>1. IInv => TypeOK
  <2> SUFFICES ASSUME IInv PROVE TypeOK
    OBVIOUS
  <2>1. Waits(rcv) /\ Arrived(rcv) \subseteq 0 .. MaxSeq - 1
    BY InvariantFacts
  <2>2. rcv.nxt \in 0 .. MaxSeq
    BY <2>1, NxtBounded
  <2>3. una \in 0 .. MaxSeq /\ board.nxt \in -1 .. MaxSeq /\ rcv.nxt \in -1 .. MaxSeq
    <3>1. una \in 0 .. rcv.nxt /\ board.nxt \in -1 .. una
      BY InvariantFacts DEF Boards
    <3> QED
      BY <2>2, <3>1, SackExchangeAssumption
  <2>4. ASSUME NEW r, Sound(r), Cover(ToSet(r.fifo)) \subseteq 0 .. MaxSeq - 1,
               r.nxt \in -1 .. MaxSeq
        PROVE  r \in Queues
    <3>1. r \in RawQueues /\ ToSet(r.lifo) = ToSet(r.fifo)
      BY <2>4 DEF Sound, Lists
    <3>2. r.fifo \in Seq(Nodes) /\ r.lifo \in Seq(Nodes)
      BY <3>1 DEF RawQueues
    <3>3. r.fifo \in Seq(Blocks) /\ r.lifo \in Seq(Blocks)
      BY <2>4, <3>1, <3>2, NodesAreBlocks
    <3> QED
      BY <2>4, <3>1, <3>3 DEF RawQueues, Queues
  <2>5. rcv \in Queues
    <3>1. Sound(rcv) /\ Cover(ToSet(rcv.fifo)) \subseteq 0 .. MaxSeq - 1
      BY <2>1 DEF Waits, Arrived
    <3> QED
      BY <2>3, <2>4, <3>1
  <2>6. board \in Queues
    <3>1. Sound(board) /\ Cover(ToSet(board.fifo)) \subseteq 0 .. MaxSeq - 1
      BY <2>1, InvariantFacts DEF Boards
    <3> QED
      BY <2>3, <2>4, <3>1
  <2>7. ASSUME NEW a \in acks
        PROVE  a.ackno \in Seqs /\ a.sack \in Seq(Blocks) /\ Len(a.sack) <= MaxSackBlocks
    <3>1. Truthful(a, rcv)
      BY InvariantFacts
    <3>2. a.ackno \in 0 .. MaxSeq
      BY <2>2, <3>1, SackExchangeAssumption DEF Truthful
    <3>3. a.sack \in Seq(Nodes) /\ Cover(ToSet(a.sack)) \subseteq 0 .. MaxSeq - 1
      BY <2>1, <3>1 DEF Truthful
    <3>4. a.sack \in Seq(Blocks)
      BY <3>3, NodesAreBlocks
    <3> QED
      BY <3>1, <3>2, <3>4 DEF Truthful, Seqs
  <2> QED
    BY <2>3, <2>5, <2>6, <2>7 DEF TypeOK, Seqs
<1> QED
  BY <1>1, Invariance, PTL

(* Whatever overlaps whatever, both queues keep both lists and total_ in   *)
(* step, and nothing that is in order waits: QueuesWellFormed.             *)
THEOREM QueuesStayWellFormed == Spec => []QueuesWellFormed
<1>1. IInv => QueuesWellFormed
  <2> SUFFICES ASSUME IInv PROVE QueuesWellFormed
    OBVIOUS
  <2>1. Waits(rcv) /\ Sound(rcv) /\ Sound(board)
    BY InvariantFacts
  <2>2. WellFormed(rcv) /\ WellFormed(board)
    BY <2>1, SoundWellFormed
  <2>3. rcv.fifo # <<>> => rcv.nxt < Head(rcv.fifo).s
    BY <2>1, OrderedFacts, ListsFacts DEF Waits, Sound, Lists
  <2> QED
    BY <2>2, <2>3 DEF QueuesWellFormed
<1> QED
  BY <1>1, Invariance, PTL

(* However late the ACK that said so: a byte that the sender takes for     *)
(* acknowledged or SACKed has arrived (NoFalseSack).                       *)
THEOREM SackIsTrue == Spec => []NoFalseSack
<1>1. IInv => NoFalseSack
  <2> SUFFICES ASSUME IInv PROVE NoFalseSack
    OBVIOUS
  <2>1. Held = Arrived(rcv) /\ Bytes(board.fifo) = Cover(ToSet(board.fifo))
    BY HeldIsArrived
  <2>2. una \in 0 .. rcv.nxt /\ Cover(ToSet(board.fifo)) \subseteq Arrived(rcv)
    BY InvariantFacts
  <2>3. rcv.nxt \in Nat
    BY InvariantFacts
  <2>4. \A x \in 0 .. una - 1 : x \in 0 .. rcv.nxt - 1
    BY <2>2, <2>3
  <2>5. 0 .. una - 1 \subseteq Arrived(rcv)
    BY <2>4 DEF Arrived
  <2> QED
    BY <2>1, <2>2, <2>5 DEF NoFalseSack
<1> QED
  BY <1>1, Invariance, PTL

(* nexthole finds the first hole of every scoreboard that the connection   *)
(* can get to, and counts what is above it: HolesExact.                    *)
THEOREM HolesAreExact == Spec => []HolesExact
<1>1. IInv => HolesExact
  <2> SUFFICES ASSUME IInv, NEW seq \in Seqs PROVE HoleExact(board, seq)
    BY DEF HolesExact, HoleExact
  <2>1. Sound(board)
    BY InvariantFacts DEF Boards
  <2>2. seq \in Nat
    BY SackExchangeAssumption DEF Seqs
  <2> QED
    BY <2>1, <2>2, NextHoleFacts
<1> QED
  BY <1>1, Invariance, PTL

(* sack_min_ never gets ahead of highest_ack_, so an ACK that advances     *)
(* leaves nothing on the scoreboard that it acknowledges: AckedIsCleared.  *)
THEOREM AcknowledgedIsCleared == Spec => AckedIsCleared
<1>1. IInv /\ [Next]_vars
        => [una' > una => \A b \in ToSet(board'.fifo) : b.s >= una']_vars
  BY NextSound DEF ClearingStep
<1> QED
  BY <1>1, Invariance, PTL DEF Spec, AckedIsCleared

(* The receiver implements CumulativeAck: initially nothing has arrived;   *)
(* a step adds a segment and asks for the first byte that is missing then, *)
(* or changes nothing that CumulativeAck sees.                             *)
THEOREM ReceiverRefines == Spec => ReceiverIsCumulative
<1>1. Init => Stream!Init
  <2> SUFFICES ASSUME Init PROVE Stream!Init
    OBVIOUS
  <2>1. IInv
    BY InitSound
  <2>2. rcv.nxt = 0 /\ Cover(ToSet(rcv.fifo)) = {}
    BY EmptyFacts DEF Init
  <2>3. 0 .. 0 - 1 = {}
    OBVIOUS
  <2>4. Held = {}
    BY <2>1, <2>2, <2>3, HeldIsArrived DEF Arrived
  <2> QED
    BY <2>2, <2>4 DEF Stream!Init
<1>2. IInv /\ IInv' /\ [Next]_vars => [Stream!Next]_(Stream!vars)
  <2> SUFFICES ASSUME IInv, IInv', [Next]_vars PROVE [Stream!Next]_(Stream!vars)
    OBVIOUS
  <2>1. ReceiverStep
    BY NextSound
  <2>2. CASE rcv' = rcv
    BY <2>2 DEF Stream!vars, Held
  <2>3. ASSUME NEW s \in 0 .. MaxSeq, NEW e \in 0 .. MaxSeq, s < e,
               Arrived(rcv') = Arrived(rcv) \cup (s .. e - 1)
        PROVE  Stream!Arrive(s, e)
    <3>1. Held = Arrived(rcv)
      BY HeldIsArrived
    <3>2. Held' = Arrived(rcv')
      <4>1. Sound(rcv')
        BY DEF IInv, Coherent, Waits
      <4>2. Bytes(rcv'.fifo) = Cover(ToSet(rcv'.fifo))
        BY <4>1, BytesAreCover
      <4> QED
        BY <4>2 DEF Held, Arrived
    <3>3. Waits(rcv') /\ Arrived(rcv') \subseteq 0 .. MaxSeq - 1
      BY DEF IInv, Coherent, Waits
    <3>4. rcv'.nxt \in 0 .. MaxSeq
      BY <3>3, NxtBounded
    <3>5. rcv'.nxt \notin Arrived(rcv')
      BY <3>3, WaitsFacts
    <3>6. 0 .. rcv'.nxt - 1 \subseteq Arrived(rcv')
      BY DEF Arrived
    <3> QED
      BY <2>3, <3>1, <3>2, <3>4, <3>5, <3>6 DEF Stream!Arrive
  <2> QED
    BY <2>1, <2>2, <2>3 DEF ReceiverStep, Stream!Next
<1> QED
  BY <1>1, <1>2, Invariance, PTL DEF Spec, ReceiverIsCumulative, Stream!Spec

-----------------------------------------------------------------------------
(* What CumulativeAck promises of every step, and hence the receiver.      *)

(* A segment that arrives leaves the number asked for the first one        *)
(* missing.                                                                *)
LEMMA StreamArrives ==
  ASSUME MaxSeq \in Nat, Stream!FirstMissing,
         NEW s \in 0 .. MaxSeq, NEW e \in 0 .. MaxSeq, s < e, Stream!Arrive(s, e)
  PROVE  Stream!FirstMissing' /\ rcv'.nxt >= rcv.nxt
<1>1. Held' \subseteq 0 .. MaxSeq
  BY DEF Stream!Arrive, Stream!FirstMissing
<1>2. 0 .. rcv.nxt - 1 \subseteq Held'
  BY DEF Stream!FirstMissing, Stream!Arrive
<1>3. rcv'.nxt \notin 0 .. rcv.nxt - 1
  BY <1>2 DEF Stream!Arrive
<1> QED
  BY <1>1, <1>3 DEF Stream!Arrive, Stream!FirstMissing

(* The receiver acknowledges exactly up to the first byte missing: what    *)
(* its numbers acknowledge has arrived, what they ask for has not          *)
(* (FullTcpAgent::recv takes rcv_nxt_ for both).                           *)
THEOREM AckIsFirstMissing == Spec => []Stream!FirstMissing
<1>1. Stream!Init => Stream!FirstMissing
  BY SackExchangeAssumption DEF Stream!Init, Stream!FirstMissing
<1>2. Stream!FirstMissing /\ [Stream!Next]_(Stream!vars) => Stream!FirstMissing'
  BY SackExchangeAssumption, StreamArrives
     DEF Stream!Next, Stream!FirstMissing, Stream!vars
<1> QED
  BY <1>1, <1>2, ReceiverRefines, PTL DEF ReceiverIsCumulative, Stream!Spec

(* What arrived stays, so rcv_nxt_ only moves up: no acknowledgement is    *)
(* taken back, whatever the segments and their order.                      *)
THEOREM AckNeverFalls == Spec => Stream!NeverFalls
<1>1. Stream!FirstMissing /\ [Stream!Next]_(Stream!vars)
        => [rcv.nxt' >= rcv.nxt]_(Stream!vars)
  <2> SUFFICES ASSUME Stream!FirstMissing, [Stream!Next]_(Stream!vars),
                      ~UNCHANGED Stream!vars
               PROVE  rcv.nxt' >= rcv.nxt
    OBVIOUS
  <2> QED
    BY SackExchangeAssumption, StreamArrives DEF Stream!Next
<1> QED
  BY <1>1, AckIsFirstMissing, ReceiverRefines, PTL
     DEF ReceiverIsCumulative, Stream!Spec, Stream!NeverFalls
==============================================================================
