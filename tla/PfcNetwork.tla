------------------------------ MODULE PfcNetwork ------------------------------
(***************************************************************************)
(* Priority flow control in a network: every node has a DestHashClassifier *)
(* (classifier/classifier-hash.cc), every directed link a DropTail queue   *)
(* with its Queue base class (queue/queue.cc) and a LinkDelay              *)
(* (link/delay.cc).  A handler of the event loop is one action, with all   *)
(* the calls it makes: classifier -> queue -> link, and from a queue's     *)
(* deque() back to the classifier, which may send a RESUME through another *)
(* queue before the first one has handed its packet to the link.           *)
(*                                                                         *)
(* Time is abstracted: events fire in any order the scheduler could give   *)
(* them, for link delays greater than zero.                                *)
(***************************************************************************)
EXTENDS DropTailQueue, FiniteSets

CONSTANTS
  Flows,            \* flows of data packets
  Route,            \* per flow, the nodes it visits
  Prio, Size,       \* per flow, prio and size of its packets
  CtlPrio, CtlSize, \* the same of control frames
  Thr,              \* pause_thresholds_ and resume_thresholds_: a function
                    \* from some <<node, neighbour>> to [pause, resume]
  QConf,            \* the configuration of every queue
  AvoidReordering,  \* avoidReordering_ of every link
  MaxCounter,       \* the largest value of a uint64_t counter
  MaxSend,          \* bound: packets per flow
  MaxWire           \* packets a link holds: delay over transmission time

NoPort == "agent"   \* input_port of a packet from an agent: -1

Hops(f) == { <<Route[f][i], Route[f][i + 1]>> : i \in 1..Len(Route[f]) - 1 }

Forward == UNION { Hops(f) : f \in Flows }

Links == Forward \cup { <<l[2], l[1]>> : l \in Forward }

Nodes == UNION { { Route[f][i] : i \in DOMAIN Route[f] } : f \in Flows }

(* No script sets pause_enabled_, and drop_smart_'s window is left out.    *)
ASSUME PfcNetworkAssumption ==
  /\ IsFiniteSet(Flows) /\ Route \in [Flows -> Seq(Nodes)] /\ NoPort \notin Nodes
  /\ \A f \in Flows : /\ Prio[f] \in Nat /\ Size[f] \in Nat \ {0}
                      /\ Len(Route[f]) >= 2
                      /\ \A i, j \in DOMAIN Route[f] :
                           i # j => Route[f][i] # Route[f][j]
  /\ CtlPrio \in Nat /\ CtlSize \in Nat \ {0}
  /\ DOMAIN Thr \subseteq Links
  /\ \A l \in DOMAIN Thr : Thr[l].pause \in Nat /\ Thr[l].resume \in Nat
  /\ QConf \in [ qlim : Nat, qib : BOOLEAN, mean_pktsize : Nat,
                 drop : {"front", "prio", "tail"}, deque_prio : BOOLEAN,
                 keep_order : BOOLEAN, pause_enabled : {FALSE}, sq_limit : Nat ]
  /\ AvoidReordering \in BOOLEAN
  /\ MaxCounter \in Nat /\ MaxSend \in Nat /\ MaxWire \in Nat

VARIABLES
  link,   \* per directed link: the queue dq, blocked_, intr_ (is it in the
          \* scheduler?) and the packets on the wire, each with a mark cut: has
          \* the intr_ of its transmission been cancelled?
  port,   \* per <<node, neighbour>>: input_counters_, paused_, and how many of
          \* the neighbour's packets the node's queues have dropped
  stopped,\* per directed link: was the last control frame its head processed
          \* a PAUSE for this link?
  sent,   \* per flow, the packets sent
  got,    \* per flow, the number of the packet delivered last
  events, \* the parity of the number of events the scheduler has dispatched
  abort   \* has an assertion or a check of the scheduler failed?

vars == <<link, port, stopped, sent, got, events, abort>>

Back(l) == <<l[2], l[1]>>

DataPacket(f, n) ==
  [kind |-> "DATA", flow |-> f, prio |-> Prio[f], size |-> Size[f],
   in |-> NoPort, seq |-> n]

(* generate_pause_pkt: a control frame for the far end of link l.          *)
ControlFrame(kind, l) ==
  [kind |-> kind, flow |-> l, prio |-> CtlPrio, size |-> CtlSize,
   in |-> NoPort, seq |-> 0]

Sink(f) == Route[f][Len(Route[f])]

(* HashClassifier::find: the link on which node x forwards flow f.         *)
OutLink(f, x) == CHOOSE l \in Hops(f) : l[1] = x

-----------------------------------------------------------------------------
(* Handlers, as operators on a snapshot s = [link, port, abort].           *)

(* LinkDelay::recv and Scheduler::schedule of intr_.                       *)
Transmit(s, l, p) ==
  [s EXCEPT !.link[l].wire = Append(@, [p |-> p, cut |-> FALSE]),
            !.link[l].intr = TRUE,
            !.abort = @ \/ s.link[l].intr]

(* Queue's enque: what it drops is never uncounted.                        *)
Enqueued(s, l, p) ==
  LET e    == Enque(QConf, s.link[l].dq, p)
      gone == { <<l[1], e.dropped[i].in>> : i \in DOMAIN e.dropped }
  IN  [s EXCEPT !.link[l].dq = e.dq,
                !.port = [q \in Links |->
                            IF q \in gone THEN [s.port[q] EXCEPT !.lost = @ + 1]
                                          ELSE s.port[q]]]

Decremented(n) == IF n = 0 THEN MaxCounter ELSE n - 1

(* DestHashClassifier::deque_callback, for a packet that came in by a port *)
(* of from (one, or none for control frames and those of an agent).        *)
Uncounted(s, from) ==
  [s EXCEPT !.port = [q \in Links |->
     IF q \in from THEN [s.port[q] EXCEPT !.cnt = Decremented(@)] ELSE s.port[q]]]

(* Wrong on purpose: one packet too late.                                  *)
ResumesTooLate(s, q) ==
  q \in DOMAIN Thr /\ s.port[q].cnt + 1 < Thr[q].resume /\ s.port[q].paused

Resumes(s, q) ==
  q \in DOMAIN Thr /\ s.port[q].cnt < Thr[q].resume /\ s.port[q].paused

Unpaused(s, to) ==
  [s EXCEPT !.port = [q \in Links |->
     IF q \in to THEN [s.port[q] EXCEPT !.paused = FALSE] ELSE s.port[q]]]

(* deque_callback may send a RESUME, through Queue::recv of another queue, *)
(* whose deque calls back in turn.  The calls under way are a record:      *)
(*   s     the snapshot                                                    *)
(*   open  the queues that wait for deque_callback, innermost last: of     *)
(*         which link l; the packet p taken out; to which ports a RESUME   *)
(*         is being sent (one or none); whether blocked_ is set after it   *)
(*   recv  the call of Queue::recv that is next: of link l, with packet p  *)
(*         (one or none)                                                   *)
Calls(s, open, recv) == [s |-> s, open |-> open, recv |-> recv]

(* Wrong on purpose: the packet leaves with the input port it came with.   *)
DequeUnstamped(c, l, blocks) ==
  LET d    == Deque(QConf, c.s.link[l].dq)
      from == IF IsControl(d.p) \/ d.p.in = NoPort THEN {} ELSE {<<l[1], d.p.in>>}
      s    == Uncounted([c.s EXCEPT !.link[l].dq = d.dq], from)
      to   == { q \in from : Resumes(s, q) }
  IN  Calls(s, Append(c.open, [l |-> l, p |-> d.p, to |-> to, blocks |-> blocks]),
            { [l |-> q, p |-> ControlFrame("RESUME", q)] : q \in to })

(* Wrong on purpose: paused_ is cleared and no RESUME sent.                *)
DequeSilently(c, l, blocks) ==
  LET d    == Deque(QConf, c.s.link[l].dq)
      from == IF IsControl(d.p) \/ d.p.in = NoPort THEN {} ELSE {<<l[1], d.p.in>>}
      s    == Uncounted([c.s EXCEPT !.link[l].dq = d.dq], from)
      to   == { q \in from : Resumes(s, q) }
  IN  Calls(s, Append(c.open, [l |-> l, p |-> [d.p EXCEPT !.in = l[1]],
                               to |-> to, blocks |-> blocks]), {})

(* deque() of a nonempty queue, up to the RESUME of its deque_callback.    *)
Dequeued(c, l, blocks) ==
  LET d    == Deque(QConf, c.s.link[l].dq)
      from == IF IsControl(d.p) \/ d.p.in = NoPort THEN {} ELSE {<<l[1], d.p.in>>}
      s    == Uncounted([c.s EXCEPT !.link[l].dq = d.dq], from)
      to   == { q \in from : Resumes(s, q) }
  IN  Calls(s, Append(c.open, [l |-> l, p |-> [d.p EXCEPT !.in = l[1]],
                               to |-> to, blocks |-> blocks]),
            { [l |-> q, p |-> ControlFrame("RESUME", q)] : q \in to })

(* Queue::recv, up to the same place if the queue is not blocked.          *)
Received(c) ==
  LET r == CHOOSE r \in c.recv : TRUE
      s == Enqueued(c.s, r.l, r.p)
  IN  CASE c.recv = {} -> c
        [] c.recv # {} /\ (s.link[r.l].blocked \/ s.link[r.l].dq.pkts = <<>>) ->
             Calls(s, c.open, {})
        [] OTHER -> Dequeued(Calls(s, c.open, {}), r.l, TRUE)

(* What follows the RESUME: it is sent before paused_ is cleared, and      *)
(* blocked_ is set after the callback.                                     *)
Returned(s, o) ==
  Transmit([Unpaused(s, o.to) EXCEPT !.link[o.l].blocked = @ \/ o.blocks], o.l, o.p)

(* Every call but the first and the last takes a data packet from a queue. *)
Depth(s) == Cardinality(UNION { {l} \X DOMAIN s.link[l].dq.pkts : l \in Links }) + 2

(* All calls, to their end: down to the innermost, then up from it.        *)
Descended(c) ==
  LET down[k \in 0 .. Depth(c.s)] ==
        IF k = 0 THEN c ELSE Received(down[k - 1])
  IN  down[Depth(c.s)]

Ascended(d) ==
  LET up[k \in 0 .. Len(d.open)] ==
        IF k = 0 THEN d.s ELSE Returned(up[k - 1], d.open[Len(d.open) + 1 - k])
  IN  up[Len(d.open)]

Completed(c) == Ascended(Descended(c))

QueueRecv(s, l, p) == Completed(Calls(s, <<>>, {[l |-> l, p |-> p]}))

(* Queue::resume of a nonempty queue.                                      *)
QueueResume(s, l) == Completed(Dequeued(Calls(s, <<>>, {}), l, FALSE))

(* Wrong on purpose: nothing is counted while the port is paused.          *)
CountUnpausedOnly(s, q) ==
  LET n  == s.port[q].cnt + 1
      s1 == [s EXCEPT !.port[q].cnt = n]
  IN  IF s.port[q].paused THEN s
      ELSE IF q \in DOMAIN Thr /\ n > Thr[q].pause
      THEN [QueueRecv(s1, q, ControlFrame("PAUSE", q))
              EXCEPT !.port[q].paused = TRUE]
      ELSE s1

(* The accounting of DestHashClassifier::recv for a packet in transit.     *)
Count(s, q) ==
  LET n  == s.port[q].cnt + 1
      s1 == [s EXCEPT !.port[q].cnt = n]
  IN  IF q \in DOMAIN Thr /\ n > Thr[q].pause /\ ~s.port[q].paused
      THEN [QueueRecv(s1, q, ControlFrame("PAUSE", q))
              EXCEPT !.port[q].paused = TRUE]
      ELSE s1

(* Wrong on purpose: intr_ is not cancelled; the queue is not blocked.     *)
PausedNoCancel(s, l) == [s EXCEPT !.link[l].blocked = TRUE]

PausedNoBlock(s, l) == [s EXCEPT !.link[l].intr = FALSE, !.link[l].blocked = FALSE]

(* A PAUSE frame: cancel intr_ and block the queue. The packet whose       *)
(* transmission it interrupts is still delivered.                          *)
Paused(s, l) ==
  LET w == s.link[l].wire
  IN  [s EXCEPT !.link[l].intr = FALSE,
                !.link[l].blocked = TRUE,
                !.link[l].wire =
                  IF s.link[l].intr /\ ~AvoidReordering
                  THEN [w EXCEPT ![Len(w)].cut = TRUE] ELSE w]

(* A RESUME frame: assert that the queue is blocked and unblock it.        *)
Resumed(s, l) ==
  [s EXCEPT !.link[l].blocked = FALSE,
            !.abort = @ \/ ~s.link[l].blocked]

(* DestHashClassifier::recv at node x.                                     *)
Receive(s, x, p) ==
  CASE p.kind = "PAUSE"  -> Paused(s, Back(p.flow))
    [] p.kind = "RESUME" -> Resumed(s, Back(p.flow))
    [] p.kind = "DATA" /\ x = Sink(p.flow) -> s
    [] p.kind = "DATA" /\ x # Sink(p.flow) ->
         QueueRecv(IF p.in = NoPort THEN s ELSE Count(s, <<x, p.in>>),
                   OutLink(p.flow, x), p)

-----------------------------------------------------------------------------
Init ==
  /\ link = [l \in Links |-> [dq |-> EmptyQueue({}), blocked |-> FALSE,
                              intr |-> FALSE, wire |-> <<>>]]
  /\ port = [q \in Links |-> [cnt |-> 0, paused |-> FALSE, lost |-> 0]]
  /\ stopped = [l \in Links |-> FALSE]
  /\ sent = [f \in Flows |-> 0]
  /\ got = [f \in Flows |-> 0]
  /\ events = 0
  /\ abort = FALSE

Now == [link |-> link, port |-> port, abort |-> abort]

Becomes(s) == link' = s.link /\ port' = s.port /\ abort' = s.abort

(* Agent::send: a packet enters the network at the source's classifier.    *)
AgentSend(f) ==
  /\ sent[f] < MaxSend
  /\ sent' = [sent EXCEPT ![f] = @ + 1]
  /\ Becomes(Receive(Now, Route[f][1], DataPacket(f, sent'[f])))
  /\ UNCHANGED <<stopped, got, events>>

(* Scheduler::dispatch.                                                    *)
Dispatch == events' = 1 - events

(* intr_ of a link fires: QueueHandler::handle calls Queue::resume. The    *)
(* packet before may still be on its way: at most MaxWire of them.         *)
MayFinish(l) == link[l].intr /\ Len(link[l].wire) <= MaxWire

TxDone(l) ==
  /\ MayFinish(l)
  /\ LET s == [Now EXCEPT !.link[l].intr = FALSE]
     IN  Becomes(IF link[l].dq.pkts = <<>>
                 THEN [s EXCEPT !.link[l].blocked = FALSE]
                 ELSE QueueResume(s, l))
  /\ Dispatch
  /\ UNCHANGED <<stopped, sent, got>>

(* Wrong on purpose: equal size is enough to overtake.                     *)
MayArriveEqual(l, i) ==
  LET w == link[l].wire
  IN  /\ i = Len(w) => ~link[l].intr
      /\ \A j \in 1..i - 1 : w[j].cut /\ w[i].p.size <= w[j].p.size

(* Can the i-th packet on the wire arrive next? Not while it is being      *)
(* transmitted; and it overtakes only larger packets whose transmission a  *)
(* PAUSE cut short, so that it was sent before they had left.              *)
MayArrive(l, i) ==
  LET w == link[l].wire
  IN  /\ i = Len(w) => ~link[l].intr
      /\ \A j \in 1..i - 1 : w[j].cut /\ w[i].p.size < w[j].p.size

(* The i-th packet on the wire reaches the node at the end of the link.    *)
Arrive(l, i) ==
  /\ MayArrive(l, i)
  /\ LET p == link[l].wire[i].p
     IN  /\ Becomes(Receive([Now EXCEPT !.link[l].wire = RemoveAt(@, i)], l[2], p))
         /\ stopped' = IF IsControl(p)
                       THEN [stopped EXCEPT ![Back(l)] = (p.kind = "PAUSE")]
                       ELSE stopped
         /\ got' = IF p.kind = "DATA" /\ l[2] = Sink(p.flow)
                   THEN [got EXCEPT ![p.flow] = p.seq]
                   ELSE got
  /\ Dispatch
  /\ UNCHANGED sent

Next ==
  /\ ~abort
  /\ \/ \E f \in Flows : AgentSend(f)
     \/ \E l \in Links : TxDone(l)
     \/ \E l \in Links : \E i \in DOMAIN link[l].wire : Arrive(l, i)

(* Scheduler::run does not stop while an event is pending: weak fairness   *)
(* of dispatching one, whichever it is. Nothing makes an agent send.       *)
Pending ==
  /\ ~abort
  /\ \E l \in Links : MayFinish(l) \/ \E i \in DOMAIN link[l].wire : MayArrive(l, i)

Spec == Init /\ [][Next]_vars /\ WF_events(Pending /\ Dispatch)

-----------------------------------------------------------------------------
(* Counters are counters, and a control frame is only on the link of the   *)
(* two nodes it concerns.                                                  *)
TypeOK ==
  /\ \A l \in Links :
       /\ link[l].dq.bytes \in Nat
       /\ {link[l].blocked, link[l].intr, stopped[l], port[l].paused} \subseteq BOOLEAN
       /\ port[l].cnt \in 0..MaxCounter /\ port[l].lost \in Nat
       /\ \A i \in DOMAIN link[l].wire : link[l].wire[i].p.in = l[1]
  /\ sent \in [Flows -> 0..MaxSend] /\ got \in [Flows -> 0..MaxSend]

(* The places in the queues of a node of the packets that came in from a   *)
(* neighbour.                                                              *)
HeldAt(q) ==
  { a \in UNION { {l} \X DOMAIN link[l].dq.pkts : l \in Links } :
      a[1][1] = q[1] /\ link[a[1]].dq.pkts[a[2]].in = q[2] }

Held(q) == Cardinality(HeldAt(q))

(* At every node, over all of its output queues, an input counter is the   *)
(* number of packets queued from that input plus those dropped.            *)
CounterExact == \A q \in Links : port[q].cnt = Held(q) + port[q].lost

(* No assertion of the classifier and no check of the scheduler fails.     *)
NoAbort == ~abort

(* A flow is delivered in order, through queues, pauses and resumes.       *)
DeliveredInOrder == [][\A f \in Flows : got'[f] >= got[f]]_got

(* A paused port is unpaused in the end, unless drops stand in the way.    *)
PauseEnds ==
  \A q \in DOMAIN Thr :
    port[q].paused ~> (~port[q].paused \/ port[q].lost >= Thr[q].resume)

(* "node %d unpausing %d": a neighbour whose port is not paused, or no     *)
(* longer, may send in the end.                                            *)
UnpauseTakesEffect ==
  \A q \in DOMAIN Thr :
    (~port[q].paused /\ stopped[Back(q)])
      ~> (port[q].paused \/ ~stopped[Back(q)])

-----------------------------------------------------------------------------
(* The control frames from a node to a neighbour, oldest first: those on   *)
(* the wire, then those in the queue.                                      *)
FramesUnderWay(q) ==
  LET wire  == SelectSeq(link[q].wire, LAMBDA e : IsControl(e.p))
      queue == SelectSeq(link[q].dq.pkts, IsControl)
  IN  [i \in DOMAIN wire |-> wire[i].p.kind] \o [i \in DOMAIN queue |-> queue[i].kind]

(* Node d and its neighbour u as one pause relation.                       *)
Hop(u, d) ==
  INSTANCE PfcHop WITH
    PauseThr  <- Thr[<<d, u>>].pause,
    ResumeThr <- Thr[<<d, u>>].resume,
    qlen      <- Len(link[<<u, d>>].dq.pkts),
    blocked   <- link[<<u, d>>].blocked,
    intr      <- link[<<u, d>>].intr,
    wire      <- Len(link[<<u, d>>].wire),
    port      <- [cnt    |-> port[<<d, u>>].cnt,
                  paused |-> port[<<d, u>>].paused,
                  ctl    |-> FramesUnderWay(<<d, u>>)],
    held      <- Held(<<d, u>>),
    lost      <- port[<<d, u>>].lost,
    stopped   <- stopped[<<u, d>>],
    abort     <- abort

(* Every port with thresholds implements the pause relation PfcHop, with   *)
(* this refinement mapping, for the queues, links and traffic of the       *)
(* network: what is proved of PfcHop holds of each of its ports.           *)
PortsImplementPfcHop ==
  /\ \A q \in DOMAIN Thr : Hop(q[2], q[1])!Init
  /\ [][\A q \in DOMAIN Thr : \/ Hop(q[2], q[1])!Next
                              \/ UNCHANGED Hop(q[2], q[1])!vars]_vars
==============================================================================
