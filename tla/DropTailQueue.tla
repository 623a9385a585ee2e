---------------------------- MODULE DropTailQueue ----------------------------
(***************************************************************************)
(* The DropTail queue object of queue/drop-tail.cc as operators on a       *)
(* record: the modules DropTail (one queue on its own) and PfcNetwork (one *)
(* queue per directed link) share them.                                    *)
(*                                                                         *)
(* A packet is a record with at least                                      *)
(*   kind  "DATA", "PAUSE" or "RESUME" (both of the latter are PT_PAUSE)   *)
(*   flow  what saddr, daddr and fid identify                              *)
(*   prio  hdr_ip::prio(), lower is more urgent                            *)
(*   size  hdr_cmn::size()                                                 *)
(* A configuration c is a record of the bound variables of the class:      *)
(*   qlim, qib, mean_pktsize, drop, deque_prio, keep_order,                *)
(*   pause_enabled, sq_limit                                               *)
(* where c.drop names the branch enque() takes on overflow: "front",       *)
(* "prio", "smart" or "tail".                                              *)
(***************************************************************************)
EXTENDS Integers, Sequences, SequencesExt

(* The queue object: the packets of q_ in order, q_'s bytes_, the flag     *)
(* contains_pause_, and the sliding window of drop_smart_.                 *)
EmptyQueue(flows) ==
  [ pkts           |-> <<>>,
    bytes          |-> 0,
    contains_pause |-> FALSE,
    sq_queue       |-> <<>>,
    sq_counts      |-> [f \in flows |-> 0] ]

IsControl(p) == p.kind # "DATA"

(* Wrong on purpose: enqueHead in place of enque.                          *)
PushHead(dq, p) == [dq EXCEPT !.pkts = <<p>> \o @, !.bytes = @ + p.size]

(* PacketQueue::enque and PacketQueue::remove: bytes_ is kept, not summed. *)
Push(dq, p) == [dq EXCEPT !.pkts = Append(@, p), !.bytes = @ + p.size]

(* Wrong on purpose: bytes_ loses the size of the head.                    *)
TakeHeadSize(dq, i) ==
  [dq EXCEPT !.pkts = RemoveAt(@, i), !.bytes = @ - dq.pkts[1].size]

Take(dq, i) == [dq EXCEPT !.pkts = RemoveAt(@, i), !.bytes = @ - dq.pkts[i].size]

LimitBytes(c) == c.qlim * c.mean_pktsize

(* Wrong on purpose: the arriving packet is forgotten.                     *)
WouldOverflowLate(c, dq, p) ==
  IF c.qib THEN dq.bytes > LimitBytes(c) ELSE Len(dq.pkts) > c.qlim

(* "if the queue would overflow if we added this packet"                   *)
WouldOverflow(c, dq, p) ==
  IF c.qib THEN dq.bytes + p.size >= LimitBytes(c)
           ELSE Len(dq.pkts) + 1 >= c.qlim

-----------------------------------------------------------------------------
(* Which packet is dropped, once the arriving one is at the tail of q_.    *)

(* The last packet of the largest prio, among those whose removal brings a *)
(* byte-limited queue back under its limit; the arrival when there is none.*)
WorstPrio(c, dq) ==
  LET candidates == { i \in DOMAIN dq.pkts :
                        ~c.qib \/ dq.bytes - dq.pkts[i].size < LimitBytes(c) }
      worse(i, j) == \/ dq.pkts[i].prio > dq.pkts[j].prio
                     \/ (dq.pkts[i].prio = dq.pkts[j].prio /\ i >= j)
  IN  IF candidates = {}
      THEN Len(dq.pkts)
      ELSE CHOOSE i \in candidates : \A j \in candidates : worse(i, j)

(* The first packet of the flow seen most often in the window; the arrival *)
(* when the window knows none of the queued flows.                         *)
BusiestFlow(dq) ==
  LET count(i) == dq.sq_counts[dq.pkts[i].flow]
      known    == { i \in DOMAIN dq.pkts : count(i) > 0 }
  IN  IF known = {}
      THEN Len(dq.pkts)
      ELSE CHOOSE i \in known : \A j \in known :
             count(i) > count(j) \/ (count(i) = count(j) /\ i <= j)

Victim(c, dq) ==
  CASE c.drop = "front" -> 1
    [] c.drop = "prio"  -> WorstPrio(c, dq)
    [] c.drop = "smart" -> BusiestFlow(dq)
    [] c.drop = "tail"  -> Len(dq.pkts)

(* DropTail::enque: the queue after it, and what it dropped (at most one). *)
Enque(c, dq, p) ==
  IF c.pause_enabled /\ IsControl(p)
  THEN [ dq |-> [Push(dq, p) EXCEPT !.contains_pause = TRUE], dropped |-> <<>> ]
  ELSE IF ~WouldOverflow(c, dq, p)
  THEN [ dq |-> Push(dq, p), dropped |-> <<>> ]
  ELSE LET over == Push(dq, p)
           v    == Victim(c, over)
       IN  [ dq |-> Take(over, v), dropped |-> <<over.pkts[v]>> ]

-----------------------------------------------------------------------------
(* Which packet deque() takes from a nonempty queue.                       *)

ControlAt(dq) == { i \in DOMAIN dq.pkts : IsControl(dq.pkts[i]) }

PauseFirst(c, dq) == c.pause_enabled /\ dq.contains_pause

(* The assertions of the pause branch: it finds a packet, a control frame. *)
DequeAsserts(c, dq) == PauseFirst(c, dq) => ControlAt(dq) # {}

(* The head if it is a control frame, else the LAST control frame queued.  *)
PauseIndex(dq) ==
  IF 1 \in ControlAt(dq)
  THEN 1
  ELSE CHOOSE i \in ControlAt(dq) : \A j \in ControlAt(dq) : i >= j

(* The first packet of the smallest prio.                                  *)
MostUrgent(dq) ==
  CHOOSE i \in DOMAIN dq.pkts : \A j \in DOMAIN dq.pkts :
    \/ dq.pkts[i].prio < dq.pkts[j].prio
    \/ (dq.pkts[i].prio = dq.pkts[j].prio /\ i <= j)

(* keep_order_: the earliest packet of the most urgent packet's flow.      *)
FirstOfFlow(dq, f) ==
  CHOOSE i \in DOMAIN dq.pkts :
    /\ dq.pkts[i].flow = f
    /\ \A j \in DOMAIN dq.pkts : dq.pkts[j].flow = f => i <= j

(* Wrong on purpose: keep_order_ is ignored.                               *)
DequeIndexUnordered(c, dq) ==
  IF PauseFirst(c, dq) THEN PauseIndex(dq)
  ELSE IF c.deque_prio THEN MostUrgent(dq) ELSE 1

DequeIndex(c, dq) ==
  CASE PauseFirst(c, dq) -> PauseIndex(dq)
    [] ~PauseFirst(c, dq) /\ c.deque_prio ->
         IF c.keep_order THEN FirstOfFlow(dq, dq.pkts[MostUrgent(dq)].flow)
                         ELSE MostUrgent(dq)
    [] OTHER -> 1

(* Wrong on purpose: the entry that leaves the window stays counted.       *)
SlideWindowNoUncount(c, dq, f) ==
  LET window == Append(dq.sq_queue, f)
  IN  [dq EXCEPT !.sq_queue  = IF Len(window) > c.sq_limit THEN Tail(window) ELSE window,
                 !.sq_counts = [@ EXCEPT ![f] = @ + 1]]

(* drop_smart_: the departing flow enters the window of the last sq_limit_ *)
(* departures, and the oldest entry leaves a window that grew too long.    *)
SlideWindow(c, dq, f) ==
  LET window == Append(dq.sq_queue, f)
      counts == [dq.sq_counts EXCEPT ![f] = @ + 1]
  IN  IF Len(window) > c.sq_limit
      THEN [dq EXCEPT !.sq_queue  = Tail(window),
                      !.sq_counts = [counts EXCEPT ![Head(window)] = @ - 1]]
      ELSE [dq EXCEPT !.sq_queue = window, !.sq_counts = counts]

(* Wrong on purpose: contains_pause_ is not cleared.                       *)
DequeFlagKept(c, dq) ==
  LET i    == DequeIndex(c, dq)
      rest == Take(dq, i)
  IN  [ p  |-> dq.pkts[i],
        dq |-> IF c.drop = "smart" /\ ~c.deque_prio /\ ~PauseFirst(c, dq)
               THEN SlideWindow(c, rest, dq.pkts[i].flow)
               ELSE rest ]

(* DropTail::deque on a nonempty queue whose assertions hold, without its  *)
(* deque_callback: the queue after it and the packet it returns.           *)
Deque(c, dq) ==
  LET i    == DequeIndex(c, dq)
      rest == Take(dq, i)
  IN  [ p  |-> dq.pkts[i],
        dq |-> IF PauseFirst(c, dq) THEN [rest EXCEPT !.contains_pause = FALSE]
               ELSE IF c.drop = "smart" /\ ~c.deque_prio
               THEN SlideWindow(c, rest, dq.pkts[i].flow)
               ELSE rest ]

(* DropTail::shrink_queue: how many packets it keeps, and which of them.   *)
OverLimit(c, dq) ==
  IF c.qib THEN dq.bytes > LimitBytes(c) ELSE Len(dq.pkts) > c.qlim

DropOne(c, dq) == Take(dq, IF c.drop = "front" THEN 1 ELSE Len(dq.pkts))

Shrink(c, dq) ==
  LET after[n \in 0..Len(dq.pkts)] ==      \* n turns of the loop
        IF n = 0 THEN dq
        ELSE IF OverLimit(c, after[n - 1]) THEN DropOne(c, after[n - 1])
             ELSE after[n - 1]
  IN  after[Len(dq.pkts)]
==============================================================================
