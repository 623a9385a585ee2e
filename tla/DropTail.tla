------------------------------- MODULE DropTail -------------------------------
(***************************************************************************)
(* One DropTail queue (queue/drop-tail.cc) driven by arbitrary arrivals,   *)
(* departures and limit changes, in every configuration of the set Configs.*)
(* The configuration is bound when the object is created and, except for   *)
(* the limit, never changes.                                               *)
(***************************************************************************)
EXTENDS DropTailQueue

CONSTANTS
  Configs,      \* the configurations a queue may be created with
  Flows,        \* flows of data packets
  CtlFlow,      \* the (saddr, daddr, fid) of control frames
  Prios,        \* priorities of data packets
  CtlPrio,      \* the priority generate_pause_pkt gives every control frame
  DataSizes,    \* sizes of data packets
  CtlSize,      \* ETH_CTRL_FRAME_SIZE
  NewLimits,    \* limits a script may set before it calls shrink-queue
  MaxPackets    \* bound: arrivals in one behaviour

QueueConfigs == [ qlim : Nat, qib : BOOLEAN, mean_pktsize : Nat,
                  drop : {"front", "prio", "smart", "tail"},
                  deque_prio : BOOLEAN, keep_order : BOOLEAN,
                  pause_enabled : BOOLEAN, sq_limit : Nat ]

ASSUME DropTailAssumption ==
  /\ CtlFlow \notin Flows
  /\ Prios \cup {CtlPrio} \cup NewLimits \cup {MaxPackets} \subseteq Nat
  /\ DataSizes \cup {CtlSize} \subseteq Nat \ {0}
  /\ Configs \subseteq QueueConfigs

VARIABLES
  conf,         \* the configuration of this queue
  dq,           \* the queue object
  arrived,      \* packets that have arrived; the id of the latest one
  last,         \* per flow, the id of the packet that departed last
  evicted       \* has a packet been dropped after it had been queued?

vars == <<conf, dq, arrived, last, evicted>>

AllFlows == Flows \cup {CtlFlow}

DataPackets(id) ==
  [id : {id}, kind : {"DATA"}, flow : Flows, prio : Prios, size : DataSizes]

ControlFrames(id) ==
  [id : {id}, kind : {"PAUSE", "RESUME"}, flow : {CtlFlow}, prio : {CtlPrio},
   size : {CtlSize}]

Packets == UNION { DataPackets(id) \cup ControlFrames(id) : id \in 1..MaxPackets }

-----------------------------------------------------------------------------
Init ==
  /\ conf \in Configs
  /\ dq = EmptyQueue(AllFlows)
  /\ arrived = 0
  /\ last = [f \in AllFlows |-> 0]
  /\ evicted = FALSE

(* An arrival: DropTail::enque.                                            *)
Arrive(p) ==
  LET r == Enque(conf, dq, p)
  IN  /\ dq' = r.dq
      /\ evicted' = (evicted \/ \E i \in DOMAIN r.dropped : r.dropped[i] # p)
      /\ arrived' = p.id
      /\ UNCHANGED <<conf, last>>

(* The link asks for a packet and the queue has one: DropTail::deque.      *)
Depart ==
  /\ dq.pkts # <<>>
  /\ DequeAsserts(conf, dq)
  /\ LET r == Deque(conf, dq)
     IN  /\ dq' = r.dq
         /\ last' = [last EXCEPT ![r.p.flow] = r.p.id]
  /\ UNCHANGED <<conf, arrived, evicted>>

(* "$ns queue-limit ...; $queue shrink-queue" of one script line.          *)
SetLimit(n) ==
  /\ n < conf.qlim
  /\ conf' = [conf EXCEPT !.qlim = n]
  /\ dq' = Shrink(conf', dq)
  /\ evicted' = (evicted \/ dq' # dq)
  /\ UNCHANGED <<arrived, last>>

ArriveAny ==
  /\ arrived < MaxPackets
  /\ \E p \in DataPackets(arrived + 1) \cup ControlFrames(arrived + 1) : Arrive(p)

Next ==
  \/ ArriveAny
  \/ Depart
  \/ \E n \in NewLimits : SetLimit(n)

Spec == Init /\ [][Next]_vars

-----------------------------------------------------------------------------
Queues == [ pkts : Seq(Packets), bytes : Nat, contains_pause : BOOLEAN,
            sq_queue : Seq(AllFlows), sq_counts : [AllFlows -> Nat] ]

(* The queue object is well formed.                                        *)
TypeOK ==
  /\ conf \in QueueConfigs
  /\ dq \in Queues
  /\ arrived \in 0..MaxPackets
  /\ last \in [AllFlows -> 0..MaxPackets]
  /\ evicted \in BOOLEAN

(* PacketQueue's bytes_, kept by hand through every drop and departure     *)
(* from anywhere in the queue, is the sum of the sizes of what is queued.  *)
BytesOf(pkts) ==
  LET sum[n \in 0..Len(pkts)] == IF n = 0 THEN 0 ELSE sum[n - 1] + pkts[n].size
  IN  sum[Len(pkts)]

BytesExact == dq.bytes = BytesOf(dq.pkts)

(* Whatever leaves from the middle, the queue stays in order of arrival:   *)
(* "the first of its flow" and "the tail" mean the oldest and the latest.  *)
ArrivalOrder ==
  /\ \A i, j \in DOMAIN dq.pkts : i < j => dq.pkts[i].id < dq.pkts[j].id
  /\ \A i \in DOMAIN dq.pkts : dq.pkts[i].id <= arrived

(* A limited queue never holds more than its limit, across arrivals of any *)
(* size, drops that replace one packet by another and limit changes. It is *)
(* claimed of packet limits under every drop policy, and of byte limits    *)
(* where the drop takes the arrival or looks at sizes; a queue that lets   *)
(* control frames past its limit is left out.                              *)
LimitRespected ==
  ~conf.pause_enabled =>
    /\ ~conf.qib => Len(dq.pkts) <= conf.qlim
    /\ conf.qib /\ conf.drop \in {"tail", "prio"} => dq.bytes <= LimitBytes(conf)

(* A flow is never reordered by a FIFO queue, nor by one that serves the   *)
(* most urgent packet first and keeps order: every queued packet of a flow *)
(* arrived after the one that departed last, whatever priorities the flow  *)
(* gave its packets and whatever was dropped in between. With control      *)
(* frames first it is claimed of data packets.                             *)
FlowOrder ==
  ~conf.deque_prio \/ conf.keep_order =>
    \A i \in DOMAIN dq.pkts :
      \/ conf.pause_enabled /\ IsControl(dq.pkts[i])
      \/ dq.pkts[i].id > last[dq.pkts[i].flow]

(* drop_smart_'s counts are those of its window of the last sq_limit_      *)
(* departures, though deque() keeps the two up to date by hand.            *)
WindowExact ==
  /\ Len(dq.sq_queue) <= conf.sq_limit
  /\ \A f \in AllFlows :
       dq.sq_counts[f] = Cardinality({ i \in DOMAIN dq.sq_queue : dq.sq_queue[i] = f })

(* contains_pause_ is one bit for any number of control frames: it may be  *)
(* clear while some are queued, but as long as nothing queued has been     *)
(* dropped it is set only when there is one to find, so that deque()'s     *)
(* assertions hold.                                                        *)
PauseFlagSound == ~evicted => DequeAsserts(conf, dq)
==============================================================================
