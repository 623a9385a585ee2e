# TLA+ models of ns-2.35 with priority flow control

This directory specifies and verifies the part of the simulator that this fork
of ns-2.35 adds or changes and on which its experiments rest: hop by hop
priority flow control (PFC) in `DestHashClassifier`, the `DropTail` queue with
the pFabric drop and service policies, the `Queue` / `LinkDelay` pair that PFC
blocks and unblocks, the SACK and lossless TCP agents with their reassembly
queues, and the timers and the calendar queue everything runs on. Paths below are relative to
`src/allinone/ns-allinone-2.35/ns-2.35/`.

## 1. The system

ns-2 is a single-threaded discrete event simulator. `Scheduler::run` dispatches
one event after another; a handler runs to its end and calls other objects
synchronously. There are no threads, but handlers re-enter one another: a
queue's `deque()` calls back into the classifier of its node, which may send a
control frame through another queue, whose `deque()` calls back again.

### Components

| Component | State | Operations | Interacts with |
|---|---|---|---|
| `DropTail` (queue/drop-tail.cc) | packets, kept byte count, `contains_pause_`, window of departed flows `sq_queue_`, `sq_counts_` | `enque`, `deque`, `shrink_queue`, `command`, `reset` | `Queue`, `DestHashClassifier::deque_callback` |
| `Queue`, `PacketQueue` (queue/queue.{cc,h}) | `blocked_`, linked list, statistics | `recv`, `resume`, `block`, `unblock`, `remove` | called by classifiers and by `QueueHandler` when a transmission ends |
| `LinkDelay` (link/delay.cc) | `intr_`, `latest_time_`, packets in the scheduler | `recv` | schedules the delivery and the end of the transmission |
| `DestHashClassifier` (classifier/classifier-hash.cc) | `input_counters_`, `paused_`, thresholds, routing table | `recv`, `deque_callback`, `generate_pause_pkt` | forwards to queues and agents, blocks queues, cancels `intr_` |
| `Scheduler`, `CalendarScheduler` (common/scheduler.cc) | clock; buckets, width, number of events and of different times, current bucket | `schedule`, `dispatch`, `run`; `insert`, `head`, `deque`, `cancel`, `resize`, `newwidth` | everything |
| `RED` (queue/red.cc) | averages, marks | `enque`, `deque` | as `DropTail` |
| `FullTcp`, `Sack`, `LosslessTCP` agents (tcp/tcp-full.cc) | `highest_ack_`, `t_seqno_`, `maxseq_`, `curseq_`, `recover_`, `h_seqno_`, `dupacks_`, `fastrecov_`, `pipectrl_`, `pipe_`, timers, DCTCP's alpha | `advance_bytes`, `recv`, `foutput`, `send_much`, `nxt_tseq`, `dupack_action`, `timeout_action`, ... | packets to and from the classifier, timers |
| `ReassemblyQueue` (tcp/rq.cc) | blocks on a FIFO and a LIFO list, `total_`, a reference to the owner's `rcv_nxt_` | `add`, `coalesce`, `clearto`, `gensack`, `nexthole`, `clear` | one per receiver (`rq_`), one per SACK sender (`sq_`) |
| `TimerHandler` (common/timer-handler.cc) | status, one event | `sched`, `resched`, `cancel`, `force_cancel`, `handle` | scheduler, agents |
| `MultiPathForwarder` (classifier/classifier-mpath.cc) | next slot, per-flow path | `classify` | links |
| routing, other queues, wireless, applications, traces | | | not used, or only as configuration, by the fork's experiments |
| third party (otcl, tclcl, Tcl/Tk, nam, xgraph, ...) | | | vendored |

The path of one packet: agent -> classifier (`recv`: count the packet against
its input port, perhaps send PAUSE) -> queue (`Queue::recv`: `enque`; if not
blocked, `deque` -> `deque_callback`: uncount, perhaps send RESUME) -> link
(`LinkDelay::recv`: schedule delivery and `intr_`) -> next classifier. `intr_`
fires `Queue::resume`, which sends the next packet or clears `blocked_`. A PAUSE
that arrives cancels `intr_` and sets `blocked_`; a RESUME clears `blocked_`.

### What is hard about it

* `blocked_` has two meanings, "the link is transmitting" and "a neighbour said
  stop", and one bit. PAUSE, RESUME and the end of a transmission all write it.
* PAUSE cancels `intr_` in the middle of a transmission, whose packet is
  delivered all the same.
* Control frames travel through the same queues as data: they can be delayed
  behind a paused queue, reordered among data by a priority queue, or dropped.
* Counters are decremented on departure only, so a drop is never uncounted.
* `deque_callback` runs inside another queue's `deque()`, before `paused_` is
  cleared and before the packet in hand is given to the link.
* `DropTail` keeps derived data (bytes, window counts, one bit for any number
  of control frames) by hand over four drop policies and three service orders.
* A reassembly queue keeps each block on two lists, a byte count and somebody
  else's `rcv_nxt_` in step through every kind of overlap. The sender's
  scoreboard is the same class, fed with blocks from ACKs that may be old.
* A SACK sender is governed by a window or, in recovery, by a pipe estimate; five
  handlers switch between the two and four set or cancel the one timer that
  keeps a connection alive.
* The calendar queue re-hashes all events at any time and must keep those of one
  time in order.
* Many boundaries are off by one from what one expects: the queue drops at
  `length() + 1 >= qlim_`, pauses above, resumes below a threshold.

Every such place is listed, with its line, under `hazards` in `PROJECT.json`.

### What makes each component correct

* `DropTail`: the limit is respected; flows are not reordered unless the policy
  is plain priority; hand-kept data agree with the queue; `deque()`'s
  assertions hold.
* `Queue` and `LinkDelay`: a queue is blocked for a reason; `intr_` is never
  scheduled twice; a waiting packet is sent in the end; a link is FIFO.
* `DestHashClassifier`: counters are exact; both ends of a pause relation agree
  up to the frames under way; thresholds are obeyed; a stopped neighbour sends
  nothing, and it is resumed in the end; no assertion fails.
* `ReassemblyQueue`: blocks are sorted, disjoint, not adjacent and on both lists,
  `total_` counts them; `rcv_nxt_` is the first byte missing.
* Agents: the sender never believes the receiver to have what it does not have;
  the timer is set exactly while something is not acknowledged; recovery ends;
  what is written is delivered in the end.
* `TimerHandler`: at most one pending event; a cancelled timer does not fire; a
  timer may be rescheduled from its own `expire`.
* `CalendarScheduler`: it implements an ideal queue, in the order of times and
  first in first out among equal ones.

## 2. The modules

| Module | What it is | Source |
|---|---|---|
| `DropTailQueue` | the queue object as operators on a record: `Enque`, `Deque`, `Shrink` and the choice of victim and of the packet served | queue/drop-tail.cc, `PacketQueue` |
| `DropTail` | state machine of one queue in any configuration: arrivals, departures, limit changes | queue/drop-tail.cc |
| `DropTailProofs` | theorems about `DropTail` | |
| `PfcHop` | one pause relation, upstream node U and downstream node D, packets counted rather than named: the abstract specification of PFC | classifier-hash.cc, queue.cc, delay.cc |
| `PfcHopProofs` | theorems about `PfcHop` | |
| `PfcNetwork` | any network of nodes, links and routes, with the queues of `DropTailQueue` and nested handler calls | classifier-hash.cc, queue.cc, delay.cc, scheduler.cc |
| `PfcNetworkProofs` | the theorem that the counters are exact in every network, with the lemmas on queues and handlers it rests on | |
| `ReassemblyQueue` | the reassembly queue as operators on a record: `Add`, `ClearTo`, `GenSack`, `NextHole` | tcp/rq.cc |
| `ReassemblyProofs` | what those operators do to a queue of any length, and what holds between receiver, ACKs and scoreboard | |
| `SackEnds` | what a receiver does with its queue, and a SACK sender with its scoreboard | tcp/tcp-full.cc |
| `SackExchange` | both queues under any segments in any order, and ACKs lost and overtaken | tcp/tcp-full.cc, tcp/rq.cc |
| `SackExchangeProofs` | theorems about `SackExchange`, with the refinement of `CumulativeAck` and what follows from it | |
| `CumulativeAck` | what a receiver promises: the abstract specification of its half of `SackExchange` | |
| `SackTransfer` | one direction of a connection: sender, receiver, network, timer | tcp/tcp-full.cc |
| `SackTransferProofs` | theorems about `SackTransfer`, and about the loop of `send_much` | |
| `EventQueue` | what a scheduler promises: the abstract specification of `Timers` | |
| `CalendarQueue` | the calendar queue as operators on a record | common/scheduler.cc |
| `Timers` | timers on a calendar queue | common/timer-handler.cc, common/scheduler.cc |
| `TimersProofs` | theorems about `Timers` and `CalendarQueue`, with the refinement of `EventQueue` | |
| `SequenceLemmas` | lemmas on sequences, induction and recursive functions, for the proof modules | |
| `MCDropTail`, `MCPfcHop`, `MCPfcNetwork`, `MCPfcReentry`, `MCSackExchange`, `MCSackTransfer`, `MCTimers` | instances for TLC | |

### `DropTailQueue` and `DropTail`

A packet is a record of what the code looks at: kind, flow (what `saddr`,
`daddr` and `fid` identify), `prio`, `size`, and in the network `in`
(`input_port`) and a sequence number. `PacketQueue` is a sequence with its kept
byte count. `c.drop` names the branch of `enque()` that is taken on overflow.
The code tests `drop_front_`, `drop_prio_`, `drop_smart_` in that order, so one
name stands for the first flag that is set. `DequeIndex` follows `deque()`'s
branches: control frame first (`pause_enabled_`), most urgent first
(`deque_prio_`), with `keep_order_` the earliest packet of that flow, else FIFO.
Hashed flow keys are flows: collisions are not modelled.

`reset()` and `packetqueue-attach`, which scripts run only before traffic, and
the printed statistics are left out.

### `PfcHop`

`qlen`, `blocked`, `intr` are U's queue and link, `wire` the packets on the way
to D, `port` D's record of its input U, `held` and `lost` the packets of U in D's
output queues and those they dropped. `port.ctl` is the sequence of control
frames from D to U, queued or on the wire. `stopped` is a history variable: was
the last frame U processed a PAUSE? `abort` is set where the code asserts or
calls `abort()`; nothing happens after that.

`URecv` is `Queue::recv`, `UTxDone` `Queue::resume`, `DRecvLocal` and
`DRecvTransit` D's `recv`, `DServe` whatever makes one of D's output queues drop
or send one of U's packets, `RecvPause` and `RecvResume` the two control
branches of U's `recv`. D's queues may send a packet within `DRecvTransit`,
which then has both the increment and the decrement, and possibly a PAUSE
followed by a RESUME, in one step.

Assumed: control frames are not dropped and not reordered. The second holds
because all of them have one size, one priority and one flow; a queue with
`pause_enabled_`, which serves the LAST control frame first, is outside this
module, and no script of the fork sets that variable. The first does not hold
in general: see the findings.

### `PfcNetwork`

The handlers are operators on a snapshot `[link, port, abort]`, composed as the
C++ calls nest: `Receive` -> `Count` -> `QueueRecv` -> `Enqueued`, `Dequeued` -> ... Each
event (`AgentSend`, `TxDone`, `Arrive`) is one action. The order of the code is
kept where it shows: the RESUME is sent before `paused_` is cleared, and
`blocked_` is set after the callback.

The code re-enters itself at one place: `deque_callback` sends a RESUME through
`Queue::recv`, whose `deque()` calls `deque_callback`. The model keeps the calls under way
in a record (`Calls`): the queues whose `deque()` waits for its callback, innermost
last, with the packet each has taken out, and the call of `Queue::recv` that is
next. `Received` goes one call down, to the next RESUME; `Returned` is what a
queue does when the call for its RESUME is back. `Completed` goes down until
nothing is called (`Descended`) and then up (`Ascended`). A call that leads to another has taken a
data packet out of a queue, and only the first call puts one in, so `Depth`, the
number of packets queued anywhere and two, bounds how far down it goes.

Time is abstracted: events fire in any order that some positive link delays and
packet sizes permit. On one link deliveries are FIFO, with one exception: after
a PAUSE cut a transmission short, a later packet may be sent before the first
one has left, and if it is smaller it can overtake (`MayArrive`). With
`avoidReordering_`, or when nothing is cut, the wire is FIFO. In the passing run
all packets of a link have one size, so nothing overtakes there; in the chain
runs control frames overtake data.

A port with thresholds is to implement `PfcHop`: `Hop(u, d)` is its instance under
the refinement mapping that counts packets and concatenates the control frames
on the wire and in the queue; `PortsImplementPfcHop` is the property. TLC does
not take `Hop(u, d)!Spec` for a parameterised instance, so the property spells
it out: each port starts in `Hop!Init` and each step is a `Hop!Next` or a stutter.
Where the refinement holds, what `PfcHopProofs` proves of `PfcHop` holds of the
ports. TLC checks it on the `incast` instance; in general it needs queues that do
not drop control frames and are not re-entered (findings 3 and 4).

### `ReassemblyQueue`, `SackEnds` and `SackExchange`

A block is a pair of sequence numbers. `fifo` and `lifo` are the two lists the
nodes are on; as the code does, a block that is stretched changes on both and
keeps its places, and only a new node goes to the top of the LIFO. `Add` follows
`add()`: an exact duplicate changes nothing; blocks that are covered go; what
overlaps on the left or on the right is stretched (`Fit`); what remains between
two blocks is inserted and joined to its neighbours (`Insert`, from label
`endfast` on, with `coalesce`). `nxt` is `rcv_nxt_`, which for a scoreboard is the
sender's `sack_min_`: the model keeps the reference and the side effect.
`Without` and `Only` are what unlinking nodes leaves of a list, and `Drop` unlinks
nodes from both lists and takes their bytes off `total_`. Header
flags and `cnt_`, which only debugging output reads, are left out.

In `SackExchange` any segment may arrive at any time, so it covers every sender,
every network and every resegmentation; ACKs are a set, so they are lost,
delayed, overtaken and in effect duplicated. `ReceiverIsCumulative` is the
refinement of `CumulativeAck` under `got <- Held, ack <- rcv.nxt`.

### `SackTransfer`

`snd` is the record of a sender's variables; a handler is an operator from a
sender to a sender that appends what it sends to `out`, composed as the calls
nest: `RecvAck` -> `OnAck` -> `Progress` -> `NewAck`, `AckAction`, `SendMuch` ->
`Foutput`. `SendMuch` is a recursive function on the rounds of the loop in
`send_much`: `Goes` says whether there is another one, `Round` what it does. It
counts up to `Rounds(s)`, two for each byte that is not acknowledged; the theorem
`SendMuchEnds` shows that the code's loop is over by then.

The congestion window is chosen anew, from 1 to `MaxWindow` segments, by each
handler that reads it. That covers slow start, congestion avoidance, DCTCP's
reduction and the deadline variants at once, and nothing shown here depends on
them. The network is a sequence per direction; `mode.depth` says from how far
behind the head a packet may arrive (1: FIFO), `mode.losses` how many may be lost.
The timer may expire at any time, however early. Configuration is what the
scripts set; where that excludes a branch the header of the module says so.
Each segment is answered with an ACK: `need_send()` of this fork returns
`rcv_nxt_ - last_ack_sent_ > 0`.

Not modelled: SYN, FIN and close, probe mode, `maxburst_`, Nagle (off in the
scripts), traffic in the other direction (hence ACKs that carry data), sequence
number wrap-around.

### `CalendarQueue`, `Timers` and `EventQueue`

`bucket[i]` is the circular list of a bucket from its head on. `Insert` and
`Deque` are sets of calendars, because the width after a resize depends on
floating-point statistics and is any member of `Widths` here; for the same reason
`deque` may re-hash at any time. `last`, `clk`, `stat` and `count` are kept, since
`head()` searches from `last` and the resizes depend on `stat`.

`Timers` adds the timers. `Dispatch` and `Return` enclose `expire`, within which
any timer, the running one included, may be scheduled, rescheduled or
cancelled. `Sched` and `CancelTimer` are enabled where the code does not abort.
`EventQueue` has a clock, the set of entries that are due and, for those of one
time, which was scheduled first. The refinement takes the clock for the first,
what is in the buckets (`Items`) for the second and the order in each list
(`Ahead`) for the third. Scheduling with a negative delay and the real-time scheduler, the only
cases in which `insert` moves `cal_clock_` back, are left out.

## 3. What is checked

Counts are TLC's distinct states.

| Run | Instance | Shows |
|---|---|---|
| `drop_tail` | 12 configurations, limit 4, five arrivals, two flows, two priorities, two sizes, control frames, one limit change; 1.69 million | `BytesExact`, `ArrivalOrder`, `LimitRespected`, `FlowOrder`, `WindowExact`, `PauseFlagSound` |
| `pfc_hop` | thresholds 2 and 2, U's queue 3, wire 4, held 7, frames 4, drops 3; 4342 | `Accounting`, `PauseAgreement`, `BlockedExactly`, `NoAbort`, `Hysteresis`, `ResumePending`, `StoppedSendsNothing` |
| `incast` | a, b -> s -> c, thresholds (0,1) for a and (1,1) for b, limit 8 bytes, data of size 2, control frames of size 1, three packets a flow, two on a wire; 220 thousand | `CounterExact`, `NoAbort`, `DeliveredInOrder`, `PauseEnds`, `UnpauseTakesEffect`, refinement of `PfcHop` |
| `sack_exchange` | 6 bytes, segments of any boundaries, 2 SACK blocks an ACK, 2 ACKs under way; 60.5 thousand | `QueuesWellFormed`, `NoFalseSack`, `HolesExact`, `AckedIsCleared`, refinement of `CumulativeAck` |
| `transfer` | 8 bytes in messages of 3, 5 or 8, segments of 2, windows 1 to 4, threshold 2, timer with fewer than 2 packets under way; SACK with 2 losses and reordering, SACK with 2 losses that keeps its scoreboard on a timeout, LosslessTCP on a lossless FIFO network; 146 thousand | `TimerExact`, `RecoveryEnds`, `NeverResent`, `WrittenIsDelivered` |
| `timers` | 4 timers, delays 0, 1, 3, 7, times to 9, widths 1 and 2; 15.9 thousand, up to symmetry of the timers | `CalendarExact`, `PendingIffQueued`, refinement of `EventQueue` |
| `resumed_stranded` | `PfcHop` with fairness | finding 1 |
| `unpause_stuck` | a - s - t - b, traffic both ways, thresholds (0,1) | finding 2 |
| `lost_pause_assert` | the same chain, priority queues of limit 3 | finding 3 |
| `reentered` | a - s - n - t - b, two flows each way and one of n's own, thresholds (0,1) | finding 4 |
| `tail_byte` | messages of 1 and 4 bytes, nothing lost | finding 5 |
| `lossless_lost` | a message of 4 bytes, LosslessTCP, one loss | finding 6 |

### Bounds

* `drop_tail`: limit 4 means that a queue holds at most three packets before it
  drops, so with five arrivals it overflows up to twice, or overflows and then
  shrinks. Sizes 1 and 2 and `mean_pktsize` 2 put both sides of every byte
  comparison in reach. A window of 2 slides from the third departure on.
* `pfc_hop`: the bounds let U have packets queued, on the wire and held at once,
  and PAUSE, RESUME, PAUSE, RESUME under way together. `lost` reaches the
  threshold, which is where `ResumePending`'s exception starts.
* `incast`: with three packets a flow, both ports pause and resume, the queue of
  the shared link holds packets of both and drops some, and a source is paused
  again after a RESUME. Two packets on a wire let a transmission that follows a
  cut one end before the cut packet has arrived. With the lower threshold at 0 a
  single packet makes the switch send PAUSE and, from the nested
  `deque_callback`, RESUME in one event. Four packets a flow (thresholds (1,1),
  one on a wire) passed as well.
* `sack_exchange`: six bytes are room for three separate blocks, so a segment can
  cover one, join two and stretch a third, and with two SACK blocks an ACK leaves
  one out. `MCSackExchange` stops adding segments while `MaxFly` ACKs are under way;
  two are needed for one to overtake the other.
* `transfer`: eight bytes are four segments, the least with which the first can
  be lost and two duplicate ACKs follow a partial recovery; messages of 3 and 5
  end off a segment boundary. `DupThr` is 3 in ns; 2 gives the same branches with
  one packet fewer. `MaxFly` bounds how often an idle timer can duplicate what is
  under way. Two losses let the retransmission be lost again, or an ACK
  together with a segment. Every branch of every handler is taken. A
  message of a single byte on an idle connection is excluded by the choice of
  messages; `tail_byte` shows why.
* `timers`: `TopScale` divides the threshold at which the calendar grows (1 in the
  code): with 4, three different times make it grow from four buckets to
  eight, and it shrinks again. Delays of 0 and 7 put events at the present time
  and beyond the year of a calendar of four buckets of width 1.
  Two events of one time and a resize between them need only three
  timers.
* `MaxWire` bounds how many packets fit on a link (its delay over the
  transmission time): a transmission may end only when at most `MaxWire`
  packets are on the wire. `MaxSend` bounds what an agent sends. `MaxCounter`
  stands for the largest `uint64_t`: a wrap would leave 0..15 unmistakably.

### Fairness

`Scheduler::run` dispatches events until none is pending, so `PfcNetwork` has one
weak fairness condition: an event is dispatched as long as one is pending. It
does not say which; as sends are bounded, every pending event is reached. Nothing
forces an agent to send. The condition is on `events`, the parity of dispatched
events, which is cheap to evaluate and means the same. `PfcHop` has no fairness of
its own. `FairSpec` of `MCPfcHop`, used for finding 1 alone, dispatches U's
`intr_`, delivers what is on both wires and lets D serve, and again does not
force new arrivals at U.

`SackTransfer` assumes that a packet at which the network works arrives or is
lost (weak fairness of taking one out without losing it, for each direction)
and that a timer that stays pending expires. Both are events in the scheduler,
which dispatches everything that is pending. The condition on the timer says in
full what `WF_vars(\E w : Timeout(w))` means: `ExpiryMatters` is its ENABLED and
`Expired` what a step of `Timeout` alone does. TLC is slow to find ENABLED of
handlers this long. The application is not forced to write, and losses are
bounded.

`CHECK_DEADLOCK FALSE` is set for `DropTail`, `PfcNetwork` and `SackTransfer`, whose
behaviours end when the bounded traffic is used up. `Timers` and `SackExchange`
never stop, and deadlock is checked.

### Findings

1. **A RESUME does not restart the queue** (`resumed_stranded`). `unblock()`
   clears a flag; `intr_` was cancelled by the PAUSE. What waits at U stays
   there until another packet arrives.
2. **An unpaused neighbour may stay stopped for ever** (`unpause_stuck`). The
   RESUME waits in a queue that the other switch has paused, or that was
   stranded as in 1. `paused_` is already clear, so no second RESUME is sent.
3. **A lost PAUSE fails an assertion** (`lost_pause_assert`). When the PAUSE was
   dropped, the RESUME finds a queue that is not blocked. With `drop_prio_` that is
   likely: `generate_pause_pkt` gives a control frame an enormous `prio` "to ensure pause
   pkts never dropped?", but `enque()` drops the packet with the largest `prio`, so the
   frame is the first victim of a full queue.
4. **A queue is re-entered before it is blocked** (`reentered`). `Queue::recv` sets
   `blocked_` after `deque()`, and `deque()` may send a RESUME. Take two queues of one
   node, stranded as in 1, each with a packet that came in where the other
   goes out. A packet of the node's own starts the first; its RESUME goes
   into the second and starts it; the RESUME of that goes into the first,
   which is not blocked yet and sends. When the first call goes on it
   schedules `intr_` a second time and `Scheduler::schedule` aborts. With one
   pause relation this cannot happen (`NeverAborts`), and in a star it did not.
5. **The last byte is not allowed out** (`tail_byte`). `send_allowed` compares with
   `topwin = curseq_`, "1 seq number past the last byte we can send", but
   `curseq_` is the last byte. A message of one byte on an idle connection is never
   sent; one of `k * maxseg_ + 1` bytes sends its last byte only when an ACK of all
   that was sent before forces output.
6. **LosslessTCP cannot recover from a loss that no ACKs report**
   (`lossless_lost`). After a timeout it goes on where it was. What is lost at
   the end of a flow is never sent again, while the timer goes on expiring;
   `foutput` counts on it that data "will be reliably delivered".

### Design facts that are not findings of a run

* `pause-dumbbell.tcl` and `empirical_search_pfabric_pfc.tcl` set
  `pause_threshold_` and `resume_threshold_` on the classifier, which reads
  neither: only `set-buffer-threshold` (classifier/classifier.cc:293) has an effect.
* `set-buffer-threshold` stores `qlim - buffer_threshold` and `buffer_threshold`. A
  buffer threshold above half the limit makes a port pause and resume in turns;
  one above the limit becomes a huge unsigned number and never pauses. The
  theorems about agreement and assertions hold in both cases;
  `ThresholdsObeyed` and `PauseCanEnd` state their premise.
* The count at `rq.cc:469` is never reached: `needmerge` was set just before
  (`rq.cc:462`). Blocks that are merged do not move to the top of the
  LIFO, so the first SACK block is not always the one that triggered the ACK, as RFC
  2018 asks.
* Blocks of an overtaken ACK that lie below `highest_ack_` are put on the
  scoreboard and stay there until the next ACK that advances. `NoFalseSack` holds
  all the same, but `total()` is then too large and `pipe_` too small.
* A partial ACK takes `maxseg_` off `pipe_` twice, in `recv` and in `pack_action`; `pipe_`
  can become negative.
* `dupack_action`'s branch for a DCTCP receiver that must send an ACK with the old
  ECN state (tcp-full.cc:2627) is never taken: every segment is acknowledged at
  once, so nothing is owed.
* `sched()` from within a timer's own `expire` aborts (the status is
  `TIMER_HANDLING`), where timer-handler.h:83 says only "cannot be pending".
* With four buckets `bot_threshold_` is 0 and the calendar does not shrink, so the
  test `newsize < 4` in `resize` never holds.
* `MultiPathForwarder::classify` takes a remainder by `maxslot_ + 1`; a classifier
  whose last route was cleared has `maxslot_` = -1.
* In byte mode, `drop_front_` and `drop_smart_` replace a packet by a larger one and can
  exceed the limit. `LimitRespected` leaves these out.

## 4. What is proved

`PfcHopProofs`, by TLAPS, for all thresholds and all `MaxCounter` in Nat
(`PfcHopAssumption`) and with no bound on queues, wires, frames or drops:

| Theorem | States |
|---|---|
| `TypeCorrect` | `Spec => []TypeOK` |
| `CounterExact` | `Spec => []Accounting` |
| `PausesAgree` | `Spec => []PauseAgreement` |
| `BlockedForAReason` | `Spec => []BlockedExactly` |
| `NeverAborts` | `Spec => []NoAbort` |
| `ThresholdsObeyed` | `Spec => []Hysteresis` |
| `PauseCanEnd` | `Spec => []ResumePending` |
| `StopIsStop` | `Spec => StoppedSendsNothing` |

The inductive invariant `IInv` is the conjunction of all but the last two. None
of its parts is inductive alone. `NoAbort` on a RESUME needs `PauseAgreement`
(the first frame under way is a RESUME only if U is stopped) and
`BlockedExactly` (a stopped U is blocked). `BlockedExactly` needs
`PauseAgreement` so that a RESUME does not clear the flag of a busy link.
`PauseAgreement` needs that D sends a frame only when `paused_` changes. `Hysteresis`
needs `Accounting`, because a counter that wrapped would jump over both
thresholds. `ResumePending` follows from `Accounting` and `Hysteresis`;
`StoppedSendsNothing` from `BlockedExactly` in the state before a step.

Lemmas on ports (`SendKeepsAgreement`, `ReceiveKeepsAgreement`, `ArrivedPort`,
`LeftPort`) say what counting, uncounting, sending and receiving do to one
record; one lemma per action preserves `IInv`; `NextIInv` collects them.

TLC checks each part of `IInv` as an invariant of `pfc_hop`.

### `PfcNetworkProofs`

For all networks: any finite set of flows, any routes without cycles, any
thresholds at any ports, queues of any limit and policy, and any bounds
(`PfcNetworkAssumption`).

| Theorem | States |
|---|---|
| `CountersAreExact` | `Spec => []CounterExact` |
| `CallsEnd` | the calls of an event end: `Descended` leaves none to be made |

`CounterExact` says that an input counter is the number of that neighbour's packets
over all of the node's output queues, plus those dropped. The code counts a
packet in `recv`, before it is queued, and uncounts it in `deque_callback`, after it
left. In between other handlers run, on the same counters: the PAUSE that a
packet provokes is sent before the packet is queued, and may start queues that
send RESUMEs. So what holds inside an event is `Exact(s, H)`: a counter is
what the queues hold and what was dropped, and one more for the port in `H`,
that of a packet counted and not queued yet (`H` is empty or one port).

* The queue object: `PushFacts`, `TakeFacts`, `VictimFacts`, `DequeIndexFacts`, `EnqueFacts`,
  `DequeFacts` say for every policy that `enque` makes the arrival one more of
  what is queued or dropped, and that `deque` of a queue that is not empty takes
  one packet out.
* `EnqueuedFacts` and `TakenOutFacts` carry that over to the node: packets are
  counted as places in all of the queues together (`Spots`, `SpotsAppend`,
  `SpotsRemove`). A packet that is taken out was one of its port, so the counter is
  not 0 and `Decremented` does not wrap.
* `Sound(c, H)` says of calls under way that the snapshot is `Exact` for `H` and the
  call that is next is one of a control frame, or of the packet in `H`, on a
  link of its node. `Descent` and `Ascent` show that a call down and a return up keep it,
  `CompletedFacts` that all do, for any depth.
* `QueueRecvFacts`, `QueueResumeFacts`, `CountFacts`, `PausedFacts`, `ResumedFacts`, `ReceiveFacts`
  and `SendFacts` are about the whole handlers. `NextExact` has a step per action.

* `TransitEnqueued`, `TransitTakenOut`, `TransitReceived` and `CallsRunOut` are the measure for `CallsEnd`: a
  call that leads to another leaves one packet with an input port less in the
  queues, but for the first, which may bring one. So the unrolled calls are
  the code's recursion, and the code's recursion ends.

The inductive invariant `IInv` is `Exact` with no packet in hand, and the shapes of
queues, wires and ports. The theorem needs no bound on `MaxCounter`: the
model counts up without wrapping, which `TypeOK` of the run shows to be the
same while counters stay below it.

### `DropTailProofs`

For all sets of flows, configurations and limits, all bounds on priorities, sizes
and windows, and any number of arrivals (`DropTailAssumption`: the configurations
are records of the right shape, everything else is a natural number where the
code has one):

| Theorem | States |
|---|---|
| `TypeCorrect` | `Spec => []TypeOK` |
| `BytesAlwaysExact` | `Spec => []BytesExact` |
| `KeepsArrivalOrder` | `Spec => []ArrivalOrder` |
| `LimitAlwaysRespected` | `Spec => []LimitRespected` |
| `FlowsKeptInOrder` | `Spec => []FlowOrder` |
| `WindowAlwaysExact` | `Spec => []WindowExact` |
| `PauseAssertsHold` | `Spec => []PauseFlagSound` |

The inductive invariant `IInv` is their conjunction, with `DepartedArrived`: what
left had arrived. TLC checks each part on `drop_tail`. `FlowOrder` needs `ArrivalOrder`: the packet served first is the oldest of
its flow only because drops and departures from the middle leave the queue
sorted by arrival. `LimitRespected` needs `BytesExact`, because the code compares the
kept count. The lemmas say what each operator does: `PushFacts` and `TakeFacts` for
a packet that comes or goes at any place, `VictimFacts` and `DequeIndexFacts` for
the choices of `enque` and `deque` (their folds find a first best element,
`FirstOfOrder` and `KeyOrder`), `EnqueFacts`, `DequeFacts` and `ShrinkFacts` for the
whole handlers, of which the last goes through `shrink_queue`'s loop.

### `ReassemblyProofs` and `SackExchangeProofs`

`ReassemblyProofs` is about the operators alone, on queues of any length.
A queue is sound if the FIFO is sorted with gaps, both lists hold the same
blocks once each, and `total` is the number of bytes.

| Lemma | States |
|---|---|
| `AddFacts` | `add` on a sound queue leaves a sound queue, which holds the bytes it held and those of the segment, no others; and by what `rcv_nxt_` moves |
| `ClearToFacts` | `clearto` leaves a sound queue with exactly the bytes at or above its argument |
| `NextHoleFacts` | `nexthole` finds the first gap, and the blocks and bytes above it |

`AddFacts` follows the code: `FitFacts` for the stretching of what overlaps,
`InsertFacts` and `MergedFacts` for `coalesce`, with the lists as sets of blocks
(`AsRelations`, `ListsFacts`, `CoverSets`) rather than by position.

`SackExchangeProofs`, for every `MaxSeq` in Nat and `MaxSackBlocks` in Nat \ {0}, with no
bound on the ACKs under way:

| Theorem | States |
|---|---|
| `TypeCorrect` | `Spec => []TypeOK` |
| `QueuesStayWellFormed` | `Spec => []QueuesWellFormed` |
| `SackIsTrue` | `Spec => []NoFalseSack` |
| `HolesAreExact` | `Spec => []HolesExact` |
| `AcknowledgedIsCleared` | `Spec => AckedIsCleared` |
| `ReceiverRefines` | `Spec => ReceiverIsCumulative` |
| `AckIsFirstMissing` | `Spec => []Stream!FirstMissing` |
| `AckNeverFalls` | `Spec => Stream!NeverFalls` |

`IInv` says: the receiver's queue is sound and lies above `rcv_nxt_`; the scoreboard
is sound and `sack_min_` is not above `highest_ack_`; every ACK under way speaks the
truth about the receiver of now, however old it is; and no byte that a number
anywhere asks for (`highest_ack_`, the number of an ACK) is in a block on the
scoreboard or in an ACK. The last is what makes it inductive. `add()` moves
`sack_min_` when a block starts at or below it, so a block that held such a byte
would take the sender past what is acknowledged. It holds because each of these
numbers was `rcv_nxt_` once and the byte there was missing, until
`rcv_nxt_` passed it; and a block is sent only from above `rcv_nxt_`.

The last two are consequences of the refinement: `Stream` is `CumulativeAck` under
the refinement mapping, and they are proved from its initial states and steps
alone (`StreamArrives`). `FirstMissing` is inductive as it stands. The bytes below
`rcv_nxt_` stay, so no smaller one is ever the first missing.

### `SackTransferProofs`

For every `M`, `DupThr`, `MaxWindow`, `MaxFly` and `MaxSackBlocks` in Nat \ {0}, every
`MaxBytes` in Nat, and any messages, losses and depths of reordering:

| Theorem | States |
|---|---|
| `TypeCorrect` | `Spec => []TypeOK` |
| `TimerIsExact` | `Spec => []TimerExact` |
| `RecoveryAlwaysEnds` | `Spec => []RecoveryEnds` |
| `LosslessNeverResends` | `Spec => NeverResent` |
| `SendMuchEnds` | the loop of `send_much` ends: it stops where `Goes` is false |

`IInv` has three parts. `Sender(snd)`: the numbers are in order
(`highest_ack_ <= t_seqno_ <= maxseq_ <= curseq_ + 1`, `recover_` and `h_seqno_` within them), the
scoreboard is sound and holds only bytes that were sent, the timer is exact and
recovery is over when nothing is outstanding. `Connected`: receiver, ACKs,
`highest_ack_` and scoreboard are `Coherent`, the relation of `SackExchangeProofs`,
and nothing arrived that was not sent. It is needed for the first part: only
because an ACK speaks the truth is its number at most `maxseq_`, only because no
block holds `highest_ack_` is the scoreboard sound after it. `Reliable => Tidy`, for
`NeverResent`: where nothing is lost or reordered the segments under way follow
one another from `rcv_nxt_` up to `maxseq_`, each ACK under way asks for more than
the one before and has no blocks, and so no ACK is a duplicate and there is never
a hole.

`RoundFacts` shows that a round keeps `Sender`, `SendMuchSteps` that `send_much` is a
sequence of rounds, `SendMuchFacts` that it keeps what each round keeps. `Leaves`
says what a handler may make of a sender; `WrittenFacts`, `TimeoutActionFacts`,
`AdvancedFacts`, `RetransmittedFacts`, `DuplicateFacts` and `OnAckFacts` show it of each.
`LeftFacts` is the measure for `SendMuchEnds`: the bytes above `t_seqno_` and above
`h_seqno_`, of which a round that sends takes at least one. TLC checked `IInv`
as an invariant of instances with loss, reordering and several messages.

### `TimersProofs`

For any set of timers, any set of delays and widths, any bound on time and any
`TopScale` (`TimersAssumption`, `CalendarAssumption`: delays are natural numbers,
widths and `TopScale` not zero), with no bound on how often the calendar is resized:

| Theorem | States |
|---|---|
| `TypeCorrect` | `Spec => []TypeOK` |
| `CalendarStaysExact` | `Spec => []CalendarExact` |
| `PendingIsQueued` | `Spec => []PendingIffQueued` |
| `HeadFindsEarliest` | `Spec => [](Items(cal) # {} => First(cal, Earliest(cal)))`: what `head` finds is the first event of the least time |
| `ImplementsQueue` | `Spec => ImplementsEventQueue` |

`IInv` says of the calendar that it is `Ready`: every list is sorted and holds
only events of its page, each timer's event is there once at most, `count`,
`stat` and `qsize` are right, there are at least four buckets, the current page is
that of `cal_clock_`, and nothing in the calendar is before `cal_clock_`. It adds
that `cal_clock_` is the scheduler's clock, that the calendar holds the events of
the pending timers and no others, and that a timer that is `TIMER_HANDLING` is
the one whose `expire` is on the stack. What is beyond the run's invariants, that
nothing is past and that there are four buckets, is what `head` needs.

Why `head` is right (`FoundFacts`). It goes round the pages from the current one and
takes the first event that lies within a limit: half a year for the current
page, a day more for the next, a year for the others. An event on the k-th page
that is not past lies on that page's day of this year or a later one
(`YearFacts`), so the limits let none of a later year through and miss none of
the day they are about, even if the current day is half over; they are close
enough together only if there are four buckets or more. If no page has one, the
least of the heads is taken, and the last page, which is left out of the search,
is in that comparison.

Why events of one time keep their order. `insert` goes behind them
(`PlaceBehindFacts`), `insert2` before them (`PlaceBeforeFacts`), and `resize` takes each
list from its end: `PartGrows` and `MovedFacts` show that after k steps the new
calendar has the last k entries in the order they had, and `ResizeFacts` that in the
end it has all entries, in the order they had, each on its new page. No two
lists have entries of one time, so their order among each other does not matter.

`LinkFacts` and `UnlinkFacts` are about one entry that comes or goes at any place;
`InsertFacts`, `DequeFacts` and `CancelFacts` about the whole operations, growth,
shrinking and adjustment included. `ScheduleStep`, `CancelStep`, `DispatchStep` and
`ReturnStep` show of each action that it preserves `IInv` and is a step of `EventQueue`
or a stutter. TLC checks the parts of `IInv` on `timers` as parts of the run's invariants,
and checked the bounds it adds on the same instance.

### How recursive functions are reasoned about

The library's induction theorems take an operator as parameter, which the
provers cannot instantiate. `SequenceLemmas` proves instances with a SET of numbers in place
of a predicate (`InductionTo`, `NatSetInduction`), which they can. From these come
`Iteration` (a function defined step by step from the one before exists) and
`Agreement` (two such functions are equal), and with them a recursive function over
`0..n` is known by its steps: `WithoutSteps`, `SumsExist`, `ShrinkFacts`, `SendMuchSteps`,
`MovedSteps` and `ResizeSteps` are instances.

### Only model-checked

* Liveness: `WrittenIsDelivered`, `PauseEnds`, `UnpauseTakesEffect`. The prover has no
  rules for ENABLED, on which weak fairness rests.
* `PfcNetwork`: `NoAbort` and `PortsImplementPfcHop` are not true of every network
  (findings 3 and 4), so they are properties of the `incast` instance; there a
  port behaves as `PfcHop`, of which `NeverAborts` and the rest are proved for all
  parameters. `DeliveredInOrder` needs packets of one size on a link. `TypeOK`
  bounds the counters by `MaxCounter`, which depends on how much traffic
  there is.

## 5. What is not modelled

* Real time and link rates, hence headroom: whether a PAUSE arrives early enough
  to prevent drops. The `dynamic_` branch of `LinkDelay` and links that go down.
* `drop_smart_` in a network (its window would multiply states; one queue with it
  is checked).
* Floating point: RED's averages, DCTCP's alpha, round trip estimates, congestion
  window arithmetic, calendar times and widths. The models leave the outcome
  open where something else depends on it (windows, timeouts, widths).
* Connection set-up and tear-down, probe mode and early termination in the TCP
  agents; MinTcp and DdTcp; the one-way TCP agents.
* `MultiPathForwarder`: its choice of a path; the reordering that results is in
  `SackExchange`.
* The list, heap, splay and real-time schedulers.
* `PacketQueue` at pointer level.
* What `PROJECT.json` lists as not modelled, with the reason for each.

## 6. Plan

Done: PFC, queues, links and their composition; the SACK and lossless agents;
timers and the calendar queue; proofs about all of them.
What is left, in this order:

1. Proofs: the ports of `PfcNetwork` implement `PfcHop`, under the condition that no
   control frame is dropped and no two queues of a node feed each other.
2. FIN and close: a connection that ends, with the FIN's sequence number.
3. Packet queue at pointer level (`remove`, iterator), shown to implement the
   sequence of `DropTailQueue`.
4. `SackTransfer` over the queue of `DropTailQueue` in place of the lossy channel.
5. `MultiPathForwarder` with routes installed and cleared under traffic.
