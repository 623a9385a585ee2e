-------------------------------- MODULE Timers --------------------------------
(***************************************************************************)
(* TimerHandlers (common/timer-handler.cc) on the CalendarScheduler: each  *)
(* owns one event, which it schedules, cancels and handles.  Their clients *)
(* (agents and queues) call them at any time, also from within expire.     *)
(***************************************************************************)
EXTENDS CalendarQueue, FiniteSets

CONSTANTS
  Timer,              \* the timers
  NoTimer,
  Delays,             \* the delays that clients ask for
  MaxTime             \* bound: nothing is scheduled for later

ASSUME TimersAssumption ==
  /\ NoTimer \notin Timer
  /\ Delays \subseteq Nat
  /\ MaxTime \in Nat

VARIABLES
  clock,              \* clock_ of the Scheduler
  cal,                \* the CalendarScheduler
  status,             \* status_ of each timer
  running             \* the timer whose expire is on the stack, or NoTimer

vars == <<clock, cal, status, running>>

Init ==
  /\ clock = 0
  /\ cal = Reinit(4, 1, 0)
  /\ status = [t \in Timer |-> "idle"]
  /\ running = NoTimer

(* Scheduler::schedule of t's event in calendar c.                         *)
Schedule(c, t, delay) ==
  /\ clock + delay <= MaxTime
  /\ cal' \in Insert(c, [e |-> t, t |-> clock + delay])
  /\ status' = [status EXCEPT ![t] = "pending"]
  /\ UNCHANGED <<clock, running>>

(* TimerHandler::sched, which aborts unless the timer is idle.             *)
Sched(t, delay) == status[t] = "idle" /\ Schedule(cal, t, delay)

(* Wrong on purpose: the event of a pending timer is not cancelled.        *)
RescheduleTwice(t, delay) == Schedule(cal, t, delay)

Resched(t, delay) ==
  Schedule(IF status[t] = "pending" THEN Cancel(cal, t) ELSE cal, t, delay)

(* TimerHandler::cancel, which aborts unless the timer is pending, and     *)
(* force_cancel, which then does nothing.                                  *)
CancelTimer(t) ==
  /\ status[t] = "pending"
  /\ cal' = Cancel(cal, t)
  /\ status' = [status EXCEPT ![t] = "idle"]
  /\ UNCHANGED <<clock, running>>

(* run and dispatch, up to the call of expire in TimerHandler::handle.     *)
Dispatch ==
  /\ running = NoTimer
  /\ cal.qsize > 0
  /\ cal' \in Deque(cal)
  /\ clock' = Earliest(cal).t
  /\ running' = Earliest(cal).e
  /\ status' = [status EXCEPT ![running'] = "handling"]

(* The rest of handle.                                                     *)
Return ==
  /\ running # NoTimer
  /\ status' = [status EXCEPT ![running] = IF @ = "handling" THEN "idle" ELSE @]
  /\ running' = NoTimer
  /\ UNCHANGED <<clock, cal>>

Next ==
  \/ \E t \in Timer, delay \in Delays : Sched(t, delay) \/ Resched(t, delay)
  \/ \E t \in Timer : CancelTimer(t)
  \/ Dispatch
  \/ Return

Spec == Init /\ [][Next]_vars

-----------------------------------------------------------------------------
TypeOK ==
  /\ clock \in 0 .. MaxTime
  /\ status \in [Timer -> {"idle", "pending", "handling"}]
  /\ running \in Timer \union {NoTimer}
  /\ cal.n \in Nat /\ cal.n >= 4 /\ cal.width \in Widths \union {1}
  /\ {cal.stat, cal.qsize} \subseteq Nat
  /\ cal.count \in [0 .. cal.n - 1 -> Nat]
  /\ cal.bucket \in [0 .. cal.n - 1 -> Seq([e : Timer, t : 0 .. MaxTime])]

TimesIn(D) == { x.t : x \in D }

(* Through every insert, deque, cancel, growth and shrinking: events are   *)
(* on the page of their time and in order, the counts that decide when to  *)
(* resize are what they say, and the search starts on the page of          *)
(* cal_clock_, the "same as clock in sims".                                *)
CalendarExact ==
  /\ \A i \in 0 .. cal.n - 1 :
       LET q == cal.bucket[i]
       IN  /\ \A k \in DOMAIN q : CALENDARHASH(cal, q[k].t) = i
           /\ \A j, k \in DOMAIN q : j < k => q[j].t <= q[k].t
           /\ cal.count[i] = Cardinality(TimesIn(ToSet(q)))
  /\ cal.stat = Cardinality(TimesIn(Items(cal)))
  /\ cal.qsize = Cardinality(Items(cal))
  /\ cal.clk = clock
  /\ cal.last = CALENDARHASH(cal, clock)

(* A timer believes its event to be in the scheduler exactly if it is, and *)
(* then once: no handle of a timer that is not pending, no schedule of an  *)
(* event that is in the queue, both of which abort the simulation.         *)
PendingIffQueued ==
  /\ \A t \in Timer : status[t] = "pending" <=> \E x \in Items(cal) : x.e = t
  /\ \A x, y \in Items(cal) : x.e = y.e => x = y
  /\ \A i \in 0 .. cal.n - 1 : \A j, k \in DOMAIN cal.bucket[i] :
       cal.bucket[i][j] = cal.bucket[i][k] => j = k
  /\ \A t \in Timer : status[t] = "handling" => running = t

(* The calendar implements the event queue: head never passes over an      *)
(* earlier event, resize keeps the order of events of one time, and time   *)
(* does not go back, which aborts in dispatch.                             *)
Ahead(c) ==
  { p \in Items(c) \X Items(c) :
      /\ p[1].t = p[2].t
      /\ LET q == c.bucket[CALENDARHASH(c, p[1].t)]
         IN  \E j, k \in DOMAIN q : j < k /\ q[j] = p[1] /\ q[k] = p[2] }

Queue == INSTANCE EventQueue
           WITH Events <- Timer, Times <- 0 .. MaxTime,
                now <- clock, due <- Items(cal), ahead <- Ahead(cal)

ImplementsEventQueue == Queue!Spec
==============================================================================
