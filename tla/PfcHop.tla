-------------------------------- MODULE PfcHop --------------------------------
(***************************************************************************)
(* One pause relation of priority flow control: an upstream node U feeds a *)
(* downstream node D over a link, and D tells U to stop and to go on.      *)
(*                                                                         *)
(* U side: the Queue and the LinkDelay of the link U -> D (queue/queue.cc, *)
(* link/delay.cc).  D side: what D's DestHashClassifier                    *)
(* (classifier/classifier-hash.cc) keeps for its input port U.  Packets    *)
(* are counted, not named.  The path of control frames from D to U (D's    *)
(* queue towards U, then the wire) is a FIFO sequence: control frames have *)
(* one size, one flow and one priority, so neither queue nor wire reorders *)
(* them, and this module assumes that D's queue does not drop them.        *)
(***************************************************************************)
EXTENDS Integers, Sequences

CONSTANTS
  PauseThr,     \* pause_thresholds_[U]
  ResumeThr,    \* resume_thresholds_[U]; set-buffer-threshold orders them
                \* only if the script gives a threshold below half the limit
  MaxCounter    \* the largest value of a uint64_t counter

ASSUME PfcHopAssumption ==
  /\ PauseThr \in Nat
  /\ ResumeThr \in Nat
  /\ MaxCounter \in Nat

VARIABLES
  qlen,         \* packets in U's queue
  blocked,      \* blocked_ of U's queue
  intr,         \* is intr_ of U's link in the scheduler?
  wire,         \* packets on the link from U to D
  port,         \* D's record of its input port U, and the frames it has sent:
                \*   cnt     input_counters_[U]
                \*   paused  paused_[U]
                \*   ctl     control frames queued at D or on the wire to U
  held,         \* packets of U in D's output queues
  lost,         \* packets of U that D's output queues dropped
  stopped,      \* was the last control frame U processed a PAUSE?
  abort         \* has an assertion or a check of the scheduler failed?

uVars == <<qlen, blocked, intr>>
dVars == <<port, held, lost>>
vars  == <<qlen, blocked, intr, wire, port, held, lost, stopped, abort>>

-----------------------------------------------------------------------------
(* Wrong on purpose: the threshold is compared with the old count; nothing *)
(* is counted while the port is paused.                                    *)
ArrivedLate(q) ==
  IF q.cnt > PauseThr /\ ~q.paused
  THEN [cnt |-> q.cnt + 1, paused |-> TRUE, ctl |-> Append(q.ctl, "PAUSE")]
  ELSE [q EXCEPT !.cnt = @ + 1]

ArrivedUnpausedOnly(q) ==
  IF q.paused THEN q
  ELSE IF q.cnt + 1 > PauseThr
  THEN [cnt |-> q.cnt + 1, paused |-> TRUE, ctl |-> Append(q.ctl, "PAUSE")]
  ELSE [q EXCEPT !.cnt = @ + 1]

(* DestHashClassifier::recv, the accounting of a packet in transit: count  *)
(* it, and send a PAUSE once above the threshold.                          *)
Arrived(q) ==
  LET n == q.cnt + 1
  IN  IF n > PauseThr /\ ~q.paused
      THEN [cnt |-> n, paused |-> TRUE, ctl |-> Append(q.ctl, "PAUSE")]
      ELSE [q EXCEPT !.cnt = n]

(* input_counters_.at(input_port)-- of a uint64_t.                         *)
Decremented(n) == IF n = 0 THEN MaxCounter ELSE n - 1

(* Wrong on purpose: a RESUME at every departure below the threshold; one  *)
(* packet too late.                                                        *)
LeftAlwaysResumes(q) ==
  LET n == Decremented(q.cnt)
  IN  IF n < ResumeThr
      THEN [cnt |-> n, paused |-> FALSE, ctl |-> Append(q.ctl, "RESUME")]
      ELSE [q EXCEPT !.cnt = n]

LeftTooLate(q) ==
  LET n == Decremented(q.cnt)
  IN  IF n + 1 < ResumeThr /\ q.paused
      THEN [cnt |-> n, paused |-> FALSE, ctl |-> Append(q.ctl, "RESUME")]
      ELSE [q EXCEPT !.cnt = n]

(* DestHashClassifier::deque_callback: uncount the packet, and send a      *)
(* RESUME once below the threshold.                                        *)
Left(q) ==
  LET n == Decremented(q.cnt)
  IN  IF n < ResumeThr /\ q.paused
      THEN [cnt |-> n, paused |-> FALSE, ctl |-> Append(q.ctl, "RESUME")]
      ELSE [q EXCEPT !.cnt = n]

-----------------------------------------------------------------------------
Init ==
  /\ qlen = 0
  /\ blocked = FALSE
  /\ intr = FALSE
  /\ wire = 0
  /\ port = [cnt |-> 0, paused |-> FALSE, ctl |-> <<>>]
  /\ held = 0
  /\ lost = 0
  /\ stopped = FALSE
  /\ abort = FALSE

(* Wrong on purpose: no check that deque() found a packet.                 *)
URecvUnchecked ==
  \E kept \in {0, 1} :
    /\ ~blocked
    /\ qlen' = qlen + kept - 1
    /\ blocked' = TRUE
    /\ wire' = wire + 1
    /\ intr' = TRUE
    /\ abort' = intr
    /\ UNCHANGED <<dVars, stopped>>

(* Queue::recv of U's queue: enque, which may drop a packet, and if the    *)
(* queue is not blocked hand one to the link.  LinkDelay::recv schedules   *)
(* intr_, and the scheduler aborts if it is already scheduled.             *)
URecv ==
  \E kept \in {0, 1} :
    LET n == qlen + kept
    IN  IF ~blocked /\ n > 0
        THEN /\ qlen' = n - 1
             /\ blocked' = TRUE
             /\ wire' = wire + 1
             /\ intr' = TRUE
             /\ abort' = intr
             /\ UNCHANGED <<dVars, stopped>>
        ELSE /\ qlen' = n
             /\ UNCHANGED <<blocked, intr, wire, abort, dVars, stopped>>

(* intr_ fires: Queue::resume sends the next packet, or unblocks.          *)
UTxDone ==
  /\ intr
  /\ IF qlen > 0
     THEN /\ qlen' = qlen - 1
          /\ wire' = wire + 1
          /\ UNCHANGED <<blocked, intr>>
     ELSE /\ blocked' = FALSE
          /\ intr' = FALSE
          /\ UNCHANGED <<qlen, wire>>
  /\ UNCHANGED <<dVars, stopped, abort>>

(* A packet of U for D itself: a control frame of the opposite pause       *)
(* relation, or data for an agent of D.                                    *)
DRecvLocal ==
  /\ wire > 0
  /\ wire' = wire - 1
  /\ UNCHANGED <<uVars, dVars, stopped, abort>>

(* A packet of U in transit: D counts it and gives it to an output queue,  *)
(* which may drop one of U's packets and may send one of them on at once.  *)
DRecvTransit ==
  /\ wire > 0
  /\ wire' = wire - 1
  /\ \E dropped, sent \in {0, 1} :
       /\ dropped + sent <= held + 1
       /\ held' = held + 1 - dropped - sent
       /\ lost' = lost + dropped
       /\ port' = IF sent = 1 THEN Left(Arrived(port)) ELSE Arrived(port)
  /\ UNCHANGED <<uVars, stopped, abort>>

(* Something else reaches one of D's output queues, or the link behind it  *)
(* becomes free: one of U's packets is dropped, sent on, or both.          *)
DServe ==
  /\ \E dropped, sent \in {0, 1} :
       /\ dropped + sent <= held
       /\ held' = held - dropped - sent
       /\ lost' = lost + dropped
       /\ port' = IF sent = 1 THEN Left(port) ELSE port
  /\ UNCHANGED <<uVars, wire, stopped, abort>>

(* Wrong on purpose: intr_ is not cancelled, as if only the queue had to   *)
(* be blocked.                                                             *)
RecvPauseNoCancel ==
  /\ port.ctl # <<>> /\ Head(port.ctl) = "PAUSE"
  /\ port' = [port EXCEPT !.ctl = Tail(@)]
  /\ blocked' = TRUE
  /\ stopped' = TRUE
  /\ UNCHANGED <<qlen, intr, wire, held, lost, abort>>

(* DestHashClassifier::recv of a PAUSE at U: cancel intr_, block the queue.*)
RecvPause ==
  /\ port.ctl # <<>> /\ Head(port.ctl) = "PAUSE"
  /\ port' = [port EXCEPT !.ctl = Tail(@)]
  /\ intr' = FALSE
  /\ blocked' = TRUE
  /\ stopped' = TRUE
  /\ UNCHANGED <<qlen, wire, held, lost, abort>>

(* DestHashClassifier::recv of a RESUME at U: assert that the queue is     *)
(* blocked, and unblock it.                                                *)
RecvResume ==
  /\ port.ctl # <<>> /\ Head(port.ctl) = "RESUME"
  /\ port' = [port EXCEPT !.ctl = Tail(@)]
  /\ abort' = ~blocked
  /\ blocked' = FALSE
  /\ stopped' = FALSE
  /\ UNCHANGED <<qlen, intr, wire, held, lost>>

Next ==
  /\ ~abort
  /\ \/ URecv
     \/ UTxDone
     \/ DRecvLocal
     \/ DRecvTransit
     \/ DServe
     \/ RecvPause
     \/ RecvResume

Spec == Init /\ [][Next]_vars

-----------------------------------------------------------------------------
Ports == [cnt : Nat, paused : BOOLEAN, ctl : Seq({"PAUSE", "RESUME"})]

(* Counters are counters; every flag is a flag.                            *)
TypeOK ==
  /\ qlen \in Nat
  /\ blocked \in BOOLEAN
  /\ intr \in BOOLEAN
  /\ wire \in Nat
  /\ port \in Ports
  /\ held \in Nat
  /\ lost \in Nat
  /\ stopped \in BOOLEAN
  /\ abort \in BOOLEAN

(* input_counters_[U] is the number of U's packets in D's output queues    *)
(* plus those that were dropped there, which nobody uncounts: it never     *)
(* wraps below zero, and every drop moves both thresholds by one forever.  *)
Accounting == port.cnt = held + lost

(* D and U never disagree for longer than a control frame takes: the       *)
(* frames under way alternate, the first of them is news to U, and after   *)
(* the last of them U is stopped exactly if D has it marked as paused.     *)
Frame(b) == IF b THEN "PAUSE" ELSE "RESUME"

Agree(q, s) ==
  LET n == Len(q.ctl)
  IN  /\ \A i \in 1..n - 1 : q.ctl[i] # q.ctl[i + 1]
      /\ n > 0 => q.ctl[1] = Frame(~s) /\ q.ctl[n] = Frame(q.paused)
      /\ n = 0 => s = q.paused

PauseAgreement == Agree(port, stopped)

(* The two reasons why blocked_ is set, a packet on its way to the link    *)
(* and a PAUSE, exclude one another, and there is no third.                *)
BlockedExactly ==
  /\ blocked <=> intr \/ stopped
  /\ ~(intr /\ stopped)

(* Neither "queue_to_unblock->blocked() == 1" in recv nor the scheduler's  *)
(* check that intr_ is not already scheduled ever fails.                   *)
NoAbort == ~abort

(* While U is stopped its link takes no new packet.                        *)
StoppedSendsNothing == [][stopped /\ stopped' => wire' <= wire]_vars

(* With ordered thresholds, a port that is marked as paused is at or above *)
(* its resume threshold, and one that is not is at or below its pause      *)
(* threshold: no crossing of either goes unnoticed.                        *)
Calm(q) ==
  ResumeThr <= PauseThr + 1 =>
    IF q.paused THEN q.cnt >= ResumeThr ELSE q.cnt <= PauseThr

Hysteresis == Calm(port)

(* So a paused port has a packet in D whose departure can send the RESUME; *)
(* only packets lost to drops can take that away.                          *)
ResumePending ==
  ResumeThr <= PauseThr + 1 /\ port.paused /\ lost < ResumeThr => held > 0

(* "unblock queue": RESUME makes U's queue send again. A queue that holds   *)
(* packets and is not stopped has its link busy in the end.                *)
ResumedQueueSends == (qlen > 0 /\ ~stopped) ~> (qlen = 0 \/ stopped \/ intr)
==============================================================================
