----------------------------- MODULE PfcHopProofs -----------------------------
(***************************************************************************)
(* Proofs about one pause relation, for every pair of thresholds and with  *)
(* no bound on queues, wires, buffers or control frames.                   *)
(***************************************************************************)
EXTENDS PfcHop, TLAPS

(* The inductive invariant. NoAbort needs BlockedExactly (the queue of a   *)
(* stopped node is blocked, one that is not has intr_ pending) and         *)
(* PauseAgreement (the first RESUME under way finds U stopped); Accounting *)
(* keeps the counter from wrapping, on which Hysteresis depends.           *)
IInv ==
  /\ TypeOK
  /\ Accounting
  /\ PauseAgreement
  /\ BlockedExactly
  /\ NoAbort
  /\ Hysteresis

-----------------------------------------------------------------------------
(* A record of well typed fields is a port.                                *)
LEMMA PortRecord ==
  ASSUME NEW n \in Nat, NEW b \in BOOLEAN, NEW c \in Seq({"PAUSE", "RESUME"})
  PROVE  [cnt |-> n, paused |-> b, ctl |-> c] \in Ports
  BY DEF Ports

(* A port that appends the frame that says the opposite of its last one    *)
(* keeps agreeing with U.                                                  *)
LEMMA SendKeepsAgreement ==
  ASSUME NEW q \in Ports, NEW s \in BOOLEAN, NEW n \in Nat, NEW b \in BOOLEAN,
         Agree(q, s), q.paused = ~b
  PROVE  Agree([cnt |-> n, paused |-> b, ctl |-> Append(q.ctl, Frame(b))], s)
<1> DEFINE c == Append(q.ctl, Frame(b))
           r == [cnt |-> n, paused |-> b, ctl |-> c]
<1>1. /\ q.ctl \in Seq({"PAUSE", "RESUME"})
      /\ q.paused \in BOOLEAN
      /\ Len(q.ctl) \in Nat
  BY DEF Ports
<1>2. /\ c \in Seq({"PAUSE", "RESUME"})
      /\ Len(c) = Len(q.ctl) + 1
      /\ \A i \in 1..Len(q.ctl) : c[i] = q.ctl[i]
      /\ c[Len(q.ctl) + 1] = Frame(b)
  BY <1>1 DEF Frame
<1>3. Frame(b) # Frame(q.paused)
  BY <1>1 DEF Frame
<1>4. r.ctl = c /\ r.paused = b
  OBVIOUS
<1>5. ASSUME NEW i \in 1..Len(c) - 1 PROVE c[i] # c[i + 1]
  <2>1. CASE i = Len(q.ctl)
    BY <1>1, <1>2, <1>3, <2>1 DEF Agree
  <2>2. CASE i < Len(q.ctl)
    BY <1>1, <1>2, <2>2 DEF Agree
  <2>3. QED
    BY <1>1, <1>2, <2>1, <2>2
<1>6. c[1] = Frame(~s)
  <2>1. CASE Len(q.ctl) = 0
    <3>1. s = q.paused
      BY <2>1 DEF Agree
    <3>2. b = ~s
      BY <3>1
    <3>3. c[1] = Frame(b)
      BY <1>2, <2>1
    <3>4. QED
      BY <3>2, <3>3
  <2>2. CASE Len(q.ctl) > 0
    BY <1>1, <1>2, <2>2 DEF Agree
  <2>3. QED
    BY <1>1, <2>1, <2>2
<1>7. QED
  BY <1>1, <1>2, <1>4, <1>5, <1>6 DEF Agree

(* U that processes the first frame under way keeps agreeing with the port.*)
LEMMA ReceiveKeepsAgreement ==
  ASSUME NEW q \in Ports, NEW s \in BOOLEAN, NEW b \in BOOLEAN,
         Agree(q, s), q.ctl # <<>>, Head(q.ctl) = Frame(b)
  PROVE  /\ s = ~b
         /\ [q EXCEPT !.ctl = Tail(@)] \in Ports
         /\ Agree([q EXCEPT !.ctl = Tail(@)], b)
<1> DEFINE c == Tail(q.ctl)
           r == [q EXCEPT !.ctl = Tail(@)]
<1>1. /\ q.ctl \in Seq({"PAUSE", "RESUME"})
      /\ q.paused \in BOOLEAN
      /\ Len(q.ctl) \in Nat \ {0}
  BY DEF Ports
<1>2. /\ c \in Seq({"PAUSE", "RESUME"})
      /\ Len(c) \in Nat
      /\ Len(c) = Len(q.ctl) - 1
      /\ \A i \in 1..Len(c) : c[i] = q.ctl[i + 1]
  BY <1>1
<1>3. /\ r \in Ports
      /\ r.ctl = c
      /\ r.paused = q.paused
  BY <1>2 DEF Ports
<1>4. q.ctl[1] = Frame(b) /\ q.ctl[1] = Frame(~s)
  BY <1>1 DEF Agree
<1>5. s = ~b
  BY <1>4 DEF Frame
<1>6. \A i \in 1..Len(c) - 1 : c[i] # c[i + 1]
  BY <1>1, <1>2 DEF Agree
<1>7. CASE Len(c) = 0
  <2>1. q.ctl[1] = Frame(q.paused)
    BY <1>1, <1>2, <1>7 DEF Agree
  <2>2. b = q.paused
    BY <1>1, <1>4, <2>1 DEF Frame
  <2>3. QED
    BY <1>3, <1>5, <1>7, <2>2 DEF Agree
<1>8. CASE Len(c) # 0
  <2>0. Len(c) > 0
    <3>1. ASSUME NEW n \in Nat, n # 0 PROVE n > 0
      BY <3>1
    <3>2. QED
      BY <1>2, <1>8, <3>1, Zenon
  <2>1. c[1] \in {"PAUSE", "RESUME"} /\ c[1] # Frame(b)
    BY <1>1, <1>2, <1>4, <2>0 DEF Agree
  <2>2. c[1] = Frame(~b)
    BY <2>1 DEF Frame
  <2>3. c[Len(c)] = Frame(q.paused)
    BY <1>1, <1>2, <2>0 DEF Agree
  <2>4. QED
    BY <1>2, <1>3, <1>5, <1>6, <2>0, <2>2, <2>3 DEF Agree
<1>9. QED
  BY <1>7, <1>8

(* What counting a packet does to a port.                                  *)
LEMMA ArrivedPort ==
  ASSUME NEW q \in Ports, NEW s \in BOOLEAN, Agree(q, s), Calm(q)
  PROVE  /\ Arrived(q) \in Ports
         /\ Arrived(q).cnt = q.cnt + 1
         /\ Agree(Arrived(q), s)
         /\ Calm(Arrived(q))
<1>1. q.cnt \in Nat /\ q.paused \in BOOLEAN /\ q.ctl \in Seq({"PAUSE", "RESUME"})
  BY DEF Ports
<1>2. CASE q.cnt + 1 > PauseThr /\ ~q.paused
  <2>1. Arrived(q) = [cnt |-> q.cnt + 1, paused |-> TRUE,
                      ctl |-> Append(q.ctl, Frame(TRUE))]
    BY <1>1, <1>2 DEF Arrived, Frame
  <2>2. Agree(Arrived(q), s)
    <3>1. q.paused = ~TRUE
      BY <1>1, <1>2
    <3>2. q.cnt + 1 \in Nat
      BY <1>1
    <3>3. QED
      BY <2>1, <3>1, <3>2, SendKeepsAgreement
  <2>3. Append(q.ctl, Frame(TRUE)) \in Seq({"PAUSE", "RESUME"})
    BY <1>1 DEF Frame
  <2>4. Arrived(q).cnt = q.cnt + 1 /\ Arrived(q).paused
    BY <2>1
  <2>5. Arrived(q) \in Ports
    <3>1. q.cnt + 1 \in Nat
      BY <1>1
    <3>2. QED
      BY <2>1, <2>3, <3>1, PortRecord
  <2>6. Calm(Arrived(q))
    BY <1>1, <1>2, <2>4, PfcHopAssumption DEF Calm
  <2>7. QED
    BY <2>2, <2>4, <2>5, <2>6
<1>3. CASE ~(q.cnt + 1 > PauseThr /\ ~q.paused)
  <2>1. Arrived(q) = [q EXCEPT !.cnt = q.cnt + 1]
    BY <1>3 DEF Arrived
  <2>2. /\ Arrived(q) \in Ports
        /\ Arrived(q).cnt = q.cnt + 1
        /\ Arrived(q).paused = q.paused
        /\ Arrived(q).ctl = q.ctl
    BY <1>1, <2>1 DEF Ports
  <2>3. Agree(Arrived(q), s)
    BY <2>2 DEF Agree
  <2>4. Calm(Arrived(q))
    BY <1>1, <1>3, <2>2, PfcHopAssumption DEF Calm
  <2>5. QED
    BY <2>2, <2>3, <2>4
<1>4. QED
  BY <1>2, <1>3

(* What uncounting a packet does to a port that has counted one.           *)
LEMMA LeftPort ==
  ASSUME NEW q \in Ports, NEW s \in BOOLEAN, Agree(q, s), Calm(q), q.cnt > 0
  PROVE  /\ Left(q) \in Ports
         /\ Left(q).cnt = q.cnt - 1
         /\ Agree(Left(q), s)
         /\ Calm(Left(q))
<1>1. q.cnt \in Nat /\ q.paused \in BOOLEAN /\ q.ctl \in Seq({"PAUSE", "RESUME"})
  BY DEF Ports
<1>2. Decremented(q.cnt) = q.cnt - 1 /\ q.cnt - 1 \in Nat
  BY <1>1 DEF Decremented
<1>3. CASE q.cnt - 1 < ResumeThr /\ q.paused
  <2>1. Left(q) = [cnt |-> q.cnt - 1, paused |-> FALSE,
                   ctl |-> Append(q.ctl, Frame(FALSE))]
    BY <1>1, <1>2, <1>3 DEF Left, Frame
  <2>2. Agree(Left(q), s)
    <3>1. q.paused = ~FALSE
      BY <1>1, <1>3
    <3>2. QED
      BY <1>2, <2>1, <3>1, SendKeepsAgreement
  <2>3. Append(q.ctl, Frame(FALSE)) \in Seq({"PAUSE", "RESUME"})
    BY <1>1 DEF Frame
  <2>4. Left(q).cnt = q.cnt - 1 /\ ~Left(q).paused
    BY <2>1
  <2>5. Left(q) \in Ports
    BY <1>2, <2>1, <2>3, PortRecord
  <2>6. Calm(Left(q))
    BY <1>1, <1>3, <2>4, PfcHopAssumption DEF Calm
  <2>7. QED
    BY <2>2, <2>4, <2>5, <2>6
<1>4. CASE ~(q.cnt - 1 < ResumeThr /\ q.paused)
  <2>1. Left(q) = [q EXCEPT !.cnt = q.cnt - 1]
    BY <1>2, <1>4 DEF Left
  <2>2. /\ Left(q) \in Ports
        /\ Left(q).cnt = q.cnt - 1
        /\ Left(q).paused = q.paused
        /\ Left(q).ctl = q.ctl
    BY <1>1, <1>2, <2>1 DEF Ports
  <2>3. Agree(Left(q), s)
    BY <2>2 DEF Agree
  <2>4. Calm(Left(q))
    BY <1>1, <1>4, <2>2, PfcHopAssumption DEF Calm
  <2>5. QED
    BY <2>2, <2>3, <2>4
<1>5. QED
  BY <1>3, <1>4

-----------------------------------------------------------------------------
(* The simulator starts in it.                                             *)
LEMMA InitIInv == Init => IInv
<1> SUFFICES ASSUME Init PROVE IInv
  OBVIOUS
<1> USE DEF Init
<1>1. TypeOK
  <2>1. <<>> \in Seq({"PAUSE", "RESUME"})
    OBVIOUS
  <2>2. port \in Ports
    BY <2>1 DEF Ports
  <2>3. QED
    BY <2>2 DEF TypeOK
<1>2. PauseAgreement
  <2>1. Len(port.ctl) = 0
    OBVIOUS
  <2>2. stopped = port.paused
    OBVIOUS
  <2>3. \A i \in 1..Len(port.ctl) - 1 : port.ctl[i] # port.ctl[i + 1]
    BY <2>1
  <2>4. QED
    BY <2>1, <2>2, <2>3 DEF PauseAgreement, Agree
<1>3. Accounting /\ Hysteresis
  BY PfcHopAssumption DEF Accounting, Hysteresis, Calm
<1>4. BlockedExactly /\ NoAbort
  BY DEF BlockedExactly, NoAbort
<1>5. QED
  BY <1>1, <1>2, <1>3, <1>4 DEF IInv

(* Traffic at U does not touch the port and the stopped flag.              *)
LEMMA URecvIInv == IInv /\ URecv => IInv'
<1> SUFFICES ASSUME IInv, URecv PROVE IInv'
  OBVIOUS
<1> USE DEF IInv
<1>1. UNCHANGED <<port, held, lost, stopped>>
  BY DEF URecv, dVars
<1>2. Accounting' /\ PauseAgreement' /\ Hysteresis'
  BY <1>1 DEF Accounting, PauseAgreement, Hysteresis
<1>3. TypeOK'
  <2>1. qlen' \in Nat /\ wire' \in Nat
    BY DEF URecv, TypeOK
  <2>2. blocked' \in BOOLEAN /\ intr' \in BOOLEAN /\ abort' \in BOOLEAN
    BY DEF URecv, TypeOK
  <2>3. QED
    BY <1>1, <2>1, <2>2 DEF TypeOK
<1>4. BlockedExactly'
  BY <1>1 DEF URecv, BlockedExactly
<1>5. NoAbort'
  BY DEF URecv, BlockedExactly, NoAbort
<1>6. QED
  BY <1>2, <1>3, <1>4, <1>5

(* Neither does the end of a transmission at U.                            *)
LEMMA UTxDoneIInv == IInv /\ UTxDone => IInv'
<1> SUFFICES ASSUME IInv, UTxDone PROVE IInv'
  OBVIOUS
<1> USE DEF IInv
<1>1. UNCHANGED <<port, held, lost, stopped>>
  BY DEF UTxDone, dVars
<1>2. Accounting' /\ PauseAgreement' /\ Hysteresis'
  BY <1>1 DEF Accounting, PauseAgreement, Hysteresis
<1>3. TypeOK'
  <2>1. qlen' \in Nat /\ wire' \in Nat
    <3>1. qlen \in Nat /\ wire \in Nat
      BY DEF TypeOK
    <3>2. CASE qlen > 0
      BY <3>1, <3>2 DEF UTxDone
    <3>3. CASE ~(qlen > 0)
      BY <3>1, <3>3 DEF UTxDone
    <3>4. QED
      BY <3>2, <3>3
  <2>2. blocked' \in BOOLEAN /\ intr' \in BOOLEAN /\ abort' \in BOOLEAN
    BY DEF UTxDone, TypeOK
  <2>3. QED
    BY <1>1, <2>1, <2>2 DEF TypeOK
<1>4. BlockedExactly'
  <2>1. intr /\ blocked /\ ~stopped
    BY DEF UTxDone, BlockedExactly
  <2>2. blocked' = intr'
    BY <2>1 DEF UTxDone
  <2>3. QED
    BY <1>1, <2>1, <2>2 DEF BlockedExactly
<1>5. NoAbort'
  BY DEF UTxDone, BlockedExactly, NoAbort
<1>6. QED
  BY <1>2, <1>3, <1>4, <1>5

(* A packet for D itself changes only the wire.                            *)
LEMMA DRecvLocalIInv == IInv /\ DRecvLocal => IInv'
  BY DEF IInv, DRecvLocal, uVars, dVars, TypeOK, Accounting, PauseAgreement,
         BlockedExactly, NoAbort, Hysteresis

(* A packet in transit: counted, perhaps uncounted again at once.          *)
LEMMA DRecvTransitIInv == IInv /\ DRecvTransit => IInv'
<1> SUFFICES ASSUME IInv, DRecvTransit PROVE IInv'
  OBVIOUS
<1> USE DEF IInv
<1>1. PICK dropped \in {0, 1}, sent \in {0, 1} :
        /\ dropped + sent <= held + 1
        /\ held' = held + 1 - dropped - sent
        /\ lost' = lost + dropped
        /\ port' = IF sent = 1 THEN Left(Arrived(port)) ELSE Arrived(port)
  BY DEF DRecvTransit
<1>2. /\ port \in Ports /\ stopped \in BOOLEAN /\ held \in Nat /\ lost \in Nat
      /\ Agree(port, stopped) /\ Calm(port) /\ port.cnt = held + lost
  BY DEF TypeOK, PauseAgreement, Hysteresis, Calm, Accounting
<1>3. /\ Arrived(port) \in Ports
      /\ Arrived(port).cnt = held + lost + 1
      /\ Agree(Arrived(port), stopped)
      /\ Calm(Arrived(port))
  BY <1>2, ArrivedPort
<1>4. /\ Left(Arrived(port)) \in Ports
      /\ Left(Arrived(port)).cnt = held + lost
      /\ Agree(Left(Arrived(port)), stopped)
      /\ Calm(Left(Arrived(port)))
  BY <1>2, <1>3, LeftPort
<1>5. /\ port' \in Ports
      /\ port'.cnt = held' + lost'
      /\ Agree(port', stopped)
      /\ Calm(port')
  BY <1>1, <1>2, <1>3, <1>4
<1>6. UNCHANGED <<uVars, stopped, abort>> /\ wire' \in Nat
  BY DEF DRecvTransit, TypeOK
<1>7. TypeOK'
  BY <1>1, <1>2, <1>5, <1>6 DEF TypeOK, uVars
<1>8. PauseAgreement' /\ Accounting' /\ Hysteresis'
  BY <1>5, <1>6 DEF PauseAgreement, Accounting, Hysteresis, Calm
<1>9. BlockedExactly' /\ NoAbort'
  BY <1>6 DEF BlockedExactly, NoAbort, uVars
<1>10. QED
  BY <1>7, <1>8, <1>9

(* A departure or a drop at D.                                             *)
LEMMA DServeIInv == IInv /\ DServe => IInv'
<1> SUFFICES ASSUME IInv, DServe PROVE IInv'
  OBVIOUS
<1> USE DEF IInv
<1>1. PICK dropped \in {0, 1}, sent \in {0, 1} :
        /\ dropped + sent <= held
        /\ held' = held - dropped - sent
        /\ lost' = lost + dropped
        /\ port' = IF sent = 1 THEN Left(port) ELSE port
  BY DEF DServe
<1>2. /\ port \in Ports /\ stopped \in BOOLEAN /\ held \in Nat /\ lost \in Nat
      /\ Agree(port, stopped) /\ Calm(port) /\ port.cnt = held + lost
  BY DEF TypeOK, PauseAgreement, Hysteresis, Calm, Accounting
<1>3. sent = 1 => /\ Left(port) \in Ports
                  /\ Left(port).cnt = held + lost - 1
                  /\ Agree(Left(port), stopped)
                  /\ Calm(Left(port))
  BY <1>1, <1>2, LeftPort
<1>4. /\ port' \in Ports
      /\ port'.cnt = held' + lost'
      /\ Agree(port', stopped)
      /\ Calm(port')
  BY <1>1, <1>2, <1>3
<1>5. UNCHANGED <<uVars, wire, stopped, abort>>
  BY DEF DServe
<1>6. TypeOK'
  BY <1>1, <1>2, <1>4, <1>5 DEF TypeOK, uVars
<1>7. PauseAgreement' /\ Accounting' /\ Hysteresis'
  BY <1>4, <1>5 DEF PauseAgreement, Accounting, Hysteresis, Calm
<1>8. BlockedExactly' /\ NoAbort'
  BY <1>5 DEF BlockedExactly, NoAbort, uVars
<1>9. QED
  BY <1>6, <1>7, <1>8

(* U processes a PAUSE.                                                    *)
LEMMA RecvPauseIInv == IInv /\ RecvPause => IInv'
<1> SUFFICES ASSUME IInv, RecvPause PROVE IInv'
  OBVIOUS
<1> USE DEF IInv
<1>1. /\ port \in Ports /\ stopped \in BOOLEAN /\ Agree(port, stopped)
      /\ port.ctl # <<>> /\ Head(port.ctl) = Frame(TRUE)
  BY DEF TypeOK, PauseAgreement, RecvPause, Frame
<1>2. port' = [port EXCEPT !.ctl = Tail(@)] /\ stopped' = TRUE
  BY DEF RecvPause
<1>3. port' \in Ports /\ Agree(port', TRUE)
  BY <1>1, <1>2, ReceiveKeepsAgreement
<1>4. port'.cnt = port.cnt /\ port'.paused = port.paused
  BY <1>1, <1>2 DEF Ports
<1>5. TypeOK'
  BY <1>3 DEF TypeOK, RecvPause
<1>6. PauseAgreement' /\ Accounting' /\ Hysteresis'
  BY <1>2, <1>3, <1>4 DEF PauseAgreement, Accounting, Hysteresis, Calm, RecvPause
<1>7. BlockedExactly' /\ NoAbort'
  BY DEF BlockedExactly, NoAbort, RecvPause
<1>8. QED
  BY <1>5, <1>6, <1>7

(* U processes a RESUME: it is stopped, so its queue is blocked.           *)
LEMMA RecvResumeIInv == IInv /\ RecvResume => IInv'
<1> SUFFICES ASSUME IInv, RecvResume PROVE IInv'
  OBVIOUS
<1> USE DEF IInv
<1>1. /\ port \in Ports /\ stopped \in BOOLEAN /\ Agree(port, stopped)
      /\ port.ctl # <<>> /\ Head(port.ctl) = Frame(FALSE)
  BY DEF TypeOK, PauseAgreement, RecvResume, Frame
<1>2. port' = [port EXCEPT !.ctl = Tail(@)] /\ stopped' = FALSE
  BY DEF RecvResume
<1>3. stopped /\ port' \in Ports /\ Agree(port', FALSE)
  BY <1>1, <1>2, ReceiveKeepsAgreement
<1>4. port'.cnt = port.cnt /\ port'.paused = port.paused
  BY <1>1, <1>2 DEF Ports
<1>5. blocked /\ ~intr
  BY <1>3 DEF BlockedExactly
<1>6. TypeOK'
  BY <1>3 DEF TypeOK, RecvResume
<1>7. PauseAgreement' /\ Accounting' /\ Hysteresis'
  BY <1>2, <1>3, <1>4 DEF PauseAgreement, Accounting, Hysteresis, Calm, RecvResume
<1>8. BlockedExactly' /\ NoAbort'
  BY <1>5 DEF BlockedExactly, NoAbort, RecvResume
<1>9. QED
  BY <1>6, <1>7, <1>8

(* Every step preserves the invariant.                                     *)
LEMMA NextIInv == IInv /\ [Next]_vars => IInv'
<1> SUFFICES ASSUME IInv, [Next]_vars PROVE IInv'
  OBVIOUS
<1>1. CASE UNCHANGED vars
  BY <1>1 DEF IInv, vars, TypeOK, Accounting, PauseAgreement, BlockedExactly,
              NoAbort, Hysteresis
<1>2. CASE URecv
  BY <1>2, URecvIInv
<1>3. CASE UTxDone
  BY <1>3, UTxDoneIInv
<1>4. CASE DRecvLocal
  BY <1>4, DRecvLocalIInv
<1>5. CASE DRecvTransit
  BY <1>5, DRecvTransitIInv
<1>6. CASE DServe
  BY <1>6, DServeIInv
<1>7. CASE RecvPause
  BY <1>7, RecvPauseIInv
<1>8. CASE RecvResume
  BY <1>8, RecvResumeIInv
<1>9. QED
  BY <1>1, <1>2, <1>3, <1>4, <1>5, <1>6, <1>7, <1>8 DEF Next

(* The invariant holds in every reachable state.                           *)
LEMMA SpecIInv == Spec => []IInv
  BY InitIInv, NextIInv, PTL DEF Spec

-----------------------------------------------------------------------------
(* Every reachable state is well typed.                                    *)
THEOREM TypeCorrect == Spec => []TypeOK
<1>1. IInv => TypeOK
  BY DEF IInv
<1>2. QED
  BY <1>1, SpecIInv, PTL

(* The assertion in recv and the check of the scheduler hold forever,      *)
(* whatever the thresholds.                                                *)
THEOREM NeverAborts == Spec => []NoAbort
<1>1. IInv => NoAbort
  BY DEF IInv
<1>2. QED
  BY <1>1, SpecIInv, PTL

(* D's paused_ flag and U's blocked_ flag agree up to the frames under way.*)
THEOREM PausesAgree == Spec => []PauseAgreement
<1>1. IInv => PauseAgreement
  BY DEF IInv
<1>2. QED
  BY <1>1, SpecIInv, PTL

(* The input counter is exact up to drops, so it never wraps.              *)
THEOREM CounterExact == Spec => []Accounting
<1>1. IInv => Accounting
  BY DEF IInv
<1>2. QED
  BY <1>1, SpecIInv, PTL

(* U's queue is blocked only for one of the two reasons, never for both.   *)
THEOREM BlockedForAReason == Spec => []BlockedExactly
<1>1. IInv => BlockedExactly
  BY DEF IInv
<1>2. QED
  BY <1>1, SpecIInv, PTL

(* No crossing of an ordered pair of thresholds goes unnoticed.            *)
THEOREM ThresholdsObeyed == Spec => []Hysteresis
<1>1. IInv => Hysteresis
  BY DEF IInv
<1>2. QED
  BY <1>1, SpecIInv, PTL

(* A paused port still has the packet whose departure resumes it.          *)
THEOREM PauseCanEnd == Spec => []ResumePending
<1>1. IInv => ResumePending
  BY PfcHopAssumption
     DEF IInv, TypeOK, Ports, Accounting, Hysteresis, Calm, ResumePending
<1>2. QED
  BY <1>1, SpecIInv, PTL

(* A stopped node sends nothing: a PAUSE takes effect at once and for good.*)
THEOREM StopIsStop == Spec => StoppedSendsNothing
<1>1. IInv /\ [Next]_vars => [stopped /\ stopped' => wire' <= wire]_vars
  <2> SUFFICES ASSUME IInv, [Next]_vars, stopped, stopped' PROVE wire' <= wire
    BY DEF vars
  <2>1. blocked /\ ~intr /\ wire \in Nat
    BY DEF IInv, BlockedExactly, TypeOK
  <2>2. ~UTxDone /\ ~RecvResume
    BY <2>1 DEF UTxDone, RecvResume
  <2>3. CASE URecv
    BY <2>1, <2>3 DEF URecv
  <2>4. CASE DRecvLocal \/ DRecvTransit
    BY <2>1, <2>4 DEF DRecvLocal, DRecvTransit
  <2>5. CASE DServe \/ RecvPause \/ UNCHANGED vars
    <3>1. wire' = wire
      BY <2>5 DEF DServe, RecvPause, vars
    <3>2. QED
      BY <2>1, <3>1
  <2>6. QED
    BY <2>2, <2>3, <2>4, <2>5 DEF Next
<1>2. QED
  BY <1>1, SpecIInv, PTL DEF Spec, StoppedSendsNothing
==============================================================================
