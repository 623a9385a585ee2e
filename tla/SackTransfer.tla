----------------------------- MODULE SackTransfer -----------------------------
(***************************************************************************)
(* One direction of an established SackFullTcpAgent or LosslessTcpAgent    *)
(* connection (tcp/tcp-full.cc): which bytes are sent when, from the       *)
(* application's advance_bytes to the last ACK.  iss_ is 0, so the data    *)
(* bytes are 1, 2, ...                                                     *)
(*                                                                         *)
(* The congestion window is any number of segments at any time: whatever   *)
(* slowdown, opencwnd and the DCTCP alpha make of it, the rest must cope.  *)
(* As the scripts configure it: nodelay_, bugFix_, no probe mode, no       *)
(* maxburst_, no send overhead, a huge wnd_, sack_rtx_threshmode_ 1 with a *)
(* threshold of one block.                                                 *)
(***************************************************************************)
EXTENDS SackEnds

CONSTANTS
  M,                  \* maxseg_, in bytes
  DupThr,             \* tcprexmtthresh_
  MaxWindow,          \* the largest congestion window, in segments
  Messages,           \* the sizes of the messages the application sends
  MaxBytes,           \* bound: bytes the application ever sends
  MaxFly,             \* bound: packets under way when the timer expires
  Modes               \* the kinds of connection, see below

ASSUME SackTransferAssumption ==
  /\ {M, DupThr, MaxWindow, MaxFly} \subseteq Nat \ {0}
  /\ MaxBytes \in Nat
  /\ Messages \subseteq Nat \ {0}
  /\ Modes \subseteq [lossless : BOOLEAN,  \* LosslessTcpAgent?
                      clear : BOOLEAN,     \* clear_on_timeout_
                      losses : Nat,        \* packets the network may lose
                      depth : Nat \ {0}]   \* 1: the network is FIFO

VARIABLES
  mode,
  snd,                \* the sender
  rcv,                \* the receiver's rq_
  data,               \* segments under way, oldest first
  acks,               \* ACKs under way, oldest first
  lost                \* the number of packets lost

vars == <<mode, snd, rcv, data, acks, lost>>

Largest(a, b)  == IF a > b THEN a ELSE b
Smallest(a, b) == IF a < b THEN a ELSE b

(* The state of a sender.  una highest_ack_, t t_seqno_, max maxseq_ (the    *)
(* next to be sent for the first time), cur curseq_, rec recover_,         *)
(* h h_seqno_, dup dupacks_, fast fastrecov_, pc pipectrl_, pipe pipe_,    *)
(* rtx: the retransmission timer is pending, board sq_; out collects what  *)
(* a handler sends.                                                        *)
(* This is the one after the handshake.                                    *)
Established ==
  [una |-> 1, t |-> 1, max |-> 1, cur |-> 0, rec |-> 0, h |-> -1, dup |-> 0,
   fast |-> FALSE, pc |-> FALSE, pipe |-> 0, rtx |-> FALSE,
   board |-> EmptyQueue(-1), out |-> <<>>]

Init ==
  /\ mode \in Modes
  /\ snd = Established
  /\ rcv = EmptyQueue(1)
  /\ data = <<>>
  /\ acks = <<>>
  /\ lost = 0

-----------------------------------------------------------------------------
(* Sending.  w is the congestion window of the moment.                     *)

(* datalen of foutput.                                                     *)
DataLen(s, seq, w) ==
  LET buffered == s.cur - s.una + 1
      room     == IF s.pc THEN buffered ELSE Smallest(buffered, w * M)
  IN  Largest(0, Smallest(M, room - (seq - s.una)))

(* foutput: what is not a full segment goes only at the end of the data or *)
(* as a retransmission.                                                    *)
Outputs(s, seq, w) ==
  LET n == DataLen(s, seq, w)
  IN  IF n > 0 /\ (n = M \/ seq + n > s.cur \/ seq < s.max) THEN n ELSE 0

Foutput(s, seq, w) ==
  LET n == Outputs(s, seq, w)
  IN  IF n = 0 THEN s
      ELSE [s EXCEPT !.max = Largest(@, seq + n), !.rtx = TRUE,
                     !.out = Append(@, [s |-> seq, e |-> seq + n])]

(* SackFullTcpAgent::nxt_tseq: the first hole at h_seqno_ or above that    *)
(* has a block behind it, to which h_seqno_ moves up; else what comes next *)
(* anyway.                                                                 *)
Hole(s) == NextHole(s.board, s.h)

InHole(s) == s.una < s.rec /\ Hole(s).hole > 0 /\ Hole(s).blks >= 1

NxtTseq(s) == IF InHole(s) THEN Hole(s).hole ELSE s.t

(* send_allowed: by the pipe, or by the window and what there is to send.  *)
(* topwin is curseq_, called "1 seq number past the last byte we can send" *)
(* where it is the last byte.                                              *)
SendAllowed(s, seq, w) ==
  IF s.pc THEN s.pipe < w * M ELSE seq < Smallest(s.cur, s.una + w * M)

(* SackFullTcpAgent::sent.                                                 *)
Sent(s, seq, n) ==
  [s EXCEPT !.h = IF seq = @ THEN @ + n ELSE @,
            !.t = IF seq = @ THEN @ + n ELSE @,
            !.pipe = @ + n]

(* One round of the loop in send_much.  h_seqno_ has moved up even where   *)
(* the round ends the loop: nothing is allowed or worth a segment.         *)
At(s) == IF InHole(s) THEN [s EXCEPT !.h = Largest(@, Hole(s).hole)] ELSE s

Goes(s, force, w) ==
  /\ force \/ SendAllowed(s, NxtTseq(s), w)
  /\ Outputs(s, NxtTseq(s), w) > 0

Round(s, w) ==
  LET seq == NxtTseq(s)
  IN  Sent(Foutput(At(s), seq, w), seq, Outputs(s, seq, w))

(* A byte that is not acknowledged is sent at most once at t_seqno_ and    *)
(* once at h_seqno_, so there are no more rounds than this.                *)
Rounds(s) == 2 * (s.cur + 1 - s.una)

(* send_much: after[n] is the sender n rounds later, or where the loop     *)
(* ended before.  Only the first round is forced.                          *)
SendMuch(s, force, w) ==
  LET after[n \in 0 .. Rounds(s)] ==
        IF n = 0 THEN s
        ELSE LET r == after[n - 1]
             IN  IF Goes(r, force /\ n = 1, w) THEN Round(r, w) ELSE r
  IN  At(after[Rounds(s)])

-----------------------------------------------------------------------------
(* Handlers of the sender.                                                 *)

(* Wrong on purpose: t_seqno_ is not moved up.                             *)
NewAckGoesBack(s, ackno) ==
  [s EXCEPT !.una = ackno, !.rtx = ackno # s.max]

(* Wrong on purpose: the timer is set again when all is acknowledged.      *)
NewAckSetsTimer(s, ackno) ==
  [s EXCEPT !.una = ackno, !.t = Largest(@, ackno), !.rtx = TRUE]

(* newack: the timer, highest_ack_ and t_seqno_.                           *)
NewAck(s, ackno) ==
  [s EXCEPT !.una = ackno, !.t = Largest(@, ackno), !.rtx = ackno # s.max]

(* pack_action and ack_action.                                             *)
PackAction(s) ==
  [s EXCEPT !.board = Acked(@, s.una), !.pipe = @ - M,
            !.h = Largest(@, s.una)]

(* Wrong on purpose: pipectrl_ stays.                                      *)
AckActionKeepsPipe(s) ==
  [s EXCEPT !.board = Acked(@, s.una), !.h = Largest(@, s.una),
            !.fast = FALSE, !.dup = 0]

AckAction(s) ==
  [s EXCEPT !.board = Acked(@, s.una), !.h = Largest(@, s.una),
            !.fast = FALSE, !.pc = FALSE, !.dup = 0]

(* Wrong on purpose: the ACK of everything sent does not force output.     *)
ProgressUnforced(s, ackno, w) ==
  LET new     == NewAck(s, ackno)
      partial == s.fast /\ ackno < s.rec
  IN  SendMuch(IF partial THEN PackAction(new) ELSE AckAction(new), FALSE, w)

(* An ACK that advances highest_ack_.                                      *)
Progress(s, ackno, w) ==
  LET new     == NewAck(s, ackno)
      partial == s.fast /\ ackno < s.rec
  IN  SendMuch(IF partial THEN PackAction(new) ELSE AckAction(new),
               ackno = s.max, w)

(* SackFullTcpAgent::dupack_action; ecn: the last action on the congestion *)
(* window was for an ECN mark.                                             *)
DupackAction(s, ecn, w) ==
  LET on  == [s EXCEPT !.fast = TRUE, !.pipe = s.max - s.una - s.board.total]
      rtx == [Foutput([on EXCEPT !.rtx = FALSE, !.rec = s.max], s.una, w)
                EXCEPT !.pc = TRUE]
      go  == [rtx EXCEPT !.h = s.una + Outputs(on, s.una, w)]
  IN  IF s.una > s.rec \/ ecn THEN SendMuch(go, FALSE, w) ELSE on

(* An ACK that does not.                                                   *)
Duplicate(s, ackno, ecn, w) ==
  IF ~s.rtx \/ ackno < s.una
  THEN SendMuch([s EXCEPT !.dup = 0], FALSE, w)
  ELSE LET more == [s EXCEPT !.dup = @ + 1]
       IN  IF more.dup = DupThr THEN DupackAction(more, ecn, w)
           ELSE SendMuch(more, FALSE, w)

(* The ESTABLISHED branch of recv for an ACK.                              *)
OnAck(s, a, ecn, w) ==
  LET told == [s EXCEPT !.board = ProcessSack(@, a.sack),
                        !.pipe = IF s.fast THEN @ - M ELSE @]
  IN  IF a.ackno > s.una THEN Progress(told, a.ackno, w)
      ELSE Duplicate(told, a.ackno, ecn, w)

(* Wrong on purpose: t_seqno_ is not restored.                             *)
TimeoutGoesBack(s) ==
  [s EXCEPT !.rec = s.max, !.fast = FALSE, !.dup = 0, !.rtx = TRUE,
            !.t = s.una,
            !.board = IF mode.clear THEN Cleared(s.una) ELSE @]

(* timeout_action of the two agents: the LosslessTcpAgent goes on where it *)
(* was instead of at highest_ack_.                                         *)
TimeoutAction(s) ==
  [s EXCEPT !.rec = s.max, !.fast = FALSE, !.dup = 0, !.rtx = TRUE,
            !.t = IF mode.lossless THEN @ ELSE s.una,
            !.board = IF mode.clear THEN Cleared(s.una) ELSE @]

(* A handler's outcome goes into effect, and what it sent under way.       *)
(* Without pipe control pipe_ is counted but set before it is read.        *)
Becomes(r) ==
  \E s \in {r} :
    /\ snd' = [s EXCEPT !.out = <<>>, !.pipe = IF s.pc THEN @ ELSE 0]
    /\ data' = data \o s.out

-----------------------------------------------------------------------------
(* advance_bytes on an established connection.                             *)
AdvanceBytes(nb, w) ==
  /\ snd.cur + nb <= MaxBytes
  /\ Becomes(SendMuch([snd EXCEPT !.cur = @ + nb], FALSE, w))
  /\ UNCHANGED <<mode, rcv, acks, lost>>

RecvData(k) ==
  /\ rcv' = Received(rcv, data[k].s, data[k].e)
  /\ data' = RemoveAt(data, k)
  /\ acks' = Append(acks, AckOf(rcv'))
  /\ UNCHANGED <<mode, snd, lost>>

RecvAck(k, ecn, w) ==
  /\ Becomes(OnAck(snd, acks[k], ecn, w))
  /\ acks' = RemoveAt(acks, k)
  /\ UNCHANGED <<mode, rcv, lost>>

(* timeout(TCP_TIMER_RTX), at any time: the timer may be far too short.    *)
TimerRuns == snd.rtx /\ Len(data) + Len(acks) < MaxFly

Timeout(w) ==
  /\ TimerRuns
  /\ Becomes(SendMuch(TimeoutAction(snd), TRUE, w))
  /\ UNCHANGED <<mode, rcv, acks, lost>>

LoseData(k) ==
  /\ lost < mode.losses
  /\ lost' = lost + 1
  /\ data' = RemoveAt(data, k)
  /\ UNCHANGED <<mode, snd, rcv, acks>>

LoseAck(k) ==
  /\ lost < mode.losses
  /\ lost' = lost + 1
  /\ acks' = RemoveAt(acks, k)
  /\ UNCHANGED <<mode, snd, rcv, data>>

(* The packets that may arrive next.                                       *)
Near(channel) == 1 .. Smallest(mode.depth, Len(channel))

Write  == \E nb \in Messages, w \in 1 .. MaxWindow : AdvanceBytes(nb, w)
Arrive == \E k \in Near(data) : RecvData(k)
Answer == \E k \in Near(acks), ecn \in BOOLEAN, w \in 1 .. MaxWindow :
            RecvAck(k, ecn, w)
Expire == \E w \in 1 .. MaxWindow : Timeout(w)
Lose   == (\E k \in DOMAIN data : LoseData(k))
            \/ (\E k \in DOMAIN acks : LoseAck(k))

Next == Write \/ Arrive \/ Answer \/ Expire \/ Lose

(* Packets that are not lost arrive, and a pending timer expires in the    *)
(* end: the scheduler dispatches every event.  Stated on what the steps of *)
(* Arrive, Answer and Expire alone do, because TLC is slow to find ENABLED *)
(* for handlers as long as these: only they take a packet out without      *)
(* losing it, and only Expire changes the sender alone without new data.   *)
Taken(channel) ==
  /\ \E k \in Near(channel) : channel' = RemoveAt(channel, k)
  /\ UNCHANGED lost

Expired == UNCHANGED <<rcv, acks, lost, snd.cur>>

ExpiryMatters ==
  TimerRuns /\ \E w \in 1 .. MaxWindow :
                 SendMuch(TimeoutAction(snd), TRUE, w) # snd

Fairness ==
  /\ WF_<<data, lost>>(Taken(data))
  /\ WF_<<acks, lost>>(Taken(acks))
  /\ <>[]ExpiryMatters => []<><<Expired>>_vars

Spec == Init /\ [][Next]_vars /\ Fairness

-----------------------------------------------------------------------------
Seqs == 0 .. MaxBytes + 1

TypeOK ==
  /\ mode \in Modes
  /\ snd.una \in Seqs /\ snd.t \in Seqs /\ snd.max \in Seqs /\ snd.rec \in Seqs
  /\ snd.cur \in 0 .. MaxBytes /\ snd.h \in Seqs \union {-1}
  /\ snd.dup \in Nat /\ snd.pipe \in Int /\ snd.out = <<>>
  /\ {snd.fast, snd.pc, snd.rtx} \subseteq BOOLEAN
  /\ WellFormed(snd.board) /\ WellFormed(rcv)
  /\ snd.una <= snd.t /\ snd.t <= snd.max /\ snd.max <= snd.cur + 1
  /\ \A k \in DOMAIN data : data[k].s < data[k].e /\ data[k].e <= snd.max
  /\ lost \in 0 .. mode.losses

(* The retransmission timer is pending exactly while something sent is not *)
(* acknowledged, through every cancel, set and reset of newack,            *)
(* dupack_action, timeout_action and foutput. It is all that gets a lost   *)
(* tail resent.                                                            *)
TimerExact == snd.rtx <=> snd.una < snd.max

(* Whatever ended the recovery (a full ACK, a timeout in the middle of it, *)
(* an old ACK), once all is acknowledged the sender is back under window   *)
(* control: pipectrl_ survives timeout_action, and pipe_ is meaningless.   *)
RecoveryEnds == snd.una = snd.max => ~snd.fast /\ ~snd.pc

(* A LosslessTcpAgent sends every byte once as long as the network neither *)
(* loses nor reorders, even if its timer expires all the time: what it has *)
(* instead of a longer timeout (timeout_action, "never retransmit").       *)
NeverResent ==
  [][mode.lossless /\ mode.losses = 0 /\ mode.depth = 1
       => \A k \in Len(data) + 1 .. Len(data') : data'[k].s >= snd.max]_vars

(* Every byte handed over reaches the other side and is acknowledged.      *)
WrittenIsDelivered ==
  \A b \in 1 .. MaxBytes : b <= snd.cur ~> b < snd.una

(* foutput counts on it that what a data segment carries "will be reliably *)
(* delivered".                                                             *)
SentIsDelivered ==
  \A b \in 1 .. MaxBytes : b < snd.max ~> b < rcv.nxt
==============================================================================
