-------------------------- MODULE SackTransferProofs --------------------------
(***************************************************************************)
(* Proofs about SackTransfer, for every segment size, window, number of    *)
(* bytes, duplicate threshold and kind of network.                         *)
(*                                                                         *)
(* Receiver, scoreboard and ACKs keep what ReassemblyProofs shows of them  *)
(* (Coherent) whatever is sent.  The sender's numbers, the timer and the   *)
(* recovery flags are one invariant of the sender, which a handler breaks  *)
(* and restores, and which each round of send_much keeps.                  *)
(***************************************************************************)
EXTENDS SackTransfer, ReassemblyProofs

-----------------------------------------------------------------------------
(* The inductive invariant.                                                *)

Senders ==
  [una : Nat, t : Nat, max : Nat, cur : Nat, rec : Nat, h : Int, dup : Nat,
   fast : BOOLEAN, pc : BOOLEAN, pipe : Int, rtx : BOOLEAN,
   board : RawQueues, out : Seq(Nodes)]

(* The sequence numbers of a sender: nothing is sent that was not written, *)
(* and h_seqno_, once set, is not below highest_ack_.                      *)
Numbers(r) ==
  /\ r.una <= r.t /\ r.t <= r.max /\ r.max <= r.cur + 1
  /\ r.rec <= r.max
  /\ r.h = -1 \/ (r.una <= r.h /\ r.h <= r.max)

(* The scoreboard is sound and holds only bytes that were sent.            *)
Scored(r) == r.board \in Boards(r.una) /\ Cover(ToSet(r.board.fifo)) \subseteq 0 .. r.max - 1

(* What is sent by a handler was sent.                                     *)
Emits(r) == \A k \in DOMAIN r.out : r.out[k].e <= r.max

(* The timer is exact, and recovery ends with the last ACK.                *)
Timed(r) ==
  /\ r.rtx <=> r.una < r.max
  /\ r.una = r.max => ~r.fast /\ ~r.pc

Sender(r) == r \in Senders /\ Numbers(r) /\ Scored(r) /\ Emits(r) /\ Timed(r)

Acks == [ackno : Nat, sack : Seq(Nodes)]

(* Both ends and what is between them.                                     *)
Connected ==
  /\ Coherent(rcv, ToSet(acks), snd.una, snd.board)
  /\ Arrived(rcv) \subseteq 0 .. snd.max - 1
  /\ data \in Seq(Nodes) /\ acks \in Seq(Acks)
  /\ \A k \in DOMAIN data : data[k].e <= snd.max

(* Segments that follow one another from byte a up to byte b.              *)
Run(q, a, b) ==
  /\ q = <<>> => a = b
  /\ q # <<>> => q[1].s = a /\ q[Len(q)].e = b
  /\ \A k \in 1 .. Len(q) - 1 : q[k].e = q[k + 1].s

(* ACKs each of which advances, from a up to b, and that have no blocks.   *)
Rising(q, a, b) ==
  /\ q = <<>> => a = b
  /\ q # <<>> => a < q[1].ackno /\ q[Len(q)].ackno = b
  /\ \A k \in 1 .. Len(q) - 1 : q[k].ackno < q[k + 1].ackno
  /\ \A k \in DOMAIN q : q[k].sack = <<>>

(* Where nothing is lost or reordered a LosslessTcpAgent is all in order.  *)
Tidy ==
  /\ snd.t = snd.max /\ snd.board.fifo = <<>> /\ rcv.fifo = <<>>
  /\ Run(data, rcv.nxt, snd.max)
  /\ Rising(acks, snd.una, rcv.nxt)

Reliable == mode.lossless /\ mode.losses = 0 /\ mode.depth = 1

IInv ==
  /\ mode \in Modes /\ lost \in 0 .. mode.losses
  /\ Sender(snd) /\ snd.cur <= MaxBytes /\ snd.out = <<>>
  /\ Connected
  /\ Reliable => Tidy

-----------------------------------------------------------------------------
(* Where the next segment starts.                                          *)

(* A hole that nxt_tseq takes lies at or above h_seqno_ and highest_ack_,  *)
(* and not above what was sent.                                            *)
LEMMA HoleFacts ==
  ASSUME NEW r \in Senders, Numbers(r), Scored(r), InHole(r)
  PROVE  /\ Hole(r).hole \in Nat /\ r.una <= Hole(r).hole /\ Hole(r).hole <= r.max
         /\ r.h <= Hole(r).hole
<1> DEFINE x == Hole(r).hole
           q == r.board.fifo
<1>1. /\ r.h \in Int /\ r.una \in Nat /\ r.max \in Nat /\ r.board \in RawQueues
      /\ Sound(r.board) /\ Cover(ToSet(q)) \subseteq 0 .. r.max - 1
  BY DEF Senders, Scored, Boards
<1>2. /\ Hole(r) = NextHole(r.board, r.h) /\ HoleExact(r.board, r.h)
      /\ NextHole(r.board, r.h).hole \in Int
  BY <1>1, NextHoleFacts DEF Hole
<1>3. x > 0
  BY DEF InHole
<1>4. Bytes(q) = Cover(ToSet(q))
  BY <1>1, BytesAreCover
<1>5. /\ x >= r.h /\ x \notin Cover(ToSet(q))
      /\ r.h .. x - 1 \subseteq Cover(ToSet(q))
  <2>1. CASE \E b \in ToSet(q) : b.e >= r.h
    BY <1>2, <1>4, <2>1 DEF HoleExact
  <2>2. CASE ~\E b \in ToSet(q) : b.e >= r.h
    <3>1. x = -1
      BY <1>2, <2>2 DEF HoleExact
    <3> QED
      BY <1>3, <3>1
  <2> QED
    BY <2>1, <2>2
<1>6. x \in Int
  BY <1>2
<1> HIDE DEF x
<1>7. r.h # -1
  <2>1. SUFFICES ASSUME r.h = -1 PROVE FALSE
    OBVIOUS
  <2>2. -1 \in r.h .. x - 1
    BY <1>3, <1>6, <2>1
  <2>3. -1 \in 0 .. r.max - 1
    BY <1>1, <1>5, <2>2
  <2> QED
    BY <1>1, <2>3
<1>8. r.una <= r.h /\ r.h <= r.max
  BY <1>7 DEF Numbers
<1>9. x <= r.max
  <2>1. CASE x = r.h
    BY <1>8, <2>1
  <2>2. CASE x # r.h
    <3>1. x - 1 \in r.h .. x - 1
      BY <1>1, <1>5, <1>6, <2>2
    <3>2. x - 1 \in 0 .. r.max - 1
      BY <1>1, <1>5, <3>1
    <3> QED
      BY <1>1, <1>6, <3>2
  <2> QED
    BY <2>1, <2>2
<1> QED
  BY <1>1, <1>3, <1>5, <1>6, <1>8, <1>9 DEF x

(* A window of some segments holds some bytes.                             *)
LEMMA ProductPositive ==
  ASSUME NEW i \in Nat, i > 0, NEW k \in Nat, k > 0
  PROVE  i * k \in Nat /\ i * k > 0
<1> DEFINE T == {n \in Nat : n * k \in Nat /\ (n > 0 => n * k > 0)}
<1>1. 0 \in T
  BY SMT
<1>2. \A n \in 1 .. i : n - 1 \in T => n \in T
  <2>1. ASSUME NEW n \in 1 .. i, n - 1 \in T PROVE n \in T
    <3>1. n - 1 \in Nat /\ (n - 1) * k \in Nat /\ n * k = (n - 1) * k + k
      BY <2>1
    <3> QED
      BY <3>1
  <2> QED
    BY <2>1
<1>3. i \in 0 .. i
  OBVIOUS
<1> HIDE DEF T
<1>4. i \in T
  BY <1>1, <1>2, <1>3, InductionTo
<1> QED
  BY <1>4 DEF T

(* What nxt_tseq returns, and what becomes of h_seqno_.                    *)
LEMMA NxtFacts ==
  ASSUME NEW r \in Senders, Numbers(r), Scored(r)
  PROVE  /\ NxtTseq(r) \in Nat /\ r.una <= NxtTseq(r) /\ NxtTseq(r) <= r.max
         /\ InHole(r) => At(r) = [r EXCEPT !.h = NxtTseq(r)] /\ r.h <= NxtTseq(r)
         /\ ~InHole(r) => At(r) = r /\ NxtTseq(r) = r.t
<1>1. /\ r.una \in Nat /\ r.t \in Nat /\ r.max \in Nat /\ r.h \in Int
      /\ r.una <= r.t /\ r.t <= r.max
  BY DEF Senders, Numbers
<1>2. CASE InHole(r)
  <2>1. /\ Hole(r).hole \in Nat /\ r.una <= Hole(r).hole /\ Hole(r).hole <= r.max
        /\ r.h <= Hole(r).hole
    BY <1>2, HoleFacts
  <2>2. NxtTseq(r) = Hole(r).hole
    BY <1>2 DEF NxtTseq
  <2>3. Largest(r.h, Hole(r).hole) = Hole(r).hole
    BY <1>1, <2>1 DEF Largest
  <2>4. At(r) = [r EXCEPT !.h = Hole(r).hole]
    BY <1>2, <2>3 DEF At
  <2> QED
    BY <1>2, <2>1, <2>2, <2>4
<1>3. CASE ~InHole(r)
  BY <1>1, <1>3 DEF NxtTseq, At
<1> QED
  BY <1>2, <1>3

(* Of data that is not written, nothing is sent; what is retransmitted is  *)
(* sent however short.                                                     *)
LEMMA OutputsFacts ==
  ASSUME NEW r \in Senders, Numbers(r), NEW seq \in Nat, r.una <= seq,
         NEW w \in 1 .. MaxWindow
  PROVE  /\ Outputs(r, seq, w) \in Nat
         /\ Outputs(r, seq, w) > 0 => seq + Outputs(r, seq, w) <= r.cur + 1
         /\ seq = r.una /\ r.una < r.max => Outputs(r, seq, w) > 0
<1> DEFINE buffered == r.cur - r.una + 1
           room == IF r.pc THEN buffered ELSE Smallest(buffered, w * M)
           left == room - (seq - r.una)
           n == DataLen(r, seq, w)
<1>1. /\ r.una \in Nat /\ r.max \in Nat /\ r.cur \in Nat /\ r.pc \in BOOLEAN
      /\ M \in Nat /\ M > 0 /\ w \in Nat /\ w > 0
      /\ r.una <= r.max /\ r.max <= r.cur + 1
  BY SackTransferAssumption DEF Senders, Numbers
<1>2. n = Largest(0, Smallest(M, left))
  BY DEF DataLen
<1>3. w * M \in Nat /\ w * M > 0
  BY <1>1, ProductPositive
<1>4. /\ room \in Int /\ room <= buffered /\ buffered \in Int
      /\ r.una < r.max => room > 0
  BY <1>1, <1>3 DEF Smallest
<1> HIDE DEF room
<1>5. n \in Nat /\ n <= M /\ (n > 0 => n <= left) /\ (left > 0 => n > 0)
  BY <1>1, <1>2, <1>4 DEF Largest, Smallest
<1>6. Outputs(r, seq, w)
        = IF n > 0 /\ (n = M \/ seq + n > r.cur \/ seq < r.max) THEN n ELSE 0
  BY DEF Outputs
<1> HIDE DEF n
<1> QED
  BY <1>1, <1>4, <1>5, <1>6

-----------------------------------------------------------------------------
(* Sending.                                                                *)

(* What the sender knows of the receiver, and how it stands, is the same.  *)
Same(r, x) ==
  /\ x.una = r.una /\ x.cur = r.cur /\ x.rec = r.rec /\ x.dup = r.dup
  /\ x.fast = r.fast /\ x.pc = r.pc /\ x.board = r.board

(* foutput of a segment of n bytes from seq.                               *)
Puts(r, x, seq, n) ==
  /\ x \in Senders /\ Same(r, x) /\ x.t = r.t /\ x.h = r.h /\ x.pipe = r.pipe
  /\ x.max = Largest(r.max, seq + n)
  /\ x.rtx /\ x.out = Append(r.out, Block(seq, seq + n))

LEMMA FoutputFacts ==
  ASSUME NEW r \in Senders, Numbers(r), NEW seq \in Nat, r.una <= seq,
         NEW w \in 1 .. MaxWindow, Outputs(r, seq, w) > 0
  PROVE  Puts(r, Foutput(r, seq, w), seq, Outputs(r, seq, w))
<1> DEFINE n == Outputs(r, seq, w)
           x == Foutput(r, seq, w)
<1>1. n \in Nat /\ n > 0
  BY OutputsFacts
<1>2. x = [r EXCEPT !.max = Largest(@, seq + n), !.rtx = TRUE,
                    !.out = Append(@, [s |-> seq, e |-> seq + n])]
  BY <1>1 DEF Foutput
<1> HIDE DEF n, x
<1>3. Block(seq, seq + n) = [s |-> seq, e |-> seq + n] /\ Block(seq, seq + n) \in Nodes
  BY <1>1 DEF Block, Nodes
<1>4. r.max \in Nat /\ r.out \in Seq(Nodes)
  BY DEF Senders
<1>5. Largest(r.max, seq + n) \in Nat /\ Append(r.out, Block(seq, seq + n)) \in Seq(Nodes)
  BY <1>1, <1>3, <1>4, AppendProperties DEF Largest
<1> HIDE DEF Numbers
<1>6. Puts(r, x, seq, n)
  BY <1>2, <1>3, <1>5 DEF Puts, Same, Senders
<1> QED
  BY <1>6 DEF n, x

(* Each segment that is put out keeps what was sent within max.            *)
LEMMA PutsEmits ==
  ASSUME NEW r \in Senders, Emits(r), NEW x, NEW seq \in Nat, NEW n \in Nat, n > 0,
         Puts(r, x, seq, n)
  PROVE  /\ Emits(x) /\ x.max \in Nat /\ r.max <= x.max /\ seq + n <= x.max
         /\ x.max = r.max \/ x.max = seq + n
<1> DEFINE b == Block(seq, seq + n)
<1>1. /\ r.max \in Nat /\ r.out \in Seq(Nodes) /\ Len(r.out) \in Nat
      /\ \A k \in 1 .. Len(r.out) : r.out[k] \in Nodes
      /\ DOMAIN r.out = 1 .. Len(r.out)
  <2>1. r.max \in Nat /\ r.out \in Seq(Nodes)
    BY DEF Senders
  <2> QED
    BY <2>1, ElementsFacts
<1>2. b \in Nodes /\ b.e = seq + n
  BY DEF Block, Nodes
<1>3. x.max = Largest(r.max, seq + n) /\ x.out = Append(r.out, b)
  BY DEF Puts
<1>4. /\ x.max \in Nat /\ r.max <= x.max /\ seq + n <= x.max
      /\ x.max = r.max \/ x.max = seq + n
  BY <1>1, <1>3 DEF Largest
<1> HIDE DEF b
<1>5. /\ DOMAIN x.out = 1 .. Len(r.out) + 1
      /\ \A k \in 1 .. Len(r.out) : x.out[k] = r.out[k]
      /\ x.out[Len(r.out) + 1] = b
  <2>1. /\ x.out \in Seq(Nodes) /\ Len(x.out) = Len(r.out) + 1
        /\ \A k \in 1 .. Len(r.out) : x.out[k] = r.out[k]
        /\ x.out[Len(r.out) + 1] = b
    BY <1>1, <1>2, <1>3, AppendProperties
  <2> QED
    BY <2>1, LenProperties
<1>6. ASSUME NEW k \in DOMAIN x.out PROVE x.out[k].e <= x.max
  <2>1. CASE k \in 1 .. Len(r.out)
    <3>1. r.out[k].e <= r.max /\ r.out[k].e \in Nat
      BY <1>1, <2>1 DEF Emits, Nodes
    <3> QED
      BY <1>1, <1>4, <1>5, <2>1, <3>1
  <2>2. CASE k = Len(r.out) + 1
    BY <1>2, <1>4, <1>5, <2>2
  <2> QED
    BY <1>1, <1>5, <2>1, <2>2
<1> QED
  BY <1>4, <1>6 DEF Emits

(* A round of send_much sends what comes next, and moves t_seqno_ or       *)
(* h_seqno_ behind it.                                                     *)
Sends(r, x, seq, n) ==
  /\ Same(r, x) /\ x.out = Append(r.out, Block(seq, seq + n))
  /\ x.t = IF seq = r.t THEN r.t + n ELSE r.t
  /\ x.h = IF InHole(r) \/ seq = r.h THEN seq + n ELSE r.h
  /\ InHole(r) \/ seq = r.t
  /\ x.max = Largest(r.max, seq + n)

LEMMA RoundFacts ==
  ASSUME NEW r, Sender(r), NEW w \in 1 .. MaxWindow,
         Outputs(r, NxtTseq(r), w) > 0
  PROVE  /\ Sender(Round(r, w))
         /\ Sends(r, Round(r, w), NxtTseq(r), Outputs(r, NxtTseq(r), w))
<1> DEFINE seq == NxtTseq(r)
           n == Outputs(r, seq, w)
           a == At(r)
           f == Foutput(a, seq, w)
           x == Round(r, w)
<1>1. /\ r \in Senders /\ Numbers(r) /\ Scored(r) /\ Emits(r) /\ Timed(r)
      /\ r.una \in Nat /\ r.t \in Nat /\ r.max \in Nat /\ r.cur \in Nat /\ r.rec \in Nat
      /\ r.h \in Int /\ r.pipe \in Int
  BY DEF Sender, Senders
<1>2. /\ seq \in Nat /\ r.una <= seq /\ seq <= r.max
      /\ InHole(r) => a = [r EXCEPT !.h = seq] /\ r.h <= seq
      /\ ~InHole(r) => a = r /\ seq = r.t
  BY <1>1, NxtFacts
<1>3. n \in Nat /\ n > 0 /\ seq + n <= r.cur + 1
  BY <1>1, <1>2, OutputsFacts
<1>4. x = Sent(f, seq, n)
  BY DEF Round
<1> HIDE DEF a, seq
<1>5. /\ a \in Senders /\ Same(r, a) /\ a.t = r.t /\ a.max = r.max /\ a.out = r.out
      /\ a.pipe = r.pipe /\ a.h = IF InHole(r) THEN seq ELSE r.h
  <2>1. CASE InHole(r)
    BY <1>1, <1>2, <2>1 DEF Senders, Same
  <2>2. CASE ~InHole(r)
    BY <1>1, <1>2, <2>2 DEF Senders, Same
  <2> QED
    BY <2>1, <2>2
<1>6. Outputs(a, seq, w) = n
  BY <1>5 DEF Outputs, DataLen, Same
<1>7. Numbers(a) /\ a.una <= seq /\ Emits(a)
  BY <1>1, <1>2, <1>5 DEF Numbers, Same, Emits
<1> HIDE DEF n, f, x
<1>8. Puts(a, f, seq, n)
  BY <1>2, <1>3, <1>5, <1>6, <1>7, FoutputFacts DEF f
<1>9. /\ Emits(f) /\ f.max \in Nat /\ r.max <= f.max /\ seq + n <= f.max
      /\ f.max = r.max \/ f.max = seq + n
  <2>1. /\ Emits(f) /\ f.max \in Nat /\ a.max <= f.max /\ seq + n <= f.max
        /\ f.max = a.max \/ f.max = seq + n
    BY <1>2, <1>3, <1>5, <1>7, <1>8, PutsEmits
  <2> QED
    BY <1>5, <2>1
<1>10. /\ f \in Senders /\ Same(r, f) /\ f.t = r.t /\ f.rtx
       /\ f.h = IF InHole(r) THEN seq ELSE r.h
       /\ f.out = Append(r.out, Block(seq, seq + n))
       /\ f.max = Largest(r.max, seq + n)
  BY <1>5, <1>8 DEF Puts, Same
<1> DEFINE hh == IF seq = f.h THEN f.h + n ELSE f.h
           tt == IF seq = f.t THEN f.t + n ELSE f.t
           pp == f.pipe + n
<1>11. x = [f EXCEPT !.h = hh, !.t = tt, !.pipe = pp]
  BY <1>4 DEF Sent
<1>12. hh \in Int /\ tt \in Nat /\ pp \in Int
  <2>1. f.h \in Int /\ f.t \in Nat /\ f.pipe \in Int
    BY <1>10 DEF Senders
  <2> QED
    BY <1>3, <2>1
<1> HIDE DEF hh, tt, pp
<1>13. /\ x.h = hh /\ x.t = tt
       /\ x \in Senders /\ x.una = f.una /\ x.cur = f.cur /\ x.rec = f.rec
       /\ x.dup = f.dup /\ x.fast = f.fast /\ x.pc = f.pc /\ x.board = f.board
       /\ x.max = f.max /\ x.out = f.out /\ x.rtx = f.rtx
  BY <1>10, <1>11, <1>12 DEF Senders
<1>14. Same(r, x)
  BY <1>10, <1>13 DEF Same
<1>15. x.t = IF seq = r.t THEN r.t + n ELSE r.t
  BY <1>10, <1>13 DEF tt
<1>16. x.h = IF InHole(r) \/ seq = r.h THEN seq + n ELSE r.h
  BY <1>10, <1>13 DEF hh
<1>17. Sends(r, x, seq, n)
  BY <1>2, <1>10, <1>13, <1>14, <1>15, <1>16 DEF Sends
<1>18. Numbers(x)
  <2>1. x.una = r.una /\ x.cur = r.cur /\ x.rec = r.rec /\ x.max = f.max
    BY <1>13, <1>14 DEF Same
  <2>2. r.una <= r.t /\ r.t <= r.max /\ r.max <= r.cur + 1 /\ r.rec <= r.max
    BY <1>1 DEF Numbers
  <2>3. x.una <= x.t /\ x.t <= x.max
    BY <1>1, <1>2, <1>3, <1>9, <1>15, <2>1, <2>2
  <2>4. x.max <= x.cur + 1 /\ x.rec <= x.max
    BY <1>1, <1>3, <1>9, <2>1, <2>2
  <2>5. x.h = -1 \/ (x.una <= x.h /\ x.h <= x.max)
    <3>1. CASE InHole(r) \/ seq = r.h
      BY <1>1, <1>2, <1>3, <1>9, <1>16, <2>1, <3>1
    <3>2. CASE ~(InHole(r) \/ seq = r.h)
      BY <1>1, <1>9, <1>16, <2>1, <3>2 DEF Numbers
    <3> QED
      BY <3>1, <3>2
  <2> QED
    BY <2>3, <2>4, <2>5 DEF Numbers
<1>19. Scored(x)
  <2>1. x.una = r.una /\ x.board = r.board /\ x.max = f.max
    BY <1>13, <1>14 DEF Same
  <2>2. 0 .. r.max - 1 \subseteq 0 .. x.max - 1
    BY <1>1, <1>9, <2>1
  <2> QED
    BY <1>1, <2>1, <2>2 DEF Scored
<1>20. Emits(x)
  BY <1>9, <1>13 DEF Emits
<1>21. Timed(x)
  <2>1. x.una = r.una /\ x.max = f.max /\ x.rtx
    BY <1>10, <1>13, <1>14 DEF Same
  <2>2. x.una < x.max
    BY <1>1, <1>2, <1>3, <1>9, <2>1
  <2> QED
    BY <1>1, <1>9, <2>1, <2>2 DEF Timed
<1> QED
  BY <1>13, <1>17, <1>18, <1>19, <1>20, <1>21 DEF Sender, n, x, seq

-----------------------------------------------------------------------------
(* The loop of send_much.                                                  *)

(* A round starts and ends in S.                                           *)
Closed(S, w) == \A r \in S : \A f \in BOOLEAN : Goes(r, f, w) => Round(r, w) \in S

(* h[i] is the sender after i rounds, or where the loop ended before.      *)
Takes(h, s, force, w) ==
  /\ h[0] = s
  /\ \A i \in 1 .. Rounds(s) :
       /\ Goes(h[i - 1], force /\ i = 1, w) => h[i] = Round(h[i - 1], w)
       /\ ~Goes(h[i - 1], force /\ i = 1, w) => h[i] = h[i - 1]

(* There are such rounds, and send_much ends with the last of them.        *)
LEMMA SendMuchSteps ==
  ASSUME NEW S, NEW s \in S, NEW force \in BOOLEAN, NEW w,
         Rounds(s) \in Nat, Closed(S, w)
  PROVE  \E h \in [0 .. Rounds(s) -> S] :
           Takes(h, s, force, w) /\ SendMuch(s, force, w) = At(h[Rounds(s)])
<1> DEFINE k == Rounds(s)
           Step(i, r) == IF Goes(r, force /\ i = 1, w) THEN Round(r, w) ELSE r
           F == [i \in 1 .. k |-> [r \in S |-> Step(i, r)]]
           Body(f) == [i \in 0 .. k |-> IF i = 0 THEN s ELSE Step(i, f[i - 1])]
           after == CHOOSE f : f = Body(f)
<1>1. k \in Nat
  OBVIOUS
<1>2. \A i \in 1 .. k : \A r \in S : Step(i, r) \in S
  BY DEF Closed
<1>3. F \in [1 .. k -> [S -> S]]
  BY <1>2
<1>4. \A i \in 1 .. k : \A r \in S : F[i][r] = Step(i, r)
  OBVIOUS
<1> HIDE DEF F, Step
<1>5. PICK h \in [0 .. k -> S] : Records(h, F, s, k)
  <2> HIDE DEF k
  <2> QED
    BY <1>1, <1>3, Iteration
<1>6. h[0] = s /\ \A i \in 1 .. k : h[i] = Step(i, h[i - 1])
  <2>1. ASSUME NEW i \in 1 .. k PROVE h[i] = Step(i, h[i - 1])
    <3>1. i - 1 \in 0 .. k
      BY <1>1
    <3>2. h[i - 1] \in S /\ h[i] = F[i][h[i - 1]]
      BY <1>5, <3>1 DEF Records
    <3> QED
      BY <1>4, <3>2
  <2> QED
    BY <1>5, <2>1 DEF Records
<1>7. SendMuch(s, force, w) = At(after[k])
  BY DEF SendMuch, Step
<1>8. h = Body(h)
  <2>1. \A i \in 0 .. k : h[i] = IF i = 0 THEN s ELSE Step(i, h[i - 1])
    BY <1>1, <1>6
  <2> HIDE DEF k
  <2> QED
    BY <2>1
<1>9. after = Body(after)
  BY <1>8
<1> HIDE DEF after
<1>10. after[0] = s /\ \A i \in 1 .. k : after[i] = Step(i, after[i - 1])
  <2>1. \A i \in 0 .. k : after[i] = Body(after)[i]
    BY <1>9
  <2>2. 0 \in 0 .. k /\ \A i \in 1 .. k : i \in 0 .. k /\ i # 0
    BY <1>1
  <2> HIDE DEF k
  <2> QED
    BY <2>1, <2>2
<1>11. \A i \in 0 .. k : after[i] = h[i]
  <2>1. InStep(after, h, k)
    BY <1>6, <1>10 DEF InStep
  <2> HIDE DEF k
  <2> QED
    BY <1>1, <2>1, Agreement
<1>12. k \in 0 .. k
  BY <1>1
<1>13. Takes(h, s, force, w)
  BY <1>6 DEF Takes, Step
<1> QED
  BY <1>7, <1>11, <1>12, <1>13

(* nxt_tseq moves h_seqno_ up, and nothing else.                           *)
LEMMA AtFacts ==
  ASSUME NEW r, Sender(r)
  PROVE  /\ Sender(At(r)) /\ Same(r, At(r)) /\ At(r).t = r.t /\ At(r).max = r.max
         /\ At(r).out = r.out /\ At(r).pipe = r.pipe
<1> DEFINE a == At(r)
           seq == NxtTseq(r)
<1>1. /\ r \in Senders /\ Numbers(r) /\ Scored(r) /\ Emits(r) /\ Timed(r)
  BY DEF Sender
<1>2. /\ seq \in Nat /\ r.una <= seq /\ seq <= r.max
      /\ InHole(r) => a = [r EXCEPT !.h = seq]
      /\ ~InHole(r) => a = r
  BY <1>1, NxtFacts
<1> HIDE DEF a, seq
<1>3. CASE InHole(r)
  <2>1. /\ a \in Senders /\ Same(r, a) /\ a.t = r.t /\ a.max = r.max /\ a.out = r.out
        /\ a.h = seq /\ a.rtx = r.rtx /\ a.pipe = r.pipe
    BY <1>1, <1>2, <1>3 DEF Senders, Same
  <2>2. Numbers(a)
    BY <1>1, <1>2, <2>1 DEF Numbers, Same
  <2>3. Scored(a) /\ Emits(a) /\ Timed(a)
    BY <1>1, <2>1 DEF Scored, Emits, Timed, Same
  <2> QED
    BY <2>1, <2>2, <2>3 DEF Sender, a
<1>4. CASE ~InHole(r)
  BY <1>2, <1>4 DEF Same, a
<1> QED
  BY <1>3, <1>4

LEMMA SameTrans ==
  ASSUME NEW r, NEW x, NEW y, Same(r, x), Same(x, y)
  PROVE  Same(r, y)
BY DEF Same

(* There are enough rounds to start with.                                  *)
LEMMA RoundsNat ==
  ASSUME NEW s, Sender(s)
  PROVE  Rounds(s) \in Nat
<1>1. s.una \in Nat /\ s.cur \in Nat /\ s.una <= s.cur + 1
  <2>1. s.una \in Nat /\ s.t \in Nat /\ s.max \in Nat /\ s.cur \in Nat
    BY DEF Sender, Senders
  <2> QED
    BY <2>1 DEF Sender, Numbers
<1> QED
  BY <1>1 DEF Rounds

(* send_much keeps a sender sound.                                         *)
LEMMA SendMuchFacts ==
  ASSUME NEW s, Sender(s), NEW force \in BOOLEAN, NEW w \in 1 .. MaxWindow
  PROVE  /\ Sender(SendMuch(s, force, w)) /\ Same(s, SendMuch(s, force, w))
         /\ s.max <= SendMuch(s, force, w).max
<1> DEFINE S == {r \in Senders : Sender(r) /\ Same(s, r) /\ s.max <= r.max}
<1>1. s \in S
  <2>1. s \in Senders /\ s.max \in Nat
    BY DEF Sender, Senders
  <2>2. s.max <= s.max
    BY <2>1
  <2> QED
    BY <2>1, <2>2 DEF Same
<1>2. ASSUME NEW r \in S, NEW f \in BOOLEAN, Goes(r, f, w)
      PROVE  Round(r, w) \in S
  <2> DEFINE seq == NxtTseq(r)
             n == Outputs(r, seq, w)
             x == Round(r, w)
  <2>1. Sender(r) /\ Same(s, r) /\ s.max <= r.max /\ n > 0
    BY <1>2 DEF Goes
  <2>2. Sender(x) /\ Sends(r, x, seq, n)
    BY <2>1, RoundFacts
  <2>3. seq \in Nat /\ n \in Nat /\ r.max \in Nat /\ s.max \in Nat
    <3>1. r \in Senders /\ Numbers(r) /\ Scored(r) /\ s \in Senders
      BY <2>1 DEF Sender
    <3>2. seq \in Nat /\ r.una <= seq
      BY <3>1, NxtFacts
    <3> HIDE DEF seq
    <3>3. n \in Nat
      BY <3>1, <3>2, OutputsFacts
    <3> QED
      BY <3>1, <3>2, <3>3 DEF Senders
  <2> HIDE DEF seq, n, x
  <2>4. Same(r, x) /\ x.max = Largest(r.max, seq + n)
    BY <2>2 DEF Sends
  <2>5. s.max <= x.max
    BY <2>1, <2>3, <2>4 DEF Largest
  <2>6. Same(s, x)
    BY <2>1, <2>4, SameTrans
  <2> QED
    BY <2>2, <2>5, <2>6 DEF x, Sender
<1>3. Closed(S, w)
  BY <1>2 DEF Closed
<1> DEFINE k == Rounds(s)
<1>4. k \in Nat /\ k \in 0 .. k
  BY RoundsNat
<1> HIDE DEF S, k
<1>5. PICK h \in [0 .. k -> S] :
           Takes(h, s, force, w) /\ SendMuch(s, force, w) = At(h[k])
  BY <1>1, <1>3, <1>4, SendMuchSteps DEF k
<1>6. h[k] \in S
  BY <1>4, <1>5
<1>7. Sender(h[k]) /\ Same(s, h[k]) /\ s.max <= h[k].max
  BY <1>6 DEF S
<1>8. /\ Sender(At(h[k])) /\ Same(h[k], At(h[k])) /\ At(h[k]).max = h[k].max
  BY <1>7, AtFacts
<1> QED
  BY <1>5, <1>7, <1>8, SameTrans

(* Where h_seqno_ has moved, nxt_tseq finds the same hole again.           *)
LEMMA AtStays ==
  ASSUME NEW r, Sender(r)
  PROVE  NxtTseq(At(r)) = NxtTseq(r)
<1> DEFINE a == At(r)
           x == NxtTseq(r)
           q == r.board.fifo
           H == NextHole(r.board, x)
           G == Hole(r)
           above(h) == Only(q, {b \in ToSet(q) : b.s > h})
<1>1. /\ r \in Senders /\ Numbers(r) /\ Scored(r) /\ Sound(r.board)
      /\ r.h \in Int /\ r.board \in RawQueues
  BY DEF Sender, Senders, Scored, Boards
<1>2. CASE ~InHole(r)
  BY <1>1, <1>2, NxtFacts
<1>3. CASE InHole(r)
  <2>1. a = [r EXCEPT !.h = x] /\ x \in Nat
    BY <1>1, <1>3, NxtFacts
  <2>2. G.hole = x /\ G.blks >= 1 /\ r.una < r.rec
    BY <1>3 DEF InHole, NxtTseq
  <2>3. HoleExact(r.board, r.h) /\ G = NextHole(r.board, r.h)
    BY <1>1, NextHoleFacts DEF Hole
  <2>4. HoleExact(r.board, x) /\ H.hole \in Int
    BY <1>1, <2>1, NextHoleFacts
  <2> HIDE DEF a, x, G, H
  <2>5. \E b \in ToSet(q) : b.e >= r.h
    <3>1. SUFFICES ASSUME ~\E b \in ToSet(q) : b.e >= r.h PROVE FALSE
      OBVIOUS
    <3>2. G.hole = -1
      BY <2>3, <3>1 DEF HoleExact
    <3> QED
      BY <2>1, <2>2, <3>2
  <2>6. /\ x \notin Bytes(q)
        /\ G.blks = IF above(x) = <<>> THEN -1 ELSE Len(above(x))
    BY <2>2, <2>3, <2>5 DEF HoleExact
  <2>7. above(x) # <<>>
    BY <2>2, <2>6
  <2>8. \E b \in ToSet(q) : b.e >= x
    <3>1. /\ q \in Seq(Nodes) /\ Ordered(q) /\ ToSet(q) \subseteq Nodes
      BY <1>1, ListsFacts DEF Sound, Lists
    <3> DEFINE B == {b \in ToSet(q) : b.s > x}
    <3>2. B \subseteq ToSet(q)
      OBVIOUS
    <3>3. above(x) = Only(q, B)
      OBVIOUS
    <3> HIDE DEF B, above
    <3>4. above(x) \in Seq(Nodes) /\ ToSet(above(x)) = B
      BY <3>1, <3>2, <3>3, OnlyFacts
    <3>5. B # {}
      BY <2>7, <3>4, ElementsFacts
    <3>6. PICK b \in ToSet(q) : b.s > x
      BY <3>5 DEF B
    <3>7. b.s \in Nat /\ b.e \in Nat /\ b.s < b.e
      BY <3>1 DEF Nodes
    <3> QED
      BY <2>1, <3>6, <3>7
  <2>9. /\ H.hole >= x /\ H.hole \notin Bytes(q) /\ x .. H.hole - 1 \subseteq Bytes(q)
        /\ H.blks = IF above(H.hole) = <<>> THEN -1 ELSE Len(above(H.hole))
    BY <2>4, <2>8 DEF HoleExact, H
  <2>10. H.hole = x
    <3>1. SUFFICES ASSUME H.hole # x PROVE FALSE
      OBVIOUS
    <3>2. x \in x .. H.hole - 1
      BY <2>1, <2>4, <2>9, <3>1
    <3> QED
      BY <2>6, <2>9, <3>2
  <2>11. H.blks = G.blks
    BY <2>6, <2>9, <2>10
  <2>12. Hole(a) = H /\ a.una = r.una /\ a.rec = r.rec
    BY <1>1, <2>1 DEF Hole, Senders, H
  <2>13. x > 0
    BY <1>3, <2>2 DEF InHole, G
  <2>14. InHole(a)
    BY <2>2, <2>10, <2>11, <2>12, <2>13 DEF InHole
  <2>15. NxtTseq(a) = x
    BY <2>10, <2>12, <2>14 DEF NxtTseq
  <2> QED
    BY <2>15 DEF a, x
<1> QED
  BY <1>2, <1>3

(* How many bytes are still to be sent at t_seqno_ and at h_seqno_.        *)
Left(r) == (r.cur + 1 - r.t) + (r.cur + 1 - Largest(r.h, r.una))

LEMMA LeftFacts ==
  ASSUME NEW r, Sender(r), NEW w \in 1 .. MaxWindow
  PROVE  /\ Left(r) \in Nat /\ Left(r) <= Rounds(r)
         /\ Outputs(r, NxtTseq(r), w) > 0
              => Left(r) > 0 /\ Left(Round(r, w)) < Left(r)
<1> DEFINE seq == NxtTseq(r)
           n == Outputs(r, seq, w)
           x == Round(r, w)
<1>1. /\ r \in Senders /\ Numbers(r) /\ Scored(r)
      /\ r.una \in Nat /\ r.t \in Nat /\ r.max \in Nat /\ r.cur \in Nat /\ r.h \in Int
  BY DEF Sender, Senders
<1>2. /\ r.una <= r.t /\ r.t <= r.max /\ r.max <= r.cur + 1
      /\ r.h = -1 \/ (r.una <= r.h /\ r.h <= r.max)
  BY <1>1 DEF Numbers
<1>3. /\ Largest(r.h, r.una) \in Nat /\ r.una <= Largest(r.h, r.una)
      /\ Largest(r.h, r.una) <= r.cur + 1
  BY <1>1, <1>2 DEF Largest
<1>4. Left(r) \in Nat /\ Left(r) <= Rounds(r)
  BY <1>1, <1>2, <1>3 DEF Left, Rounds
<1>5. ASSUME n > 0 PROVE Left(r) > 0 /\ Left(x) < Left(r)
  <2>1. /\ seq \in Nat /\ r.una <= seq
        /\ InHole(r) => r.h <= seq
    BY <1>1, NxtFacts
  <2>2. Sends(r, x, seq, n) /\ Sender(x)
    BY <1>5, RoundFacts
  <2> HIDE DEF seq
  <2>3. n \in Nat /\ n > 0 /\ seq + n <= r.cur + 1
    BY <1>1, <1>5, <2>1, OutputsFacts
  <2> HIDE DEF n, x
  <2>4. /\ x.t = IF seq = r.t THEN r.t + n ELSE r.t
        /\ x.h = IF InHole(r) \/ seq = r.h THEN seq + n ELSE r.h
        /\ InHole(r) \/ seq = r.t
        /\ x.una = r.una /\ x.cur = r.cur
    BY <2>2 DEF Sends, Same
  <2>5. CASE InHole(r)
    <3>1. x.h = seq + n /\ Largest(x.h, x.una) = seq + n
      BY <1>1, <2>1, <2>3, <2>4, <2>5 DEF Largest
    <3>2. Largest(r.h, r.una) <= seq
      BY <1>1, <2>1, <2>5 DEF Largest
    <3>3. x.t \in Nat /\ r.t <= x.t
      BY <1>1, <2>3, <2>4
    <3> QED
      BY <1>1, <1>2, <1>3, <2>1, <2>3, <2>4, <3>1, <3>2, <3>3 DEF Left
  <2>6. CASE ~InHole(r)
    <3>1. seq = r.t /\ x.t = r.t + n
      BY <2>4, <2>6
    <3>2. x.h \in Int /\ r.h <= x.h
      BY <1>1, <2>1, <2>3, <2>4
    <3>3. Largest(x.h, x.una) \in Int /\ Largest(r.h, r.una) <= Largest(x.h, x.una)
      BY <1>1, <2>4, <3>2 DEF Largest
    <3> QED
      BY <1>1, <1>2, <1>3, <2>1, <2>3, <2>4, <3>1, <3>3 DEF Left
  <2> QED
    BY <2>5, <2>6
<1> QED
  BY <1>4, <1>5 DEF n, seq, x

(* The loop of send_much ends: when it returns, no further round would be  *)
(* made, although a round may be about h_seqno_ or about t_seqno_, and     *)
(* foutput may send less than a segment.  Otherwise, as the comment in the *)
(* loop says, "we can loop forever at the same simulated time instant".    *)
THEOREM SendMuchEnds ==
  ASSUME NEW s, Sender(s), NEW force \in BOOLEAN, NEW w \in 1 .. MaxWindow
  PROVE  ~Goes(SendMuch(s, force, w), FALSE, w)
<1> DEFINE S == {r \in Senders : Sender(r)}
           k == Rounds(s)
<1>1. k \in Nat /\ s \in S
  BY RoundsNat DEF Sender
<1>2. Closed(S, w)
  <2>1. ASSUME NEW r \in S, NEW f \in BOOLEAN, Goes(r, f, w)
        PROVE  Round(r, w) \in S
    <3>1. Sender(r) /\ Outputs(r, NxtTseq(r), w) > 0
      BY <2>1 DEF Goes
    <3>2. Sender(Round(r, w))
      BY <3>1, RoundFacts
    <3> QED
      BY <3>2 DEF Sender
  <2> QED
    BY <2>1 DEF Closed
<1> HIDE DEF S, k
<1>3. PICK h \in [0 .. k -> S] :
           Takes(h, s, force, w) /\ SendMuch(s, force, w) = At(h[k])
  BY <1>1, <1>2, SendMuchSteps DEF k
<1>4. \A i \in 0 .. k : Sender(h[i]) /\ Left(h[i]) \in Nat
  <2>1. ASSUME NEW i \in 0 .. k PROVE Sender(h[i]) /\ Left(h[i]) \in Nat
    <3>1. h[i] \in S
      BY <1>3
    <3>2. Sender(h[i])
      BY <3>1 DEF S
    <3> QED
      BY <3>2, LeftFacts
  <2> QED
    BY <2>1
<1> DEFINE T == {i \in 0 .. k : Left(h[i]) <= k - i \/ (i > 0 /\ ~Goes(h[i], FALSE, w))}
<1>5. 0 \in T
  <2>1. h[0] = s /\ 0 \in 0 .. k
    BY <1>1, <1>3 DEF Takes
  <2>2. Left(s) \in Nat /\ Left(s) <= k
    BY LeftFacts DEF k
  <2> QED
    BY <1>1, <2>1, <2>2
<1>6. ASSUME NEW i \in 1 .. k, i - 1 \in T PROVE i \in T
  <2> DEFINE g == h[i - 1]
             f == force /\ i = 1
  <2>1. i - 1 \in 0 .. k /\ i \in 0 .. k /\ i > 0
    BY <1>1
  <2>2. /\ Goes(g, f, w) => h[i] = Round(g, w)
        /\ ~Goes(g, f, w) => h[i] = g
        /\ Sender(g) /\ Left(g) \in Nat /\ Left(h[i]) \in Nat
    BY <1>3, <1>4, <2>1 DEF Takes, k
  <2>3. Left(g) <= k - (i - 1) \/ (i > 1 /\ ~Goes(g, FALSE, w))
    <3>1. Left(g) <= k - (i - 1) \/ (i - 1 > 0 /\ ~Goes(g, FALSE, w))
      BY <1>6
    <3>2. i - 1 > 0 => i > 1
      BY <1>1
    <3> HIDE DEF g, T
    <3> QED
      BY <3>1, <3>2
  <2>4. CASE ~Goes(g, f, w)
    <3>1. ~Goes(h[i], FALSE, w)
      BY <2>2, <2>4 DEF Goes
    <3> QED
      BY <2>1, <3>1
  <2>5. CASE Goes(g, f, w)
    <3>1. Outputs(g, NxtTseq(g), w) > 0
      BY <2>5 DEF Goes
    <3>2. Left(h[i]) < Left(g)
      BY <2>2, <2>5, <3>1, LeftFacts
    <3>3. Left(g) <= k - (i - 1)
      <4>1. CASE i > 1
        <5>1. ~f
          BY <4>1
        <5>2. Goes(g, FALSE, w)
          BY <2>5, <5>1 DEF Goes
        <5> QED
          BY <2>3, <5>2
      <4>2. CASE ~(i > 1)
        BY <2>3, <4>2
      <4> QED
        BY <4>1, <4>2
    <3>4. Left(h[i]) <= k - i
      BY <1>1, <2>1, <2>2, <3>2, <3>3
    <3> QED
      BY <2>1, <3>4
  <2> QED
    BY <2>4, <2>5
<1> HIDE DEF T
<1>7. k \in T
  <2>1. 0 .. k \subseteq T
    BY <1>1, <1>5, <1>6, InductionTo
  <2> QED
    BY <1>1, <2>1
<1>8. ~Goes(h[k], FALSE, w)
  <2>1. CASE Left(h[k]) <= k - k
    <3>1. Left(h[k]) \in Nat /\ Sender(h[k])
      BY <1>1, <1>4
    <3>2. ~(Left(h[k]) > 0)
      BY <1>1, <2>1, <3>1
    <3>3. ~(Outputs(h[k], NxtTseq(h[k]), w) > 0)
      BY <3>1, <3>2, LeftFacts
    <3> QED
      BY <3>3 DEF Goes
  <2> QED
    BY <1>7, <2>1 DEF T
<1>9. Sender(h[k])
  BY <1>1, <1>4
<1> DEFINE r == h[k]
           a == At(r)
<1>10. NxtTseq(a) = NxtTseq(r) /\ Same(r, a) /\ a.max = r.max
  BY <1>9, AtStays, AtFacts
<1> HIDE DEF r, a
<1>11. Outputs(a, NxtTseq(a), w) = Outputs(r, NxtTseq(r), w)
  BY <1>10 DEF Outputs, DataLen, Same
<1>12. SendAllowed(a, NxtTseq(a), w) <=> SendAllowed(r, NxtTseq(r), w)
  <2>1. a.pipe = r.pipe
    BY <1>9, AtFacts DEF a, r
  <2> QED
    BY <1>10, <2>1 DEF SendAllowed, Same
<1>13. ~Goes(a, FALSE, w)
  BY <1>8, <1>11, <1>12 DEF Goes, r
<1> QED
  BY <1>3, <1>13 DEF a, r

-----------------------------------------------------------------------------
(* Handlers of the sender.                                                 *)

(* What a handler may leave: a sound sender with this highest_ack_ and     *)
(* this scoreboard, that has written as much as before.                    *)
Leaves(s, x, u, B) ==
  Sender(x) /\ x.una = u /\ x.board = B /\ x.cur = s.cur /\ s.max <= x.max

LEMMA LeavesSendMuch ==
  ASSUME NEW s, s.max \in Nat, NEW y, NEW u, NEW B, Leaves(s, y, u, B),
         NEW force \in BOOLEAN, NEW w \in 1 .. MaxWindow
  PROVE  Leaves(s, SendMuch(y, force, w), u, B)
<1> DEFINE x == SendMuch(y, force, w)
<1>1. Sender(x) /\ Same(y, x) /\ y.max <= x.max
  BY SendMuchFacts DEF Leaves
<1> HIDE DEF x
<1>2. y.max \in Nat /\ x.max \in Nat
  BY <1>1 DEF Leaves, Sender, Senders
<1>3. s.max <= x.max
  BY <1>1, <1>2 DEF Leaves
<1> QED
  BY <1>1, <1>3 DEF Leaves, Same, x

(* The application writes.                                                 *)
LEMMA WrittenFacts ==
  ASSUME NEW s, Sender(s), NEW nb \in Nat
  PROVE  LET x == [s EXCEPT !.cur = @ + nb]
         IN  /\ Sender(x) /\ x.una = s.una /\ x.board = s.board /\ x.cur = s.cur + nb
             /\ x.max = s.max /\ x.t = s.t /\ x.out = s.out
<1> DEFINE c == s.cur + nb
           x == [s EXCEPT !.cur = c]
<1>1. /\ s \in Senders /\ s.cur \in Nat /\ s.max \in Nat
      /\ Numbers(s) /\ Scored(s) /\ Emits(s) /\ Timed(s)
  BY DEF Sender, Senders
<1>2. c \in Nat /\ c = s.cur + nb
  BY <1>1
<1> HIDE DEF c
<1>3. /\ x \in Senders /\ x.una = s.una /\ x.board = s.board /\ x.cur = c
      /\ x.max = s.max /\ x.t = s.t /\ x.out = s.out /\ x.h = s.h /\ x.rec = s.rec
      /\ x.fast = s.fast /\ x.pc = s.pc /\ x.rtx = s.rtx
  BY <1>1, <1>2 DEF Senders
<1> HIDE DEF x
<1>4. Numbers(x)
  BY <1>1, <1>2, <1>3 DEF Numbers
<1>5. Scored(x) /\ Emits(x) /\ Timed(x)
  BY <1>1, <1>3 DEF Scored, Emits, Timed
<1> QED
  BY <1>2, <1>3, <1>4, <1>5 DEF Sender, x, c

(* The timer expires while it is pending.                                  *)
LEMMA TimeoutActionFacts ==
  ASSUME NEW s, Sender(s), s.rtx
  PROVE  LET x == TimeoutAction(s)
         IN  /\ Leaves(s, x, s.una, IF mode.clear THEN Cleared(s.una) ELSE s.board)
             /\ x.max = s.max /\ x.out = s.out
             /\ mode.lossless => x.t = s.t
<1> DEFINE B == IF mode.clear THEN Cleared(s.una) ELSE s.board
           tt == IF mode.lossless THEN s.t ELSE s.una
           x == TimeoutAction(s)
<1>1. /\ s \in Senders /\ Numbers(s) /\ Scored(s) /\ Emits(s) /\ Timed(s)
      /\ s.una \in Nat /\ s.t \in Nat /\ s.max \in Nat /\ s.board \in RawQueues
  BY DEF Sender, Senders
<1>2. /\ B \in Boards(s.una) /\ B \in RawQueues
      /\ Cover(ToSet(B.fifo)) \subseteq 0 .. s.max - 1
  <2>1. /\ s.una \in -1 .. s.una /\ s.una \in Int
    BY <1>1
  <2>2. /\ Cleared(s.una) \in Boards(s.una) /\ Cleared(s.una) \in RawQueues
        /\ Cover(ToSet(Cleared(s.una).fifo)) = {}
    BY <1>1, <2>1, EmptyFacts DEF Cleared
  <2> QED
    BY <1>1, <2>2 DEF Scored
<1>3. tt \in Nat /\ s.una <= tt /\ tt <= s.max /\ s.una <= s.max
  BY <1>1 DEF Numbers
<1>4. x = [s EXCEPT !.rec = s.max, !.fast = FALSE, !.dup = 0, !.rtx = TRUE,
                    !.t = tt, !.board = B]
  BY DEF TimeoutAction
<1>5. mode.lossless => tt = s.t
  OBVIOUS
<1> HIDE DEF B, tt, x
<1>6. /\ x \in Senders /\ x.una = s.una /\ x.max = s.max /\ x.cur = s.cur
      /\ x.h = s.h /\ x.out = s.out /\ x.pc = s.pc
      /\ x.rec = s.max /\ x.fast = FALSE /\ x.rtx = TRUE /\ x.t = tt /\ x.board = B
  BY <1>1, <1>2, <1>3, <1>4 DEF Senders
<1>7. Numbers(x)
  <2>1. s.max <= s.max
    BY <1>1
  <2> QED
    BY <1>1, <1>3, <1>6, <2>1 DEF Numbers
<1>8. Scored(x) /\ Emits(x)
  BY <1>1, <1>2, <1>6 DEF Scored, Emits
<1>9. Timed(x)
  <2>1. s.una < s.max
    BY <1>1 DEF Timed
  <2> QED
    BY <1>1, <1>6, <2>1 DEF Timed
<1>10. s.max <= x.max
  BY <1>1, <1>6
<1> QED
  BY <1>5, <1>6, <1>7, <1>8, <1>9, <1>10 DEF Sender, Leaves, x, B

(* An ACK that advances: what newack and pack_action or ack_action leave.  *)
Advanced(s, ackno) ==
  IF s.fast /\ ackno < s.rec THEN PackAction(NewAck(s, ackno))
  ELSE AckAction(NewAck(s, ackno))

LEMMA AdvancedFacts ==
  ASSUME NEW s, Sender(s), NEW ackno \in Nat, s.una < ackno, ackno <= s.max,
         Acked(s.board, ackno) \in Boards(ackno),
         Cover(ToSet(Acked(s.board, ackno).fifo)) \subseteq 0 .. s.max - 1
  PROVE  LET x == Advanced(s, ackno)
         IN  /\ Leaves(s, x, ackno, Acked(s.board, ackno))
             /\ x.max = s.max /\ x.out = s.out /\ x.t = Largest(s.t, ackno)
<1> DEFINE B == Acked(s.board, ackno)
           tt == Largest(s.t, ackno)
           hh == Largest(s.h, ackno)
           full == ackno # s.max
           partial == s.fast /\ ackno < s.rec
           x == Advanced(s, ackno)
           new == NewAck(s, ackno)
<1>1. /\ s \in Senders /\ Numbers(s) /\ Scored(s) /\ Emits(s) /\ Timed(s)
      /\ s.una \in Nat /\ s.t \in Nat /\ s.max \in Nat /\ s.rec \in Nat /\ s.h \in Int
      /\ s.pipe \in Int /\ s.fast \in BOOLEAN
      /\ M \in Nat
  BY SackTransferAssumption DEF Sender, Senders
<1>2. /\ tt \in Nat /\ ackno <= tt /\ tt <= s.max
      /\ hh \in Int /\ ackno <= hh /\ hh <= s.max
  BY <1>1 DEF Numbers, Largest
<1>3. B \in RawQueues
  BY DEF Boards
<1>4. new = [s EXCEPT !.una = ackno, !.t = tt, !.rtx = full]
  BY DEF NewAck
<1>5. full \in BOOLEAN
  OBVIOUS
<1> HIDE DEF tt, full
<1>6. /\ new \in Senders /\ new.una = ackno /\ new.t = tt /\ new.rtx = full
      /\ new.max = s.max /\ new.cur = s.cur /\ new.rec = s.rec /\ new.h = s.h
      /\ new.fast = s.fast /\ new.pc = s.pc /\ new.board = s.board /\ new.out = s.out
      /\ new.pipe = s.pipe
  BY <1>1, <1>2, <1>4, <1>5 DEF Senders
<1> HIDE DEF new
<1>7. /\ x \in Senders /\ x.una = ackno /\ x.t = tt /\ x.rtx = full /\ x.h = hh
      /\ x.max = s.max /\ x.cur = s.cur /\ x.rec = s.rec /\ x.board = B
      /\ x.out = s.out
      /\ partial \/ (x.fast = FALSE /\ x.pc = FALSE)
  <2>1. CASE partial
    <3>1. x = [new EXCEPT !.board = B, !.pipe = new.pipe - M, !.h = hh]
      BY <1>6, <2>1 DEF Advanced, PackAction, new
    <3>2. new.pipe - M \in Int
      BY <1>1, <1>6
    <3> HIDE DEF B, hh, x
    <3> QED
      BY <1>2, <1>3, <1>6, <2>1, <3>1, <3>2 DEF Senders
  <2>2. CASE ~partial
    <3>1. x = [new EXCEPT !.board = B, !.h = hh, !.fast = FALSE, !.pc = FALSE, !.dup = 0]
      BY <1>6, <2>2 DEF Advanced, AckAction, new
    <3> HIDE DEF B, hh, x
    <3> QED
      BY <1>2, <1>3, <1>6, <2>2, <3>1 DEF Senders
  <2> QED
    BY <2>1, <2>2
<1> HIDE DEF B, hh, x
<1>8. Numbers(x)
  BY <1>1, <1>2, <1>7 DEF Numbers
<1>9. Scored(x) /\ Emits(x)
  BY <1>1, <1>7 DEF Scored, Emits, B
<1>10. Timed(x)
  <2>1. full <=> ackno < s.max
    BY <1>1 DEF full
  <2>2. ackno = s.max => ~partial
    BY <1>1 DEF Numbers
  <2> QED
    BY <1>7, <2>1, <2>2 DEF Timed
<1>11. s.max <= x.max
  BY <1>1, <1>7
<1> QED
  BY <1>7, <1>8, <1>9, <1>10, <1>11 DEF Sender, Leaves, x, B, tt


(* An ACK that does not advance.                                           *)
LEMMA CountedFacts ==
  ASSUME NEW s, Sender(s), NEW n \in Nat
  PROVE  Leaves(s, [s EXCEPT !.dup = n], s.una, s.board)
<1> DEFINE x == [s EXCEPT !.dup = n]
<1>1. /\ s \in Senders /\ Numbers(s) /\ Scored(s) /\ Emits(s) /\ Timed(s)
      /\ s.max \in Nat
  BY DEF Sender, Senders
<1>2. /\ x \in Senders /\ x.una = s.una /\ x.t = s.t /\ x.max = s.max /\ x.cur = s.cur
      /\ x.rec = s.rec /\ x.h = s.h /\ x.fast = s.fast /\ x.pc = s.pc /\ x.rtx = s.rtx
      /\ x.board = s.board /\ x.out = s.out
  BY <1>1 DEF Senders
<1> HIDE DEF x
<1>3. Numbers(x) /\ Scored(x) /\ Emits(x) /\ Timed(x)
  BY <1>1, <1>2 DEF Numbers, Scored, Emits, Timed
<1>4. s.max <= x.max
  BY <1>1, <1>2
<1> QED
  BY <1>2, <1>3, <1>4 DEF Leaves, Sender, x

(* What dupack_action leaves to send_much: the first segment that is not   *)
(* acknowledged is sent again, and h_seqno_ is behind it.                  *)
Retransmitted(s, w) ==
  LET on  == [s EXCEPT !.fast = TRUE, !.pipe = s.max - s.una - s.board.total]
      rtx == [Foutput([on EXCEPT !.rtx = FALSE, !.rec = s.max], s.una, w)
                EXCEPT !.pc = TRUE]
  IN  [rtx EXCEPT !.h = s.una + Outputs(on, s.una, w)]

LEMMA RecoveringFacts ==
  ASSUME NEW s, Sender(s), s.rtx
  PROVE  LET on == [s EXCEPT !.fast = TRUE, !.pipe = s.max - s.una - s.board.total]
         IN  Leaves(s, on, s.una, s.board) /\ on.rec = s.rec /\ on.pc = s.pc
<1> DEFINE p == s.max - s.una - s.board.total
           x == [s EXCEPT !.fast = TRUE, !.pipe = p]
<1>1. /\ s \in Senders /\ Numbers(s) /\ Scored(s) /\ Emits(s) /\ Timed(s)
      /\ s.max \in Nat /\ s.una \in Nat
  BY DEF Sender, Senders
<1>2. p \in Int
  BY <1>1 DEF Scored, Boards, RawQueues
<1> HIDE DEF p
<1>3. /\ x \in Senders /\ x.una = s.una /\ x.t = s.t /\ x.max = s.max /\ x.cur = s.cur
      /\ x.rec = s.rec /\ x.h = s.h /\ x.pc = s.pc /\ x.rtx = s.rtx
      /\ x.board = s.board /\ x.out = s.out
  BY <1>1, <1>2 DEF Senders
<1> HIDE DEF x
<1>4. Numbers(x) /\ Scored(x) /\ Emits(x)
  BY <1>1, <1>3 DEF Numbers, Scored, Emits
<1>5. Timed(x)
  BY <1>1, <1>3 DEF Timed
<1>6. s.max <= x.max
  BY <1>1, <1>3
<1> QED
  BY <1>3, <1>4, <1>5, <1>6 DEF Leaves, Sender, x, p

LEMMA RetransmittedFacts ==
  ASSUME NEW s, Sender(s), s.rtx, NEW w \in 1 .. MaxWindow
  PROVE  Leaves(s, Retransmitted(s, w), s.una, s.board)
<1> DEFINE p == s.max - s.una - s.board.total
           on == [s EXCEPT !.fast = TRUE, !.pipe = p]
           r == [on EXCEPT !.rtx = FALSE, !.rec = s.max]
           n == Outputs(on, s.una, w)
           f == Foutput(r, s.una, w)
           hh == s.una + n
           x == Retransmitted(s, w)
<1>1. /\ s \in Senders /\ Numbers(s) /\ Scored(s) /\ Emits(s) /\ Timed(s)
      /\ s.max \in Nat /\ s.una \in Nat /\ s.cur \in Nat /\ s.t \in Nat
  BY DEF Sender, Senders
<1>2. p \in Int
  BY <1>1 DEF Scored, Boards, RawQueues
<1>3. x = [[f EXCEPT !.pc = TRUE] EXCEPT !.h = hh]
  BY DEF Retransmitted
<1> HIDE DEF p
<1>4. /\ r \in Senders /\ r.una = s.una /\ r.t = s.t /\ r.max = s.max /\ r.cur = s.cur
      /\ r.rec = s.max /\ r.h = s.h /\ r.pc = s.pc
      /\ r.board = s.board /\ r.out = s.out
      /\ on.una = s.una /\ on.max = s.max /\ on.cur = s.cur /\ on.pc = s.pc
  BY <1>1, <1>2 DEF Senders
<1> HIDE DEF on, r
<1>5. Numbers(r) /\ Emits(r)
  <2>1. s.max <= s.max
    BY <1>1
  <2> QED
    BY <1>1, <1>4, <2>1 DEF Numbers, Emits
<1>6. n = Outputs(r, s.una, w)
  BY <1>4 DEF Outputs, DataLen
<1>7. s.una < s.max /\ s.una <= s.una
  BY <1>1 DEF Timed
<1>8. n \in Nat /\ n > 0 /\ s.una + n <= s.cur + 1
  <2>1. /\ Outputs(r, s.una, w) \in Nat
        /\ Outputs(r, s.una, w) > 0 => s.una + Outputs(r, s.una, w) <= r.cur + 1
        /\ s.una = r.una /\ r.una < r.max => Outputs(r, s.una, w) > 0
    BY <1>1, <1>4, <1>5, <1>7, OutputsFacts
  <2> HIDE DEF n
  <2> QED
    BY <1>4, <1>6, <1>7, <2>1
<1>9. Puts(r, f, s.una, n)
  <2>1. Outputs(r, s.una, w) > 0
    BY <1>6, <1>8
  <2>2. Puts(r, Foutput(r, s.una, w), s.una, Outputs(r, s.una, w))
    BY <1>1, <1>4, <1>5, <1>7, <2>1, FoutputFacts
  <2> QED
    BY <1>6, <2>2
<1> HIDE DEF n, f
<1>10. /\ Emits(f) /\ f.max \in Nat /\ s.max <= f.max /\ s.una + n <= f.max
       /\ f.max = s.max \/ f.max = s.una + n
  <2> DEFINE u == s.una
  <2>1. r \in Senders /\ Emits(r) /\ u \in Nat /\ n \in Nat /\ n > 0 /\ Puts(r, f, u, n)
    BY <1>1, <1>4, <1>5, <1>8, <1>9
  <2> HIDE DEF u
  <2>2. /\ Emits(f) /\ f.max \in Nat /\ r.max <= f.max /\ u + n <= f.max
        /\ f.max = r.max \/ f.max = u + n
    BY <2>1, PutsEmits
  <2> QED
    BY <1>4, <2>2 DEF u
<1>11. /\ f \in Senders /\ f.una = s.una /\ f.t = s.t /\ f.cur = s.cur /\ f.rec = s.max
       /\ f.board = s.board /\ f.rtx
  BY <1>4, <1>9 DEF Puts, Same
<1>12. hh \in Int /\ s.una <= hh /\ hh <= f.max
  BY <1>1, <1>8, <1>10
<1> HIDE DEF hh, x
<1>13. /\ x \in Senders /\ x.una = s.una /\ x.t = s.t /\ x.cur = s.cur /\ x.rec = s.max
       /\ x.board = s.board /\ x.rtx = f.rtx /\ x.h = hh /\ x.max = f.max /\ x.out = f.out
  BY <1>3, <1>11, <1>12 DEF Senders
<1>14. Numbers(x)
  <2>1. s.una <= s.t /\ s.t <= s.max /\ s.max <= s.cur + 1
    BY <1>1 DEF Numbers
  <2>2. s.t <= f.max /\ f.max <= s.cur + 1
    BY <1>1, <1>8, <1>10, <2>1
  <2> QED
    BY <1>10, <1>12, <1>13, <2>1, <2>2 DEF Numbers
<1>15. Scored(x)
  <2>1. 0 .. s.max - 1 \subseteq 0 .. f.max - 1
    BY <1>1, <1>10
  <2> QED
    BY <1>1, <1>13, <2>1 DEF Scored
<1>16. Emits(x)
  BY <1>10, <1>13 DEF Emits
<1>17. Timed(x)
  <2>1. s.una < f.max
    BY <1>1, <1>7, <1>10
  <2> QED
    BY <1>1, <1>10, <1>11, <1>13, <2>1 DEF Timed
<1> QED
  BY <1>10, <1>13, <1>14, <1>15, <1>16, <1>17 DEF Leaves, Sender, x

LEMMA DuplicateFacts ==
  ASSUME NEW s, Sender(s), NEW ackno \in Nat, NEW ecn \in BOOLEAN,
         NEW w \in 1 .. MaxWindow
  PROVE  Leaves(s, Duplicate(s, ackno, ecn, w), s.una, s.board)
<1> DEFINE none == [s EXCEPT !.dup = 0]
           more == [s EXCEPT !.dup = s.dup + 1]
<1>1. s \in Senders /\ s.max \in Nat /\ s.dup + 1 \in Nat
  BY DEF Sender, Senders
<1>2. Leaves(s, none, s.una, s.board) /\ Leaves(s, more, s.una, s.board)
  BY <1>1, CountedFacts
<1>3. more.rtx = s.rtx /\ more.max = s.max /\ more.una = s.una /\ more.board = s.board
  BY <1>1 DEF Senders
<1>4. Duplicate(s, ackno, ecn, w)
        = IF ~s.rtx \/ ackno < s.una THEN SendMuch(none, FALSE, w)
          ELSE IF more.dup = DupThr THEN DupackAction(more, ecn, w)
          ELSE SendMuch(more, FALSE, w)
  BY DEF Duplicate
<1> HIDE DEF none, more
<1>5. /\ Leaves(s, SendMuch(none, FALSE, w), s.una, s.board)
      /\ Leaves(s, SendMuch(more, FALSE, w), s.una, s.board)
  BY <1>1, <1>2, LeavesSendMuch
<1>6. ASSUME s.rtx PROVE Leaves(s, DupackAction(more, ecn, w), s.una, s.board)
  <2> DEFINE on == [more EXCEPT !.fast = TRUE,
                                !.pipe = more.max - more.una - more.board.total]
             go == Retransmitted(more, w)
  <2>1. Sender(more) /\ more.rtx
    BY <1>2, <1>3, <1>6 DEF Leaves
  <2>2. Leaves(more, on, s.una, s.board) /\ Leaves(more, go, s.una, s.board)
    BY <1>3, <2>1, RecoveringFacts, RetransmittedFacts
  <2>3. DupackAction(more, ecn, w) = IF more.una > more.rec \/ ecn THEN SendMuch(go, FALSE, w) ELSE on
    BY DEF DupackAction, Retransmitted
  <2> HIDE DEF on, go
  <2>4. Leaves(s, on, s.una, s.board) /\ Leaves(s, go, s.una, s.board)
    BY <1>2, <1>3, <2>2 DEF Leaves
  <2>5. Leaves(s, SendMuch(go, FALSE, w), s.una, s.board)
    BY <1>1, <2>4, LeavesSendMuch
  <2> QED
    BY <2>3, <2>4, <2>5
<1> QED
  BY <1>4, <1>5, <1>6


(* What recv makes of the SACK blocks, before it looks at the ACK number.  *)
AfterSack(s, a) ==
  [s EXCEPT !.board = ProcessSack(@, a.sack), !.pipe = IF s.fast THEN @ - M ELSE @]

LEMMA AfterSackFacts ==
  ASSUME NEW s, Sender(s), NEW a,
         ProcessSack(s.board, a.sack) \in Boards(s.una),
         Cover(ToSet(ProcessSack(s.board, a.sack).fifo)) \subseteq 0 .. s.max - 1
  PROVE  LET x == AfterSack(s, a)
         IN  /\ Leaves(s, x, s.una, ProcessSack(s.board, a.sack))
             /\ x.max = s.max /\ x.out = s.out /\ x.t = s.t /\ x.rtx = s.rtx
<1> DEFINE B == ProcessSack(s.board, a.sack)
           p == IF s.fast THEN s.pipe - M ELSE s.pipe
           x == AfterSack(s, a)
<1>1. /\ s \in Senders /\ Numbers(s) /\ Scored(s) /\ Emits(s) /\ Timed(s)
      /\ s.max \in Nat
  BY DEF Sender, Senders
<1>2. p \in Int
  BY <1>1, SackTransferAssumption DEF Senders
<1>3. B \in RawQueues
  BY DEF Boards
<1>4. x = [s EXCEPT !.board = B, !.pipe = p]
  BY <1>1 DEF AfterSack, Senders
<1> HIDE DEF p, x, B
<1>5. /\ x \in Senders /\ x.una = s.una /\ x.t = s.t /\ x.max = s.max /\ x.cur = s.cur
      /\ x.rec = s.rec /\ x.h = s.h /\ x.fast = s.fast /\ x.pc = s.pc /\ x.rtx = s.rtx
      /\ x.board = B /\ x.out = s.out
  BY <1>1, <1>2, <1>3, <1>4 DEF Senders
<1>6. Numbers(x) /\ Emits(x) /\ Timed(x)
  BY <1>1, <1>5 DEF Numbers, Emits, Timed
<1>7. Scored(x)
  BY <1>5 DEF Scored, B
<1>8. s.max <= x.max
  BY <1>1, <1>5
<1> QED
  BY <1>5, <1>6, <1>7, <1>8 DEF Leaves, Sender, x, B

(* A receiver that got nothing that was not sent asks for nothing higher.  *)
LEMMA NxtSent ==
  ASSUME NEW r, r.nxt \in Nat, NEW m \in Nat, Arrived(r) \subseteq 0 .. m - 1
  PROVE  r.nxt <= m
<1>1. CASE r.nxt = 0
  BY <1>1
<1>2. CASE r.nxt > 0
  <2>1. r.nxt - 1 \in 0 .. r.nxt - 1
    BY <1>2
  <2>2. r.nxt - 1 \in 0 .. m - 1
    BY <2>1 DEF Arrived
  <2> QED
    BY <2>2
<1> QED
  BY <1>1, <1>2

(* The whole of recv for an ACK: the sender stays sound, and with the      *)
(* receiver and the ACKs coherent.                                         *)
Answered(r, A, s, x, a) ==
  LET v == IF a.ackno > s.una THEN a.ackno ELSE s.una
  IN  \E B : Leaves(s, x, v, B) /\ Coherent(r, A, v, B)

LEMMA OnAckFacts ==
  ASSUME NEW r, NEW A, NEW s, Sender(s), Coherent(r, A, s.una, s.board),
         Arrived(r) \subseteq 0 .. s.max - 1, NEW a \in A,
         NEW ecn \in BOOLEAN, NEW w \in 1 .. MaxWindow
  PROVE  Answered(r, A, s, OnAck(s, a, ecn, w), a)
<1> DEFINE u == s.una
           B == ProcessSack(s.board, a.sack)
           v == IF a.ackno > u THEN a.ackno ELSE u
           C == IF a.ackno > u THEN Acked(B, v) ELSE B
           told == AfterSack(s, a)
           x == OnAck(s, a, ecn, w)
<1>1. /\ u \in Nat /\ s.max \in Nat /\ s.board \in Boards(u)
      /\ Cover(ToSet(s.board.fifo)) \subseteq Arrived(r)
      /\ Waits(r) /\ r.nxt \in Nat
  <2>1. s \in Senders /\ Scored(s)
    BY DEF Sender
  <2> QED
    BY <2>1 DEF Senders, Scored, Coherent, KnowsLess, Waits
<1>2. /\ a.ackno \in Nat /\ a.ackno <= r.nxt /\ a.sack \in Seq(Nodes)
      /\ Cover(ToSet(a.sack)) \subseteq Arrived(r)
      /\ u \notin Cover(ToSet(a.sack))
  BY <1>1 DEF Coherent, Truthful, NumbersNotSacked
<1>3. r.nxt <= s.max
  BY <1>1, NxtSent
<1>4. B \in Boards(u) /\ Cover(ToSet(B.fifo)) \subseteq Arrived(r)
  <2> HIDE DEF u
  <2>1. B \in Boards(u) /\ Cover(ToSet(B.fifo)) = Cover(ToSet(s.board.fifo)) \cup Cover(ToSet(a.sack))
    BY <1>1, <1>2, ProcessSackFacts
  <2> QED
    BY <1>1, <1>2, <2>1
<1>5. Coherent(r, A, v, C)
  BY AnswerCoherent
<1>6. Leaves(s, told, u, B) /\ told.max = s.max
  BY <1>4, AfterSackFacts
<1>7. x = IF a.ackno > told.una /\ a.ackno > u THEN Progress(told, a.ackno, w)
          ELSE Duplicate(told, a.ackno, ecn, w)
  BY <1>6 DEF OnAck, AfterSack, Leaves
<1>8. told.una = u /\ told.board = B /\ Sender(told) /\ told.cur = s.cur
  BY <1>6 DEF Leaves
<1> HIDE DEF x, told, B, u
<1>9. CASE a.ackno > u
  <2>1. v = a.ackno /\ C = Acked(B, a.ackno)
    BY <1>9
  <2>2. C \in Boards(v) /\ Cover(ToSet(C.fifo)) \subseteq Arrived(r)
    BY <1>5 DEF Coherent, KnowsLess
  <2> HIDE DEF v, C
  <2>3. /\ Leaves(told, Advanced(told, a.ackno), a.ackno, C)
    <3>1. /\ told.una < a.ackno /\ a.ackno <= told.max /\ Acked(told.board, a.ackno) = C
          /\ Acked(told.board, a.ackno) \in Boards(a.ackno)
          /\ Cover(ToSet(Acked(told.board, a.ackno).fifo)) \subseteq 0 .. told.max - 1
      BY <1>1, <1>2, <1>3, <1>6, <1>8, <1>9, <2>1, <2>2
    <3> QED
      BY <1>2, <1>8, <3>1, AdvancedFacts
  <2>4. Leaves(s, Advanced(told, a.ackno), v, C)
    BY <1>6, <1>8, <2>1, <2>3 DEF Leaves
  <2> DEFINE f == a.ackno = told.max
  <2>5. x = SendMuch(Advanced(told, a.ackno), f, w)
    BY <1>7, <1>8, <1>9 DEF Progress, Advanced
  <2>6. f \in BOOLEAN
    OBVIOUS
  <2> HIDE DEF f
  <2>7. Leaves(s, x, v, C)
    BY <1>1, <2>4, <2>5, <2>6, LeavesSendMuch
  <2> QED
    BY <1>5, <2>7 DEF Answered, x, v, u
<1>10. CASE ~(a.ackno > u)
  <2>1. v = u /\ C = B
    BY <1>10
  <2>2. x = Duplicate(told, a.ackno, ecn, w)
    BY <1>7, <1>10
  <2>3. Leaves(told, x, u, B)
    BY <1>2, <1>8, <2>2, DuplicateFacts
  <2>4. Leaves(s, x, v, C)
    BY <1>6, <1>8, <2>1, <2>3 DEF Leaves
  <2> QED
    BY <1>5, <2>4 DEF Answered, x, v, u
<1> QED
  BY <1>9, <1>10

-----------------------------------------------------------------------------
(* A handler's outcome.                                                    *)

Settled(x) == [x EXCEPT !.out = <<>>, !.pipe = IF x.pc THEN @ ELSE 0]

LEMMA SettledFacts ==
  ASSUME NEW x, Sender(x)
  PROVE  LET y == Settled(x)
         IN  /\ Sender(y) /\ y.una = x.una /\ y.t = x.t /\ y.max = x.max /\ y.cur = x.cur
             /\ y.board = x.board /\ y.out = <<>>
<1> DEFINE y == Settled(x)
           p == IF x.pc THEN x.pipe ELSE 0
<1>1. x \in Senders /\ Numbers(x) /\ Scored(x) /\ Emits(x) /\ Timed(x) /\ x.pipe \in Int
  BY DEF Sender, Senders
<1>2. p \in Int
  BY <1>1
<1>3. y = [x EXCEPT !.out = <<>>, !.pipe = p]
  BY <1>1 DEF Settled, Senders
<1>4. <<>> \in Seq(Nodes) /\ DOMAIN <<>> = {}
  BY EmptySeq
<1> DEFINE none == <<>>
<1> HIDE DEF y, p
<1>5. /\ y \in Senders /\ y.una = x.una /\ y.t = x.t /\ y.max = x.max /\ y.cur = x.cur
      /\ y.rec = x.rec /\ y.h = x.h /\ y.fast = x.fast /\ y.pc = x.pc /\ y.rtx = x.rtx
      /\ y.board = x.board /\ y.out = <<>>
  BY <1>1, <1>2, <1>3, <1>4 DEF Senders
<1>6. Numbers(y) /\ Scored(y) /\ Timed(y)
  BY <1>1, <1>5 DEF Numbers, Scored, Timed
<1>7. Emits(y)
  BY <1>4, <1>5 DEF Emits
<1> QED
  BY <1>5, <1>6, <1>7 DEF Sender, y

(* What a handler sends is put behind what is under way.                   *)
LEMMA UnderWay ==
  ASSUME NEW q \in Seq(Nodes), NEW m \in Nat, \A k \in DOMAIN q : q[k].e <= m,
         NEW x, Sender(x), m <= x.max
  PROVE  /\ q \o x.out \in Seq(Nodes)
         /\ \A k \in DOMAIN (q \o x.out) : (q \o x.out)[k].e <= x.max
<1> DEFINE o == x.out
           n == x.max
           z == q \o o
<1>1. o \in Seq(Nodes) /\ n \in Nat /\ \A k \in DOMAIN o : o[k].e <= n
  BY DEF Sender, Senders, Emits
<1>2. /\ Len(q) \in Nat /\ DOMAIN q = 1..Len(q) /\ \A k \in 1..Len(q) : q[k] \in Nodes
      /\ Len(o) \in Nat /\ DOMAIN o = 1..Len(o)
  BY <1>1, ElementsFacts
<1>3. m <= n
  OBVIOUS
<1> HIDE DEF o, n
<1>4. z \in Seq(Nodes) /\ DOMAIN z = 1..Len(q) + Len(o)
  BY <1>1, <1>2, ConcatProperties, LenProperties
<1>5. \A k \in 1..Len(q) + Len(o) : z[k] = IF k <= Len(q) THEN q[k] ELSE o[k - Len(q)]
  BY <1>1, ConcatProperties
<1> HIDE DEF z
<1>6. ASSUME NEW k \in DOMAIN z PROVE z[k].e <= n
  <2>1. CASE k <= Len(q)
    <3>1. z[k] = q[k] /\ k \in 1..Len(q) /\ k \in DOMAIN q
      BY <1>2, <1>4, <1>5, <2>1
    <3>2. q[k].e <= m /\ q[k].e \in Nat
      BY <1>2, <3>1 DEF Nodes
    <3> QED
      BY <1>1, <1>3, <3>1, <3>2
  <2>2. CASE ~(k <= Len(q))
    <3>1. z[k] = o[k - Len(q)] /\ k - Len(q) \in DOMAIN o
      BY <1>2, <1>4, <1>5, <2>2
    <3> QED
      BY <1>1, <3>1
  <2> QED
    BY <2>1, <2>2
<1> QED
  BY <1>4, <1>6 DEF z, o, n


-----------------------------------------------------------------------------
(* Segments and ACKs in order.                                             *)

(* One more segment follows.                                               *)
LEMMA RunAppend ==
  ASSUME NEW q \in Seq(Nodes), NEW i, NEW k \in Nat, Run(q, i, k), NEW n \in Nat, n > 0
  PROVE  Run(Append(q, Block(k, k + n)), i, k + n)
<1> DEFINE c == Block(k, k + n)
           z == Append(q, c)
<1>1. c \in Nodes /\ c.s = k /\ c.e = k + n
  BY DEF Block, Nodes
<1>2. Len(q) \in Nat /\ (q = <<>> <=> Len(q) = 0)
  BY LenProperties, EmptySeq
<1> HIDE DEF c
<1>3. /\ z \in Seq(Nodes) /\ Len(z) = Len(q) + 1 /\ z # <<>>
      /\ \A j \in 1..Len(q) : z[j] = q[j]
      /\ z[Len(q) + 1] = c
  BY <1>1, AppendProperties
<1> HIDE DEF z
<1>4. CASE q = <<>>
  <2>1. i = k /\ Len(z) = 1 /\ z[1] = c
    BY <1>2, <1>3, <1>4 DEF Run
  <2> QED
    BY <1>1, <1>3, <2>1 DEF Run, z, c
<1>5. CASE q # <<>>
  <2>1. /\ 1 \in 1..Len(q) /\ Len(q) \in 1..Len(q)
    BY <1>2, <1>5
  <2>2. z[1].s = i /\ z[Len(z)].e = k + n
    BY <1>1, <1>3, <1>5, <2>1 DEF Run
  <2>3. ASSUME NEW j \in 1 .. Len(z) - 1 PROVE z[j].e = z[j + 1].s
    <3>1. CASE j = Len(q)
      BY <1>1, <1>3, <1>5, <2>1, <3>1 DEF Run
    <3>2. CASE j # Len(q)
      <4>1. j \in 1..Len(q) - 1 /\ j \in 1..Len(q) /\ j + 1 \in 1..Len(q)
        BY <1>2, <1>3, <3>2
      <4> QED
        BY <1>3, <4>1 DEF Run
    <3> QED
      BY <3>1, <3>2
  <2> QED
    BY <1>3, <2>2, <2>3 DEF Run, z, c
<1> QED
  BY <1>4, <1>5

(* One run follows another.                                                *)
LEMMA RunConcat ==
  ASSUME NEW q \in Seq(Nodes), NEW o \in Seq(Nodes), NEW i, NEW k, NEW j,
         Run(q, i, k), Run(o, k, j)
  PROVE  Run(q \o o, i, j)
<1> DEFINE z == q \o o
<1>1. /\ Len(q) \in Nat /\ (q = <<>> <=> Len(q) = 0)
      /\ Len(o) \in Nat /\ (o = <<>> <=> Len(o) = 0)
  BY LenProperties, EmptySeq
<1>2. /\ z \in Seq(Nodes) /\ Len(z) = Len(q) + Len(o)
      /\ \A n \in 1..Len(q) + Len(o) : z[n] = IF n <= Len(q) THEN q[n] ELSE o[n - Len(q)]
  BY ConcatProperties
<1>3. z = <<>> <=> Len(z) = 0
  BY <1>2, EmptySeq
<1> HIDE DEF z
<1>4. CASE q = <<>> /\ o = <<>>
  <2>1. i = k /\ k = j
    BY <1>4 DEF Run
  <2> QED
    BY <1>1, <1>2, <1>3, <1>4, <2>1 DEF Run, z
<1>5. CASE q = <<>> /\ o # <<>>
  <2>1. i = k /\ Len(z) = Len(o) /\ \A n \in 1..Len(o) : z[n] = o[n]
    BY <1>1, <1>2, <1>5 DEF Run
  <2>2. z[1] = o[1] /\ z[Len(z)] = o[Len(o)]
    BY <1>1, <1>5, <2>1
  <2>3. \A n \in 1..Len(z) - 1 : z[n] = o[n] /\ z[n + 1] = o[n + 1]
    BY <1>1, <2>1
  <2> QED
    BY <1>1, <1>3, <1>5, <2>1, <2>2, <2>3 DEF Run, z
<1>6. CASE q # <<>> /\ o = <<>>
  <2>1. k = j /\ Len(z) = Len(q) /\ \A n \in 1..Len(q) : z[n] = q[n]
    BY <1>1, <1>2, <1>6 DEF Run
  <2>2. z[1] = q[1] /\ z[Len(z)] = q[Len(q)]
    BY <1>1, <1>6, <2>1
  <2>3. \A n \in 1..Len(z) - 1 : z[n] = q[n] /\ z[n + 1] = q[n + 1]
    BY <1>1, <2>1
  <2> QED
    BY <1>1, <1>3, <1>6, <2>1, <2>2, <2>3 DEF Run, z
<1>7. CASE q # <<>> /\ o # <<>>
  <2>1. z[1] = q[1] /\ z[Len(z)] = o[Len(o)] /\ z # <<>>
    <3>1. Len(z) \in 1..Len(q) + Len(o) /\ ~(Len(z) <= Len(q)) /\ Len(z) - Len(q) = Len(o)
      BY <1>1, <1>2, <1>7
    <3> QED
      BY <1>1, <1>2, <1>3, <1>7, <3>1
  <2>2. ASSUME NEW n \in 1 .. Len(z) - 1 PROVE z[n].e = z[n + 1].s
    <3>1. CASE n < Len(q)
      <4>1. z[n] = q[n] /\ z[n + 1] = q[n + 1] /\ n \in 1 .. Len(q) - 1
        BY <1>1, <1>2, <3>1
      <4> QED
        BY <4>1 DEF Run
    <3>2. CASE n = Len(q)
      <4>1. z[n] = q[Len(q)] /\ z[n + 1] = o[1]
        BY <1>1, <1>2, <3>2
      <4> QED
        BY <1>7, <4>1 DEF Run
    <3>3. CASE n > Len(q)
      <4> DEFINE d == n - Len(q)
      <4>1. /\ d \in 1 .. Len(o) - 1 /\ n + 1 - Len(q) = d + 1
            /\ n + 1 \in 1..Len(q) + Len(o) /\ n \in 1..Len(q) + Len(o)
            /\ ~(n <= Len(q)) /\ ~(n + 1 <= Len(q))
        BY <1>1, <1>2, <3>3
      <4>2. z[n] = o[d] /\ z[n + 1] = o[d + 1]
        BY <1>2, <4>1
      <4> HIDE DEF d
      <4> QED
        BY <4>1, <4>2 DEF Run
    <3> QED
      BY <1>1, <1>2, <3>1, <3>2, <3>3
  <2> QED
    BY <1>7, <2>1, <2>2 DEF Run, z
<1> QED
  BY <1>4, <1>5, <1>6, <1>7

(* The first segment is taken out.                                         *)
LEMMA RunRest ==
  ASSUME NEW q \in Seq(Nodes), NEW i, NEW j, Run(q, i, j), 1 \in 1 .. Len(q)
  PROVE  q[1].s = i /\ Run(RemoveAt(q, 1), q[1].e, j)
<1> DEFINE z == RemoveAt(q, 1)
<1>1. Len(q) \in Nat /\ Len(q) > 0 /\ q # <<>>
  BY LenProperties, EmptySeq
<1>2. z \in Seq(Nodes) /\ Len(z) = Len(q) - 1 /\ \A n \in 1..Len(q) - 1 : z[n] = q[n + 1]
  <2>1. /\ z \in Seq(Nodes) /\ Len(z) = Len(q) - 1
        /\ \A n \in 1..Len(q) - 1 : z[n] = IF n < 1 THEN q[n] ELSE q[n + 1]
    BY RemoveAtFacts
  <2>2. \A n \in 1..Len(q) - 1 : ~(n < 1)
    BY <1>1
  <2> QED
    BY <2>1, <2>2
<1>3. z = <<>> <=> Len(z) = 0
  BY <1>2, EmptySeq
<1> HIDE DEF z
<1>4. q[1].s = i /\ q[Len(q)].e = j
  BY <1>1 DEF Run
<1>5. z = <<>> => q[1].e = j
  <2>1. z = <<>> => Len(q) = 1
    BY <1>1, <1>2, <1>3
  <2> QED
    BY <1>4, <2>1
<1>6. z # <<>> => z[1].s = q[1].e /\ z[Len(z)].e = j
  <2>1. SUFFICES ASSUME z # <<>> PROVE z[1].s = q[1].e /\ z[Len(z)].e = j
    OBVIOUS
  <2>2. 1 \in 1..Len(q) - 1 /\ Len(z) \in 1..Len(q) - 1 /\ Len(z) + 1 = Len(q) /\ 1 + 1 = 2
    BY <1>1, <1>2, <1>3, <2>1
  <2>3. z[1] = q[2] /\ z[Len(z)] = q[Len(q)]
    BY <1>2, <2>2
  <2>4. q[1].e = q[2].s
    BY <2>2 DEF Run
  <2> QED
    BY <1>4, <2>3, <2>4
<1>7. ASSUME NEW n \in 1 .. Len(z) - 1 PROVE z[n].e = z[n + 1].s
  <2>1. n \in 1..Len(q) - 1 /\ n + 1 \in 1..Len(q) - 1
    BY <1>1, <1>2
  <2>2. z[n] = q[n + 1] /\ z[n + 1] = q[(n + 1) + 1]
    BY <1>2, <2>1
  <2> QED
    BY <2>1, <2>2 DEF Run
<1> QED
  BY <1>4, <1>5, <1>6, <1>7 DEF Run, z

(* No segment of a run starts before the run.                              *)
LEMMA RunAbove ==
  ASSUME NEW q \in Seq(Nodes), NEW i \in Nat, NEW j, Run(q, i, j)
  PROVE  \A k \in 1 .. Len(q) : q[k].s >= i
<1> DEFINE n == Len(q)
           T == {k \in 0 .. n : k > 0 => q[k].s >= i}
<1>1. /\ n \in Nat /\ \A k \in 1..n : q[k] \in Nodes
      /\ n > 0 => q # <<>>
  BY ElementsFacts, EmptySeq
<1>2. \A k \in 1..n : q[k].s \in Nat /\ q[k].e \in Nat /\ q[k].s < q[k].e
  BY <1>1 DEF Nodes
<1> HIDE DEF n
<1>3. 0 \in T
  BY <1>1
<1>4. ASSUME NEW k \in 1 .. n, k - 1 \in T PROVE k \in T
  <2>1. CASE k = 1
    <3>1. q[1].s = i
      BY <1>1, <2>1 DEF Run
    <3> QED
      BY <1>1, <2>1, <3>1
  <2>2. CASE k # 1
    <3>1. k - 1 \in 1 .. n - 1 /\ k - 1 \in 1 .. n /\ k - 1 > 0 /\ (k - 1) + 1 = k /\ k \in 0 .. n
      BY <1>1, <2>2
    <3>2. q[k - 1].e = q[k].s
      BY <3>1 DEF Run, n
    <3>3. q[k - 1].s >= i
      BY <1>4, <3>1
    <3>4. q[k].s >= i
      BY <1>2, <3>1, <3>2, <3>3
    <3> QED
      BY <3>1, <3>4
  <2> QED
    BY <2>1, <2>2
<1> HIDE DEF T
<1>5. 0 .. n \subseteq T
  BY <1>1, <1>3, <1>4, InductionTo
<1>6. ASSUME NEW k \in 1 .. n PROVE q[k].s >= i
  <2>1. k \in 0 .. n /\ k > 0
    BY <1>1
  <2> QED
    BY <1>5, <2>1 DEF T
<1> QED
  BY <1>6 DEF n

(* An ACK that asks for more than those before it follows them.            *)
LEMMA RisingAppend ==
  ASSUME NEW q \in Seq(Acks), NEW i \in Nat, NEW j \in Nat, Rising(q, i, j),
         NEW c \in Acks, j < c.ackno, c.sack = <<>>
  PROVE  Rising(Append(q, c), i, c.ackno)
<1> DEFINE z == Append(q, c)
<1>0. DOMAIN q = 1..Len(q)
  BY LenProperties
<1>1. Len(q) \in Nat /\ (q = <<>> <=> Len(q) = 0)
  BY LenProperties, EmptySeq
<1>2. /\ z \in Seq(Acks) /\ Len(z) = Len(q) + 1 /\ z # <<>>
      /\ \A n \in 1..Len(q) : z[n] = q[n]
      /\ z[Len(q) + 1] = c
  BY AppendProperties
<1>3. DOMAIN z = 1..Len(q) + 1
  BY <1>2, LenProperties
<1> HIDE DEF z
<1>4. \A n \in DOMAIN z : z[n].sack = <<>>
  <2>1. ASSUME NEW n \in 1..Len(q) + 1 PROVE z[n].sack = <<>>
    <3>1. CASE n = Len(q) + 1
      BY <1>2, <3>1
    <3>2. CASE n # Len(q) + 1
      <4>1. n \in 1..Len(q)
        BY <1>1, <3>2
      <4> QED
        BY <1>0, <1>2, <4>1 DEF Rising
    <3> QED
      BY <3>1, <3>2
  <2> QED
    BY <1>3, <2>1
<1>5. CASE q = <<>>
  <2>1. i = j /\ Len(z) = 1 /\ z[1] = c
    BY <1>1, <1>2, <1>5 DEF Rising
  <2> QED
    BY <1>2, <1>4, <2>1 DEF Rising, z
<1>6. CASE q # <<>>
  <2>1. 1 \in 1..Len(q) /\ Len(q) \in 1..Len(q)
    BY <1>1, <1>6
  <2>2. i < z[1].ackno /\ z[Len(z)].ackno = c.ackno
    BY <1>2, <1>6, <2>1 DEF Rising
  <2>3. ASSUME NEW n \in 1 .. Len(z) - 1 PROVE z[n].ackno < z[n + 1].ackno
    <3>0. Len(z) - 1 = Len(q)
      BY <1>1, <1>2
    <3>1. CASE n = Len(q)
      BY <1>2, <1>6, <2>1, <3>1 DEF Rising
    <3>2. CASE n # Len(q)
      <4>1. n \in 1..Len(q) - 1 /\ n \in 1..Len(q) /\ n + 1 \in 1..Len(q)
        BY <1>1, <3>0, <3>2
      <4> QED
        BY <1>2, <4>1 DEF Rising
    <3> QED
      BY <3>1, <3>2
  <2> QED
    BY <1>2, <1>4, <2>2, <2>3 DEF Rising, z
<1> QED
  BY <1>5, <1>6

(* The first one is taken out.                                             *)
LEMMA RisingRest ==
  ASSUME NEW q \in Seq(Acks), NEW i, NEW j, Rising(q, i, j), 1 \in 1 .. Len(q)
  PROVE  i < q[1].ackno /\ q[1].sack = <<>> /\ Rising(RemoveAt(q, 1), q[1].ackno, j)
<1> DEFINE z == RemoveAt(q, 1)
<1>0. DOMAIN q = 1..Len(q)
  BY LenProperties
<1>1. Len(q) \in Nat /\ Len(q) > 0 /\ q # <<>>
  BY LenProperties, EmptySeq
<1>2. z \in Seq(Acks) /\ Len(z) = Len(q) - 1 /\ \A n \in 1..Len(q) - 1 : z[n] = q[n + 1]
  <2>1. /\ z \in Seq(Acks) /\ Len(z) = Len(q) - 1
        /\ \A n \in 1..Len(q) - 1 : z[n] = IF n < 1 THEN q[n] ELSE q[n + 1]
    BY RemoveAtFacts
  <2>2. \A n \in 1..Len(q) - 1 : ~(n < 1)
    BY <1>1
  <2> QED
    BY <2>1, <2>2
<1>3. z = <<>> <=> Len(z) = 0
  BY <1>2, EmptySeq
<1>9. DOMAIN z = 1..Len(q) - 1
  BY <1>2, LenProperties
<1> HIDE DEF z
<1>4. i < q[1].ackno /\ q[Len(q)].ackno = j /\ q[1].sack = <<>>
  <2>1. 1 \in DOMAIN q
    BY <1>0
  <2> QED
    BY <1>1, <2>1 DEF Rising
<1>5. z = <<>> => q[1].ackno = j
  <2>1. z = <<>> => Len(q) = 1
    BY <1>1, <1>2, <1>3
  <2> QED
    BY <1>4, <2>1
<1>6. z # <<>> => q[1].ackno < z[1].ackno /\ z[Len(z)].ackno = j
  <2>1. SUFFICES ASSUME z # <<>> PROVE q[1].ackno < z[1].ackno /\ z[Len(z)].ackno = j
    OBVIOUS
  <2>2. 1 \in 1..Len(q) - 1 /\ Len(z) \in 1..Len(q) - 1 /\ Len(z) + 1 = Len(q) /\ 1 + 1 = 2
    BY <1>1, <1>2, <1>3, <2>1
  <2>3. z[1] = q[2] /\ z[Len(z)] = q[Len(q)]
    BY <1>2, <2>2
  <2>4. q[1].ackno < q[2].ackno
    BY <2>2 DEF Rising
  <2> QED
    BY <1>4, <2>3, <2>4
<1>7. ASSUME NEW n \in 1 .. Len(z) - 1 PROVE z[n].ackno < z[n + 1].ackno
  <2>1. n \in 1..Len(q) - 1 /\ n + 1 \in 1..Len(q) - 1
    BY <1>1, <1>2
  <2>2. z[n] = q[n + 1] /\ z[n + 1] = q[(n + 1) + 1]
    BY <1>2, <2>1
  <2> QED
    BY <2>1, <2>2 DEF Rising
<1>8. \A n \in DOMAIN z : z[n].sack = <<>>
  <2>1. ASSUME NEW n \in 1..Len(q) - 1 PROVE z[n].sack = <<>>
    <3>1. n + 1 \in 1..Len(q)
      BY <1>1
    <3> QED
      BY <1>0, <1>2, <3>1 DEF Rising
  <2> QED
    BY <1>9, <2>1
<1> QED
  BY <1>4, <1>5, <1>6, <1>7, <1>8 DEF Rising, z


-----------------------------------------------------------------------------
(* A sender to whose network nothing happens.                              *)

Quiet(r) == r.t = r.max /\ r.board.fifo = <<>>

(* It has no hole to fill.                                                 *)
LEMMA QuietNoHole ==
  ASSUME NEW r, Sender(r), Quiet(r)
  PROVE  ~InHole(r)
<1>1. Sound(r.board) /\ r.h \in Int
  BY DEF Sender, Senders, Scored, Boards
<1>2. HoleExact(r.board, r.h) /\ Hole(r) = NextHole(r.board, r.h)
  BY <1>1, NextHoleFacts DEF Hole
<1>3. ToSet(r.board.fifo) = {}
  BY EmptySeq DEF Quiet, ToSet
<1>4. Hole(r).hole = -1
  BY <1>2, <1>3 DEF HoleExact
<1> QED
  BY <1>4 DEF InHole

(* All that send_much sends follows what was sent before.                  *)
LEMMA SendMuchQuiet ==
  ASSUME NEW s, Sender(s), Quiet(s), NEW m \in Nat, Run(s.out, m, s.max),
         NEW force \in BOOLEAN, NEW w \in 1 .. MaxWindow
  PROVE  LET x == SendMuch(s, force, w) IN Quiet(x) /\ Run(x.out, m, x.max)
<1> DEFINE S == {r \in Senders : Sender(r) /\ Quiet(r) /\ Run(r.out, m, r.max)}
<1>1. s \in S
  BY DEF Sender
<1>2. ASSUME NEW r \in S, NEW f \in BOOLEAN, Goes(r, f, w)
      PROVE  Round(r, w) \in S
  <2> DEFINE seq == NxtTseq(r)
             n == Outputs(r, seq, w)
             x == Round(r, w)
  <2>1. Sender(r) /\ Quiet(r) /\ Run(r.out, m, r.max) /\ n > 0
    BY <1>2 DEF Goes
  <2>2. Sender(x) /\ Sends(r, x, seq, n)
    BY <2>1, RoundFacts
  <2>3. ~InHole(r)
    BY <2>1, QuietNoHole
  <2>4. r \in Senders /\ r.max \in Nat /\ r.una \in Nat /\ Numbers(r) /\ Scored(r) /\ r.out \in Seq(Nodes)
    BY <2>1 DEF Sender, Senders
  <2>5. seq = r.max /\ seq \in Nat /\ r.una <= seq
    <3>1. seq = r.t /\ seq \in Nat /\ r.una <= seq
      BY <2>3, <2>4, NxtFacts
    <3> QED
      BY <2>1, <3>1 DEF Quiet
  <2> HIDE DEF seq
  <2>6. n \in Nat /\ n > 0
    BY <2>1, <2>4, <2>5, OutputsFacts
  <2> HIDE DEF n, x
  <2>7. /\ x.out = Append(r.out, Block(seq, seq + n)) /\ x.board = r.board
        /\ x.t = IF seq = r.t THEN r.t + n ELSE r.t
        /\ x.max = Largest(r.max, seq + n)
    BY <2>2 DEF Sends, Same
  <2>8. x.max = r.max + n /\ x.t = r.max + n
    BY <2>1, <2>4, <2>5, <2>6, <2>7 DEF Quiet, Largest
  <2>9. Run(x.out, m, x.max)
    <3>1. Run(Append(r.out, Block(r.max, r.max + n)), m, r.max + n)
      BY <2>1, <2>4, <2>6, RunAppend
    <3> QED
      BY <2>5, <2>7, <2>8, <3>1
  <2>10. Quiet(x)
    BY <2>1, <2>7, <2>8 DEF Quiet
  <2> QED
    BY <2>2, <2>9, <2>10 DEF Sender, x
<1>3. Closed(S, w)
  BY <1>2 DEF Closed
<1> DEFINE k == Rounds(s)
<1>4. k \in Nat /\ k \in 0 .. k
  BY RoundsNat
<1> HIDE DEF S, k
<1>5. PICK h \in [0 .. k -> S] :
           Takes(h, s, force, w) /\ SendMuch(s, force, w) = At(h[k])
  BY <1>1, <1>3, <1>4, SendMuchSteps DEF k
<1>6. h[k] \in S
  BY <1>4, <1>5
<1> DEFINE g == h[k]
<1>7. Sender(g) /\ Quiet(g) /\ Run(g.out, m, g.max)
  BY <1>6 DEF S
<1> HIDE DEF g
<1>8. /\ At(g).t = g.t /\ At(g).max = g.max /\ At(g).out = g.out /\ At(g).board = g.board
  BY <1>7, AtFacts DEF Same
<1>9. Quiet(At(g)) /\ Run(At(g).out, m, At(g).max)
  BY <1>7, <1>8 DEF Quiet
<1> QED
  BY <1>5, <1>9 DEF g

(* Nothing has been put out yet.                                           *)
LEMMA EmptyRun ==
  ASSUME NEW m
  PROVE  Run(<<>>, m, m)
<1>1. \A k \in 1 .. Len(<<>>) - 1 : FALSE
  OBVIOUS
<1> QED
  BY <1>1 DEF Run

(* An ACK that advances and carries no block.                              *)
LEMMA OnAckQuiet ==
  ASSUME NEW s, Sender(s), Quiet(s), s.out = <<>>, NEW a, a.sack = <<>>,
         a.ackno \in Nat, s.una < a.ackno, a.ackno <= s.max,
         NEW ecn \in BOOLEAN, NEW w \in 1 .. MaxWindow
  PROVE  LET x == OnAck(s, a, ecn, w) IN Quiet(x) /\ Run(x.out, s.max, x.max)
<1> DEFINE told == AfterSack(s, a)
           new == Advanced(told, a.ackno)
           f == a.ackno = told.max
<1>1. /\ s \in Senders /\ s.una \in Nat /\ s.max \in Nat /\ s.t \in Nat
      /\ s.board \in Boards(s.una) /\ Scored(s)
  BY DEF Sender, Senders, Scored
<1>2. <<>> \in Seq(Nodes) /\ ToSet(<<>>) = {} /\ Len(<<>>) = 0 /\ Cover({}) = {}
  BY EmptySeq DEF ToSet, Cover
<1>3. ProcessSack(s.board, a.sack) = s.board
  <2>1. s.una \notin Cover(ToSet(<<>>))
    BY <1>2
  <2>2. PICK h \in [0 .. Len(<<>>) -> Boards(s.una)] :
             Told(h, s.board, <<>>) /\ ProcessSack(s.board, <<>>) = h[Len(<<>>)]
    BY <1>1, <1>2, <2>1, ProcessSackSteps
  <2> QED
    BY <1>2, <2>2 DEF Told
<1>4. /\ Leaves(s, told, s.una, s.board)
      /\ told.max = s.max /\ told.out = s.out /\ told.t = s.t
  BY <1>1, <1>3, AfterSackFacts DEF Scored
<1>5. Acked(s.board, a.ackno) = s.board
  BY DEF Acked, Quiet
<1>6. s.board \in Boards(a.ackno)
  <2>1. Cover(ToSet(s.board.fifo)) = {}
    BY <1>2 DEF Quiet
  <2>2. s.board \in RawQueues /\ Sound(s.board) /\ s.board.nxt \in -1 .. s.una
    BY <1>1 DEF Boards
  <2>3. s.board.nxt \in -1 .. a.ackno
    BY <1>1, <2>2
  <2> QED
    BY <2>1, <2>2, <2>3 DEF Boards
<1>7. /\ told.una < a.ackno /\ Sender(told) /\ told.una = s.una /\ told.board = s.board
  BY <1>4 DEF Leaves
<1>8. OnAck(s, a, ecn, w) = SendMuch(new, f, w)
  BY <1>7 DEF OnAck, AfterSack, Progress, Advanced
<1> HIDE DEF told, new, f
<1>9. /\ Leaves(told, new, a.ackno, s.board)
      /\ new.max = told.max /\ new.out = told.out /\ new.t = Largest(told.t, a.ackno)
  <2>1. /\ Acked(told.board, a.ackno) = s.board /\ Acked(told.board, a.ackno) \in Boards(a.ackno)
        /\ Cover(ToSet(Acked(told.board, a.ackno).fifo)) \subseteq 0 .. told.max - 1
        /\ a.ackno <= told.max
    BY <1>1, <1>4, <1>5, <1>6, <1>7 DEF Scored
  <2>2. LET x == Advanced(told, a.ackno)
        IN  /\ Leaves(told, x, a.ackno, Acked(told.board, a.ackno))
            /\ x.max = told.max /\ x.out = told.out /\ x.t = Largest(told.t, a.ackno)
    BY <1>7, <2>1, AdvancedFacts
  <2> QED
    BY <2>1, <2>2 DEF new
<1>10. Sender(new) /\ Quiet(new) /\ Run(new.out, s.max, new.max)
  <2>1. Largest(s.t, a.ackno) = s.max
    BY <1>1 DEF Quiet, Largest
  <2>2. new.t = s.max /\ new.max = s.max /\ new.out = <<>> /\ new.board = s.board /\ Sender(new)
    BY <1>4, <1>9, <2>1 DEF Leaves
  <2> QED
    BY <2>2, EmptyRun DEF Quiet
<1>11. f \in BOOLEAN
  BY DEF f
<1>12. LET x == SendMuch(new, f, w) IN Quiet(x) /\ Run(x.out, s.max, x.max)
  BY <1>1, <1>10, <1>11, SendMuchQuiet
<1> QED
  BY <1>8, <1>12


-----------------------------------------------------------------------------
(* The steps.                                                              *)

(* Where it must not, nothing is sent a second time.                       *)
NothingAgain ==
  Reliable => \A k \in Len(data) + 1 .. Len(data') : data'[k].s >= snd.max

(* The connection is established, and nothing has been sent.               *)
LEMMA InitSound == Init => IInv
<1> SUFFICES ASSUME Init PROVE IInv
  OBVIOUS
<1>1. /\ mode \in Modes /\ snd = Established /\ rcv = EmptyQueue(1)
      /\ data = <<>> /\ acks = <<>> /\ lost = 0
  BY DEF Init
<1>2. mode.losses \in Nat /\ MaxBytes \in Nat
  BY <1>1, SackTransferAssumption
<1>3. /\ Coherent(EmptyQueue(1), {}, 1, EmptyQueue(-1)) /\ Arrived(EmptyQueue(1)) = 0 .. 1 - 1
  BY EmptyCoherent
<1>4. /\ <<>> \in Seq(Nodes) /\ <<>> \in Seq(Acks) /\ ToSet(<<>>) = {} /\ DOMAIN <<>> = {}
      /\ Cover({}) = {}
  BY EmptySeq DEF ToSet, Cover
<1>5. EmptyQueue(-1) \in RawQueues /\ EmptyQueue(-1) \in Boards(1)
      /\ Cover(ToSet(EmptyQueue(-1).fifo)) = {} /\ EmptyQueue(-1).fifo = <<>>
      /\ EmptyQueue(1).fifo = <<>> /\ EmptyQueue(1).nxt = 1
  BY EmptyFacts DEF EmptyQueue
<1>6. /\ snd \in Senders /\ snd.una = 1 /\ snd.t = 1 /\ snd.max = 1 /\ snd.cur = 0 /\ snd.rec = 0
      /\ snd.h = -1 /\ snd.fast = FALSE /\ snd.pc = FALSE /\ snd.rtx = FALSE
      /\ snd.board = EmptyQueue(-1) /\ snd.out = <<>>
  BY <1>1, <1>4, <1>5 DEF Established, Senders
<1>7. Sender(snd)
  <2>1. Numbers(snd)
    BY <1>6 DEF Numbers
  <2>2. Scored(snd)
    BY <1>5, <1>6 DEF Scored
  <2>3. Emits(snd)
    BY <1>4, <1>6 DEF Emits
  <2>4. Timed(snd)
    BY <1>6 DEF Timed
  <2> QED
    BY <1>6, <2>1, <2>2, <2>3, <2>4 DEF Sender
<1>8. Connected
  <2>1. Coherent(rcv, ToSet(acks), snd.una, snd.board)
    BY <1>1, <1>3, <1>4, <1>6
  <2>2. Arrived(rcv) \subseteq 0 .. snd.max - 1
    BY <1>1, <1>3, <1>6
  <2> QED
    BY <1>1, <1>4, <2>1, <2>2 DEF Connected
<1>9. Tidy
  <2>1. Run(data, rcv.nxt, snd.max)
    BY <1>1, <1>5, <1>6, EmptyRun
  <2>2. Rising(acks, snd.una, rcv.nxt)
    <3>1. \A k \in 1 .. Len(<<>>) - 1 : FALSE
      OBVIOUS
    <3> QED
      BY <1>1, <1>4, <1>5, <1>6, <3>1 DEF Rising
  <2> QED
    BY <1>1, <1>5, <1>6, <2>1, <2>2 DEF Tidy
<1>10. lost \in 0 .. mode.losses /\ snd.cur <= MaxBytes
  BY <1>1, <1>2, <1>6
<1> QED
  BY <1>1, <1>6, <1>7, <1>8, <1>9, <1>10 DEF IInv

(* What an ACK makes of the channel it comes from.                         *)
LEMMA TakenOut ==
  ASSUME NEW S, NEW q \in Seq(S), NEW k \in 1 .. Len(q)
  PROVE  /\ RemoveAt(q, k) \in Seq(S) /\ ToSet(RemoveAt(q, k)) \subseteq ToSet(q)
         /\ \A j \in DOMAIN RemoveAt(q, k) : \E i \in DOMAIN q : RemoveAt(q, k)[j] = q[i]
         /\ Len(RemoveAt(q, k)) = Len(q) - 1
<1> DEFINE z == RemoveAt(q, k)
<1>1. /\ z \in Seq(S) /\ Len(z) = Len(q) - 1
      /\ \A j \in 1..Len(q) - 1 : z[j] = IF j < k THEN q[j] ELSE q[j + 1]
  BY RemoveAtFacts
<1>2. Len(q) \in Nat /\ DOMAIN q = 1..Len(q)
  BY LenProperties
<1> HIDE DEF z
<1>3. DOMAIN z = 1..Len(q) - 1
  BY <1>1, LenProperties
<1>4. ASSUME NEW j \in DOMAIN z PROVE \E i \in DOMAIN q : z[j] = q[i]
  <2>1. j \in 1..Len(q) - 1 /\ j \in 1..Len(q) /\ j + 1 \in 1..Len(q)
    BY <1>2, <1>3
  <2>2. z[j] = q[j] \/ z[j] = q[j + 1]
    BY <1>1, <2>1
  <2> QED
    BY <1>2, <2>1, <2>2
<1>5. ToSet(z) \subseteq ToSet(q)
  BY <1>4 DEF ToSet
<1> QED
  BY <1>1, <1>4, <1>5 DEF z

(* A handler of the sender that leaves x and the ACKs acks' keeps the      *)
(* invariant.                                                              *)
LEMMA HandlerSound ==
  ASSUME IInv, NEW x, Sender(x), snd.max <= x.max, x.cur <= MaxBytes, Becomes(x),
         mode' = mode, rcv' = rcv, lost' = lost,
         acks' \in Seq(Acks), Coherent(rcv, ToSet(acks'), x.una, x.board),
         Reliable => /\ Quiet(x) /\ Run(x.out, snd.max, x.max)
                     /\ Rising(acks', x.una, rcv.nxt)
  PROVE  IInv' /\ NothingAgain
<1>1. snd' = Settled(x) /\ data' = data \o x.out
  BY DEF Becomes, Settled
<1>2. /\ Sender(snd') /\ snd'.una = x.una /\ snd'.t = x.t /\ snd'.max = x.max
      /\ snd'.cur = x.cur /\ snd'.board = x.board /\ snd'.out = <<>>
  BY <1>1, SettledFacts
<1>3. /\ data \in Seq(Nodes) /\ \A k \in DOMAIN data : data[k].e <= snd.max
      /\ snd.max \in Nat /\ Arrived(rcv) \subseteq 0 .. snd.max - 1
      /\ x.max \in Nat /\ x.out \in Seq(Nodes)
  BY DEF IInv, Connected, Sender, Senders
<1>4. /\ data' \in Seq(Nodes) /\ \A k \in DOMAIN data' : data'[k].e <= x.max
  <2> DEFINE m == snd.max
  <2>1. /\ data \o x.out \in Seq(Nodes)
        /\ \A k \in DOMAIN (data \o x.out) : (data \o x.out)[k].e <= x.max
    <3>1. m \in Nat /\ (\A k \in DOMAIN data : data[k].e <= m) /\ m <= x.max
      BY <1>3
    <3> HIDE DEF m
    <3> QED
      BY <1>3, <3>1, UnderWay
  <2> QED
    BY <1>1, <2>1
<1>5. Connected'
  <2>1. 0 .. snd.max - 1 \subseteq 0 .. x.max - 1
    BY <1>3
  <2>2. Coherent(rcv', ToSet(acks'), snd'.una, snd'.board)
    BY <1>2
  <2>3. Arrived(rcv') \subseteq 0 .. snd'.max - 1
    BY <1>2, <1>3, <2>1
  <2> QED
    BY <1>2, <1>4, <2>2, <2>3 DEF Connected
<1>6. ASSUME Reliable PROVE Tidy' /\ NothingAgain
  <2>1. Tidy /\ Quiet(x) /\ Run(x.out, snd.max, x.max) /\ Rising(acks', x.una, rcv.nxt)
    BY <1>6 DEF IInv
  <2>2. Run(data', rcv.nxt, x.max)
    <3>1. Run(data, rcv.nxt, snd.max)
      BY <2>1 DEF Tidy
    <3> QED
      BY <1>1, <1>3, <2>1, <3>1, RunConcat
  <2>3. snd'.t = snd'.max /\ snd'.board.fifo = <<>> /\ rcv'.fifo = <<>>
    BY <1>2, <2>1 DEF Quiet, Tidy
  <2>4. Tidy'
    BY <1>2, <2>1, <2>2, <2>3 DEF Tidy
  <2>5. \A k \in 1 .. Len(x.out) : x.out[k].s >= snd.max
    BY <1>3, <2>1, RunAbove
  <2>6. ASSUME NEW k \in Len(data) + 1 .. Len(data') PROVE data'[k].s >= snd.max
    <3> DEFINE o == x.out
               d == k - Len(data)
    <3>1. Len(data) \in Nat /\ Len(o) \in Nat
      BY <1>3, LenProperties
    <3>2. /\ Len(data') = Len(data) + Len(o)
          /\ \A i \in 1 .. Len(data) + Len(o) :
               data'[i] = IF i <= Len(data) THEN data[i] ELSE o[i - Len(data)]
      BY <1>1, <1>3, ConcatProperties
    <3> HIDE DEF o
    <3>3. /\ k \in 1 .. Len(data) + Len(o) /\ ~(k <= Len(data)) /\ d \in 1 .. Len(o)
      BY <3>1, <3>2
    <3>4. data'[k] = o[d]
      BY <3>2, <3>3
    <3> QED
      BY <2>5, <3>3, <3>4 DEF o
  <2> QED
    BY <2>4, <2>6 DEF NothingAgain
<1>7. Reliable' <=> Reliable
  BY DEF Reliable
<1>8. (Reliable => Tidy)' /\ NothingAgain
  BY <1>6, <1>7 DEF NothingAgain
<1>9. /\ mode' \in Modes /\ lost' \in 0 .. mode'.losses /\ snd'.cur <= MaxBytes
  BY <1>2 DEF IInv
<1> QED
  BY <1>2, <1>5, <1>8, <1>9 DEF IInv

(* The same for a step of the network, which leaves the sender alone.      *)
LEMMA NetworkSound ==
  ASSUME IInv, snd' = snd, mode' = mode, lost' \in 0 .. mode.losses, Connected',
         Reliable => Tidy', Len(data') <= Len(data)
  PROVE  IInv' /\ NothingAgain
<1>1. Reliable' <=> Reliable
  BY DEF Reliable
<1>2. Sender(snd') /\ snd'.cur <= MaxBytes /\ snd'.out = <<>> /\ mode' \in Modes
  BY DEF IInv
<1>3. Len(data) \in Nat /\ Len(data') \in Nat
  <2>1. data \in Seq(Nodes) /\ data' \in Seq(Nodes)
    BY DEF IInv, Connected
  <2> QED
    BY <2>1, LenProperties
<1>4. \A k \in Len(data) + 1 .. Len(data') : FALSE
  BY <1>3
<1>5. NothingAgain
  BY <1>4 DEF NothingAgain
<1> QED
  BY <1>1, <1>2, <1>5 DEF IInv


(* What IInv says, for the steps.                                          *)
LEMMA InvariantFacts ==
  ASSUME IInv
  PROVE  /\ Sender(snd) /\ snd.out = <<>> /\ snd.cur <= MaxBytes
         /\ snd.una \in Nat /\ snd.max \in Nat /\ snd.cur \in Nat /\ snd.rtx \in BOOLEAN
         /\ Coherent(rcv, ToSet(acks), snd.una, snd.board)
         /\ Waits(rcv) /\ rcv.nxt \in Nat /\ rcv.nxt <= snd.max
         /\ Arrived(rcv) \subseteq 0 .. snd.max - 1
         /\ data \in Seq(Nodes) /\ acks \in Seq(Acks)
         /\ \A k \in DOMAIN data : data[k].e <= snd.max
         /\ Reliable => Tidy /\ Quiet(snd)
<1>1. /\ Sender(snd) /\ snd.out = <<>> /\ snd.cur <= MaxBytes
      /\ Coherent(rcv, ToSet(acks), snd.una, snd.board)
      /\ Arrived(rcv) \subseteq 0 .. snd.max - 1
      /\ data \in Seq(Nodes) /\ acks \in Seq(Acks)
      /\ \A k \in DOMAIN data : data[k].e <= snd.max
      /\ Reliable => Tidy
  BY DEF IInv, Connected
<1>2. snd.una \in Nat /\ snd.max \in Nat /\ snd.cur \in Nat /\ snd.rtx \in BOOLEAN
  BY <1>1 DEF Sender, Senders
<1>3. Waits(rcv) /\ rcv.nxt \in Nat
  BY <1>1 DEF Coherent, Waits
<1>4. rcv.nxt <= snd.max
  BY <1>1, <1>2, <1>3, NxtSent
<1>5. Reliable => Quiet(snd)
  BY <1>1 DEF Tidy, Quiet
<1> QED
  BY <1>1, <1>2, <1>3, <1>4, <1>5

LEMMA AdvanceBytesSound ==
  ASSUME IInv, NEW nb \in Messages, NEW w \in 1 .. MaxWindow, AdvanceBytes(nb, w)
  PROVE  IInv' /\ NothingAgain
<1> DEFINE c == [snd EXCEPT !.cur = @ + nb]
           x == SendMuch(c, FALSE, w)
<1>1. /\ snd.cur + nb <= MaxBytes /\ Becomes(x)
      /\ mode' = mode /\ rcv' = rcv /\ acks' = acks /\ lost' = lost
  BY DEF AdvanceBytes
<1>2. nb \in Nat
  BY SackTransferAssumption
<1>3. /\ Sender(snd) /\ snd.max \in Nat /\ snd.out = <<>>
  BY InvariantFacts
<1>4. /\ Sender(c) /\ c.una = snd.una /\ c.board = snd.board /\ c.cur = snd.cur + nb
      /\ c.max = snd.max /\ c.t = snd.t /\ c.out = snd.out
  BY <1>2, <1>3, WrittenFacts
<1> HIDE DEF c, x
<1>5. Sender(x) /\ Same(c, x) /\ c.max <= x.max
  BY <1>4, SendMuchFacts DEF x
<1>6. /\ Sender(x) /\ x.una = snd.una /\ x.board = snd.board /\ x.cur <= MaxBytes
      /\ snd.max <= x.max
  BY <1>1, <1>4, <1>5 DEF Same
<1>7. acks' \in Seq(Acks) /\ Coherent(rcv, ToSet(acks'), x.una, x.board)
  BY <1>1, <1>6, InvariantFacts
<1>8. ASSUME Reliable
      PROVE  /\ Quiet(x) /\ Run(x.out, snd.max, x.max)
             /\ Rising(acks', x.una, rcv.nxt)
  <2>1. Tidy /\ Quiet(snd)
    BY <1>8, InvariantFacts
  <2>2. Quiet(c) /\ Run(c.out, snd.max, c.max)
    BY <1>3, <1>4, <2>1, EmptyRun DEF Quiet
  <2> DEFINE m == snd.max
  <2>3. m \in Nat /\ Run(c.out, m, c.max)
    BY <1>3, <2>2
  <2> HIDE DEF m
  <2>4. Quiet(x) /\ Run(x.out, m, x.max)
    BY <1>4, <2>2, <2>3, SendMuchQuiet DEF x
  <2> QED
    BY <1>1, <1>6, <2>1, <2>4 DEF Tidy, m
<1> QED
  BY <1>1, <1>6, <1>7, <1>8, HandlerSound

LEMMA TimeoutSound ==
  ASSUME IInv, NEW w \in 1 .. MaxWindow, Timeout(w)
  PROVE  IInv' /\ NothingAgain
<1> DEFINE c == TimeoutAction(snd)
           x == SendMuch(c, TRUE, w)
           B == IF mode.clear THEN Cleared(snd.una) ELSE snd.board
<1>1. /\ snd.rtx /\ Becomes(x)
      /\ mode' = mode /\ rcv' = rcv /\ acks' = acks /\ lost' = lost
  BY DEF Timeout, TimerRuns
<1>2. /\ Sender(snd) /\ snd.max \in Nat /\ snd.out = <<>> /\ snd.cur <= MaxBytes
      /\ Coherent(rcv, ToSet(acks), snd.una, snd.board)
  BY InvariantFacts
<1>3. /\ Leaves(snd, c, snd.una, B) /\ c.max = snd.max /\ c.out = snd.out
      /\ mode.lossless => c.t = snd.t
  BY <1>1, <1>2, TimeoutActionFacts
<1>4. Coherent(rcv, ToSet(acks), snd.una, B)
  BY <1>2, ClearedCoherent
<1>5. mode.clear => B.fifo = <<>>
  BY DEF Cleared, EmptyQueue
<1>6. ~mode.clear => B = snd.board
  OBVIOUS
<1> HIDE DEF c, x, B
<1>7. Leaves(snd, x, snd.una, B)
  BY <1>2, <1>3, LeavesSendMuch DEF x
<1>8. Sender(x) /\ snd.max <= x.max /\ x.cur <= MaxBytes /\ x.una = snd.una /\ x.board = B
  BY <1>2, <1>7 DEF Leaves
<1>9. acks' \in Seq(Acks) /\ Coherent(rcv, ToSet(acks'), x.una, x.board)
  BY <1>1, <1>4, <1>8, InvariantFacts
<1>10. ASSUME Reliable
       PROVE  /\ Quiet(x) /\ Run(x.out, snd.max, x.max)
              /\ Rising(acks', x.una, rcv.nxt)
  <2>1. Tidy /\ Quiet(snd) /\ mode.lossless
    BY <1>10, InvariantFacts DEF Reliable
  <2>2. Quiet(c) /\ Run(c.out, snd.max, c.max) /\ Sender(c)
    BY <1>2, <1>3, <1>5, <1>6, <2>1, EmptyRun DEF Quiet, Leaves
  <2> DEFINE m == snd.max
  <2>3. m \in Nat /\ Run(c.out, m, c.max)
    BY <1>2, <2>2
  <2> HIDE DEF m
  <2>4. Quiet(x) /\ Run(x.out, m, x.max)
    BY <2>2, <2>3, SendMuchQuiet DEF x
  <2> QED
    BY <1>1, <1>8, <2>1, <2>4 DEF Tidy, m
<1> QED
  BY <1>1, <1>8, <1>9, <1>10, HandlerSound

LEMMA RecvAckSound ==
  ASSUME IInv, NEW k \in Near(acks), NEW ecn \in BOOLEAN, NEW w \in 1 .. MaxWindow,
         RecvAck(k, ecn, w)
  PROVE  IInv' /\ NothingAgain
<1> DEFINE a == acks[k]
           v == IF a.ackno > snd.una THEN a.ackno ELSE snd.una
           x == OnAck(snd, a, ecn, w)
<1>1. /\ Becomes(x) /\ acks' = RemoveAt(acks, k)
      /\ mode' = mode /\ rcv' = rcv /\ lost' = lost
  BY DEF RecvAck
<1>2. /\ Sender(snd) /\ snd.max \in Nat /\ snd.out = <<>> /\ snd.cur <= MaxBytes
      /\ Coherent(rcv, ToSet(acks), snd.una, snd.board)
      /\ Arrived(rcv) \subseteq 0 .. snd.max - 1
      /\ acks \in Seq(Acks) /\ rcv.nxt \in Nat /\ rcv.nxt <= snd.max
  BY InvariantFacts
<1>3. k \in 1 .. Len(acks)
  <2>1. mode.depth \in Nat /\ Len(acks) \in Nat
    BY <1>2, SackTransferAssumption, LenProperties DEF IInv
  <2> QED
    BY <2>1 DEF Near, Smallest
<1>4. a \in ToSet(acks) /\ a \in Acks
  BY <1>2, <1>3, ElementsFacts
<1>5. /\ acks' \in Seq(Acks) /\ ToSet(acks') \subseteq ToSet(acks)
  BY <1>1, <1>2, <1>3, TakenOut
<1>6. a.ackno \in Nat /\ a.ackno <= rcv.nxt /\ a.ackno <= snd.max
  <2>1. Truthful(a, rcv)
    BY <1>2, <1>4 DEF Coherent
  <2>2. a.ackno \in 0 .. rcv.nxt
    BY <2>1 DEF Truthful
  <2> QED
    BY <1>2, <2>2
<1> HIDE DEF a, x
<1>7. Answered(rcv, ToSet(acks), snd, x, a)
  BY <1>2, <1>4, OnAckFacts DEF x
<1>8. PICK B : Leaves(snd, x, v, B) /\ Coherent(rcv, ToSet(acks), v, B)
  BY <1>7 DEF Answered
<1> HIDE DEF v
<1>9. Sender(x) /\ snd.max <= x.max /\ x.cur <= MaxBytes /\ x.una = v /\ x.board = B
  BY <1>2, <1>8 DEF Leaves
<1>10. Coherent(rcv, ToSet(acks'), x.una, x.board)
  BY <1>5, <1>8, <1>9, FewerCoherent
<1>11. ASSUME Reliable
       PROVE  /\ Quiet(x) /\ Run(x.out, snd.max, x.max)
              /\ Rising(acks', x.una, rcv.nxt)
  <2>1. Tidy /\ Quiet(snd) /\ mode.depth = 1
    BY <1>11, InvariantFacts DEF Reliable
  <2>2. k = 1 /\ 1 \in 1 .. Len(acks)
    <3>1. Len(acks) \in Nat
      BY <1>2, LenProperties
    <3> QED
      BY <1>3, <2>1, <3>1 DEF Near, Smallest
  <2>3. Rising(acks, snd.una, rcv.nxt)
    BY <2>1 DEF Tidy
  <2>4. /\ snd.una < acks[1].ackno /\ acks[1].sack = <<>>
        /\ Rising(RemoveAt(acks, 1), acks[1].ackno, rcv.nxt)
    <3> DEFINE u == snd.una
               n == rcv.nxt
    <3> HIDE DEF u, n
    <3>1. Rising(acks, u, n)
      BY <2>3 DEF u, n
    <3>2. u < acks[1].ackno /\ acks[1].sack = <<>> /\ Rising(RemoveAt(acks, 1), acks[1].ackno, n)
      BY <1>2, <2>2, <3>1, RisingRest
    <3> QED
      BY <3>2 DEF u, n
  <2>5. snd.una < a.ackno /\ a.sack = <<>> /\ Rising(acks', a.ackno, rcv.nxt)
    BY <1>1, <2>2, <2>4 DEF a
  <2>6. Quiet(x) /\ Run(x.out, snd.max, x.max)
    BY <1>2, <1>6, <2>1, <2>5, OnAckQuiet DEF x
  <2>7. v = a.ackno
    <3>1. snd.una \in Nat
      BY InvariantFacts
    <3> QED
      BY <1>6, <2>5, <3>1 DEF v
  <2> QED
    BY <1>9, <2>5, <2>6, <2>7
<1> QED
  BY <1>1, <1>5, <1>9, <1>10, <1>11, HandlerSound

LEMMA RecvDataSound ==
  ASSUME IInv, NEW k \in Near(data), RecvData(k)
  PROVE  IInv' /\ NothingAgain
<1> DEFINE s == data[k].s
           e == data[k].e
           x == Received(rcv, s, e)
           a == AckOf(x)
<1>1. /\ rcv' = x /\ data' = RemoveAt(data, k) /\ acks' = Append(acks, a)
      /\ mode' = mode /\ snd' = snd /\ lost' = lost
  BY DEF RecvData
<1>2. /\ snd.max \in Nat /\ Coherent(rcv, ToSet(acks), snd.una, snd.board)
      /\ Arrived(rcv) \subseteq 0 .. snd.max - 1
      /\ data \in Seq(Nodes) /\ acks \in Seq(Acks)
      /\ \A j \in DOMAIN data : data[j].e <= snd.max
      /\ rcv.nxt \in Nat /\ snd.una \in Nat
  BY InvariantFacts
<1>3. k \in 1 .. Len(data) /\ k \in DOMAIN data
  <2>1. mode.depth \in Nat /\ Len(data) \in Nat /\ DOMAIN data = 1 .. Len(data)
    BY <1>2, SackTransferAssumption, LenProperties DEF IInv
  <2> QED
    BY <2>1 DEF Near, Smallest
<1>4. s \in Nat /\ e \in Nat /\ s < e /\ e <= snd.max
  <2>1. data[k] \in Nodes
    BY <1>2, <1>3, ElementsFacts
  <2> QED
    BY <1>2, <1>3, <2>1 DEF Nodes
<1> HIDE DEF s, e
<1>5. /\ Coherent(x, ToSet(acks) \cup {a}, snd.una, snd.board) /\ Waits(x)
      /\ Arrived(x) = Arrived(rcv) \cup (s .. e - 1)
  <2> DEFINE u == snd.una
             w == snd.board
             A == ToSet(acks)
  <2>1. Coherent(rcv, A, u, w)
    BY <1>2
  <2> HIDE DEF u, w, A
  <2>2. LET y == Received(rcv, s, e)
        IN  /\ Coherent(y, A \cup {AckOf(y)}, u, w) /\ Waits(y)
            /\ rcv.nxt <= y.nxt /\ Arrived(y) = Arrived(rcv) \cup (s .. e - 1)
    BY <1>4, <2>1, ReceiveCoherent
  <2> QED
    BY <2>2 DEF u, w, A
<1> HIDE DEF x
<1>6. a \in Acks /\ a.ackno = x.nxt /\ Cover(ToSet(a.sack)) \subseteq Cover(ToSet(x.fifo))
      /\ a.sack \in Seq(Nodes)
  <2>1. Sound(x) /\ x.nxt \in Nat
    BY <1>5 DEF Waits
  <2>2. /\ a.ackno = x.nxt /\ a.sack \in Seq(Nodes)
        /\ Cover(ToSet(a.sack)) \subseteq Cover(ToSet(x.fifo))
    BY <2>1, AckOfFacts
  <2>3. a = [ackno |-> a.ackno, sack |-> a.sack]
    BY DEF AckOf
  <2> HIDE DEF a
  <2> QED
    BY <2>1, <2>2, <2>3 DEF Acks
<1> HIDE DEF a
<1>7. acks' \in Seq(Acks) /\ ToSet(acks') = ToSet(acks) \cup {a}
  BY <1>1, <1>2, <1>6, AppendFacts
<1>8. /\ data' \in Seq(Nodes) /\ Len(data') = Len(data) - 1
      /\ \A j \in DOMAIN data' : \E i \in DOMAIN data : data'[j] = data[i]
  <2> DEFINE z == RemoveAt(data, k)
  <2>1. /\ z \in Seq(Nodes) /\ Len(z) = Len(data) - 1
        /\ \A j \in DOMAIN z : \E i \in DOMAIN data : z[j] = data[i]
    BY <1>2, <1>3, TakenOut
  <2> HIDE DEF z
  <2>2. data' = z
    BY <1>1 DEF z
  <2> QED
    BY <2>1, <2>2
<1>9. Connected'
  <2>1. Arrived(rcv') \subseteq 0 .. snd'.max - 1
    <3>1. s .. e - 1 \subseteq 0 .. snd.max - 1
      BY <1>2, <1>4
    <3> QED
      BY <1>1, <1>2, <1>5, <3>1
  <2>2. Coherent(rcv', ToSet(acks'), snd'.una, snd'.board)
    BY <1>1, <1>5, <1>7
  <2>3. \A j \in DOMAIN data' : data'[j].e <= snd'.max
    BY <1>1, <1>2, <1>8
  <2> QED
    BY <1>7, <1>8, <2>1, <2>2, <2>3 DEF Connected
<1>10. Len(data') <= Len(data)
  <2>1. Len(data) \in Nat
    BY <1>2, LenProperties
  <2> QED
    BY <1>8, <2>1
<1>11. ASSUME Reliable PROVE Tidy'
  <2>1. Tidy /\ mode.depth = 1
    BY <1>11, InvariantFacts DEF Reliable
  <2>2. k = 1 /\ 1 \in 1 .. Len(data)
    <3>1. Len(data) \in Nat
      BY <1>2, LenProperties
    <3> QED
      BY <1>3, <2>1, <3>1 DEF Near, Smallest
  <2>3. data[1].s = rcv.nxt /\ Run(RemoveAt(data, 1), data[1].e, snd.max)
    <3> DEFINE n == rcv.nxt
               m == snd.max
    <3> HIDE DEF n, m
    <3>1. Run(data, n, m)
      BY <2>1 DEF Tidy, n, m
    <3>2. data[1].s = n /\ Run(RemoveAt(data, 1), data[1].e, m)
      BY <1>2, <2>2, <3>1, RunRest
    <3> QED
      BY <3>2 DEF n, m
  <2>4. s = rcv.nxt /\ Run(data', e, snd.max)
    BY <1>1, <2>2, <2>3 DEF s, e
  <2>5. rcv.fifo = <<>> /\ snd.t = snd.max /\ snd.board.fifo = <<>>
        /\ Rising(acks, snd.una, rcv.nxt)
    BY <2>1 DEF Tidy
  <2>6. x.nxt = e /\ x.fifo = <<>>
    <3>1. ~(e <= rcv.nxt) /\ ~(s < rcv.nxt)
      BY <1>2, <1>4, <2>4
    <3>2. x = [rcv EXCEPT !.nxt = e]
      BY <2>4, <2>5, <3>1 DEF x, Received, Trimmed
    <3>3. rcv \in RawQueues
      BY <1>2, WaitsFacts DEF Coherent
    <3> QED
      BY <2>5, <3>2, <3>3 DEF RawQueues
  <2>7. a.sack = <<>>
    <3>1. Cover(ToSet(x.fifo)) = {}
      BY <2>6, EmptySeq DEF ToSet, Cover
    <3>2. ToSet(a.sack) \subseteq Nodes /\ (a.sack = <<>> <=> ToSet(a.sack) = {})
      BY <1>6, ElementsFacts
    <3>3. \A b \in ToSet(a.sack) : FALSE
      BY <1>6, <3>1, <3>2, EndsCovered
    <3> QED
      BY <3>2, <3>3
  <2>8. Rising(acks', snd.una, e)
    <3> DEFINE u == snd.una
               n == rcv.nxt
    <3>1. u \in Nat /\ n \in Nat /\ Rising(acks, u, n) /\ n < a.ackno /\ a.ackno = e
      BY <1>2, <1>4, <1>6, <2>4, <2>5, <2>6
    <3> HIDE DEF u, n
    <3>2. Rising(Append(acks, a), u, a.ackno)
      BY <1>2, <1>6, <2>7, <3>1, RisingAppend
    <3> QED
      BY <1>1, <3>1, <3>2 DEF u
  <2> QED
    BY <1>1, <2>4, <2>5, <2>6, <2>8 DEF Tidy
<1>12. lost' \in 0 .. mode.losses
  BY <1>1 DEF IInv
<1> QED
  BY <1>1, <1>9, <1>10, <1>11, <1>12, NetworkSound

(* Packets are lost only where that may happen.                            *)
LEMMA LosesOne ==
  ASSUME IInv, lost < mode.losses, lost' = lost + 1
  PROVE  lost' \in 0 .. mode.losses /\ ~Reliable
<1>1. mode.losses \in Nat /\ lost \in 0 .. mode.losses
  BY SackTransferAssumption DEF IInv
<1> QED
  BY <1>1 DEF Reliable

LEMMA LoseDataSound ==
  ASSUME IInv, NEW k \in DOMAIN data, LoseData(k)
  PROVE  IInv' /\ NothingAgain
<1>1. /\ data' = RemoveAt(data, k) /\ mode' = mode /\ snd' = snd /\ rcv' = rcv /\ acks' = acks
      /\ lost' \in 0 .. mode.losses /\ ~Reliable
  BY LosesOne DEF LoseData
<1>2. /\ data \in Seq(Nodes) /\ \A j \in DOMAIN data : data[j].e <= snd.max
  BY InvariantFacts
<1>3. k \in 1 .. Len(data) /\ Len(data) \in Nat
  BY <1>2, LenProperties
<1>4. /\ data' \in Seq(Nodes) /\ Len(data') = Len(data) - 1
      /\ \A j \in DOMAIN data' : \E i \in DOMAIN data : data'[j] = data[i]
  BY <1>1, <1>2, <1>3, TakenOut
<1>5. Connected'
  <2>1. \A j \in DOMAIN data' : data'[j].e <= snd'.max
    BY <1>1, <1>2, <1>4
  <2> QED
    BY <1>1, <1>4, <2>1 DEF IInv, Connected
<1>6. Len(data') <= Len(data)
  BY <1>3, <1>4
<1> QED
  BY <1>1, <1>5, <1>6, NetworkSound

LEMMA LoseAckSound ==
  ASSUME IInv, NEW k \in DOMAIN acks, LoseAck(k)
  PROVE  IInv' /\ NothingAgain
<1>1. /\ acks' = RemoveAt(acks, k) /\ mode' = mode /\ snd' = snd /\ rcv' = rcv /\ data' = data
      /\ lost' \in 0 .. mode.losses /\ ~Reliable
  BY LosesOne DEF LoseAck
<1>2. /\ acks \in Seq(Acks) /\ Coherent(rcv, ToSet(acks), snd.una, snd.board)
      /\ data \in Seq(Nodes)
  BY InvariantFacts
<1>3. k \in 1 .. Len(acks) /\ Len(acks) \in Nat /\ Len(data) \in Nat
  BY <1>2, LenProperties
<1>4. acks' \in Seq(Acks) /\ ToSet(acks') \subseteq ToSet(acks)
  BY <1>1, <1>2, <1>3, TakenOut
<1>5. Connected'
  <2>1. Coherent(rcv, ToSet(acks'), snd.una, snd.board)
    BY <1>2, <1>4, FewerCoherent
  <2> QED
    BY <1>1, <1>4, <2>1 DEF IInv, Connected
<1>6. Len(data') <= Len(data)
  BY <1>1, <1>3
<1> QED
  BY <1>1, <1>5, <1>6, NetworkSound

(* Every step keeps the inductive invariant.                               *)
LEMMA NextSound ==
  ASSUME IInv, Next
  PROVE  IInv' /\ NothingAgain
<1>1. ASSUME NEW nb \in Messages, NEW w \in 1 .. MaxWindow, AdvanceBytes(nb, w)
      PROVE  IInv' /\ NothingAgain
  BY <1>1, AdvanceBytesSound
<1>2. ASSUME NEW k \in Near(data), RecvData(k)
      PROVE  IInv' /\ NothingAgain
  BY <1>2, RecvDataSound
<1>3. ASSUME NEW k \in Near(acks), NEW ecn \in BOOLEAN, NEW w \in 1 .. MaxWindow,
             RecvAck(k, ecn, w)
      PROVE  IInv' /\ NothingAgain
  BY <1>3, RecvAckSound
<1>4. ASSUME NEW w \in 1 .. MaxWindow, Timeout(w)
      PROVE  IInv' /\ NothingAgain
  BY <1>4, TimeoutSound
<1>5. ASSUME NEW k \in DOMAIN data, LoseData(k)
      PROVE  IInv' /\ NothingAgain
  BY <1>5, LoseDataSound
<1>6. ASSUME NEW k \in DOMAIN acks, LoseAck(k)
      PROVE  IInv' /\ NothingAgain
  BY <1>6, LoseAckSound
<1> QED
  BY <1>1, <1>2, <1>3, <1>4, <1>5, <1>6 DEF Next, Write, Arrive, Answer, Expire, Lose

-----------------------------------------------------------------------------
(* The theorems.                                                           *)

(* The inductive invariant holds throughout.                               *)
THEOREM Invariance == Spec => []IInv
<1>1. Init => IInv
  BY InitSound
<1>2. IInv /\ [Next]_vars => IInv'
  <2> SUFFICES ASSUME IInv, [Next]_vars PROVE IInv'
    OBVIOUS
  <2>1. CASE Next
    BY <2>1, NextSound
  <2>2. CASE UNCHANGED vars
    BY <2>2 DEF vars, IInv, Connected, Tidy, Reliable
  <2> QED
    BY <2>1, <2>2
<1> QED
  BY <1>1, <1>2, PTL DEF Spec

(* The sender's numbers are in order and below what was written, and both  *)
(* queues are well-formed: TypeOK.                                         *)
THEOREM TypeCorrect == Spec => []TypeOK
<1>1. IInv => TypeOK
  <2> SUFFICES ASSUME IInv PROVE TypeOK
    OBVIOUS
  <2>1. /\ mode \in Modes /\ lost \in 0 .. mode.losses
        /\ snd \in Senders /\ Numbers(snd) /\ Scored(snd) /\ snd.cur <= MaxBytes /\ snd.out = <<>>
        /\ Waits(rcv) /\ data \in Seq(Nodes)
        /\ \A k \in DOMAIN data : data[k].e <= snd.max
    BY InvariantFacts DEF IInv, Sender
  <2>2. /\ snd.una \in Nat /\ snd.t \in Nat /\ snd.max \in Nat /\ snd.cur \in Nat
        /\ snd.rec \in Nat /\ snd.h \in Int /\ snd.dup \in Nat /\ snd.pipe \in Int
        /\ snd.fast \in BOOLEAN /\ snd.pc \in BOOLEAN /\ snd.rtx \in BOOLEAN
    BY <2>1 DEF Senders
  <2>3. MaxBytes \in Nat
    BY SackTransferAssumption
  <2>4. /\ snd.una <= snd.t /\ snd.t <= snd.max /\ snd.max <= snd.cur + 1
        /\ snd.rec <= snd.max /\ (snd.h = -1 \/ (snd.una <= snd.h /\ snd.h <= snd.max))
    BY <2>1 DEF Numbers
  <2>5. /\ snd.una \in Seqs /\ snd.t \in Seqs /\ snd.max \in Seqs /\ snd.rec \in Seqs
        /\ snd.cur \in 0 .. MaxBytes /\ snd.h \in Seqs \union {-1}
    <3>1. snd.cur \in 0 .. MaxBytes /\ snd.max <= MaxBytes + 1
      BY <2>1, <2>2, <2>3, <2>4
    <3>2. snd.una \in Seqs /\ snd.t \in Seqs /\ snd.max \in Seqs /\ snd.rec \in Seqs
      BY <2>2, <2>3, <2>4, <3>1 DEF Seqs
    <3>3. snd.h \in Seqs \union {-1}
      BY <2>2, <2>3, <2>4, <3>1 DEF Seqs
    <3> QED
      BY <3>1, <3>2, <3>3
  <2>6. WellFormed(snd.board) /\ WellFormed(rcv)
    BY <2>1, SoundWellFormed DEF Scored, Boards, Waits
  <2>7. \A k \in DOMAIN data : data[k].s < data[k].e
    <3>1. \A k \in DOMAIN data : data[k] \in Nodes
      BY <2>1, ElementsFacts
    <3> QED
      BY <3>1 DEF Nodes
  <2> QED
    BY <2>1, <2>2, <2>4, <2>5, <2>6, <2>7 DEF TypeOK
<1> QED
  BY <1>1, Invariance, PTL

(* The retransmission timer is pending exactly while something sent is not *)
(* acknowledged: TimerExact.                                               *)
THEOREM TimerIsExact == Spec => []TimerExact
<1>1. IInv => TimerExact
  BY InvariantFacts DEF TimerExact, Sender, Timed
<1> QED
  BY <1>1, Invariance, PTL

(* Whatever ended a recovery, once all is acknowledged the sender is under *)
(* window control: RecoveryEnds.                                           *)
THEOREM RecoveryAlwaysEnds == Spec => []RecoveryEnds
<1>1. IInv => RecoveryEnds
  BY InvariantFacts DEF RecoveryEnds, Sender, Timed
<1> QED
  BY <1>1, Invariance, PTL

(* While the network neither loses nor reorders, a LosslessTcpAgent sends  *)
(* no byte twice, however often its timer expires: NeverResent.            *)
THEOREM LosslessNeverResends == Spec => NeverResent
<1>1. IInv /\ [Next]_vars
        => [mode.lossless /\ mode.losses = 0 /\ mode.depth = 1
              => \A k \in Len(data) + 1 .. Len(data') : data'[k].s >= snd.max]_vars
  BY NextSound DEF NothingAgain, Reliable
<1> QED
  BY <1>1, Invariance, PTL DEF Spec, NeverResent
==============================================================================
