----------------------------- MODULE SackExchange -----------------------------
(***************************************************************************)
(* The receiver's reassembly queue and the sender's scoreboard when        *)
(* segments of any size, boundary and order arrive, and ACKs may be lost,  *)
(* delayed and overtaken (per packet multipath and priority queues do      *)
(* that).  Which segments are sent is left open: see SackTransfer.         *)
(***************************************************************************)
EXTENDS SackEnds

CONSTANT MaxSeq       \* bytes are numbered 0 .. MaxSeq - 1

ASSUME SackExchangeAssumption == MaxSeq \in Nat

VARIABLES
  rcv,                \* the receiver's rq_; rcv.nxt is rcv_nxt_
  acks,               \* the ACKs under way
  una,                \* the sender's highest_ack_
  board               \* the sender's sq_; board.nxt is sack_min_

vars == <<rcv, acks, una, board>>

Init ==
  /\ rcv = EmptyQueue(0)
  /\ acks = {}
  /\ una = 0
  /\ board = EmptyQueue(-1)

(* A segment arrives and is acknowledged.                                  *)
RecvData(s, e) ==
  /\ rcv' = Received(rcv, s, e)
  /\ acks' = acks \union {AckOf(rcv')}
  /\ UNCHANGED <<una, board>>

(* FullTcpAgent::recv of an ACK: its blocks go to the scoreboard before    *)
(* its number is looked at.                                                *)
RecvAck(a) ==
  LET told == ProcessSack(board, a.sack)
  IN  /\ acks' = acks \ {a}
      /\ una' = IF a.ackno > una THEN a.ackno ELSE una
      /\ board' = IF a.ackno > una THEN Acked(told, una') ELSE told
      /\ UNCHANGED rcv

LoseAck(a) ==
  /\ acks' = acks \ {a}
  /\ UNCHANGED <<rcv, una, board>>

(* The retransmission timer expires with clear_on_timeout_ set.            *)
Timeout ==
  /\ board' = Cleared(una)
  /\ UNCHANGED <<rcv, acks, una>>

Next ==
  \/ \E s, e \in 0 .. MaxSeq : s < e /\ RecvData(s, e)
  \/ \E a \in acks : RecvAck(a) \/ LoseAck(a)
  \/ Timeout

Spec == Init /\ [][Next]_vars

-----------------------------------------------------------------------------
Seqs   == 0 .. MaxSeq
Blocks == [s : Seqs, e : Seqs]
Queues == [fifo : Seq(Blocks), lifo : Seq(Blocks),
           total : Int, nxt : -1 .. MaxSeq]

(* Both queues are queues, ACKs carry at most max_sack_blocks_ blocks.     *)
TypeOK ==
  /\ rcv \in Queues
  /\ board \in Queues
  /\ una \in Seqs
  /\ \A a \in acks :
       /\ a.ackno \in Seqs
       /\ a.sack \in Seq(Blocks) /\ Len(a.sack) <= MaxSackBlocks

(* ReassemblyQueue::add, coalesce and clearto keep both lists and total_   *)
(* in step, whatever overlaps whatever; nothing that is in order waits.    *)
QueuesWellFormed ==
  /\ WellFormed(rcv)
  /\ WellFormed(board)
  /\ rcv.fifo # <<>> => rcv.nxt < Head(rcv.fifo).s

(* What the sender believes the receiver to have, it has: no byte the      *)
(* receiver still misses is taken for SACKed, hence skipped by nexthole,   *)
(* however late the ACK that said so.                                      *)
Held == 0 .. rcv.nxt - 1 \union Bytes(rcv.fifo)

NoFalseSack == 0 .. una - 1 \union Bytes(board.fifo) \subseteq Held

(* add() on the scoreboard moves sack_min_ as if it were rcv_nxt_, also    *)
(* for blocks of overtaken ACKs, and pack_action clears the scoreboard only *)
(* if sack_min_ is below highest_ack_. Still, an ACK that advances leaves   *)
(* nothing on the scoreboard that it acknowledges.                          *)
AckedIsCleared ==
  [][una' > una => \A b \in ToSet(board'.fifo) : b.s >= una']_vars

(* nexthole answers with the least byte at or above seq that no block      *)
(* holds, provided a block reaches up to seq, and counts exactly what the  *)
(* scoreboard has above it: cnts() feeds the thresholds of nxt_tseq.       *)
HolesExact ==
  \A seq \in Seqs :
    LET h     == NextHole(board, seq)
        above == Only(board.fifo, {b \in ToSet(board.fifo) : b.s > h.hole})
    IN  IF \E b \in ToSet(board.fifo) : b.e >= seq
        THEN /\ h.hole >= seq /\ h.hole \notin Bytes(board.fifo)
             /\ seq .. h.hole - 1 \subseteq Bytes(board.fifo)
             /\ h.bytes = IF above = <<>> THEN -1 ELSE SumBytes(above)
             /\ h.blks = IF above = <<>> THEN -1 ELSE Len(above)
        ELSE h.hole = -1

(* The receiver implements the cumulative acknowledgement of a byte        *)
(* stream: nothing that arrived is forgotten, and rcv_nxt_ is the first    *)
(* byte that did not.                                                      *)
Stream == INSTANCE CumulativeAck WITH got <- Held, ack <- rcv.nxt

ReceiverIsCumulative == Stream!Spec
==============================================================================
