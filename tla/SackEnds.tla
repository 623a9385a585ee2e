------------------------------- MODULE SackEnds -------------------------------
(***************************************************************************)
(* What the two ends of a SACK connection (FullTcpAgent and                *)
(* SackFullTcpAgent of tcp/tcp-full.cc) do with their ReassemblyQueues:    *)
(* the receiver with rq_, whose nxt is rcv_nxt_, and the sender with sq_,  *)
(* whose nxt is sack_min_.                                                 *)
(***************************************************************************)
EXTENDS ReassemblyQueue

CONSTANT MaxSackBlocks      \* max_sack_blocks_

ASSUME SackEndsAssumption == MaxSackBlocks \in Nat \ {0}

(* recv trims what was received already from the front of a segment.       *)
Trimmed(r, s) == IF s < r.nxt THEN r.nxt ELSE s

(* reass: a segment goes to rq_; if it filled the first hole, what is in   *)
(* order now is cleared out.                                               *)
Reass(r, s, e) ==
  LET added == Add(r, s, e)
  IN  IF s = r.nxt THEN ClearTo(added, added.nxt) ELSE added

(* FullTcpAgent::recv of a segment with data: nothing new is dropped, what *)
(* comes in order while nothing waits is taken, the rest is reassembled.   *)
Received(r, s, e) ==
  LET new == Trimmed(r, s)
  IN  IF e <= r.nxt THEN r
      ELSE IF new = r.nxt /\ r.fifo = <<>> THEN [r EXCEPT !.nxt = e]
      ELSE Reass(r, new, e)

(* The ACK that every segment with data is answered with: in order,        *)
(* need_send finds rcv_nxt_ - last_ack_sent_ > 0, out of order and for     *)
(* duplicates TF_ACKNOW is set.  build_options adds the SACK blocks.       *)
AckOf(r) == [ackno |-> r.nxt, sack |-> GenSack(r, MaxSackBlocks)]

(* Wrong on purpose: the right edge of a block is taken to be in it.       *)
ProcessSackInclusive(board, sack) ==
  LET told[n \in 0 .. Len(sack)] ==
        IF n = 0 THEN board
        ELSE IF sack[n].s < sack[n].e
             THEN Add(told[n - 1], sack[n].s, sack[n].e + 1) ELSE told[n - 1]
  IN  told[Len(sack)]

(* SackFullTcpAgent::process_sack.                                         *)
ProcessSack(board, sack) ==
  LET told[n \in 0 .. Len(sack)] ==       \* block by block
        IF n = 0 THEN board
        ELSE IF sack[n].s < sack[n].e
             THEN Add(told[n - 1], sack[n].s, sack[n].e) ELSE told[n - 1]
  IN  told[Len(sack)]

(* Wrong on purpose: sack_min_ moves, the blocks stay.                     *)
AckedNoClear(board, una) ==
  IF board.fifo # <<>> /\ board.nxt < una
  THEN [board EXCEPT !.nxt = una]
  ELSE board

(* pack_action and ack_action once highest_ack_ is una.                    *)
Acked(board, una) ==
  IF board.fifo # <<>> /\ board.nxt < una
  THEN ClearTo([board EXCEPT !.nxt = una], una)
  ELSE board

(* SackFullTcpAgent::timeout_action with clear_on_timeout_.                *)
Cleared(una) == EmptyQueue(una)
==============================================================================
