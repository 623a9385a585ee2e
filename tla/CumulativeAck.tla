---------------------------- MODULE CumulativeAck ----------------------------
(***************************************************************************)
(* What a TCP receiver promises: it remembers every byte that reached it,  *)
(* and acknowledges exactly the bytes before the first missing one.        *)
(***************************************************************************)
EXTENDS Integers

CONSTANT MaxSeq       \* bytes are numbered 0 .. MaxSeq - 1

VARIABLES
  got,                \* the bytes that have arrived
  ack                 \* the number of the first byte that has not

Init == got = {} /\ ack = 0

(* The bytes s .. e-1 arrive.                                              *)
Arrive(s, e) ==
  /\ got' = got \union (s .. e - 1)
  /\ ack' \in 0 .. MaxSeq
  /\ ack' \notin got' /\ 0 .. ack' - 1 \subseteq got'

Next == \E s, e \in 0 .. MaxSeq : s < e /\ Arrive(s, e)

vars == <<got, ack>>

Spec == Init /\ [][Next]_vars

-----------------------------------------------------------------------------
(* An acknowledgement is the first byte missing: what it acknowledges has  *)
(* arrived, and what it asks for has not.                                  *)
FirstMissing ==
  /\ got \subseteq 0 .. MaxSeq /\ ack \in 0 .. MaxSeq
  /\ 0 .. ack - 1 \subseteq got
  /\ ack \notin got

(* An acknowledgement is never taken back.                                 *)
NeverFalls == [][ack' >= ack]_vars
==============================================================================
