----------------------------- MODULE MCPfcNetwork -----------------------------
(***************************************************************************)
(* Networks for TLC: two sources and one sink on a switch, and two         *)
(* switches with traffic in both directions.                               *)
(***************************************************************************)
EXTENDS PfcNetwork, TLC

CONSTANTS f1, f2

(* Thresholds are set at the switches, for neighbours that feed transit.   *)
Thresholds(pause, resume) == [pause |-> pause, resume |-> resume]

Queues(qlim, drop, dprio) ==
  [ qlim |-> qlim, qib |-> FALSE, mean_pktsize |-> 1, drop |-> drop,
    deque_prio |-> dprio, keep_order |-> dprio, pause_enabled |-> FALSE,
    sq_limit |-> 0 ]

SameForAll(v) == [f \in Flows |-> v]
Ones == SameForAll(1)
Twos == SameForAll(2)

(* a and b send to c through the switch s.                                 *)
IncastRoute == (f1 :> <<"a", "s", "c">>) @@ (f2 :> <<"b", "s", "c">>)
IncastThr   == (<<"s", "a">> :> Thresholds(0, 1)) @@ (<<"s", "b">> :> Thresholds(1, 1))
IncastQueue == [Queues(8, "tail", FALSE) EXCEPT !.qib = TRUE]

(* a sends to b through s and t, b to a the other way.                     *)
ChainRoute == (f1 :> <<"a", "s", "t", "b">>) @@ (f2 :> <<"b", "t", "s", "a">>)
ChainThr   == (<<"t", "s">> :> Thresholds(0, 1)) @@ (<<"s", "t">> :> Thresholds(0, 1))
ChainQueue == Queues(9, "tail", FALSE)
PfabricQueue == Queues(3, "prio", TRUE)
==============================================================================
