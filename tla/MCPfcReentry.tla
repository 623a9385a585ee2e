----------------------------- MODULE MCPfcReentry -----------------------------
(***************************************************************************)
(* A network for TLC in which a queue is entered again from inside its own *)
(* deque(): a switch n between s and t with traffic across it both ways,   *)
(* and a flow of n's own.  Each of the two queues of n holds packets that  *)
(* came in where the other one goes out, so that the RESUME that one sends *)
(* starts the other, whose RESUME starts the first again.                  *)
(***************************************************************************)
EXTENDS MCPfcNetwork

CONSTANTS f3, f4, f5

Eastward == <<"s", "n", "t", "b">>
Westward == <<"t", "n", "s", "a">>

CrossRoute ==
  (f1 :> Eastward) @@ (f4 :> Eastward) @@ (f2 :> Westward) @@ (f5 :> Westward)
    @@ (f3 :> <<"n", "s">>)

(* Every port of two switches pauses above 0 and resumes below 1.          *)
CrossThr ==
  [ q \in {<<"n", "s">>, <<"n", "t">>, <<"s", "n">>, <<"t", "n">>} |->
      Thresholds(0, 1) ]

CrossQueue == Queues(30, "tail", FALSE)

(* Flows of one route are alike.                                           *)
Alike == Permutations({f1, f4}) \cup Permutations({f2, f5})

(* What handlers and NoAbort read: the numbers delivered, the history and  *)
(* the parity are left out of a state.                                     *)
Seen == <<link, port, sent, abort>>

(* n's own flow sends last. It keeps TLC's search under two minutes; other *)
(* orders are left out.                                                    *)
OwnFlowLast == sent[f3] = MaxSend => \A f \in Flows : sent[f] = MaxSend
==============================================================================
