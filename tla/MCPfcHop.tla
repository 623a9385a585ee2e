------------------------------- MODULE MCPfcHop -------------------------------
(***************************************************************************)
(* An instance of PfcHop for TLC: bounds on U's queue, the link, D's       *)
(* buffers, the path of control frames and the drops, as guards.           *)
(***************************************************************************)
EXTENDS PfcHop

CONSTANTS MaxQueue, MaxWire, MaxHeld, MaxCtl, MaxLost

Bounded ==
  /\ qlen <= MaxQueue
  /\ wire <= MaxWire
  /\ held <= MaxHeld
  /\ lost <= MaxLost
  /\ Len(port.ctl) <= MaxCtl

MCNext == Next /\ Bounded'

MCSpec == Init /\ [][MCNext]_vars

(* Every event in the scheduler is dispatched, control frames and packets  *)
(* on the wire arrive, and D serves its queues; nothing makes new traffic  *)
(* come to U.                                                              *)
Fairness ==
  /\ WF_vars(UTxDone /\ Bounded')
  /\ WF_vars((DRecvLocal \/ DRecvTransit) /\ Bounded')
  /\ WF_vars(DServe /\ Bounded')
  /\ WF_vars(RecvPause \/ RecvResume)

FairSpec == MCSpec /\ Fairness
==============================================================================
