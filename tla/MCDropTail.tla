------------------------------ MODULE MCDropTail ------------------------------
(***************************************************************************)
(* Instances of DropTail for TLC.                                          *)
(***************************************************************************)
EXTENDS DropTail

Conf(qib, drop, dprio, order, pause) ==
  [ qlim |-> 4, qib |-> qib, mean_pktsize |-> 2, drop |-> drop,
    deque_prio |-> dprio, keep_order |-> order, pause_enabled |-> pause,
    sq_limit |-> 2 ]

(* Plain DropTail, pFabric (drop_prio, deque_prio, keep_order), and the    *)
(* front and smart policies, limited in packets or in bytes; one queue     *)
(* that knows about control frames.                                        *)
MCConfigs ==
  { Conf(qib, drop, FALSE, FALSE, FALSE) :
      qib \in BOOLEAN, drop \in {"front", "prio", "smart", "tail"} }
  \cup { Conf(qib, "prio", TRUE, TRUE, FALSE) : qib \in BOOLEAN }
  \cup { Conf(FALSE, "tail", FALSE, FALSE, TRUE),
         Conf(TRUE, "prio", TRUE, TRUE, TRUE) }
==============================================================================
