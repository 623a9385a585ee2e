---------------------------- MODULE MCSackTransfer ----------------------------
(***************************************************************************)
(* Instances of SackTransfer for TLC.                                      *)
(***************************************************************************)
EXTENDS SackTransfer

(* A SACK connection over a network that loses and reorders, and a         *)
(* LosslessTcpAgent over one that does not.                                *)
MCModes ==
  {[lossless |-> FALSE, clear |-> TRUE, losses |-> 2, depth |-> 2],
   [lossless |-> FALSE, clear |-> FALSE, losses |-> 2, depth |-> 1],
   [lossless |-> TRUE, clear |-> TRUE, losses |-> 0, depth |-> 1]}

MCLosslessLossy ==
  {[lossless |-> TRUE, clear |-> TRUE, losses |-> 1, depth |-> 1]}

MCReliable ==
  {[lossless |-> FALSE, clear |-> TRUE, losses |-> 0, depth |-> 1]}
==============================================================================
