---------------------------- MODULE MCSackExchange ----------------------------
(***************************************************************************)
(* An instance of SackExchange for TLC: at most MaxFly ACKs under way.     *)
(***************************************************************************)
EXTENDS SackExchange, FiniteSets

CONSTANT MaxFly

Bounded == Cardinality(acks) <= MaxFly

MCNext == Next /\ Bounded'

MCSpec == Init /\ [][MCNext]_vars
==============================================================================
