------------------------------- MODULE MCTimers -------------------------------
(***************************************************************************)
(* An instance of Timers for TLC: interchangeable timers.                  *)
(***************************************************************************)
EXTENDS Timers, TLC

Symmetry == Permutations(Timer)
==============================================================================
