------------------------------ MODULE EventQueue ------------------------------
(***************************************************************************)
(* What every scheduler promises to the simulation: events happen in the   *)
(* order of their times, those of one time in the order in which they were *)
(* scheduled, and a cancelled event does not happen.                       *)
(***************************************************************************)
EXTENDS Naturals

CONSTANTS Events, Times

VARIABLES
  now,                \* the simulation's clock
  due,                \* what is scheduled: entries [e |-> event, t |-> time]
  ahead               \* the pairs of entries of one time, first scheduled first

Init == now = 0 /\ due = {} /\ ahead = {}

Among(D) == ahead \cap (D \X D)

Others(e) == { x \in due : x.e # e }

(* Event e is scheduled, or scheduled anew, for time t.                    *)
Schedule(e, t) ==
  /\ t >= now
  /\ now' = now
  /\ due' = Others(e) \cup {[e |-> e, t |-> t]}
  /\ ahead' = Among(Others(e)) \cup
                { <<x, [e |-> e, t |-> t]>> : x \in { y \in Others(e) : y.t = t } }

Cancel(e) ==
  /\ now' = now
  /\ due' = Others(e)
  /\ ahead' = Among(Others(e))

(* The first entry of the least time happens.                              *)
Happen(x) ==
  /\ \A y \in due : x.t <= y.t /\ <<y, x>> \notin ahead
  /\ now' = x.t
  /\ due' = due \ {x}
  /\ ahead' = Among(due')

Next ==
  \/ \E e \in Events, t \in Times : Schedule(e, t)
  \/ \E e \in Events : Cancel(e)
  \/ \E x \in due : Happen(x)

Spec == Init /\ [][Next]_<<now, due, ahead>>
==============================================================================
