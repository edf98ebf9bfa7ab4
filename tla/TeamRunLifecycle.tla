-------------------------- MODULE TeamRunLifecycle --------------------------
(***************************************************************************)
(* What TeamRunManager promises about the runs of one team, without any of *)
(* the bookkeeping that makes it true: there is one run at a time, a run   *)
(* only moves forward, a cancellation once begun is never forgotten, and   *)
(* an outcome is final.  TeamRun implements this module.                   *)
(***************************************************************************)
EXTENDS Naturals

VARIABLES
  born,  \* number of runs started
  phase  \* phase of each of them

lifecycle == <<born, phase>>

Live == {"Accepted", "Running"}
Terminal == {"Completed", "Failed", "Cancelled"}
Phase == Live \cup {"Cancelling"} \cup Terminal

Init == born = 0 /\ phase = [i \in 1..0 |-> "Accepted"]

\* A run is accepted only when every earlier one has its outcome.
Accept ==
  /\ \A i \in 1..born : phase[i] \in Terminal
  /\ born' = born + 1
  /\ phase' = [i \in 1..(born + 1) |-> IF i <= born THEN phase[i] ELSE "Accepted"]

Move(i, from, to) ==
  /\ phase[i] \in from
  /\ phase' = [phase EXCEPT ![i] = to]
  /\ UNCHANGED born

Next ==
  \/ Accept
  \/ \E i \in 1..born :
       \/ Move(i, {"Accepted"}, "Running")
       \/ Move(i, Live, "Cancelling")
       \/ Move(i, Live, "Completed")
       \/ Move(i, {"Cancelling"}, "Cancelled")
       \/ Move(i, Live \cup {"Cancelling"}, "Failed")

Spec == Init /\ [][Next]_lifecycle
=============================================================================
