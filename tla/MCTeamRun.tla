----------------------------- MODULE MCTeamRun -----------------------------
(* TeamRun on a small instance: two slots, and interchangeable ids.        *)
EXTENDS TeamRun, TLC

IdSymmetry == Permutations(LeaseIds) \cup Permutations(TurnIds) \cup Permutations(Stoppers)

=============================================================================
