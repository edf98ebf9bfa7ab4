------------------------- MODULE MCConversationTurns -------------------------
(* ConversationTurns on a small instance with interchangeable requests.    *)
EXTENDS ConversationTurns, TLC

RequestSymmetry ==
  Permutations(UserTurns) \cup Permutations(TeamTurns) \cup Permutations(Deleters) \cup Permutations(Cancellers)

=============================================================================
