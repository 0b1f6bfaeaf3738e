--------------------------- MODULE MCSessionTurns ---------------------------
(* The model-checking instance of SessionTurns. *)
EXTENDS SessionTurns, TLC

Interchangeable ==
  Permutations(Runs) \cup Permutations(Nonces) \cup Permutations(Texts)
=============================================================================
