-------------------------- MODULE MCUserInputResponse --------------------------
(* Instances of UserInputResponse for TLC. *)
EXTENDS UserInputResponse, TLC

Symmetry == Permutations(Responder) \cup Permutations(Answer)
=============================================================================
