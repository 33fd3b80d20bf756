----------------------------- MODULE MCRegistry -----------------------------
(***************************************************************************)
(* Symmetry for model checking Registry: agents and names are alike.       *)
(***************************************************************************)
EXTENDS Registry, TLC

Symmetry == Permutations(Agent) \cup Permutations(Name)
=============================================================================
