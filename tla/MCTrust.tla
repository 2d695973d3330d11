------------------------------- MODULE MCTrust -------------------------------
(***************************************************************************)
(* Model checking of Trust: agents and canaries are alike.                 *)
(***************************************************************************)
EXTENDS Trust, TLC

Alike == Permutations(Agents) \cup Permutations(Canaries)
=============================================================================
