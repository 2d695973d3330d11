---------------------------- MODULE MCReputation ----------------------------
(***************************************************************************)
(* Model checking of Reputation.                                           *)
(***************************************************************************)
EXTENDS Reputation, TLC
=============================================================================
