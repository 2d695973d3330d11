---------------------------- MODULE MCDbSession ----------------------------
(***************************************************************************)
(* Model checking of DbSession with Migrations: releases of the service    *)
(* before, between and after the two rebuilds of the log of credits.       *)
(***************************************************************************)
EXTENDS DbSession, TLC

Shipped == {1, 2, 5, 9}

\* The release of the repository alone, for the lost binding.
Current == {9}
=============================================================================
