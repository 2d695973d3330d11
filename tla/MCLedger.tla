------------------------------ MODULE MCLedger ------------------------------
(***************************************************************************)
(* Model checking of Ledger, and Total compared with a fold.               *)
(***************************************************************************)
EXTENDS Ledger
LOCAL INSTANCE Functions

ASSUME TotalIsSum ==
  \A D \in SUBSET (1..3) : \A f \in [D -> 0..3] : Total(f) = SumFunction(f)
=============================================================================
