-------------------------------- MODULE Tally --------------------------------
(***************************************************************************)
(* Append-only tables, and SQL's SUM and count over them.                  *)
(*                                                                         *)
(* A table is a bag of rows: a function from the rows that occur to how    *)
(* often they do.  Generated ids and time stamps, which only tell equal    *)
(* rows apart, are left to the multiplicity.  (Module Bags says the same,  *)
(* but tlapm loses the theorems about finite sets in a module that         *)
(* reaches it.)                                                            *)
(***************************************************************************)
EXTENDS Integers, FiniteSets

\* How often a row occurs, and one more occurrence of it.
Copies(t, log) == IF t \in DOMAIN log THEN log[t] ELSE 0
Post(log, t)   == [u \in DOMAIN log \cup {t} |->
                     Copies(u, log) + (IF u = t THEN 1 ELSE 0)]

(***************************************************************************)
(* The sum of a function with values in Nat: the number of units in it.    *)
(* (SumFunction of the community modules says the same; it is a fold,      *)
(* which the prover cannot unfold.  MCLedger compares the two.)            *)
(***************************************************************************)
Units(f) == UNION {{x} \X (1 .. f[x]) : x \in DOMAIN f}
Total(f) == Cardinality(Units(f))

\* How many rows of S, a subset of DOMAIN log, the table has.
Count(log, S) == Total([t \in S |-> log[t]])
=============================================================================
