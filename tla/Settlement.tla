----------------------------- MODULE Settlement -----------------------------
(***************************************************************************)
(* What the market promises buyers and sellers, one indivisible step per   *)
(* deal: no transactions, no tasks, no failures.                           *)
(*                                                                         *)
(* A seller is paid the whole reward, or the listing fee at once and the   *)
(* rest when a paid query cites the event, at most once.  A buyer pays the *)
(* price with the step that settles the invoice, or not at all.            *)
(***************************************************************************)
EXTENDS Integers

CONSTANTS
  Events, Queries,
  Reward, Price,   \* positive amounts of credits
  Fee              \* the listing fee, in 1 .. Reward

VARIABLES
  earned,   \* what each event has brought its seller
  deal,     \* the escrow of each event: none, open, paid or expired
  bill,     \* the invoice of each query: none, pending, settled or invalidated
  spent     \* what each query has cost its buyer

promises == <<earned, deal, bill, spent>>

Init ==
  /\ earned = [e \in Events |-> 0]
  /\ deal = [e \in Events |-> "none"]
  /\ bill = [q \in Queries |-> "none"]
  /\ spent = [q \in Queries |-> 0]

Buy(e) ==
  /\ earned[e] = 0
  /\ \/ earned' = [earned EXCEPT ![e] = Reward] /\ deal' = deal
     \/ /\ earned' = [earned EXCEPT ![e] = Fee]
        /\ deal' = IF Fee < Reward THEN [deal EXCEPT ![e] = "open"] ELSE deal
  /\ UNCHANGED <<bill, spent>>

Bill(q) ==
  /\ bill[q] = "none"
  /\ bill' = [bill EXCEPT ![q] = "pending"]
  /\ UNCHANGED <<earned, deal, spent>>

Pay(q) ==
  /\ bill[q] = "pending"
  /\ bill' = [bill EXCEPT ![q] = "settled"]
  /\ spent' = [spent EXCEPT ![q] = Price]
  /\ UNCHANGED <<earned, deal>>

Refuse(q) ==
  /\ bill[q] = "pending"
  /\ bill' = [bill EXCEPT ![q] = "invalidated"]
  /\ UNCHANGED <<earned, deal, spent>>

\* A paid query cites events: the escrows cited in time are paid, together,
\* and the late ones lapse.
Cite(q, inTime, late) ==
  /\ bill[q] = "settled"
  /\ inTime \cap late = {}
  /\ \A e \in inTime \cup late : deal[e] = "open"
  /\ deal' = [e \in Events |-> IF e \in inTime THEN "paid"
                               ELSE IF e \in late THEN "expired" ELSE deal[e]]
  /\ earned' = [e \in Events |-> IF e \in inTime THEN Reward ELSE earned[e]]
  /\ UNCHANGED <<bill, spent>>

\* A disputed event forfeits what it has not earned.
Forfeit(e) ==
  /\ deal[e] = "open"
  /\ deal' = [deal EXCEPT ![e] = "expired"]
  /\ UNCHANGED <<earned, bill, spent>>

Next ==
  \/ \E e \in Events : Buy(e) \/ Forfeit(e)
  \/ \E q \in Queries : Bill(q) \/ Pay(q) \/ Refuse(q)
  \/ \E q \in Queries, inTime, late \in SUBSET Events : Cite(q, inTime, late)

Spec == Init /\ [][Next]_promises
=============================================================================
