------------------------------- MODULE Ledger -------------------------------
(***************************************************************************)
(* The ledger on its own: any caller, any sequence of transfers, each in a *)
(* transaction of its own.  What the ledger promises here it promises to   *)
(* every component that calls it (module Market composes them).           *)
(***************************************************************************)
EXTENDS CreditsLedger

CONSTANTS
  Reasons,       \* the reasons callers pass, of those the table accepts
  Amounts,       \* amounts a caller may ask to move
  MaxTransfers   \* bound: applied transactions in a behaviour

ASSUME RequestsAssumption ==
  /\ Amounts \subseteq Nat \ {0}
  /\ "starting_grant" \notin Reasons

VARIABLE books   \* credits_balances and credits_transactions

(***************************************************************************)
(* The calls transfer accepts: a positive amount, and the system as payer  *)
(* only for admin_adjust (starting_grant is the ledger's own reason: no    *)
(* caller passes it).                                                      *)
(***************************************************************************)
Requests ==
  {Tx(r, f, t, m, NULL, NULL) : r \in Reasons, f \in Accounts,
                                t \in Accounts, m \in Amounts}
  \cup {Tx("admin_adjust", NULL, t, m, NULL, NULL) :
          t \in Accounts, m \in Amounts}

Init == books = EmptyBooks

\* BEGIN; transfer; COMMIT.  A refused transfer rolls back: no step.
Apply(tx) ==
  /\ Total(books.log) < MaxTransfers
  /\ Affordable(books, tx)
  /\ books' = Transfer(books, tx)

Next == \E tx \in Requests : Apply(tx)

Spec == Init /\ [][Next]_books

----------------------------------------------------------------------------
\* Balances are natural numbers (CHECK (balance >= 0) never fires) and the
\* log is a bag of well-formed rows.
TypeOK ==
  /\ books.balance \in [DOMAIN books.balance -> Nat]
  /\ DOMAIN books.balance \subseteq Accounts
  /\ DOMAIN books.log \subseteq Requests \cup {GrantTx(a) : a \in Accounts}
  /\ books.log \in [DOMAIN books.log -> Nat \ {0}]

\* audit.py: the balances always sum to what the system minted.
Conserved == Balanced(books)

\* Stronger than the audit: each balance is the sum of its own log rows, the
\* "cached projection of credits_transactions" of 002_payments.sql:9.
BalancesExplained == Explained(books)

\* _ensure_balance: an account is granted once, however it is first touched.
OneGrantPerAccount == GrantedOnce(books)
=============================================================================
