---------------------------- MODULE CreditsLedger ----------------------------
(***************************************************************************)
(* The credits ledger primitives of app/credits/ledger.py as pure          *)
(* operators on books, and the audit of app/credits/audit.py.              *)
(*                                                                         *)
(* Books are what the tables credits_balances and credits_transactions     *)
(* hold: balance is a function whose domain is the accounts that have a    *)
(* row (an account gets one on first touch, with the starting grant), and  *)
(* log is the bag (see Tally) of applied transactions.                     *)
(*                                                                         *)
(* Every caller wraps Transfer in BEGIN / COMMIT and rolls back when it    *)
(* raises, so a transfer that is not Affordable leaves no trace: the row   *)
(* with outcome 'rejected_insufficient_funds' vanishes with the rollback.  *)
(* Every caller names a payee, and only admin_adjust has no payer.         *)
(***************************************************************************)
EXTENDS Tally

CONSTANTS
  Accounts,       \* names that may own a balance row
  StartingGrant,  \* Settings.starting_grant
  NULL            \* SQL NULL: the system as payer, or an absent reference

\* A grant of 0 would violate CHECK (amount > 0) on credits_transactions.
ASSUME LedgerAssumption ==
  /\ NULL \notin Accounts
  /\ StartingGrant \in Nat \ {0}

(***************************************************************************)
(* A transaction row.  event and invoice are the references a row carries. *)
(***************************************************************************)
Tx(reason, from, to, amount, event, invoice) ==
  [reason |-> reason, from |-> from, to |-> to, amount |-> amount,
   event |-> event, invoice |-> invoice]

GrantTx(a) == Tx("starting_grant", NULL, a, StartingGrant, NULL, NULL)

EmptyBooks == [balance |-> [a \in {} |-> 0], log |-> [t \in {} |-> 0]]

\* Mutants: the mint row is forgotten; the grant is given at every touch.
EnsureBalanceUnlogged(b, a) ==
  IF a = NULL \/ a \in DOMAIN b.balance THEN b
  ELSE [b EXCEPT !.balance = [x \in DOMAIN b.balance \cup {a} |->
                       IF x = a THEN StartingGrant ELSE b.balance[x]]]
EnsureBalanceAgain(b, a) ==
  IF a = NULL THEN b
  ELSE [balance |-> [x \in DOMAIN b.balance \cup {a} |->
                       (IF x \in DOMAIN b.balance THEN b.balance[x] ELSE 0)
                       + (IF x = a THEN StartingGrant ELSE 0)],
        log     |-> Post(b.log, GrantTx(a))]

(***************************************************************************)
(* _ensure_balance: the first touch of an account inserts its row with the *)
(* starting grant and logs the mint.  transfer skips it for a NULL agent.  *)
(***************************************************************************)
EnsureBalance(b, a) ==
  IF a = NULL \/ a \in DOMAIN b.balance THEN b
  ELSE [balance |-> [x \in DOMAIN b.balance \cup {a} |->
                       IF x = a THEN StartingGrant ELSE b.balance[x]],
        log     |-> Post(b.log, GrantTx(a))]

(***************************************************************************)
(* The balance check of transfer: a system mint is never refused.          *)
(***************************************************************************)
Affordable(b, tx) ==
  tx.from # NULL => EnsureBalance(b, tx.from).balance[tx.from] >= tx.amount

(***************************************************************************)
(* The rest of transfer: two UPDATEs and the 'applied' row.  The debit     *)
(* precedes the credit, so a payment to oneself changes nothing.           *)
(***************************************************************************)
Debit(bal, tx)  == IF tx.from = NULL THEN bal
                   ELSE [bal EXCEPT ![tx.from] = @ - tx.amount]
Credit(bal, tx) == [bal EXCEPT ![tx.to] = @ + tx.amount]

\* Mutant: both new balances are computed from the balances read first.
TransferFromSnapshot(b, tx) ==
  LET touched == EnsureBalance(EnsureBalance(b, tx.from), tx.to)
  IN  [balance |-> [Debit(touched.balance, tx) EXCEPT
                      ![tx.to] = touched.balance[tx.to] + tx.amount],
       log     |-> Post(touched.log, tx)]

Transfer(b, tx) ==
  LET touched == EnsureBalance(EnsureBalance(b, tx.from), tx.to)
  IN  [balance |-> Credit(Debit(touched.balance, tx), tx),
       log     |-> Post(touched.log, tx)]

----------------------------------------------------------------------------
(***************************************************************************)
(* The amount moved by the transactions of S, a subset of DOMAIN log.      *)
(***************************************************************************)
Volume(log, S) == Total([t \in S |-> log[t] * t.amount])

TotalBalance(b) == Total(b.balance)
TotalMinted(b)  == Volume(b.log, {t \in DOMAIN b.log : t.from = NULL})

\* audit_credits: "balanced"
Balanced(b) == TotalBalance(b) = TotalMinted(b)

CreditedTo(b, a)  == Volume(b.log, {t \in DOMAIN b.log : t.to = a})
DebitedFrom(b, a) == Volume(b.log, {t \in DOMAIN b.log : t.from = a})

\* Every balance row is what the log says it should be, and an account
\* without a row has never been named in an applied transaction.
Explained(b) ==
  \A a \in Accounts :
    CreditedTo(b, a) - DebitedFrom(b, a) =
      (IF a \in DOMAIN b.balance THEN b.balance[a] ELSE 0)

\* The lazy grant happens exactly once per balance row.
GrantedOnce(b) ==
  \A a \in Accounts :
    Copies(GrantTx(a), b.log) = (IF a \in DOMAIN b.balance THEN 1 ELSE 0)
=============================================================================
