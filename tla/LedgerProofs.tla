---------------------------- MODULE LedgerProofs ----------------------------
(***************************************************************************)
(* Proofs about Ledger: whatever the callers ask for, the books stay sound *)
(* and typed.  Each step is one transfer, and TransferSound does the work. *)
(***************************************************************************)
EXTENDS Ledger, CreditsLedgerProofs

\* The requests of the specification are transfers of a positive amount.
LEMMA RequestsLegal ==
  ASSUME NEW tx \in Requests
  PROVE  /\ tx.amount \in Nat \ {0} /\ tx.reason # "starting_grant"
         /\ tx.to \in Accounts /\ tx.from \in Accounts \cup {NULL}
<1>1. CASE tx \in {Tx(r, f, t, m, NULL, NULL) :
                     r \in Reasons, f \in Accounts, t \in Accounts, m \in Amounts}
  BY <1>1, RequestsAssumption DEF Tx
<1>2. CASE tx \in {Tx("admin_adjust", NULL, t, m, NULL, NULL) :
                     t \in Accounts, m \in Amounts}
  BY <1>2, RequestsAssumption DEF Tx
<1> QED BY <1>1, <1>2 DEF Requests

\* The books are sound in every reachable state, whatever the callers do.
THEOREM LedgerSound == Spec => []SoundBooks(books)
<1>1. Init => SoundBooks(books)
  BY EmptyBooksSound DEF Init
<1>2. SoundBooks(books) /\ [Next]_books => SoundBooks(books)'
  <2> SUFFICES ASSUME SoundBooks(books), [Next]_books
               PROVE  SoundBooks(books')
    OBVIOUS
  <2>1. CASE UNCHANGED books
    BY <2>1
  <2>2. ASSUME NEW tx \in Requests, Apply(tx)
        PROVE  SoundBooks(books')
    BY <2>2, RequestsLegal, TransferSound DEF Apply
  <2> QED BY <2>1, <2>2 DEF Next
<1> QED BY <1>1, <1>2, PTL DEF Spec

\* audit.py's invariant, and each balance explained by its own rows, for
\* every set of accounts, grant, amounts and number of transfers.
THEOREM LedgerConserves == Spec => [](Conserved /\ BalancesExplained)
<1>1. SoundBooks(books) => Conserved /\ BalancesExplained
  BY DEF SoundBooks, Conserved, BalancesExplained
<1> QED BY <1>1, LedgerSound, PTL

\* _ensure_balance logs the starting grant of an account once, with whatever
\* transfer it is first touched (ledger.py).
THEOREM GrantsOnce == Spec => []OneGrantPerAccount
<1>1. SoundBooks(books) => OneGrantPerAccount
  BY DEF SoundBooks, OneGrantPerAccount
<1> QED BY <1>1, LedgerSound, PTL

\* The rows and their multiplicities in the log of Ledger.
LogTyped(log) ==
  /\ DOMAIN log \subseteq Requests \cup {GrantTx(a) : a \in Accounts}
  /\ log \in [DOMAIN log -> Nat \ {0}]

\* One more occurrence of such a row leaves the log typed.
LEMMA PostTyped ==
  ASSUME NEW log, LogTyped(log),
         NEW t \in Requests \cup {GrantTx(a) : a \in Accounts}
  PROVE  LogTyped(Post(log, t))
<1>1. DOMAIN Post(log, t) = DOMAIN log \cup {t}
  BY DEF Post
<1>2. \A u \in DOMAIN log \cup {t} : Post(log, t)[u] \in Nat \ {0}
  BY DEF Post, Copies, LogTyped
<1>3. Post(log, t) = [u \in DOMAIN Post(log, t) |-> Post(log, t)[u]]
  BY DEF Post
<1> QED BY <1>1, <1>2, <1>3 DEF LogTyped

\* So does the first touch of an account.
LEMMA EnsureBalanceTyped ==
  ASSUME NEW b, LogTyped(b.log), NEW a \in Accounts \cup {NULL}
  PROVE  LogTyped(EnsureBalance(b, a).log)
<1>1. CASE a = NULL \/ a \in DOMAIN b.balance
  BY <1>1 DEF EnsureBalance
<1>2. CASE ~(a = NULL \/ a \in DOMAIN b.balance)
  <2>1. EnsureBalance(b, a).log = Post(b.log, GrantTx(a))
    BY <1>2 DEF EnsureBalance
  <2> QED BY <1>2, <2>1, PostTyped
<1> QED BY <1>1, <1>2

\* Balances never go below zero (CHECK (balance >= 0) never fires) and only
\* requested transfers and grants are ever logged.
THEOREM LedgerTyped == Spec => []TypeOK
<1>1. Init => LogTyped(books.log)
  BY DEF Init, EmptyBooks, LogTyped
<1>2. LogTyped(books.log) /\ [Next]_books => LogTyped(books.log)'
  <2> SUFFICES ASSUME LogTyped(books.log), [Next]_books
               PROVE  LogTyped(books'.log)
    BY DEF LogTyped
  <2>1. CASE UNCHANGED books
    BY <2>1
  <2>2. ASSUME NEW tx \in Requests, Apply(tx)
        PROVE  LogTyped(books'.log)
    <3> DEFINE e1 == EnsureBalance(books, tx.from)
               e2 == EnsureBalance(e1, tx.to)
    <3>1. LogTyped(e1.log)
      BY RequestsLegal, EnsureBalanceTyped
    <3>2. LogTyped(e2.log)
      <4> HIDE DEF e1
      <4> QED BY <3>1, RequestsLegal, EnsureBalanceTyped
    <3>3. books'.log = Post(e2.log, tx)
      BY <2>2 DEF Apply, Transfer
    <3> HIDE DEF e2
    <3> QED BY <3>2, <3>3, PostTyped
  <2> QED BY <2>1, <2>2 DEF Next
<1>3. SoundBooks(books) /\ LogTyped(books.log) => TypeOK
  BY DEF SoundBooks, Summable, LogTyped, TypeOK
<1> QED BY <1>1, <1>2, <1>3, LedgerSound, PTL DEF Spec
=============================================================================
