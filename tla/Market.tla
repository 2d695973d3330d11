------------------------------- MODULE Market -------------------------------
(***************************************************************************)
(* The credit economy of the village: oldman buys events (publish), sells  *)
(* narratives (query), pays royalties for cited events out of escrow, and  *)
(* refunds buyers from the pool.                                           *)
(*                                                                         *)
(* The service is one asyncio process on one DuckDB connection.  A step is *)
(* one committed transaction (or one await): the code never awaits inside  *)
(* a transaction, and what runs between two awaits excludes every other    *)
(* task.  The variable loop names the task that runs between two commits   *)
(* of the same segment; only a crash can come in between.  While a query   *)
(* waits for the model (pc "asking") or for its client (pc "answered") the *)
(* loop is free.  A reputation request is charged like a query and cites   *)
(* no event, so it is one here (that cancel would also stop it only adds   *)
(* behaviours).                                                            *)
(*                                                                         *)
(* An event is identified with its payload: events.payload_hash is UNIQUE, *)
(* so a second publish of a stored payload pays, fails its INSERT and is   *)
(* rolled back (ExactHashDuplicateError): it leaves no trace and is not a  *)
(* step, like every refused request.                                       *)
(***************************************************************************)
EXTENDS CreditsLedger

CONSTANTS
  Oldman, Pool,   \* the accounts "oldman" and "village_pool"
  Clients,        \* agent names clients and operators use
  Events,         \* payloads that may be published
  Queries,        \* query tasks, each with the invoice id it would draw
  Claims,         \* refund claim ids
  Adjudicators,   \* threads that may adjudicate at the same time
  Modes,          \* [payment, royalty] settings a (re)start may find
  PublishReward, FeePercent, QueryPrice, PoolFee,  \* Settings
  Horizon,        \* Settings.escrow_horizon_days
  MaxClock,       \* bound: days that pass
  MaxDisputes,    \* bound: contradictions recorded against one event
  MaxCrashes      \* bound: crashes of the process

ASSUME MarketAssumption ==
  /\ {Oldman, Pool} \cup Clients \subseteq Accounts
  /\ NULL \notin Events \cup Queries \cup Claims
  /\ NULL \notin [seller : Clients, paid : BOOLEAN]
  /\ Modes \subseteq [payment : BOOLEAN, royalty : BOOLEAN]
  /\ PublishReward \in Nat \ {0} /\ QueryPrice \in Nat \ {0}
  /\ FeePercent \in 0 .. 100 /\ PoolFee \in Nat /\ Horizon \in Nat
  /\ MaxClock \in Nat /\ MaxDisputes \in Nat /\ MaxCrashes \in Nat

VARIABLES
  books,        \* credits_balances, credits_transactions
  event,        \* events: seller and whether credits_tx_id is set
  escrow,       \* royalty_escrows
  invoice,      \* invoices.status
  claim,        \* refund_claims
  evidence,     \* trust_events, counted per event and cause
  mode,         \* Settings.payment_enabled (and no kill switch), royalty_enabled
  loop,         \* the task running between two commits, or Idle
  pc,           \* where each query task is
  querier,      \* data part: who asks
  cites,        \* the events the narrative will cite
  session,      \* the open royalty transaction, or NULL
  adjudicating, \* the claim each adjudicator has read as pending
  clock, crashes

market   == <<event, escrow, invoice, claim, evidence>>
tasks    == <<mode, loop, pc, querier, cites, session, adjudicating>>
vars     == <<books, market, tasks, clock, crashes>>

----------------------------------------------------------------------------
(* Amounts and rows.                                                       *)

\* min and max, as Python's builtins.
AtMost(a, b)  == IF a < b THEN a ELSE b
AtLeast(a, b) == IF a > b THEN a ELSE b

\* Python's round() of n / d: half to even.
Round(n, d) ==
  LET q == n \div d
      twice == 2 * (n % d)
  IN  IF twice > d \/ (twice = d /\ q % 2 = 1) THEN q + 1 ELSE q

\* split_publish_payment: at least one credit, at most the reward.
ListingFee == AtMost(PublishReward, AtLeast(1, Round(PublishReward * FeePercent, 100)))
Escrowed   == PublishReward - ListingFee

PurchaseTx(e, seller) ==
  IF mode.royalty THEN Tx("listing_fee", Oldman, seller, ListingFee, e, NULL)
                  ELSE Tx("publish_reward", Oldman, seller, PublishReward, e, NULL)
QueryTx(q)   == Tx("query_price", querier[q], Oldman, QueryPrice, NULL, q)
PoolFeeTx(q) == Tx("pool_fee", Oldman, Pool, PoolFee, NULL, q)
\* Mutant: the whole reward, as if no listing fee had been paid.
RoyaltyTxWhole(e, q) ==
  Tx("royalty", Oldman, event[e].seller, PublishReward, e, q)
RoyaltyTx(e, q) == Tx("royalty", Oldman, event[e].seller, Escrowed, e, q)
PayoutTx(c) == Tx("refund_payout", Pool, claim[c].claimant, QueryPrice, NULL,
                  claim[c].invoice)

Stored == {e \in Events : event[e] # NULL}

Idle          == <<"idle", NULL>>
Publishing(e) == <<"publish", e>>
Disputing(e)  == <<"dispute", e>>
Asking(q)     == <<"query", q>>

Days == 0 .. MaxClock

----------------------------------------------------------------------------
Init ==
  /\ books = EmptyBooks
  /\ event = [e \in Events |-> NULL]
  /\ escrow = [e \in Events |-> [status |-> "none", expires |-> 0]]
  /\ invoice = [q \in Queries |-> "none"]
  /\ claim = [c \in Claims |-> [status |-> "none", invoice |-> NULL, claimant |-> NULL]]
  /\ evidence = [e \in Events |-> [settled |-> 0, disputed |-> 0]]
  /\ mode \in Modes
  /\ loop = Idle
  /\ pc = [q \in Queries |-> "new"]
  /\ querier = [q \in Queries |-> NULL]
  /\ cites = [q \in Queries |-> {}]
  /\ session = NULL
  /\ adjudicating = [d \in Adjudicators |-> NULL]
  /\ clock = 0
  /\ crashes = 0

\* Mutants: payload_hash is not unique; free publishes are evidence, too.
PublishAgain(e, seller, ts) ==
  /\ loop = Idle
  /\ mode.payment
  /\ Affordable(books, PurchaseTx(e, seller))
  /\ books' = Transfer(books, PurchaseTx(e, seller))
  /\ event' = [event EXCEPT ![e] = [seller |-> seller, paid |-> TRUE]]
  /\ UNCHANGED <<escrow, invoice, claim, evidence, tasks, clock, crashes>>
PublishFreeEvidence(e, seller, ts) ==
  /\ loop = Idle
  /\ event[e] = NULL
  /\ ~mode.payment
  /\ event' = [event EXCEPT ![e] = [seller |-> seller, paid |-> FALSE]]
  /\ loop' = Publishing(e)
  /\ UNCHANGED <<books, escrow, invoice, claim, evidence, mode, pc, querier, cites,
                 session, adjudicating, clock, crashes>>

(***************************************************************************)
(* execute_publish, the transaction: pay first, then store the event.  Its *)
(* ts is the client's, if the client gave one, and starts the escrow.      *)
(***************************************************************************)
Publish(e, seller, ts) ==
  /\ loop = Idle
  /\ event[e] = NULL
  /\ mode.payment => Affordable(books, PurchaseTx(e, seller))
  /\ books' = IF mode.payment THEN Transfer(books, PurchaseTx(e, seller)) ELSE books
  /\ event' = [event EXCEPT ![e] = [seller |-> seller, paid |-> mode.payment]]
  /\ escrow' = IF mode.payment /\ mode.royalty /\ Escrowed > 0
               THEN [escrow EXCEPT ![e] = [status |-> "open", expires |-> ts + Horizon]]
               ELSE escrow
  /\ loop' = IF mode.payment THEN Publishing(e) ELSE Idle
  /\ UNCHANGED <<invoice, claim, evidence, mode, pc, querier, cites, session,
                 adjudicating, clock, crashes>>

\* The best-effort trust event of a settled purchase: written or suppressed.
RecordSettledPublish(e) ==
  /\ loop = Publishing(e)
  /\ loop' = Idle
  /\ \/ evidence' = [evidence EXCEPT ![e].settled = @ + 1]
     \/ evidence' = evidence
  /\ UNCHANGED <<books, event, escrow, invoice, claim, mode, pc, querier, cites,
                 session, adjudicating, clock, crashes>>

----------------------------------------------------------------------------
(* _dispatch_query and _charge_querier_or_fallback.                        *)

\* What the code does with the task and nothing else.
TaskStep(q, from, to, holder) ==
  /\ pc[q] = from
  /\ pc' = [pc EXCEPT ![q] = to]
  /\ loop' = holder

\* Step 1 of the charge: the invoice, in a transaction of its own.
IssueInvoice(q, a) ==
  /\ loop = Idle
  /\ mode.payment
  /\ TaskStep(q, "new", "issued", Asking(q))
  /\ invoice' = [invoice EXCEPT ![q] = "pending"]
  /\ querier' = [querier EXCEPT ![q] = a]
  /\ UNCHANGED <<books, event, escrow, claim, evidence, mode, cites, session,
                 adjudicating, clock, crashes>>

\* No charge: payments are off (the narrative is rendered), or the answer is
\* canned (small talk, or no querier named while payments are on).
AskUncharged(q) ==
  /\ loop = Idle
  /\ \/ /\ ~mode.payment
        /\ \E C \in SUBSET Stored : cites' = [cites EXCEPT ![q] = C]
        /\ TaskStep(q, "new", "asking", Idle)
     \/ /\ TaskStep(q, "new", "answered", Idle)
        /\ UNCHANGED cites
  /\ UNCHANGED <<books, market, mode, querier, session, adjudicating, clock, crashes>>

\* Step 2: the querier pays and the invoice is settled, in one transaction.
Settle(q) ==
  /\ Affordable(books, QueryTx(q))
  /\ TaskStep(q, "issued", "settled", Asking(q))
  /\ books' = Transfer(books, QueryTx(q))
  /\ invoice' = [invoice EXCEPT ![q] = IF @ = "pending" THEN "settled" ELSE @]
  /\ UNCHANGED <<event, escrow, claim, evidence, mode, querier, cites, session,
                 adjudicating, clock, crashes>>

\* Mutant: the failure comes after the debit and nothing is rolled back.
ChargeFailsUnrolled(q) ==
  /\ Affordable(books, QueryTx(q))
  /\ TaskStep(q, "issued", "failed", Idle)
  /\ books' = Transfer(books, QueryTx(q))
  /\ UNCHANGED <<market, mode, querier, cites, session, adjudicating, clock, crashes>>

\* The charge fails: step 2 rolls back for want of funds (the invoice is
\* invalidated next), or for any other exception, or the invalidation raises
\* one; either is raised again and ends the task, the invoice still pending.
ChargeFails(q) ==
  /\ \/ /\ ~Affordable(books, QueryTx(q))
        /\ TaskStep(q, "issued", "refused", Asking(q))
     \/ TaskStep(q, "issued", "failed", Idle)
     \/ TaskStep(q, "refused", "failed", Idle)
  /\ UNCHANGED <<books, market, mode, querier, cites, session, adjudicating,
                 clock, crashes>>

Invalidate(q) ==
  /\ TaskStep(q, "refused", "answered", Idle)
  /\ invoice' = [invoice EXCEPT ![q] = IF @ = "pending" THEN "invalidated" ELSE @]
  /\ UNCHANGED <<books, event, escrow, claim, evidence, mode, querier, cites,
                 session, adjudicating, clock, crashes>>

(***************************************************************************)
(* accrue_pool_fee, best effort and idempotent; then, before the first     *)
(* await, execute_query reads the evidence: whatever the narrative will    *)
(* cite is stored now.                                                     *)
(***************************************************************************)
FeeAccrued(q) == \E t \in DOMAIN books.log : t.invoice = q /\ t.reason = "pool_fee"

AccrueFeeAndAsk(q) ==
  /\ TaskStep(q, "settled", "asking", Idle)
  /\ \/ /\ PoolFee > 0
        /\ ~FeeAccrued(q)
        /\ Affordable(books, PoolFeeTx(q))
        /\ books' = Transfer(books, PoolFeeTx(q))
     \/ books' = books
  /\ \E C \in SUBSET Stored : cites' = [cites EXCEPT ![q] = C]
  /\ UNCHANGED <<market, mode, querier, session, adjudicating, clock, crashes>>

----------------------------------------------------------------------------
(* release_royalties_for_citations: a transaction over all citations.      *)

\* Mutants: an await inside the transaction lets other tasks run before its
\* commit; a query that was never charged releases royalties.
NarrateAwaiting(q) ==
  /\ loop = Idle
  /\ invoice[q] = "settled" /\ mode.royalty /\ cites[q] # {}
  /\ TaskStep(q, "asking", "releasing", Idle)
  /\ session' = [books |-> books, escrow |-> escrow, todo |-> cites[q], now |-> clock]
  /\ UNCHANGED <<books, market, mode, querier, cites, adjudicating, clock, crashes>>
NarrateUncharged(q) ==
  /\ loop = Idle
  /\ cites[q] # {}
  /\ TaskStep(q, "asking", "releasing", Asking(q))
  /\ session' = [books |-> books, escrow |-> escrow, todo |-> cites[q], now |-> clock]
  /\ UNCHANGED <<books, market, mode, querier, cites, adjudicating, clock, crashes>>

\* The model has answered.  A charged query opens the royalty transaction
\* on the narrative's citations; now is read once, as the call is made.
Narrate(q) ==
  /\ loop = Idle
  /\ IF invoice[q] = "settled" /\ mode.royalty /\ cites[q] # {}
     THEN /\ TaskStep(q, "asking", "releasing", Asking(q))
          /\ session' = [books |-> books, escrow |-> escrow, todo |-> cites[q],
                         now |-> clock]
     ELSE TaskStep(q, "asking", "answered", Idle) /\ UNCHANGED session
  /\ UNCHANGED <<books, market, mode, querier, cites, adjudicating, clock, crashes>>

\* No provider is configured, or an exception ends the task: it fails, and
\* a charge already made stays.  (The first is known before the first await;
\* letting it come later only adds interleavings.)
NarrateFails(q) ==
  /\ loop = Idle
  /\ TaskStep(q, "asking", "failed", Idle)
  /\ UNCHANGED <<books, market, mode, querier, cites, session, adjudicating,
                 clock, crashes>>

\* The open transaction after its citation of e.
Proceed(e, bk, rows) ==
  session' = [books |-> bk, escrow |-> rows, todo |-> session.todo \ {e},
              now |-> session.now]
Marked(e, status) == [session.escrow EXCEPT ![e].status = status]

\* Mutants: escrows that are no longer open, or past their horizon, are paid.
ReleaseAnyStatus(q, e) ==
  /\ pc[q] = "releasing"
  /\ e \in session.todo
  /\ session.escrow[e].status # "none"
  /\ Proceed(e, Transfer(session.books, RoyaltyTx(e, q)), Marked(e, "paid"))
  /\ UNCHANGED <<books, market, mode, loop, pc, querier, cites, adjudicating,
                 clock, crashes>>
ReleaseLate(q, e) ==
  /\ pc[q] = "releasing"
  /\ e \in session.todo
  /\ session.escrow[e].status = "open"
  /\ Proceed(e, Transfer(session.books, RoyaltyTx(e, q)), Marked(e, "paid"))
  /\ UNCHANGED <<books, market, mode, loop, pc, querier, cites, adjudicating,
                 clock, crashes>>

\* One citation, inside the open transaction.
ReleaseOne(q, e) ==
  LET row == session.escrow[e] IN
  /\ pc[q] = "releasing"
  /\ e \in session.todo
  /\ \/ row.status # "open" /\ Proceed(e, session.books, session.escrow)
     \/ /\ row.status = "open" /\ session.now > row.expires
        /\ Proceed(e, session.books, Marked(e, "expired"))
     \/ /\ row.status = "open" /\ session.now <= row.expires
        /\ Affordable(session.books, RoyaltyTx(e, q))
        /\ Proceed(e, Transfer(session.books, RoyaltyTx(e, q)), Marked(e, "paid"))
  /\ UNCHANGED <<books, market, mode, loop, pc, querier, cites, adjudicating,
                 clock, crashes>>

CommitRelease(q) ==
  /\ TaskStep(q, "releasing", "answered", Idle)
  /\ session.todo = {}
  /\ books' = session.books
  /\ escrow' = session.escrow
  /\ session' = NULL
  /\ UNCHANGED <<event, invoice, claim, evidence, mode, querier, cites,
                 adjudicating, clock, crashes>>

\* Mutant: the transfers made so far stay, the escrows do not.
AbortReleaseUnrolled(q) ==
  /\ TaskStep(q, "releasing", "answered", Idle)
  /\ session' = NULL
  /\ books' = session.books
  /\ UNCHANGED <<market, mode, querier, cites, adjudicating, clock, crashes>>

\* Mutant: a release that fails is begun again, until the treasury can pay.
AbortReleaseRetries(q) ==
  /\ pc[q] = "releasing"
  /\ session' = [session EXCEPT !.books = books, !.escrow = escrow, !.todo = cites[q]]
  /\ UNCHANGED <<books, market, mode, loop, pc, querier, cites, adjudicating,
                 clock, crashes>>

\* The treasury cannot pay one of them, or the database fails: nothing is
\* released, and the answer is delivered all the same.
AbortRelease(q) ==
  /\ TaskStep(q, "releasing", "answered", Idle)
  /\ session' = NULL
  /\ UNCHANGED <<books, market, mode, querier, cites, adjudicating, clock, crashes>>

\* The artifact and the terminal event are out.
Deliver(q) ==
  /\ loop = Idle
  /\ TaskStep(q, "answered", "done", Idle)
  /\ UNCHANGED <<books, market, mode, querier, cites, session, adjudicating,
                 clock, crashes>>

\* cancel: only a task that awaits can be cancelled.
Cancel(q) ==
  /\ loop = Idle
  /\ pc[q] \in {"asking", "answered"}
  /\ pc' = [pc EXCEPT ![q] = "canceled"]
  /\ UNCHANGED <<books, market, mode, loop, querier, cites, session,
                 adjudicating, clock, crashes>>

----------------------------------------------------------------------------
(* record_contradiction: revoke the escrow, then book the violation, in    *)
(* two commits.  The contradicting event must be another stored one; what  *)
(* it says plays no part here and it need not be in Events.                *)

RevokeEscrow(e) ==
  /\ loop = Idle
  /\ e \in Stored
  /\ evidence[e].disputed < MaxDisputes
  /\ loop' = Disputing(e)
  /\ escrow' = [escrow EXCEPT ![e].status = IF @ = "open" THEN "expired" ELSE @]
  /\ UNCHANGED <<books, event, invoice, claim, evidence, mode, pc, querier, cites,
                 session, adjudicating, clock, crashes>>

RecordDispute(e) ==
  /\ loop = Disputing(e)
  /\ loop' = Idle
  /\ evidence' = [evidence EXCEPT ![e].disputed = @ + 1]
  /\ UNCHANGED <<books, event, escrow, invoice, claim, mode, pc, querier, cites,
                 session, adjudicating, clock, crashes>>

----------------------------------------------------------------------------
(* file_claim and adjudicate_claim.  The code guards against adjudicators  *)
(* in several threads, each with a transaction of its own: these may run   *)
(* between any two commits, but not inside another's open transaction.     *)

NoOpenTransaction == \A q \in Queries : pc[q] # "releasing"

\* Anyone may claim on a settled invoice, as often as they like.
FileClaim(c, a, q) ==
  /\ loop = Idle
  /\ claim[c].status = "none"
  /\ invoice[q] = "settled"
  /\ claim' = [claim EXCEPT ![c] = [status |-> "pending", invoice |-> q, claimant |-> a]]
  /\ UNCHANGED <<books, event, escrow, invoice, evidence, tasks, clock, crashes>>

\* The check outside the transaction; another thread may decide in between.
ReadPending(d, c) ==
  /\ NoOpenTransaction
  /\ adjudicating[d] = NULL
  /\ claim[c].status = "pending"
  /\ adjudicating' = [adjudicating EXCEPT ![d] = c]
  /\ UNCHANGED <<books, market, mode, loop, pc, querier, cites, session, clock, crashes>>

\* Mutant: the status read before the transaction is trusted.
DecideOnStaleStatus(d, verdict) ==
  LET c == adjudicating[d] IN
  /\ NoOpenTransaction
  /\ c # NULL
  /\ adjudicating' = [adjudicating EXCEPT ![d] = NULL]
  /\ verdict = "approved" => Affordable(books, PayoutTx(c))
  /\ books' = IF verdict = "approved" THEN Transfer(books, PayoutTx(c)) ELSE books
  /\ claim' = [claim EXCEPT ![c].status = verdict]
  /\ UNCHANGED <<event, escrow, invoice, evidence, mode, loop, pc, querier, cites,
                 session, clock, crashes>>

\* The transaction: the pool pays and the claim is decided, if it still is
\* undecided; a lost race or an empty pool rolls it back.
Decide(d, verdict) ==
  LET c == adjudicating[d] IN
  /\ NoOpenTransaction
  /\ c # NULL
  /\ adjudicating' = [adjudicating EXCEPT ![d] = NULL]
  /\ IF claim[c].status = "pending"
        /\ (verdict = "approved" => Affordable(books, PayoutTx(c)))
     THEN /\ books' = IF verdict = "approved" THEN Transfer(books, PayoutTx(c)) ELSE books
          /\ claim' = [claim EXCEPT ![c].status = verdict]
     ELSE UNCHANGED <<books, claim>>
  /\ UNCHANGED <<event, escrow, invoice, evidence, mode, loop, pc, querier, cites,
                 session, clock, crashes>>

----------------------------------------------------------------------------
\* A day passes.  Nothing between two awaits reads the clock twice.
Tick ==
  /\ loop = Idle
  /\ clock < MaxClock
  /\ clock' = clock + 1
  /\ UNCHANGED <<books, market, tasks, crashes>>

\* The process dies and restarts: tables survive, tasks and the open
\* transaction do not, and the settings are read again.
InFlight == {"issued", "refused", "settled", "asking", "releasing", "answered"}

Crash ==
  /\ crashes < MaxCrashes
  /\ crashes' = crashes + 1
  /\ loop' = Idle
  /\ session' = NULL
  /\ pc' = [q \in Queries |-> IF pc[q] \in InFlight THEN "lost" ELSE pc[q]]
  /\ adjudicating' = [d \in Adjudicators |-> NULL]
  /\ mode' \in Modes
  /\ UNCHANGED <<books, market, querier, cites, clock>>

----------------------------------------------------------------------------
QueryStep(q) ==
  \/ Settle(q) \/ ChargeFails(q) \/ Invalidate(q) \/ AccrueFeeAndAsk(q)
  \/ Narrate(q) \/ NarrateFails(q)
  \/ \E e \in Events : ReleaseOne(q, e)
  \/ CommitRelease(q) \/ AbortRelease(q) \/ Deliver(q)

PublishStep(e) == RecordSettledPublish(e) \/ RecordDispute(e)

Request ==
  \/ \E e \in Events, a \in Clients, ts \in Days : Publish(e, a, ts)
  \/ \E q \in Queries : (\E a \in Clients : IssueInvoice(q, a)) \/ AskUncharged(q)
  \/ \E q \in Queries : Cancel(q)

Operate ==
  \/ \E e \in Events : RevokeEscrow(e)
  \/ \E c \in Claims, a \in Clients, q \in Queries : FileClaim(c, a, q)
  \/ \E d \in Adjudicators : \/ \E c \in Claims : ReadPending(d, c)
                             \/ \E v \in {"approved", "denied"} : Decide(d, v)

Next ==
  \/ Request \/ Operate \/ Tick \/ Crash
  \/ \E q \in Queries : QueryStep(q)
  \/ \E e \in Events : PublishStep(e)

Spec == Init /\ [][Next]_vars

(***************************************************************************)
(* Fairness: the event loop runs every ready task; a model call returns or *)
(* raises (the providers set a timeout of 60 s and the renderer retries at *)
(* most twice).  Clients, operators, crashes and cancellations owe nothing.*)
(***************************************************************************)
FairSpec == Spec /\ \A q \in Queries : WF_vars(QueryStep(q))
                 /\ \A e \in Events : WF_vars(PublishStep(e))

----------------------------------------------------------------------------
(* Properties.                                                             *)

EscrowStatus  == {"none", "open", "paid", "expired"}
InvoiceStatus == {"none", "pending", "settled", "invalidated"}
ClaimStatus   == {"none", "pending", "approved", "denied"}
Places == InFlight \cup {"new", "done", "failed", "canceled", "lost"}
EscrowRows == [status : EscrowStatus, expires : Nat]

RowsTyped ==
  /\ event \in [Events -> [seller : Clients, paid : BOOLEAN] \cup {NULL}]
  /\ escrow \in [Events -> EscrowRows]
  /\ invoice \in [Queries -> InvoiceStatus]
  /\ claim \in [Claims -> [status : ClaimStatus, invoice : Queries \cup {NULL},
                           claimant : Clients \cup {NULL}]]
  /\ evidence \in [Events -> [settled : Nat, disputed : Nat]]

Loops == {Idle} \cup {Publishing(e) : e \in Events} \cup {Disputing(e) : e \in Events}
                \cup {Asking(q) : q \in Queries}

Releasing == \E q \in Queries : pc[q] = "releasing"

SessionTyped ==
  Releasing =>
    /\ session.escrow \in [Events -> EscrowRows]
    /\ session.todo \subseteq Events
    /\ session.now \in Nat

TasksTyped ==
  /\ mode \in Modes
  /\ loop \in Loops
  /\ pc \in [Queries -> Places]
  /\ querier \in [Queries -> Clients \cup {NULL}]
  /\ cites \in [Queries -> SUBSET Events]
  /\ adjudicating \in [Adjudicators -> Claims \cup {NULL}]
  /\ clock \in Nat /\ crashes \in Nat

\* No balance is ever negative (CHECK (balance >= 0) never fires), and the
\* rows and the tasks hold what the schema and the code say they may.
TypeOK ==
  /\ DOMAIN books.balance \subseteq Accounts
  /\ books.balance \in [DOMAIN books.balance -> Nat]
  /\ RowsTyped
  /\ TasksTyped
  /\ SessionTyped

\* Rows of the log by what they refer to.
RowsOfEvent(e, reasons)  == {t \in DOMAIN books.log : t.event = e /\ t.reason \in reasons}
RowsOfInvoice(q, reason) == {t \in DOMAIN books.log : t.invoice = q /\ t.reason = reason}

\* Exactly one row was written, once.
Once(S)  == \E t \in S : S = {t} /\ books.log[t] = 1

\* audit.py: whatever happens, balances sum to the minted total.
CreditsConserved == Balanced(books)

\* publish.py: a stored event that carries a credits_tx_id was paid for once,
\* to its seller; nothing else was, so no rolled-back publish left a payment.
EventsPaidOnce ==
  \A e \in Events :
    LET rows == RowsOfEvent(e, {"listing_fee", "publish_reward"})
    IN  IF e \in Stored /\ event[e].paid
        THEN Once(rows) /\ \A t \in rows : t.to = event[e].seller
        ELSE rows = {}

\* payout.py, audit.py: an escrow is paid exactly when one royalty row says
\* so, and that row was caused by a query whose querier paid for it; an open,
\* revoked or expired escrow has paid nothing.
EscrowMatchesRoyalty ==
  \A e \in Events :
    LET rows == RowsOfEvent(e, {"royalty"})
    IN  IF escrow[e].status = "paid"
        THEN Once(rows) /\ \A t \in rows : /\ t.to = event[e].seller
                                           /\ t.amount = Escrowed
                                           /\ invoice[t.invoice] = "settled"
        ELSE rows = {}

\* executor.py, D5: an invoice is settled exactly when its querier paid its
\* price once; a pool fee is taken at most once, and only for such a query.
InvoiceMatchesPayment ==
  \A q \in Queries :
    LET paid == RowsOfInvoice(q, "query_price")
        fees == RowsOfInvoice(q, "pool_fee")
    IN  IF invoice[q] = "settled"
        THEN Once(paid) /\ (\A t \in paid : t.from = querier[q])
             /\ (fees = {} \/ Once(fees))
        ELSE paid = {} /\ fees = {}

\* refund_pool.py, M3: a claimant has been paid once per approved claim, for
\* an invoice that was settled, however many adjudicators raced.
RefundsMatchClaims ==
  \A q \in Queries, a \in Clients :
    LET approved == {c \in Claims : claim[c].status = "approved"
                                    /\ claim[c].invoice = q /\ claim[c].claimant = a}
        row == Tx("refund_payout", Pool, a, QueryPrice, NULL, q)
    IN  /\ Copies(row, books.log) = Cardinality(approved)
        /\ approved # {} => invoice[q] = "settled"

\* payout.py: a seller never earns more than the reward on an event, and no
\* more than the listing fee on one that was not cited in time.
Earned(e) == Volume(books.log, RowsOfEvent(e, {"listing_fee", "publish_reward", "royalty"}))
EarningsCapped ==
  \A e \in Events :
    /\ Earned(e) <= PublishReward
    /\ escrow[e].status \in {"open", "expired"} => Earned(e) = ListingFee

\* corroboration.py: once a contradiction is on the record, the disputed
\* event's escrow is not open, so no later citation pays it.
DisputedNotOpen ==
  \A e \in Events : evidence[e].disputed > 0 => escrow[e].status # "open"

\* publish.py 5.5: only a settled purchase is reliability evidence, once.
EvidenceOfSettledPurchase ==
  \A e \in Events : evidence[e].settled <= (IF e \in Stored /\ event[e].paid THEN 1 ELSE 0)

\* A settled or invalidated invoice, a paid or expired escrow and a decided
\* claim stay what they are, through crashes and restarts.
DecisionsAreFinal ==
  [][/\ \A q \in Queries : invoice[q] \in {"settled", "invalidated"} => invoice'[q] = invoice[q]
     /\ \A e \in Events : escrow[e].status \in {"paid", "expired"} => escrow'[e] = escrow[e]
     /\ \A c \in Claims : claim[c].status \in {"approved", "denied"} => claim'[c] = claim[c]
    ]_vars

\* payout.py: an escrow is paid only within its horizon.
RoyaltyInTime ==
  [][\A e \in Events : escrow[e].status = "open" /\ escrow'[e].status = "paid"
                         => clock <= escrow[e].expires]_vars

\* executor.py: every query that draws an invoice comes to an end, whatever
\* the provider, the database, a canceller or a crash does to it.
QueriesEnd == \A q \in Queries :
  pc[q] = "issued" ~> pc[q] \in {"done", "failed", "canceled", "lost"}
=============================================================================
