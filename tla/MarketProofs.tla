---------------------------- MODULE MarketProofs ----------------------------
(***************************************************************************)
(* Proofs about Market: types, and that no interleaving of publishes,      *)
(* queries, royalty transactions, disputes, refunds and crashes creates or *)
(* destroys a credit.                                                      *)
(*                                                                         *)
(* The argument: TransferSound (CreditsLedgerProofs) carries one transfer  *)
(* with a positive amount between known accounts.  That every transfer of  *)
(* the market is one takes three facts: the loop is held by the one task   *)
(* that is between two commits (LoopHeld), so the open royalty transaction *)
(* has one owner; a row that pays names an account (Linked); and the open  *)
(* transaction's working copy of the books is as sound as the books.       *)
(*                                                                         *)
(* Three further invariants, each introduced where it is used: DInv, for   *)
(* what is decided stays decided; VInv, for the refinement of Settlement;  *)
(* and LInv, for what the log records row by row.                          *)
(***************************************************************************)
EXTENDS MarketSettles, CreditsLedgerProofs

----------------------------------------------------------------------------
(* Amounts.                                                                *)

\* Rounding a natural fraction yields a natural.
LEMMA RoundNat ==
  ASSUME NEW n \in Nat
  PROVE  Round(n, 100) \in Nat
<1>1. n \div 100 \in Nat
  OBVIOUS
<1> QED BY <1>1 DEF Round

\* The listing fee is positive and at most the reward.
LEMMA ListingFeeBounds ==
  /\ ListingFee \in Nat \ {0}
  /\ Escrowed \in Nat
  /\ ListingFee + Escrowed = PublishReward
<1>1. PublishReward \in Nat \ {0} /\ FeePercent \in Nat
  BY MarketAssumption
<1>2. PublishReward * FeePercent \in Nat
  BY <1>1
<1>3. Round(PublishReward * FeePercent, 100) \in Nat
  BY <1>2, RoundNat
<1>4. AtLeast(1, Round(PublishReward * FeePercent, 100)) \in Nat \ {0}
  BY <1>3 DEF AtLeast
<1>5. ListingFee \in Nat \ {0} /\ ListingFee <= PublishReward
  BY <1>1, <1>4 DEF AtMost, ListingFee
<1> QED BY <1>1, <1>5 DEF Escrowed

----------------------------------------------------------------------------
(* The invariant.                                                          *)

\* A task between two commits holds the loop.
Holding == {"issued", "refused", "settled", "releasing"}

LoopHeld ==
  \A q \in Queries : pc[q] \in Holding => loop = Asking(q)

\* An open escrow belongs to an event with a seller and holds a positive amount.
Backed(rows) ==
  \A e \in Events :
    rows[e].status = "open" => event[e].seller \in Clients /\ Escrowed > 0

\* Whoever is going to pay or to be paid is an account.
Linked ==
  /\ \A q \in Queries : pc[q] = "issued" => querier[q] \in Clients
  /\ Backed(escrow)
  /\ Releasing => Backed(session.escrow)
  /\ \A c \in Claims : claim[c].status # "none" => claim[c].claimant \in Clients
  /\ \A d \in Adjudicators :
       adjudicating[d] # NULL => claim[adjudicating[d]].status # "none"

BooksSound ==
  /\ SoundBooks(books)
  /\ Releasing => SoundBooks(session.books)

Typed == RowsTyped /\ TasksTyped

IInv == Typed /\ SessionTyped /\ LoopHeld /\ Linked /\ BooksSound

----------------------------------------------------------------------------
(* Types.                                                                  *)

\* A query task moves to a place it may be at.
LEMMA TaskStepTyped ==
  ASSUME pc \in [Queries -> Places], NEW q \in Queries,
         NEW from, NEW to \in Places, NEW holder \in Loops,
         TaskStep(q, from, to, holder)
  PROVE  pc' \in [Queries -> Places] /\ loop' \in Loops
BY DEF TaskStep

\* Every step of every action keeps rows and tasks typed.
LEMMA TypedStep ==
  ASSUME Typed, SessionTyped, [Next]_vars
  PROVE  Typed'
<1> USE DEF Typed, RowsTyped, TasksTyped, market, tasks
<1>p. \A x \in InFlight \cup {"new", "done", "failed", "canceled", "lost"} : x \in Places
  BY DEF Places
<1>l. Idle \in Loops /\ (\A q \in Queries : Asking(q) \in Loops)
      /\ (\A e \in Events : Publishing(e) \in Loops /\ Disputing(e) \in Loops)
  BY DEF Loops
<1>1. ASSUME NEW e \in Events, NEW a \in Clients, NEW ts \in Days, Publish(e, a, ts)
      PROVE  Typed'
  <2>1. ts + Horizon \in Nat
    BY MarketAssumption DEF Days
  <2>2. event' \in [Events -> [seller : Clients, paid : BOOLEAN] \cup {NULL}]
    BY <1>1, MarketAssumption DEF Publish
  <2>3. escrow' \in [Events -> EscrowRows]
    BY <1>1, <2>1 DEF Publish, EscrowRows, EscrowStatus
  <2>4. loop' \in Loops
    BY <1>1, <1>l DEF Publish
  <2> QED BY <1>1, <2>2, <2>3, <2>4 DEF Publish
<1>2. ASSUME NEW e \in Events, RecordSettledPublish(e)
      PROVE  Typed'
  <2>1. [evidence EXCEPT ![e].settled = @ + 1]
          \in [Events -> [settled : Nat, disputed : Nat]]
    OBVIOUS
  <2> QED BY <1>2, <2>1, <1>l DEF RecordSettledPublish
<1>3. ASSUME NEW q \in Queries, NEW a \in Clients, IssueInvoice(q, a)
      PROVE  Typed'
  BY <1>3, <1>l, <1>p, TaskStepTyped DEF IssueInvoice, InvoiceStatus, InFlight
<1>4. ASSUME NEW q \in Queries, AskUncharged(q)
      PROVE  Typed'
  BY <1>4, <1>l, <1>p, TaskStepTyped DEF AskUncharged, Stored, InFlight
<1>5. ASSUME NEW q \in Queries, Settle(q)
      PROVE  Typed'
  BY <1>5, <1>l, <1>p, TaskStepTyped DEF Settle, InvoiceStatus, InFlight
<1>6. ASSUME NEW q \in Queries, ChargeFails(q)
      PROVE  Typed'
  BY <1>6, <1>l, <1>p, TaskStepTyped DEF ChargeFails, InFlight
<1>7. ASSUME NEW q \in Queries, Invalidate(q)
      PROVE  Typed'
  BY <1>7, <1>l, <1>p, TaskStepTyped DEF Invalidate, InvoiceStatus, InFlight
<1>8. ASSUME NEW q \in Queries, AccrueFeeAndAsk(q)
      PROVE  Typed'
  BY <1>8, <1>l, <1>p, TaskStepTyped DEF AccrueFeeAndAsk, Stored, InFlight
<1>9. ASSUME NEW q \in Queries, Narrate(q)
      PROVE  Typed'
  BY <1>9, <1>l, <1>p, TaskStepTyped DEF Narrate, InFlight
<1>10. ASSUME NEW q \in Queries, NarrateFails(q)
       PROVE  Typed'
  BY <1>10, <1>l, <1>p, TaskStepTyped DEF NarrateFails
<1>11. ASSUME NEW q \in Queries, NEW e \in Events, ReleaseOne(q, e)
       PROVE  Typed'
  BY <1>11 DEF ReleaseOne
<1>12. ASSUME NEW q \in Queries, CommitRelease(q)
       PROVE  Typed'
  <2>1. session.escrow \in [Events -> EscrowRows]
    BY <1>12 DEF CommitRelease, TaskStep, Releasing, SessionTyped
  <2> QED BY <1>12, <2>1, <1>l, <1>p, TaskStepTyped DEF CommitRelease, InFlight
<1>13. ASSUME NEW q \in Queries, AbortRelease(q)
       PROVE  Typed'
  BY <1>13, <1>l, <1>p, TaskStepTyped DEF AbortRelease, InFlight
<1>14. ASSUME NEW q \in Queries, Deliver(q)
       PROVE  Typed'
  BY <1>14, <1>l, <1>p, TaskStepTyped DEF Deliver
<1>15. ASSUME NEW q \in Queries, Cancel(q)
       PROVE  Typed'
  BY <1>15, <1>p DEF Cancel
<1>16. ASSUME NEW e \in Events, RevokeEscrow(e)
       PROVE  Typed'
  BY <1>16, <1>l DEF RevokeEscrow, EscrowRows, EscrowStatus
<1>17. ASSUME NEW e \in Events, RecordDispute(e)
       PROVE  Typed'
  <2>1. [evidence EXCEPT ![e].disputed = @ + 1]
          \in [Events -> [settled : Nat, disputed : Nat]]
    OBVIOUS
  <2> QED BY <1>17, <2>1, <1>l DEF RecordDispute
<1>18. ASSUME NEW c \in Claims, NEW a \in Clients, NEW q \in Queries, FileClaim(c, a, q)
       PROVE  Typed'
  BY <1>18 DEF FileClaim, ClaimStatus
<1>19. ASSUME NEW d \in Adjudicators, NEW c \in Claims, ReadPending(d, c)
       PROVE  Typed'
  BY <1>19 DEF ReadPending
<1>20. ASSUME NEW d \in Adjudicators, NEW v \in {"approved", "denied"}, Decide(d, v)
       PROVE  Typed'
  <2>1. adjudicating[d] \in Claims
    BY <1>20 DEF Decide
  <2>2. [claim EXCEPT ![adjudicating[d]].status = v]
          \in [Claims -> [status : ClaimStatus, invoice : Queries \cup {NULL},
                          claimant : Clients \cup {NULL}]]
    BY <2>1 DEF ClaimStatus
  <2>3. claim' = claim \/ claim' = [claim EXCEPT ![adjudicating[d]].status = v]
    BY <1>20 DEF Decide
  <2> QED BY <1>20, <2>2, <2>3 DEF Decide
<1>21. ASSUME Tick
       PROVE  Typed'
  BY <1>21 DEF Tick
<1>22. ASSUME Crash
       PROVE  Typed'
  BY <1>22, <1>l, <1>p DEF Crash
<1>23. ASSUME UNCHANGED vars
       PROVE  Typed'
  BY <1>23 DEF vars
<1> QED
  BY <1>1, <1>2, <1>3, <1>4, <1>5, <1>6, <1>7, <1>8, <1>9, <1>10, <1>11, <1>12,
     <1>13, <1>14, <1>15, <1>16, <1>17, <1>18, <1>19, <1>20, <1>21, <1>22, <1>23
  DEF Next, Request, Operate, QueryStep, PublishStep

----------------------------------------------------------------------------
(* The holder of the loop.                                                 *)

\* A task that moves takes the loop along, or gives it back.
LEMMA TaskStepHeld ==
  ASSUME LoopHeld, pc \in [Queries -> Places], NEW q \in Queries, NEW from, NEW to,
         NEW holder, TaskStep(q, from, to, holder),
         loop = Idle \/ from \in Holding,
         to \in Holding => holder = Asking(q)
  PROVE  \A p \in Queries : /\ pc'[p] \in Holding => loop' = Asking(p)
                            /\ p # q => pc'[p] \notin Holding
                            /\ pc'[q] = to
<1>1. \A p \in Queries : p # q => Asking(p) # Asking(q) /\ pc'[p] = pc[p]
  BY DEF Asking, TaskStep
<1>2. \A p \in Queries : Asking(p) # Idle
  BY DEF Asking, Idle
<1>3. \A p \in Queries : p # q => pc[p] \notin Holding
  BY <1>1, <1>2 DEF LoopHeld, TaskStep
<1>4. pc'[q] = to /\ loop' = holder
  BY DEF TaskStep
<1> QED BY <1>1, <1>3, <1>4

\* Nobody but the holder runs between two commits.
LEMMA LoopHeldStep ==
  ASSUME Typed, LoopHeld, [Next]_vars
  PROVE  LoopHeld'
<1> USE DEF LoopHeld, Holding, market, tasks
<1>i. \A q \in Queries : /\ Asking(q) # Idle
                         /\ \A e \in Events : Asking(q) # Publishing(e)
                                            /\ Asking(q) # Disputing(e)
  BY DEF Asking, Idle, Publishing, Disputing
<1>t. pc \in [Queries -> Places]
  BY DEF Typed, TasksTyped
<1>1. ASSUME NEW q \in Queries, NEW a \in Clients, IssueInvoice(q, a)
      PROVE  LoopHeld'
  BY <1>1, <1>t, TaskStepHeld DEF IssueInvoice
<1>2. ASSUME NEW q \in Queries, AskUncharged(q)
      PROVE  LoopHeld'
  BY <1>2, <1>t, TaskStepHeld DEF AskUncharged
<1>3. ASSUME NEW q \in Queries, Settle(q)
      PROVE  LoopHeld'
  BY <1>3, <1>t, TaskStepHeld DEF Settle
<1>4. ASSUME NEW q \in Queries, ChargeFails(q)
      PROVE  LoopHeld'
  BY <1>4, <1>t, TaskStepHeld DEF ChargeFails
<1>5. ASSUME NEW q \in Queries, Invalidate(q)
      PROVE  LoopHeld'
  BY <1>5, <1>t, TaskStepHeld DEF Invalidate
<1>6. ASSUME NEW q \in Queries, AccrueFeeAndAsk(q)
      PROVE  LoopHeld'
  BY <1>6, <1>t, TaskStepHeld DEF AccrueFeeAndAsk
<1>7. ASSUME NEW q \in Queries, Narrate(q)
      PROVE  LoopHeld'
  BY <1>7, <1>t, TaskStepHeld DEF Narrate
<1>8. ASSUME NEW q \in Queries, NarrateFails(q)
      PROVE  LoopHeld'
  BY <1>8, <1>t, TaskStepHeld DEF NarrateFails
<1>9. ASSUME NEW q \in Queries, NEW e \in Events, ReleaseOne(q, e)
      PROVE  LoopHeld'
  BY <1>9 DEF ReleaseOne
<1>10. ASSUME NEW q \in Queries, CommitRelease(q) \/ AbortRelease(q)
       PROVE  LoopHeld'
  BY <1>10, <1>t, TaskStepHeld DEF CommitRelease, AbortRelease
<1>11. ASSUME NEW q \in Queries, Deliver(q)
       PROVE  LoopHeld'
  BY <1>11, <1>t, TaskStepHeld DEF Deliver
<1>12. ASSUME NEW q \in Queries, Cancel(q)
       PROVE  LoopHeld'
  BY <1>12, <1>t DEF Cancel
<1>13. ASSUME Crash
       PROVE  LoopHeld'
  BY <1>13 DEF Crash, InFlight
<1>14. ASSUME loop = Idle \/ \E e \in Events : loop \in {Publishing(e), Disputing(e)},
              pc' = pc
       PROVE  LoopHeld'
  BY <1>14, <1>i
<1>15. ASSUME UNCHANGED <<loop, pc>>
       PROVE  LoopHeld'
  BY <1>15
<1>16. ASSUME NEW e \in Events,
              \/ \E a \in Clients, ts \in Days : Publish(e, a, ts)
              \/ RecordSettledPublish(e) \/ RevokeEscrow(e) \/ RecordDispute(e)
       PROVE  LoopHeld'
  BY <1>16, <1>14 DEF Publish, RecordSettledPublish, RevokeEscrow, RecordDispute
<1>17. ASSUME \/ \E c \in Claims, a \in Clients, q \in Queries : FileClaim(c, a, q)
              \/ \E d \in Adjudicators : \/ \E c \in Claims : ReadPending(d, c)
                                         \/ \E v \in {"approved", "denied"} : Decide(d, v)
              \/ Tick \/ UNCHANGED vars
       PROVE  LoopHeld'
  BY <1>17, <1>15 DEF FileClaim, ReadPending, Decide, Tick, vars
<1> QED
  BY <1>1, <1>2, <1>3, <1>4, <1>5, <1>6, <1>7, <1>8, <1>9, <1>10, <1>11, <1>12,
     <1>13, <1>16, <1>17
  DEF Next, Request, Operate, QueryStep, PublishStep

----------------------------------------------------------------------------
(* The open transaction.                                                   *)

\* What releasing one citation does to the open transaction.
LEMMA ReleaseOneEffect ==
  ASSUME NEW q \in Queries, NEW e \in Events, ReleaseOne(q, e)
  PROVE  /\ Releasing
         /\ session'.todo = session.todo \ {e} /\ session'.now = session.now
         /\ \/ session'.escrow = session.escrow
            \/ \E st \in {"expired", "paid"} : session'.escrow = Marked(e, st)
         /\ \/ session'.books = session.books
            \/ /\ session.escrow[e].status = "open"
               /\ Affordable(session.books, RoyaltyTx(e, q))
               /\ session'.books = Transfer(session.books, RoyaltyTx(e, q))
<1>1. Releasing
  BY DEF ReleaseOne, Releasing
<1>2. ASSUME NEW bk, NEW rows, Proceed(e, bk, rows)
      PROVE  /\ session'.books = bk /\ session'.escrow = rows
             /\ session'.todo = session.todo \ {e} /\ session'.now = session.now
  BY <1>2 DEF Proceed
<1> QED BY <1>1, <1>2 DEF ReleaseOne

\* A transaction that is open after a step was open and untouched, released
\* a citation, or was opened on the committed tables.
Opened(q) ==
  session' = [books |-> books, escrow |-> escrow, todo |-> cites[q], now |-> clock]

\* Where an open transaction of royalties comes from.
LEMMA SessionCases ==
  ASSUME Typed, LoopHeld, [Next]_vars, Releasing'
  PROVE  \/ Releasing /\ session' = session
         \/ \E q \in Queries, e \in Events : ReleaseOne(q, e)
         \/ \E q \in Queries : Opened(q) /\ Narrate(q)
<1> USE DEF Holding, market, tasks
<1>t. pc \in [Queries -> Places]
  BY DEF Typed, TasksTyped
<1>1. PICK p \in Queries : pc'[p] = "releasing"
  BY DEF Releasing
<1>2. ASSUME NEW q \in Queries, NEW from, NEW to, NEW holder,
             TaskStep(q, from, to, holder), loop = Idle \/ from \in Holding,
             to \notin Holding
      PROVE  FALSE
  BY <1>1, <1>2, <1>t, TaskStepHeld
<1>3. ASSUME NEW q \in Queries,
             \/ \E a \in Clients : IssueInvoice(q, a)
             \/ Settle(q) \/ ChargeFails(q)
      PROVE  Releasing /\ session' = session
  BY <1>1, <1>3, <1>t
  DEF IssueInvoice, Settle, ChargeFails, TaskStep, Releasing
<1>4. ASSUME NEW q \in Queries,
             \/ AskUncharged(q) \/ Invalidate(q) \/ AccrueFeeAndAsk(q)
             \/ NarrateFails(q) \/ CommitRelease(q) \/ AbortRelease(q) \/ Deliver(q)
      PROVE  FALSE
  BY <1>2, <1>4 DEF AskUncharged, Invalidate, AccrueFeeAndAsk, NarrateFails,
                    CommitRelease, AbortRelease, Deliver
<1>5. ASSUME NEW q \in Queries, Narrate(q)
      PROVE  Opened(q)
  BY <1>2, <1>5 DEF Narrate, Opened
<1>6. ASSUME NEW q \in Queries, Cancel(q)
      PROVE  Releasing /\ session' = session
  BY <1>1, <1>6, <1>t DEF Cancel, Releasing
<1>7. ASSUME Crash
      PROVE  FALSE
  BY <1>1, <1>7 DEF Crash, InFlight
<1>8. ASSUME UNCHANGED <<pc, session>>
      PROVE  Releasing /\ session' = session
  BY <1>1, <1>8 DEF Releasing
<1>9. ASSUME NEW e \in Events,
             \/ \E a \in Clients, ts \in Days : Publish(e, a, ts)
             \/ RecordSettledPublish(e) \/ RevokeEscrow(e) \/ RecordDispute(e)
      PROVE  Releasing /\ session' = session
  BY <1>8, <1>9 DEF Publish, RecordSettledPublish, RevokeEscrow, RecordDispute
<1>10. ASSUME \/ \E c \in Claims, a \in Clients, q \in Queries : FileClaim(c, a, q)
              \/ \E d \in Adjudicators : \/ \E c \in Claims : ReadPending(d, c)
                                         \/ \E v \in {"approved", "denied"} : Decide(d, v)
              \/ Tick \/ UNCHANGED vars
       PROVE  Releasing /\ session' = session
  BY <1>8, <1>10 DEF FileClaim, ReadPending, Decide, Tick, vars
<1> QED
  BY <1>3, <1>4, <1>5, <1>6, <1>7, <1>9, <1>10
  DEF Next, Request, Operate, QueryStep, PublishStep

\* The open transaction stays typed.
LEMMA SessionTypedStep ==
  ASSUME Typed, SessionTyped, LoopHeld, [Next]_vars
  PROVE  SessionTyped'
<1> SUFFICES ASSUME Releasing'
             PROVE  /\ session'.escrow \in [Events -> EscrowRows]
                    /\ session'.todo \subseteq Events
                    /\ session'.now \in Nat
  BY DEF SessionTyped
<1>1. CASE Releasing /\ session' = session
  BY <1>1 DEF SessionTyped
<1>2. ASSUME NEW q \in Queries, NEW e \in Events, ReleaseOne(q, e)
      PROVE  /\ session'.escrow \in [Events -> EscrowRows]
             /\ session'.todo \subseteq Events
             /\ session'.now \in Nat
  <2>1. /\ session.escrow \in [Events -> EscrowRows]
        /\ session.todo \subseteq Events /\ session.now \in Nat
    BY <1>2, ReleaseOneEffect DEF SessionTyped
  <2>2. \A st \in {"expired", "paid"} : Marked(e, st) \in [Events -> EscrowRows]
    BY <2>1 DEF Marked, EscrowRows, EscrowStatus
  <2> QED BY <1>2, <2>1, <2>2, ReleaseOneEffect
<1>3. ASSUME NEW q \in Queries, Opened(q)
      PROVE  /\ session'.escrow \in [Events -> EscrowRows]
             /\ session'.todo \subseteq Events
             /\ session'.now \in Nat
  BY <1>3 DEF Opened, Typed, RowsTyped, TasksTyped
<1> QED BY <1>1, <1>2, <1>3, SessionCases

----------------------------------------------------------------------------
(* Who pays and who is paid.                                               *)

\* Changing the status of a row to anything but "open" keeps rows backed.
LEMMA BackedStatus ==
  ASSUME NEW rows \in [Events -> EscrowRows], Backed(rows), NEW e \in Events,
         NEW st, st # "open"
  PROVE  Backed([rows EXCEPT ![e].status = st])
BY DEF Backed, EscrowRows

\* The escrow table stays backed by sellers of stored events.
LEMMA EscrowBackedStep ==
  ASSUME Typed, SessionTyped, Linked, [Next]_vars
  PROVE  Backed(escrow)' /\ (\A rows : Backed(rows) => Backed(rows)')
<1> USE DEF market, tasks
<1>1. ASSUME NEW e \in Events, NEW a \in Clients, NEW ts \in Days, Publish(e, a, ts)
      PROVE  /\ \A x \in Events : event'[x].seller \in Clients
                                    \/ event'[x] = event[x]
             /\ Backed(escrow)'
  <2>1. event' = [event EXCEPT ![e] = [seller |-> a, paid |-> mode.payment]]
    BY <1>1 DEF Publish
  <2>2. event'[e].seller \in Clients /\ \A x \in Events \ {e} : event'[x] = event[x]
    BY <2>1 DEF Typed, RowsTyped
  <2>3. escrow' = escrow \/ (Escrowed > 0 /\ \A x \in Events \ {e} : escrow'[x] = escrow[x])
    BY <1>1 DEF Publish, Typed, RowsTyped
  <2> QED BY <2>2, <2>3 DEF Linked, Backed
<1>2. ASSUME NEW e \in Events, RevokeEscrow(e)
      PROVE  Backed(escrow)' /\ event' = event
  <2>1. escrow' = [escrow EXCEPT ![e].status = "expired"] \/ escrow' = escrow
    <3>1. CASE escrow[e].status = "open"
      BY <1>2, <3>1 DEF RevokeEscrow
    <3>2. CASE escrow[e].status # "open"
      BY <1>2, <3>2 DEF RevokeEscrow, Typed, RowsTyped, EscrowRows
    <3> QED BY <3>1, <3>2
  <2>2. Backed(escrow')
    <3>1. Backed(escrow) /\ escrow \in [Events -> EscrowRows]
      BY DEF Linked, Typed, RowsTyped
    <3>2. Backed([escrow EXCEPT ![e].status = "expired"])
      BY <3>1, BackedStatus
    <3> QED BY <2>1, <3>1, <3>2 DEF Backed
  <2>3. event' = event
    BY <1>2 DEF RevokeEscrow
  <2> QED BY <2>2, <2>3 DEF Backed
<1>3. ASSUME NEW q \in Queries, CommitRelease(q)
      PROVE  Backed(escrow)' /\ event' = event
  <2>1. Releasing
    BY <1>3 DEF CommitRelease, TaskStep, Releasing
  <2> QED BY <1>3, <2>1 DEF CommitRelease, Linked, Backed
<1>4. ASSUME UNCHANGED <<event, escrow>>
      PROVE  Backed(escrow)' /\ event' = event
  BY <1>4 DEF Linked, Backed
<1>5. ASSUME NEW q \in Queries,
             \/ \E a \in Clients : IssueInvoice(q, a)
             \/ AskUncharged(q) \/ Cancel(q)
             \/ Settle(q) \/ ChargeFails(q) \/ Invalidate(q) \/ AccrueFeeAndAsk(q)
             \/ Narrate(q) \/ NarrateFails(q) \/ AbortRelease(q) \/ Deliver(q)
             \/ \E e \in Events : ReleaseOne(q, e)
      PROVE  UNCHANGED <<event, escrow>>
  BY <1>5 DEF IssueInvoice, AskUncharged, Cancel, Settle, ChargeFails, Invalidate,
              AccrueFeeAndAsk, Narrate, NarrateFails, AbortRelease, Deliver, ReleaseOne
<1>6. ASSUME \/ \E e \in Events : RecordSettledPublish(e) \/ RecordDispute(e)
             \/ \E c \in Claims, a \in Clients, q \in Queries : FileClaim(c, a, q)
             \/ \E d \in Adjudicators : \/ \E c \in Claims : ReadPending(d, c)
                                        \/ \E v \in {"approved", "denied"} : Decide(d, v)
             \/ Tick \/ Crash \/ UNCHANGED vars
      PROVE  UNCHANGED <<event, escrow>>
  BY <1>6 DEF RecordSettledPublish, RecordDispute, FileClaim, ReadPending, Decide,
              Tick, Crash, vars
<1>7. /\ Backed(escrow)'
      /\ \A x \in Events : event'[x].seller \in Clients \/ event'[x] = event[x]
  BY <1>1, <1>2, <1>3, <1>4, <1>5, <1>6
  DEF Next, Request, Operate, QueryStep, PublishStep
<1> QED BY <1>7 DEF Backed

\* A query that is about to be charged names its querier.
LEMMA QuerierStep ==
  ASSUME Typed, Linked, [Next]_vars, NEW q \in Queries, pc'[q] = "issued"
  PROVE  querier'[q] \in Clients
<1> USE DEF market, tasks, TaskStep, Typed, TasksTyped
<1>1. ASSUME NEW p \in Queries, NEW a \in Clients, IssueInvoice(p, a)
      PROVE  querier'[q] \in Clients
  BY <1>1 DEF IssueInvoice, Linked
<1>2. ASSUME querier' = querier, pc'[q] = pc[q]
      PROVE  querier'[q] \in Clients
  BY <1>2 DEF Linked
<1>3. ASSUME NEW p \in Queries,
             \/ AskUncharged(p) \/ Cancel(p)
             \/ Settle(p) \/ ChargeFails(p) \/ Invalidate(p) \/ AccrueFeeAndAsk(p)
             \/ Narrate(p) \/ NarrateFails(p) \/ CommitRelease(p) \/ AbortRelease(p)
             \/ Deliver(p)
      PROVE  querier' = querier /\ pc'[q] = pc[q]
  BY <1>3 DEF AskUncharged, Cancel, Settle, ChargeFails, Invalidate, AccrueFeeAndAsk,
              Narrate, NarrateFails, CommitRelease, AbortRelease, Deliver
<1>4. ASSUME UNCHANGED <<querier, pc>>
      PROVE  querier'[q] \in Clients
  BY <1>2, <1>4
<1>5. ASSUME NEW e \in Events,
             \/ \E a \in Clients, ts \in Days : Publish(e, a, ts)
             \/ RecordSettledPublish(e) \/ RevokeEscrow(e) \/ RecordDispute(e)
             \/ \E p \in Queries : ReleaseOne(p, e)
      PROVE  UNCHANGED <<querier, pc>>
  BY <1>5 DEF Publish, RecordSettledPublish, RevokeEscrow, RecordDispute, ReleaseOne
<1>6. ASSUME \/ \E c \in Claims, a \in Clients, p \in Queries : FileClaim(c, a, p)
             \/ \E d \in Adjudicators : \/ \E c \in Claims : ReadPending(d, c)
                                        \/ \E v \in {"approved", "denied"} : Decide(d, v)
             \/ Tick \/ UNCHANGED vars
      PROVE  UNCHANGED <<querier, pc>>
  BY <1>6 DEF FileClaim, ReadPending, Decide, Tick, vars
<1>7. ASSUME Crash
      PROVE  FALSE
  BY <1>7 DEF Crash, InFlight
<1> QED
  BY <1>1, <1>2, <1>3, <1>4, <1>5, <1>6, <1>7
  DEF Next, Request, Operate, QueryStep, PublishStep

\* A claim that an adjudicator may decide names its claimant.
LEMMA ClaimsStep ==
  ASSUME Typed, Linked, [Next]_vars
  PROVE  /\ \A c \in Claims : claim'[c].status # "none" => claim'[c].claimant \in Clients
         /\ \A d \in Adjudicators :
              adjudicating'[d] # NULL => claim'[adjudicating'[d]].status # "none"
<1> DEFINE Named == \A c \in Claims : claim'[c].status # "none"
                                        => claim'[c].claimant \in Clients
           Filed == \A d \in Adjudicators :
                      adjudicating'[d] # NULL => claim'[adjudicating'[d]].status # "none"
<1> USE DEF market, tasks, Typed, RowsTyped, TasksTyped, Linked
<1>1. ASSUME NEW c \in Claims, NEW a \in Clients, NEW q \in Queries, FileClaim(c, a, q)
      PROVE  Named /\ Filed
  BY <1>1, MarketAssumption DEF FileClaim
<1>2. ASSUME NEW d \in Adjudicators, NEW c \in Claims, ReadPending(d, c)
      PROVE  Named /\ Filed
  BY <1>2 DEF ReadPending
<1>3. ASSUME NEW d \in Adjudicators, NEW v \in {"approved", "denied"}, Decide(d, v)
      PROVE  Named /\ Filed
  <2> DEFINE c == adjudicating[d]
  <2>1. c \in Claims /\ claim[c].status # "none"
    BY <1>3 DEF Decide
  <2>2. claim' = claim \/ claim' = [claim EXCEPT ![c].status = v]
    BY <1>3 DEF Decide
  <2>3. \A x \in Claims : /\ claim'[x].claimant = claim[x].claimant
                          /\ claim[x].status # "none" => claim'[x].status # "none"
                          /\ claim'[x].status # "none" => claim[x].status # "none"
    BY <2>1, <2>2
  <2>4. \A x \in Adjudicators : adjudicating'[x] # NULL => adjudicating'[x] = adjudicating[x]
    BY <1>3 DEF Decide
  <2> HIDE DEF c
  <2> QED BY <2>3, <2>4
<1>4. ASSUME Crash
      PROVE  Named /\ Filed
  BY <1>4 DEF Crash
<1>5. ASSUME UNCHANGED <<claim, adjudicating>>
      PROVE  Named /\ Filed
  BY <1>5
<1>6. ASSUME NEW q \in Queries,
             \/ \E a \in Clients : IssueInvoice(q, a)
             \/ AskUncharged(q) \/ Cancel(q)
             \/ Settle(q) \/ ChargeFails(q) \/ Invalidate(q) \/ AccrueFeeAndAsk(q)
             \/ Narrate(q) \/ NarrateFails(q) \/ CommitRelease(q) \/ AbortRelease(q)
             \/ Deliver(q) \/ \E e \in Events : ReleaseOne(q, e)
      PROVE  UNCHANGED <<claim, adjudicating>>
  BY <1>6 DEF IssueInvoice, AskUncharged, Cancel, Settle, ChargeFails, Invalidate,
              AccrueFeeAndAsk, Narrate, NarrateFails, CommitRelease, AbortRelease,
              Deliver, ReleaseOne
<1>7. ASSUME \/ \E e \in Events :
                  \/ \E a \in Clients, ts \in Days : Publish(e, a, ts)
                  \/ RecordSettledPublish(e) \/ RevokeEscrow(e) \/ RecordDispute(e)
             \/ Tick \/ UNCHANGED vars
      PROVE  UNCHANGED <<claim, adjudicating>>
  BY <1>7 DEF Publish, RecordSettledPublish, RevokeEscrow, RecordDispute, Tick, vars
<1> QED
  BY <1>1, <1>2, <1>3, <1>4, <1>5, <1>6, <1>7
  DEF Next, Request, Operate, QueryStep, PublishStep

\* All of it, with the rows of the open transaction.
LEMMA LinkedStep ==
  ASSUME Typed, SessionTyped, LoopHeld, Linked, [Next]_vars
  PROVE  Linked'
<1>1. ASSUME Releasing'
      PROVE  Backed(session.escrow)'
  <2>1. CASE Releasing /\ session' = session
    BY <2>1, EscrowBackedStep DEF Linked, Backed
  <2>2. ASSUME NEW q \in Queries, NEW e \in Events, ReleaseOne(q, e)
        PROVE  Backed(session.escrow)'
    <3>1. Backed(session.escrow) /\ session.escrow \in [Events -> EscrowRows]
      BY <2>2, ReleaseOneEffect DEF Linked, SessionTyped
    <3>2. \A st \in {"expired", "paid"} : Backed(Marked(e, st))
      BY <3>1, BackedStatus DEF Marked
    <3>3. event' = event
      BY <2>2 DEF ReleaseOne, market
    <3> QED BY <2>2, <3>1, <3>2, <3>3, ReleaseOneEffect DEF Backed
  <2>3. ASSUME NEW q \in Queries, Opened(q), Narrate(q)
        PROVE  Backed(session.escrow)'
    <3>1. session'.escrow = escrow /\ event' = event
      BY <2>3 DEF Opened, Narrate, market
    <3> QED BY <3>1 DEF Linked, Backed
  <2> QED BY <1>1, <2>1, <2>2, <2>3, SessionCases
<1> QED BY <1>1, EscrowBackedStep, QuerierStep, ClaimsStep DEF Linked

----------------------------------------------------------------------------
(* The books.                                                              *)

\* A row that moves credits between accounts, other than a grant.
Payment(tx) ==
  /\ tx.amount \in Nat \ {0} /\ tx.reason # "starting_grant"
  /\ tx.to \in Accounts /\ tx.from \in Accounts \cup {NULL}

\* Every row the market writes is one, whatever the settings.
LEMMA MarketPayments ==
  ASSUME Typed, Linked
  PROVE  /\ \A e \in Events, a \in Clients : Payment(PurchaseTx(e, a))
         /\ \A q \in Queries : querier[q] \in Clients => Payment(QueryTx(q))
         /\ \A q \in Queries : PoolFee > 0 => Payment(PoolFeeTx(q))
         /\ \A e \in Events, q \in Queries :
              event[e].seller \in Clients /\ Escrowed > 0 => Payment(RoyaltyTx(e, q))
         /\ \A c \in Claims : claim[c].status # "none" => Payment(PayoutTx(c))
<1>1. Clients \subseteq Accounts /\ Oldman \in Accounts /\ Pool \in Accounts
  BY MarketAssumption
<1>2. PublishReward \in Nat \ {0} /\ QueryPrice \in Nat \ {0} /\ PoolFee \in Nat
  BY MarketAssumption
<1>3. \A e \in Events, a \in Clients : Payment(PurchaseTx(e, a))
  BY <1>1, <1>2, ListingFeeBounds DEF Payment, PurchaseTx, Tx
<1>4. \A q \in Queries : querier[q] \in Clients => Payment(QueryTx(q))
  BY <1>1, <1>2 DEF Payment, QueryTx, Tx
<1>5. \A q \in Queries : PoolFee > 0 => Payment(PoolFeeTx(q))
  BY <1>1, <1>2 DEF Payment, PoolFeeTx, Tx
<1>6. \A e \in Events, q \in Queries :
        event[e].seller \in Clients /\ Escrowed > 0 => Payment(RoyaltyTx(e, q))
  BY <1>1, ListingFeeBounds DEF Payment, RoyaltyTx, Tx
<1>7. \A c \in Claims : claim[c].status # "none" => Payment(PayoutTx(c))
  BY <1>1, <1>2 DEF Payment, PayoutTx, Tx, Linked
<1> QED BY <1>3, <1>4, <1>5, <1>6, <1>7

\* TransferSound for such a row.
LEMMA PaymentSound ==
  ASSUME NEW b, SoundBooks(b), NEW tx, Payment(tx), Affordable(b, tx)
  PROVE  SoundBooks(Transfer(b, tx))
BY TransferSound DEF Payment

\* No step leaves the books, or the open transaction's copy, unsound.
LEMMA BooksSoundStep ==
  ASSUME Typed, SessionTyped, LoopHeld, Linked, BooksSound, [Next]_vars
  PROVE  BooksSound'
<1> USE DEF market, tasks
<1>0. SoundBooks(books) /\ (Releasing => SoundBooks(session.books))
  BY DEF BooksSound
<1>1. SoundBooks(books')
  <2>1. ASSUME NEW e \in Events, NEW a \in Clients, NEW ts \in Days, Publish(e, a, ts)
        PROVE  SoundBooks(books')
    <3>1. \/ books' = books
          \/ Affordable(books, PurchaseTx(e, a)) /\ books' = Transfer(books, PurchaseTx(e, a))
      BY <2>1 DEF Publish
    <3>2. Payment(PurchaseTx(e, a))
      BY MarketPayments
    <3> QED BY <1>0, <3>1, <3>2, PaymentSound
  <2>2. ASSUME NEW q \in Queries, Settle(q)
        PROVE  SoundBooks(books')
    <3>1. querier[q] \in Clients
      BY <2>2 DEF Settle, TaskStep, Linked
    <3>2. Payment(QueryTx(q))
      BY <3>1, MarketPayments
    <3>3. Affordable(books, QueryTx(q)) /\ books' = Transfer(books, QueryTx(q))
      BY <2>2 DEF Settle
    <3> QED BY <1>0, <3>2, <3>3, PaymentSound
  <2>3. ASSUME NEW q \in Queries, AccrueFeeAndAsk(q)
        PROVE  SoundBooks(books')
    <3>1. \/ books' = books
          \/ /\ PoolFee > 0 /\ Affordable(books, PoolFeeTx(q))
             /\ books' = Transfer(books, PoolFeeTx(q))
      BY <2>3 DEF AccrueFeeAndAsk
    <3>2. PoolFee > 0 => Payment(PoolFeeTx(q))
      BY MarketPayments
    <3> QED BY <1>0, <3>1, <3>2, PaymentSound
  <2>4. ASSUME NEW q \in Queries, CommitRelease(q)
        PROVE  SoundBooks(books')
    <3>1. Releasing
      BY <2>4 DEF CommitRelease, TaskStep, Releasing
    <3> QED BY <1>0, <2>4, <3>1 DEF CommitRelease
  <2>5. ASSUME NEW d \in Adjudicators, NEW v \in {"approved", "denied"}, Decide(d, v)
        PROVE  SoundBooks(books')
    <3> DEFINE c == adjudicating[d]
    <3>1. c \in Claims /\ claim[c].status # "none"
      BY <2>5 DEF Decide, Typed, TasksTyped, Linked
    <3>2. Payment(PayoutTx(c))
      BY <3>1, MarketPayments
    <3>3. \/ books' = books
          \/ Affordable(books, PayoutTx(c)) /\ books' = Transfer(books, PayoutTx(c))
      BY <2>5 DEF Decide
    <3> HIDE DEF c
    <3> QED BY <1>0, <3>2, <3>3, PaymentSound
  <2>6. ASSUME NEW q \in Queries,
               \/ \E a \in Clients : IssueInvoice(q, a)
               \/ AskUncharged(q) \/ Cancel(q) \/ ChargeFails(q) \/ Invalidate(q)
               \/ Narrate(q) \/ NarrateFails(q) \/ AbortRelease(q) \/ Deliver(q)
               \/ \E e \in Events : ReleaseOne(q, e)
        PROVE  books' = books
    BY <2>6 DEF IssueInvoice, AskUncharged, Cancel, ChargeFails, Invalidate, Narrate,
                NarrateFails, AbortRelease, Deliver, ReleaseOne
  <2>7. ASSUME \/ \E e \in Events : RecordSettledPublish(e) \/ RevokeEscrow(e)
                                    \/ RecordDispute(e)
               \/ \E c \in Claims, a \in Clients, q \in Queries : FileClaim(c, a, q)
               \/ \E d \in Adjudicators, c \in Claims : ReadPending(d, c)
               \/ Tick \/ Crash \/ UNCHANGED vars
        PROVE  books' = books
    BY <2>7 DEF RecordSettledPublish, RevokeEscrow, RecordDispute, FileClaim,
                ReadPending, Tick, Crash, vars
  <2> QED
    BY <1>0, <2>1, <2>2, <2>3, <2>4, <2>5, <2>6, <2>7
    DEF Next, Request, Operate, QueryStep, PublishStep
<1>2. ASSUME Releasing'
      PROVE  SoundBooks(session'.books)
  <2>1. ASSUME NEW q \in Queries, NEW e \in Events, ReleaseOne(q, e)
        PROVE  SoundBooks(session'.books)
    <3>1. SoundBooks(session.books)
      BY <1>0, <2>1, ReleaseOneEffect
    <3>2. session.escrow[e].status = "open" => Payment(RoyaltyTx(e, q))
      BY <2>1, ReleaseOneEffect, MarketPayments DEF Linked, Backed
    <3> QED BY <2>1, <3>1, <3>2, ReleaseOneEffect, PaymentSound
  <2>2. ASSUME NEW q \in Queries, Opened(q)
        PROVE  SoundBooks(session'.books)
    BY <1>0, <2>2 DEF Opened
  <2> QED BY <1>0, <1>2, <2>1, <2>2, SessionCases
<1> QED BY <1>1, <1>2 DEF BooksSound

----------------------------------------------------------------------------
(* The theorems.                                                           *)

\* The invariant holds initially and is kept by every step.
LEMMA Invariant == Spec => []IInv
<1>1. Init => IInv
  <2> SUFFICES ASSUME Init PROVE IInv
    OBVIOUS
  <2>1. ~Releasing
    BY DEF Init, Releasing
  <2>2. Typed
    BY DEF Init, Typed, RowsTyped, TasksTyped, EscrowRows, EscrowStatus, InvoiceStatus,
           ClaimStatus, Places, Loops
  <2>3. LoopHeld /\ Linked
    BY <2>1 DEF Init, LoopHeld, Holding, Linked, Backed
  <2>4. BooksSound
    BY <2>1, EmptyBooksSound DEF Init, BooksSound
  <2> QED BY <2>1, <2>2, <2>3, <2>4 DEF IInv, SessionTyped
<1>2. IInv /\ [Next]_vars => IInv'
  BY TypedStep, SessionTypedStep, LoopHeldStep, LinkedStep, BooksSoundStep DEF IInv
<1> QED BY <1>1, <1>2, PTL DEF Spec

\* No balance is ever negative, and the tables, the tasks and the open
\* transaction hold what they may, for every number of clients, events,
\* queries, claims and adjudicators and all settings.
THEOREM MarketTyped == Spec => []TypeOK
<1>1. IInv => TypeOK
  BY DEF IInv, Typed, BooksSound, SoundBooks, Summable, TypeOK
<1> QED BY <1>1, Invariant, PTL

\* audit.py: publishes, queries, royalties, disputes, refunds and crashes, in
\* any interleaving the loop allows, neither create nor destroy a credit.
THEOREM MarketConserves == Spec => []CreditsConserved
<1>1. IInv => CreditsConserved
  BY DEF IInv, BooksSound, SoundBooks, CreditsConserved
<1> QED BY <1>1, Invariant, PTL

----------------------------------------------------------------------------
(* What is decided stays decided.  The tables alone are not enough: a row  *)
(* that CommitRelease writes was computed in the open transaction, so the  *)
(* invariant says how the transaction's working copy relates to the table  *)
(* it will replace, and the other two parts where the first row of an      *)
(* invoice, an escrow and a dispute come from.                             *)

\* An escrow row may become this one: it was open, and is paid in time only.
Decided(row, new) ==
  /\ row.status = "open" /\ new.status \in {"paid", "expired"}
  /\ new.status = "paid" => clock <= row.expires

\* The open transaction has decided some open escrows and left the rest.
SessionAgrees ==
  Releasing =>
    /\ session.now = clock
    /\ \A e \in Events :
         \/ session.escrow[e] = escrow[e]
         \/ /\ Decided(escrow[e], session.escrow[e])
            /\ session.escrow[e].expires = escrow[e].expires

\* No row precedes the request that writes it.
RowsFollow ==
  /\ \A q \in Queries : pc[q] = "new" => invoice[q] = "none"
  /\ \A e \in Events : event[e] = NULL => escrow[e].status = "none"

Disputed(e) == evidence[e].disputed > 0 \/ loop = Disputing(e)

\* A dispute concerns a stored event and has closed its escrow, already
\* before its violation is booked.
DisputesClosed ==
  \A e \in Events : Disputed(e) => event[e] # NULL /\ escrow[e].status # "open"

DInv == SessionAgrees /\ RowsFollow /\ DisputesClosed

\* While a royalty transaction is open, only its own query, a crash or the
\* end of the transaction can come next.
LEMMA ReleasingExcludes ==
  ASSUME Typed, LoopHeld, [Next]_vars, Releasing
  PROVE  \/ \E q \in Queries : \/ \E e \in Events : ReleaseOne(q, e)
                              \/ CommitRelease(q) \/ AbortRelease(q)
         \/ Crash \/ UNCHANGED vars
<1>i. PICK p \in Queries : pc[p] = "releasing" /\ loop = Asking(p)
  BY DEF Releasing, LoopHeld, Holding
<1>d. /\ loop # Idle
      /\ \A q \in Queries : loop = Asking(q) => q = p
      /\ \A e \in Events : loop # Publishing(e) /\ loop # Disputing(e)
  BY <1>i DEF Asking, Idle, Publishing, Disputing
<1>1. ASSUME NEW q \in Queries, Settle(q) \/ ChargeFails(q) \/ Invalidate(q)
                                \/ AccrueFeeAndAsk(q)
      PROVE  FALSE
  <2>1. pc[q] \in {"issued", "refused", "settled"}
    BY <1>1 DEF Settle, ChargeFails, Invalidate, AccrueFeeAndAsk, TaskStep
  <2>2. loop = Asking(q)
    BY <2>1 DEF LoopHeld, Holding
  <2> QED BY <2>1, <2>2, <1>i, <1>d
<1>2. ASSUME NEW q \in Queries,
             \/ \E a \in Clients : IssueInvoice(q, a)
             \/ AskUncharged(q) \/ Cancel(q) \/ Narrate(q) \/ NarrateFails(q) \/ Deliver(q)
      PROVE  FALSE
  BY <1>2, <1>d DEF IssueInvoice, AskUncharged, Cancel, Narrate, NarrateFails, Deliver
<1>3. ASSUME NEW e \in Events,
             \/ \E a \in Clients, ts \in Days : Publish(e, a, ts)
             \/ RecordSettledPublish(e) \/ RevokeEscrow(e) \/ RecordDispute(e)
      PROVE  FALSE
  BY <1>3, <1>d DEF Publish, RecordSettledPublish, RevokeEscrow, RecordDispute
<1>4. ASSUME \/ \E c \in Claims, a \in Clients, q \in Queries : FileClaim(c, a, q)
             \/ \E d \in Adjudicators : \/ \E c \in Claims : ReadPending(d, c)
                                        \/ \E v \in {"approved", "denied"} : Decide(d, v)
             \/ Tick
      PROVE  FALSE
  BY <1>4, <1>i, <1>d DEF FileClaim, ReadPending, Decide, NoOpenTransaction, Tick
<1> QED
  BY <1>1, <1>2, <1>3, <1>4 DEF Next, Request, Operate, QueryStep, PublishStep

\* So, while it stays open, the tables and the day stay what they were.
LEMMA ReleasingFreezes ==
  ASSUME Typed, LoopHeld, [Next]_vars, Releasing, Releasing'
  PROVE  UNCHANGED <<books, market, clock>>
<1>1. ASSUME NEW q \in Queries, CommitRelease(q) \/ AbortRelease(q)
      PROVE  FALSE
  <2>1. TaskStep(q, "releasing", "answered", Idle)
    BY <1>1 DEF CommitRelease, AbortRelease
  <2>2. \A p \in Queries : pc'[p] \notin Holding
    BY <2>1, TaskStepHeld DEF Holding, Typed, TasksTyped
  <2> QED BY <2>2 DEF Releasing, Holding
<1>2. ~Crash
  BY DEF Crash, InFlight, Releasing
<1>3. ASSUME NEW q \in Queries, NEW e \in Events, ReleaseOne(q, e)
      PROVE  UNCHANGED <<books, market, clock>>
  BY <1>3 DEF ReleaseOne
<1>4. UNCHANGED vars => UNCHANGED <<books, market, clock>>
  BY DEF vars
<1> QED BY <1>1, <1>2, <1>3, <1>4, ReleasingExcludes

\* What the working copy decides, it decides about open escrows, in time.
LEMMA SessionAgreesStep ==
  ASSUME Typed, SessionTyped, LoopHeld, SessionAgrees, [Next]_vars
  PROVE  SessionAgrees'
<1> SUFFICES ASSUME Releasing'
             PROVE  /\ session'.now = clock'
                    /\ \A x \in Events :
                         \/ session'.escrow[x] = escrow'[x]
                         \/ /\ Decided(escrow[x], session.escrow[x])'
                            /\ session'.escrow[x].expires = escrow'[x].expires
  BY DEF SessionAgrees
<1>1. CASE Releasing /\ session' = session
  BY <1>1, ReleasingFreezes DEF SessionAgrees, Decided, market
<1>2. ASSUME NEW q \in Queries, NEW e \in Events, ReleaseOne(q, e)
      PROVE  /\ session'.now = clock'
             /\ \A x \in Events :
                  \/ session'.escrow[x] = escrow'[x]
                  \/ /\ Decided(escrow[x], session.escrow[x])'
                     /\ session'.escrow[x].expires = escrow'[x].expires
  <2>1. Releasing /\ session'.now = session.now /\ session.now = clock
    BY <1>2, ReleaseOneEffect DEF SessionAgrees
  <2>2. escrow' = escrow /\ clock' = clock
    BY <2>1, ReleasingFreezes DEF market
  <2>3. session.escrow \in [Events -> EscrowRows]
    BY <2>1 DEF SessionTyped
  <2> DEFINE old == session.escrow
             new == session'.escrow
  <2>4. \/ new = old
        \/ \E st \in {"expired", "paid"} :
             /\ new = [old EXCEPT ![e].status = st]
             /\ old[e].status = "open"
             /\ st = "paid" => session.now <= old[e].expires
    BY <1>2 DEF ReleaseOne, Proceed, Marked
  <2>5. old \in [Events -> EscrowRows]
    BY <2>3
  <2>6. \/ new = old
        \/ /\ \A x \in Events \ {e} : new[x] = old[x]
           /\ old[e].status = "open"
           /\ new[e].status \in {"paid", "expired"} /\ new[e].expires = old[e].expires
           /\ new[e].status = "paid" => clock <= old[e].expires
    <3> HIDE DEF old, new
    <3> QED BY <2>1, <2>4, <2>5 DEF EscrowRows
  <2>7. \A x \in Events : \/ old[x] = escrow[x]
                          \/ /\ Decided(escrow[x], old[x])
                             /\ old[x].expires = escrow[x].expires
    BY <2>1 DEF SessionAgrees
  <2>8. \A x \in Events : \/ new[x] = escrow[x]
                          \/ /\ Decided(escrow[x], new[x])
                             /\ new[x].expires = escrow[x].expires
    <3> HIDE DEF old, new
    <3> QED BY <2>6, <2>7 DEF Decided
  <2> QED BY <2>1, <2>2, <2>8 DEF Decided
<1>3. ASSUME NEW q \in Queries, Opened(q), Narrate(q)
      PROVE  session'.now = clock' /\ \A x \in Events : session'.escrow[x] = escrow'[x]
  BY <1>3 DEF Opened, Narrate, market
<1> QED BY <1>1, <1>2, <1>3, SessionCases

\* How one escrow row may change.
EscrowMove(x) ==
  \/ escrow'[x] = escrow[x]
  \/ event[x] = NULL /\ event'[x] # NULL
  \/ Decided(escrow[x], escrow'[x])

\* Every step changes escrows so, and no event is ever deleted.
LEMMA EscrowMoves ==
  ASSUME Typed, SessionAgrees, [Next]_vars, NEW x \in Events
  PROVE  EscrowMove(x) /\ (event[x] # NULL => event'[x] # NULL)
<1> USE DEF market, tasks
<1> DEFINE Goal == EscrowMove(x) /\ (event[x] # NULL => event'[x] # NULL)
<1>1. ASSUME NEW e \in Events, NEW a \in Clients, NEW ts \in Days, Publish(e, a, ts)
      PROVE  Goal
  <2>1. event[e] = NULL /\ event' = [event EXCEPT ![e] = [seller |-> a, paid |-> mode.payment]]
    BY <1>1 DEF Publish
  <2>2. event'[e] # NULL /\ \A y \in Events \ {e} : event'[y] = event[y]
    BY <2>1, MarketAssumption DEF Typed, RowsTyped, TasksTyped, MarketAssumption
  <2>3. \A y \in Events \ {e} : escrow'[y] = escrow[y]
    BY <1>1 DEF Publish, Typed, RowsTyped
  <2> QED BY <2>1, <2>2, <2>3 DEF EscrowMove
<1>2. ASSUME NEW e \in Events, RevokeEscrow(e)
      PROVE  Goal
  <2>1. escrow \in [Events -> EscrowRows] /\ event' = event
    BY <1>2 DEF RevokeEscrow, Typed, RowsTyped
  <2>2. escrow' = [escrow EXCEPT ![e].status = IF @ = "open" THEN "expired" ELSE @]
    BY <1>2 DEF RevokeEscrow
  <2>3. escrow'[x] = escrow[x]
        \/ (escrow[x].status = "open" /\ escrow'[x].status = "expired")
    BY <2>1, <2>2 DEF EscrowRows
  <2> QED BY <2>1, <2>3 DEF EscrowMove, Decided
<1>3. ASSUME NEW q \in Queries, CommitRelease(q)
      PROVE  Goal
  <2>1. Releasing
    BY <1>3 DEF CommitRelease, TaskStep, Releasing
  <2>2. escrow' = session.escrow /\ event' = event
    BY <1>3 DEF CommitRelease
  <2> QED BY <2>1, <2>2 DEF SessionAgrees, EscrowMove
<1>4. ASSUME UNCHANGED <<event, escrow>>
      PROVE  Goal
  BY <1>4 DEF EscrowMove
<1>5. ASSUME NEW q \in Queries,
             \/ \E a \in Clients : IssueInvoice(q, a)
             \/ AskUncharged(q) \/ Cancel(q)
             \/ Settle(q) \/ ChargeFails(q) \/ Invalidate(q) \/ AccrueFeeAndAsk(q)
             \/ Narrate(q) \/ NarrateFails(q) \/ AbortRelease(q) \/ Deliver(q)
             \/ \E e \in Events : ReleaseOne(q, e)
      PROVE  UNCHANGED <<event, escrow>>
  BY <1>5 DEF IssueInvoice, AskUncharged, Cancel, Settle, ChargeFails, Invalidate,
              AccrueFeeAndAsk, Narrate, NarrateFails, AbortRelease, Deliver, ReleaseOne
<1>6. ASSUME \/ \E e \in Events : RecordSettledPublish(e) \/ RecordDispute(e)
             \/ \E c \in Claims, a \in Clients, q \in Queries : FileClaim(c, a, q)
             \/ \E d \in Adjudicators : \/ \E c \in Claims : ReadPending(d, c)
                                        \/ \E v \in {"approved", "denied"} : Decide(d, v)
             \/ Tick \/ Crash \/ UNCHANGED vars
      PROVE  UNCHANGED <<event, escrow>>
  BY <1>6 DEF RecordSettledPublish, RecordDispute, FileClaim, ReadPending, Decide,
              Tick, Crash, vars
<1> HIDE DEF Goal
<1>7. Goal
  BY <1>1, <1>2, <1>3, <1>4, <1>5, <1>6 DEF Next, Request, Operate, QueryStep, PublishStep
<1> QED BY <1>7 DEF Goal

\* An invoice changes only as its query moves on, and from "pending" only.
LEMMA InvoiceMoves ==
  ASSUME Typed, [Next]_vars, NEW q \in Queries
  PROVE  \/ invoice'[q] = invoice[q] /\ (pc'[q] = "new" => pc[q] = "new")
         \/ pc'[q] # "new" /\ (pc[q] = "new" \/ invoice[q] = "pending")
<1> USE DEF market, tasks, TaskStep
<1>t. pc \in [Queries -> Places] /\ invoice \in [Queries -> InvoiceStatus]
  BY DEF Typed, RowsTyped, TasksTyped
<1> DEFINE Goal ==
      \/ invoice'[q] = invoice[q] /\ (pc'[q] = "new" => pc[q] = "new")
      \/ pc'[q] # "new" /\ (pc[q] = "new" \/ invoice[q] = "pending")
<1>1. ASSUME NEW p \in Queries, NEW a \in Clients, IssueInvoice(p, a)
      PROVE  Goal
  BY <1>1, <1>t DEF IssueInvoice
<1>2. ASSUME NEW p \in Queries, Settle(p)
      PROVE  Goal
  BY <1>2, <1>t DEF Settle
<1>3. ASSUME NEW p \in Queries, Invalidate(p)
      PROVE  Goal
  BY <1>3, <1>t DEF Invalidate
<1>4. ASSUME NEW p \in Queries,
             \/ AskUncharged(p) \/ ChargeFails(p) \/ AccrueFeeAndAsk(p)
             \/ Narrate(p) \/ NarrateFails(p) \/ CommitRelease(p) \/ AbortRelease(p)
             \/ Deliver(p) \/ Cancel(p)
      PROVE  Goal
  BY <1>4, <1>t DEF AskUncharged, ChargeFails, AccrueFeeAndAsk, Narrate, NarrateFails,
                    CommitRelease, AbortRelease, Deliver, Cancel
<1>5. ASSUME Crash
      PROVE  Goal
  BY <1>5, <1>t DEF Crash, InFlight
<1>6. ASSUME UNCHANGED <<invoice, pc>>
      PROVE  Goal
  BY <1>6
<1>7. ASSUME NEW e \in Events,
             \/ \E a \in Clients, ts \in Days : Publish(e, a, ts)
             \/ RecordSettledPublish(e) \/ RevokeEscrow(e) \/ RecordDispute(e)
             \/ \E p \in Queries : ReleaseOne(p, e)
      PROVE  UNCHANGED <<invoice, pc>>
  BY <1>7 DEF Publish, RecordSettledPublish, RevokeEscrow, RecordDispute, ReleaseOne
<1>8. ASSUME \/ \E c \in Claims, a \in Clients, p \in Queries : FileClaim(c, a, p)
             \/ \E d \in Adjudicators : \/ \E c \in Claims : ReadPending(d, c)
                                        \/ \E v \in {"approved", "denied"} : Decide(d, v)
             \/ Tick \/ UNCHANGED vars
      PROVE  UNCHANGED <<invoice, pc>>
  BY <1>8 DEF FileClaim, ReadPending, Decide, Tick, vars
<1> HIDE DEF Goal
<1>9. Goal
  BY <1>1, <1>2, <1>3, <1>4, <1>5, <1>6, <1>7, <1>8
  DEF Next, Request, Operate, QueryStep, PublishStep
<1> QED BY <1>9 DEF Goal

\* A claim is decided once.
LEMMA ClaimMoves ==
  ASSUME Typed, [Next]_vars, NEW c \in Claims, claim[c].status \in {"approved", "denied"}
  PROVE  claim'[c] = claim[c]
<1> USE DEF market, tasks
<1>1. ASSUME NEW b \in Claims, NEW a \in Clients, NEW q \in Queries, FileClaim(b, a, q)
      PROVE  claim'[c] = claim[c]
  BY <1>1 DEF FileClaim, Typed, RowsTyped
<1>2. ASSUME NEW d \in Adjudicators, NEW v \in {"approved", "denied"}, Decide(d, v)
      PROVE  claim'[c] = claim[c]
  <2>1. claim' = claim \/ (/\ claim[adjudicating[d]].status = "pending"
                          /\ claim' = [claim EXCEPT ![adjudicating[d]].status = v])
    BY <1>2 DEF Decide
  <2> QED BY <2>1 DEF Typed, RowsTyped
<1>3. ASSUME NEW q \in Queries,
             \/ \E a \in Clients : IssueInvoice(q, a)
             \/ AskUncharged(q) \/ Cancel(q)
             \/ Settle(q) \/ ChargeFails(q) \/ Invalidate(q) \/ AccrueFeeAndAsk(q)
             \/ Narrate(q) \/ NarrateFails(q) \/ CommitRelease(q) \/ AbortRelease(q)
             \/ Deliver(q) \/ \E e \in Events : ReleaseOne(q, e)
      PROVE  claim' = claim
  BY <1>3 DEF IssueInvoice, AskUncharged, Cancel, Settle, ChargeFails, Invalidate,
              AccrueFeeAndAsk, Narrate, NarrateFails, CommitRelease, AbortRelease,
              Deliver, ReleaseOne
<1>4. ASSUME \/ \E e \in Events :
                  \/ \E a \in Clients, ts \in Days : Publish(e, a, ts)
                  \/ RecordSettledPublish(e) \/ RevokeEscrow(e) \/ RecordDispute(e)
             \/ \E d \in Adjudicators, b \in Claims : ReadPending(d, b)
             \/ Tick \/ Crash \/ UNCHANGED vars
      PROVE  claim' = claim
  BY <1>4 DEF Publish, RecordSettledPublish, RevokeEscrow, RecordDispute, ReadPending,
              Tick, Crash, vars
<1> QED
  BY <1>1, <1>2, <1>3, <1>4 DEF Next, Request, Operate, QueryStep, PublishStep

\* A dispute begins with the revocation of the escrow.
LEMMA DisputeBegins ==
  ASSUME Typed, [Next]_vars, NEW x \in Events, Disputed(x)'
  PROVE  Disputed(x) \/ \E e \in Events : RevokeEscrow(e) /\ e = x
<1> USE DEF market, tasks, TaskStep
<1>i. /\ Idle # Disputing(x)
      /\ \A e \in Events : /\ Publishing(e) # Disputing(x)
                           /\ Disputing(e) = Disputing(x) => e = x
      /\ \A q \in Queries : Asking(q) # Disputing(x)
  BY DEF Idle, Publishing, Disputing, Asking
<1>t. evidence \in [Events -> [settled : Nat, disputed : Nat]]
  BY DEF Typed, RowsTyped
<1>1. ASSUME NEW e \in Events, RecordSettledPublish(e)
      PROVE  Disputed(x)
  <2>1. evidence'[x].disputed = evidence[x].disputed
    BY <1>1, <1>t DEF RecordSettledPublish
  <2> QED BY <1>1, <1>i, <2>1 DEF RecordSettledPublish, Disputed
<1>2. ASSUME NEW e \in Events, RecordDispute(e)
      PROVE  Disputed(x)
  <2>1. CASE e = x
    BY <1>2, <2>1 DEF RecordDispute, Disputed
  <2>2. CASE e # x
    <3>1. evidence'[x] = evidence[x] /\ loop' = Idle
      BY <1>2, <1>t, <2>2 DEF RecordDispute
    <3> QED BY <3>1, <1>i DEF Disputed
  <2> QED BY <2>1, <2>2
<1>3. ASSUME NEW e \in Events, RevokeEscrow(e)
      PROVE  Disputed(x) \/ e = x
  BY <1>3, <1>i DEF RevokeEscrow, Disputed
<1>4. ASSUME evidence' = evidence,
             loop' = loop \/ loop' = Idle \/ (\E e \in Events : loop' = Publishing(e))
                          \/ (\E q \in Queries : loop' = Asking(q))
      PROVE  Disputed(x)
  BY <1>4, <1>i DEF Disputed
<1>5. ASSUME NEW q \in Queries,
             \/ \E a \in Clients : IssueInvoice(q, a)
             \/ AskUncharged(q) \/ Cancel(q)
             \/ Settle(q) \/ ChargeFails(q) \/ Invalidate(q) \/ AccrueFeeAndAsk(q)
             \/ Narrate(q) \/ NarrateFails(q) \/ CommitRelease(q) \/ AbortRelease(q)
             \/ Deliver(q) \/ \E e \in Events : ReleaseOne(q, e)
      PROVE  Disputed(x)
  BY <1>4, <1>5 DEF IssueInvoice, AskUncharged, Cancel, Settle, ChargeFails, Invalidate,
                    AccrueFeeAndAsk, Narrate, NarrateFails, CommitRelease, AbortRelease,
                    Deliver, ReleaseOne
<1>6. ASSUME \/ \E e \in Events, a \in Clients, ts \in Days : Publish(e, a, ts)
             \/ \E c \in Claims, a \in Clients, q \in Queries : FileClaim(c, a, q)
             \/ \E d \in Adjudicators : \/ \E c \in Claims : ReadPending(d, c)
                                        \/ \E v \in {"approved", "denied"} : Decide(d, v)
             \/ Tick \/ Crash \/ UNCHANGED vars
      PROVE  Disputed(x)
  BY <1>4, <1>6 DEF Publish, FileClaim, ReadPending, Decide, Tick, Crash, vars
<1> QED
  BY <1>1, <1>2, <1>3, <1>5, <1>6 DEF Next, Request, Operate, QueryStep, PublishStep

\* Disputes stay closed: a closed escrow of a stored event never reopens.
LEMMA DisputesClosedStep ==
  ASSUME Typed, DInv, [Next]_vars
  PROVE  DisputesClosed'
<1> SUFFICES ASSUME NEW x \in Events, Disputed(x)'
             PROVE  event'[x] # NULL /\ escrow'[x].status # "open"
  BY DEF DisputesClosed
<1>1. CASE Disputed(x)
  <2>1. event[x] # NULL /\ escrow[x].status # "open"
    BY <1>1 DEF DInv, DisputesClosed
  <2> QED BY <2>1, EscrowMoves DEF DInv, EscrowMove, Decided
<1>2. CASE RevokeEscrow(x)
  <2>1. event' = event /\ event[x] # NULL
    BY <1>2 DEF RevokeEscrow, Stored
  <2>2. escrow'[x].status # "open"
    BY <1>2 DEF RevokeEscrow, Typed, RowsTyped, EscrowRows
  <2> QED BY <2>1, <2>2
<1> QED BY <1>1, <1>2, DisputeBegins

\* No row comes before its request.
LEMMA RowsFollowStep ==
  ASSUME Typed, DInv, [Next]_vars
  PROVE  RowsFollow'
<1>1. ASSUME NEW q \in Queries, pc'[q] = "new"
      PROVE  invoice'[q] = "none"
  BY <1>1, InvoiceMoves DEF DInv, RowsFollow
<1>2. ASSUME NEW x \in Events, event'[x] = NULL
      PROVE  escrow'[x].status = "none"
  <2>1. EscrowMove(x) /\ event[x] = NULL
    BY <1>2, EscrowMoves DEF DInv
  <2> QED BY <1>2, <2>1 DEF DInv, RowsFollow, EscrowMove, Decided
<1> QED BY <1>1, <1>2 DEF RowsFollow

\* The second invariant holds beside the first.
LEMMA DecisionInvariant == Spec => [](IInv /\ DInv)
<1>1. Init => DInv
  <2> SUFFICES ASSUME Init PROVE DInv
    OBVIOUS
  <2>1. ~Releasing
    BY DEF Init, Releasing
  <2>2. \A e \in Events : ~Disputed(e)
    BY DEF Init, Disputed, Idle, Disputing
  <2> QED BY <2>1, <2>2 DEF Init, DInv, SessionAgrees, RowsFollow, DisputesClosed
<1>2. IInv /\ DInv /\ [Next]_vars => DInv'
  BY SessionAgreesStep, RowsFollowStep, DisputesClosedStep DEF IInv, DInv
<1> QED BY <1>1, <1>2, Invariant, PTL DEF Spec

\* corroboration.py: once a contradiction is on the record, no later citation
\* finds the disputed event's escrow open, crash or not.
THEOREM DisputesStayClosed == Spec => []DisputedNotOpen
<1>1. IInv /\ DInv => DisputedNotOpen
  BY DEF DInv, DisputesClosed, Disputed, DisputedNotOpen
<1> QED BY <1>1, DecisionInvariant, PTL

\* A settled or invalidated invoice, a paid or expired escrow and a decided
\* claim stay what they are, whoever else queries, disputes, adjudicates or
\* crashes.
THEOREM DecisionsStand == Spec => DecisionsAreFinal
<1> DEFINE Stands ==
      /\ \A q \in Queries : invoice[q] \in {"settled", "invalidated"} => invoice'[q] = invoice[q]
      /\ \A e \in Events : escrow[e].status \in {"paid", "expired"} => escrow'[e] = escrow[e]
      /\ \A c \in Claims : claim[c].status \in {"approved", "denied"} => claim'[c] = claim[c]
<1>1. ASSUME IInv, DInv, [Next]_vars PROVE Stands
  <2>1. \A q \in Queries : invoice[q] \in {"settled", "invalidated"} => invoice'[q] = invoice[q]
    BY <1>1, InvoiceMoves DEF IInv, DInv, RowsFollow
  <2>2. \A e \in Events : escrow[e].status \in {"paid", "expired"} => escrow'[e] = escrow[e]
    BY <1>1, EscrowMoves DEF IInv, DInv, RowsFollow, EscrowMove, Decided
  <2>3. \A c \in Claims : claim[c].status \in {"approved", "denied"} => claim'[c] = claim[c]
    BY <1>1, ClaimMoves DEF IInv
  <2> QED BY <2>1, <2>2, <2>3
<1>2. IInv /\ DInv /\ [Next]_vars => [Stands]_vars
  BY <1>1
<1> QED BY <1>2, DecisionInvariant, PTL DEF Spec, DecisionsAreFinal

\* payout.py: an escrow is paid only within its horizon, although the rows
\* are computed in a transaction that commits later.
THEOREM RoyaltiesInTime == Spec => RoyaltyInTime
<1> DEFINE InTime == \A e \in Events : escrow[e].status = "open" /\ escrow'[e].status = "paid"
                                        => clock <= escrow[e].expires
<1>1. ASSUME IInv, DInv, [Next]_vars PROVE InTime
  BY <1>1, EscrowMoves DEF IInv, DInv, RowsFollow, EscrowMove, Decided
<1>2. IInv /\ DInv /\ [Next]_vars => [InTime]_vars
  BY <1>1
<1> QED BY <1>2, DecisionInvariant, PTL DEF Spec, RoyaltyInTime

----------------------------------------------------------------------------
(* What the log says of one event and of one query.  The market implements *)
(* Settlement because these sums are functions of the tables: an event has *)
(* earned what its escrow's status says, and a query has cost what its     *)
(* invoice's status says, in the committed books and in the open           *)
(* transaction's copy alike.                                               *)

Earning == {"listing_fee", "publish_reward", "royalty"}

EarningRows(log, e) == {t \in DOMAIN log : t.event = e /\ t.reason \in Earning}
PriceRows(log, q)   == {t \in DOMAIN log : t.invoice = q /\ t.reason = "query_price"}

\* What one row contributes to either.
Gain(tx, e) == IF tx.event = e /\ tx.reason \in Earning THEN tx.amount ELSE 0
Cost(tx, q) == IF tx.invoice = q /\ tx.reason = "query_price" THEN tx.amount ELSE 0

\* One posted row adds what it contributes.
LEMMA PostGains ==
  ASSUME NEW log, WellFormedLog(log), NEW tx, tx.amount \in Nat \ {0}, NEW e, NEW q
  PROVE  LET log2 == Post(log, tx)
         IN  /\ Volume(log2, EarningRows(log2, e)) = Volume(log, EarningRows(log, e)) + Gain(tx, e)
             /\ Volume(log2, PriceRows(log2, q)) = Volume(log, PriceRows(log, q)) + Cost(tx, q)
             /\ Volume(log, EarningRows(log, e)) \in Nat
             /\ Volume(log, PriceRows(log, q)) \in Nat
<1> DEFINE log2 == Post(log, tx)
<1>1. DOMAIN log2 = DOMAIN log \cup {tx}
  BY PostWellFormed
<1>2. \A S \in SUBSET DOMAIN log :
        (tx \in DOMAIN log => tx \in S) => Volume(log2, S \cup {tx}) = Volume(log, S) + tx.amount
  BY PostCounted
<1>3. \A S \in SUBSET DOMAIN log :
        tx \notin S => Volume(log2, S) = Volume(log, S)
  BY PostIgnored
<1>4. \A S \in SUBSET DOMAIN log : Volume(log, S) \in Nat
  <2> TAKE S \in SUBSET DOMAIN log
  <2>1. Summable([t \in S |-> log[t] * t.amount])
    BY SelectionSummable
  <2> QED BY <2>1, FS_CardinalityType DEF Summable, Volume, Total
<1>5. EarningRows(log, e) \in SUBSET DOMAIN log /\ PriceRows(log, q) \in SUBSET DOMAIN log
  BY DEF EarningRows, PriceRows
<1>6. Volume(log2, EarningRows(log2, e)) = Volume(log, EarningRows(log, e)) + Gain(tx, e)
  <2>1. CASE tx.event = e /\ tx.reason \in Earning
    <3>1. EarningRows(log2, e) = EarningRows(log, e) \cup {tx}
      BY <1>1, <2>1 DEF EarningRows
    <3>2. tx \in DOMAIN log => tx \in EarningRows(log, e)
      BY <2>1 DEF EarningRows
    <3> QED BY <1>2, <1>5, <2>1, <3>1, <3>2 DEF Gain
  <2>2. CASE ~(tx.event = e /\ tx.reason \in Earning)
    <3>1. EarningRows(log2, e) = EarningRows(log, e) /\ tx \notin EarningRows(log, e)
      BY <1>1, <2>2 DEF EarningRows
    <3>2. Gain(tx, e) = 0
      BY <2>2 DEF Gain
    <3> QED BY <1>3, <1>4, <1>5, <3>1, <3>2
  <2> QED BY <2>1, <2>2
<1>7. Volume(log2, PriceRows(log2, q)) = Volume(log, PriceRows(log, q)) + Cost(tx, q)
  <2>1. CASE tx.invoice = q /\ tx.reason = "query_price"
    <3>1. PriceRows(log2, q) = PriceRows(log, q) \cup {tx}
      BY <1>1, <2>1 DEF PriceRows
    <3>2. tx \in DOMAIN log => tx \in PriceRows(log, q)
      BY <2>1 DEF PriceRows
    <3> QED BY <1>2, <1>5, <2>1, <3>1, <3>2 DEF Cost
  <2>2. CASE ~(tx.invoice = q /\ tx.reason = "query_price")
    <3>1. PriceRows(log2, q) = PriceRows(log, q) /\ tx \notin PriceRows(log, q)
      BY <1>1, <2>2 DEF PriceRows
    <3>2. Cost(tx, q) = 0
      BY <2>2 DEF Cost
    <3> QED BY <1>3, <1>4, <1>5, <3>1, <3>2
  <2> QED BY <2>1, <2>2
<1> QED BY <1>4, <1>5, <1>6, <1>7

EarnedIn(b, e) == Volume(b.log, EarningRows(b.log, e))
SpentIn(b, q)  == Volume(b.log, PriceRows(b.log, q))

\* The grants of a first touch name no event and no invoice.
LEMMA EnsureGains ==
  ASSUME NEW b, SoundBooks(b), NEW a \in Accounts \cup {NULL},
         NEW x, x # NULL
  PROVE  /\ EarnedIn(EnsureBalance(b, a), x) = EarnedIn(b, x)
         /\ SpentIn(EnsureBalance(b, a), x) = SpentIn(b, x)
<1> DEFINE g == GrantTx(a)
<1>1. /\ g.amount \in Nat \ {0} /\ g.event = NULL /\ g.invoice = NULL
      /\ g.reason = "starting_grant"
  BY LedgerAssumption DEF GrantTx, Tx
<1>2. Gain(g, x) = 0 /\ Cost(g, x) = 0
  BY <1>1 DEF Gain, Cost, Earning
<1>3. EnsureBalance(b, a).log = b.log \/ EnsureBalance(b, a).log = Post(b.log, g)
  BY DEF EnsureBalance
<1>4. /\ Volume(Post(b.log, g), EarningRows(Post(b.log, g), x)) = EarnedIn(b, x) + Gain(g, x)
      /\ Volume(Post(b.log, g), PriceRows(Post(b.log, g), x)) = SpentIn(b, x) + Cost(g, x)
      /\ EarnedIn(b, x) \in Nat /\ SpentIn(b, x) \in Nat
  BY <1>1, PostGains DEF SoundBooks, EarnedIn, SpentIn
<1> HIDE DEF g
<1>5. CASE EnsureBalance(b, a).log = b.log
  BY <1>5 DEF EarnedIn, SpentIn
<1>6. CASE EnsureBalance(b, a).log = Post(b.log, g)
  BY <1>2, <1>4, <1>6 DEF EarnedIn, SpentIn
<1> QED BY <1>3, <1>5, <1>6

\* A payment adds its row, and the first touches it may cause add nothing.
LEMMA TransferGains ==
  ASSUME NEW b, SoundBooks(b), NEW tx, Payment(tx), NEW x, x # NULL
  PROVE  /\ EarnedIn(Transfer(b, tx), x) = EarnedIn(b, x) + Gain(tx, x)
         /\ SpentIn(Transfer(b, tx), x) = SpentIn(b, x) + Cost(tx, x)
         /\ EarnedIn(b, x) \in Nat /\ SpentIn(b, x) \in Nat
<1> DEFINE e1 == EnsureBalance(b, tx.from)
           e2 == EnsureBalance(e1, tx.to)
<1>1. tx.from \in Accounts \cup {NULL} /\ tx.to \in Accounts \cup {NULL}
      /\ tx.amount \in Nat \ {0}
  BY DEF Payment
<1>2. SoundBooks(e1) /\ EarnedIn(e1, x) = EarnedIn(b, x) /\ SpentIn(e1, x) = SpentIn(b, x)
  BY <1>1, EnsureBalanceSound, EnsureGains
<1>3. SoundBooks(e2) /\ EarnedIn(e2, x) = EarnedIn(e1, x) /\ SpentIn(e2, x) = SpentIn(e1, x)
  BY <1>1, <1>2, EnsureBalanceSound, EnsureGains
<1>4. Transfer(b, tx).log = Post(e2.log, tx)
  BY DEF Transfer
<1> HIDE DEF e1, e2
<1>5. WellFormedLog(e2.log)
  BY <1>3 DEF SoundBooks
<1>6. /\ Volume(Post(e2.log, tx), EarningRows(Post(e2.log, tx), x))
           = Volume(e2.log, EarningRows(e2.log, x)) + Gain(tx, x)
      /\ Volume(Post(e2.log, tx), PriceRows(Post(e2.log, tx), x))
           = Volume(e2.log, PriceRows(e2.log, x)) + Cost(tx, x)
      /\ Volume(e2.log, EarningRows(e2.log, x)) \in Nat
      /\ Volume(e2.log, PriceRows(e2.log, x)) \in Nat
  BY <1>1, <1>5, PostGains
<1> QED BY <1>2, <1>3, <1>4, <1>6 DEF EarnedIn, SpentIn

----------------------------------------------------------------------------
(* The third invariant.                                                    *)

\* What an event has earned, by the status of its escrow.
Worth(e, status) ==
  IF event[e] # NULL /\ event[e].paid
  THEN IF status \in {"open", "expired"} THEN ListingFee ELSE PublishReward
  ELSE 0

Charged(q) == IF invoice[q] = "settled" THEN QueryPrice ELSE 0

\* Books and escrow rows that agree with each other and with the invoices.
Valued(b, rows) ==
  /\ \A e \in Events : EarnedIn(b, e) = Worth(e, rows[e].status)
  /\ \A q \in Queries : SpentIn(b, q) = Charged(q)

\* Where a query stands tells what its invoice is, and only purchases that
\* were paid for have an escrow.
Placed ==
  /\ \A q \in Queries : /\ pc[q] \in {"issued", "refused"} => invoice[q] = "pending"
                        /\ pc[q] = "releasing" => invoice[q] = "settled"
  /\ \A e \in Events : escrow[e].status # "none" => event[e] # NULL /\ event[e].paid

VInv ==
  /\ Placed
  /\ Valued(books, escrow)
  /\ Releasing => Valued(session.books, session.escrow)

Sound == IInv /\ DInv /\ VInv

\* TransferGains for every event and every query.
LEMMA PaymentGains ==
  ASSUME NEW b, SoundBooks(b), NEW tx, Payment(tx)
  PROVE  /\ \A e \in Events : /\ EarnedIn(Transfer(b, tx), e) = EarnedIn(b, e) + Gain(tx, e)
                             /\ EarnedIn(b, e) \in Nat
         /\ \A q \in Queries : /\ SpentIn(Transfer(b, tx), q) = SpentIn(b, q) + Cost(tx, q)
                              /\ SpentIn(b, q) \in Nat
<1>1. ASSUME NEW x \in Events \cup Queries
      PROVE  /\ EarnedIn(Transfer(b, tx), x) = EarnedIn(b, x) + Gain(tx, x)
             /\ SpentIn(Transfer(b, tx), x) = SpentIn(b, x) + Cost(tx, x)
             /\ EarnedIn(b, x) \in Nat /\ SpentIn(b, x) \in Nat
  <2>1. x # NULL
    BY MarketAssumption
  <2> QED BY <2>1, TransferGains
<1> QED BY <1>1

\* A payment that concerns no event and no query price keeps books valued.
LEMMA OtherPayment ==
  ASSUME NEW b, SoundBooks(b), NEW rows, Valued(b, rows), NEW tx, Payment(tx),
         tx.reason \notin Earning, tx.reason # "query_price"
  PROVE  Valued(Transfer(b, tx), rows)
<1>1. \A e \in Events : Gain(tx, e) = 0
  BY DEF Gain
<1>2. \A q \in Queries : Cost(tx, q) = 0
  BY DEF Cost
<1>3. \A e \in Events : EarnedIn(Transfer(b, tx), e) = EarnedIn(b, e)
  BY <1>1, PaymentGains
<1>4. \A q \in Queries : SpentIn(Transfer(b, tx), q) = SpentIn(b, q)
  BY <1>2, PaymentGains
<1> QED BY <1>3, <1>4 DEF Valued

\* A purchase pays the listing fee and opens an escrow for the rest, or pays
\* the reward, or is free.
LEMMA PublishValued ==
  ASSUME Typed, Linked, SoundBooks(books), RowsFollow, Placed, Valued(books, escrow),
         NEW e \in Events, NEW a \in Clients, NEW ts \in Days, Publish(e, a, ts)
  PROVE  Valued(books, escrow)' /\ Placed'
<1> DEFINE tx == PurchaseTx(e, a)
           sale == [seller |-> a, paid |-> mode.payment]
<1>1. /\ event[e] = NULL /\ escrow[e].status = "none"
      /\ invoice' = invoice /\ pc' = pc
  BY DEF Publish, RowsFollow
<1>2. event' = [event EXCEPT ![e] = sale] /\ mode.payment \in BOOLEAN /\ mode.royalty \in BOOLEAN
  BY MarketAssumption DEF Publish, Typed, TasksTyped
<1>3. sale # NULL
  BY <1>2, MarketAssumption
<1>4. /\ event'[e] # NULL /\ event'[e].paid = mode.payment
      /\ \A x \in Events \ {e} : event'[x] = event[x]
  BY <1>2, <1>3 DEF Typed, RowsTyped
<1>5. \A x \in Events \ {e} : escrow'[x] = escrow[x]
  BY DEF Publish, Typed, RowsTyped
<1>6. escrow'[e].status = IF mode.payment /\ mode.royalty /\ Escrowed > 0 THEN "open" ELSE "none"
  BY <1>1 DEF Publish, Typed, RowsTyped
<1>7. Placed'
  BY <1>1, <1>4, <1>5, <1>6 DEF Placed
<1>8. ASSUME NEW q \in Queries PROVE Charged(q)' = Charged(q)
  BY <1>1 DEF Charged
<1>9. \A x \in Events \ {e} : Worth(x, escrow[x].status)' = Worth(x, escrow[x].status)
  BY <1>4, <1>5 DEF Worth
<1>10. EarnedIn(books, e) = 0
  BY <1>1 DEF Valued, Worth
<1>11. CASE ~mode.payment
  <2>1. books' = books
    BY <1>11 DEF Publish
  <2>2. Worth(e, escrow[e].status)' = 0
    BY <1>4, <1>11 DEF Worth
  <2>3. EarnedIn(books, e)' = 0
    BY <1>10, <2>1
  <2>4. \A x \in Events : EarnedIn(books, x)' = Worth(x, escrow[x].status)'
    BY <1>9, <2>1, <2>2, <2>3 DEF Valued
  <2>5. \A q \in Queries : SpentIn(books, q)' = Charged(q)'
    BY <1>8, <2>1 DEF Valued
  <2> QED BY <1>7, <2>4, <2>5 DEF Valued
<1>12. CASE mode.payment
  <2>1. books' = Transfer(books, tx)
    BY <1>12 DEF Publish
  <2>2. Payment(tx)
    BY MarketPayments
  <2>3. /\ tx.event = e /\ tx.invoice = NULL /\ tx.reason \in Earning /\ tx.reason # "query_price"
        /\ tx.amount = IF mode.royalty THEN ListingFee ELSE PublishReward
    BY <1>2 DEF PurchaseTx, Tx, Earning
  <2> HIDE DEF tx
  <2>4. /\ Gain(tx, e) = tx.amount
        /\ \A x \in Events \ {e} : Gain(tx, x) = 0
        /\ \A q \in Queries : Cost(tx, q) = 0
    BY <2>3 DEF Gain, Cost
  <2>5. Worth(e, escrow[e].status)' = tx.amount
    <3>1. Worth(e, escrow[e].status)' =
            IF escrow'[e].status \in {"open", "expired"} THEN ListingFee ELSE PublishReward
      BY <1>4, <1>12 DEF Worth
    <3>2. ~(Escrowed > 0) => ListingFee = PublishReward
      BY ListingFeeBounds
    <3> QED BY <1>6, <1>12, <2>3, <3>1, <3>2
  <2>6. EarnedIn(books', e) = tx.amount
    BY <1>10, <2>1, <2>2, <2>4, PaymentGains DEF Payment
  <2>7. \A x \in Events \ {e} : EarnedIn(books', x) = EarnedIn(books, x)
    BY <2>1, <2>2, <2>4, PaymentGains
  <2>8. \A q \in Queries : SpentIn(books', q) = SpentIn(books, q)
    BY <2>1, <2>2, <2>4, PaymentGains
  <2>9. \A x \in Events : EarnedIn(books, x)' = Worth(x, escrow[x].status)'
    BY <1>9, <2>5, <2>6, <2>7 DEF Valued
  <2>10. \A q \in Queries : SpentIn(books, q)' = Charged(q)'
    BY <1>8, <2>8 DEF Valued
  <2> QED BY <1>7, <2>9, <2>10 DEF Valued
<1> QED BY <1>11, <1>12

\* The step that settles an invoice is the step that takes the price.
LEMMA SettleValued ==
  ASSUME Typed, Linked, SoundBooks(books), Placed, Valued(books, escrow),
         NEW p \in Queries, Settle(p)
  PROVE  Valued(books, escrow)'
<1> DEFINE tx == QueryTx(p)
<1>1. /\ books' = Transfer(books, tx) /\ event' = event /\ escrow' = escrow
      /\ pc[p] = "issued" /\ invoice[p] = "pending"
  BY DEF Settle, TaskStep, Placed
<1>2. invoice' = [invoice EXCEPT ![p] = "settled"]
  BY <1>1 DEF Settle
<1>3. querier[p] \in Clients
  BY <1>1 DEF Linked
<1>4. Payment(tx)
  BY <1>3, MarketPayments
<1>5. tx.event = NULL /\ tx.invoice = p /\ tx.reason = "query_price" /\ tx.amount = QueryPrice
  BY DEF QueryTx, Tx
<1> HIDE DEF tx
<1>6. /\ \A e \in Events : Gain(tx, e) = 0
      /\ Cost(tx, p) = QueryPrice /\ \A q \in Queries \ {p} : Cost(tx, q) = 0
  BY <1>5 DEF Gain, Cost, Earning
<1>7. \A e \in Events : EarnedIn(books', e) = EarnedIn(books, e)
  BY <1>1, <1>4, <1>6, PaymentGains
<1>8. \A q \in Queries \ {p} : SpentIn(books', q) = SpentIn(books, q)
  BY <1>1, <1>4, <1>6, PaymentGains
<1>9. SpentIn(books, p) = 0 /\ SpentIn(books', p) = QueryPrice
  <2>1. SpentIn(books, p) = 0
    BY <1>1 DEF Valued, Charged
  <2> QED BY <1>1, <1>4, <1>6, <2>1, PaymentGains, MarketAssumption
<1>10. /\ Charged(p)' = QueryPrice
       /\ \A q \in Queries \ {p} : Charged(q)' = Charged(q)
  BY <1>2 DEF Charged, Typed, RowsTyped
<1>11. \A e \in Events : Worth(e, escrow[e].status)' = Worth(e, escrow[e].status)
  BY <1>1 DEF Worth
<1>12. \A e \in Events : EarnedIn(books, e)' = Worth(e, escrow[e].status)'
  BY <1>7, <1>11 DEF Valued
<1>13. \A q \in Queries : SpentIn(books, q)' = Charged(q)'
  BY <1>8, <1>9, <1>10 DEF Valued
<1> QED BY <1>12, <1>13 DEF Valued

\* A citation in the open transaction pays the rest of the reward, or nothing.
LEMMA ReleaseValued ==
  ASSUME Typed, SessionTyped, Linked, BooksSound, SessionAgrees, VInv,
         NEW p \in Queries, NEW e \in Events, ReleaseOne(p, e)
  PROVE  Valued(session.books, session.escrow)'
<1> DEFINE tx  == RoyaltyTx(e, p)
           old == session.escrow
           new == session'.escrow
           bk  == session.books
<1>1. Releasing
  BY ReleaseOneEffect
<1>2. SoundBooks(bk) /\ Valued(bk, old) /\ old \in [Events -> EscrowRows] /\ Backed(old)
  BY <1>1 DEF BooksSound, VInv, SessionTyped, Linked
<1>3. \/ session'.books = bk /\ new = old
      \/ /\ session'.books = bk /\ old[e].status = "open"
         /\ new = [old EXCEPT ![e].status = "expired"]
      \/ /\ session'.books = Transfer(bk, tx) /\ old[e].status = "open"
         /\ new = [old EXCEPT ![e].status = "paid"]
  BY DEF ReleaseOne, Proceed, Marked
<1>4. event' = event /\ invoice' = invoice
  BY DEF ReleaseOne, market
<1>5. old[e].status = "open" => escrow[e].status = "open"
  BY <1>1 DEF SessionAgrees, Decided
<1>6. old[e].status = "open" => event[e] # NULL /\ event[e].paid
  BY <1>5 DEF VInv, Placed
<1>7. old[e].status = "open" => Payment(tx)
  BY <1>2, MarketPayments DEF Backed
<1>8. /\ tx.event = e /\ tx.reason \in Earning /\ tx.reason # "query_price"
      /\ tx.amount = Escrowed
  BY DEF RoyaltyTx, Tx, Earning
<1> HIDE DEF tx, old, new, bk
<1>9. /\ Gain(tx, e) = Escrowed /\ \A x \in Events \ {e} : Gain(tx, x) = 0
      /\ \A q \in Queries : Cost(tx, q) = 0
  BY <1>8 DEF Gain, Cost
<1>10. Valued(session'.books, new)
  <2>1. CASE session'.books = bk /\ new = old
    BY <1>2, <2>1
  <2>2. CASE /\ session'.books = bk /\ old[e].status = "open"
             /\ new = [old EXCEPT ![e].status = "expired"]
    <3>1. new[e].status = "expired" /\ \A x \in Events \ {e} : new[x] = old[x]
      BY <1>2, <2>2 DEF EscrowRows
    <3>2. Worth(e, new[e].status) = Worth(e, old[e].status)
      BY <2>2, <3>1 DEF Worth
    <3>3. \A x \in Events : Worth(x, new[x].status) = Worth(x, old[x].status)
      BY <3>1, <3>2
    <3> QED BY <1>2, <2>2, <3>3 DEF Valued
  <2>3. CASE /\ session'.books = Transfer(bk, tx) /\ old[e].status = "open"
             /\ new = [old EXCEPT ![e].status = "paid"]
    <3>1. new[e].status = "paid" /\ \A x \in Events \ {e} : new[x] = old[x]
      BY <1>2, <2>3 DEF EscrowRows
    <3>2. Worth(e, old[e].status) = ListingFee /\ Worth(e, new[e].status) = PublishReward
      BY <1>6, <2>3, <3>1 DEF Worth
    <3>3. EarnedIn(session'.books, e) = PublishReward
      <4>1. EarnedIn(bk, e) = ListingFee
        BY <1>2, <3>2 DEF Valued
      <4> QED BY <1>2, <1>7, <1>9, <2>3, <4>1, PaymentGains, ListingFeeBounds
    <3>4. \A x \in Events \ {e} : EarnedIn(session'.books, x) = EarnedIn(bk, x)
      BY <1>2, <1>7, <1>9, <2>3, PaymentGains
    <3>5. \A q \in Queries : SpentIn(session'.books, q) = SpentIn(bk, q)
      BY <1>2, <1>7, <1>9, <2>3, PaymentGains
    <3>6. \A x \in Events : EarnedIn(session'.books, x) = Worth(x, new[x].status)
      BY <1>2, <3>1, <3>2, <3>3, <3>4 DEF Valued
    <3> QED BY <1>2, <3>5, <3>6 DEF Valued
  <2> QED BY <1>3, <2>1, <2>2, <2>3
<1> QED BY <1>4, <1>10 DEF Valued, Worth, Charged, new

\* An invoice is settled only while it is pending, and only a settled one
\* lets its query release royalties; an escrow row stems from a purchase.
LEMMA PlacedStep ==
  ASSUME Typed, SoundBooks(books), Linked, SessionAgrees, RowsFollow, VInv, [Next]_vars
  PROVE  Placed'
<1> USE DEF market, tasks, TaskStep
<1>t. /\ pc \in [Queries -> Places] /\ invoice \in [Queries -> InvoiceStatus]
      /\ Placed
  BY DEF Typed, RowsTyped, TasksTyped, VInv
<1>e. ASSUME UNCHANGED <<event, escrow>>,
             \A q \in Queries :
               /\ pc'[q] \in {"issued", "refused"} => invoice'[q] = "pending"
               /\ pc'[q] = "releasing" => invoice'[q] = "settled"
      PROVE  Placed'
  BY <1>t, <1>e DEF Placed
<1>1. ASSUME NEW e \in Events, NEW a \in Clients, NEW ts \in Days, Publish(e, a, ts)
      PROVE  Placed'
  BY <1>1, PublishValued DEF VInv
<1>2. ASSUME NEW p \in Queries,
             (\E a \in Clients : IssueInvoice(p, a)) \/ Settle(p) \/ Invalidate(p)
      PROVE  Placed'
  <2>1. UNCHANGED <<event, escrow>>
    BY <1>2 DEF IssueInvoice, Settle, Invalidate
  <2>2. /\ \A q \in Queries \ {p} : pc'[q] = pc[q] /\ invoice'[q] = invoice[q]
        /\ pc'[p] \in {"issued", "settled", "answered"}
        /\ pc'[p] = "issued" => invoice'[p] = "pending"
    BY <1>2, <1>t DEF IssueInvoice, Settle, Invalidate
  <2> QED BY <1>t, <1>e, <2>1, <2>2 DEF Placed
<1>3. ASSUME NEW p \in Queries,
             \/ AskUncharged(p) \/ ChargeFails(p) \/ AccrueFeeAndAsk(p)
             \/ Narrate(p) \/ NarrateFails(p) \/ AbortRelease(p) \/ Deliver(p)
             \/ Cancel(p)
      PROVE  Placed'
  <2>1. UNCHANGED <<event, escrow, invoice>>
    BY <1>3 DEF AskUncharged, ChargeFails, AccrueFeeAndAsk, Narrate, NarrateFails,
                AbortRelease, Deliver, Cancel
  <2>2. /\ \A q \in Queries \ {p} : pc'[q] = pc[q]
        /\ pc'[p] # "issued"
        /\ pc'[p] = "refused" => pc[p] = "issued"
        /\ pc'[p] = "releasing" => invoice[p] = "settled"
    BY <1>3, <1>t DEF AskUncharged, ChargeFails, AccrueFeeAndAsk, Narrate, NarrateFails,
                AbortRelease, Deliver, Cancel
  <2> QED BY <1>t, <1>e, <2>1, <2>2 DEF Placed
<1>4. ASSUME NEW p \in Queries, CommitRelease(p)
      PROVE  Placed'
  <2>1. Releasing /\ escrow' = session.escrow /\ event' = event /\ invoice' = invoice
    BY <1>4 DEF CommitRelease, Releasing
  <2>2. \A e \in Events : escrow'[e].status # "none" => escrow[e].status # "none"
    BY <2>1 DEF SessionAgrees, Decided
  <2>3. \A q \in Queries : pc'[q] = pc[q] \/ pc'[q] = "answered"
    BY <1>4, <1>t DEF CommitRelease
  <2> QED BY <1>t, <2>1, <2>2, <2>3 DEF Placed
<1>5. ASSUME NEW e \in Events, RevokeEscrow(e)
      PROVE  Placed'
  <2>1. UNCHANGED <<event, invoice, pc>>
    BY <1>5 DEF RevokeEscrow
  <2>2. \A x \in Events : escrow'[x].status # "none" => escrow[x].status # "none"
    BY <1>5 DEF RevokeEscrow, Typed, RowsTyped, EscrowRows
  <2> QED BY <1>t, <2>1, <2>2 DEF Placed
<1>6. ASSUME Crash
      PROVE  Placed'
  BY <1>6, <1>t, <1>e DEF Crash, InFlight, Placed
<1>7. ASSUME UNCHANGED <<event, escrow, invoice, pc>>
      PROVE  Placed'
  BY <1>7, <1>t DEF Placed
<1>8. ASSUME \/ \E e \in Events : \/ RecordSettledPublish(e) \/ RecordDispute(e)
                               \/ \E q \in Queries : ReleaseOne(q, e)
             \/ \E c \in Claims, a \in Clients, q \in Queries : FileClaim(c, a, q)
             \/ \E d \in Adjudicators : \/ \E c \in Claims : ReadPending(d, c)
                                        \/ \E v \in {"approved", "denied"} : Decide(d, v)
             \/ Tick \/ UNCHANGED vars
      PROVE  UNCHANGED <<event, escrow, invoice, pc>>
  BY <1>8 DEF RecordSettledPublish, RecordDispute, ReleaseOne, FileClaim, ReadPending,
              Decide, Tick, vars
<1> QED
  BY <1>1, <1>2, <1>3, <1>4, <1>5, <1>6, <1>7, <1>8
  DEF Next, Request, Operate, QueryStep, PublishStep

\* The committed books stay valued.
LEMMA ValuedStep ==
  ASSUME Typed, Linked, BooksSound, SessionAgrees, RowsFollow, VInv, [Next]_vars
  PROVE  Valued(books, escrow)'
<1> USE DEF market, tasks
<1>0. /\ SoundBooks(books) /\ Placed /\ Valued(books, escrow)
      /\ invoice \in [Queries -> InvoiceStatus] /\ escrow \in [Events -> EscrowRows]
  BY DEF BooksSound, VInv, Typed, RowsTyped
<1>1. ASSUME NEW e \in Events, NEW a \in Clients, NEW ts \in Days, Publish(e, a, ts)
      PROVE  Valued(books, escrow)'
  BY <1>0, <1>1, PublishValued
<1>2. ASSUME NEW p \in Queries, Settle(p)
      PROVE  Valued(books, escrow)'
  BY <1>0, <1>2, SettleValued
<1>3. ASSUME NEW p \in Queries, CommitRelease(p)
      PROVE  Valued(books, escrow)'
  <2>1. Releasing
    BY <1>3 DEF CommitRelease, TaskStep, Releasing
  <2>2. UNCHANGED <<event, invoice>> /\ books' = session.books /\ escrow' = session.escrow
    BY <1>3 DEF CommitRelease
  <2> QED BY <2>1, <2>2 DEF VInv, Valued, Worth, Charged
<1>4. ASSUME UNCHANGED <<books, event>>,
             \A x \in Events : \/ escrow'[x] = escrow[x]
                               \/ escrow[x].status = "open" /\ escrow'[x].status = "expired",
             \A q \in Queries : invoice'[q] = "settled" <=> invoice[q] = "settled"
      PROVE  Valued(books, escrow)'
  <2>1. \A x \in Events : Worth(x, escrow[x].status)' = Worth(x, escrow[x].status)
    BY <1>4 DEF Worth
  <2>2. \A q \in Queries : Charged(q)' = Charged(q)
    BY <1>4 DEF Charged
  <2> QED BY <1>0, <1>4, <2>1, <2>2 DEF Valued
<1>5. ASSUME NEW p \in Queries, (\E a \in Clients : IssueInvoice(p, a)) \/ Invalidate(p)
      PROVE  Valued(books, escrow)'
  <2>1. UNCHANGED <<books, event, escrow>>
    BY <1>5 DEF IssueInvoice, Invalidate
  <2>2. /\ \A q \in Queries \ {p} : invoice'[q] = invoice[q]
        /\ invoice[p] \in {"none", "pending"} /\ invoice'[p] \in {"pending", "invalidated"}
    BY <1>0, <1>5 DEF IssueInvoice, Invalidate, TaskStep, Placed, RowsFollow
  <2> QED BY <1>4, <2>1, <2>2
<1>6. ASSUME NEW e \in Events, RevokeEscrow(e)
      PROVE  Valued(books, escrow)'
  <2>1. UNCHANGED <<books, event, invoice>>
    BY <1>6 DEF RevokeEscrow
  <2>2. \A x \in Events : \/ escrow'[x] = escrow[x]
                          \/ escrow[x].status = "open" /\ escrow'[x].status = "expired"
    BY <1>0, <1>6 DEF RevokeEscrow, EscrowRows
  <2> QED BY <1>4, <2>1, <2>2
<1>7. ASSUME UNCHANGED <<event, escrow, invoice>>, Valued(books', escrow)
      PROVE  Valued(books, escrow)'
  BY <1>7 DEF Valued, Worth, Charged
<1>8. ASSUME NEW p \in Queries, AccrueFeeAndAsk(p)
      PROVE  Valued(books, escrow)'
  <2>1. UNCHANGED <<event, escrow, invoice>>
    BY <1>8 DEF AccrueFeeAndAsk
  <2>2. books' = books \/ (PoolFee > 0 /\ books' = Transfer(books, PoolFeeTx(p)))
    BY <1>8 DEF AccrueFeeAndAsk
  <2>3. PoolFeeTx(p).reason \notin Earning /\ PoolFeeTx(p).reason # "query_price"
    BY DEF PoolFeeTx, Tx, Earning
  <2>4. PoolFee > 0 => Payment(PoolFeeTx(p))
    BY MarketPayments
  <2>5. Valued(books', escrow)
    BY <1>0, <2>2, <2>3, <2>4, OtherPayment
  <2> QED BY <1>7, <2>1, <2>5
<1>9. ASSUME NEW d \in Adjudicators, NEW v \in {"approved", "denied"}, Decide(d, v)
      PROVE  Valued(books, escrow)'
  <2> DEFINE c == adjudicating[d]
  <2>1. UNCHANGED <<event, escrow, invoice>>
    BY <1>9 DEF Decide
  <2>2. books' = books \/ books' = Transfer(books, PayoutTx(c))
    BY <1>9 DEF Decide
  <2>3. PayoutTx(c).reason \notin Earning /\ PayoutTx(c).reason # "query_price"
    BY DEF PayoutTx, Tx, Earning
  <2>4. Payment(PayoutTx(c))
    <3>1. c \in Claims /\ claim[c].status # "none"
      BY <1>9 DEF Decide, Typed, TasksTyped, Linked
    <3> QED BY <3>1, MarketPayments
  <2> HIDE DEF c
  <2>5. Valued(books', escrow)
    BY <1>0, <2>2, <2>3, <2>4, OtherPayment
  <2> QED BY <1>7, <2>1, <2>5
<1>10. ASSUME UNCHANGED <<books, event, escrow, invoice>>
       PROVE  Valued(books, escrow)'
  BY <1>0, <1>7, <1>10
<1>11. ASSUME NEW q \in Queries,
              \/ AskUncharged(q) \/ Cancel(q) \/ ChargeFails(q) \/ Narrate(q)
              \/ NarrateFails(q) \/ AbortRelease(q) \/ Deliver(q)
              \/ \E e \in Events : ReleaseOne(q, e)
       PROVE  UNCHANGED <<books, event, escrow, invoice>>
  BY <1>11 DEF AskUncharged, Cancel, ChargeFails, Narrate, NarrateFails, AbortRelease,
               Deliver, ReleaseOne
<1>12. ASSUME \/ \E e \in Events : RecordSettledPublish(e) \/ RecordDispute(e)
              \/ \E c \in Claims, a \in Clients, q \in Queries : FileClaim(c, a, q)
              \/ \E d \in Adjudicators, c \in Claims : ReadPending(d, c)
              \/ Tick \/ Crash \/ UNCHANGED vars
       PROVE  UNCHANGED <<books, event, escrow, invoice>>
  BY <1>12 DEF RecordSettledPublish, RecordDispute, FileClaim, ReadPending, Tick, Crash,
               vars
<1> QED
  BY <1>1, <1>2, <1>3, <1>5, <1>6, <1>8, <1>9, <1>10, <1>11, <1>12
  DEF Next, Request, Operate, QueryStep, PublishStep

\* All of it, with the open transaction's copy.
LEMMA VInvStep ==
  ASSUME Sound, [Next]_vars
  PROVE  VInv'
<1> USE DEF Sound, IInv, DInv
<1>1. Placed' /\ Valued(books, escrow)'
  BY PlacedStep, ValuedStep DEF BooksSound
<1>2. ASSUME Releasing'
      PROVE  Valued(session.books, session.escrow)'
  <2>1. CASE Releasing /\ session' = session
    <3>1. UNCHANGED <<event, invoice>>
      BY <1>2, <2>1, ReleasingFreezes DEF market
    <3> QED BY <2>1, <3>1 DEF VInv, Valued, Worth, Charged
  <2>2. ASSUME NEW q \in Queries, NEW e \in Events, ReleaseOne(q, e)
        PROVE  Valued(session.books, session.escrow)'
    BY <2>2, ReleaseValued
  <2>3. ASSUME NEW q \in Queries, Opened(q), Narrate(q)
        PROVE  Valued(session.books, session.escrow)'
    <3>1. UNCHANGED <<event, invoice>> /\ session'.books = books /\ session'.escrow = escrow
      BY <2>3 DEF Opened, Narrate, market
    <3> QED BY <3>1 DEF VInv, Valued, Worth, Charged
  <2> QED BY <1>2, <2>1, <2>2, <2>3, SessionCases
<1> QED BY <1>1, <1>2 DEF VInv

\* The three invariants hold together.
LEMMA SoundInvariant == Spec => []Sound
<1>1. Init => VInv
  <2> SUFFICES ASSUME Init PROVE VInv
    OBVIOUS
  <2>1. ~Releasing
    BY DEF Init, Releasing
  <2>2. Placed
    BY DEF Init, Placed
  <2>3. \A x : EarnedIn(books, x) = 0 /\ SpentIn(books, x) = 0
    <3>1. ASSUME NEW S, S \subseteq DOMAIN books.log PROVE Volume(books.log, S) = 0
      <4>1. S = {}
        BY <3>1 DEF Init, EmptyBooks
      <4>2. Units([t \in {} |-> books.log[t] * t.amount]) = {}
        BY UnitsMember
      <4> QED BY <4>1, <4>2, FS_EmptySet DEF Volume, Total
    <3> QED BY <3>1 DEF EarnedIn, SpentIn, EarningRows, PriceRows
  <2>4. Valued(books, escrow)
    BY <2>3 DEF Valued, Worth, Charged, Init
  <2> QED BY <2>1, <2>2, <2>4 DEF VInv
<1>2. Sound /\ [Next]_vars => VInv'
  BY VInvStep
<1> QED BY <1>1, <1>2, DecisionInvariant, PTL DEF Spec, Sound

----------------------------------------------------------------------------
(* The refinement.  Once earnings and prices are functions of the tables,  *)
(* a step of the market is a promised deal by what it does to the rows of  *)
(* events, escrows and invoices.                                           *)

\* The mapping reads off the log what the tables say.
LEMMA Mapped ==
  ASSUME VInv
  PROVE  /\ \A e \in Events : Earned(e) = Worth(e, escrow[e].status)
         /\ \A q \in Queries : Spent(q) = Charged(q)
<1>1. \A e \in Events : Earned(e) = EarnedIn(books, e)
  BY DEF Earned, RowsOfEvent, EarnedIn, EarningRows, Earning
<1>2. \A q \in Queries : Spent(q) = SpentIn(books, q)
  <2>1. \A q \in Queries : RowsOfInvoice(q, "query_price") = PriceRows(books.log, q)
    BY DEF RowsOfInvoice, PriceRows
  <2> QED BY <2>1 DEF Spent, SpentIn
<1> QED BY <1>1, <1>2 DEF VInv, Valued

\* The same of a step's two states.
LogTells ==
  /\ \A e \in Events : Earned(e) = Worth(e, escrow[e].status)
  /\ \A q \in Queries : Spent(q) = Charged(q)

LEMMA MappedStep == (VInv => LogTells) /\ (VInv' => LogTells')
<1>1. VInv => LogTells
  BY Mapped DEF LogTells
<1> QED BY <1>1, PTL

\* payout.py: a seller never earns more than the reward on an event, and no
\* more than the listing fee on one that was not cited in time.
THEOREM EarningsAreCapped == Spec => []EarningsCapped
<1>1. Sound => EarningsCapped
  <2> SUFFICES ASSUME Sound, NEW e \in Events
               PROVE  /\ Earned(e) <= PublishReward
                      /\ escrow[e].status \in {"open", "expired"} => Earned(e) = ListingFee
    BY DEF EarningsCapped
  <2>1. Earned(e) = Worth(e, escrow[e].status)
    BY Mapped DEF Sound
  <2>2. escrow[e].status # "none" => event[e] # NULL /\ event[e].paid
    BY DEF Sound, VInv, Placed
  <2>3. PublishReward \in Nat /\ ListingFee \in Nat /\ ListingFee <= PublishReward
    BY ListingFeeBounds, MarketAssumption
  <2> QED BY <2>1, <2>2, <2>3 DEF Worth
<1> QED BY <1>1, SoundInvariant, PTL

\* A purchase is the deal Buy, whether it is settled with an escrow or at
\* once, and a free publish is no deal.
LEMMA PublishDeal ==
  ASSUME Sound, VInv', NEW e \in Events, NEW a \in Clients, NEW ts \in Days, Publish(e, a, ts)
  PROVE  Promise!Buy(e) \/ UNCHANGED Promise!promises
<1> DEFINE sale == [seller |-> a, paid |-> mode.payment]
<1> USE DEF Sound, IInv, DInv
<1>1. event[e] = NULL /\ escrow[e].status = "none" /\ invoice' = invoice
  BY DEF Publish, RowsFollow
<1>2. event' = [event EXCEPT ![e] = sale] /\ mode.payment \in BOOLEAN
  BY MarketAssumption DEF Publish, Typed, TasksTyped
<1>3. sale # NULL
  BY <1>2, MarketAssumption
<1>4. /\ event'[e] # NULL /\ event'[e].paid = mode.payment
      /\ \A x \in Events \ {e} : event'[x] = event[x] /\ escrow'[x] = escrow[x]
  BY <1>2, <1>3 DEF Publish, Typed, RowsTyped
<1>5. /\ \A x \in Events : Earned(x) = Worth(x, escrow[x].status)
      /\ \A x \in Events : Earned(x)' = Worth(x, escrow[x].status)'
      /\ \A q \in Queries : Spent(q) = Charged(q) /\ Spent(q)' = Charged(q)'
  BY MappedStep DEF LogTells
<1>6. \A q \in Queries : Spent(q)' = Spent(q)
  BY <1>1, <1>5 DEF Charged
<1>7. /\ Earned(e) = 0
      /\ \A x \in Events \ {e} : Earned(x)' = Earned(x)
  BY <1>1, <1>4, <1>5 DEF Worth
<1>8. CASE ~mode.payment
  <2>1. Earned(e)' = 0 /\ escrow' = escrow
    BY <1>4, <1>5, <1>8 DEF Worth, Publish
  <2>2. \A x \in Events : Earned(x)' = Earned(x)
    BY <1>7, <2>1
  <2> QED BY <1>1, <1>6, <2>1, <2>2 DEF Promise!promises
<1>9. CASE mode.payment
  <2> DEFINE worth == IF mode.royalty /\ Escrowed > 0 THEN ListingFee ELSE PublishReward
  <2>1. escrow'[e].status = IF mode.royalty /\ Escrowed > 0 THEN "open" ELSE "none"
    BY <1>1, <1>9 DEF Publish, Typed, RowsTyped
  <2>2. Earned(e)' = worth
    BY <1>4, <1>5, <1>9, <2>1 DEF Worth
  <2>3. [x \in Events |-> Earned(x)]' = [[x \in Events |-> Earned(x)] EXCEPT ![e] = worth]
    <3> HIDE DEF worth
    <3> QED BY <1>7, <2>2
  <2>4. [x \in Events |-> escrow[x].status]' =
          IF mode.royalty /\ Escrowed > 0
          THEN [[x \in Events |-> escrow[x].status] EXCEPT ![e] = "open"]
          ELSE [x \in Events |-> escrow[x].status]
    BY <1>1, <1>4, <2>1
  <2>5. [x \in Events |-> Earned(x)][e] = 0
    BY <1>7
  <2>6. UNCHANGED <<invoice, [q \in Queries |-> Spent(q)]>>
    BY <1>1, <1>6
  <2>7. Escrowed > 0 <=> ListingFee < PublishReward
    BY ListingFeeBounds, MarketAssumption
  <2> QED BY <2>3, <2>4, <2>5, <2>6, <2>7 DEF Promise!Buy
<1> QED BY <1>8, <1>9

\* Drawing, settling and invalidating an invoice are Bill, Pay and Refuse.
LEMMA InvoiceDeal ==
  ASSUME Sound, VInv', NEW p \in Queries,
         (\E a \in Clients : IssueInvoice(p, a)) \/ Settle(p) \/ Invalidate(p)
  PROVE  Promise!Bill(p) \/ Promise!Pay(p) \/ Promise!Refuse(p)
<1> USE DEF Sound, IInv, DInv, TaskStep
<1>1. UNCHANGED <<event, escrow>> /\ invoice \in [Queries -> InvoiceStatus]
  BY DEF IssueInvoice, Settle, Invalidate, Typed, RowsTyped
<1>2. /\ \A x \in Events : Earned(x) = Worth(x, escrow[x].status)
      /\ \A x \in Events : Earned(x)' = Worth(x, escrow[x].status)'
      /\ \A q \in Queries : Spent(q) = Charged(q) /\ Spent(q)' = Charged(q)'
  BY MappedStep DEF LogTells
<1>3. \A x \in Events : Earned(x)' = Earned(x)
  BY <1>1, <1>2 DEF Worth
<1>4. UNCHANGED <<[x \in Events |-> Earned(x)], [x \in Events |-> escrow[x].status]>>
  BY <1>1, <1>3
<1>5. \/ invoice[p] = "none" /\ invoice' = [invoice EXCEPT ![p] = "pending"]
      \/ invoice[p] = "pending" /\ invoice' = [invoice EXCEPT ![p] = "settled"]
      \/ invoice[p] = "pending" /\ invoice' = [invoice EXCEPT ![p] = "invalidated"]
  <2>1. CASE \E a \in Clients : IssueInvoice(p, a)
    BY <2>1 DEF IssueInvoice, RowsFollow
  <2>2. CASE Settle(p)
    <3>1. invoice[p] = "pending"
      BY <2>2 DEF Settle, VInv, Placed
    <3> QED BY <2>2, <3>1 DEF Settle
  <2>3. CASE Invalidate(p)
    <3>1. invoice[p] = "pending"
      BY <2>3 DEF Invalidate, VInv, Placed
    <3> QED BY <2>3, <3>1 DEF Invalidate
  <2> QED BY <2>1, <2>2, <2>3
<1>6. CASE invoice[p] = "pending" /\ invoice' = [invoice EXCEPT ![p] = "settled"]
  <2>1. /\ Spent(p)' = QueryPrice
        /\ \A q \in Queries \ {p} : Spent(q)' = Spent(q)
    BY <1>1, <1>2, <1>6 DEF Charged
  <2>2. [q \in Queries |-> Spent(q)]' = [[q \in Queries |-> Spent(q)] EXCEPT ![p] = QueryPrice]
    BY <2>1
  <2> QED BY <1>4, <1>6, <2>2 DEF Promise!Pay
<1>7. CASE \/ invoice[p] = "none" /\ invoice' = [invoice EXCEPT ![p] = "pending"]
           \/ invoice[p] = "pending" /\ invoice' = [invoice EXCEPT ![p] = "invalidated"]
  <2>1. \A q \in Queries : Spent(q)' = Spent(q)
    BY <1>1, <1>2, <1>7 DEF Charged
  <2>2. UNCHANGED [q \in Queries |-> Spent(q)]
    BY <2>1
  <2> QED BY <1>4, <1>7, <2>2 DEF Promise!Bill, Promise!Refuse
<1> QED BY <1>5, <1>6, <1>7

\* The commit of a royalty transaction is Cite: all of its citations at once.
LEMMA CommitDeal ==
  ASSUME Sound, VInv', NEW p \in Queries, CommitRelease(p)
  PROVE  \E inTime, late \in SUBSET Events : Promise!Cite(p, inTime, late)
<1> USE DEF Sound, IInv, DInv
<1> DEFINE changed(st) == {e \in Events : escrow[e].status = "open" /\ escrow'[e].status = st}
           inTime == changed("paid")
           late   == changed("expired")
<1>1. Releasing /\ pc[p] = "releasing" /\ escrow' = session.escrow
      /\ UNCHANGED <<event, invoice>>
  BY DEF CommitRelease, TaskStep, Releasing
<1>2. invoice[p] = "settled"
  BY <1>1 DEF VInv, Placed
<1>3. \A e \in Events : escrow'[e] = escrow[e] \/ e \in inTime \/ e \in late
  BY <1>1 DEF SessionAgrees, Decided
<1>4. /\ \A e \in Events : Earned(e) = Worth(e, escrow[e].status)
      /\ \A e \in Events : Earned(e)' = Worth(e, escrow[e].status)'
      /\ \A q \in Queries : Spent(q) = Charged(q) /\ Spent(q)' = Charged(q)'
  BY MappedStep DEF LogTells
<1>5. \A e \in inTime \cup late : event[e] # NULL /\ event[e].paid
  BY DEF VInv, Placed
<1>6. \A e \in Events : Earned(e)' = IF e \in inTime THEN PublishReward ELSE Earned(e)
  BY <1>1, <1>3, <1>4, <1>5 DEF Worth
<1>7. \A e \in Events : escrow'[e].status = IF e \in inTime THEN "paid"
                                          ELSE IF e \in late THEN "expired"
                                          ELSE escrow[e].status
  BY <1>3
<1>8. inTime \in SUBSET Events /\ late \in SUBSET Events /\ inTime \cap late = {}
      /\ \A e \in inTime \cup late : escrow[e].status = "open"
  OBVIOUS
<1>9. UNCHANGED <<invoice, [q \in Queries |-> Spent(q)]>>
  BY <1>1, <1>4 DEF Charged
<1> HIDE DEF changed, inTime, late
<1>10. PICK S \in SUBSET Events, T \in SUBSET Events : S = inTime /\ T = late
  BY <1>8
<1>11. Promise!Cite(p, S, T)
  BY <1>2, <1>6, <1>7, <1>8, <1>9, <1>10 DEF Promise!Cite
<1> QED BY <1>11

\* A revocation forfeits an open escrow and leaves any other alone.
LEMMA RevokeDeal ==
  ASSUME Sound, VInv', NEW e \in Events, RevokeEscrow(e)
  PROVE  Promise!Forfeit(e) \/ UNCHANGED Promise!promises
<1> USE DEF Sound, IInv, DInv
<1>1. UNCHANGED <<event, invoice>> /\ escrow \in [Events -> EscrowRows]
  BY DEF RevokeEscrow, Typed, RowsTyped
<1>2. /\ escrow'[e].status = IF escrow[e].status = "open" THEN "expired" ELSE escrow[e].status
      /\ \A x \in Events \ {e} : escrow'[x] = escrow[x]
  BY <1>1 DEF RevokeEscrow, EscrowRows
<1>3. /\ \A x \in Events : Earned(x) = Worth(x, escrow[x].status)
      /\ \A x \in Events : Earned(x)' = Worth(x, escrow[x].status)'
      /\ \A q \in Queries : Spent(q) = Charged(q) /\ Spent(q)' = Charged(q)'
  BY MappedStep DEF LogTells
<1>4. \A x \in Events : Earned(x)' = Earned(x)
  BY <1>1, <1>2, <1>3 DEF Worth
<1>5. \A q \in Queries : Spent(q)' = Spent(q)
  BY <1>1, <1>3 DEF Charged
<1>6. UNCHANGED <<[x \in Events |-> Earned(x)], invoice, [q \in Queries |-> Spent(q)]>>
  BY <1>1, <1>4, <1>5
<1>7. CASE escrow[e].status = "open"
  <2>1. [x \in Events |-> escrow[x].status]' =
          [[x \in Events |-> escrow[x].status] EXCEPT ![e] = "expired"]
    BY <1>2, <1>7
  <2> QED BY <1>6, <1>7, <2>1 DEF Promise!Forfeit
<1>8. CASE escrow[e].status # "open"
  <2>1. UNCHANGED [x \in Events |-> escrow[x].status]
    BY <1>2, <1>8
  <2> QED BY <1>6, <2>1 DEF Promise!promises
<1> QED BY <1>7, <1>8

\* Everything else is invisible.
LEMMA OtherDeal ==
  ASSUME Sound, VInv', UNCHANGED <<event, escrow, invoice>>
  PROVE  UNCHANGED Promise!promises
<1>1. /\ \A x \in Events : Earned(x) = Worth(x, escrow[x].status)
      /\ \A x \in Events : Earned(x)' = Worth(x, escrow[x].status)'
      /\ \A q \in Queries : Spent(q) = Charged(q) /\ Spent(q)' = Charged(q)'
  BY MappedStep DEF Sound, LogTells
<1>2. /\ \A x \in Events : Earned(x)' = Earned(x)
      /\ \A q \in Queries : Spent(q)' = Spent(q)
  BY <1>1 DEF Worth, Charged
<1> QED BY <1>2 DEF Promise!promises

\* Every step of the market is a promised deal or invisible.
LEMMA DealStep ==
  ASSUME Sound, VInv', [Next]_vars
  PROVE  [Promise!Next]_(Promise!promises)
<1> USE DEF market, tasks
<1>1. ASSUME NEW e \in Events, \E a \in Clients, ts \in Days : Publish(e, a, ts)
      PROVE  [Promise!Next]_(Promise!promises)
  BY <1>1, PublishDeal DEF Promise!Next
<1>2. ASSUME NEW p \in Queries,
             (\E a \in Clients : IssueInvoice(p, a)) \/ Settle(p) \/ Invalidate(p)
      PROVE  [Promise!Next]_(Promise!promises)
  BY <1>2, InvoiceDeal DEF Promise!Next
<1>3. ASSUME NEW p \in Queries, CommitRelease(p)
      PROVE  [Promise!Next]_(Promise!promises)
  BY <1>3, CommitDeal DEF Promise!Next
<1>4. ASSUME NEW e \in Events, RevokeEscrow(e)
      PROVE  [Promise!Next]_(Promise!promises)
  BY <1>4, RevokeDeal DEF Promise!Next
<1>5. ASSUME UNCHANGED <<event, escrow, invoice>>
      PROVE  [Promise!Next]_(Promise!promises)
  BY <1>5, OtherDeal
<1>6. ASSUME NEW q \in Queries,
             \/ AskUncharged(q) \/ Cancel(q) \/ ChargeFails(q) \/ AccrueFeeAndAsk(q)
             \/ Narrate(q) \/ NarrateFails(q) \/ AbortRelease(q) \/ Deliver(q)
             \/ \E e \in Events : ReleaseOne(q, e)
      PROVE  UNCHANGED <<event, escrow, invoice>>
  BY <1>6 DEF AskUncharged, Cancel, ChargeFails, AccrueFeeAndAsk, Narrate, NarrateFails,
              AbortRelease, Deliver, ReleaseOne
<1>7. ASSUME \/ \E e \in Events : RecordSettledPublish(e) \/ RecordDispute(e)
             \/ \E c \in Claims, a \in Clients, q \in Queries : FileClaim(c, a, q)
             \/ \E d \in Adjudicators : \/ \E c \in Claims : ReadPending(d, c)
                                        \/ \E v \in {"approved", "denied"} : Decide(d, v)
             \/ Tick \/ Crash \/ UNCHANGED vars
      PROVE  UNCHANGED <<event, escrow, invoice>>
  BY <1>7 DEF RecordSettledPublish, RecordDispute, FileClaim, ReadPending, Decide, Tick,
              Crash, vars
<1> QED
  BY <1>1, <1>2, <1>3, <1>4, <1>5, <1>6, <1>7
  DEF Next, Request, Operate, QueryStep, PublishStep

\* payout.py, executor.py: the market implements Settlement.  Each committed
\* transaction is one indivisible deal, read off the log, for every number of
\* clients, events and queries, all settings, crashes and interleavings.
THEOREM MarketSettlesAll == Spec => MarketSettlesDeals
<1>1. Init /\ VInv => Promise!Init
  <2> SUFFICES ASSUME Init, VInv PROVE Promise!Init
    OBVIOUS
  <2>1. \A e \in Events : Earned(e) = 0
    BY Mapped DEF Init, Worth
  <2>2. \A q \in Queries : Spent(q) = 0
    BY Mapped DEF Init, Charged
  <2>3. \A e \in Events : escrow[e].status = "none"
    BY DEF Init
  <2> QED BY <2>1, <2>2, <2>3 DEF Init, Promise!Init
<1>2. Sound /\ Sound' /\ [Next]_vars => [Promise!Next]_(Promise!promises)
  BY DealStep DEF Sound
<1>3. Sound => VInv
  BY DEF Sound
<1> QED BY <1>1, <1>2, <1>3, SoundInvariant, PTL DEF Spec, MarketSettlesDeals, Promise!Spec

----------------------------------------------------------------------------
(* What the log records, row by row.  The sums above do not tell who was   *)
(* paid, by whom and how often: this fourth invariant says which rows of   *)
(* the log name an event, an invoice or a claim, in the committed books    *)
(* and in the open transaction's copy.  It is about plain values (a log,   *)
(* an event's row, a status), so that one lemma serves both copies and     *)
(* both states of a step.                                                  *)

PurchaseRows(log, e) ==
  {t \in DOMAIN log : t.event = e /\ t.reason \in {"listing_fee", "publish_reward"}}
RoyaltyRows(log, e) == {t \in DOMAIN log : t.event = e /\ t.reason = "royalty"}
FeeRows(log, q)     == {t \in DOMAIN log : t.invoice = q /\ t.reason = "pool_fee"}

\* The selection is one row, written once.
Single(log, S) == \E t \in S : S = {t} /\ log[t] = 1

PurchaseRecorded(log, e, sale) ==
  IF sale # NULL /\ sale.paid
  THEN /\ Single(log, PurchaseRows(log, e))
       /\ \A t \in PurchaseRows(log, e) : t.to = sale.seller
  ELSE PurchaseRows(log, e) = {}

RoyaltyRecorded(log, e, sale, status, bills) ==
  IF status = "paid"
  THEN /\ Single(log, RoyaltyRows(log, e))
       /\ \A t \in RoyaltyRows(log, e) :
            /\ t.to = sale.seller /\ t.amount = Escrowed
            /\ t.invoice \in Queries /\ bills[t.invoice] = "settled"
  ELSE RoyaltyRows(log, e) = {}

ChargeRecorded(log, q, status, who) ==
  IF status = "settled"
  THEN /\ Single(log, PriceRows(log, q))
       /\ \A t \in PriceRows(log, q) : t.from = who
       /\ FeeRows(log, q) = {} \/ Single(log, FeeRows(log, q))
  ELSE PriceRows(log, q) = {} /\ FeeRows(log, q) = {}

\* The claims approved for one claimant on one invoice, and their row.
Approved(claims, q, a) ==
  {c \in Claims : claims[c].status = "approved" /\ claims[c].invoice = q
                  /\ claims[c].claimant = a}
Payout(q, a) == Tx("refund_payout", Pool, a, QueryPrice, NULL, q)

RefundRecorded(log, q, a, claims) ==
  /\ IsFiniteSet(Approved(claims, q, a))
  /\ Copies(Payout(q, a), log) = Cardinality(Approved(claims, q, a))

\* The log after a transfer: what was there, at most two grants, one row.
Wrote(old, new, tx) ==
  /\ DOMAIN old \subseteq DOMAIN new /\ tx \in DOMAIN new
  /\ \A t \in DOMAIN new \ DOMAIN old :
       t = tx \/ (t.reason = "starting_grant" /\ t.event = NULL /\ t.invoice = NULL)
  /\ \A t \in DOMAIN old : t # tx /\ t.reason # "starting_grant" => new[t] = old[t]
  /\ new[tx] = Copies(tx, old) + 1

\* A first touch writes a grant or nothing.
LEMMA EnsureWrites ==
  ASSUME NEW b, SoundBooks(b), NEW a \in Accounts \cup {NULL}
  PROVE  LET log2 == EnsureBalance(b, a).log
         IN  /\ DOMAIN b.log \subseteq DOMAIN log2
             /\ \A t \in DOMAIN log2 \ DOMAIN b.log :
                  t.reason = "starting_grant" /\ t.event = NULL /\ t.invoice = NULL
             /\ \A t \in DOMAIN b.log : t.reason # "starting_grant" => log2[t] = b.log[t]
<1> DEFINE g == GrantTx(a)
<1>1. g.reason = "starting_grant" /\ g.event = NULL /\ g.invoice = NULL
  BY DEF GrantTx, Tx
<1>2. EnsureBalance(b, a).log = b.log \/ EnsureBalance(b, a).log = Post(b.log, g)
  BY DEF EnsureBalance
<1> HIDE DEF g
<1>3. /\ DOMAIN Post(b.log, g) = DOMAIN b.log \cup {g}
      /\ \A t \in DOMAIN b.log : t # g => Post(b.log, g)[t] = b.log[t]
  BY DEF Post, Copies, SoundBooks, WellFormedLog
<1>4. CASE EnsureBalance(b, a).log = b.log
  BY <1>4
<1>5. CASE EnsureBalance(b, a).log = Post(b.log, g)
  BY <1>1, <1>3, <1>5
<1> QED BY <1>2, <1>4, <1>5

\* A payment writes its row, and grants of accounts it touches first.
LEMMA TransferWrites ==
  ASSUME NEW b, SoundBooks(b), NEW tx, Payment(tx)
  PROVE  Wrote(b.log, Transfer(b, tx).log, tx)
<1> DEFINE e1 == EnsureBalance(b, tx.from)
           e2 == EnsureBalance(e1, tx.to)
<1>1. /\ tx.from \in Accounts \cup {NULL} /\ tx.to \in Accounts \cup {NULL}
      /\ tx.reason # "starting_grant"
  BY DEF Payment
<1>2. /\ SoundBooks(e1)
      /\ DOMAIN b.log \subseteq DOMAIN e1.log
      /\ \A t \in DOMAIN e1.log \ DOMAIN b.log :
           t.reason = "starting_grant" /\ t.event = NULL /\ t.invoice = NULL
      /\ \A t \in DOMAIN b.log : t.reason # "starting_grant" => e1.log[t] = b.log[t]
  BY <1>1, EnsureBalanceSound, EnsureWrites
<1>3. /\ SoundBooks(e2)
      /\ DOMAIN e1.log \subseteq DOMAIN e2.log
      /\ \A t \in DOMAIN e2.log \ DOMAIN e1.log :
           t.reason = "starting_grant" /\ t.event = NULL /\ t.invoice = NULL
      /\ \A t \in DOMAIN e1.log : t.reason # "starting_grant" => e2.log[t] = e1.log[t]
  BY <1>1, <1>2, EnsureBalanceSound, EnsureWrites
<1>4. Transfer(b, tx).log = Post(e2.log, tx)
  BY DEF Transfer
<1> HIDE DEF e1, e2
<1>5. /\ DOMAIN Post(e2.log, tx) = DOMAIN e2.log \cup {tx}
      /\ \A t \in DOMAIN e2.log : t # tx => Post(e2.log, tx)[t] = e2.log[t]
      /\ Post(e2.log, tx)[tx] = Copies(tx, e2.log) + 1
  BY <1>3 DEF Post, Copies, SoundBooks, WellFormedLog
<1>6. Copies(tx, e2.log) = Copies(tx, b.log)
  BY <1>1, <1>2, <1>3 DEF Copies
<1> QED BY <1>1, <1>2, <1>3, <1>4, <1>5, <1>6 DEF Wrote

\* A row leaves what it does not speak of as it was.
LEMMA WrittenElsewhere ==
  ASSUME NEW old, NEW new, NEW tx, Wrote(old, new, tx)
  PROVE  /\ \A e \in Events : \A sale :
              /\ PurchaseRecorded(old, e, sale)
              /\ tx.event # e \/ tx.reason \notin {"listing_fee", "publish_reward"}
              => PurchaseRecorded(new, e, sale)
         /\ \A e \in Events : \A sale, status, bills :
              /\ RoyaltyRecorded(old, e, sale, status, bills)
              /\ tx.event # e \/ tx.reason # "royalty"
              => RoyaltyRecorded(new, e, sale, status, bills)
         /\ \A q \in Queries : \A status, who :
              /\ ChargeRecorded(old, q, status, who)
              /\ tx.invoice # q \/ tx.reason \notin {"query_price", "pool_fee"}
              => ChargeRecorded(new, q, status, who)
         /\ \A q \in Queries, a \in Clients : \A claims :
              /\ RefundRecorded(old, q, a, claims)
              /\ tx # Payout(q, a)
              => RefundRecorded(new, q, a, claims)
<1>n. NULL \notin Events /\ NULL \notin Queries
  BY MarketAssumption
<1>1. ASSUME NEW e \in Events,
             tx.event # e \/ tx.reason \notin {"listing_fee", "publish_reward"}
      PROVE  /\ PurchaseRows(new, e) = PurchaseRows(old, e)
             /\ \A t \in PurchaseRows(old, e) : new[t] = old[t]
  BY <1>1, <1>n DEF PurchaseRows, Wrote
<1>2. ASSUME NEW e \in Events, tx.event # e \/ tx.reason # "royalty"
      PROVE  /\ RoyaltyRows(new, e) = RoyaltyRows(old, e)
             /\ \A t \in RoyaltyRows(old, e) : new[t] = old[t]
  BY <1>2, <1>n DEF RoyaltyRows, Wrote
<1>3. ASSUME NEW q \in Queries, tx.invoice # q \/ tx.reason \notin {"query_price", "pool_fee"}
      PROVE  /\ PriceRows(new, q) = PriceRows(old, q) /\ FeeRows(new, q) = FeeRows(old, q)
             /\ \A t \in PriceRows(old, q) \cup FeeRows(old, q) : new[t] = old[t]
  BY <1>3, <1>n DEF PriceRows, FeeRows, Wrote
<1>4. ASSUME NEW q \in Queries, NEW a \in Clients, tx # Payout(q, a)
      PROVE  Copies(Payout(q, a), new) = Copies(Payout(q, a), old)
  <2>1. Payout(q, a).reason # "starting_grant"
    BY DEF Payout, Tx
  <2> QED BY <1>4, <2>1 DEF Copies, Wrote
<1>5. ASSUME NEW S, \A t \in S : new[t] = old[t]
      PROVE  Single(new, S) <=> Single(old, S)
  BY <1>5 DEF Single
<1>6. \A e \in Events : \A sale :
        /\ PurchaseRecorded(old, e, sale)
        /\ tx.event # e \/ tx.reason \notin {"listing_fee", "publish_reward"}
        => PurchaseRecorded(new, e, sale)
  BY <1>1, <1>5 DEF PurchaseRecorded
<1>7. \A e \in Events : \A sale, status, bills :
        /\ RoyaltyRecorded(old, e, sale, status, bills)
        /\ tx.event # e \/ tx.reason # "royalty"
        => RoyaltyRecorded(new, e, sale, status, bills)
  BY <1>2, <1>5 DEF RoyaltyRecorded
<1>8. \A q \in Queries : \A status, who :
        /\ ChargeRecorded(old, q, status, who)
        /\ tx.invoice # q \/ tx.reason \notin {"query_price", "pool_fee"}
        => ChargeRecorded(new, q, status, who)
  BY <1>3, <1>5 DEF ChargeRecorded
<1>9. \A q \in Queries, a \in Clients : \A claims :
        RefundRecorded(old, q, a, claims) /\ tx # Payout(q, a)
          => RefundRecorded(new, q, a, claims)
  BY <1>4 DEF RefundRecorded
<1> QED BY <1>6, <1>7, <1>8, <1>9

\* The first row about something is a single one.
LEMMA WrittenFirst ==
  ASSUME NEW old, NEW new, NEW tx, Wrote(old, new, tx)
  PROVE  /\ \A e \in Events :
              /\ tx.event = e /\ tx.reason \in {"listing_fee", "publish_reward"}
              /\ PurchaseRows(old, e) = {}
              => PurchaseRows(new, e) = {tx} /\ Single(new, PurchaseRows(new, e))
         /\ \A e \in Events :
              /\ tx.event = e /\ tx.reason = "royalty" /\ RoyaltyRows(old, e) = {}
              => RoyaltyRows(new, e) = {tx} /\ Single(new, RoyaltyRows(new, e))
         /\ \A q \in Queries :
              tx.invoice = q =>
                /\ tx.reason = "query_price" /\ PriceRows(old, q) = {}
                   => /\ PriceRows(new, q) = {tx} /\ Single(new, PriceRows(new, q))
                      /\ FeeRows(new, q) = FeeRows(old, q)
                /\ tx.reason = "pool_fee" /\ FeeRows(old, q) = {}
                   => /\ FeeRows(new, q) = {tx} /\ Single(new, FeeRows(new, q))
                      /\ PriceRows(new, q) = PriceRows(old, q)
                      /\ \A t \in PriceRows(old, q) : new[t] = old[t]
<1>n. NULL \notin Events /\ NULL \notin Queries
  BY MarketAssumption
<1>1. tx \notin DOMAIN old => new[tx] = 1
  BY DEF Wrote, Copies
<1>2. ASSUME NEW e \in Events, tx.event = e, tx.reason \in {"listing_fee", "publish_reward"},
             PurchaseRows(old, e) = {}
      PROVE  PurchaseRows(new, e) = {tx} /\ tx \notin DOMAIN old
  BY <1>2, <1>n DEF PurchaseRows, Wrote
<1>3. ASSUME NEW e \in Events, tx.event = e, tx.reason = "royalty", RoyaltyRows(old, e) = {}
      PROVE  RoyaltyRows(new, e) = {tx} /\ tx \notin DOMAIN old
  BY <1>3, <1>n DEF RoyaltyRows, Wrote
<1>4. ASSUME NEW q \in Queries, tx.invoice = q, tx.reason = "query_price", PriceRows(old, q) = {}
      PROVE  /\ PriceRows(new, q) = {tx} /\ tx \notin DOMAIN old
             /\ FeeRows(new, q) = FeeRows(old, q)
  BY <1>4, <1>n DEF PriceRows, FeeRows, Wrote
<1>5. ASSUME NEW q \in Queries, tx.invoice = q, tx.reason = "pool_fee", FeeRows(old, q) = {}
      PROVE  /\ FeeRows(new, q) = {tx} /\ tx \notin DOMAIN old
             /\ PriceRows(new, q) = PriceRows(old, q)
             /\ \A t \in PriceRows(old, q) : new[t] = old[t]
  BY <1>5, <1>n DEF PriceRows, FeeRows, Wrote
<1>6. \A S : S = {tx} /\ tx \notin DOMAIN old => Single(new, S)
  BY <1>1 DEF Single
<1> QED BY <1>2, <1>3, <1>4, <1>5, <1>6

\* The log agrees with the tables.
Recorded(log, sales, deals, bills, whos, claims) ==
  /\ \A e \in Events : /\ PurchaseRecorded(log, e, sales[e])
                       /\ RoyaltyRecorded(log, e, sales[e], deals[e].status, bills)
  /\ \A q \in Queries : ChargeRecorded(log, q, bills[q], whos[q])
  /\ \A q \in Queries, a \in Clients : RefundRecorded(log, q, a, claims)

\* Only a charged query accrues a fee, only a settled invoice is claimed on,
\* and a purchase on its way to being evidence is settled and not yet that.
Justified ==
  /\ \A q \in Queries : pc[q] = "settled" => invoice[q] = "settled"
  /\ \A c \in Claims : claim[c].status # "none" =>
       claim[c].invoice \in Queries /\ invoice[claim[c].invoice] = "settled"

Evidenced ==
  \A e \in Events :
    /\ evidence[e].settled <= (IF event[e] # NULL /\ event[e].paid THEN 1 ELSE 0)
    /\ loop = Publishing(e) => /\ event[e] # NULL /\ event[e].paid
                               /\ evidence[e].settled = 0

LInv ==
  /\ Recorded(books.log, event, escrow, invoice, querier, claim)
  /\ Releasing =>
       Recorded(session.books.log, event, session.escrow, invoice, querier, claim)
  /\ Justified
  /\ Evidenced

\* What no row speaks of: changes to escrows that neither become paid nor
\* cease to be,
LEMMA DealsFrame ==
  ASSUME NEW log, NEW sales, NEW deals, NEW bills, NEW whos, NEW claims,
         Recorded(log, sales, deals, bills, whos, claims),
         NEW deals2, \A e \in Events : deals2[e].status = "paid" <=> deals[e].status = "paid"
  PROVE  Recorded(log, sales, deals2, bills, whos, claims)
<1>1. \A e \in Events : RoyaltyRecorded(log, e, sales[e], deals2[e].status, bills)
  BY DEF Recorded, RoyaltyRecorded
<1> QED BY <1>1 DEF Recorded

\* ... to invoices that neither become settled nor cease to be,
LEMMA BillsFrame ==
  ASSUME NEW log, NEW sales, NEW deals, NEW bills, NEW whos, NEW claims,
         Recorded(log, sales, deals, bills, whos, claims),
         NEW bills2, \A q \in Queries : bills2[q] = "settled" <=> bills[q] = "settled",
         NEW whos2, \A q \in Queries : bills[q] = "settled" => whos2[q] = whos[q]
  PROVE  Recorded(log, sales, deals, bills2, whos2, claims)
<1>1. \A e \in Events : RoyaltyRecorded(log, e, sales[e], deals[e].status, bills2)
  BY DEF Recorded, RoyaltyRecorded
<1>2. \A q \in Queries : ChargeRecorded(log, q, bills2[q], whos2[q])
  BY DEF Recorded, ChargeRecorded
<1> QED BY <1>1, <1>2 DEF Recorded

\* ... and to claims that neither become approved nor cease to be.
LEMMA ClaimsFrame ==
  ASSUME NEW log, NEW sales, NEW deals, NEW bills, NEW whos, NEW claims,
         Recorded(log, sales, deals, bills, whos, claims),
         NEW claims2, \A c \in Claims : \/ claims2[c] = claims[c]
                                        \/ /\ claims2[c].status # "approved"
                                           /\ claims[c].status # "approved"
  PROVE  Recorded(log, sales, deals, bills, whos, claims2)
<1>1. \A q \in Queries, a \in Clients : Approved(claims2, q, a) = Approved(claims, q, a)
  BY DEF Approved
<1>2. \A q \in Queries, a \in Clients : RefundRecorded(log, q, a, claims2)
  BY <1>1 DEF Recorded, RefundRecorded
<1> QED BY <1>2 DEF Recorded

\* A purchase is recorded with the event it pays for, in one commit.
LEMMA PublishRecorded ==
  ASSUME Typed, Linked, SoundBooks(books), RowsFollow,
         Recorded(books.log, event, escrow, invoice, querier, claim),
         NEW e \in Events, NEW a \in Clients, NEW ts \in Days, Publish(e, a, ts)
  PROVE  Recorded(books.log, event, escrow, invoice, querier, claim)'
<1> DEFINE tx == PurchaseTx(e, a)
           sale == [seller |-> a, paid |-> mode.payment]
           old == books.log
           new == books'.log
<1>1. /\ event[e] = NULL /\ escrow[e].status = "none"
      /\ UNCHANGED <<invoice, querier, claim>>
  BY DEF Publish, RowsFollow
<1>2. event' = [event EXCEPT ![e] = sale] /\ mode.payment \in BOOLEAN /\ mode.royalty \in BOOLEAN
  BY MarketAssumption DEF Publish, Typed, TasksTyped
<1>3. sale # NULL /\ sale.seller = a /\ sale.paid = mode.payment
  BY <1>2, MarketAssumption
<1>4. event'[e] = sale /\ \A x \in Events \ {e} : event'[x] = event[x]
  BY <1>2 DEF Typed, RowsTyped
<1>5. /\ \A x \in Events \ {e} : escrow'[x] = escrow[x]
      /\ escrow'[e].status # "paid"
  BY <1>1 DEF Publish, Typed, RowsTyped
<1>6. PurchaseRows(old, e) = {}
  BY <1>1 DEF Recorded, PurchaseRecorded
<1> HIDE DEF sale
<1>7. CASE ~mode.payment
  <2>1. new = old
    BY <1>7 DEF Publish
  <2>2. PurchaseRecorded(new, e, event'[e])
    BY <1>3, <1>4, <1>6, <1>7, <2>1 DEF PurchaseRecorded
  <2>3. RoyaltyRecorded(new, e, event'[e], escrow'[e].status, invoice)
    BY <1>1, <1>5, <2>1 DEF Recorded, RoyaltyRecorded
  <2>4. \A x \in Events : /\ PurchaseRecorded(new, x, event'[x])
                          /\ RoyaltyRecorded(new, x, event'[x], escrow'[x].status, invoice)
    <3>1. ASSUME NEW x \in Events \ {e}
          PROVE  /\ PurchaseRecorded(new, x, event'[x])
                 /\ RoyaltyRecorded(new, x, event'[x], escrow'[x].status, invoice)
      BY <1>4, <1>5, <2>1 DEF Recorded
    <3> QED BY <2>2, <2>3, <3>1
  <2> QED BY <1>1, <2>1, <2>4 DEF Recorded
<1>8. CASE mode.payment
  <2>1. books' = Transfer(books, tx) /\ Payment(tx)
    BY <1>8, MarketPayments DEF Publish
  <2>2. Wrote(old, new, tx)
    BY <2>1, TransferWrites
  <2>3. /\ tx.event = e /\ tx.invoice = NULL /\ tx.to = a
        /\ tx.reason \in {"listing_fee", "publish_reward"}
    BY <1>2 DEF PurchaseTx, Tx
  <2>4. \A q \in Queries, b \in Clients : tx # Payout(q, b)
    <3>1. \A q \in Queries, b \in Clients : Payout(q, b).reason = "refund_payout"
      BY DEF Payout, Tx
    <3> QED BY <2>3, <3>1
  <2>5. NULL \notin Queries
    BY MarketAssumption
  <2> HIDE DEF tx, old, new
  <2>6. PurchaseRecorded(new, e, event'[e])
    <3>1. PurchaseRows(new, e) = {tx} /\ Single(new, PurchaseRows(new, e))
      BY <1>6, <2>2, <2>3, WrittenFirst
    <3> QED BY <1>3, <1>4, <1>8, <2>3, <3>1 DEF PurchaseRecorded
  <2>7. RoyaltyRecorded(new, e, event'[e], escrow'[e].status, invoice)
    <3>1. RoyaltyRecorded(old, e, event[e], escrow[e].status, invoice)
      BY DEF Recorded, old
    <3>2. RoyaltyRecorded(new, e, event[e], escrow[e].status, invoice)
      BY <2>2, <2>3, <3>1, WrittenElsewhere
    <3> QED BY <1>1, <1>5, <3>2 DEF RoyaltyRecorded
  <2>8. ASSUME NEW x \in Events \ {e}
        PROVE  /\ PurchaseRecorded(new, x, event'[x])
               /\ RoyaltyRecorded(new, x, event'[x], escrow'[x].status, invoice)
    <3>1. /\ PurchaseRecorded(old, x, event[x])
          /\ RoyaltyRecorded(old, x, event[x], escrow[x].status, invoice)
      BY DEF Recorded, old
    <3>2. /\ PurchaseRecorded(new, x, event[x])
          /\ RoyaltyRecorded(new, x, event[x], escrow[x].status, invoice)
      BY <2>2, <2>3, <3>1, WrittenElsewhere
    <3> QED BY <1>4, <1>5, <3>2
  <2>9. \A q \in Queries : ChargeRecorded(new, q, invoice[q], querier[q])
    <3>1. \A q \in Queries : ChargeRecorded(old, q, invoice[q], querier[q])
      BY DEF Recorded, old
    <3> QED BY <2>2, <2>3, <2>5, <3>1, WrittenElsewhere
  <2>10. \A q \in Queries, b \in Clients : RefundRecorded(new, q, b, claim)
    <3>1. \A q \in Queries, b \in Clients : RefundRecorded(old, q, b, claim)
      BY DEF Recorded, old
    <3> QED BY <2>2, <2>4, <3>1, WrittenElsewhere
  <2>11. \A x \in Events : /\ PurchaseRecorded(new, x, event'[x])
                           /\ RoyaltyRecorded(new, x, event'[x], escrow'[x].status, invoice)
    BY <2>6, <2>7, <2>8
  <2> QED BY <1>1, <2>9, <2>10, <2>11 DEF Recorded, new
<1> QED BY <1>7, <1>8

\* What a row that is no purchase and no royalty leaves recorded.
LEMMA EventsStayRecorded ==
  ASSUME NEW old, NEW new, NEW tx, Wrote(old, new, tx),
         NEW sales, NEW deals, NEW bills, NEW whos, NEW claims,
         Recorded(old, sales, deals, bills, whos, claims),
         tx.reason \notin {"listing_fee", "publish_reward", "royalty"}
  PROVE  \A e \in Events : /\ PurchaseRecorded(new, e, sales[e])
                           /\ RoyaltyRecorded(new, e, sales[e], deals[e].status, bills)
BY WrittenElsewhere DEF Recorded

\* What a row that is no refund leaves recorded.
LEMMA RefundsStayRecorded ==
  ASSUME NEW old, NEW new, NEW tx, Wrote(old, new, tx),
         NEW sales, NEW deals, NEW bills, NEW whos, NEW claims,
         Recorded(old, sales, deals, bills, whos, claims),
         tx.reason # "refund_payout"
  PROVE  \A q \in Queries, a \in Clients : RefundRecorded(new, q, a, claims)
<1>1. \A q \in Queries, a \in Clients : tx # Payout(q, a)
  <2>1. \A q \in Queries, a \in Clients : Payout(q, a).reason = "refund_payout"
    BY DEF Payout, Tx
  <2> QED BY <2>1
<1> QED BY <1>1, WrittenElsewhere DEF Recorded

\* The price is recorded with the invoice it settles, in one commit.
LEMMA SettleRecorded ==
  ASSUME Typed, Linked, SoundBooks(books), Placed,
         Recorded(books.log, event, escrow, invoice, querier, claim),
         NEW p \in Queries, Settle(p)
  PROVE  Recorded(books.log, event, escrow, invoice, querier, claim)'
<1> DEFINE tx  == QueryTx(p)
           old == books.log
           new == books'.log
<1>1. /\ books' = Transfer(books, tx) /\ UNCHANGED <<event, escrow, querier, claim>>
      /\ pc[p] = "issued" /\ invoice[p] = "pending"
  BY DEF Settle, TaskStep, Placed
<1>2. invoice' = [invoice EXCEPT ![p] = "settled"]
  BY <1>1 DEF Settle
<1>3. invoice'[p] = "settled" /\ \A q \in Queries \ {p} : invoice'[q] = invoice[q]
  BY <1>2 DEF Typed, RowsTyped
<1>4. Payment(tx)
  BY <1>1, MarketPayments DEF Linked
<1>5. Wrote(old, new, tx)
  BY <1>1, <1>4, TransferWrites
<1>6. tx.invoice = p /\ tx.reason = "query_price" /\ tx.from = querier[p]
  BY DEF QueryTx, Tx
<1> HIDE DEF tx, old, new
<1>7. Recorded(old, event, escrow, invoice, querier, claim)
  BY DEF old
<1>8. PriceRows(old, p) = {} /\ FeeRows(old, p) = {}
  BY <1>1, <1>7 DEF Recorded, ChargeRecorded
<1>9. ChargeRecorded(new, p, invoice'[p], querier[p])
  <2>1. /\ PriceRows(new, p) = {tx} /\ Single(new, PriceRows(new, p))
        /\ FeeRows(new, p) = {}
    BY <1>5, <1>6, <1>8, WrittenFirst
  <2> QED BY <1>3, <1>6, <2>1 DEF ChargeRecorded
<1>10. \A q \in Queries \ {p} : ChargeRecorded(new, q, invoice'[q], querier[q])
  <2>1. \A q \in Queries \ {p} : ChargeRecorded(old, q, invoice[q], querier[q])
    BY <1>7 DEF Recorded
  <2> QED BY <1>3, <1>5, <1>6, <2>1, WrittenElsewhere
<1>11. \A e \in Events : /\ PurchaseRecorded(new, e, event[e])
                         /\ RoyaltyRecorded(new, e, event[e], escrow[e].status, invoice')
  <2>1. \A e \in Events : /\ PurchaseRecorded(new, e, event[e])
                          /\ RoyaltyRecorded(new, e, event[e], escrow[e].status, invoice)
    BY <1>5, <1>6, <1>7, EventsStayRecorded
  <2>2. \A q \in Queries : invoice[q] = "settled" => invoice'[q] = "settled"
    BY <1>3
  <2> QED BY <2>1, <2>2 DEF RoyaltyRecorded
<1>12. \A q \in Queries, a \in Clients : RefundRecorded(new, q, a, claim)
  BY <1>5, <1>6, <1>7, RefundsStayRecorded
<1>13. \A q \in Queries : ChargeRecorded(new, q, invoice'[q], querier[q])
  BY <1>9, <1>10
<1> QED BY <1>1, <1>11, <1>12, <1>13 DEF Recorded, new

\* A pool fee is recorded beside the price, if none is yet.
LEMMA FeeRecorded ==
  ASSUME Typed, Linked, SoundBooks(books), Justified,
         Recorded(books.log, event, escrow, invoice, querier, claim),
         NEW p \in Queries, AccrueFeeAndAsk(p)
  PROVE  Recorded(books.log, event, escrow, invoice, querier, claim)'
<1> DEFINE tx  == PoolFeeTx(p)
           old == books.log
           new == books'.log
<1>1. UNCHANGED <<event, escrow, invoice, querier, claim>> /\ invoice[p] = "settled"
  BY DEF AccrueFeeAndAsk, TaskStep, Justified, market
<1>2. CASE books' = books
  BY <1>1, <1>2
<1>3. CASE /\ PoolFee > 0 /\ ~FeeAccrued(p)
           /\ books' = Transfer(books, tx)
  <2>1. Payment(tx)
    BY <1>3, MarketPayments
  <2>2. Wrote(old, new, tx)
    BY <1>3, <2>1, TransferWrites
  <2>3. tx.invoice = p /\ tx.reason = "pool_fee"
    BY DEF PoolFeeTx, Tx
  <2>4. FeeRows(old, p) = {}
    BY <1>3 DEF FeeAccrued, FeeRows
  <2> HIDE DEF tx, old, new
  <2>5. Recorded(old, event, escrow, invoice, querier, claim)
    BY DEF old
  <2>6. ChargeRecorded(new, p, invoice[p], querier[p])
    <3>1. /\ FeeRows(new, p) = {tx} /\ Single(new, FeeRows(new, p))
          /\ PriceRows(new, p) = PriceRows(old, p)
          /\ \A t \in PriceRows(old, p) : new[t] = old[t]
      BY <2>2, <2>3, <2>4, WrittenFirst
    <3>2. Single(old, PriceRows(old, p)) /\ \A t \in PriceRows(old, p) : t.from = querier[p]
      BY <1>1, <2>5 DEF Recorded, ChargeRecorded
    <3>3. Single(new, PriceRows(new, p))
      BY <3>1, <3>2 DEF Single
    <3> QED BY <1>1, <3>1, <3>2, <3>3 DEF ChargeRecorded
  <2>7. \A q \in Queries \ {p} : ChargeRecorded(new, q, invoice[q], querier[q])
    <3>1. \A q \in Queries \ {p} : ChargeRecorded(old, q, invoice[q], querier[q])
      BY <2>5 DEF Recorded
    <3> QED BY <2>2, <2>3, <3>1, WrittenElsewhere
  <2>8. \A e \in Events : /\ PurchaseRecorded(new, e, event[e])
                          /\ RoyaltyRecorded(new, e, event[e], escrow[e].status, invoice)
    BY <2>2, <2>3, <2>5, EventsStayRecorded
  <2>9. \A q \in Queries, a \in Clients : RefundRecorded(new, q, a, claim)
    BY <2>2, <2>3, <2>5, RefundsStayRecorded
  <2>10. \A q \in Queries : ChargeRecorded(new, q, invoice[q], querier[q])
    BY <2>6, <2>7
  <2> QED BY <1>1, <2>8, <2>9, <2>10 DEF Recorded, new
<1> QED BY <1>2, <1>3 DEF AccrueFeeAndAsk

\* In the open transaction a royalty is recorded with the escrow it pays.
LEMMA ReleaseRecorded ==
  ASSUME Typed, SessionTyped, Linked, BooksSound, Placed, LInv,
         NEW p \in Queries, NEW e \in Events, ReleaseOne(p, e)
  PROVE  Recorded(session'.books.log, event, session'.escrow, invoice, querier, claim)
<1> DEFINE tx  == RoyaltyTx(e, p)
           rows  == session.escrow
           rows2 == session'.escrow
           bk  == session.books
           old == session.books.log
           new == session'.books.log
<1>1. Releasing /\ pc[p] = "releasing" /\ invoice[p] = "settled"
  BY ReleaseOneEffect DEF ReleaseOne, Placed
<1>2. /\ SoundBooks(bk) /\ rows \in [Events -> EscrowRows] /\ Backed(rows)
      /\ Recorded(old, event, rows, invoice, querier, claim)
  BY <1>1 DEF BooksSound, SessionTyped, Linked, LInv
<1>3. \/ session'.books = bk /\ rows2 = rows
      \/ /\ session'.books = bk /\ rows[e].status = "open"
         /\ rows2 = [rows EXCEPT ![e].status = "expired"]
      \/ /\ session'.books = Transfer(bk, tx) /\ rows[e].status = "open"
         /\ rows2 = [rows EXCEPT ![e].status = "paid"]
  BY DEF ReleaseOne, Proceed, Marked
<1>4. rows[e].status = "open" => Payment(tx)
  BY <1>2, MarketPayments DEF Backed
<1>5. /\ tx.event = e /\ tx.reason = "royalty" /\ tx.amount = Escrowed
      /\ tx.to = event[e].seller /\ tx.invoice = p
  BY DEF RoyaltyTx, Tx
<1>6. CASE session'.books = bk /\ rows2 = rows
  BY <1>2, <1>6
<1>7. CASE /\ session'.books = bk /\ rows[e].status = "open"
           /\ rows2 = [rows EXCEPT ![e].status = "expired"]
  <2>1. \A x \in Events : rows2[x].status = "paid" <=> rows[x].status = "paid"
    BY <1>2, <1>7 DEF EscrowRows
  <2> HIDE DEF rows, rows2
  <2>2. Recorded(old, event, rows2, invoice, querier, claim)
    BY <1>2, <2>1, DealsFrame
  <2> QED BY <1>7, <2>2 DEF rows2
<1>8. CASE /\ session'.books = Transfer(bk, tx) /\ rows[e].status = "open"
           /\ rows2 = [rows EXCEPT ![e].status = "paid"]
  <2>1. Wrote(old, new, tx)
    BY <1>2, <1>4, <1>8, TransferWrites
  <2>2. rows2[e].status = "paid" /\ \A x \in Events \ {e} : rows2[x] = rows[x]
    BY <1>2, <1>8 DEF EscrowRows
  <2> HIDE DEF tx, rows, rows2, bk, old, new
  <2>3. RoyaltyRows(old, e) = {}
    BY <1>2, <1>8 DEF Recorded, RoyaltyRecorded
  <2>4. RoyaltyRecorded(new, e, event[e], rows2[e].status, invoice)
    <3>1. RoyaltyRows(new, e) = {tx} /\ Single(new, RoyaltyRows(new, e))
      BY <1>5, <2>1, <2>3, WrittenFirst
    <3> QED BY <1>1, <1>5, <2>2, <3>1 DEF RoyaltyRecorded
  <2>5. \A x \in Events \ {e} :
          RoyaltyRecorded(new, x, event[x], rows2[x].status, invoice)
    <3>1. \A x \in Events \ {e} :
            RoyaltyRecorded(old, x, event[x], rows[x].status, invoice)
      BY <1>2 DEF Recorded
    <3> QED BY <1>5, <2>1, <2>2, <3>1, WrittenElsewhere
  <2>6. \A x \in Events : PurchaseRecorded(new, x, event[x])
    <3>1. \A x \in Events : PurchaseRecorded(old, x, event[x])
      BY <1>2 DEF Recorded
    <3> QED BY <1>5, <2>1, <3>1, WrittenElsewhere
  <2>7. \A q \in Queries : ChargeRecorded(new, q, invoice[q], querier[q])
    <3>1. \A q \in Queries : ChargeRecorded(old, q, invoice[q], querier[q])
      BY <1>2 DEF Recorded
    <3> QED BY <1>5, <2>1, <3>1, WrittenElsewhere
  <2>8. \A q \in Queries, a \in Clients : RefundRecorded(new, q, a, claim)
    BY <1>2, <1>5, <2>1, RefundsStayRecorded
  <2>9. \A x \in Events : /\ PurchaseRecorded(new, x, event[x])
                          /\ RoyaltyRecorded(new, x, event[x], rows2[x].status, invoice)
    BY <2>4, <2>5, <2>6
  <2> QED BY <2>7, <2>8, <2>9 DEF Recorded, new, rows2
<1> QED BY <1>3, <1>6, <1>7, <1>8

\* A refund is recorded with the claim it pays, whoever else read it pending.
LEMMA DecideRecorded ==
  ASSUME Typed, Linked, SoundBooks(books), Justified,
         Recorded(books.log, event, escrow, invoice, querier, claim),
         NEW d \in Adjudicators, NEW v \in {"approved", "denied"}, Decide(d, v)
  PROVE  Recorded(books.log, event, escrow, invoice, querier, claim)'
<1> DEFINE c   == adjudicating[d]
           tx  == PayoutTx(c)
           old == books.log
           new == books'.log
<1>1. UNCHANGED <<event, escrow, invoice, querier>> /\ c \in Claims
  BY DEF Decide, Typed, TasksTyped
<1>2. \/ UNCHANGED <<books, claim>>
      \/ /\ claim[c].status = "pending" /\ v = "denied" /\ books' = books
         /\ claim' = [claim EXCEPT ![c].status = v]
      \/ /\ claim[c].status = "pending" /\ v = "approved"
         /\ books' = Transfer(books, tx)
         /\ claim' = [claim EXCEPT ![c].status = v]
  BY DEF Decide
<1>3. CASE UNCHANGED <<books, claim>>
  BY <1>1, <1>3
<1>4. CASE /\ claim[c].status = "pending" /\ claim' = [claim EXCEPT ![c].status = v]
           /\ \/ v = "denied" /\ books' = books
              \/ v = "approved" /\ books' = Transfer(books, tx)
  <2>1. /\ claim'[c].status = v /\ claim'[c].invoice = claim[c].invoice
        /\ claim'[c].claimant = claim[c].claimant
        /\ \A b \in Claims \ {c} : claim'[b] = claim[b]
    BY <1>1, <1>4 DEF Typed, RowsTyped
  <2> DEFINE i == claim[c].invoice
             m == claim[c].claimant
  <2>2. i \in Queries /\ m \in Clients
    BY <1>1, <1>4 DEF Justified, Linked
  <2>3. CASE v = "denied" /\ books' = books
    <3>1. \A b \in Claims : \/ claim'[b] = claim[b]
                            \/ claim'[b].status # "approved" /\ claim[b].status # "approved"
      BY <1>4, <2>1, <2>3
    <3>2. Recorded(books.log, event, escrow, invoice, querier, claim')
      BY <3>1, ClaimsFrame
    <3> QED BY <1>1, <2>3, <3>2
  <2>4. CASE v = "approved" /\ books' = Transfer(books, tx)
    <3>1. Payment(tx)
      BY <1>1, <1>4, MarketPayments
    <3>2. Wrote(old, new, tx)
      BY <2>4, <3>1, TransferWrites
    <3>3. tx.event = NULL /\ tx.reason = "refund_payout" /\ tx = Payout(i, m)
      BY DEF PayoutTx, Tx, Payout
    <3>4. \A q \in Queries, a \in Clients : Payout(q, a) = tx => q = i /\ a = m
      BY DEF PayoutTx, Tx, Payout
    <3>5. Recorded(old, event, escrow, invoice, querier, claim)
      OBVIOUS
    <3> HIDE DEF c, tx, i, m, old, new
    <3>6. \A e \in Events : /\ PurchaseRecorded(new, e, event[e])
                            /\ RoyaltyRecorded(new, e, event[e], escrow[e].status, invoice)
      BY <3>2, <3>3, <3>5, EventsStayRecorded
    <3>7. \A q \in Queries : ChargeRecorded(new, q, invoice[q], querier[q])
      <4>1. \A q \in Queries : ChargeRecorded(old, q, invoice[q], querier[q])
        BY <3>5 DEF Recorded
      <4> QED BY <3>2, <3>3, <4>1, WrittenElsewhere
    <3>8. ASSUME NEW q \in Queries, NEW a \in Clients
          PROVE  RefundRecorded(new, q, a, claim')
      <4> DEFINE S  == Approved(claim, q, a)
                 S2 == Approved(claim', q, a)
      <4>1. RefundRecorded(old, q, a, claim)
        BY <3>5 DEF Recorded
      <4>2. CASE q = i /\ a = m
        <5>1. S2 = S \cup {c} /\ c \notin S
          BY <1>1, <1>4, <2>1, <2>4, <4>2 DEF Approved, i, m
        <5>2. IsFiniteSet(S) /\ Copies(tx, old) = Cardinality(S)
          BY <3>3, <4>1, <4>2 DEF RefundRecorded
        <5>3. IsFiniteSet(S2) /\ Cardinality(S2) = Cardinality(S) + 1
          BY <5>1, <5>2, FS_AddElement
        <5>4. Copies(tx, new) = Copies(tx, old) + 1
          BY <3>2 DEF Wrote, Copies
        <5> QED BY <3>3, <4>2, <5>2, <5>3, <5>4 DEF RefundRecorded
      <4>3. CASE ~(q = i /\ a = m)
        <5>1. S2 = S
          BY <1>1, <1>4, <2>1, <4>3 DEF Approved, i, m
        <5>2. tx # Payout(q, a)
          BY <3>4, <4>3
        <5>3. RefundRecorded(new, q, a, claim)
          BY <3>2, <4>1, <5>2, WrittenElsewhere
        <5> QED BY <5>1, <5>3 DEF RefundRecorded
      <4> QED BY <4>2, <4>3
    <3> QED BY <1>1, <3>6, <3>7, <3>8 DEF Recorded, new
  <2> QED BY <1>4, <2>3, <2>4
<1> QED BY <1>2, <1>3, <1>4

\* The committed books stay recorded.
LEMMA RecordedStep ==
  ASSUME Typed, SessionTyped, Linked, BooksSound, SessionAgrees, RowsFollow, Placed, LInv,
         [Next]_vars
  PROVE  Recorded(books.log, event, escrow, invoice, querier, claim)'
<1> USE DEF market, tasks
<1> DEFINE Goal == Recorded(books.log, event, escrow, invoice, querier, claim)'
<1>0. /\ SoundBooks(books) /\ Justified
      /\ Recorded(books.log, event, escrow, invoice, querier, claim)
      /\ invoice \in [Queries -> InvoiceStatus] /\ escrow \in [Events -> EscrowRows]
      /\ querier \in [Queries -> Clients \cup {NULL}]
  BY DEF BooksSound, LInv, Typed, RowsTyped, TasksTyped
<1>1. ASSUME NEW e \in Events, NEW a \in Clients, NEW ts \in Days, Publish(e, a, ts)
      PROVE  Goal
  BY <1>0, <1>1, PublishRecorded
<1>2. ASSUME NEW p \in Queries, Settle(p)
      PROVE  Goal
  BY <1>0, <1>2, SettleRecorded
<1>3. ASSUME NEW p \in Queries, AccrueFeeAndAsk(p)
      PROVE  Goal
  BY <1>0, <1>3, FeeRecorded
<1>4. ASSUME NEW d \in Adjudicators, NEW v \in {"approved", "denied"}, Decide(d, v)
      PROVE  Goal
  BY <1>0, <1>4, DecideRecorded
<1>5. ASSUME NEW p \in Queries, CommitRelease(p)
      PROVE  Goal
  <2>1. Releasing
    BY <1>5 DEF CommitRelease, TaskStep, Releasing
  <2> QED BY <1>5, <2>1 DEF CommitRelease, LInv
<1>6. ASSUME UNCHANGED <<books, event>>,
             \A e \in Events : escrow'[e].status = "paid" <=> escrow[e].status = "paid",
             \A q \in Queries : invoice'[q] = "settled" <=> invoice[q] = "settled",
             \A q \in Queries : invoice[q] = "settled" => querier'[q] = querier[q],
             \A c \in Claims : \/ claim'[c] = claim[c]
                               \/ claim'[c].status # "approved" /\ claim[c].status # "approved"
      PROVE  Goal
  <2>1. Recorded(books.log, event, escrow', invoice, querier, claim)
    BY <1>0, <1>6, DealsFrame
  <2>2. Recorded(books.log, event, escrow', invoice', querier', claim)
    BY <1>6, <2>1, BillsFrame
  <2>3. Recorded(books.log, event, escrow', invoice', querier', claim')
    BY <1>6, <2>2, ClaimsFrame
  <2> QED BY <1>6, <2>3
<1>7. ASSUME NEW p \in Queries, (\E a \in Clients : IssueInvoice(p, a)) \/ Invalidate(p)
      PROVE  Goal
  <2>1. UNCHANGED <<books, event, escrow, claim>>
    BY <1>7 DEF IssueInvoice, Invalidate
  <2>2. /\ \A q \in Queries \ {p} : invoice'[q] = invoice[q] /\ querier'[q] = querier[q]
        /\ invoice[p] \in {"none", "pending"} /\ invoice'[p] \in {"pending", "invalidated"}
    BY <1>0, <1>7 DEF IssueInvoice, Invalidate, TaskStep, Placed, RowsFollow
  <2> QED BY <1>6, <2>1, <2>2
<1>8. ASSUME NEW e \in Events, RevokeEscrow(e)
      PROVE  Goal
  <2>1. UNCHANGED <<books, event, invoice, querier, claim>>
    BY <1>8 DEF RevokeEscrow
  <2>2. \A x \in Events : escrow'[x].status = "paid" <=> escrow[x].status = "paid"
    BY <1>0, <1>8 DEF RevokeEscrow, EscrowRows
  <2> QED BY <1>6, <2>1, <2>2
<1>9. ASSUME NEW c \in Claims, NEW a \in Clients, NEW q \in Queries, FileClaim(c, a, q)
      PROVE  Goal
  <2>1. UNCHANGED <<books, event, escrow, invoice, querier>>
    BY <1>9 DEF FileClaim
  <2>2. \A b \in Claims : \/ claim'[b] = claim[b]
                          \/ claim'[b].status # "approved" /\ claim[b].status # "approved"
    BY <1>9 DEF FileClaim, Typed, RowsTyped
  <2> QED BY <1>6, <2>1, <2>2
<1>10. ASSUME UNCHANGED <<books, event, escrow, invoice, querier, claim>>
       PROVE  Goal
  BY <1>0, <1>10
<1>11. ASSUME NEW q \in Queries,
              \/ AskUncharged(q) \/ Cancel(q) \/ ChargeFails(q)
              \/ Narrate(q) \/ NarrateFails(q) \/ AbortRelease(q) \/ Deliver(q)
              \/ \E e \in Events : ReleaseOne(q, e)
       PROVE  UNCHANGED <<books, event, escrow, invoice, querier, claim>>
  BY <1>11 DEF AskUncharged, Cancel, ChargeFails, Narrate, NarrateFails, AbortRelease,
               Deliver, ReleaseOne
<1>12. ASSUME \/ \E e \in Events : RecordSettledPublish(e) \/ RecordDispute(e)
              \/ \E d \in Adjudicators, c \in Claims : ReadPending(d, c)
              \/ Tick \/ Crash \/ UNCHANGED vars
       PROVE  UNCHANGED <<books, event, escrow, invoice, querier, claim>>
  BY <1>12 DEF RecordSettledPublish, RecordDispute, ReadPending, Tick, Crash, vars
<1> HIDE DEF Goal
<1>13. Goal
  BY <1>1, <1>2, <1>3, <1>4, <1>5, <1>7, <1>8, <1>9, <1>10, <1>11, <1>12
  DEF Next, Request, Operate, QueryStep, PublishStep
<1> QED BY <1>13 DEF Goal

\* What the log is justified by stays so: a settled invoice stays settled.
LEMMA JustifiedStep ==
  ASSUME Typed, RowsFollow, Placed, Justified, [Next]_vars
  PROVE  Justified'
<1> USE DEF market, tasks, TaskStep
<1>t. /\ pc \in [Queries -> Places] /\ invoice \in [Queries -> InvoiceStatus]
      /\ claim \in [Claims -> [status : ClaimStatus, invoice : Queries \cup {NULL},
                               claimant : Clients \cup {NULL}]]
  BY DEF Typed, RowsTyped, TasksTyped
<1>k. \A q \in Queries : invoice[q] = "settled" => invoice'[q] = "settled"
  BY InvoiceMoves DEF RowsFollow
<1>1. ASSUME NEW p \in Queries, Settle(p)
      PROVE  Justified'
  <2>1. /\ invoice'[p] = "settled" /\ claim' = claim
        /\ \A q \in Queries \ {p} : pc'[q] = pc[q]
    BY <1>1, <1>t DEF Settle, Placed
  <2> QED BY <1>k, <2>1 DEF Justified
<1>2. ASSUME claim' = claim,
             \A q \in Queries : pc'[q] = "settled" => pc[q] = "settled"
      PROVE  Justified'
  BY <1>k, <1>2 DEF Justified
<1>3. ASSUME NEW c \in Claims, NEW a \in Clients, NEW q \in Queries, FileClaim(c, a, q)
      PROVE  Justified'
  <2>1. /\ claim'[c].invoice = q /\ invoice[q] = "settled"
        /\ \A b \in Claims \ {c} : claim'[b] = claim[b]
        /\ UNCHANGED <<pc, invoice>>
    BY <1>3, <1>t DEF FileClaim
  <2> QED BY <2>1 DEF Justified
<1>4. ASSUME NEW d \in Adjudicators, NEW v \in {"approved", "denied"}, Decide(d, v)
      PROVE  Justified'
  <2> DEFINE c == adjudicating[d]
  <2>1. /\ UNCHANGED <<pc, invoice>>
        /\ \/ claim' = claim
           \/ claim[c].status = "pending" /\ claim' = [claim EXCEPT ![c].status = v]
    BY <1>4 DEF Decide
  <2>2. \A b \in Claims : /\ claim'[b].invoice = claim[b].invoice
                          /\ claim'[b].status # "none" => claim[b].status # "none"
    <3> HIDE DEF c
    <3> QED BY <1>t, <2>1
  <2> QED BY <2>1, <2>2 DEF Justified
<1>5. ASSUME NEW p \in Queries,
             \/ \E a \in Clients : IssueInvoice(p, a)
             \/ AskUncharged(p) \/ Cancel(p)
             \/ ChargeFails(p) \/ Invalidate(p) \/ AccrueFeeAndAsk(p)
             \/ Narrate(p) \/ NarrateFails(p) \/ CommitRelease(p) \/ AbortRelease(p)
             \/ Deliver(p)
      PROVE  claim' = claim /\ \A q \in Queries : pc'[q] = "settled" => pc[q] = "settled"
  BY <1>5, <1>t DEF IssueInvoice, AskUncharged, Cancel, ChargeFails, Invalidate,
              AccrueFeeAndAsk, Narrate, NarrateFails, CommitRelease, AbortRelease, Deliver
<1>6. ASSUME \/ \E e \in Events :
                  \/ \E a \in Clients, ts \in Days : Publish(e, a, ts)
                  \/ RecordSettledPublish(e) \/ RevokeEscrow(e) \/ RecordDispute(e)
                  \/ \E p \in Queries : ReleaseOne(p, e)
             \/ \E d \in Adjudicators, c \in Claims : ReadPending(d, c)
             \/ Tick \/ UNCHANGED vars
      PROVE  UNCHANGED <<claim, pc>>
  BY <1>6 DEF Publish, RecordSettledPublish, RevokeEscrow, RecordDispute, ReleaseOne,
              ReadPending, Tick, vars
<1>7. ASSUME Crash
      PROVE  claim' = claim /\ \A q \in Queries : pc'[q] = "settled" => pc[q] = "settled"
  BY <1>7, <1>t DEF Crash, InFlight
<1> QED
  BY <1>1, <1>2, <1>3, <1>4, <1>5, <1>6, <1>7
  DEF Next, Request, Operate, QueryStep, PublishStep

\* Evidence is booked once, by the task that has just settled the purchase.
LEMMA EvidencedStep ==
  ASSUME Typed, Evidenced, [Next]_vars
  PROVE  Evidenced'
<1> USE DEF market, tasks, TaskStep
<1>t. /\ evidence \in [Events -> [settled : Nat, disputed : Nat]]
      /\ event \in [Events -> [seller : Clients, paid : BOOLEAN] \cup {NULL}]
  BY DEF Typed, RowsTyped
<1>i. \A x, e \in Events : /\ Idle # Publishing(x) /\ Disputing(e) # Publishing(x)
                           /\ Publishing(e) = Publishing(x) => e = x
  BY DEF Idle, Publishing, Disputing
<1>j. \A q \in Queries, x \in Events : Asking(q) # Publishing(x)
  BY DEF Asking, Publishing
<1>1. ASSUME NEW e \in Events, NEW a \in Clients, NEW ts \in Days, Publish(e, a, ts)
      PROVE  Evidenced'
  <2>1. /\ event[e] = NULL /\ evidence' = evidence
        /\ event' = [event EXCEPT ![e] = [seller |-> a, paid |-> mode.payment]]
        /\ loop' = IF mode.payment THEN Publishing(e) ELSE Idle
    BY <1>1 DEF Publish
  <2>2. mode.payment \in BOOLEAN
    BY MarketAssumption DEF Typed, TasksTyped
  <2>3. /\ event'[e] # NULL /\ event'[e].paid = mode.payment
        /\ \A x \in Events \ {e} : event'[x] = event[x]
    BY <1>t, <2>1, <2>2, MarketAssumption
  <2>4. evidence[e].settled = 0
    BY <1>t, <2>1 DEF Evidenced
  <2>5. \A x \in Events : loop' = Publishing(x) => x = e /\ mode.payment
    BY <1>i, <2>1
  <2> QED BY <2>1, <2>3, <2>4, <2>5 DEF Evidenced
<1>2. ASSUME NEW e \in Events, RecordSettledPublish(e)
      PROVE  Evidenced'
  <2>1. /\ event' = event /\ loop' = Idle
        /\ event[e] # NULL /\ event[e].paid /\ evidence[e].settled = 0
    BY <1>2 DEF RecordSettledPublish, Evidenced
  <2>2. /\ evidence'[e].settled \in {0, 1}
        /\ \A x \in Events \ {e} : evidence'[x] = evidence[x]
    BY <1>2, <1>t, <2>1 DEF RecordSettledPublish
  <2> QED BY <1>i, <2>1, <2>2 DEF Evidenced
<1>3. ASSUME NEW e \in Events, RecordDispute(e)
      PROVE  Evidenced'
  <2>1. event' = event /\ loop' = Idle
    BY <1>3 DEF RecordDispute
  <2>2. \A x \in Events : evidence'[x].settled = evidence[x].settled
    BY <1>3, <1>t DEF RecordDispute
  <2> QED BY <1>i, <2>1, <2>2 DEF Evidenced
<1>4. ASSUME UNCHANGED <<event, evidence>>,
             \/ loop' = loop \/ loop' = Idle
             \/ \E e \in Events : loop' = Disputing(e)
             \/ \E q \in Queries : loop' = Asking(q)
      PROVE  Evidenced'
  BY <1>4, <1>i, <1>j DEF Evidenced
<1>5. ASSUME NEW q \in Queries,
             \/ \E a \in Clients : IssueInvoice(q, a)
             \/ AskUncharged(q) \/ Cancel(q)
             \/ Settle(q) \/ ChargeFails(q) \/ Invalidate(q) \/ AccrueFeeAndAsk(q)
             \/ Narrate(q) \/ NarrateFails(q) \/ AbortRelease(q) \/ CommitRelease(q)
             \/ Deliver(q) \/ \E e \in Events : ReleaseOne(q, e)
      PROVE  Evidenced'
  BY <1>4, <1>5 DEF IssueInvoice, AskUncharged, Cancel, Settle, ChargeFails, Invalidate,
              AccrueFeeAndAsk, Narrate, NarrateFails, AbortRelease, CommitRelease, Deliver,
              ReleaseOne
<1>6. ASSUME \/ \E e \in Events : RevokeEscrow(e)
             \/ \E c \in Claims, a \in Clients, q \in Queries : FileClaim(c, a, q)
             \/ \E d \in Adjudicators : \/ \E c \in Claims : ReadPending(d, c)
                                        \/ \E v \in {"approved", "denied"} : Decide(d, v)
             \/ Tick \/ Crash \/ UNCHANGED vars
      PROVE  Evidenced'
  BY <1>4, <1>6 DEF RevokeEscrow, FileClaim, ReadPending, Decide, Tick, Crash, vars
<1> QED
  BY <1>1, <1>2, <1>3, <1>5, <1>6 DEF Next, Request, Operate, QueryStep, PublishStep

\* The fourth invariant is kept, in both copies of the books.
LEMMA LInvStep ==
  ASSUME Sound, LInv, [Next]_vars
  PROVE  LInv'
<1> USE DEF Sound, IInv, DInv, VInv
<1>1. Recorded(books.log, event, escrow, invoice, querier, claim)'
  BY RecordedStep
<1>2. ASSUME Releasing'
      PROVE  Recorded(session.books.log, event, session.escrow, invoice, querier, claim)'
  <2>1. CASE Releasing /\ session' = session
    <3>1. UNCHANGED <<event, invoice, claim>>
      BY <1>2, <2>1, ReleasingFreezes DEF market
    <3>2. querier' = querier
      <4>1. ~Crash
        BY <1>2 DEF Crash, InFlight, Releasing
      <4>2. ASSUME NEW q \in Queries, CommitRelease(q) \/ AbortRelease(q)
            PROVE  querier' = querier
        BY <4>2 DEF CommitRelease, AbortRelease
      <4>3. ASSUME NEW q \in Queries, NEW e \in Events, ReleaseOne(q, e)
            PROVE  querier' = querier
        BY <4>3 DEF ReleaseOne
      <4>4. UNCHANGED vars => querier' = querier
        BY DEF vars, tasks
      <4> QED BY <2>1, <4>1, <4>2, <4>3, <4>4, ReleasingExcludes
    <3> QED BY <2>1, <3>1, <3>2 DEF LInv
  <2>2. ASSUME NEW q \in Queries, NEW e \in Events, ReleaseOne(q, e)
        PROVE  Recorded(session.books.log, event, session.escrow, invoice, querier, claim)'
    <3>1. UNCHANGED <<event, invoice, querier, claim>>
      BY <2>2 DEF ReleaseOne, market
    <3>2. Recorded(session'.books.log, event, session'.escrow, invoice, querier, claim)
      BY <2>2, ReleaseRecorded
    <3> QED BY <3>1, <3>2
  <2>3. ASSUME NEW q \in Queries, Opened(q), Narrate(q)
        PROVE  Recorded(session.books.log, event, session.escrow, invoice, querier, claim)'
    <3>1. /\ UNCHANGED <<event, invoice, querier, claim>>
          /\ session'.books = books /\ session'.escrow = escrow
      BY <2>3 DEF Opened, Narrate, market
    <3> QED BY <3>1 DEF LInv
  <2> QED BY <1>2, <2>1, <2>2, <2>3, SessionCases
<1>3. Justified' /\ Evidenced'
  BY JustifiedStep, EvidencedStep DEF LInv
<1> QED BY <1>1, <1>2, <1>3 DEF LInv

\* The four invariants hold together.
LEMMA RecordInvariant == Spec => [](Sound /\ LInv)
<1>1. Init => LInv
  <2> SUFFICES ASSUME Init PROVE LInv
    OBVIOUS
  <2>1. ~Releasing
    BY DEF Init, Releasing
  <2>2. /\ \A e : PurchaseRows(books.log, e) = {} /\ RoyaltyRows(books.log, e) = {}
        /\ \A q : PriceRows(books.log, q) = {} /\ FeeRows(books.log, q) = {}
        /\ \A t : Copies(t, books.log) = 0
    BY DEF Init, EmptyBooks, PurchaseRows, RoyaltyRows, PriceRows, FeeRows, Copies
  <2>3. \A e \in Events : event[e] = NULL /\ escrow[e].status = "none"
    BY DEF Init
  <2>4. \A q \in Queries : invoice[q] = "none" /\ pc[q] = "new"
    BY DEF Init
  <2>5. \A q, a : Approved(claim, q, a) = {}
    BY DEF Init, Approved
  <2>6. Recorded(books.log, event, escrow, invoice, querier, claim)
    BY <2>2, <2>3, <2>4, <2>5, FS_EmptySet
    DEF Recorded, PurchaseRecorded, RoyaltyRecorded, ChargeRecorded, RefundRecorded
  <2>7. Justified /\ Evidenced
    BY DEF Init, Justified, Evidenced, Idle, Publishing
  <2> QED BY <2>1, <2>6, <2>7 DEF LInv
<1>2. Sound /\ LInv /\ [Next]_vars => LInv'
  BY LInvStep
<1> QED BY <1>1, <1>2, SoundInvariant, PTL DEF Spec

\* publish.py: whatever is interleaved, rolled back or lost in a crash, a
\* stored event that carries a credits_tx_id was paid for once, to its
\* seller, and no other publish left a payment.
THEOREM PurchasesRecorded == Spec => []EventsPaidOnce
<1>1. LInv => EventsPaidOnce
  <2>1. \A e \in Events : RowsOfEvent(e, {"listing_fee", "publish_reward"})
                            = PurchaseRows(books.log, e)
    BY DEF RowsOfEvent, PurchaseRows
  <2>2. \A S : Once(S) <=> Single(books.log, S)
    BY DEF Once, Single
  <2> QED BY <2>1, <2>2 DEF LInv, Recorded, PurchaseRecorded, EventsPaidOnce, Stored
<1> QED BY <1>1, RecordInvariant, PTL

\* payout.py, audit.py: an escrow is marked paid exactly when one royalty row
\* paid its seller the escrowed rest, for a query that had been charged.
THEOREM RoyaltiesRecorded == Spec => []EscrowMatchesRoyalty
<1>1. LInv => EscrowMatchesRoyalty
  <2>1. \A e \in Events : RowsOfEvent(e, {"royalty"}) = RoyaltyRows(books.log, e)
    BY DEF RowsOfEvent, RoyaltyRows
  <2>2. \A S : Once(S) <=> Single(books.log, S)
    BY DEF Once, Single
  <2> QED BY <2>1, <2>2 DEF LInv, Recorded, RoyaltyRecorded, EscrowMatchesRoyalty
<1> QED BY <1>1, RecordInvariant, PTL

\* executor.py, D5: an invoice is settled exactly when its querier paid its
\* price once, and only such a query's invoice carries a pool fee, at most one.
THEOREM ChargesRecorded == Spec => []InvoiceMatchesPayment
<1>1. LInv => InvoiceMatchesPayment
  <2>1. \A q \in Queries : /\ RowsOfInvoice(q, "query_price") = PriceRows(books.log, q)
                           /\ RowsOfInvoice(q, "pool_fee") = FeeRows(books.log, q)
    BY DEF RowsOfInvoice, PriceRows, FeeRows
  <2>2. \A S : Once(S) <=> Single(books.log, S)
    BY DEF Once, Single
  <2> QED BY <2>1, <2>2 DEF LInv, Recorded, ChargeRecorded, InvoiceMatchesPayment
<1> QED BY <1>1, RecordInvariant, PTL

\* refund_pool.py, M3: however many adjudicators race, a claimant has been
\* paid once per approved claim, for an invoice that was settled.
THEOREM RefundsRecorded == Spec => []RefundsMatchClaims
<1>1. LInv => RefundsMatchClaims
  <2> SUFFICES ASSUME LInv, NEW q \in Queries, NEW a \in Clients
               PROVE  /\ Copies(Payout(q, a), books.log) = Cardinality(Approved(claim, q, a))
                      /\ Approved(claim, q, a) # {} => invoice[q] = "settled"
    BY DEF RefundsMatchClaims, Payout, Approved
  <2>1. Approved(claim, q, a) # {} => invoice[q] = "settled"
    BY DEF Approved, LInv, Justified
  <2> QED BY <2>1 DEF LInv, Recorded, RefundRecorded
<1> QED BY <1>1, RecordInvariant, PTL

\* publish.py 5.5: only a settled purchase is reliability evidence, and once,
\* although the evidence is booked in a commit of its own.
THEOREM EvidenceIsSettled == Spec => []EvidenceOfSettledPurchase
<1>1. LInv => EvidenceOfSettledPurchase
  BY DEF LInv, Evidenced, EvidenceOfSettledPurchase, Stored
<1> QED BY <1>1, RecordInvariant, PTL
=============================================================================
