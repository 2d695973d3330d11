# Village economy: a TLA+ verification of oldman-agent

`oldman-agent` is an A2A service: an elderly agent ("oldman") that buys
documentation of events from other agents, remembers it, and sells narratives
about the village. Money (credits), trust and memory live in one DuckDB file.
This directory models the parts whose correctness depends on the order of
steps: payments, escrows, invoices and refunds; trust, reports and sanctions;
what a publish must pass; reflections and narratives, which wait for a language
model; the life of an A2A task; and the database under all of them, with what
failures and restarts do to each. Line numbers below refer to the repository at the modelled commit.

Contents: [inventory](#1-inventory), [modules and code](#2-modules-and-the-code),
[runs](#3-runs), [fairness](#4-fairness), [proofs](#5-proofs),
[disagreements](#6-where-the-code-and-its-documentation-disagree),
[not modelled](#7-what-is-not-modelled), [plan](#8-plan).

## 1. Inventory

### How the program executes

One process, one asyncio event loop, one DuckDB connection shared by all tasks
(`app/main.py:5` demands `workers=1`). Two facts shape every model:

- **What runs between two `await`s is atomic with respect to other tasks.** No
  code awaits between `BEGIN` and `COMMIT`; the only awaits that matter are the
  calls of the language model and the delivery of A2A events. All routes are
  `async`. The operator functions for claims and contradictions have no route
  yet (`scripts/village_demo.py` calls them); `refund_pool.py:130` and
  `tests/unit/test_trust_refund_pool.py:107` prepare them for threads, so the
  model lets several adjudicators race.
- **A crash can come between any two commits.** Tables survive; the executor's
  `_in_flight` and `_bg_tasks`, the in-memory task store, the reflection locks
  and the open transaction do not. Settings are read again at the restart, so
  payments and royalties may be on for one part of the data and off for another.

### Components

| component | state | operations | interacts with |
|---|---|---|---|
| credits ledger (`credits/`) | `credits_balances`, `credits_transactions` | `transfer`, lazy grant in `_ensure_balance`, `audit_credits` | called inside the transaction of every component that moves money |
| publish (`api/publish.py`) | `events`, entities, `royalty_escrows` | `execute_publish`: identity, duplicate scan, pay, store, trust event, schedule reflection | ledger, escrow, trust, identity, reflection |
| pay-to-query (`a2a/executor.py`, `storage/invoices.py`) | `invoices` | invoice, settle, invalidate, pool fee, narrate, release | ledger, refund pool, escrow, narrative |
| royalty escrow (`trust/payout.py`) | `royalty_escrows` | split, open, release per citation, expire | ledger, publish, query, contradictions |
| refund pool (`trust/refund_pool.py`) | `refund_claims`, account `village_pool` | accrue fee, file claim, adjudicate | ledger, invoices |
| contradictions (`trust/corroboration.py`) | `trust_events`, escrows | revoke the escrow, record the violation | escrow, trust |
| trust and membership (`trust/ledger.py`, `service.py`, `membership.py`) | `trust_ledger`, `trust_events` | decayed Beta score per criterion, exclusion, readmission gate | publish, canary, sanctions |
| honesty audits (`trust/canary.py`, `sanctions.py`, `report.py`) | `canary_pool` | judge a canary, sanction, report | trust |
| reflection (`reflection/`) | `reflections`, per-subject locks | trigger, ask the model, store | publish, language model |
| narrative (`narrative/`) | none | collect evidence, ask, validate citations, retry | language model, query |
| A2A task life cycle (`a2a/`) | `_in_flight`, task store | execute, cancel, emit events | all |
| identity (`trust/identity.py`, `storage/identities.py`) | `agent_identities`, `village_registry` | bind a name to a DID on first use, verify | publish |
| storage (`storage/`) | `_schema_version`, all tables | migrations, duplicate detection, event store | all |
| language models (`llm/`) | none | HTTP calls | narrative, reflection |
| web surface (`main.py`, `admin.py`, schemas, configuration) | none | routes, read-only views | all |

### What is hard, and what makes each component correct

- **Ledger.** The payer may be the payee; an account appears at its first
  touch, in the middle of a transfer. Correct when balances sum to what was
  minted, each balance is the sum of its rows, and no account is granted twice.
- **Publish.** The seller is paid before the event is stored. Correct when
  every stored paid event was paid once, to its seller, and nothing else was.
- **Charge.** An invoice and its settlement are two commits, the answer comes
  after an await of up to a minute, and a cancel or a crash may come in any
  gap. Correct when an invoice is settled exactly when it was paid, and a
  charged query always ends.
- **Escrow.** Two narratives may cite one event; it may be disputed, or its
  horizon may pass, while the model writes; the treasury may fail at the second
  of two citations. Correct when an escrow is paid exactly when one royalty row
  says so, in time, never after a dispute, and a seller never earns more than
  the reward.
- **Refunds.** Two threads may decide one claim. Correct when the payouts are
  the approved claims, one each.
- **Trust.** Evidence arrives out of order; an audit is two commits. Correct
  when an exclusion survives any later evidence, and no audit counts twice.
- **Reports and sanctions.** A report is read, then the model is awaited while
  evidence goes on arriving. Correct when an answer is of one instant and cites
  only what was on record then, and a scolding always names an offence.
- **Reflection.** Publishes trigger while a reflection waits under its lock,
  and reflections of different subjects merge into one agent's traits. Correct
  when one task at a time asks about a subject, reflections are stored in the
  order of their timestamps, no merge is lost and no lock is left behind.
- **Narrative.** The model may cite anything, the judge may fail, short ids may
  collide. Correct when every question is answered after a bounded number of
  attempts, and only from evidence that was validated.
- **A2A tasks.** A cancel may come before the first turn of a query or after its
  last event. Correct when every request ends with an event its client can
  read, and neither a result nor a cancellation is taken back.
- **Publish gate.** Names are bound outside the publish transaction, duplicates
  are looked for in a window ordered by the client's time. Correct when a name
  keeps its DID, a signed row has the DID of its name, and a refused publish
  counts nothing.
- **Migrations.** A run may be cut in the middle of a file that rebuilds a
  table. Correct when the schema is always that of a prefix of the files, no
  logged row is lost, and a restart gets to serve.
- **The connection.** All handlers share it, and not all transactions roll
  back; a statement outside a transaction joins whatever it finds, and a
  `ROLLBACK` takes along what others wrote. Correct when nothing is committed by
  halves and nothing reported as done is lost; the second does not hold in full
  (section 6).

`PROJECT.json` lists the hazards one by one, each at its line, with the
properties that cover it.

## 2. Modules and the code

| module | role |
|---|---|
| `Tally` | append-only tables as bags of rows, and SQL's SUM and count |
| `CreditsLedger` | ledger and audit as pure operators on *books* |
| `Ledger` | the ledger alone, under any sequence of calls |
| `Market` | publish, query, escrow, refund, dispute and crash over the same books |
| `Trust` | evidence, scores, membership and canary audits |
| `Reputation` | extends `Trust`: reports on its ledger, their wording, sanctions |
| `Reflection` | the background tasks of publishes, locks, triggers, traits |
| `Narrative` | a question from evidence to answer: attempts, validation, judge |
| `Answers` | abstract: what a question is promised, refined by `Narrative` |
| `Tasks` | extends `Narrative`: requests, their event streams, `_in_flight` and cancels; a query takes the steps of `Narrative` while its task lives |
| `PublishGate` | everything a publish must pass, and the rows it stores |
| `Migrations` | the migration runner and its nine files |
| `DbSession` | extends `Migrations`: the shared connection, statement by statement, from the end of the migrations to the end of the process |
| `Settlement` | abstract: what each deal promises, one indivisible step per deal |
| `MarketSettles` | the refinement mapping from `Market` to `Settlement` |
| `MCLedger`, `MCMarket`, `MCTrust`, `MCReputation`, `MCReflection`, `MCTasks`, `MCPublishGate`, `MCDbSession` | instances for TLC |
| `CreditsLedgerProofs`, `LedgerProofs`, `MarketProofs`, `TrustProofs`, `ReflectionProofs`, `NarrativeProofs`, `PublishGateProofs`, `DbSessionProofs` | theorems |

### CreditsLedger

*Books* are the two tables: `balance` is a function whose domain is the
accounts that have a row, `log` a bag of applied rows (a function from rows to
their multiplicity, see `Tally`; `tx_id` and `ts` only tell equal rows apart).

| operator | code |
|---|---|
| `EnsureBalance` | `credits/ledger.py` `_ensure_balance`: row and grant at the first touch |
| `Affordable` | the balance check of `transfer`; a NULL payer mints |
| `Transfer`, `Debit`, `Credit` | the two UPDATEs and the `applied` row, debit first |
| `TotalBalance`, `TotalMinted`, `Balanced` | `credits/audit.py` |

A refused transfer logs a `rejected_insufficient_funds` row and raises; every
caller rolls back, which takes that row with it. A refused transfer is
therefore no step. The SQL `SUM` is written as the cardinality of a set of
units, which the prover can reason about; `MCLedger` compares it with
`SumFunction` of the community modules on all functions from subsets of 1..3 to
0..3.

### Market

| state | code |
|---|---|
| `books` | the ledger's tables |
| `event` | `events`: seller, and whether `credits_tx_id` is set |
| `escrow` | `royalty_escrows`: status, expiry |
| `invoice`, `claim`, `evidence` | `invoices`, `refund_claims`, and per event the `trust_events` of a settled publish and of a contradiction |
| `mode` | `payment_enabled` (without kill switch) and `royalty_enabled`, read again at a restart |
| `loop` | the task that runs between two commits of one await-free segment |
| `pc`, `querier`, `cites` | the query tasks: where they are, who asks, what they will cite |
| `session` | the open royalty transaction: a working copy of books and escrows |
| `adjudicating` | the claim each adjudicator thread has read as pending |

| action | code |
|---|---|
| `Publish`, `RecordSettledPublish` | `execute_publish`: the transaction, then the best-effort trust event |
| `IssueInvoice`, `Settle`, `ChargeFails`, `Invalidate` | `_charge_querier_or_fallback`: steps 1 and 2; the settlement or the invalidation raises; the invalidation |
| `AccrueFeeAndAsk` | `accrue_pool_fee`, then the evidence is read and the model asked |
| `AskUncharged` | the free and the canned answers |
| `Narrate`, `NarrateFails` | the model returns, or raises |
| `ReleaseOne`, `CommitRelease`, `AbortRelease` | `release_royalties_for_citations`, citation by citation |
| `Deliver`, `Cancel` | the terminal event, `cancel` |
| `RevokeEscrow`, `RecordDispute` | `record_contradiction`, two commits |
| `FileClaim`, `ReadPending`, `Decide` | `file_claim`, `adjudicate_claim` with its check outside the transaction |
| `Tick`, `Crash` | time passes; the process dies and restarts |

Abstractions, all of them in one place:

- A step is one committed transaction. A transaction that may fail in the
  middle on data (the royalties) is taken citation by citation on the working
  copy `session`; the others are one step, because each of them moves money
  once and its other statements cannot fail on the state modelled.
- An event is identified with its payload, whose hash is UNIQUE. A second
  publish of a stored payload pays, fails and is rolled back: no step.
- Adjudicators may run between any two commits, but not inside the open royalty
  transaction: on one shared connection that would be a nested BEGIN, and on
  connections of their own DuckDB serialises the two or fails one of them.
- The contradicting event of a dispute is any other event, in `Events` or not.
- Amounts do not change at a restart; `payment_enabled` and `royalty_enabled` do.
- The evidence of a query is any set of stored events. Which ones are chosen
  (keyword search, the model's citations) is the narrative's business.
- The reputation report is charged like a query and cites nothing, so it is a
  query with no citations.
- Credits are unbounded naturals. The columns are 32-bit; an overflow raises
  and rolls back, and no balance in use comes near it.

### Settlement

The promise without its machinery: a seller is paid the reward at once, or the
listing fee and later, at most once, the rest; a buyer pays with the step that
settles the invoice, or not at all. `MarketSettles` maps the market to it by
reading money off the ledger's log (`Earned`, `Spent`), not off a status, so a
status without its payment, or a payment without its status, is no promised
step. All citations of a narrative are released by one `Cite`; the working
copy, the tasks, crashes and settings are internal, and refunds and disputes'
evidence map to stutters.

### Trust

| state | code |
|---|---|
| `registry` | `village_registry`: state, violation count |
| `ledger` | `trust_ledger`: per agent and criterion the evidence mass above the prior Beta(1, 3), and `last_update_ts` |
| `log` | `trust_events` |
| `pool`, `judged` | `canary_pool`: planted or not, used or not; and the canary between its two commits |

| operator or action | code |
|---|---|
| `Decay`, `Update`, `LowerBelow` | `trust/ledger.py` |
| `EvaluateTransition` | `trust/membership.py` |
| `Record`, `HonestyObservations`, `Violations` | `record_trust_event` and its helpers |
| `SettledPublish`, `Contradict`, `Corroborate` | the callers in `api/publish.py` and `trust/corroboration.py` |
| `Plant` | `plant_canary` |
| `Judge`, `UseUp`, `Crash` | `judge_canary_response`, two commits |

Scores are exact integers: masses are multiples of 1/`Grain`, time passes in
periods of 60 days, so that decay (half-lives of 30 and 60 days) divides by a
power of two, rounding down to a unit. The test `mean - std < p/20` is squared,
which needs no root. The policy's thresholds are the code's defaults. Where a
row is missing the code starts from the prior, `provisional` and zero
violations, so the initial state has exactly these values. `joined_at` and
`state_changed_at` are left out: no decision reads them.

### Reputation

`Reputation` composes with `Trust`: `Village` is any step of it, and copies each
piece of evidence that is recorded into `history`, the table in its order of
storage. `report` is what `build_reputation_report` has read while the model is
awaited, `answers` what clients got, `feedback` and `scolds` what
`apply_sanction_effects` wrote out.

| action | code |
|---|---|
| `Village` | `record_trust_event` for any cause, and all else that `Trust` does |
| `AskReputation` | `_dispatch_reputation`, `build_reputation_report`: the newest citations; without any the template answers at once |
| `Word`, `WordFails` | `render_reputation_narrative`: the model's text passes with valid markers only, else the template |
| `Sanction` | `apply_sanction_effects`: score mirrored, scolding with the newest negative event |

A report is in flight for one client at a time: answers read nothing but their
own report. A model's text is the set of its markers, and 0 stands for all
invented ones.

### Reflection

| state | code |
|---|---|
| `events`, `reflections`, `traits` | the tables; events with the client's timestamp |
| `holder`, `waiters` | `_locks`, the asyncio lock of each subject with its queue |
| `task` | the background task of each publish: the legs left, where it is, the time it read, the trigger it saw |
| `clock` | the wall clock: each reading that is stored is a later instant |

| action | code |
|---|---|
| `Publish` | the event is stored and its task scheduled (`api/publish.py:348`) |
| `Enter`, `Resume`, `Look` | `maybe_run_reflection` up to the request: clock, lock, trigger, context |
| `Answer`, `Persist`, `Merge` | the answer down to COMMIT, `merge_traits` included |
| `Fail` | no prompt, a request that fails, an answer that does not parse, a transaction that rolls back: the next leg follows |
| `Break` | the trigger or the events cannot be read (`scheduler.py:178` and 194): nothing catches that, and the task ends with its lock released |
| `Leave` | the lock is released; asyncio hands it to the first in the queue, and takes the fast path only if nobody waits |
| `Pause`, `Crash` | time that makes an old reflection due; the process dies |

A task suspends only at a lock and at the model, so a step is the code between
two of these. Names are sequences of the parts between colons, because a pair
is stored as one string and split again. Prompts, summaries and confidence
values are left out; traits are sets of descriptors.

### Narrative and Answers

`stored` is the event table in the order of its timestamps; an event can be
inserted anywhere, since clients date them. `Evidence` is what `select_evidence`
reads: the newest events about the subject, the newest first. `query` has one row per
query with the local variables of `execute_query` and `render_narrative`.

| action | code |
|---|---|
| `Ask`, `ReadFails` | `execute_query`, cold start, `select_evidence`, and an error on the way |
| `Respond`, `Retry` | one answer of the model, `validate_citations`, the retry loop |
| `ProviderFails` | the request raises: the fallback |
| `Judge` | `validate_citations_with_judge`, marker by marker |
| `Deliver`, `Fallback`, `Citations` | the reply, `_build_citations` by short id |
| `Publish`, `Reflect` | what happens to the tables meanwhile |

A text is the set of short ids it cites. `Answers` knows neither attempts nor
judges: a question is answered once, with an excuse, or from events about its
subject that were on record when it was asked.

### Tasks

| state | code |
|---|---|
| `request` | the coroutine of `execute`, and of the query task inside it |
| `stream` | the events enqueued for a client |
| `inFlight` | `_in_flight` |
| `cancels` | calls of `cancel`: asked for, and emitted |

| action | code |
|---|---|
| `Receive`, `Intent` | `execute`: no message, intent from metadata, heuristic |
| `StartQuery`, `DispatchQuery`, `DispatchPublish`, `DispatchReputation` | the dispatchers up to their awaits, with every early return |
| `NarrateOn`, `ServeQuery` | a step of `Narrative` for a query that is alive; its answer goes out |
| `ServeReputation`, `Raise` | charge and report: an artifact and completed, or an exception that leaves `execute` |
| `Grow` | events and reflections are stored meanwhile |
| `Emit` | one event of the list a handler still has to emit (`task_emitter.py`) |
| `Cancel`, `EmitCanceled` | `cancel`: kill what is in flight, then its event |
| `Kill`, `Return` | `CancelledError` at an await, and the `finally` that unregisters |

`Tasks` is a composition: a cancelled query takes no further step of
`Narrative`, so whatever holds there of finished questions holds of the answers
that go out, and the liveness of a request includes that of its question. The
SDK's task store is external: it lets a cancel through for a task it has stored.
A message may go on with a task stored before, so a cancel may come as soon as
the message has been received, before the query's first turn. The store would drop
events after a terminal one; the properties are about what this code enqueues.

### PublishGate

| state | code |
|---|---|
| `identities` | `agent_identities`, at most one row per name and per DID |
| `events`, `semantic` | stored events in order; `entities_semantic` (count, first and last mention) |
| `Seen` (a constant) | the names that publishes may mention as observed |
| `required` | `OLDMAN_REQUIRE_SIGNATURE`, read again at a restart |

| action or operator | code |
|---|---|
| `Blocklisted`, `Verified`, `Bound`, `Bindable`, `Passes` | the gates of `execute_publish`, in its order |
| `Bind` | `upsert_agent_identity`, a commit of its own |
| `Recent`, `Similar`, `NearDuplicate`, `ExactDuplicate` | `storage/dedup.py`, `fetch_recent_payloads_by_agent` |
| `Refuse` | a gate raises: no trace |
| `RollBack` | duplicate, or a failing statement: the binding stays, nothing else |
| `Store` | event, mentions, commit |

A signature is the triple it was made from; verifying compares it. That is the
oracle cryptography is taken for. That a binding may join a transaction left on
the connection is in `DbSession`. The Jaccard index is compared as a fraction
`Num/Den`. `apply_traits` may also insert an `entities_semantic` row, with count
1 (`traits_compile.py:78`); it belongs to `Reflection`, which does not count
mentions, so `CountsExplained` is about publishes only.

### Migrations

A schema is `tables`, `parts` (columns and indexes), the recorded `versions`,
and the rows of the credit log. `Files` are the nine SQL files as sequences of
the DDL they consist of; `Runs` and `After` say when DuckDB raises on a
statement and what it changes (external). `disk` is the committed database,
`working` the transaction of the runner. `Start`, `Begin`, `Execute`, `Commit`,
`Ready` and `Raise` are `apply_migrations`, statement by statement; `Serve` logs
a row, `Upgrade` installs a later release, `Crash` kills the process anywhere.
CHECK lists of reasons are left out.

### DbSession

| state | code |
|---|---|
| `conn` | the connection: idle, in an open transaction, or in one that DuckDB has aborted (external) |
| `staged`, `durable` | what is written in the open transaction, and what is committed |
| `now`, `turn`, `at` | the request being handled, the units it has left, and where its transaction is |
| `done`, `answered`, `served` | what it has written so far; what answered requests have written; requests handled |

A handler is a series of units: reads, gates (reads after which a publish may
be refused), single statements (`bind`, `claim`, `revoke`, `mark`) and
transactions. Of the transactions only `invoice` and `invalidate` have no
rollback (`executor.py:469-477` and 507-509). An `effort` is one whose failure its
handler ignores.

| action | code |
|---|---|
| `Take` | the event loop takes up a request when the last handler has suspended |
| `Read`, `Refuse` | a read; a gate refuses with the ordinary answer (another DID, a near duplicate), in whatever transaction the connection is |
| `Statement` | a statement outside a transaction: it commits by itself, or joins the transaction it finds |
| `Open`, `Insert`, `Close` | BEGIN, a write, COMMIT |
| `RefuseInside` | an exact duplicate or an empty treasury inside a publish: rollback and the ordinary answer |
| `Reject` | the buyer cannot pay: rollback, then `invalidate` |
| `UnitRaises` | any statement raises, on any connection: BEGIN always does in an open transaction, everything in an aborted one |
| `Prepare`, `ServeEarlier`, `Stop` | the migrations, earlier releases, the end of the process |

A transaction that rolls back does so also when it was its BEGIN that raised on
somebody else's transaction, because the BEGIN is inside the `try`
(`publish.py:250-329`, `service.py:126-202`, `payout.py:106-160`) or the caller
rolls back (a reflection: `scheduler.py:248-266`). It then discards what is there,
its own or not. Two writes stand for several. Handlers do not interleave here:
the units between two awaits meet the connection in sequence, and what a handler
finds does not depend on who left it. The operator functions without a route are
handlers like the others; adjudicators on threads of their own are in `Market`.
The module continues `Migrations`: no handler runs before the migrations are
through, a process that stops loses the open transaction and runs them again,
and a transaction that moves credits adds a row to the log that they rebuild.

## 3. Runs

| run | question | instance | states |
|---|---|---|---|
| `ledger` | do the books stay sound under any calls? | 3 accounts, amounts 1 and 3, grant 2, 7 transactions | 37 302 |
| `shared_event` | two queries, one event, disputes, a crash, settings that change | 1 event, 2 queries, 3 settings, 2 days | 670 660 |
| `batch` | one query cites two events, two adjudicators decide one claim; does every charged query end? | 2 events, 1 query, 1 claim, 2 threads, 2 days, 1 dispute, 1 crash, fair | 581 646 |
| `trust` | do count, state and score follow the evidence? | 1 agent, 2 canaries, 8 pieces of evidence, 2 periods, 1 crash | 154 026 |
| `reputation` | are reports and sanctions grounded? | 1 agent, 1 canary, 4 pieces of evidence, 2 citations, 2 feedbacks | 1 428 986 |
| `reflection` | do locks exclude, is no trait lost, does every task end? | an agent that observes another, 2 words, 2 publishes, threshold 2, early and future dates, 1 pause, 1 crash, fair | 486 498 |
| `queries` | are answers judged, bounded and as promised, does every stream end well? | 1 request of any kind, 2 cancels, 3 events, two of one short id, 2 retries, fair | 401 270 |
| `gate` | do names keep their DIDs, are counts true, how far apart are near duplicates? | 2 names, 2 DIDs, 3 payloads, 4 signatures, window 1, 3 events, 2 dates | 33 506 |
| `database` | is the schema whole, is no row lost, is nothing committed by halves? | releases 1, 2, 5, 9, 2 rows, 2 requests, 2 crashes, 2 failures, fair | 238 198 |
| `unaudited_member` | is every member audited? (no) | as `trust` | |
| `reflection_recount` | is an event counted once? (no) | 1 agent, 4 publishes, threshold 2 | |
| `lost_binding` | does a valid signature's binding stand? (no) | release 9, 3 requests, 1 failure | |

What they show:

- `ledger`: `BalancesExplained` is stronger than the repository's own audit, and
  is what `002_payments.sql:9` ("cached projection of credits_transactions")
  says: two balances that are wrong by opposite amounts pass the audit and fail
  it. `OneGrantPerAccount` is the promise of `_ensure_balance`.
- `shared_event`: `EventsPaidOnce`, `EscrowMatchesRoyalty`,
  `InvoiceMatchesPayment` and `EvidenceOfSettledPurchase` each relate a table to
  the ledger's log, so that a payment kept after a rollback, a double payment
  and a status without its payment all break one of them.
- `batch`: `CreditsConserved` (the audit over the whole market),
  `EarningsCapped`, `DisputedNotOpen` and `RoyaltyInTime` over a royalty
  transaction of two citations, of which the second may be unaffordable,
  expired, paid or disputed. `RefundsMatchClaims` counts the payout rows against
  the approved claims, while threads hold a status they read before the
  transaction; `DecisionsAreFinal` says that final statuses survive everything,
  crashes included; `QueriesEnd` that no commit of the charge is followed by
  silence.
- `MarketSettlesDeals`, in both of these runs: every step of the market is a
  step of `Settlement` or leaves every deal as it was. It says in one formula
  that the transactions are atomic, whatever interrupts them.
- `trust`: `ViolationsExclude` and `ScoresExplained` tie the registry and the
  scores to the recorded events, evidence dated out of order included, and say
  when an agent is excluded; `ExclusionStands` that it stays so;
  `HonestNeverSanctioned` says that the numeric thresholds never punish an agent
  without violations, through all rounding and decay; `CanarySignalKept` is the
  promise behind the order of the two commits.
- `reputation`: `OneSnapshot` compares verdict, violations and markers of each
  answer with the evidence on record at the instant its report was read;
  `ScoldsCite` says that a state decided from scores always has an offence to
  cite.
- `reflection`: `OneReflectionAtATime` for the locks; `StoredInOrder` relates the
  timestamps of stored reflections to their order, though the clock is read
  before the lock is waited for; `TraitsExplained` compares the traits of each
  agent with the words of all stored reflections that concern it: an agent's row
  is written under its own lock and under that of a pair, in different words, so
  a merge that overwrites or loses the words of another subject breaks it, and so
  does half a transaction; `TasksEnd` is the absence of forgotten locks.
- `queries`: `StrictAnswersJudged` with two events behind one short id;
  `RetriesCounted`; `PromiseKept`, the refinement of `Answers`;
  `TerminalEventStands` orders the events of a stream around cancels;
  `RequestsEnd` allows no request without a terminal event but one whose
  exception the SDK gets, however often the model's text is rejected.
- `gate`: `SignedRowsBound` and `BindingsStand` across refusals, rollbacks and
  restarts; `CountsExplained` compares counters with stored rows;
  `NearDuplicatesApart` says what the scan does guarantee with clients' times.
- `database`: `WholeMigrations` compares the committed schema with a clean run of
  the recorded versions; `LogKept` and `UpgradesEnd` are about the two rebuilds
  of the credit log, of which 009 repairs what 006 and 008 forgot (the indexes);
  `WholeUnits` says that a commit holds the writes of the running unit, all of them
  and nothing that an earlier handler left behind; `PromisesKept` that a request
  which got a transaction through and was answered has everything committed,
  its statements outside transactions included, whatever they found. A request
  that was answered without any transaction of its own has no such guarantee:
  that is `lost_binding`.

Every property has a mutant in `PROJECT.json`: a plausible bug in the modelled
code, stated as an operator next to the definition it would replace, under
which TLC finds the property violated. The type invariants of `Ledger`, `Market`
and `PublishGate` are proved, so no run repeats them.

Bounds, and why they are enough. In `shared_event` the grant is 3, the reward 3,
the price 2 and the fee 20 percent, so the listing fee is 1 and the escrow 2: a
buyer can pay once without selling, and oldman can buy one event in full. In
`batch` the reward is 5 and the fee 10 percent, half a credit: a tie, rounded to
zero and raised to one credit, with an escrow of 4. The price of 4 is more than
the grant of 3: a buyer that has sold nothing is refused, a pool without a fee
cannot refund and one with a fee can, and a treasury that bought two events has
enough for one royalty and not for both. Interference needs two queries on one
event (`shared_event`) or one query on two events (`batch`). `MaxClock` 1 with
`Horizon` 0 is enough for an escrow to be in time, to expire while the model is
asked, and to be born expired (the client dates its publish). `MaxDisputes` and
`MaxCrashes` are 1: one crash reaches every gap between two commits, and a
restart with changed settings. In `trust`, six publishes make a member and four
violations exclude, so eight pieces of evidence hold every transition,
readmission after a sanction included; one agent is enough because agents share
nothing but the canaries, and `Grain` 8 keeps all quotients of a piece of
evidence by 2, 4 and 8 exact.
In `reflection` two
publishes of an agent that observes another give two tasks that meet at four
locks and merge into one row from two of them, with one word about an agent and
another about a pair. The threshold of 2 lets a first
reflection come from the count, the pause of `AgeThreshold` and an event that its
client dates in the future let a second come from the age. `reflection_recount`
has four publishes, because the recount needs two events per reflection. A query
depends on others only through stored events, so `queries` has one request,
which meets every message and two cancels, and lets events arrive in between;
three events are enough for a collision of short ids, a subject and a foreign
event, of which two are stored. `gate` needs two names and two DIDs for every
wrong pairing, and a window of one with three events, so that an event falls out
of it; only `bob` is mentioned as observed, so `ann` is known by what it publishes
and `bob` by both.
In `database` the releases are those that end with the schema before, between and
after the two rebuilds, two crashes allow one during the recovery from the
other, one request leaves the connection behind and a second meets it;
`lost_binding` needs a third, which rolls back. In
`reputation` four pieces of evidence exceed the two citations and exclude an
agent. Deadlock is not checked: the number of requests is bounded, and a service
without requests is idle. `Alike` makes queries, claims and adjudicators, or
canaries, symmetric in the safety runs `shared_event` and `trust`; runs with liveness use
no symmetry.

## 4. Fairness

`FairSpec` has weak fairness on `QueryStep(q)` for every query and on
`PublishStep(e)`. The first is the event loop, which runs every ready task, and
the clients' timeouts (`timeout=60.0` in `llm/providers/openrouter.py:85` and
`anthropic.py:95`) with at most two retries in the renderer: a call returns or
raises. The second is straight-line code after a commit. There is no fairness
on requests, cancels, operators, crashes or the clock. Weak fairness suffices
because a task that waits with `loop` idle stays enabled until another task
holds the loop, and each of those leaves it again after a bounded number of
steps.

`Reflection` has weak fairness on the steps of each task, `Tasks` on the steps
of each request, the steps of `Narrative` for it included: the same event loop
and the same timeouts. (`Narrative` alone has it on the progress of each query.) A task that waits at a lock is resumed only when it
is the first in the queue, so its step need not stay enabled for it to be
served: the queue is first come, first served, and each holder leaves.
`Migrations`, and `DbSession` with it, has weak fairness on `Migrate`: a process that is down is started
again by its operator, and a start runs on. Failures, crashes, publishes,
cancels and restarts of settings are never fair; a fair step of a task may be a
failure, which ends it as well.

## 5. Proofs

Every theorem holds for all values of the constants that satisfy
`LedgerAssumption`, `RequestsAssumption`, `MarketAssumption`, `TrustAssumption`,
`ReflectionAssumption`, `AnswersAssumption`, `NarrativeAssumption`,
`TasksAssumption`, `MigrationsAssumption` and the assumptions of `PublishGate`
and `Reputation`: accounts are not NULL, nor is a question, the grant, the
reward and the price are positive (the CHECK constraints of the schema),
percentages are percentages, `oldman`, the pool and the clients are accounts,
half a piece of evidence is a whole number of grains, and a release has one to
nine migration files. No set is assumed finite. Every safety invariant, every
action property and both refinements that a run checks are also theorems; TLC
shows each on a small instance, with a mutant that breaks it.

| theorem | establishes |
|---|---|
| `TransferSound` (`CreditsLedgerProofs`) | an affordable transfer of a positive amount keeps *sound books* sound |
| `LedgerConserves`, `GrantsOnce`, `LedgerTyped` (`LedgerProofs`) | the ledger alone: `Conserved` (the audit) and `BalancesExplained`, `OneGrantPerAccount`, `TypeOK` |
| `MarketTyped`, `MarketConserves` (`MarketProofs`) | the whole market: `TypeOK`, `CreditsConserved` |
| `DecisionsStand`, `DisputesStayClosed`, `RoyaltiesInTime` (`MarketProofs`) | `DecisionsAreFinal`, `DisputedNotOpen`, `RoyaltyInTime` |
| `EarningsAreCapped`, `MarketSettlesAll` (`MarketProofs`) | `EarningsCapped`, and the refinement `MarketSettlesDeals` |
| `PurchasesRecorded`, `RoyaltiesRecorded`, `ChargesRecorded`, `RefundsRecorded`, `EvidenceIsSettled` (`MarketProofs`) | row by row: `EventsPaidOnce`, `EscrowMatchesRoyalty`, `InvoiceMatchesPayment`, `RefundsMatchClaims`, `EvidenceOfSettledPurchase` |
| `ViolationsCounted`, `ExclusionIsFinal`, `SignalKept`, `ScoresRecorded`, `HonestUnsanctioned` (`TrustProofs`) | `ViolationsExclude`, `ExclusionStands`, `CanarySignalKept`, `ScoresExplained`, `HonestNeverSanctioned` |
| `AnswersAreSnapshots`, `ScoldingsCite` (`TrustProofs`) | of `Reputation`, whose steps include those of `Trust`: `OneSnapshot`, `ScoldsCite` |
| `LocksExclude`, `TraitsTold`, `ReadingsStoredInOrder` (`ReflectionProofs`) | `OneReflectionAtATime`, `TraitsExplained`, `StoredInOrder` |
| `JudgedBeforeCited`, `RetriesBounded`, `TasksNarrate` (`NarrativeProofs`) | `StrictAnswersJudged` and `RetriesCounted`, of `Narrative` and of `Tasks` |
| `ResultsStand`, `AnswersPromised` (`NarrativeProofs`) | of `Tasks`: `TerminalEventStands`, and the refinement `PromiseKept` |
| `GateTyped`, `BindingIsFinal`, `SellersKnown`, `MentionsCounted`, `NearDuplicatesRefused` (`PublishGateProofs`) | `TypeOK`, `BindingsStand`, `SignedRowsBound`, `CountsExplained`, `NearDuplicatesApart` |
| `UnitsAreWhole`, `PromisesAreKept` (`DbSessionProofs`) | `WholeUnits`, `PromisesKept` |
| `RowsKept`, `SchemasAreWhole` (`DbSessionProofs`) | of the migrations under the session: `LogKept`, `WholeMigrations` |

The argument. `SoundBooks` (in `CreditsLedgerProofs`) is the inductive core: a
well-formed finite log, balances in Nat, conserved, explained, granted once.
`Balanced` alone is not inductive, since nothing would bound a balance from
below or make the sums finite. `TransferSound` splits a transfer into at most
two grants and a debit and credit, and shows that each changes both sums by the
same amount.

For `Market` the invariant `IInv` is the conjunction of `Typed`,
`SessionTyped`, `LoopHeld`, `Linked` and `BooksSound`. Conservation of the
committed books is not inductive alone, because `CommitRelease` replaces them
by the working copy of the transaction: `BooksSound` therefore speaks about
`session.books` as well, while a query releases. That needs `LoopHeld` (only
the query that holds the loop can be between two commits, so no other task
opens a transaction under the open one). Each transfer in it needs a positive
amount and real accounts, which is `Linked`: an escrow is open only for a
stored event and only if the escrowed amount is positive; a query with an
unsettled invoice has a querier; a claim that is not "none" has a claimant, and
an adjudicator only holds such a claim. `IInv` was model-checked before it was proved.

What is decided stays decided by a second invariant, `DInv`. The rows that
`CommitRelease` writes are old: they were computed when the transaction began.
`SessionAgrees` says that the working copy differs from the table only where it
decided an open escrow, in time, and `ReleasingFreezes` that nobody changes the
table, and no day passes, before the commit. `RowsFollow` (a new query has no
invoice, an unpublished event no escrow) excludes a first row over a decided
one; `DisputesClosed` covers the gap between the revocation and its record.

The refinement needs a third, `VInv`: in the committed books and in the working
copy, what the log says an event earned is a function of its escrow's status
(`Worth`), and what a query cost one of its invoice's (`Charged`). `TransferGains`
follows one payment through both sums, the lazy grants included. Then earnings
are capped by the shape of `Worth`, and a step refines `Settlement` by what it
does to three tables: `PublishDeal`, `InvoiceDeal`, `CommitDeal` and
`RevokeDeal` name the deal, and all other steps are invisible (`OtherDeal`).

The log row by row is a fourth, `LInv`: sums say nothing about *which* row pays
for what. `Recorded` relates the log to each event, escrow, invoice and claim
(exactly one row of that kind, or none), for the committed books and, while a
query releases, for the log of its transaction against *its* escrows.
`TransferWrites` says that a transfer adds one row and, besides, only grants;
`WrittenElsewhere` that such a row leaves alone all it does not name, and
`WrittenFirst` that the first row of its kind is a single one. So each payment
needs only what makes its row the first: an event not yet stored, an escrow
still open, an invoice still pending, a claim not yet decided. `Justified` ties
a royalty to a settled invoice, `Evidenced` the evidence to a stored purchase.

For `Trust` the invariant says nothing of the scores: `TransitionExcludes` shows
that a transition leads to exclusion exactly from four violations or from
exclusion, whatever the score. With the count tied to the table of events
(`PostCounts`, `PostSkips`), exclusion is final because the
count never falls; `ExcludedAtFour` carries that from one step to the next.

`CanaryInv` counts the verdicts on a canary: one if it is used up or being
judged, and one more for each crash, because only a crash parts the verdict from
the mark that uses the canary up. `ScoreInv` is what the scores do promise.
Decay divides by a power of two, about which the provers know nothing;
`PowerPositive` finds that it is positive by counting the subsets of a finite
set, and then rounding down never adds (`DivisionLowers`). Hence masses stay
below the evidence on record, an agent without violations has no loss, and
without loss the lower bound of a score is above both bars (`NoLossNotLow`, the
inequality of `BetaScore.lower_bound` squared and multiplied out). `OneSnapshot` and
`ScoldsCite` rest on `RepInv`: a report is what the first rows of the history
say (`SnapshotAt`), which no later row can change (`SnapshotsStand`), and
whoever is sanctioned has a violation to cite.

For `Reflection` the invariant `LockInv` says that whoever asks the model holds
the lock of the head of its legs; mutual exclusion follows because a lock has
one holder. It needs the shape of the tasks (legs are sequences of known
subjects, and not empty before the end), or the head would mean nothing. A
crash empties both sides. `TraitsTold` needs no locks: the reflection and the
traits it changes are one transaction on what is stored at that moment, so the
union over all stored reflections is kept by `Persist`, and nothing else writes
either table.

`StoredInOrder` needs the locks in full, because a task reads the clock before it
waits. `OrderInv` says that the queue of a lock is sorted by those readings
(`InLine`), that who asks the model read before all who wait (`ReadInTurn`), and
that what is stored was read before any of them (`StoredFirst`). It holds only
because the lock is first come, first served.

For `Narrative`, `QueryInv` adds to the two properties what they forget about
the middle: a query that is asking or judging has been asked at least once, the
count never passes the bound, and the row has all its fields. The heart is
`JudgeKeeps`: the citation of a marker is the first event of that short id, and
so is the one the judge saw, so colliding ids cannot cite an event unjudged.
`TasksNarrate` carries both to the executor: `ExecutorStep` shows that every
step of `Tasks`, a cancel included, is a step of `Narrative` or leaves it alone.
For the refinement of `Answers`, `PromiseInv` adds that a question being judged
has markers of its evidence only. Two facts about data carry it: the n-th newest
event exists (`Ranked`, by the pigeonhole principle, since induction over the
evidence is out of reach), so evidence is about the subject (`EvidenceAbout`);
and a marker of the evidence stands for one of its events (`CitedFromEvidence`).
`TaskInv` relates a stream to the request it belongs to: while one is under way
no result is on it, and a query that was cancelled under way has its
CancelledError coming (`killed`), so it emits nothing more.

For `PublishGate`, `BindingIsFinal` and `SellersKnown` rest on `Bindable`: a
binding is made only for an unbound name and a DID that nobody has, so it
neither replaces one nor makes two, and a stored DID stays the one of its name.
`MentionsCounted` follows the positions of the events that mention an agent:
storing one adds its position to exactly the counts that `Mention` raises.
`NearDuplicatesRefused` needs nothing of the past: an event that the window did
not reach has at least `Window` events of its agent before it in the order of
dates (`ScanReaches`), and later events cannot change what was stored before one
(`EarlierStand`).

For `DbSession`, `UnitInv` says that a unit inside its transaction has staged its
own writes so far and nothing else is staged with them: BEGIN raises on what an
earlier handler left, so a unit gets to its first write on an idle connection only.
`WholeUnits` follows, because a COMMIT is always a unit's own. `PromiseInv` says
where the writes of the request in hand are: durable, or else a transaction of it
is yet to come, nothing of it is committed, and the connection is not idle, so
that its BEGIN raises and the request is not answered. It lists the series of
units that may be left (`Turns`, with `Early` and `Waiting` for those before the
first transaction), since which handler meets such a connection is what decides. `LogInv` follows the rows through a rebuild by the kind of the
statement before: after a copy they are in both tables, after a discard only in
the new one, and the rename comes at once (`FilesOrderly` reads that off the nine
files). `SchemaInv` compares the open transaction with the clean run, statement
by statement, but for `_schema_version` and the rows. That recursive functions
such as the clean run exist at all is proved by the least number principle
(`RunExists`, `CleanExists`), as the library's induction cannot be applied.

Only model-checked: `QueriesEnd`, `TasksEnd`, `RequestsEnd` and `UpgradesEnd`,
which are liveness properties under fairness and, like ENABLED, out of the
prover's reach; and that each property can fail, by its mutant. The three runs
that expect a violation state what the code does not do, so there is nothing to
prove. There are no RECURSIVE operators in this project.

## 6. Where the code and its documentation disagree

With a run that shows it:

- **A failed audit opens the members' gate** (run `unaudited_member`).
  `trust/membership.py:84` says that there is no member without a passed audit.
  The gate reads `observations`, the mass of evidence of either sign, and a
  failure weighs four times a success: after one failed canary and six settled
  publishes an agent is a member.
- **An event can be counted for two reflections** (run `reflection_recount`).
  `reflection/scheduler.py:59-60` says that of publishes that trigger at the same
  time for one key not both are to make a reflection "(데모 스케일에서는 중복 허용이나,
  lock으로 줄임)": at demo scale duplicates are allowed, but the lock reduces them.
  The clock is read at line 174, before the lock is waited for at line 176, and
  that reading becomes the timestamp of the reflection: events stored and counted
  while it waited are dated after it and count again. So this is a duplicate the
  comment tolerates, and one the lock is there to prevent and does not. (Events
  that arrive while the model is asked are newer than the reflection and count
  for the next one, unless their client dated them before it: those count for
  none, which no comment forbids and no property here.)
- **A binding can be lost** (run `lost_binding`). `api/publish.py:217-220` says
  that the binding of a valid signature stands whatever the duplicate scan finds.
  After an exception between BEGIN and COMMIT of an invoice the connection is left
  in a transaction; the binding joins it, the near duplicate is refused with its
  ordinary answer before any BEGIN (line 240), and the ROLLBACK of a later handler
  discards the binding.

Met while modelling, each visible in the module named, without a run of its own:

- Pending invoices never expire (`Market`). `README.md:246` says that a
  background sweep expires them; nothing calls `mark_expired_invoices`
  (`storage/invoices.py:71`).
- The refund goes to the claimant (`Market`, `PayoutTx`). The docstring at
  `trust/refund_pool.py:116` has the buyer refunded; nothing compares the
  claimant with the payer of the invoice.
- A canary can be judged twice (`Trust`, `Judge` and `UseUp`).
  `trust/canary.py:7` says single use; a crash between the two commits leaves it
  unused. (The order is deliberate: `CanarySignalKept` holds.)
- Events of pairs are not counted for an observer with a colon in its name
  (`Reflection`, `Concerns`). `reflection/state.py:25` promises the number of
  events of the subject; pairs are split at the first colon (`state.py:92`,
  `scheduler.py:118`, `scheduler.py:317`).
- `max_citations` of a query bounds nothing (`Narrative`, `Citations`).
  `api/schemas.py:107` declares it, `executor.py:282` reads it from the client,
  and `execute_query` never passes it on.
- A task may start with a failure (`Tasks`, `Receive`). `task_emitter.py:38`
  requires a Task first; `execute` emits `failed` first when a request has no
  message or an unknown intent (`executor.py:100` and 123).
- Cancel does not stop a reputation task (`Tasks`, `Cancel`). `ARCHITECTURE.md:80`
  has it cancel the asyncio task; only queries are in `_in_flight`.
- The near-duplicate window follows the client's time (`PublishGate`, `Recent`).
  `README.md:237` has the latest events of the source compared;
  `storage/events.py:68` orders by `ts`.
- The connection may be left in a transaction (`DbSession`, `UnitRaises`). The
  comment at `executor.py:499` says why a rollback must come first; the
  transactions of the invoice (469-477) and of its invalidation (507-509) have
  none. The next transaction that rolls back clears the connection, at the price
  of its own request and of what joined in between (`lost_binding` above).
- A report may cite no violation it counts (`Reputation`, `Newest`).
  `trust/report.py:4-5` has every claim cited; the newest events of any sign are.

## 7. What is not modelled

- **The HTTP providers** (`llm/`). A call is an await that returns or raises;
  that is what `Market`, `Narrative`, `Reputation` and `Reflection` have in its
  place. The providers keep no state between calls.
- **Prompts, wording and scores of texts.** A text is the set of its markers, a
  reflection the set of its descriptors; evidence is the newest events about the
  subject, and the reflections that are put into a prompt are left out.
- **Cryptography and the ERC-8004 identity registry.** A signature is the triple
  it was made from. The registry is used by a demo and a script only; the
  reputation registry that sanctions write to is in `Reputation`.
- **Web wiring**: routes, agent card, bootstrap and configuration beyond the
  settings named above. The read-only admin views appear in `DbSession` as
  readers of the connection.
- **`trust/probe.py`** (a pure function that nothing in the service calls), and
  the demos, simulations, evaluations and research notes (`scripts/`, `eval/`,
  `spikes/`, `docs/`), which drive the service from outside.
- **`mark_expired_invoices`** is modelled by its absence.
- **32-bit columns.** Credits are unbounded naturals; the totals of a village stay
  far below 2^31, and an overflow would raise and roll back like the other failures.

## 8. Plan

Done: every component of the inventory that keeps state, and a theorem for every
safety property that a run checks. What a careful reader may want next:

| next | what it adds |
|---|---|
| `Market` with `DbSession` | the statements of a charge on the connection that a failed one left open: what a lost invoice does to the books |
| lemmas for liveness | the safety part of `QueriesEnd` and `TasksEnd`: a measure that every step of a task lowers |
| `Reputation` | that an answer is of a moment between its question and its delivery, for any number of reports at once |

Composition, as it stands: all modules that move money share `CreditsLedger`;
`Market` composes the components that commit to the ledger and implements
`Settlement`. `Reputation` composes with `Trust`, `Tasks` with `Narrative` (which
implements `Answers`), `DbSession` with `Migrations`. `Market` counts evidence per
event where `Trust` judges it per agent, and takes from `Narrative` only that
citations are events stored before the model was asked.
