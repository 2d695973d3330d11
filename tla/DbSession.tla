------------------------------ MODULE DbSession ------------------------------
(***************************************************************************)
(* The one connection to DuckDB that every handler shares, from the end of *)
(* the migrations to the end of the process.                               *)
(*                                                                         *)
(* A handler runs a series of units on it without awaiting: reads,         *)
(* statements that commit by themselves, and transactions of several       *)
(* statements.  Any statement may raise.  Most transactions then roll      *)
(* back, and do so when it was their BEGIN that raised on a transaction    *)
(* that was there before; the one that issues an invoice and the one that  *)
(* invalidates it do not, and leave theirs on the connection, open or      *)
(* aborted by DuckDB, where the units of later handlers meet it.           *)
(***************************************************************************)
EXTENDS Migrations

CONSTANT Requests   \* requests and background tasks, each handled once

VARIABLES
  conn,      \* "idle", "open" (in a transaction) or "aborted"
  staged,    \* writes in the open transaction
  durable,   \* writes committed
  now,       \* the request that is being handled, or the last one
  turn,      \* the units it has left
  at,        \* 0, or the write its transaction does next; COMMIT is after the last
  done,      \* what its units have written, as far as it knows
  answered,  \* what requests have written that ended with an ordinary answer
  served     \* requests handled

database == vars
session  == <<conn, staged, durable, now, turn, at, done, answered, served>>

----------------------------------------------------------------------------
(* Units, and handlers as series of them.  A gate is a read after which a  *)
(* publish may be refused; an effort is a transaction whose failure its    *)
(* handler ignores.                                                        *)

Statements   == {"bind", "claim", "revoke", "mark"}
Transactions == {"publish", "guarded", "effort", "settle", "invoice", "invalidate"}

\* The transactions whose BEGIN is inside the try that rolls back.
RollsBack == Transactions \ {"invoice", "invalidate"}

\* Two writes stand for several.
Size(kind) ==
  IF kind \in RollsBack THEN 2 ELSE IF kind \in Statements \cup Transactions THEN 1 ELSE 0

Publish       == <<"gate", "publish", "effort">>
SignedPublish == <<"gate", "bind", "gate", "publish", "effort">>
Charge        == <<"invoice", "settle", "effort">>
Royalties     == <<"effort">>
Reflect       == <<"effort", "read">>
Audit         == <<"read", "guarded", "mark">>
Claim         == <<"read", "claim">>
Contradict    == <<"read", "revoke", "guarded">>
Adjudicate    == <<"read", "guarded">>
View          == <<"read">>

Handlers == {Publish, SignedPublish, Charge, Royalties, Reflect, Audit, Claim,
             Contradict, Adjudicate, View}

\* The writes of the unit that is next.
Write(part) == <<now, Head(turn), part>>
Unit        == {Write(part) : part \in 1..Size(Head(turn))}

Due(kinds) == turn # <<>> /\ Head(turn) \in kinds

SInit ==
  /\ Init
  /\ conn = "idle" /\ staged = {} /\ durable = {}
  /\ now \in Requests /\ turn = <<>> /\ at = 0 /\ done = {}
  /\ answered = {} /\ served = {}

\* The event loop takes up a request when the last handler has suspended.
Take(request) ==
  /\ pc = "up" /\ release = Len(Files)
  /\ turn = <<>> /\ request \notin served
  /\ now' = request /\ served' = served \cup {request}
  /\ turn' \in Handlers /\ done' = {}
  /\ UNCHANGED <<conn, staged, durable, at, answered, database>>

\* A unit ends well; after the last one the request has its answer.
GoOn(written) ==
  /\ turn' = Tail(turn) /\ at' = 0
  /\ done' = done \cup written
  /\ answered' = IF Tail(turn) = <<>> THEN answered \cup done' ELSE answered
  /\ UNCHANGED <<now, served>>

\* The handler ends early with an ordinary answer.
Answer ==
  /\ turn' = <<>> /\ at' = 0
  /\ answered' = answered \cup done
  /\ UNCHANGED <<now, done, served>>

\* Mutant: the handler goes on after any unit that raised.
RaiseOnSwallowed == GoOn({})

\* A unit raises: the rest of the handler is skipped, unless nobody minds.
RaiseOn ==
  IF Head(turn) = "effort" THEN GoOn({})
  ELSE turn' = <<>> /\ at' = 0 /\ UNCHANGED <<now, done, answered, served>>

Read ==
  /\ Due({"read", "gate"}) /\ conn # "aborted"
  /\ GoOn({})
  /\ UNCHANGED <<conn, staged, durable, database>>

\* Another DID is bound to the agent, or the payload is a near duplicate.
Refuse ==
  /\ Due({"gate"}) /\ conn # "aborted"
  /\ Answer
  /\ UNCHANGED <<conn, staged, durable, database>>

\* Outside a transaction a statement commits by itself; inside, it joins it.
Statement ==
  /\ Due(Statements) /\ conn # "aborted"
  /\ IF conn = "idle"
     THEN durable' = durable \cup Unit /\ UNCHANGED staged
     ELSE staged' = staged \cup Unit /\ UNCHANGED durable
  /\ GoOn(Unit)
  /\ UNCHANGED <<conn, database>>

\* Mutant: a unit runs in whatever transaction it finds.
OpenJoins ==
  /\ Due(Transactions) /\ at = 0 /\ conn # "aborted"
  /\ conn' = "open" /\ at' = 1
  /\ UNCHANGED <<staged, durable, now, turn, done, answered, served, database>>

\* BEGIN raises in a transaction, so this is the unit's own.
Open ==
  /\ Due(Transactions) /\ at = 0 /\ conn = "idle"
  /\ conn' = "open" /\ at' = 1
  /\ UNCHANGED <<staged, durable, now, turn, done, answered, served, database>>

Insert ==
  /\ Due(Transactions) /\ at \in 1..Size(Head(turn))
  /\ staged' = staged \cup {Write(at)} /\ at' = at + 1
  /\ UNCHANGED <<conn, durable, now, turn, done, answered, served, database>>

\* COMMIT commits what is in the transaction; some transactions log credits.
Close ==
  /\ Due(Transactions) /\ at > Size(Head(turn))
  /\ durable' = durable \cup staged
  /\ conn' = "idle" /\ staged' = {}
  /\ GoOn(Unit)
  /\ UNCHANGED database \/ (Head(turn) \in RollsBack /\ Serve)

\* The transaction finds a stored twin of the event or an empty treasury: the
\* publish rolls back, and is refused.
RefuseInside ==
  /\ Due({"publish"}) /\ at \in 1..2
  /\ conn' = "idle" /\ staged' = {}
  /\ Answer
  /\ UNCHANGED <<durable, database>>

\* The querier cannot pay: rollback, then the invoice is invalidated.
Reject ==
  /\ Due({"settle"}) /\ at \in 1..2
  /\ conn' = "idle" /\ staged' = {}
  /\ turn' = <<"invalidate">> /\ at' = 0
  /\ UNCHANGED <<durable, now, done, answered, served, database>>

\* Nothing runs in an aborted transaction, and BEGIN in none at all.
Barred == conn = "aborted" \/ (conn = "open" /\ at = 0 /\ Head(turn) \in Transactions)

\* A statement raises.  A transaction that rolls back rolls back what is there,
\* its own or not, and a failed COMMIT is rolled back by DuckDB; after anything
\* else a transaction stays as it was, or aborted.
UnitRaises ==
  /\ turn # <<>>
  /\ \/ Barred /\ UNCHANGED failures
     \/ failures < MaxFailures /\ failures' = failures + 1
  /\ IF Head(turn) \in RollsBack \/ at > Size(Head(turn))
     THEN conn' = "idle" /\ staged' = {}
     ELSE \/ UNCHANGED <<conn, staged>>
          \/ conn = "open" /\ conn' = "aborted" /\ staged' = {}
  /\ RaiseOn
  /\ UNCHANGED <<durable, disk, working, pc, applied, todo, release, crashes>>

\* Before it serves, the process has the connection to itself.
Prepare == (Migrate \/ Raise) /\ UNCHANGED session

\* An earlier release logs a transaction of credits.
ServeEarlier == release < Len(Files) /\ Serve /\ UNCHANGED session

\* The process ends, with the handler it was in and the connection.
Stop ==
  /\ Upgrade \/ Crash
  /\ conn' = "idle" /\ staged' = {}
  /\ turn' = <<>> /\ at' = 0 /\ done' = {}
  /\ UNCHANGED <<durable, now, answered, served>>

Handle ==
  \/ Read \/ Refuse \/ Statement
  \/ Open \/ Insert \/ Close \/ RefuseInside \/ Reject
  \/ UnitRaises

SNext ==
  \/ \E request \in Requests : Take(request)
  \/ Handle \/ Prepare \/ ServeEarlier \/ Stop

\* A process that is down is started again, and a start runs to its end.
SSpec == SInit /\ [][SNext]_<<database, session>> /\ WF_vars(Migrate)

----------------------------------------------------------------------------
(* Properties.                                                             *)

\* publish.py:250-329, executor.py:468-516, service.py:126-201: whatever some
\* earlier handler left on the connection, a commit holds the writes of the unit
\* that is running, all of them and no others.
WholeUnits ==
  [][durable' = durable \/ (turn # <<>> /\ durable' = durable \cup Unit)]_session

Committed(request) == \E w \in durable : w[1] = request /\ w[2] \in Transactions

\* publish.py:217-225, corroboration.py:78-98, canary.py:144-163: when a request
\* got a transaction through and was answered, all it wrote is committed, also the
\* statements outside its transactions, which join what is left on the connection.
PromisesKept == \A w \in answered : Committed(w[1]) => w \in durable

\* publish.py:217-220: the binding of a valid signature stands whatever comes of
\* the publish (it does not: in a transaction that an invoice left open, it is
\* rolled back by a later handler).
BindingKept ==
  pc = "up" => \A w \in answered : w[2] = "bind" => w \in durable \cup staged
=============================================================================
