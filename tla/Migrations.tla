----------------------------- MODULE Migrations -----------------------------
(***************************************************************************)
(* The migration runner: at every start the process applies the numbered   *)
(* SQL files its _schema_version lacks, each in one transaction together   *)
(* with its version row, and only then serves.  Two of the files rebuild   *)
(* credits_transactions by copy, drop and rename.                          *)
(*                                                                         *)
(* The process may die between any two statements, a statement may raise,  *)
(* and a later release brings more files.                                  *)
(***************************************************************************)
EXTENDS Naturals, Sequences, SequencesExt, FiniteSetsExt

CONSTANTS
  NULL,          \* no transaction
  Releases,      \* how many migration files the releases in turn come with
  Rows,          \* transactions that may be logged, across all releases
  MaxCrashes,    \* bound: crashes
  MaxFailures    \* bound: statements that raise although they could run

ASSUME MigrationsAssumption ==
  Releases \subseteq 1..9 /\ MaxCrashes \in Nat /\ MaxFailures \in Nat

----------------------------------------------------------------------------
(* Statements: a table, what is done to it, and the object concerned.      *)

Ensure(t)       == [op |-> "ensure", table |-> t, object |-> t]
Make(t)         == [op |-> "make", table |-> t, object |-> t]
Index(i, t)     == [op |-> "index", table |-> t, object |-> i]
Column(c, t)    == [op |-> "column", table |-> t, object |-> c]
Copy(from, to)  == [op |-> "copy", table |-> to, object |-> from]
Discard(t)      == [op |-> "discard", table |-> t, object |-> t]
Rename(from, to) == [op |-> "rename", table |-> to, object |-> from]

Tx == "credits_transactions"
V2 == "credits_transactions_v2"
V3 == "credits_transactions_v3"

\* Mutant: the rows are not copied into the new table.
RebuildEmpty(new) == <<Make(new), Discard(Tx), Rename(new, Tx)>>

\* DuckDB cannot change a CHECK: a new table takes the rows and the name.
Rebuild(new) == <<Make(new), Copy(Tx, new), Discard(Tx), Rename(new, Tx)>>

InitialSchema ==
  <<Ensure("_schema_version"), Ensure("events"), Index("events_hash", "events"),
    Index("events_source_ts", "events"), Index("events_kind", "events"),
    Ensure("entities_semantic"), Ensure("entities_episodic"),
    Index("episodic_observed", "entities_episodic"),
    Index("episodic_observer", "entities_episodic"),
    Ensure("reflections"), Index("reflections_subject", "reflections")>>

Payments ==
  <<Ensure("credits_balances"), Ensure(Tx), Index("tx_ts", Tx), Index("tx_from", Tx),
    Index("tx_to", Tx), Column("credits_tx_id", "events"),
    Index("events_credits_tx", "events"), Ensure("invoices"),
    Index("invoices_expiry", "invoices")>>

TrustIdentity == <<Column("seller_did", "events"), Ensure("agent_identities")>>

TrustLedger == <<Ensure("village_registry"), Ensure("trust_ledger"),
                 Ensure("trust_events"), Index("trust_events_agent", "trust_events")>>

RoyaltyEscrow == <<Ensure("royalty_escrows"), Index("escrows_status", "royalty_escrows")>>

CreditsReasons == Rebuild(V2) \o <<Index("tx_ts", Tx)>>

CanaryPool == <<Ensure("canary_pool"), Index("canary_unused", "canary_pool")>>

RefundPool == <<Ensure("refund_claims"), Index("claims_status", "refund_claims")>>
                \o Rebuild(V3) \o <<Index("tx_ts", Tx)>>

\* Mutant: one of the two indexes the rebuild lost is not restored.
CreditsIndexesFromOnly == <<Index("tx_from", Tx)>>

CreditsIndexes == <<Index("tx_from", Tx), Index("tx_to", Tx)>>

Files == <<InitialSchema, Payments, TrustIdentity, TrustLedger, RoyaltyEscrow,
           CreditsReasons, CanaryPool, RefundPool, CreditsIndexes>>

----------------------------------------------------------------------------
(* A schema: its tables, the indexes and columns each has beyond the ones  *)
(* it was made with, the versions on record, the logged transactions.      *)

Fresh == [tables |-> {}, parts |-> {}, versions |-> {}, log |-> {}, copied |-> {}]

\* Whether a statement can run; the ones with IF NOT EXISTS on a table always can.
Runs(db, s) ==
  CASE s.op = "ensure"  -> TRUE
    [] s.op = "make"    -> s.table \notin db.tables
    [] s.op = "index"   -> s.table \in db.tables
    [] s.op = "column"  -> s.table \in db.tables /\ <<s.table, s.object>> \notin db.parts
    [] s.op = "copy"    -> {s.table, s.object} \subseteq db.tables
    [] s.op = "discard" -> s.table \in db.tables
    [] s.op = "rename"  -> s.object \in db.tables /\ s.table \notin db.tables

\* What it does.  Dropping a table drops its indexes and its rows.
After(db, s) ==
  CASE s.op \in {"ensure", "make"} -> [db EXCEPT !.tables = @ \cup {s.table}]
    [] s.op \in {"index", "column"} -> [db EXCEPT !.parts = @ \cup {<<s.table, s.object>>}]
    [] s.op = "copy"    -> [db EXCEPT !.copied = db.log]
    [] s.op = "discard" -> [db EXCEPT !.tables = @ \ {s.table}, !.log = {},
                                      !.parts = {p \in @ : p[1] # s.table}]
    [] s.op = "rename"  -> [db EXCEPT !.tables = (@ \ {s.object}) \cup {s.table},
                                      !.log = db.copied, !.copied = {}]

Recorded(db, version) == [db EXCEPT !.versions = @ \cup {version}]

----------------------------------------------------------------------------

VARIABLES
  disk,       \* what is committed
  working,    \* the open transaction's view, NULL outside one
  pc,         \* "down", "migrating" or "up"
  applied,    \* the versions read when the runner started
  todo,       \* statements left of the file that is being applied
  release,    \* migration files of the release that is installed
  crashes, failures

vars == <<disk, working, pc, applied, todo, release, crashes, failures>>

Init ==
  /\ disk = Fresh /\ working = NULL
  /\ pc = "down" /\ applied = {} /\ todo = <<>>
  /\ release \in Releases
  /\ crashes = 0 /\ failures = 0

\* _schema_version is ensured in a commit of its own, then read once.
Start ==
  /\ pc = "down"
  /\ pc' = "migrating"
  /\ disk' = After(disk, Ensure("_schema_version"))
  /\ applied' = disk.versions
  /\ UNCHANGED <<working, todo, release, crashes, failures>>

\* The file in turn: the loop goes through the discovered versions in order.
Pending == 1..release \ applied
Version == Min(Pending)

Begin ==
  /\ pc = "migrating" /\ working = NULL /\ Pending # {}
  /\ working' = disk
  /\ todo' = Files[Version]
  /\ UNCHANGED <<disk, pc, applied, release, crashes, failures>>

\* Mutant: every statement of a file commits by itself.
ExecuteAutocommit ==
  /\ working # NULL /\ todo # <<>>
  /\ Runs(working, Head(todo))
  /\ working' = After(working, Head(todo))
  /\ disk' = working'
  /\ todo' = Tail(todo)
  /\ UNCHANGED <<pc, applied, release, crashes, failures>>

Execute ==
  /\ working # NULL /\ todo # <<>>
  /\ Runs(working, Head(todo))
  /\ working' = After(working, Head(todo))
  /\ todo' = Tail(todo)
  /\ UNCHANGED <<disk, pc, applied, release, crashes, failures>>

\* The version row is inserted in the transaction of the file.
Commit ==
  /\ working # NULL /\ todo = <<>>
  /\ disk' = Recorded(working, Version)
  /\ applied' = applied \cup {Version}
  /\ working' = NULL
  /\ UNCHANGED <<pc, todo, release, crashes, failures>>

\* A statement raises: rollback, and the start of the process fails.
Raise ==
  /\ working # NULL
  /\ \/ todo # <<>> /\ ~Runs(working, Head(todo)) /\ UNCHANGED failures
     \/ failures < MaxFailures /\ failures' = failures + 1
  /\ working' = NULL /\ todo' = <<>> /\ pc' = "down" /\ applied' = {}
  /\ UNCHANGED <<disk, release, crashes>>

Ready ==
  /\ pc = "migrating" /\ working = NULL /\ Pending = {}
  /\ pc' = "up" /\ applied' = {}
  /\ UNCHANGED <<disk, working, todo, release, crashes, failures>>

\* The service logs a transaction of credits.
Serve ==
  /\ pc = "up" /\ release >= 2
  /\ \E row \in Rows \ disk.log : disk' = [disk EXCEPT !.log = @ \cup {row}]
  /\ UNCHANGED <<working, pc, applied, todo, release, crashes, failures>>

\* The process is stopped, and another release may be installed.
Upgrade ==
  /\ pc = "up"
  /\ pc' = "down"
  /\ release' \in {r \in Releases : r >= release}
  /\ UNCHANGED <<disk, working, applied, todo, crashes, failures>>

Crash ==
  /\ pc # "down" /\ crashes < MaxCrashes
  /\ crashes' = crashes + 1
  /\ working' = NULL /\ todo' = <<>> /\ pc' = "down" /\ applied' = {}
  /\ UNCHANGED <<disk, release, failures>>

Migrate == Start \/ Begin \/ Execute \/ Commit \/ Ready

Next == Migrate \/ Raise \/ Serve \/ Upgrade \/ Crash

\* A process that is down is started again, and a start runs to its end.
Spec == Init /\ [][Next]_vars /\ WF_vars(Migrate)

----------------------------------------------------------------------------
(* Properties.                                                             *)

\* What the first i statements make of a schema, and what the first n files make
\* of an empty database.
RunOf(db, statements) ==
  LET run[i \in 0 .. Len(statements)] ==
        IF i = 0 THEN db ELSE After(run[i - 1], statements[i])
  IN  run
CleanRun[n \in 0 .. Len(Files)] ==
  IF n = 0 THEN Fresh ELSE RunOf(CleanRun[n - 1], Files[n])[Len(Files[n])]

\* db.py:54-65: after any failure or crash the committed schema is the one a
\* clean run of the recorded versions gives, and those versions have no gap.
WholeMigrations ==
  LET clean == CleanRun[Cardinality(disk.versions)]
  IN  /\ disk.versions = 1..Cardinality(disk.versions)
      /\ disk.tables \ {"_schema_version"} = clean.tables \ {"_schema_version"}
      /\ disk.parts = clean.parts

\* 006 and 008 rebuild the log of credits with its rows: a row that was logged
\* is there for ever, whatever release and whatever failure comes.
LogKept == [][disk.log \subseteq disk'.log]_vars

\* 009_credits_indexes.sql:2-4 restores what 006 and 008 lose: the log of credits
\* has its three indexes.
LogIndexed == {Tx} \X {"tx_ts", "tx_from", "tx_to"} \subseteq disk.parts

\* db.py:39-65: the runner is idempotent: however often it is interrupted, a
\* process that is started again gets to serve on the schema of its release, and
\* the release that has 009 on an indexed log.
UpgradesEnd ==
  pc = "down" ~> pc = "up" /\ disk.versions = 1..release /\ (release = 9 => LogIndexed)
=============================================================================
