----------------------------- MODULE PublishGate -----------------------------
(***************************************************************************)
(* What a publish must pass before it is stored, and what it leaves behind *)
(* when it is refused: the blocklist, the seller's signature, the binding  *)
(* of a name to the DID that first signed for it, the scan for near        *)
(* duplicates, and the transaction that stores the event with its mentions.*)
(*                                                                         *)
(* execute_publish never awaits, so one publish is one step.  The binding  *)
(* is a statement of its own, outside that transaction: it stays when the  *)
(* publish is refused later on.  Money is the subject of Market: here the  *)
(* purchase is one of the statements that may fail.                        *)
(***************************************************************************)
EXTENDS Integers, Sequences, FiniteSets, FiniteSetsExt

CONSTANTS
  NULL,           \* no DID, no signature, nobody observed
  Names,          \* network-local names of agents
  Seen,           \* names that publishes may mention
  Dids,           \* did:key identifiers
  Payloads,       \* payloads, as the program reads them
  Hash,           \* payload_sha256: of a payload
  Tokens,         \* tokenize: the words of a payload
  Signatures,     \* signatures in circulation: who signed which hash for which name
  Dates,          \* client timestamps
  Window,         \* jaccard_window
  Num, Den,       \* jaccard_threshold, as a fraction
  MaxEvents       \* bound: stored events

ASSUME PublishGateAssumption ==
  /\ NULL \notin Dids /\ NULL \notin Names /\ NULL \notin Signatures
  /\ Seen \subseteq Names
  /\ Dates \subseteq Nat /\ Window \in Nat /\ MaxEvents \in Nat
  /\ Num \in Nat /\ Den \in Nat \ {0}
  /\ \A p, q \in Payloads : Hash[p] = Hash[q] => Tokens[p] = Tokens[q]

VARIABLES
  identities,   \* agent_identities: the DID a name is bound to
  events,       \* events with their episodic rows, in order of storage
  semantic,     \* entities_semantic: how often an agent was mentioned, and when
  required      \* settings.require_signed_publish, read when the process starts

vars == <<identities, events, semantic, required>>

----------------------------------------------------------------------------
(* The gate.                                                               *)

Requests == [kind : {"anecdote", "heartbeat"}, source : Names,
             observed : Seen \cup {NULL}, payload : Payloads, ts : Dates,
             did : Dids \cup {NULL}, signature : Signatures \cup {NULL}]

Blocklisted(req) == req.kind = "heartbeat"

Signed(req) == req.did # NULL \/ req.signature # NULL

\* A signature covers the hash of the payload and the name that is paid.
Verified(req) ==
  /\ req.did # NULL /\ req.signature # NULL
  /\ req.signature = [did |-> req.did, hash |-> Hash[req.payload], name |-> req.source]

\* Mutant: any bound name passes, whatever the DID.
BoundToAny(req) == identities[req.source] # NULL

Bound(req) == identities[req.source] = req.did

\* Mutant: one DID may be bound to several names.
BindableTwice(req) == identities[req.source] = NULL

\* The first signed publish of a name may bind it, unless the DID has another.
Bindable(req) ==
  /\ identities[req.source] = NULL
  /\ \A name \in Names : identities[name] # req.did

Passes(req) ==
  /\ ~Blocklisted(req)
  /\ IF Signed(req) THEN Verified(req) /\ (Bound(req) \/ Bindable(req))
     ELSE ~required

Bind(req) ==
  identities' = IF Signed(req) THEN [identities EXCEPT ![req.source] = req.did]
                ELSE identities

----------------------------------------------------------------------------
(* Duplicates.                                                             *)

Similar(p, q) ==
  Cardinality(Tokens[p] \cap Tokens[q]) * Den
    >= Num * Cardinality(Tokens[p] \cup Tokens[q])

Of(source) == {i \in DOMAIN events : events[i].source = source}

\* Mutant: the window is filled with the events of every agent.
RecentOfAll(source) ==
  LET size == IF Window < Len(events) THEN Window ELSE Len(events)
  IN  {some \in kSubset(size, DOMAIN events) :
         \A i \in some, j \in DOMAIN events \ some : events[j].ts <= events[i].ts}

\* The newest Window events of an agent by client timestamp, ties at random.
Recent(source) ==
  LET mine == Of(source)
      size == IF Window < Cardinality(mine) THEN Window ELSE Cardinality(mine)
  IN  {some \in kSubset(size, mine) :
         \A i \in some, j \in mine \ some : events[j].ts <= events[i].ts}

NearDuplicate(req, recent) ==
  /\ Tokens[req.payload] # {}
  /\ \E i \in recent : Similar(req.payload, events[i].payload)

\* The unique index on payload_hash, over the events of everyone.
ExactDuplicate(req) == \E i \in DOMAIN events : Hash[events[i].payload] = Hash[req.payload]

----------------------------------------------------------------------------
(* The transaction.                                                        *)

NoRow == [count |-> 0, first |-> NULL, last |-> NULL]

Touch(rows, agent, ts) ==
  [rows EXCEPT ![agent] =
     [count |-> @.count + 1, first |-> IF @.count = 0 THEN ts ELSE @.first, last |-> ts]]

Mention(req) ==
  LET observer == Touch(semantic, req.source, req.ts)
  IN  IF req.observed = NULL THEN observer ELSE Touch(observer, req.observed, req.ts)

Row(req) == [source |-> req.source, observed |-> req.observed, payload |-> req.payload,
             ts |-> req.ts, did |-> req.did]

Init ==
  /\ identities = [name \in Names |-> NULL]
  /\ events = <<>>
  /\ semantic = [name \in Names |-> NoRow]
  /\ required \in BOOLEAN

\* A refusal before anything is written.
Refuse(req) == ~Passes(req) /\ UNCHANGED vars

\* Mutant: the event is taken back, the mention stays.
RollBackRowOnly(req) ==
  /\ Passes(req)
  /\ Bind(req)
  /\ semantic' = Mention(req)
  /\ UNCHANGED <<events, required>>

\* The gate is passed, then a duplicate or a failing statement rolls back.
RollBack(req) ==
  /\ Passes(req)
  /\ Bind(req)
  /\ UNCHANGED <<events, semantic, required>>

Store(req) ==
  /\ Len(events) < MaxEvents
  /\ Passes(req)
  /\ \E recent \in Recent(req.source) : ~NearDuplicate(req, recent)
  /\ ~ExactDuplicate(req)
  /\ Bind(req)
  /\ events' = Append(events, Row(req))
  /\ semantic' = Mention(req)
  /\ UNCHANGED required

\* The process restarts, perhaps with another setting.
Restart ==
  /\ required' \in BOOLEAN
  /\ UNCHANGED <<identities, events, semantic>>

Publish(req) == Refuse(req) \/ RollBack(req) \/ Store(req)

Next == (\E req \in Requests : Publish(req)) \/ Restart

Spec == Init /\ [][Next]_vars

----------------------------------------------------------------------------
(* Properties.                                                             *)

EventRows == [source : Names, observed : Names \cup {NULL}, payload : Payloads,
              ts : Dates, did : Dids \cup {NULL}]

MentionRows == [count : Nat, first : Dates \cup {NULL}, last : Dates \cup {NULL}]

\* Types of the tables the publish path writes.
TypeOK ==
  /\ identities \in [Names -> Dids \cup {NULL}]
  /\ events \in Seq(EventRows) /\ Len(events) <= MaxEvents
  /\ semantic \in [Names -> MentionRows]
  /\ required \in BOOLEAN

\* publish.py:203-227: every event that carries a DID was sold under the name
\* bound to that DID, and no DID has two names, whatever was refused meanwhile.
SignedRowsBound ==
  /\ \A i \in DOMAIN events :
       events[i].did # NULL => identities[events[i].source] = events[i].did
  /\ \A a, b \in Names : identities[a] = identities[b] /\ identities[a] # NULL => a = b

\* publish.py:217-227 (trust on first use): once a name is bound it stays
\* bound to the same DID, over refusals, rollbacks and restarts.
BindingsStand ==
  [][\A name \in Names :
       identities[name] # NULL => identities'[name] = identities[name]]_vars

\* Events with words stored before one, by the same agent and like it.
Alike(j) == {i \in 1..(j - 1) : /\ events[i].source = events[j].source
                                /\ Tokens[events[j].payload] # {}
                                /\ Similar(events[j].payload, events[i].payload)}

\* publish.py:235-241: an event like an earlier one of the same agent is only
\* stored when Window other events of that agent, dated no earlier, were there.
NearDuplicatesApart ==
  \A j \in DOMAIN events : \A i \in Alike(j) :
    Window <= Cardinality({k \in 1..(j - 1) : /\ k # i
                                              /\ events[k].source = events[j].source
                                              /\ events[k].ts >= events[i].ts})

\* How often an agent appears in the stored events, as observer and as observed.
Mentions(agent) ==
  Cardinality({i \in DOMAIN events : events[i].source = agent})
    + Cardinality({i \in DOMAIN events : events[i].observed = agent})

\* entities.py:36-62: the corroboration count of an agent is the number of its
\* mentions in stored events: a publish that is refused or rolled back adds none.
CountsExplained == \A agent \in Names : semantic[agent].count = Mentions(agent)
=============================================================================
