-------------------------- MODULE PublishGateProofs --------------------------
(***************************************************************************)
(* Proofs about PublishGate: types, the bindings of names to DIDs, what    *)
(* the corroboration counts stand for, and the duplicates kept apart.      *)
(***************************************************************************)
EXTENDS PublishGate, FiniteSetTheorems, TLAPS

\* A mention keeps entities_semantic well typed (touch_semantic).
LEMMA TouchTyped ==
  ASSUME NEW rows \in [Names -> MentionRows], NEW agent \in Names, NEW ts \in Dates
  PROVE  Touch(rows, agent, ts) \in [Names -> MentionRows]
<1> DEFINE row == [count |-> rows[agent].count + 1,
                   first |-> IF rows[agent].count = 0 THEN ts ELSE rows[agent].first,
                   last  |-> ts]
<1>1. rows[agent] \in MentionRows
  OBVIOUS
<1>2. row \in MentionRows
  BY <1>1 DEF MentionRows
<1>3. Touch(rows, agent, ts) = [rows EXCEPT ![agent] = row]
  BY DEF Touch
<1> HIDE DEF row
<1> QED
  BY <1>2, <1>3

\* What the mentions of one request leave is well typed.
LEMMA MentionTyped ==
  ASSUME semantic \in [Names -> MentionRows], NEW req \in Requests
  PROVE  Mention(req) \in [Names -> MentionRows]
<1>1. req.source \in Names /\ req.ts \in Dates
  BY DEF Requests
<1>2. Touch(semantic, req.source, req.ts) \in [Names -> MentionRows]
  BY <1>1, TouchTyped
<1>3. CASE req.observed = NULL
  BY <1>2, <1>3 DEF Mention
<1>4. CASE req.observed # NULL
  <2>1. req.observed \in Names
    BY <1>4, PublishGateAssumption DEF PublishGateAssumption, Requests
  <2>2. Touch(Touch(semantic, req.source, req.ts), req.observed, req.ts)
          \in [Names -> MentionRows]
    BY <1>1, <1>2, <2>1, TouchTyped
  <2> QED
    BY <1>4, <2>2 DEF Mention
<1> QED
  BY <1>3, <1>4

\* The row of a request is a row of the events table.
LEMMA RowTyped ==
  ASSUME NEW req \in Requests
  PROVE  Row(req) \in EventRows
  BY PublishGateAssumption DEF PublishGateAssumption, Requests, Row, EventRows

\* A request that passes the gate binds its name at most to its own DID.
LEMMA BindTyped ==
  ASSUME identities \in [Names -> Dids \cup {NULL}], NEW req \in Requests, Bind(req)
  PROVE  identities' \in [Names -> Dids \cup {NULL}]
  BY DEF Requests, Bind

\* Types of the tables hold in every reachable state.
THEOREM GateTyped == Spec => []TypeOK
<1>1. Init => TypeOK
  <2> SUFFICES ASSUME Init PROVE TypeOK
    OBVIOUS
  <2>1. NoRow \in MentionRows
    BY DEF NoRow, MentionRows
  <2>2. semantic \in [Names -> MentionRows]
    BY <2>1 DEF Init
  <2>3. <<>> \in Seq(EventRows) /\ Len(<<>>) = 0
    OBVIOUS
  <2>4. 0 <= MaxEvents
    BY PublishGateAssumption
  <2> QED
    BY <2>2, <2>3, <2>4 DEF Init, TypeOK
<1>2. TypeOK /\ [Next]_vars => TypeOK'
  <2> SUFFICES ASSUME TypeOK, [Next]_vars PROVE TypeOK'
    OBVIOUS
  <2> USE DEF TypeOK
  <2>1. ASSUME NEW req \in Requests, Refuse(req) PROVE TypeOK'
    BY <2>1 DEF Refuse, vars
  <2>2. ASSUME NEW req \in Requests, RollBack(req) PROVE TypeOK'
    <3>1. identities' \in [Names -> Dids \cup {NULL}]
      BY <2>2, BindTyped DEF RollBack
    <3> QED
      BY <2>2, <3>1 DEF RollBack
  <2>3. ASSUME NEW req \in Requests, Store(req) PROVE TypeOK'
    <3>1. identities' \in [Names -> Dids \cup {NULL}]
      BY <2>3, BindTyped DEF Store
    <3>2. semantic' \in [Names -> MentionRows]
      BY <2>3, MentionTyped DEF Store
    <3>3. Row(req) \in EventRows
      BY RowTyped
    <3>4. events' \in Seq(EventRows) /\ Len(events') = Len(events) + 1
      BY <2>3, <3>3 DEF Store
    <3>5. Len(events') <= MaxEvents
      BY <2>3, <3>4, PublishGateAssumption DEF Store
    <3> QED
      BY <2>3, <3>1, <3>2, <3>4, <3>5 DEF Store
  <2>4. CASE Restart
    BY <2>4 DEF Restart
  <2>5. CASE UNCHANGED vars
    BY <2>5 DEF vars
  <2> QED
    BY <2>1, <2>2, <2>3, <2>4, <2>5 DEF Next, Publish
<1> QED
  BY <1>1, <1>2, PTL DEF Spec

\* Every stored event has a source among the names.
LEMMA SourceNamed ==
  ASSUME TypeOK, NEW i \in DOMAIN events
  PROVE  events[i].source \in Names
<1>1. events \in Seq(EventRows)
  BY DEF TypeOK
<1>2. events[i] \in EventRows
  BY <1>1
<1> QED
  BY <1>2 DEF EventRows

\* The names a passing request finds bound keep their DID.
LEMMA BindKeeps ==
  ASSUME TypeOK, NEW req \in Requests, Passes(req), Bind(req)
  PROVE  \A name \in Names :
           identities[name] # NULL => identities'[name] = identities[name]
  BY DEF TypeOK, Requests, Passes, Bound, Bindable, Bind

\* After a passing request its DID belongs to its name, and no DID to two names.
LEMMA BindExclusive ==
  ASSUME TypeOK, NEW req \in Requests, Passes(req), Bind(req), SignedRowsBound
  PROVE  /\ req.did # NULL => identities'[req.source] = req.did
         /\ \A a, b \in Names :
              identities'[a] = identities'[b] /\ identities'[a] # NULL => a = b
  BY DEF TypeOK, Requests, Passes, Signed, Verified, Bound, Bindable, Bind, SignedRowsBound

\* Once a name is bound to a DID, no publish, refusal, rollback or restart
\* binds it to another (publish.py:217-227).
THEOREM BindingIsFinal == Spec => BindingsStand
<1>1. TypeOK /\ [Next]_vars =>
        [\A name \in Names :
           identities[name] # NULL => identities'[name] = identities[name]]_vars
  <2> SUFFICES ASSUME TypeOK, Next
               PROVE  \A name \in Names :
                        identities[name] # NULL => identities'[name] = identities[name]
    OBVIOUS
  <2>1. ASSUME NEW req \in Requests, Refuse(req)
        PROVE  identities' = identities
    BY <2>1 DEF Refuse, vars
  <2>2. ASSUME NEW req \in Requests, RollBack(req) \/ Store(req)
        PROVE  \A name \in Names :
                 identities[name] # NULL => identities'[name] = identities[name]
    BY <2>2, BindKeeps DEF RollBack, Store
  <2>3. CASE Restart
    BY <2>3 DEF Restart
  <2> QED
    BY <2>1, <2>2, <2>3 DEF Next, Publish
<1> QED
  BY <1>1, GateTyped, PTL DEF Spec, BindingsStand

\* Every stored event that carries a DID was sold under the one name that DID
\* is bound to, for any names, DIDs, payloads and lengths of run.
THEOREM SellersKnown == Spec => []SignedRowsBound
<1>1. Init => SignedRowsBound
  BY DEF Init, SignedRowsBound
<1>2. TypeOK /\ TypeOK' /\ SignedRowsBound /\ [Next]_vars => SignedRowsBound'
  <2> SUFFICES ASSUME TypeOK, TypeOK', SignedRowsBound, [Next]_vars
               PROVE  SignedRowsBound'
    OBVIOUS
  <2>1. ASSUME NEW req \in Requests, Refuse(req) PROVE SignedRowsBound'
    BY <2>1 DEF Refuse, vars, SignedRowsBound
  <2>2. ASSUME NEW req \in Requests, RollBack(req) PROVE SignedRowsBound'
    <3>1. events' = events /\ Passes(req) /\ Bind(req)
      BY <2>2 DEF RollBack
    <3>2. \A i \in DOMAIN events : events[i].source \in Names
      BY SourceNamed
    <3>3. \A i \in DOMAIN events :
            events[i].did # NULL => identities'[events[i].source] = events[i].did
      BY <3>1, <3>2, BindKeeps DEF SignedRowsBound
    <3> QED
      BY <3>1, <3>3, BindExclusive DEF SignedRowsBound
  <2>3. ASSUME NEW req \in Requests, Store(req) PROVE SignedRowsBound'
    <3>1. events' = Append(events, Row(req)) /\ Passes(req) /\ Bind(req)
      BY <2>3 DEF Store
    <3>2. \A i \in DOMAIN events : events[i].source \in Names
      BY SourceNamed
    <3>3. Row(req).source = req.source /\ Row(req).did = req.did
      BY DEF Row
    <3>4. ASSUME NEW i \in DOMAIN events'
          PROVE  events'[i].did # NULL => identities'[events'[i].source] = events'[i].did
      <4>1. CASE i \in DOMAIN events
        <5>1. events'[i] = events[i]
          BY <3>1, <4>1 DEF TypeOK
        <5> QED
          BY <3>1, <3>2, <4>1, <5>1, BindKeeps DEF SignedRowsBound
      <4>2. CASE i \notin DOMAIN events
        <5>1. events'[i] = Row(req)
          BY <3>1, <4>2 DEF TypeOK
        <5> QED
          BY <3>1, <3>3, <5>1, BindExclusive
      <4> QED
        BY <4>1, <4>2
    <3> QED
      BY <3>1, <3>4, BindExclusive DEF SignedRowsBound
  <2>4. CASE Restart
    BY <2>4 DEF Restart, SignedRowsBound
  <2>5. CASE UNCHANGED vars
    BY <2>5 DEF vars, SignedRowsBound
  <2> QED
    BY <2>1, <2>2, <2>3, <2>4, <2>5 DEF Next, Publish
<1> QED
  BY <1>1, <1>2, GateTyped, PTL DEF Spec

----------------------------------------------------------------------------
(* What the counts and the window say of the stored events.                *)

\* The positions where a stored event mentions an agent, as either party.
Sold(agent) == {i \in DOMAIN events : events[i].source = agent}
Met(agent) == {i \in DOMAIN events : events[i].observed = agent}

\* The events are a finite sequence, and so is any part of their positions.
LEMMA EventsFinite ==
  ASSUME TypeOK
  PROVE  /\ Len(events) \in Nat /\ DOMAIN events = 1..Len(events)
         /\ \A some \in SUBSET DOMAIN events : IsFiniteSet(some)
<1>1. Len(events) \in Nat /\ DOMAIN events = 1..Len(events)
  BY DEF TypeOK
<1>2. IsFiniteSet(1..Len(events))
  BY <1>1, FS_Interval
<1> QED
  BY <1>1, <1>2, FS_Subset

\* Storing an event appends its row and leaves the earlier ones.
LEMMA StoreAppends ==
  ASSUME TypeOK, TypeOK', NEW req \in Requests, Store(req)
  PROVE  /\ DOMAIN events' = DOMAIN events \cup {Len(events) + 1}
         /\ Len(events) + 1 \notin DOMAIN events
         /\ events'[Len(events) + 1] = Row(req)
         /\ \A i \in DOMAIN events : events'[i] = events[i]
<1>1. events' = Append(events, Row(req))
  BY DEF Store
<1>2. Len(events) \in Nat /\ DOMAIN events = 1..Len(events)
  BY EventsFinite
<1>3. Len(events') = Len(events) + 1 /\ DOMAIN events' = 1..Len(events')
  BY <1>1, <1>2 DEF TypeOK
<1>4. events'[Len(events) + 1] = Row(req)
  BY <1>1, <1>2 DEF TypeOK
<1>5. \A i \in DOMAIN events : events'[i] = events[i]
  BY <1>1, <1>2 DEF TypeOK
<1> QED
  BY <1>2, <1>3, <1>4, <1>5

\* What a mention adds to the count of one agent (entities.py:36-62).
LEMMA TouchCounts ==
  ASSUME NEW rows \in [Names -> MentionRows], NEW agent \in Names, NEW ts \in Dates,
         NEW other \in Names
  PROVE  Touch(rows, agent, ts)[other].count
           = rows[other].count + (IF other = agent THEN 1 ELSE 0)
<1> DEFINE row == [count |-> rows[agent].count + 1,
                   first |-> IF rows[agent].count = 0 THEN ts ELSE rows[agent].first,
                   last  |-> ts]
<1>1. row.count = rows[agent].count + 1
  OBVIOUS
<1>2. Touch(rows, agent, ts) = [rows EXCEPT ![agent] = row]
  BY DEF Touch
<1>3. rows[other] \in MentionRows
  OBVIOUS
<1>4. rows[other].count \in Nat
  BY <1>3 DEF MentionRows
<1> HIDE DEF row
<1> QED
  BY <1>1, <1>2, <1>4

\* A stored event adds one for its observer and one for whom it observes.
LEMMA MentionCounts ==
  ASSUME TypeOK, NEW req \in Requests, NEW agent \in Names
  PROVE  Mention(req)[agent].count
           = semantic[agent].count + (IF req.source = agent THEN 1 ELSE 0)
                                   + (IF req.observed = agent THEN 1 ELSE 0)
<1> DEFINE once == Touch(semantic, req.source, req.ts)
<1>1. req.source \in Names /\ req.ts \in Dates
  BY DEF Requests
<1>2. semantic \in [Names -> MentionRows]
  BY DEF TypeOK
<1>3. semantic[agent].count \in Nat
  BY <1>2 DEF MentionRows
<1>4. once \in [Names -> MentionRows]
  BY <1>1, <1>2, TouchTyped
<1>5. once[agent].count = semantic[agent].count + (IF agent = req.source THEN 1 ELSE 0)
  BY <1>1, <1>2, TouchCounts
<1>6. CASE req.observed = NULL
  <2>1. Mention(req) = once
    BY <1>6 DEF Mention
  <2>2. req.observed # agent
    BY <1>6, PublishGateAssumption
  <2> HIDE DEF once
  <2> QED
    BY <1>3, <1>5, <2>1, <2>2
<1>7. CASE req.observed # NULL
  <2>1. req.observed \in Names
    BY <1>7, PublishGateAssumption DEF Requests
  <2>2. Mention(req) = Touch(once, req.observed, req.ts)
    BY <1>7 DEF Mention
  <2> HIDE DEF once
  <2>3. Mention(req)[agent].count
          = once[agent].count + (IF agent = req.observed THEN 1 ELSE 0)
    BY <1>1, <1>4, <2>1, <2>2, TouchCounts
  <2> QED
    BY <1>3, <1>5, <2>3
<1> QED
  BY <1>6, <1>7

\* One more event adds its position to the positions of whom it mentions.
LEMMA StoreMentions ==
  ASSUME TypeOK, TypeOK', NEW req \in Requests, Store(req), NEW agent \in Names
  PROVE  /\ Cardinality(Sold(agent)')
              = Cardinality(Sold(agent)) + (IF req.source = agent THEN 1 ELSE 0)
         /\ Cardinality(Met(agent)')
              = Cardinality(Met(agent)) + (IF req.observed = agent THEN 1 ELSE 0)
         /\ Cardinality(Sold(agent)) \in Nat /\ Cardinality(Met(agent)) \in Nat
<1> DEFINE next == Len(events) + 1
<1>1. IsFiniteSet(Sold(agent)) /\ IsFiniteSet(Met(agent))
  BY EventsFinite DEF Sold, Met
<1>2. Row(req).source = req.source /\ Row(req).observed = req.observed
  BY DEF Row
<1>3. /\ DOMAIN events' = DOMAIN events \cup {next} /\ next \notin DOMAIN events
      /\ events'[next] = Row(req)
      /\ \A i \in DOMAIN events : events'[i] = events[i]
  BY StoreAppends
<1> HIDE DEF next
<1>4. /\ Sold(agent)' = IF req.source = agent THEN Sold(agent) \cup {next} ELSE Sold(agent)
      /\ next \notin Sold(agent)
  BY <1>2, <1>3 DEF Sold
<1>5. /\ Met(agent)' = IF req.observed = agent THEN Met(agent) \cup {next} ELSE Met(agent)
      /\ next \notin Met(agent)
  BY <1>2, <1>3 DEF Met
<1>6. Cardinality(Sold(agent)) \in Nat /\ Cardinality(Met(agent)) \in Nat
  BY <1>1, FS_CardinalityType
<1>7. Cardinality(Sold(agent)')
        = Cardinality(Sold(agent)) + (IF req.source = agent THEN 1 ELSE 0)
  <2>1. Cardinality(Sold(agent) \cup {next}) = Cardinality(Sold(agent)) + 1
    BY <1>1, <1>4, FS_AddElement
  <2> QED
    BY <1>4, <1>6, <2>1
<1>8. Cardinality(Met(agent)')
        = Cardinality(Met(agent)) + (IF req.observed = agent THEN 1 ELSE 0)
  <2>1. Cardinality(Met(agent) \cup {next}) = Cardinality(Met(agent)) + 1
    BY <1>1, <1>5, FS_AddElement
  <2> QED
    BY <1>5, <1>6, <2>1
<1> QED
  BY <1>6, <1>7, <1>8

\* The corroboration count of an agent is the number of its mentions in stored
\* events, whatever is refused or rolled back (entities.py:36-62).
THEOREM MentionsCounted == Spec => []CountsExplained
<1>1. Init => CountsExplained
  <2> SUFFICES ASSUME Init, NEW agent \in Names
               PROVE  semantic[agent].count = Mentions(agent)
    BY DEF CountsExplained
  <2>1. semantic[agent].count = 0
    BY DEF Init, NoRow
  <2>2. Sold(agent) = {} /\ Met(agent) = {}
    BY DEF Init, Sold, Met
  <2>3. Mentions(agent) = Cardinality(Sold(agent)) + Cardinality(Met(agent))
    BY DEF Mentions, Sold, Met
  <2> QED
    BY <2>1, <2>2, <2>3, FS_EmptySet
<1>2. TypeOK /\ TypeOK' /\ CountsExplained /\ [Next]_vars => CountsExplained'
  <2> SUFFICES ASSUME TypeOK, TypeOK', CountsExplained, [Next]_vars
               PROVE  CountsExplained'
    OBVIOUS
  <2>1. ASSUME NEW req \in Requests, Refuse(req) \/ RollBack(req)
        PROVE  events' = events /\ semantic' = semantic
    BY <2>1 DEF Refuse, RollBack, vars
  <2>2. ASSUME NEW req \in Requests, Store(req) PROVE CountsExplained'
    <3> SUFFICES ASSUME NEW agent \in Names
                 PROVE  semantic'[agent].count = Mentions(agent)'
      BY DEF CountsExplained
    <3>1. semantic' = Mention(req)
      BY <2>2 DEF Store
    <3>2. semantic[agent].count = Cardinality(Sold(agent)) + Cardinality(Met(agent))
      BY DEF CountsExplained, Mentions, Sold, Met
    <3>3. Mentions(agent)' = Cardinality(Sold(agent)') + Cardinality(Met(agent)')
      BY DEF Mentions, Sold, Met
    <3> QED
      BY <2>2, <3>1, <3>2, <3>3, MentionCounts, StoreMentions
  <2>3. CASE Restart
    BY <2>3 DEF Restart, CountsExplained, Mentions
  <2>4. CASE UNCHANGED vars
    BY <2>4 DEF vars, CountsExplained, Mentions
  <2> QED
    BY <2>1, <2>2, <2>3, <2>4 DEF Next, Publish, CountsExplained, Mentions
<1> QED
  BY <1>1, <1>2, GateTyped, PTL DEF Spec

\* The events of an agent that are dated no earlier than one of its events.
Later(i, j) == {k \in 1..(j - 1) : /\ k # i
                                   /\ events[k].source = events[j].source
                                   /\ events[k].ts >= events[i].ts}

\* What is said of a stored event is said of the events before it only, so
\* later ones leave it as it is.
LEMMA EarlierStand ==
  ASSUME TypeOK, TypeOK', NEW req \in Requests, Store(req), NEW j \in DOMAIN events
  PROVE  Alike(j)' = Alike(j) /\ \A i \in Alike(j) : Later(i, j)' = Later(i, j)
<1>1. /\ \A k \in DOMAIN events : events'[k] = events[k]
      /\ Len(events) \in Nat /\ DOMAIN events = 1..Len(events)
  BY StoreAppends, EventsFinite
<1>2. events'[j] = events[j] /\ \A k \in 1..(j - 1) : events'[k] = events[k]
  BY <1>1
<1>3. Alike(j)' = Alike(j)
  BY <1>2 DEF Alike, Similar
<1>4. \A i \in Alike(j) : i \in 1..(j - 1)
  BY DEF Alike
<1>5. \A i \in Alike(j) : Later(i, j)' = Later(i, j)
  BY <1>2, <1>4 DEF Later
<1> QED
  BY <1>3, <1>5

\* An event like the new one that its scan did not reach is older than the
\* whole window, and the window was full (duplicates.py).
LEMMA ScanReaches ==
  ASSUME TypeOK, NEW req \in Requests, NEW recent \in Recent(req.source),
         ~NearDuplicate(req, recent), Tokens[req.payload] # {},
         NEW i \in Of(req.source), Similar(req.payload, events[i].payload)
  PROVE  /\ i \notin recent /\ recent \subseteq Of(req.source)
         /\ Cardinality(recent) = Window
         /\ \A k \in recent : events[i].ts <= events[k].ts
<1> DEFINE mine == Of(req.source)
           size == IF Window < Cardinality(mine) THEN Window ELSE Cardinality(mine)
<1>1. i \notin recent
  BY DEF NearDuplicate
<1>2. /\ recent \subseteq mine /\ Cardinality(recent) = size
      /\ \A k \in recent, l \in mine \ recent : events[l].ts <= events[k].ts
  BY DEF Recent, kSubset
<1>3. IsFiniteSet(mine)
  BY EventsFinite DEF Of
<1>4. Cardinality(recent) # Cardinality(mine)
  BY <1>1, <1>2, <1>3, FS_Subset
<1> QED
  BY <1>1, <1>2, <1>4

\* An event like an earlier one of its agent is stored only when Window other
\* events of the agent, dated no earlier, were there (publish.py:235-241).
THEOREM NearDuplicatesRefused == Spec => []NearDuplicatesApart
<1>1. Init => NearDuplicatesApart
  BY DEF Init, NearDuplicatesApart
<1>2. TypeOK /\ TypeOK' /\ NearDuplicatesApart /\ [Next]_vars => NearDuplicatesApart'
  <2> SUFFICES ASSUME TypeOK, TypeOK', NearDuplicatesApart, [Next]_vars
               PROVE  NearDuplicatesApart'
    OBVIOUS
  <2>1. ASSUME NEW req \in Requests, Refuse(req) \/ RollBack(req)
        PROVE  events' = events
    BY <2>1 DEF Refuse, RollBack, vars
  <2>2. ASSUME NEW req \in Requests, Store(req) PROVE NearDuplicatesApart'
    <3> PICK new : new = Len(events) + 1
      OBVIOUS
    <3>1. /\ DOMAIN events' = DOMAIN events \cup {new}
          /\ events'[new] = Row(req)
          /\ \A k \in DOMAIN events : events'[k] = events[k]
          /\ Len(events) \in Nat /\ DOMAIN events = 1..Len(events)
      BY <2>2, StoreAppends, EventsFinite
    <3>2. ASSUME NEW j \in DOMAIN events, NEW i \in Alike(j)'
          PROVE  Window <= Cardinality(Later(i, j)')
      <4>1. i \in Alike(j) /\ Later(i, j)' = Later(i, j)
        BY <2>2, <3>2, EarlierStand
      <4> QED
        BY <4>1 DEF NearDuplicatesApart, Later
    <3>3. ASSUME NEW i \in Alike(new)' PROVE Window <= Cardinality(Later(i, new)')
      <4>1. Row(req).source = req.source /\ Row(req).payload = req.payload
        BY DEF Row
      <4>2. 1..(new - 1) = DOMAIN events
        BY <3>1
      <4>3. /\ i \in Of(req.source) /\ Tokens[req.payload] # {}
            /\ Similar(req.payload, events[i].payload)
        BY <3>1, <3>3, <4>1, <4>2 DEF Alike, Of, Similar
      <4>4. PICK recent \in Recent(req.source) : ~NearDuplicate(req, recent)
        BY <2>2 DEF Store
      <4>5. /\ i \notin recent /\ recent \subseteq Of(req.source)
            /\ Cardinality(recent) = Window
            /\ \A k \in recent : events[i].ts <= events[k].ts
        BY <4>3, <4>4, ScanReaches
      <4>6. i \in DOMAIN events /\ \A k \in recent : k \in DOMAIN events
        BY <4>3, <4>5 DEF Of
      <4>7. \A k \in recent : /\ events[k] \in EventRows /\ events[i] \in EventRows
                              /\ events[k].source = req.source
        BY <4>5, <4>6 DEF TypeOK, Of
      <4>8. \A k \in recent : events[k].ts \in Nat /\ events[i].ts \in Nat
        BY <4>7, PublishGateAssumption DEF EventRows
      <4>9. recent \subseteq Later(i, new)'
        BY <3>1, <4>1, <4>2, <4>5, <4>6, <4>7, <4>8 DEF Later
      <4>10. Later(i, new)' \subseteq DOMAIN events
        BY <4>2 DEF Later
      <4> QED
        BY <4>5, <4>9, <4>10, EventsFinite, FS_Subset
    <3>4. \A j \in DOMAIN events' : \A i \in Alike(j)' : Window <= Cardinality(Later(i, j)')
      BY <3>1, <3>2, <3>3
    <3> QED
      BY <3>4 DEF NearDuplicatesApart, Later
  <2>3. CASE Restart
    BY <2>3 DEF Restart, NearDuplicatesApart, Alike, Similar
  <2>4. CASE UNCHANGED vars
    BY <2>4 DEF vars, NearDuplicatesApart, Alike, Similar
  <2>5. CASE events' = events
    BY <2>5 DEF NearDuplicatesApart, Alike, Similar
  <2> QED
    BY <2>1, <2>2, <2>3, <2>4, <2>5 DEF Next, Publish
<1> QED
  BY <1>1, <1>2, GateTyped, PTL DEF Spec
=============================================================================
