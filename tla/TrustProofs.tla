----------------------------- MODULE TrustProofs -----------------------------
(***************************************************************************)
(* Proofs about Trust and Reputation, for all agents, canaries, evidence   *)
(* and lengths of run.                                                     *)
(*                                                                         *)
(* Four invariants: IInv, what the registry counts, which rests on no      *)
(* score; CanaryInv, the verdicts on record; ScoreInv, the masses behind a *)
(* score and what they keep an honest agent from; and RepInv, reports and  *)
(* scoldings against the history, which needs the two others.              *)
(***************************************************************************)
EXTENDS Reputation, FiniteSetTheorems, TLAPS

----------------------------------------------------------------------------
(* Tables.                                                                 *)

\* A table: a bag with finitely many rows.
Table(rows) == rows \in [DOMAIN rows -> Nat \ {0}] /\ IsFiniteSet(Units(rows))

\* The units of a table, and of a selection of its rows.
LEMMA UnitOf ==
  ASSUME NEW f, NEW u
  PROVE  u \in Units(f) <=> \E x \in DOMAIN f : u \in {x} \X (1 .. f[x])
BY DEF Units

\* The rows of S, as often as they occur.
Chosen(rows, S) == [t \in S |-> rows[t]]

\* Any selection of rows can be counted.
LEMMA SelectionCounts ==
  ASSUME NEW rows, Table(rows), NEW S, S \subseteq DOMAIN rows
  PROVE  IsFiniteSet(Units(Chosen(rows, S))) /\ Count(rows, S) \in Nat
<1> DEFINE f == Chosen(rows, S)
<1>1. Units(f) \subseteq Units(rows)
  <2> SUFFICES ASSUME NEW u \in Units(f) PROVE u \in Units(rows)
    OBVIOUS
  <2>1. PICK t \in S : u \in {t} \X (1 .. f[t])
    BY UnitOf DEF Chosen
  <2> QED BY <2>1, UnitOf DEF Chosen
<1>2. IsFiniteSet(Units(f))
  BY <1>1, FS_Subset DEF Table
<1> QED BY <1>2, FS_CardinalityType DEF Count, Total, Chosen

\* Posting a row adds one unit to those of every selection it belongs to.
LEMMA PostUnits ==
  ASSUME NEW rows, Table(rows), NEW row,
         NEW S, S \subseteq DOMAIN rows, row \in DOMAIN rows => row \in S
  PROVE  \E u : /\ Units(Chosen(Post(rows, row), S \cup {row})) = Units(Chosen(rows, S)) \cup {u}
                /\ u \notin Units(Chosen(rows, S))
<1> DEFINE f == Chosen(rows, S)
           g == Chosen(Post(rows, row), S \cup {row})
           n == Copies(row, rows)
<1>1. n \in Nat /\ g[row] = n + 1 /\ (row \in S => f[row] = n) /\ (row \notin S => n = 0)
  BY DEF Copies, Post, Table, Chosen
<1>2. \A t \in S : t # row => g[t] = f[t]
  BY DEF Post, Copies, Table, Chosen
<1>3. DOMAIN f = S /\ DOMAIN g = S \cup {row} /\ \A t \in S : f[t] \in Nat
  BY DEF Table, Chosen
<1> HIDE DEF f, g, n
<1>4. ASSUME NEW u \in Units(g) PROVE u \in Units(f) \cup {<<row, n + 1>>}
  <2>1. PICK t \in S \cup {row} : u \in {t} \X (1 .. g[t])
    BY <1>3, <1>4, UnitOf
  <2>2. CASE t # row
    BY <1>2, <1>3, <2>1, <2>2, UnitOf
  <2>3. CASE t = row
    <3>1. PICK k \in 1 .. n + 1 : u = <<row, k>>
      BY <1>1, <2>1, <2>3
    <3>2. CASE k = n + 1
      BY <3>1, <3>2
    <3>3. CASE k \in 1 .. n
      <4>1. row \in S
        BY <1>1, <3>3
      <4>2. u \in {row} \X (1 .. f[row])
        BY <1>1, <3>1, <3>3, <4>1
      <4> QED BY <1>3, <4>1, <4>2, UnitOf
    <3> QED BY <1>1, <3>2, <3>3
  <2> QED BY <2>2, <2>3
<1>5. ASSUME NEW u \in Units(f) PROVE u \in Units(g) /\ u # <<row, n + 1>>
  <2>1. PICK t \in S : u \in {t} \X (1 .. f[t])
    BY <1>3, <1>5, UnitOf
  <2>2. u \in {t} \X (1 .. g[t])
    <3>1. CASE t # row BY <1>2, <2>1, <3>1
    <3>2. CASE t = row BY <1>1, <2>1, <3>2
    <3> QED BY <3>1, <3>2
  <2>3. u # <<row, n + 1>>
    BY <1>1, <2>1
  <2> QED BY <1>3, <2>2, <2>3, UnitOf
<1>6. <<row, n + 1>> \in Units(g)
  <2>1. <<row, n + 1>> \in {row} \X (1 .. g[row])
    BY <1>1
  <2> QED BY <1>3, <2>1, UnitOf
<1> QED BY <1>4, <1>5, <1>6 DEF f, g

\* So it keeps a table and adds one to the count of such a selection.
LEMMA PostCounts ==
  ASSUME NEW rows, Table(rows), NEW row,
         NEW S, S \subseteq DOMAIN rows, row \in DOMAIN rows => row \in S
  PROVE  /\ Table(Post(rows, row))
         /\ DOMAIN Post(rows, row) = DOMAIN rows \cup {row}
         /\ Count(Post(rows, row), S \cup {row}) = Count(rows, S) + 1
<1>1. Post(rows, row) \in [DOMAIN rows \cup {row} -> Nat \ {0}]
  BY DEF Post, Copies, Table
<1>2. /\ Post(rows, row) = Chosen(Post(rows, row), DOMAIN rows \cup {row})
      /\ rows = Chosen(rows, DOMAIN rows)
  BY DEF Post, Table, Chosen
<1>3. \E u : Units(Post(rows, row)) = Units(rows) \cup {u}
  <2>1. PICK u : /\ Units(Chosen(Post(rows, row), DOMAIN rows \cup {row}))
                      = Units(Chosen(rows, DOMAIN rows)) \cup {u}
                 /\ u \notin Units(Chosen(rows, DOMAIN rows))
    BY PostUnits
  <2> QED BY <1>2, <2>1
<1>4. IsFiniteSet(Units(Post(rows, row)))
  BY <1>3, FS_AddElement DEF Table
<1>5. Count(Post(rows, row), S \cup {row}) = Count(rows, S) + 1
  <2> DEFINE f == Chosen(rows, S)
             g == Chosen(Post(rows, row), S \cup {row})
  <2>1. IsFiniteSet(Units(f))
    BY SelectionCounts
  <2>2. \E u : Units(g) = Units(f) \cup {u} /\ u \notin Units(f)
    BY PostUnits
  <2> HIDE DEF f, g
  <2>3. Cardinality(Units(g)) = Cardinality(Units(f)) + 1
    BY <2>1, <2>2, FS_AddElement
  <2> QED BY <2>3 DEF Count, Total, Chosen, f, g
<1>6. DOMAIN Post(rows, row) = DOMAIN rows \cup {row}
  BY DEF Post
<1> QED BY <1>1, <1>4, <1>5, <1>6 DEF Table

\* ... and leaves every other selection alone.
LEMMA PostSkips ==
  ASSUME NEW rows, Table(rows), NEW row, NEW S, S \subseteq DOMAIN rows, row \notin S
  PROVE  Count(Post(rows, row), S) = Count(rows, S)
<1>1. [t \in S |-> Post(rows, row)[t]] = [t \in S |-> rows[t]]
  BY DEF Post, Copies, Table
<1> QED BY <1>1 DEF Count

\* The empty table.
LEMMA EmptyTable == Table([t \in {} |-> 0])
<1>1. Units([t \in {} |-> 0]) = {}
  BY DEF Units
<1> QED BY <1>1, FS_EmptySet DEF Table

----------------------------------------------------------------------------
(* The registry.                                                           *)

RegistryTyped == registry \in [Agents -> [state : States, violations : Nat]]

IInv ==
  /\ RegistryTyped
  /\ Table(log)
  /\ ViolationsRecorded
  /\ ExcludedAtFour

\* A transition leads to a state, and to exclusion exactly when the agent was
\* excluded already or has four violations.
LEMMA TransitionExcludes ==
  ASSUME NEW state \in States, NEW row, NEW violations \in Nat, NEW honesty
  PROVE  LET next == EvaluateTransition(state, row, violations, honesty)
         IN  /\ next \in States
             /\ next = "excluded" <=> state = "excluded" \/ violations >= 4
<1>1. CASE state = "excluded" \/ violations >= 4
  BY <1>1 DEF EvaluateTransition, ExcludeViolations, States
<1>2. CASE ~(state = "excluded" \/ violations >= 4)
  <2> DEFINE next == EvaluateTransition(state, row, violations, honesty)
  <2>1. next \in {state, "penalized", "warned", "member"}
    BY <1>2 DEF EvaluateTransition, ExcludeViolations
  <2>2. next \in States /\ next # "excluded"
    BY <1>2, <2>1 DEF States
  <2> QED BY <1>2, <2>2
<1> QED BY <1>1, <1>2

\* Recording evidence keeps the invariant, and adds to the record only.
LEMMA RecordSound ==
  ASSUME IInv, NEW a \in Agents, NEW criterion, NEW positive \in BOOLEAN, NEW weight,
         NEW cause, NEW ref, NEW ts,
         Record(a, criterion, positive, weight, cause, ref, ts)
  PROVE  /\ IInv'
         /\ \A b \in Agents :
              /\ registry[b].state = "excluded" => registry'[b].state = "excluded"
              /\ registry'[b].violations >= registry[b].violations
<1> DEFINE row  == Evidence(a, criterion, positive, cause, ref)
           more == Violations(a, positive)
<1>1. registry[a].state \in States /\ registry[a].violations \in Nat
  BY DEF IInv, RegistryTyped
<1>2. /\ more \in Nat /\ more >= registry[a].violations
      /\ more = registry[a].violations + (IF positive THEN 0 ELSE 1)
  BY <1>1 DEF Violations
<1>3. PICK next : /\ next \in States
                  /\ next = "excluded" <=> registry[a].state = "excluded" \/ more >= 4
                  /\ registry' = [registry EXCEPT ![a] = [state |-> next, violations |-> more]]
  BY <1>1, <1>2, TransitionExcludes DEF Record
<1>4. log' = Post(log, row)
  BY DEF Record
<1> HIDE DEF more
<1>5. /\ RegistryTyped'
      /\ registry'[a].state = next /\ registry'[a].violations = more
      /\ \A b \in Agents \ {a} : registry'[b] = registry[b]
  BY <1>2, <1>3 DEF IInv, RegistryTyped
<1>6. ExcludedAtFour'
  <2> SUFFICES ASSUME NEW b \in Agents
               PROVE  registry'[b].state = "excluded" <=> registry'[b].violations >= 4
    BY DEF ExcludedAtFour
  <2>1. CASE b = a
    <3>1. registry[a].state = "excluded" => more >= 4
      BY <1>1, <1>2 DEF IInv, ExcludedAtFour
    <3> QED BY <1>3, <1>5, <2>1, <3>1
  <2>2. CASE b # a
    BY <1>5, <2>2 DEF IInv, ExcludedAtFour
  <2> QED BY <2>1, <2>2
<1>7. Table(log) /\ Table(log') /\ DOMAIN log' = DOMAIN log \cup {row}
  <2>1. Table(log)
    BY DEF IInv
  <2> QED BY <1>4, <2>1, PostCounts
<1>8. ViolationsRecorded'
  <2> SUFFICES ASSUME NEW b \in Agents
               PROVE  registry'[b].violations = Count(log', Offences(b)')
    BY DEF ViolationsRecorded
  <2>1. registry[b].violations = Count(log, Offences(b)) /\ Offences(b) \subseteq DOMAIN log
    BY DEF IInv, ViolationsRecorded, Offences
  <2>2. row.agent = a /\ row.positive = positive
    BY DEF Evidence
  <2>3. CASE b = a /\ ~positive
    <3>1. Offences(b)' = Offences(b) \cup {row}
      BY <1>7, <2>2, <2>3 DEF Offences
    <3>2. row \in DOMAIN log => row \in Offences(b)
      BY <2>2, <2>3 DEF Offences
    <3>3. Count(log', Offences(b) \cup {row}) = Count(log, Offences(b)) + 1
      BY <1>4, <1>7, <2>1, <3>2, PostCounts
    <3> QED BY <1>2, <1>5, <2>1, <2>3, <3>1, <3>3
  <2>4. CASE ~(b = a /\ ~positive)
    <3>1. Offences(b)' = Offences(b) /\ row \notin Offences(b)
      BY <1>7, <2>2, <2>4 DEF Offences
    <3>2. Count(log', Offences(b)) = Count(log, Offences(b))
      BY <1>4, <1>7, <2>1, <3>1, PostSkips
    <3>3. registry'[b].violations = registry[b].violations
      BY <1>1, <1>2, <1>5, <2>4
    <3> QED BY <2>1, <3>1, <3>2, <3>3
  <2> QED BY <2>3, <2>4
<1>9. ASSUME NEW b \in Agents
      PROVE  /\ registry[b].state = "excluded" => registry'[b].state = "excluded"
             /\ registry'[b].violations >= registry[b].violations
  <2>1. registry[b].violations \in Nat
    BY DEF IInv, RegistryTyped
  <2>2. CASE b = a
    BY <1>2, <1>3, <1>5, <2>2
  <2>3. CASE b # a
    BY <1>5, <2>1, <2>3
  <2> QED BY <2>2, <2>3
<1> QED BY <1>5, <1>6, <1>7, <1>8, <1>9 DEF IInv

\* One step of the specification.
LEMMA StepSound ==
  ASSUME IInv, [Next]_vars
  PROVE  /\ IInv'
         /\ \A b \in Agents :
              /\ registry[b].state = "excluded" => registry'[b].state = "excluded"
              /\ registry'[b].violations >= registry[b].violations
<1> DEFINE Kept == /\ IInv'
                   /\ \A b \in Agents :
                        /\ registry[b].state = "excluded" => registry'[b].state = "excluded"
                        /\ registry'[b].violations >= registry[b].violations
<1>1. ASSUME UNCHANGED <<registry, log>> PROVE Kept
  <2>1. registry' = registry /\ log' = log
    BY <1>1
  <2>2. \A b \in Agents : Offences(b)' = Offences(b)
    BY <2>1 DEF Offences
  <2>3. IInv'
    BY <2>1, <2>2 DEF IInv, RegistryTyped, ViolationsRecorded, ExcludedAtFour
  <2>4. \A b \in Agents : registry[b].violations \in Nat
    BY DEF IInv, RegistryTyped
  <2> QED BY <2>1, <2>3, <2>4
<1>2. ASSUME NEW a \in Agents, NEW ts \in Days, SettledPublish(a, ts) PROVE Kept
  BY <1>2, RecordSound DEF SettledPublish
<1>3. ASSUME NEW a \in Agents, NEW k \in Canaries, NEW passed \in BOOLEAN,
             Judge(k, a, passed)
      PROVE  Kept
  BY <1>3, RecordSound DEF Judge
<1>4. ASSUME NEW a \in Agents, Contradict(a) PROVE Kept
  BY <1>4, RecordSound DEF Contradict
<1>5. ASSUME NEW a \in Agents, Corroborate(a) PROVE Kept
  BY <1>5, RecordSound DEF Corroborate
<1>6. ASSUME UseUp PROVE Kept
  BY <1>1, <1>6 DEF UseUp
<1>7. ASSUME Tick PROVE Kept
  BY <1>1, <1>7 DEF Tick
<1>8. ASSUME Crash PROVE Kept
  BY <1>1, <1>8 DEF Crash
<1>9. ASSUME NEW k \in Canaries, Plant(k) PROVE Kept
  BY <1>1, <1>9 DEF Plant
<1>10. ASSUME UNCHANGED vars PROVE Kept
  BY <1>1, <1>10 DEF vars
<1>11. Kept
  <2> HIDE DEF Kept
  <2>1. ASSUME NEW a \in Agents,
               \/ \E ts \in Days : SettledPublish(a, ts)
               \/ \E k \in Canaries, passed \in BOOLEAN : Judge(k, a, passed)
               \/ Contradict(a) \/ Corroborate(a)
        PROVE  Kept
    BY <2>1, <1>2, <1>3, <1>4, <1>5
  <2>2. CASE Next
    BY <2>1, <2>2, <1>6, <1>7, <1>8, <1>9 DEF Next
  <2> QED BY <2>2, <1>10
<1> QED BY <1>11

\* Initially nobody has been judged.
LEMMA InitSound == Init => IInv
<1> SUFFICES ASSUME Init PROVE IInv
  OBVIOUS
<1>1. RegistryTyped /\ ExcludedAtFour
  BY DEF Init, RegistryTyped, ExcludedAtFour, States
<1>2. Table(log)
  BY EmptyTable DEF Init
<1>3. ASSUME NEW a \in Agents PROVE registry[a].violations = Count(log, Offences(a))
  <2>1. Offences(a) = {} /\ registry[a].violations = 0
    BY DEF Init, Offences
  <2>2. [t \in {} |-> log[t]] = [t \in {} |-> 0]
    OBVIOUS
  <2>3. Count(log, {}) = 0
    <3>1. Units([t \in {} |-> log[t]]) = {}
      BY DEF Units
    <3> QED BY <3>1, FS_EmptySet DEF Count, Total
  <2> QED BY <2>1, <2>3
<1> QED BY <1>1, <1>2, <1>3 DEF IInv, ViolationsRecorded

\* service.py: the registry's count is the number of negative trust events,
\* and an agent is excluded exactly from the fourth on.
THEOREM ViolationsCounted == Spec => []ViolationsExclude
<1>1. IInv /\ [Next]_vars => IInv'
  BY StepSound
<1>2. IInv => ViolationsExclude
  BY DEF IInv, ViolationsExclude
<1> QED BY InitSound, <1>1, <1>2, PTL DEF Spec

\* membership.py: no later evidence, decay, clock or crash readmits an
\* excluded agent or strikes a violation from its record.
THEOREM ExclusionIsFinal == Spec => ExclusionStands
<1> DEFINE Stands ==
      \A a \in Agents :
        /\ registry[a].state = "excluded" => registry'[a].state = "excluded"
        /\ registry'[a].violations >= registry[a].violations
<1>1. IInv /\ [Next]_vars => IInv'
  BY StepSound
<1>2. IInv /\ [Next]_vars => [Stands]_vars
  BY StepSound
<1> QED BY InitSound, <1>1, <1>2, PTL DEF Spec, ExclusionStands

----------------------------------------------------------------------------
(* Canaries.                                                               *)

\* The verdicts on record count what was used up, what is being judged, and
\* what a crash kept from being used up.
CanaryInv ==
  /\ Table(log)
  /\ crashes \in Nat
  /\ pool \in [Canaries -> {"absent", "unused", "used"}]
  /\ judged # NULL => judged \in Canaries /\ pool[judged] = "unused"
  /\ \A k \in Canaries :
       /\ pool[k] = "used" \/ judged = k => VerdictsOn(k) # {}
       /\ Count(log, VerdictsOn(k))
            <= crashes + (IF pool[k] = "used" \/ judged = k THEN 1 ELSE 0)

\* One more row of evidence counts towards the canary it refers to, if any.
LEMMA VerdictPosted ==
  ASSUME Table(log), NEW a, NEW criterion, NEW positive, NEW cause, NEW ref,
         log' = Post(log, Evidence(a, criterion, positive, cause, ref)),
         NEW k \in Canaries
  PROVE  /\ Table(log')
         /\ VerdictsOn(k) \subseteq VerdictsOn(k)'
         /\ ref = k => VerdictsOn(k)' # {}
         /\ Count(log, VerdictsOn(k)) \in Nat
         /\ Count(log', VerdictsOn(k)')
              = Count(log, VerdictsOn(k)) + (IF ref = k THEN 1 ELSE 0)
<1> DEFINE row == Evidence(a, criterion, positive, cause, ref)
<1>1. row.ref = ref
  BY DEF Evidence
<1>2. log' = Post(log, row) /\ VerdictsOn(k) \subseteq DOMAIN log
  BY DEF VerdictsOn
<1> HIDE DEF row
<1>3. Table(log') /\ DOMAIN log' = DOMAIN log \cup {row}
  BY <1>2, PostCounts
<1>4. Count(log, VerdictsOn(k)) \in Nat
  BY <1>2, SelectionCounts
<1>5. CASE ref = k
  <2>1. VerdictsOn(k)' = VerdictsOn(k) \cup {row}
    BY <1>1, <1>3, <1>5 DEF VerdictsOn
  <2>2. row \in DOMAIN log => row \in VerdictsOn(k)
    BY <1>1, <1>5 DEF VerdictsOn
  <2>3. Count(Post(log, row), VerdictsOn(k) \cup {row}) = Count(log, VerdictsOn(k)) + 1
    BY <1>2, <2>2, PostCounts
  <2> QED BY <1>2, <1>3, <1>4, <1>5, <2>1, <2>3
<1>6. CASE ref # k
  <2>1. VerdictsOn(k)' = VerdictsOn(k) /\ row \notin VerdictsOn(k)
    BY <1>1, <1>3, <1>6 DEF VerdictsOn
  <2>2. Count(log', VerdictsOn(k)) = Count(log, VerdictsOn(k))
    BY <1>2, <2>1, PostSkips
  <2> QED BY <1>3, <1>4, <1>6, <2>1, <2>2
<1> QED BY <1>5, <1>6

\* Evidence that is not about a canary leaves the verdicts as they are.
LEMMA OtherEvidence ==
  ASSUME CanaryInv, NEW a, NEW criterion, NEW positive, NEW weight, NEW cause, NEW ts,
         Record(a, criterion, positive, weight, cause, NULL, ts),
         UNCHANGED <<pool, judged, crashes>>
  PROVE  CanaryInv'
<1>1. log' = Post(log, Evidence(a, criterion, positive, cause, NULL)) /\ Table(log)
  BY DEF Record, CanaryInv
<1>2. Table(log')
  BY <1>1, PostCounts
<1>3. ASSUME NEW k \in Canaries
      PROVE  /\ VerdictsOn(k) \subseteq VerdictsOn(k)'
             /\ Count(log', VerdictsOn(k)') = Count(log, VerdictsOn(k))
  <2>1. k # NULL
    BY TrustAssumption
  <2> QED BY <1>1, <2>1, VerdictPosted
<1>4. UNCHANGED <<pool, judged, crashes>>
  OBVIOUS
<1> QED BY <1>2, <1>3, <1>4 DEF CanaryInv

\* An audit: the verdict, and then the canary is used up or a crash forgets it.
LEMMA AuditSound ==
  ASSUME CanaryInv
  PROVE  /\ \A k \in Canaries, a \in Agents, passed \in BOOLEAN :
              Judge(k, a, passed) => CanaryInv'
         /\ UseUp \/ Crash => CanaryInv'
<1>1. ASSUME NEW k \in Canaries, NEW a \in Agents, NEW passed \in BOOLEAN,
             Judge(k, a, passed)
      PROVE  CanaryInv'
  <2>1. PICK cause : log' = Post(log, Evidence(a, "honesty", passed, cause, k))
    BY <1>1 DEF Judge, Record
  <2>2. /\ judged = NULL /\ judged' = k /\ pool[k] = "unused"
        /\ UNCHANGED <<pool, crashes>> /\ k # NULL /\ NULL \notin Canaries
    BY <1>1, TrustAssumption DEF Judge
  <2>3. Table(log)
    BY DEF CanaryInv
  <2>4. Table(log')
    BY <2>1, <2>3, PostCounts
  <2>5. \A other \in Canaries :
          /\ VerdictsOn(other) \subseteq VerdictsOn(other)'
          /\ k = other => VerdictsOn(other)' # {}
          /\ Count(log, VerdictsOn(other)) \in Nat
          /\ Count(log', VerdictsOn(other)')
               = Count(log, VerdictsOn(other)) + (IF k = other THEN 1 ELSE 0)
    BY <2>1, <2>3, VerdictPosted
  <2>6. ASSUME NEW other \in Canaries
        PROVE  /\ pool'[other] = "used" \/ judged' = other => VerdictsOn(other)' # {}
               /\ Count(log', VerdictsOn(other)')
                    <= crashes' + (IF pool'[other] = "used" \/ judged' = other THEN 1 ELSE 0)
    <3>1. CASE other = k
      BY <2>2, <2>5, <3>1 DEF CanaryInv
    <3>2. CASE other # k
      BY <2>2, <2>5, <3>2 DEF CanaryInv
    <3> QED BY <3>1, <3>2
  <2> QED BY <2>2, <2>4, <2>6 DEF CanaryInv
<1>2. ASSUME UseUp \/ Crash PROVE CanaryInv'
  <2>1. log' = log /\ judged # NULL /\ judged' = NULL /\ NULL \notin Canaries
    BY <1>2, TrustAssumption DEF UseUp, Crash
  <2>2. \A k \in Canaries : VerdictsOn(k)' = VerdictsOn(k)
    BY <2>1 DEF VerdictsOn
  <2>3. \A k \in Canaries : Count(log, VerdictsOn(k)) \in Nat
    BY SelectionCounts DEF CanaryInv, VerdictsOn
  <2>4. CASE UseUp
    BY <2>1, <2>2, <2>3, <2>4 DEF UseUp, CanaryInv
  <2>5. CASE Crash
    BY <2>1, <2>2, <2>3, <2>5 DEF Crash, CanaryInv
  <2> QED BY <1>2, <2>4, <2>5
<1> QED BY <1>1, <1>2

\* canary.py: a canary is never used up without its verdict on record, and
\* a crash between the two commits costs at most one more verdict on it.
THEOREM SignalKept == Spec => []CanarySignalKept
<1>1. Init => CanaryInv
  <2> SUFFICES ASSUME Init PROVE CanaryInv
    OBVIOUS
  <2>1. Table(log)
    BY EmptyTable DEF Init
  <2>2. \A k \in Canaries : VerdictsOn(k) = {}
    BY DEF Init, VerdictsOn
  <2>3. Count(log, {}) = 0
    <3>1. Units([t \in {} |-> log[t]]) = {}
      BY DEF Units
    <3> QED BY <3>1, FS_EmptySet DEF Count, Total
  <2>4. judged = NULL /\ crashes = 0 /\ NULL \notin Canaries
        /\ pool = [k \in Canaries |-> "absent"]
    BY TrustAssumption DEF Init
  <2>5. \A k \in Canaries : Count(log, VerdictsOn(k)) = 0 /\ pool[k] # "used" /\ judged # k
    BY <2>2, <2>3, <2>4
  <2> QED BY <2>1, <2>4, <2>5 DEF CanaryInv
<1>2. CanaryInv /\ [Next]_vars => CanaryInv'
  <2> SUFFICES ASSUME CanaryInv, [Next]_vars PROVE CanaryInv'
    OBVIOUS
  <2>1. ASSUME NEW a \in Agents, NEW ts \in Days, SettledPublish(a, ts) PROVE CanaryInv'
    BY <2>1, OtherEvidence DEF SettledPublish
  <2>2. ASSUME NEW a \in Agents, Contradict(a) PROVE CanaryInv'
    BY <2>2, OtherEvidence DEF Contradict
  <2>3. ASSUME NEW a \in Agents, Corroborate(a) PROVE CanaryInv'
    BY <2>3, OtherEvidence DEF Corroborate
  <2>4. ASSUME NEW k \in Canaries, Plant(k) PROVE CanaryInv'
    <3>1. \A other \in Canaries : VerdictsOn(other)' = VerdictsOn(other)
      BY <2>4 DEF Plant, VerdictsOn
    <3> QED BY <2>4, <3>1, TrustAssumption DEF Plant, CanaryInv
  <2>5. CASE Tick \/ UNCHANGED vars
    <3>1. UNCHANGED <<log, pool, judged, crashes>>
      BY <2>5 DEF Tick, vars
    <3> QED BY <3>1 DEF CanaryInv, VerdictsOn
  <2> QED BY <2>1, <2>2, <2>3, <2>4, <2>5, AuditSound DEF Next
<1>3. CanaryInv => CanarySignalKept
  <2> SUFFICES ASSUME CanaryInv PROVE CanarySignalKept
    OBVIOUS
  <2>1. \A k \in Canaries : Count(log, VerdictsOn(k)) \in Nat
    BY SelectionCounts DEF CanaryInv, VerdictsOn
  <2> QED BY <2>1 DEF CanaryInv, CanarySignalKept
<1> QED BY <1>1, <1>2, <1>3, PTL DEF Spec

----------------------------------------------------------------------------
(* Scores.                                                                 *)

ScoreRows == [gain : Nat, loss : Nat, at : Nat]

\* Masses are recorded evidence, and without violations there is no loss and
\* nothing to sanction.
ScoreInv ==
  /\ Table(log)
  /\ clock \in Nat
  /\ RegistryTyped
  /\ ledger \in [Agents -> [Criteria -> ScoreRows]]
  /\ ScoresExplained
  /\ \A a \in Agents : registry[a].violations = 0 =>
       /\ registry[a].state \in {"provisional", "member"}
       /\ \A c \in Criteria : ledger[a][c].loss = 0

\* Powers of two are positive: 2 ^ n is the number of subsets of n elements.
LEMMA PowerPositive ==
  ASSUME NEW n \in Nat
  PROVE  2 ^ n \in Nat \ {0}
<1>1. IsFiniteSet(1..n) /\ Cardinality(1..n) = n
  BY FS_Interval
<1>2. IsFiniteSet(SUBSET (1..n)) /\ Cardinality(SUBSET (1..n)) = 2 ^ n
  BY <1>1, FS_SUBSET
<1>3. {} \in SUBSET (1..n)
  OBVIOUS
<1> QED
  BY <1>2, <1>3, FS_CardinalityType, FS_EmptySet

\* Rounding down never adds.
LEMMA DivisionLowers ==
  ASSUME NEW m \in Nat, NEW d \in Nat \ {0}
  PROVE  m \div d \in Nat /\ m \div d <= m
<1> DEFINE q == m \div d
<1>1. q \in Int /\ m = d * q + (m % d) /\ m % d \in 0..(d - 1)
  OBVIOUS
<1> HIDE DEF q
<1>2. q >= 0
  BY <1>1
<1>3. d * q >= q
  <2>1. d - 1 \in Nat /\ q \in Nat
    BY <1>1, <1>2
  <2>2. (d - 1) * q \in Nat
    BY <2>1
  <2>3. d * q = (d - 1) * q + q
    BY <2>1
  <2> QED BY <2>1, <2>2, <2>3
<1> QED BY <1>1, <1>2, <1>3 DEF q

\* Decay only forgets (ledger.py).
LEMMA DecayForgets ==
  ASSUME NEW row \in ScoreRows, NEW criterion \in Criteria, NEW ts \in Nat
  PROVE  LET left == Decay(row, criterion, ts)
         IN  /\ left.gain \in Nat /\ left.gain <= row.gain
             /\ left.loss \in Nat /\ left.loss <= row.loss
<1> DEFINE left == Decay(row, criterion, ts)
           factor == 2 ^ (Halvings(criterion) * (ts - row.at))
<1>1. row.gain \in Nat /\ row.loss \in Nat /\ row.at \in Nat
  BY DEF ScoreRows
<1>2. CASE ts <= row.at
  BY <1>1, <1>2 DEF Decay
<1>3. CASE ~(ts <= row.at)
  <2>1. ts - row.at \in Nat /\ Halvings(criterion) \in {1, 2}
    BY <1>1, <1>3 DEF Halvings
  <2>2. Halvings(criterion) * (ts - row.at) \in Nat
    BY <2>1
  <2>3. factor \in Nat \ {0}
    BY <2>2, PowerPositive
  <2>4. left = [row EXCEPT !.gain = row.gain \div factor, !.loss = row.loss \div factor]
    BY <1>3 DEF Decay
  <2> HIDE DEF factor, left
  <2>5. left.gain = row.gain \div factor /\ left.loss = row.loss \div factor
    BY <2>4 DEF ScoreRows
  <2>6. /\ left.gain \in Nat /\ left.gain <= row.gain
        /\ left.loss \in Nat /\ left.loss <= row.loss
    BY <1>1, <2>3, <2>5, DivisionLowers
  <2> QED BY <2>6 DEF left
<1> QED BY <1>2, <1>3

\* A score with enough evidence and no loss is well above the bars of a
\* warning and of a penalty, that is p = 8 and p = 5.
LEMMA NoLossNotLow ==
  ASSUME NEW row \in ScoreRows, row.loss = 0, Observations(row) >= 5 * Grain,
         NEW p \in {5, 8}
  PROVE  ~LowerBelow(row, p)
<1> DEFINE g == row.gain
           alpha == Grain + g
           n == 4 * Grain + g
           lead == 20 * alpha - p * n
<1>1. g \in Nat /\ g >= 5 * Grain /\ Grain \in Nat \ {0}
  BY TrustAssumption DEF ScoreRows, Observations
<1>2. Alpha(row) = alpha /\ Beta(row) = 3 * Grain /\ Alpha(row) + Beta(row) = n
  BY <1>1 DEF Alpha, Beta
<1>3. lead >= 12 * (g - Grain)
  BY <1>1
<1>4. g - Grain >= 4 * Grain /\ lead >= 48 * Grain /\ lead \in Nat
  BY <1>1, <1>3
<1>5. alpha \in Nat /\ n \in Nat /\ n + Grain >= alpha
  BY <1>1
<1> HIDE DEF lead, alpha, n, g
<1>6. lead * lead >= (48 * Grain) * (48 * Grain)
  <2>1. lead * lead >= lead * (48 * Grain)
    BY <1>1, <1>4
  <2>2. lead * (48 * Grain) >= (48 * Grain) * (48 * Grain)
    BY <1>1, <1>4
  <2> QED BY <1>1, <1>4, <2>1, <2>2
<1>7. lead * lead * (n + Grain) >= (48 * Grain) * (48 * Grain) * alpha
  <2>1. lead * lead * (n + Grain) >= lead * lead * alpha
    BY <1>1, <1>4, <1>5
  <2>2. lead * lead * alpha >= (48 * Grain) * (48 * Grain) * alpha
    BY <1>1, <1>4, <1>5, <1>6
  <2> QED BY <1>1, <1>4, <1>5, <2>1, <2>2
<1>8. (48 * Grain) * (48 * Grain) * alpha >= 400 * alpha * (3 * Grain) * Grain
  <2>1. Grain * Grain * alpha \in Nat
    BY <1>1, <1>5
  <2>2. (48 * Grain) * (48 * Grain) * alpha = 2304 * (Grain * Grain * alpha)
    BY <1>1, <1>5
  <2>3. 400 * alpha * (3 * Grain) * Grain = 1200 * (Grain * Grain * alpha)
    BY <1>1, <1>5
  <2> QED BY <2>1, <2>2, <2>3
<1>9. ~(lead * lead * (n + Grain) < 400 * alpha * (3 * Grain) * Grain)
  BY <1>1, <1>4, <1>5, <1>7, <1>8
<1>10. lead = 20 * Alpha(row) - p * (Alpha(row) + Beta(row))
  BY <1>2 DEF lead
<1> QED
  BY <1>2, <1>4, <1>9, <1>10 DEF LowerBelow

\* An agent without violations and without loss is not sanctioned.
LEMMA NoLossNoSanction ==
  ASSUME NEW state \in {"provisional", "member"}, NEW row \in ScoreRows, row.loss = 0,
         NEW honesty
  PROVE  EvaluateTransition(state, row, 0, honesty) \in {"provisional", "member"}
<1>1. Observations(row) < 5 * Grain \/ Observations(row) >= 5 * Grain
  BY TrustAssumption DEF ScoreRows, Observations
<1>2. Observations(row) >= 5 * Grain => ~LowerBelow(row, 5) /\ ~LowerBelow(row, 8)
  BY NoLossNotLow
<1> HIDE DEF Observations, LowerBelow
<1> QED
  BY <1>1, <1>2 DEF EvaluateTransition, ExcludeViolations

\* One more row of evidence is counted for its agent, criterion and sign.
LEMMA RowsPosted ==
  ASSUME Table(log), NEW a, NEW criterion, NEW positive, NEW cause, NEW ref,
         log' = Post(log, Evidence(a, criterion, positive, cause, ref)),
         NEW b, NEW c, NEW sign
  PROVE  /\ Count(log, RowsOf(b, c, sign)) \in Nat
         /\ b = a /\ c = criterion /\ sign = positive
              => Count(log', RowsOf(b, c, sign)') = Count(log, RowsOf(b, c, sign)) + 1
         /\ ~(b = a /\ c = criterion /\ sign = positive)
              => Count(log', RowsOf(b, c, sign)') = Count(log, RowsOf(b, c, sign))
<1> DEFINE row == Evidence(a, criterion, positive, cause, ref)
<1>1. row.agent = a /\ row.criterion = criterion /\ row.positive = positive
  BY DEF Evidence
<1>2. log' = Post(log, row) /\ RowsOf(b, c, sign) \subseteq DOMAIN log
  BY DEF RowsOf
<1> HIDE DEF row
<1>3. DOMAIN log' = DOMAIN log \cup {row}
  BY <1>2, PostCounts
<1>4. Count(log, RowsOf(b, c, sign)) \in Nat
  BY <1>2, SelectionCounts
<1>5. CASE b = a /\ c = criterion /\ sign = positive
  <2>1. RowsOf(b, c, sign)' = RowsOf(b, c, sign) \cup {row}
    BY <1>1, <1>3, <1>5 DEF RowsOf
  <2>2. row \in DOMAIN log => row \in RowsOf(b, c, sign)
    BY <1>1, <1>5 DEF RowsOf
  <2>3. Count(Post(log, row), RowsOf(b, c, sign) \cup {row}) = Count(log, RowsOf(b, c, sign)) + 1
    BY <1>2, <2>2, PostCounts
  <2> QED BY <1>2, <1>4, <1>5, <2>1, <2>3
<1>6. CASE ~(b = a /\ c = criterion /\ sign = positive)
  <2>1. RowsOf(b, c, sign)' = RowsOf(b, c, sign) /\ row \notin RowsOf(b, c, sign)
    BY <1>1, <1>3, <1>6 DEF RowsOf
  <2>2. Count(Post(log, row), RowsOf(b, c, sign)) = Count(log, RowsOf(b, c, sign))
    BY <1>2, <2>1, PostSkips
  <2> QED BY <1>2, <1>4, <1>6, <2>1, <2>2
<1> QED BY <1>5, <1>6

\* What one piece of evidence makes of a row: decayed, then one mass grows.
LEMMA UpdateBounded ==
  ASSUME NEW row \in ScoreRows, NEW criterion \in Criteria, NEW positive \in BOOLEAN,
         NEW weight \in Nat, NEW ts \in Nat
  PROVE  LET scored == Update(Decay(row, criterion, ts), positive, weight, ts)
         IN  /\ scored \in ScoreRows
             /\ scored.gain <= row.gain + (IF positive THEN weight ELSE 0)
             /\ scored.loss <= row.loss + (IF positive THEN 0 ELSE FallMultiplier * weight)
<1> DEFINE left == Decay(row, criterion, ts)
           scored == Update(left, positive, weight, ts)
<1>1. /\ left.gain \in Nat /\ left.gain <= row.gain
      /\ left.loss \in Nat /\ left.loss <= row.loss
  BY DecayForgets
<1>2. row.gain \in Nat /\ row.loss \in Nat
  BY DEF ScoreRows
<1> HIDE DEF left
<1>3. /\ scored.gain = left.gain + (IF positive THEN weight ELSE 0)
      /\ scored.loss = left.loss + (IF positive THEN 0 ELSE weight * FallMultiplier)
      /\ scored.gain \in Nat /\ scored.loss \in Nat
  BY <1>1 DEF Update, FallMultiplier
<1>4. scored \in ScoreRows
  BY <1>1 DEF Update, FallMultiplier, ScoreRows
<1>5. /\ scored.gain <= row.gain + (IF positive THEN weight ELSE 0)
      /\ scored.loss <= row.loss + (IF positive THEN 0 ELSE FallMultiplier * weight)
  BY <1>1, <1>2, <1>3 DEF FallMultiplier
<1> QED BY <1>4, <1>5 DEF left

\* Recording evidence keeps every score within the record.
LEMMA RecordScores ==
  ASSUME ScoreInv, NEW a \in Agents, NEW criterion \in Criteria, NEW positive \in BOOLEAN,
         NEW weight \in Nat, weight <= Grain, NEW cause, NEW ref, NEW ts \in Nat,
         Record(a, criterion, positive, weight, cause, ref, ts), UNCHANGED clock
  PROVE  ScoreInv'
<1> DEFINE row    == ledger[a][criterion]
           scored == Update(Decay(row, criterion, ts), positive, weight, ts)
           more   == Violations(a, positive)
           gate   == HonestyObservations(a, criterion, scored, ts)
           next   == EvaluateTransition(registry[a].state, scored, more, gate)
<1>1. row \in ScoreRows /\ registry[a].state \in States /\ registry[a].violations \in Nat
  BY DEF ScoreInv, RegistryTyped
<1>2. /\ scored \in ScoreRows
      /\ scored.gain <= row.gain + (IF positive THEN weight ELSE 0)
      /\ scored.loss <= row.loss + (IF positive THEN 0 ELSE FallMultiplier * weight)
  BY <1>1, UpdateBounded
<1>3. more \in Nat /\ more = registry[a].violations + (IF positive THEN 0 ELSE 1)
  BY <1>1 DEF Violations
<1>4. next \in States
  BY <1>1, <1>3, TransitionExcludes
<1>5. /\ ledger' = [ledger EXCEPT ![a][criterion] = scored]
      /\ log' = Post(log, Evidence(a, criterion, positive, cause, ref))
      /\ registry' = [registry EXCEPT ![a] = [state |-> next, violations |-> more]]
  BY DEF Record
<1>6. more = 0 /\ registry[a].state \in {"provisional", "member"} /\ scored.loss = 0
        => next \in {"provisional", "member"}
  BY <1>2, NoLossNoSanction
<1>7. Table(log) /\ Table(log') /\ Grain \in Nat
  BY <1>5, PostCounts, TrustAssumption DEF ScoreInv
<1>8. \A b \in Agents, c \in Criteria, sign \in BOOLEAN :
        /\ Count(log, RowsOf(b, c, sign)) \in Nat
        /\ b = a /\ c = criterion /\ sign = positive
             => Count(log', RowsOf(b, c, sign)') = Count(log, RowsOf(b, c, sign)) + 1
        /\ ~(b = a /\ c = criterion /\ sign = positive)
             => Count(log', RowsOf(b, c, sign)') = Count(log, RowsOf(b, c, sign))
  BY <1>5, <1>7, RowsPosted
<1> HIDE DEF scored, more, gate, next
<1>9. /\ ledger' \in [Agents -> [Criteria -> ScoreRows]]
      /\ ledger'[a][criterion] = scored
      /\ \A b \in Agents, c \in Criteria :
           ~(b = a /\ c = criterion) => ledger'[b][c] = ledger[b][c]
  BY <1>2, <1>5 DEF ScoreInv
<1>10. /\ RegistryTyped'
       /\ registry'[a].state = next /\ registry'[a].violations = more
       /\ \A b \in Agents \ {a} : registry'[b] = registry[b]
  BY <1>3, <1>4, <1>5 DEF ScoreInv, RegistryTyped
<1>11. ASSUME NEW b \in Agents, NEW c \in Criteria
       PROVE  /\ ledger'[b][c].gain <= Grain * Count(log', RowsOf(b, c, TRUE)')
              /\ ledger'[b][c].loss <= FallMultiplier * Grain * Count(log', RowsOf(b, c, FALSE)')
  <2> DEFINE praised == Count(log, RowsOf(b, c, TRUE))
             blamed  == Count(log, RowsOf(b, c, FALSE))
  <2>1. /\ ledger[b][c].gain <= Grain * praised
        /\ ledger[b][c].loss <= FallMultiplier * Grain * blamed
    BY DEF ScoreInv, ScoresExplained
  <2>2. praised \in Nat /\ blamed \in Nat
    BY <1>8
  <2>3. ledger[b][c].gain \in Nat /\ ledger[b][c].loss \in Nat
    BY DEF ScoreInv, ScoreRows
  <2> DEFINE newPraised == Count(log', RowsOf(b, c, TRUE)')
             newBlamed  == Count(log', RowsOf(b, c, FALSE)')
  <2>4. /\ b = a /\ c = criterion /\ positive = TRUE
             => newPraised = praised + 1 /\ newBlamed = blamed
        /\ b = a /\ c = criterion /\ positive = FALSE
             => newPraised = praised /\ newBlamed = blamed + 1
        /\ ~(b = a /\ c = criterion)
             => newPraised = praised /\ newBlamed = blamed
    BY <1>8, Zenon
  <2> HIDE DEF praised, blamed, newPraised, newBlamed
  <2>5. /\ Grain * (praised + 1) = Grain * praised + Grain
        /\ FallMultiplier * Grain * (blamed + 1)
             = FallMultiplier * Grain * blamed + FallMultiplier * Grain
        /\ Grain * praised \in Nat /\ FallMultiplier * Grain * blamed \in Nat
        /\ FallMultiplier * weight <= FallMultiplier * Grain
        /\ FallMultiplier * weight \in Nat /\ FallMultiplier * Grain \in Nat
    BY <1>7, <2>2 DEF FallMultiplier
  <2>6. ASSUME b = a, c = criterion
        PROVE  /\ ledger'[b][c] = scored /\ ledger[b][c] = row
               /\ scored.gain \in Nat /\ scored.loss \in Nat
    BY <1>2, <1>9, <2>6 DEF ScoreRows
  <2>7. CASE b = a /\ c = criterion /\ positive = TRUE
    <3>1. newPraised = praised + 1 /\ newBlamed = blamed
      BY <2>4, <2>7
    <3>2. scored.gain <= row.gain + weight /\ scored.loss <= row.loss
      BY <1>2, <2>3, <2>6, <2>7
    <3> HIDE DEF row
    <3>3. scored.gain <= Grain * newPraised /\ scored.loss <= FallMultiplier * Grain * newBlamed
      BY <1>7, <2>1, <2>3, <2>5, <2>6, <2>7, <3>1, <3>2
    <3> QED BY <2>6, <2>7, <3>3 DEF newPraised, newBlamed
  <2>8. CASE b = a /\ c = criterion /\ positive = FALSE
    <3>1. newPraised = praised /\ newBlamed = blamed + 1
      BY <2>4, <2>8
    <3>2. scored.gain <= row.gain /\ scored.loss <= row.loss + FallMultiplier * weight
      BY <1>2, <2>3, <2>6, <2>8
    <3> HIDE DEF row
    <3>3. scored.gain <= Grain * newPraised /\ scored.loss <= FallMultiplier * Grain * newBlamed
      BY <1>7, <2>1, <2>3, <2>5, <2>6, <2>8, <3>1, <3>2
    <3> QED BY <2>6, <2>8, <3>3 DEF newPraised, newBlamed
  <2>9. CASE ~(b = a /\ c = criterion)
    <3>1. newPraised = praised /\ newBlamed = blamed
      BY <2>4, <2>9
    <3> QED BY <1>9, <2>1, <2>9, <3>1 DEF newPraised, newBlamed
  <2> QED BY <2>7, <2>8, <2>9
<1>12. ASSUME NEW b \in Agents, registry'[b].violations = 0
       PROVE  /\ registry'[b].state \in {"provisional", "member"}
              /\ \A c \in Criteria : ledger'[b][c].loss = 0
  <2>1. CASE b = a
    <3>1. positive /\ registry[a].violations = 0 /\ more = 0
      BY <1>1, <1>3, <1>10, <1>12, <2>1
    <3>2. /\ registry[a].state \in {"provisional", "member"}
          /\ \A c \in Criteria : ledger[a][c].loss = 0
      BY <3>1 DEF ScoreInv
    <3>3. scored.loss = 0
      BY <1>1, <1>2, <3>1, <3>2 DEF ScoreRows
    <3> QED BY <1>6, <1>9, <1>10, <2>1, <3>1, <3>2, <3>3
  <2>2. CASE b # a
    BY <1>9, <1>10, <1>12, <2>2 DEF ScoreInv
  <2> QED BY <2>1, <2>2
<1>13. ScoresExplained'
  BY <1>11 DEF ScoresExplained
<1> QED
  BY <1>7, <1>9, <1>10, <1>12, <1>13 DEF ScoreInv

\* Every step keeps the scores within the record.
LEMMA ScoreStep ==
  ASSUME ScoreInv, [Next]_vars
  PROVE  ScoreInv'
<1>1. clock \in Nat /\ Days \subseteq Nat
  BY DEF ScoreInv, Days
<1>2. /\ Grain \in Nat /\ Grain <= Grain
      /\ Grain \div 2 \in Nat /\ Grain \div 2 <= Grain
      /\ "honesty" \in Criteria /\ "reliability" \in Criteria
  BY TrustAssumption, DivisionLowers DEF Criteria
<1>3. ASSUME UNCHANGED <<registry, ledger, log>>, clock' \in Nat PROVE ScoreInv'
  <2>1. registry' = registry /\ ledger' = ledger /\ log' = log
    BY <1>3
  <2>2. \A b \in Agents, c \in Criteria, sign \in BOOLEAN : RowsOf(b, c, sign)' = RowsOf(b, c, sign)
    BY <2>1 DEF RowsOf
  <2> QED BY <1>3, <2>1, <2>2 DEF ScoreInv, RegistryTyped, ScoresExplained
<1>4. ASSUME NEW a \in Agents, NEW ts \in Days, SettledPublish(a, ts) PROVE ScoreInv'
  BY <1>1, <1>2, <1>4, RecordScores DEF SettledPublish
<1>5. ASSUME NEW a \in Agents, NEW k \in Canaries, NEW passed \in BOOLEAN,
             Judge(k, a, passed)
      PROVE  ScoreInv'
  BY <1>1, <1>2, <1>5, RecordScores DEF Judge
<1>6. ASSUME NEW a \in Agents, Contradict(a) PROVE ScoreInv'
  BY <1>1, <1>2, <1>6, RecordScores DEF Contradict
<1>7. ASSUME NEW a \in Agents, Corroborate(a) PROVE ScoreInv'
  BY <1>1, <1>2, <1>7, RecordScores DEF Corroborate
<1>8. ASSUME NEW k \in Canaries, Plant(k) PROVE ScoreInv'
  BY <1>1, <1>3, <1>8 DEF Plant
<1>9. CASE UseUp \/ Tick \/ Crash \/ UNCHANGED vars
  <2>1. UNCHANGED <<registry, ledger, log>> /\ clock' \in Nat
    BY <1>1, <1>9 DEF UseUp, Tick, Crash, vars
  <2> QED BY <1>3, <2>1
<1> QED
  BY <1>4, <1>5, <1>6, <1>7, <1>8, <1>9 DEF Next

\* Nothing is known of anybody at first.
LEMMA InitScores == Init => ScoreInv
<1> SUFFICES ASSUME Init PROVE ScoreInv
  OBVIOUS
<1>1. NoEvidence \in ScoreRows /\ NoEvidence.gain = 0 /\ NoEvidence.loss = 0
  BY DEF NoEvidence, ScoreRows
<1>2. Table(log) /\ clock \in Nat
  BY EmptyTable DEF Init
<1>3. RegistryTyped /\ \A a \in Agents : registry[a].state = "provisional"
  BY DEF Init, RegistryTyped, States
<1>4. /\ ledger \in [Agents -> [Criteria -> ScoreRows]]
      /\ \A a \in Agents, c \in Criteria : ledger[a][c] = NoEvidence
  BY <1>1 DEF Init
<1>5. ASSUME NEW a \in Agents, NEW c \in Criteria, NEW sign \in BOOLEAN
      PROVE  Count(log, RowsOf(a, c, sign)) = 0
  <2>1. RowsOf(a, c, sign) = {}
    BY DEF Init, RowsOf
  <2>2. Units([t \in {} |-> log[t]]) = {}
    BY DEF Units
  <2> QED BY <2>1, <2>2, FS_EmptySet DEF Count, Total
<1>6. Grain * 0 = 0 /\ FallMultiplier * Grain * 0 = 0
  BY TrustAssumption DEF FallMultiplier
<1>7. ScoresExplained
  <2>1. TRUE \in BOOLEAN /\ FALSE \in BOOLEAN
    OBVIOUS
  <2>2. ASSUME NEW a \in Agents, NEW c \in Criteria
        PROVE  /\ ledger[a][c].gain <= Grain * Count(log, RowsOf(a, c, TRUE))
               /\ ledger[a][c].loss <= FallMultiplier * Grain * Count(log, RowsOf(a, c, FALSE))
    <3> DEFINE praised == Count(log, RowsOf(a, c, TRUE))
               blamed  == Count(log, RowsOf(a, c, FALSE))
    <3>1. praised = 0 /\ blamed = 0
      BY <1>5, <2>1
    <3> HIDE DEF praised, blamed
    <3>2. ledger[a][c].gain = 0 /\ ledger[a][c].loss = 0
      BY <1>1, <1>4
    <3>3. ledger[a][c].gain <= Grain * praised /\ ledger[a][c].loss <= FallMultiplier * Grain * blamed
      BY <1>6, <3>1, <3>2
    <3> QED BY <3>3 DEF praised, blamed
  <2> QED BY <2>2 DEF ScoresExplained
<1> QED
  BY <1>1, <1>2, <1>3, <1>4, <1>7 DEF ScoreInv

\* ledger.py: the mass behind a score never exceeds the recorded evidence of
\* its agent, criterion and sign: decay, late evidence and the rounding of the
\* one and the other only forget.
THEOREM ScoresRecorded == Spec => []ScoresExplained
<1>1. ScoreInv /\ [Next]_vars => ScoreInv'
  BY ScoreStep
<1>2. ScoreInv => ScoresExplained
  BY DEF ScoreInv
<1> QED BY InitScores, <1>1, <1>2, PTL DEF Spec

\* membership.py (unknown is not sanctioned): without a violation nobody is
\* warned, penalized or excluded, whatever its evidence, its dates and decay.
THEOREM HonestUnsanctioned == Spec => []HonestNeverSanctioned
<1>1. ScoreInv /\ [Next]_vars => ScoreInv'
  BY ScoreStep
<1>2. ScoreInv => HonestNeverSanctioned
  BY DEF ScoreInv, HonestNeverSanctioned
<1> QED BY InitScores, <1>1, <1>2, PTL DEF Spec

----------------------------------------------------------------------------
(* Reports and sanctions (Reputation).                                     *)

\* The events of an agent that were recorded first, up to one place.
KnownBy(a, n) == {i \in EventsOf(a) : i <= n}

\* A verdict is that of one place in the history, with the markers it allows.
SnapshotAt(a, state, violations, markers, n) ==
  /\ n \in 0 .. Len(history)
  /\ violations = Cardinality(Negative(KnownBy(a, n)))
  /\ state = "excluded" <=> violations >= ExcludeViolations
  /\ markers \subseteq KnownBy(a, n)
  /\ KnownBy(a, n) # {} => markers # {}

\* The history explains the registry, and every report and answer is a
\* snapshot of it.
RepInv ==
  /\ \E S : history \in Seq(S)
  /\ \A a \in Agents : registry[a].violations = Cardinality(Negative(EventsOf(a)))
  /\ report # NULL =>
       SnapshotAt(report.agent, report.state, report.violations, report.cited, report.asOf)
  /\ \A x \in answers : SnapshotAt(x.agent, x.state, x.violations, x.markers, x.asOf)
  /\ ScoldsCite

\* The history is a finite sequence, and so is any part of its positions.
LEMMA HistoryFinite ==
  ASSUME \E S : history \in Seq(S)
  PROVE  /\ Len(history) \in Nat /\ DOMAIN history = 1..Len(history)
         /\ \A some \in SUBSET DOMAIN history :
              IsFiniteSet(some) /\ Cardinality(some) \in Nat
<1>1. Len(history) \in Nat /\ DOMAIN history = 1..Len(history)
  OBVIOUS
<1>2. IsFiniteSet(1..Len(history))
  BY <1>1, FS_Interval
<1> QED
  BY <1>1, <1>2, FS_Subset, FS_CardinalityType

\* An event that gets its place leaves what is known up to an earlier one.
LEMMA HistoryGrows ==
  ASSUME \E S : history \in Seq(S), NEW row, history' = Append(history, row)
  PROVE  /\ \E S : history' \in Seq(S)
         /\ DOMAIN history' = DOMAIN history \cup {Len(history) + 1}
         /\ Len(history) + 1 \notin DOMAIN history
         /\ history'[Len(history) + 1] = row
         /\ \A i \in DOMAIN history : history'[i] = history[i]
         /\ \A a, state, violations, markers, n :
              SnapshotAt(a, state, violations, markers, n)
                => SnapshotAt(a, state, violations, markers, n)'
<1>1. PICK S : history \in Seq(S)
  OBVIOUS
<1>2. history \in Seq(S \cup {row})
  BY <1>1
<1>3. history' \in Seq(S \cup {row}) /\ Len(history') = Len(history) + 1
  BY <1>2
<1>4. /\ Len(history) \in Nat /\ DOMAIN history = 1..Len(history)
      /\ DOMAIN history' = DOMAIN history \cup {Len(history) + 1}
      /\ Len(history) + 1 \notin DOMAIN history
      /\ history'[Len(history) + 1] = row
      /\ \A i \in DOMAIN history : history'[i] = history[i]
  BY <1>1
<1>5. ASSUME NEW a, NEW state, NEW violations, NEW markers, NEW n,
             SnapshotAt(a, state, violations, markers, n)
      PROVE  SnapshotAt(a, state, violations, markers, n)'
  <2>1. n \in 0 .. Len(history)
    BY <1>5 DEF SnapshotAt
  <2>2. KnownBy(a, n)' = KnownBy(a, n) /\ KnownBy(a, n) \subseteq DOMAIN history
    BY <1>4, <2>1 DEF KnownBy, EventsOf
  <2>3. Negative(KnownBy(a, n))' = Negative(KnownBy(a, n))
    BY <1>4, <2>2 DEF Negative
  <2>4. n \in 0 .. Len(history')
    BY <1>3, <1>4, <2>1
  <2> QED BY <1>5, <2>2, <2>3, <2>4 DEF SnapshotAt
<1> QED
  BY <1>3, <1>4, <1>5

\* What a step of the ledger means for the history: nothing, or one event of
\* one agent, whose violations it counts.
HistoryStep ==
  \/ history' = history /\ registry' = registry
  \/ \E a \in Agents, positive \in BOOLEAN : \E row :
       /\ history' = Append(history, row)
       /\ row.agent = a /\ row.positive = positive
       /\ registry'[a].violations = Violations(a, positive)
       /\ \A b \in Agents \ {a} : registry'[b] = registry[b]

\* Posting a row adds a copy of it and of no other.
LEMMA PostCopies ==
  ASSUME Table(log), NEW row
  PROVE  /\ Post(log, row) # log
         /\ \A other : Copies(other, Post(log, row)) > Copies(other, log) => other = row
<1>1. Copies(row, log) \in Nat
  BY DEF Table, Copies
<1>2. Copies(row, Post(log, row)) = Copies(row, log) + 1
  BY DEF Post, Copies
<1>3. ASSUME NEW other, other # row PROVE Copies(other, Post(log, row)) = Copies(other, log)
  BY <1>3 DEF Post, Copies, Table
<1>4. ASSUME NEW other PROVE Copies(other, log) \in Nat
  BY DEF Table, Copies
<1> QED BY <1>1, <1>2, <1>3, <1>4

\* Recorded evidence gets its place in the history.
LEMMA RecordedStep ==
  ASSUME IInv, Village, NEW a \in Agents, NEW criterion, NEW positive \in BOOLEAN,
         NEW weight, NEW cause, NEW ref, NEW ts,
         Record(a, criterion, positive, weight, cause, ref, ts)
  PROVE  HistoryStep
<1> DEFINE row == Evidence(a, criterion, positive, cause, ref)
<1>1. log' = Post(log, row) /\ Table(log)
  BY DEF Record, IInv
<1>2. row.agent = a /\ row.positive = positive
  BY DEF Evidence
<1> HIDE DEF row
<1>3. log' # log
  BY <1>1, PostCopies
<1>4. PICK other \in DOMAIN log' :
        Copies(other, log') > Copies(other, log) /\ Recorded(other, other.criterion)
  BY <1>3 DEF Village
<1>5. other = row
  BY <1>1, <1>4, PostCopies
<1>6. PICK placed : /\ history' = Append(history, placed)
                    /\ placed.agent = a /\ placed.positive = positive
  BY <1>2, <1>4, <1>5 DEF Recorded
<1>7. \E next : registry' = [registry EXCEPT ![a] =
                               [state |-> next, violations |-> Violations(a, positive)]]
  BY DEF Record
<1>8. registry'[a].violations = Violations(a, positive)
      /\ \A b \in Agents \ {a} : registry'[b] = registry[b]
  BY <1>7 DEF IInv, RegistryTyped
<1> QED
  BY <1>6, <1>8 DEF HistoryStep

\* Every step of the village keeps history and registry together.
LEMMA VillageStep ==
  ASSUME IInv, Village
  PROVE  HistoryStep
<1>1. ASSUME NEW a \in Agents, NEW ts \in Days, SettledPublish(a, ts) PROVE HistoryStep
  BY <1>1, RecordedStep DEF SettledPublish
<1>2. ASSUME NEW a \in Agents, NEW k \in Canaries, NEW passed \in BOOLEAN,
             Judge(k, a, passed)
      PROVE  HistoryStep
  BY <1>2, RecordedStep DEF Judge
<1>3. ASSUME NEW a \in Agents, Contradict(a) PROVE HistoryStep
  BY <1>3, RecordedStep DEF Contradict
<1>4. ASSUME NEW a \in Agents, Corroborate(a) PROVE HistoryStep
  BY <1>4, RecordedStep DEF Corroborate
<1>5. ASSUME log' = log, registry' = registry PROVE HistoryStep
  BY <1>5 DEF Village, HistoryStep
<1>6. CASE UseUp \/ Tick \/ Crash
  BY <1>5, <1>6 DEF UseUp, Tick, Crash
<1>7. ASSUME NEW k \in Canaries, Plant(k) PROVE HistoryStep
  BY <1>5, <1>7 DEF Plant
<1>8. Next
  BY DEF Village
<1> QED
  BY <1>1, <1>2, <1>3, <1>4, <1>6, <1>7, <1>8 DEF Next

\* A negative event of the history remains one, of whatever agent.
LEMMA NegativeStands ==
  ASSUME \E S : history \in Seq(S), HistoryStep
  PROVE  \A a : Negative(EventsOf(a)) \subseteq Negative(EventsOf(a))'
<1>1. CASE history' = history
  BY <1>1 DEF Negative, EventsOf
<1>2. ASSUME NEW row, history' = Append(history, row)
      PROVE  \A a : Negative(EventsOf(a)) \subseteq Negative(EventsOf(a))'
  BY <1>2, HistoryGrows DEF Negative, EventsOf
<1> QED BY <1>1, <1>2 DEF HistoryStep

\* The registry goes on counting the negative events of the history.
LEMMA ViolationsPlaced ==
  ASSUME RepInv, RegistryTyped, HistoryStep
  PROVE  /\ \E S : history' \in Seq(S)
         /\ \A a \in Agents : registry'[a].violations = Cardinality(Negative(EventsOf(a))')
         /\ \A a, state, violations, markers, n :
              SnapshotAt(a, state, violations, markers, n)
                => SnapshotAt(a, state, violations, markers, n)'
<1>1. \E S : history \in Seq(S)
  BY DEF RepInv
<1>2. CASE history' = history /\ registry' = registry
  BY <1>1, <1>2 DEF RepInv, EventsOf, Negative, SnapshotAt, KnownBy
<1>3. CASE \E a \in Agents, positive \in BOOLEAN : \E row :
             /\ history' = Append(history, row)
             /\ row.agent = a /\ row.positive = positive
             /\ registry'[a].violations = Violations(a, positive)
             /\ \A b \in Agents \ {a} : registry'[b] = registry[b]
  <2>0. PICK a \in Agents, positive \in BOOLEAN : \E row :
             /\ history' = Append(history, row)
             /\ row.agent = a /\ row.positive = positive
             /\ registry'[a].violations = Violations(a, positive)
             /\ \A b \in Agents \ {a} : registry'[b] = registry[b]
    BY <1>3
  <2>1. PICK row :
             /\ history' = Append(history, row)
             /\ row.agent = a /\ row.positive = positive
             /\ registry'[a].violations = Violations(a, positive)
             /\ \A b \in Agents \ {a} : registry'[b] = registry[b]
    BY <2>0
  <2>2. PICK new : new = Len(history) + 1
    OBVIOUS
  <2>3. /\ \E S : history' \in Seq(S)
        /\ DOMAIN history' = DOMAIN history \cup {new} /\ new \notin DOMAIN history
        /\ history'[new] = row
        /\ \A i \in DOMAIN history : history'[i] = history[i]
        /\ \A b, state, violations, markers, n :
             SnapshotAt(b, state, violations, markers, n)
               => SnapshotAt(b, state, violations, markers, n)'
    BY <1>1, <2>1, <2>2, HistoryGrows
  <2>4. ASSUME NEW b \in Agents
        PROVE  registry'[b].violations = Cardinality(Negative(EventsOf(b))')
    <3> DEFINE bad == Negative(EventsOf(b))
    <3>1. bad \subseteq DOMAIN history
      BY DEF Negative, EventsOf
    <3>2. IsFiniteSet(bad) /\ Cardinality(bad) \in Nat
      BY <1>1, <3>1, HistoryFinite
    <3>3. registry[b].violations = Cardinality(bad)
      BY DEF RepInv
    <3>4. CASE b = a /\ positive = FALSE
      <4>1. bad' = bad \cup {new} /\ new \notin bad
        BY <2>1, <2>3, <3>4 DEF Negative, EventsOf
      <4>2. Violations(a, positive) = registry[a].violations + 1
        BY <3>4 DEF Violations
      <4> HIDE DEF bad
      <4>3. Cardinality(bad \cup {new}) = Cardinality(bad) + 1
        BY <3>2, <4>1, FS_AddElement
      <4>4. registry'[b].violations = Cardinality(bad')
        BY <2>1, <3>3, <3>4, <4>1, <4>2, <4>3
      <4> QED BY <4>4 DEF bad
    <3>5. CASE ~(b = a /\ positive = FALSE)
      <4>1. bad' = bad
        BY <2>1, <2>3, <3>5 DEF Negative, EventsOf
      <4>2. registry[b].violations \in Nat
        BY DEF RegistryTyped
      <4>3. registry'[b].violations = registry[b].violations
        <5>1. CASE b = a
          <6>1. positive = TRUE
            BY <3>5, <5>1
          <6>2. Violations(a, positive) = registry[a].violations
            BY <4>2, <5>1, <6>1 DEF Violations
          <6> QED BY <2>1, <5>1, <6>2
        <5>2. CASE b # a
          BY <2>1, <5>2
        <5> QED BY <5>1, <5>2
      <4> HIDE DEF bad
      <4>4. registry'[b].violations = Cardinality(bad')
        BY <3>3, <4>1, <4>3
      <4> QED BY <4>4 DEF bad
    <3> QED BY <3>4, <3>5
  <2> QED BY <2>3, <2>4
<1> QED
  BY <1>2, <1>3 DEF HistoryStep

\* The newest events of some: as many as there are, up to the limit.
LEMMA NewestSome ==
  ASSUME \E S : history \in Seq(S), NEW some, some \subseteq DOMAIN history,
         NEW n \in Nat \ {0}, NEW chosen \in Newest(some, n)
  PROVE  chosen \subseteq some /\ (some # {} => chosen # {})
<1>1. /\ chosen \subseteq some
      /\ Cardinality(chosen) = IF n < Cardinality(some) THEN n ELSE Cardinality(some)
  BY DEF Newest, kSubset
<1>2. IsFiniteSet(some) /\ Cardinality(some) \in Nat
  BY HistoryFinite
<1>3. some # {} => Cardinality(some) # 0
  BY <1>2, FS_EmptySet
<1>4. some # {} => Cardinality(chosen) # 0
  BY <1>1, <1>2, <1>3
<1> QED BY <1>1, <1>4, FS_EmptySet

\* A report that is read now is a snapshot of now.
LEMMA ReportSnapshot ==
  ASSUME RepInv, ExcludedAtFour, NEW a \in Agents,
         NEW cited \in Newest(EventsOf(a), MaxCitations)
  PROVE  SnapshotAt(a, registry[a].state, registry[a].violations, cited, Len(history))
<1>1. /\ Len(history) \in Nat /\ DOMAIN history = 1..Len(history)
      /\ \E S : history \in Seq(S)
  BY HistoryFinite DEF RepInv
<1>2. KnownBy(a, Len(history)) = EventsOf(a) /\ EventsOf(a) \subseteq DOMAIN history
  BY <1>1 DEF KnownBy, EventsOf
<1>3. cited \subseteq EventsOf(a) /\ (EventsOf(a) # {} => cited # {})
  BY <1>1, <1>2, NewestSome, ReputationAssumption
<1>4. registry[a].violations = Cardinality(Negative(EventsOf(a)))
  BY DEF RepInv
<1>5. registry[a].state = "excluded" <=> registry[a].violations >= ExcludeViolations
  BY DEF ExcludedAtFour, ExcludeViolations
<1>6. Len(history) \in 0 .. Len(history)
  BY <1>1
<1> QED BY <1>2, <1>3, <1>4, <1>5, <1>6 DEF SnapshotAt

\* Sound x: what the invariant says of a report and of an answer.
ReportSound(x) == SnapshotAt(x.agent, x.state, x.violations, x.cited, x.asOf)
AnswerSound(x) == SnapshotAt(x.agent, x.state, x.violations, x.markers, x.asOf)

\* What is answered from a sound report, by the model or by the template, is
\* a snapshot of the report's moment.
LEMMA AnswerFromReport ==
  ASSUME NEW rep, ReportSound(rep), NEW markers, NEW byModel
  PROVE  /\ AnswerSound(Template(rep))
         /\ MarkersValid(markers, rep) => AnswerSound(Answer(rep, markers, byModel))
<1>1. AnswerSound(Template(rep))
  <2> DEFINE x == Template(rep)
  <2>1. /\ x.agent = rep.agent /\ x.state = rep.state /\ x.violations = rep.violations
        /\ x.markers = rep.cited /\ x.asOf = rep.asOf
    BY DEF Template, Answer
  <2> HIDE DEF x
  <2>2. AnswerSound(x)
    BY <2>1 DEF ReportSound, AnswerSound
  <2> QED BY <2>2 DEF x
<1>2. ASSUME MarkersValid(markers, rep) PROVE AnswerSound(Answer(rep, markers, byModel))
  <2> DEFINE x == Answer(rep, markers, byModel)
  <2>1. /\ x.agent = rep.agent /\ x.state = rep.state /\ x.violations = rep.violations
        /\ x.markers = markers /\ x.asOf = rep.asOf
    BY DEF Answer
  <2> HIDE DEF x
  <2>2. markers # {} /\ markers \subseteq rep.cited
    BY <1>2 DEF MarkersValid
  <2>3. AnswerSound(x)
    BY <2>1, <2>2 DEF ReportSound, AnswerSound, SnapshotAt
  <2> QED BY <2>3 DEF x
<1> QED BY <1>1, <1>2

\* Reading a report, wording it and sanctioning leave the history alone.
LEMMA SnapshotsStand ==
  ASSUME RepInv, UNCHANGED <<history, registry>>,
         report' # NULL => ReportSound(report'),
         \A x \in answers' : AnswerSound(x),
         \A x \in scolds' : x.cause # {} /\ x.cause \subseteq Negative(EventsOf(x.agent))
  PROVE  RepInv'
<1>1. history' = history /\ registry' = registry
  OBVIOUS
<1>2. ASSUME NEW a, NEW state, NEW violations, NEW markers, NEW n,
             SnapshotAt(a, state, violations, markers, n)
      PROVE  SnapshotAt(a, state, violations, markers, n)'
  BY <1>1, <1>2 DEF SnapshotAt, KnownBy, EventsOf, Negative
<1>3. \A a : Negative(EventsOf(a))' = Negative(EventsOf(a))
  BY <1>1 DEF EventsOf, Negative
<1>4. \A x \in answers' : SnapshotAt(x.agent, x.state, x.violations, x.markers, x.asOf)'
  BY <1>2 DEF AnswerSound
<1>5. (report # NULL =>
         SnapshotAt(report.agent, report.state, report.violations, report.cited, report.asOf))'
  <2>1. PICK rep : rep = report'
    OBVIOUS
  <2>2. rep # NULL => SnapshotAt(rep.agent, rep.state, rep.violations, rep.cited, rep.asOf)'
    BY <1>2, <2>1 DEF ReportSound
  <2> QED BY <2>1, <2>2
<1>6. /\ \E S : history' \in Seq(S)
      /\ \A a \in Agents : registry'[a].violations = Cardinality(Negative(EventsOf(a))')
  BY <1>1, <1>3 DEF RepInv
<1>7. ScoldsCite'
  BY <1>3 DEF ScoldsCite
<1> QED BY <1>4, <1>5, <1>6, <1>7 DEF RepInv

\* A sanctioned agent has a negative event to be blamed for: without one it
\* would have no violation, and nobody without violations is sanctioned.
LEMMA SanctionCites ==
  ASSUME RepInv, ScoreInv, NEW a \in Agents, registry[a].state \in Sanctioned,
         NEW cause \in Cause(a)
  PROVE  cause # {} /\ cause \subseteq Negative(EventsOf(a))
<1>1. registry[a].violations # 0
  BY DEF ScoreInv, Sanctioned
<1>2. registry[a].violations = Cardinality(Negative(EventsOf(a)))
  BY DEF RepInv
<1>3. Negative(EventsOf(a)) # {}
  BY <1>1, <1>2, FS_EmptySet
<1>4. Negative(EventsOf(a)) \subseteq DOMAIN history /\ \E S : history \in Seq(S)
  BY DEF Negative, EventsOf, RepInv
<1> QED BY <1>3, <1>4, NewestSome DEF Cause

\* Every step, of the village or of oldman, keeps the snapshots.
LEMMA RepStep ==
  ASSUME RepInv, IInv, ScoreInv, [RNext]_<<vars, rvars>>
  PROVE  RepInv'
<1>1. /\ report # NULL => ReportSound(report)
      /\ \A x \in answers : AnswerSound(x)
      /\ \A x \in scolds : x.cause # {} /\ x.cause \subseteq Negative(EventsOf(x.agent))
  BY DEF RepInv, ReportSound, AnswerSound, ScoldsCite
<1>2. CASE Village
  <2>1. UNCHANGED <<report, answers, feedback, scolds>> /\ HistoryStep
    BY <1>2, VillageStep DEF Village
  <2>2. /\ \E S : history' \in Seq(S)
        /\ \A a \in Agents : registry'[a].violations = Cardinality(Negative(EventsOf(a))')
        /\ \A a, state, violations, markers, n :
             SnapshotAt(a, state, violations, markers, n)
               => SnapshotAt(a, state, violations, markers, n)'
    BY <2>1, ViolationsPlaced DEF IInv
  <2>3. \A a : Negative(EventsOf(a)) \subseteq Negative(EventsOf(a))'
    BY <2>1, NegativeStands DEF RepInv
  <2>4. ScoldsCite'
    BY <1>1, <2>1, <2>3 DEF ScoldsCite
  <2>5. \A x \in answers' : SnapshotAt(x.agent, x.state, x.violations, x.markers, x.asOf)'
    BY <1>1, <2>1, <2>2 DEF AnswerSound
  <2>6. (report # NULL =>
           SnapshotAt(report.agent, report.state, report.violations, report.cited, report.asOf))'
    <3>1. PICK rep : rep = report'
      OBVIOUS
    <3>2. rep # NULL => SnapshotAt(rep.agent, rep.state, rep.violations, rep.cited, rep.asOf)'
      BY <1>1, <2>1, <2>2, <3>1 DEF ReportSound
    <3> QED BY <3>1, <3>2
  <2> QED BY <2>2, <2>4, <2>5, <2>6 DEF RepInv
<1>3. ASSUME NEW a \in Agents, AskReputation(a) PROVE RepInv'
  <2>1. UNCHANGED <<history, registry, scolds>>
    BY <1>3 DEF AskReputation, vars
  <2>2. PICK cited \in Newest(EventsOf(a), MaxCitations) :
          IF cited = {} THEN /\ answers' = answers \cup {Template(Report(a, cited))}
                             /\ UNCHANGED report
          ELSE report' = Report(a, cited) /\ UNCHANGED answers
    BY <1>3 DEF AskReputation
  <2>3. ReportSound(Report(a, cited))
    <3> DEFINE x == Report(a, cited)
    <3>1. /\ x.agent = a /\ x.state = registry[a].state /\ x.violations = registry[a].violations
          /\ x.cited = cited /\ x.asOf = Len(history)
      BY DEF Report
    <3> HIDE DEF x
    <3>2. ReportSound(x)
      BY <3>1, ReportSnapshot DEF ReportSound, IInv
    <3> QED BY <3>2 DEF x
  <2>4. AnswerSound(Template(Report(a, cited)))
    BY <2>3, AnswerFromReport
  <2>5. /\ report' # NULL => ReportSound(report')
        /\ \A x \in answers' : AnswerSound(x)
    BY <1>1, <2>2, <2>3, <2>4
  <2> QED BY <1>1, <2>1, <2>5, SnapshotsStand
<1>4. ASSUME NEW a \in Agents, Sanction(a) PROVE RepInv'
  <2>1. UNCHANGED <<history, registry, report, answers>>
    BY <1>4 DEF Sanction, vars
  <2>2. CASE registry[a].state \notin Sanctioned
    BY <1>1, <1>4, <2>1, <2>2, SnapshotsStand DEF Sanction
  <2>3. CASE registry[a].state \in Sanctioned
    <3>1. PICK cause \in Cause(a) : scolds' = scolds \cup {[agent |-> a, cause |-> cause]}
      BY <1>4, <2>3 DEF Sanction
    <3>2. cause # {} /\ cause \subseteq Negative(EventsOf(a))
      BY <2>3, SanctionCites
    <3>3. \A x \in scolds' : x.cause # {} /\ x.cause \subseteq Negative(EventsOf(x.agent))
      BY <1>1, <3>1, <3>2
    <3> QED BY <1>1, <2>1, <3>3, SnapshotsStand
  <2> QED BY <2>2, <2>3
<1>5. ASSUME (\E markers \in SUBSET Markers : Word(markers)) \/ WordFails PROVE RepInv'
  <2>1. /\ UNCHANGED <<history, registry, scolds>> /\ report # NULL /\ report' = NULL
        /\ \/ \E markers \in SUBSET Markers : Word(markers)
           \/ answers' = answers \cup {Template(report)}
    BY <1>5 DEF Word, WordFails, vars
  <2>2. \A markers : /\ AnswerSound(Template(report))
                     /\ MarkersValid(markers, report) => AnswerSound(Answer(report, markers, TRUE))
    BY <1>1, <2>1, AnswerFromReport
  <2>3. \A x \in answers' : AnswerSound(x)
    BY <1>1, <2>1, <2>2 DEF Word
  <2> QED BY <1>1, <2>1, <2>3, SnapshotsStand
<1>6. CASE UNCHANGED <<vars, rvars>>
  <2>1. UNCHANGED <<history, registry, report, answers, scolds>>
    BY <1>6 DEF vars, rvars
  <2> QED BY <1>1, <2>1, SnapshotsStand
<1> QED BY <1>2, <1>3, <1>4, <1>5, <1>6 DEF RNext

\* The three invariants of the ledger and of what is said of it, together.
LEMMA RepInvariant == RSpec => [](RepInv /\ IInv /\ ScoreInv)
<1>1. RInit => RepInv /\ IInv /\ ScoreInv
  <2> SUFFICES ASSUME RInit PROVE RepInv /\ IInv /\ ScoreInv
    OBVIOUS
  <2>1. Init /\ history = <<>> /\ report = NULL /\ answers = {} /\ scolds = {}
    BY DEF RInit
  <2>2. \A a \in Agents : registry[a].violations = 0
    BY <2>1 DEF Init
  <2>3. \A a \in Agents : Negative(EventsOf(a)) = {}
    BY <2>1 DEF Negative, EventsOf
  <2>4. history \in Seq({})
    BY <2>1
  <2>5. RepInv
    BY <2>1, <2>2, <2>3, <2>4, FS_EmptySet DEF RepInv, ScoldsCite
  <2> QED BY <2>1, <2>5, InitSound, InitScores
<1>2. RepInv /\ IInv /\ ScoreInv /\ [RNext]_<<vars, rvars>> => RepInv' /\ IInv' /\ ScoreInv'
  <2> SUFFICES ASSUME RepInv, IInv, ScoreInv, [RNext]_<<vars, rvars>>
               PROVE  RepInv' /\ IInv' /\ ScoreInv'
    OBVIOUS
  <2>1. [Next]_vars
    BY DEF RNext, Village, AskReputation, Sanction, Word, WordFails
  <2> QED BY <2>1, RepStep, StepSound, ScoreStep
<1> QED BY <1>1, <1>2, PTL DEF RSpec

\* report.py, executor.py: what is answered about an agent is the state of its
\* record at one moment, with markers of events recorded by then, although the
\* ledger moves on while the model is asked and whatever the model writes.
THEOREM AnswersAreSnapshots == RSpec => []OneSnapshot
<1>1. RepInv => OneSnapshot
  BY DEF RepInv, SnapshotAt, KnownBy, OneSnapshot
<1> QED BY <1>1, RepInvariant, PTL

\* sanctions.py: a scolding always has a negative event of the agent to cite,
\* although the state it follows from was decided from scores.
THEOREM ScoldingsCite == RSpec => []ScoldsCite
<1>1. RepInv => ScoldsCite
  BY DEF RepInv
<1> QED BY <1>1, RepInvariant, PTL
=============================================================================
