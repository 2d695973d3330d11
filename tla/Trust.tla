-------------------------------- MODULE Trust --------------------------------
(***************************************************************************)
(* The trust ledger and the village registry: every piece of evidence      *)
(* decays the agent's Beta score, updates it asymmetrically, and moves the *)
(* agent through provisional, member, warned, penalized and excluded.      *)
(*                                                                         *)
(* record_trust_event is one transaction; canary audits wrap it in two.    *)
(* Scores are kept as the evidence mass above the prior Beta(1, 3), in     *)
(* units of 1 / Grain, and time in units of 60 days, so that decay divides *)
(* by a power of two; the division rounds down to a unit.  An agent        *)
(* without rows is the same as one with no mass, provisional, without      *)
(* violations: that is what the code reads when a row is missing.          *)
(***************************************************************************)
EXTENDS Tally

CONSTANTS
  Agents,       \* agent names that are judged
  Canaries,     \* planted canaries
  NULL,         \* no reference, or no audit under way
  Grain,        \* the mass of one piece of evidence of weight 1.0
  MaxClock,     \* bound: periods of 60 days that pass
  MaxEvidence,  \* bound: pieces of evidence recorded
  MaxCrashes    \* bound: crashes that interrupt an audit

\* Weights of one half need an even Grain.
ASSUME TrustAssumption ==
  /\ NULL \notin Canaries
  /\ Grain \in Nat \ {0} /\ Grain % 2 = 0
  /\ MaxClock \in Nat /\ MaxEvidence \in Nat /\ MaxCrashes \in Nat

VARIABLES
  registry,  \* village_registry: state and violation_count
  ledger,    \* trust_ledger: masses and last_update_ts, per agent and criterion
  log,       \* trust_events
  pool,      \* canary_pool: "absent", "unused" or "used"
  judged,    \* the canary whose verdict is recorded and not yet used up
  clock, crashes

vars == <<registry, ledger, log, pool, judged, clock, crashes>>

Criteria == {"reliability", "honesty"}
Days     == 0 .. MaxClock

----------------------------------------------------------------------------
(* app/trust/ledger.py.                                                    *)

\* LedgerPolicy: reliability halves twice in 60 days, honesty once; a
\* negative piece of evidence weighs four times a positive one.
Halvings(criterion) == IF criterion = "honesty" THEN 1 ELSE 2
FallMultiplier      == 4

NoEvidence == [gain |-> 0, loss |-> 0, at |-> 0]

\* Mutant: evidence that arrives out of order inflates the score.
DecayBothWays(row, criterion, ts) ==
  LET factor == 2 ^ (Halvings(criterion) *
                       (IF ts > row.at THEN ts - row.at ELSE row.at - ts))
  IN  IF ts > row.at
      THEN [row EXCEPT !.gain = @ \div factor, !.loss = @ \div factor]
      ELSE [row EXCEPT !.gain = @ * factor, !.loss = @ * factor]

\* Evidence dated before the last update decays nothing.
Decay(row, criterion, ts) ==
  LET factor == 2 ^ (Halvings(criterion) * (ts - row.at))
  IN  IF ts <= row.at THEN row
      ELSE [row EXCEPT !.gain = @ \div factor, !.loss = @ \div factor]

\* update, and the time the row is stored with.
Update(row, positive, weight, ts) ==
  [gain |-> row.gain + (IF positive THEN weight ELSE 0),
   loss |-> row.loss + (IF positive THEN 0 ELSE weight * FallMultiplier),
   at   |-> ts]

Alpha(row) == Grain + row.gain
Beta(row)  == 3 * Grain + row.loss
Observations(row) == row.gain + row.loss

\* lower_bound < p / 20, that is mean - std < p / 20, without the root.
LowerBelow(row, p) ==
  LET n == Alpha(row) + Beta(row)
      lead == 20 * Alpha(row) - p * n
  IN  \/ lead < 0
      \/ lead * lead * (n + Grain) < 400 * Alpha(row) * Beta(row) * Grain

----------------------------------------------------------------------------
(* app/trust/membership.py: evaluate_transition, with its default policy.  *)

States == {"provisional", "member", "warned", "penalized", "excluded"}
ExcludeViolations == 4

\* Mutant: agents nothing is known of are judged.
EvaluateTransitionUnknown(state, row, violations, honesty) ==
  IF state = "excluded" \/ violations >= ExcludeViolations THEN "excluded"
  ELSE IF LowerBelow(row, 5) THEN "penalized"
  ELSE IF LowerBelow(row, 8) THEN "warned"
  ELSE IF ~LowerBelow(row, 10 + violations) /\ 2 * honesty >= Grain THEN "member"
  ELSE state

\* The bar of a (re)admission rises by a twentieth with every violation,
\* and half a unit of honesty evidence is asked for.
EvaluateTransition(state, row, violations, honesty) ==
  IF state = "excluded" \/ violations >= ExcludeViolations THEN "excluded"
  ELSE IF Observations(row) < 5 * Grain THEN state
  ELSE IF LowerBelow(row, 5) THEN "penalized"
  ELSE IF LowerBelow(row, 8) THEN "warned"
  ELSE IF ~LowerBelow(row, 10 + violations) /\ 2 * honesty >= Grain THEN "member"
  ELSE state

----------------------------------------------------------------------------
(* app/trust/service.py: record_trust_event.                               *)

Init ==
  /\ registry = [a \in Agents |-> [state |-> "provisional", violations |-> 0]]
  /\ ledger = [a \in Agents |-> [c \in Criteria |-> NoEvidence]]
  /\ log = [t \in {} |-> 0]
  /\ pool = [k \in Canaries |-> "absent"]
  /\ judged = NULL
  /\ clock = 0
  /\ crashes = 0

Evidence(a, criterion, positive, cause, ref) ==
  [agent |-> a, criterion |-> criterion, positive |-> positive,
   cause |-> cause, ref |-> ref]

\* Mutants: positive evidence clears the record; a count is overwritten.
ViolationsCleared(a, positive) == IF positive THEN 0 ELSE registry[a].violations + 1
ViolationsOverwritten(a, positive) == IF positive THEN registry[a].violations ELSE 1

Violations(a, positive) == registry[a].violations + (IF positive THEN 0 ELSE 1)

\* The honesty mass the readmission gate sees: decayed to ts, either sign.
HonestyObservations(a, criterion, scored, ts) ==
  Observations(IF criterion = "honesty" THEN scored
               ELSE Decay(ledger[a]["honesty"], "honesty", ts))

Record(a, criterion, positive, weight, cause, ref, ts) ==
  LET scored == Update(Decay(ledger[a][criterion], criterion, ts), positive, weight, ts)
  IN  /\ Total(log) < MaxEvidence
      /\ ledger' = [ledger EXCEPT ![a][criterion] = scored]
      /\ log' = Post(log, Evidence(a, criterion, positive, cause, ref))
      /\ registry' = [registry EXCEPT ![a] =
           [state |-> EvaluateTransition(registry[a].state, scored,
                        Violations(a, positive),
                        HonestyObservations(a, criterion, scored, ts)),
            violations |-> Violations(a, positive)]]

----------------------------------------------------------------------------
(* The callers.                                                            *)

\* execute_publish, 5.5: dated by the client, like the event.
SettledPublish(a, ts) ==
  /\ judged = NULL
  /\ Record(a, "reliability", TRUE, Grain, "publish_settled", NULL, ts)
  /\ UNCHANGED <<pool, judged, clock, crashes>>

\* plant_canary: the only way a canary enters the pool.
Plant(k) ==
  /\ judged = NULL
  /\ pool[k] = "absent"
  /\ pool' = [pool EXCEPT ![k] = "unused"]
  /\ UNCHANGED <<registry, ledger, log, judged, clock, crashes>>

\* Mutant: a failure to record the verdict is suppressed, as in publish.
JudgeSuppressed(k, a, passed) ==
  /\ judged = NULL
  /\ pool[k] = "unused"
  /\ \/ Record(a, "honesty", passed, Grain,
               IF passed THEN "canary_pass" ELSE "canary_fail", k, clock)
     \/ UNCHANGED <<registry, ledger, log>>
  /\ judged' = k
  /\ UNCHANGED <<pool, clock, crashes>>

\* judge_canary_response: the verdict is recorded first ...
Judge(k, a, passed) ==
  /\ judged = NULL
  /\ pool[k] = "unused"
  /\ Record(a, "honesty", passed, Grain,
            IF passed THEN "canary_pass" ELSE "canary_fail", k, clock)
  /\ judged' = k
  /\ UNCHANGED <<pool, clock, crashes>>

\* ... and the canary is used up in a commit of its own.
UseUp ==
  /\ judged # NULL
  /\ pool' = [pool EXCEPT ![judged] = "used"]
  /\ judged' = NULL
  /\ UNCHANGED <<registry, ledger, log, clock, crashes>>

\* record_contradiction, after the escrow was revoked.
Contradict(a) ==
  /\ judged = NULL
  /\ Record(a, "honesty", FALSE, Grain, "grounding_contradiction", NULL, clock)
  /\ UNCHANGED <<pool, judged, clock, crashes>>

\* record_corroboration: by another seller, who need not be in Agents.
Corroborate(a) ==
  /\ judged = NULL
  /\ Record(a, "honesty", TRUE, Grain \div 2, "corroborated", NULL, clock)
  /\ UNCHANGED <<pool, judged, clock, crashes>>

Tick ==
  /\ judged = NULL
  /\ clock < MaxClock
  /\ clock' = clock + 1
  /\ UNCHANGED <<registry, ledger, log, pool, judged, crashes>>

\* The process dies, or the second commit fails; elsewhere it loses nothing.
Crash ==
  /\ judged # NULL
  /\ crashes < MaxCrashes
  /\ crashes' = crashes + 1
  /\ judged' = NULL
  /\ UNCHANGED <<registry, ledger, log, pool, clock>>

Next ==
  \/ \E a \in Agents :
       \/ \E ts \in Days : SettledPublish(a, ts)
       \/ \E k \in Canaries, passed \in BOOLEAN : Judge(k, a, passed)
       \/ Contradict(a) \/ Corroborate(a)
  \/ \E k \in Canaries : Plant(k)
  \/ UseUp \/ Tick \/ Crash

Spec == Init /\ [][Next]_vars

----------------------------------------------------------------------------
(* Properties.                                                             *)

RowsOf(a, criterion, positive) ==
  {t \in DOMAIN log : t.agent = a /\ t.criterion = criterion /\ t.positive = positive}
Offences(a) == {t \in DOMAIN log : t.agent = a /\ ~t.positive}

\* service.py: violation_count is the number of negative trust events on
\* record, whatever positive evidence, decay and crashes come in between;
\* four of them, no more and no fewer, mean exclusion.
ViolationsRecorded == \A a \in Agents : registry[a].violations = Count(log, Offences(a))
ExcludedAtFour ==
  \A a \in Agents : registry[a].state = "excluded" <=> registry[a].violations >= 4
ViolationsExclude == ViolationsRecorded /\ ExcludedAtFour

\* membership.py: exclusion is final, and no violation is ever forgotten.
ExclusionStands ==
  [][\A a \in Agents :
       /\ registry[a].state = "excluded" => registry'[a].state = "excluded"
       /\ registry'[a].violations >= registry[a].violations]_vars

\* membership.py (unknown is not sanctioned): an agent without violations is
\* never warned, penalized or excluded, whatever decays and however late its
\* evidence arrives.
HonestNeverSanctioned ==
  \A a \in Agents : registry[a].violations = 0 => registry[a].state \in {"provisional", "member"}

\* ledger.py: a score rests on recorded evidence; decay only forgets.
ScoresExplained ==
  \A a \in Agents, c \in Criteria :
    /\ ledger[a][c].gain <= Grain * Count(log, RowsOf(a, c, TRUE))
    /\ ledger[a][c].loss <= FallMultiplier * Grain * Count(log, RowsOf(a, c, FALSE))

\* canary.py: a canary is never used up without its verdict on record, and a
\* crash can cost at most one more verdict.
VerdictsOn(k) == {t \in DOMAIN log : t.ref = k}
CanarySignalKept ==
  \A k \in Canaries :
    /\ (pool[k] = "used") => VerdictsOn(k) # {}
    /\ Count(log, VerdictsOn(k)) <= 1 + crashes

----------------------------------------------------------------------------
(* What the comments say and the code does not do.                         *)

\* membership.py:84: no member without a passed audit.  The gate counts
\* honesty evidence of either sign, so a failed canary opens it.
MembersPassedAudit ==
  \A a \in Agents : registry[a].state = "member" => RowsOf(a, "honesty", TRUE) # {}
=============================================================================
