----------------------------- MODULE Reflection -----------------------------
(***************************************************************************)
(* Reflections: every stored publish starts a background task that visits  *)
(* the source agent, the observed agent, the pair of them and the village, *)
(* in that order, and at each may ask the model for a new reflection.      *)
(*                                                                         *)
(* The tasks share one event loop.  A task suspends only while it waits    *)
(* for the lock of its (scope, subject) or for the model, so everything    *)
(* between two suspensions is one step: entering a leg up to the request,  *)
(* and the answer down to the COMMIT.  The database survives a crash; the  *)
(* tasks and the locks do not.                                             *)
(*                                                                         *)
(* A name is the sequence of its parts between colons, because a pair is   *)
(* stored as "observer:observed" and split at its first colon.             *)
(***************************************************************************)
EXTENDS Naturals, Sequences, FiniteSetsExt

CONSTANTS
  NULL,           \* nobody observed, nobody holds the lock
  Names,          \* agent names, each a non-empty sequence of parts
  Mentions,       \* pairs <<source, observed or NULL>> that publishes may have
  Descriptors,    \* the words a reflection may add to an agent's traits
  Answers,        \* the sets of words the model may answer with, by subject
  ClientDates,    \* instants a client may date an event with
  Threshold,      \* _DEFAULT_COUNT_THRESHOLD
  AgeThreshold,   \* _DEFAULT_AGE_THRESHOLD, in instants of the clock
  ContextEvents,  \* _DEFAULT_EVENTS_FOR_CONTEXT
  MaxPublishes,   \* bound: publishes
  MaxPauses,      \* bound: times that AgeThreshold passes with nothing done
  MaxCrashes      \* bound: crashes

ASSUME ReflectionAssumption ==
  /\ NULL \notin Nat
  /\ Mentions \subseteq Names \X (Names \cup {NULL})
  /\ Threshold \in Nat \ {0} /\ AgeThreshold \in Nat \ {0}
  /\ ContextEvents \in Nat \ {0}
  /\ ClientDates \subseteq Nat \ {0}
  /\ MaxPublishes \in Nat /\ MaxPauses \in Nat /\ MaxCrashes \in Nat

VARIABLES
  clock,        \* every reading that is kept is a later instant
  events,       \* events: source, observed and timestamp, in order of storage
  reflections,  \* reflections, in order of storage
  traits,       \* entities_semantic.traits_json: the descriptors of an agent
  holder,       \* _locks: the task that holds a lock
  waiters,      \* _locks: the tasks that wait for it, first come first served
  task,         \* the task of each event
  pauses, crashes

db   == <<events, reflections, traits>>
vars == <<clock, db, holder, waiters, task, pauses, crashes>>

----------------------------------------------------------------------------
(* Subjects.                                                               *)

Observer(subject) == <<Head(subject)>>
Observed(subject) == Tail(subject)

AgentKey(name)     == [scope |-> "agent", subject |-> name]
PairKey(src, seen) == [scope |-> "pair", subject |-> src \o seen]
SocietyKey         == [scope |-> "society", subject |-> <<"global">>]

PairKeys == {PairKey(src, seen) : src \in Names, seen \in Names}
Keys     == {AgentKey(name) : name \in Names} \cup PairKeys \cup {SocietyKey}

ASSUME AnswersAssumption == \A k \in Keys : Answers[k] \subseteq SUBSET Descriptors

\* Names that may get traits: both halves of a split pair do.
Known == Names \cup {Observer(k.subject) : k \in PairKeys}
               \cup {Observed(k.subject) : k \in PairKeys}

\* The legs of the task of one publish.
Legs(src, seen) ==
  IF seen = NULL THEN <<AgentKey(src), SocietyKey>>
  ELSE <<AgentKey(src), AgentKey(seen), PairKey(src, seen), SocietyKey>>

\* Which events belong to a subject.
Concerns(e, k) ==
  CASE k.scope = "agent"   -> e.src = k.subject
    [] k.scope = "pair"    -> e.src = Observer(k.subject) /\ e.seen = Observed(k.subject)
    [] k.scope = "society" -> TRUE

\* Whose traits a reflection is merged into.
Targets(k) ==
  CASE k.scope = "agent"   -> {k.subject}
    [] k.scope = "pair"    -> {Observer(k.subject), Observed(k.subject)}
    [] k.scope = "society" -> {}

----------------------------------------------------------------------------
(* The trigger.                                                            *)

Of(k) == {i \in DOMAIN reflections : reflections[i].key = k}

\* MAX(ts) of the reflections of a subject; 0 when there is none.
LastTs(k) == Max({reflections[i].ts : i \in Of(k)} \cup {0})

\* Events since the last reflection.
Counted(k) == {i \in DOMAIN events : Concerns(events[i], k) /\ events[i].ts > LastTs(k)}

ShouldTrigger(k, now) ==
  \/ Cardinality(Counted(k)) >= Threshold
  \/ /\ Counted(k) # {} /\ LastTs(k) # 0
     /\ now >= LastTs(k) + AgeThreshold

\* The newest events of a subject; the order among equal timestamps is open.
Contexts(k) ==
  LET own == {i \in DOMAIN events : Concerns(events[i], k)}
  IN  {S \in SUBSET own :
         /\ Cardinality(S) = Min({ContextEvents, Cardinality(own)})
         /\ \A i \in S, j \in own \ S : events[i].ts >= events[j].ts}

----------------------------------------------------------------------------
(* The life of a task.                                                     *)

Key(j) == Head(task[j].legs)

\* The lock is free and nobody who came earlier waits for it.
Free(k) == holder[k] = NULL /\ waiters[k] = <<>>

Resting(legs) == [legs |-> legs, pc |-> IF legs = <<>> THEN "done" ELSE "ready",
                  now |-> 0, counted |-> {}]

\* The leg is over and the lock released; the next one may start.
Leave(j) ==
  /\ task' = [task EXCEPT ![j] = Resting(Tail(@.legs))]
  /\ holder' = [holder EXCEPT ![Key(j)] = NULL]

\* With the lock: evaluate the trigger, load the events, ask the model.  A
\* prompt file that cannot be read ends the leg as a failed answer does.
Look(j, k, now) ==
  IF ShouldTrigger(k, now) /\ Contexts(k) # {{}}
  THEN /\ task' = [task EXCEPT ![j] = [legs |-> @.legs, pc |-> "asking", now |-> now,
                                       counted |-> Counted(k)]]
       /\ holder' = [holder EXCEPT ![k] = j]
       /\ clock' = clock + 1
  ELSE Leave(j) /\ UNCHANGED clock

\* Mutant: the reflection runs without the lock.
EnterUnlocked(j) ==
  /\ task[j].pc = "ready"
  /\ Look(j, Key(j), clock)
  /\ UNCHANGED <<db, waiters, pauses, crashes>>

\* A leg begins: the time is read before the lock is asked for.
Enter(j) ==
  /\ task[j].pc = "ready"
  /\ IF Free(Key(j))
     THEN Look(j, Key(j), clock) /\ UNCHANGED waiters
     ELSE /\ task' = [task EXCEPT ![j].pc = "waiting", ![j].now = clock]
          /\ waiters' = [waiters EXCEPT ![Key(j)] = Append(@, j)]
          /\ clock' = clock + 1
          /\ UNCHANGED holder
  /\ UNCHANGED <<db, pauses, crashes>>

\* The lock is handed to the task that has waited longest.
Resume(j) ==
  /\ task[j].pc = "waiting"
  /\ holder[Key(j)] = NULL /\ Head(waiters[Key(j)]) = j
  /\ waiters' = [waiters EXCEPT ![Key(j)] = Tail(@)]
  /\ Look(j, Key(j), task[j].now)
  /\ UNCHANGED <<db, pauses, crashes>>

\* Mutant: the new descriptors replace the old ones.
MergeOverwrites(old, new) == new

\* Descriptors accumulate; the summary is replaced and the evidence capped.
Merge(old, new) == old \cup new

\* One transaction: the reflection and the traits it changes.
Persist(j, k, words) ==
  /\ reflections' = Append(reflections,
       [key |-> k, ts |-> task[j].now, counted |-> task[j].counted, words |-> words])
  /\ traits' = [a \in Known |-> IF a \in Targets(k) THEN Merge(traits[a], words)
                                                    ELSE traits[a]]

\* The model answers with descriptors and the reflection is committed.
Answer(j, words) ==
  /\ task[j].pc = "asking" /\ words \in Answers[Key(j)]
  /\ Persist(j, Key(j), words)
  /\ Leave(j)
  /\ UNCHANGED <<clock, events, waiters, pauses, crashes>>

\* Mutant: the transaction fails and the traits it changed stay.
FailHalfway(j) ==
  /\ task[j].pc = "asking"
  /\ \E words \in Answers[Key(j)] :
       traits' = [a \in Known |-> IF a \in Targets(Key(j)) THEN Merge(traits[a], words)
                                                          ELSE traits[a]]
  /\ Leave(j)
  /\ UNCHANGED <<clock, events, reflections, waiters, pauses, crashes>>

\* Mutant: a failed request keeps the lock.
FailHolding(j) ==
  /\ task[j].pc = "asking"
  /\ task' = [task EXCEPT ![j] = Resting(Tail(@.legs))]
  /\ UNCHANGED <<clock, db, holder, waiters, pauses, crashes>>

\* The request fails or times out, its text cannot be parsed, or the
\* transaction is rolled back: the publish is not troubled with it.
Fail(j) ==
  /\ task[j].pc = "asking"
  /\ Leave(j)
  /\ UNCHANGED <<clock, db, waiters, pauses, crashes>>

\* The trigger or the events cannot be read, which no leg catches: the lock is
\* released and the whole task ends.
Break(j) ==
  /\ \/ task[j].pc = "ready" /\ Free(Key(j)) /\ UNCHANGED waiters
     \/ /\ task[j].pc = "waiting"
        /\ holder[Key(j)] = NULL /\ Head(waiters[Key(j)]) = j
        /\ waiters' = [waiters EXCEPT ![Key(j)] = Tail(@)]
  /\ task' = [task EXCEPT ![j] = Resting(<<>>)]
  /\ UNCHANGED <<clock, db, holder, pauses, crashes>>

----------------------------------------------------------------------------
(* The surroundings.                                                       *)

\* An event is stored and its task scheduled.  A client may date its event.
Publish(src, seen, ts) ==
  /\ Len(events) < MaxPublishes
  /\ clock' = clock + 1
  /\ events' = Append(events, [src |-> src, seen |-> seen, ts |-> ts])
  /\ task' = Append(task, Resting(Legs(src, seen)))
  /\ UNCHANGED <<reflections, traits, holder, waiters, pauses, crashes>>

Pause ==
  /\ pauses < MaxPauses
  /\ pauses' = pauses + 1
  /\ clock' = clock + AgeThreshold
  /\ UNCHANGED <<db, holder, waiters, task, crashes>>

\* The process dies: the event loop's tasks and locks are gone.
Crash ==
  /\ crashes < MaxCrashes
  /\ crashes' = crashes + 1
  /\ task' = [j \in DOMAIN task |-> Resting(<<>>)]
  /\ holder' = [k \in Keys |-> NULL]
  /\ waiters' = [k \in Keys |-> <<>>]
  /\ UNCHANGED <<clock, db, pauses>>

Init ==
  /\ clock = 2
  /\ events = <<>> /\ reflections = <<>> /\ task = <<>>
  /\ traits = [a \in Known |-> {}]
  /\ holder = [k \in Keys |-> NULL]
  /\ waiters = [k \in Keys |-> <<>>]
  /\ pauses = 0 /\ crashes = 0

TaskStep(j) ==
  \/ Enter(j)
  \/ Resume(j)
  \/ \E words \in SUBSET Descriptors : Answer(j, words)
  \/ Fail(j)
  \/ Break(j)

Next ==
  \/ \E m \in Mentions, ts \in ClientDates \cup {clock} : Publish(m[1], m[2], ts)
  \/ \E j \in DOMAIN task : TaskStep(j)
  \/ Pause
  \/ Crash

\* The event loop runs every ready task, and a request ends within the 60
\* seconds after which the provider's HTTP client gives up.
Fairness == \A j \in 1 .. MaxPublishes : WF_vars(j \in DOMAIN task /\ TaskStep(j))

Spec == Init /\ [][Next]_vars /\ Fairness

----------------------------------------------------------------------------
(* Properties.                                                             *)

\* At most one task at a time asks the model about a subject (scheduler.py:58,
\* the locks).
OneReflectionAtATime ==
  \A i, j \in DOMAIN task :
    (task[i].pc = "asking" /\ task[j].pc = "asking" /\ Key(i) = Key(j)) => i = j

\* The reflections of a subject are stored in the order of their timestamps, so
\* MAX(ts) is the one stored last, although a task reads the clock before it
\* waits for the lock (scheduler.py:174).
StoredInOrder ==
  \A k \in Keys : \A h, i \in Of(k) : h < i => reflections[h].ts < reflections[i].ts

\* The traits of an agent are exactly what the stored reflections about it said:
\* concurrent merges into one agent's row from different subjects lose nothing
\* and a failed or interrupted reflection leaves nothing (scheduler.py:271).
TraitsExplained ==
  \A a \in Known :
    traits[a] = UNION {reflections[i].words :
                         i \in {i \in DOMAIN reflections : a \in Targets(reflections[i].key)}}

\* Every task ends, whatever the model does: no lock is left behind by a failed
\* request for others to wait on (scheduler.py:176).
TasksEnd == \A j \in 1 .. MaxPublishes :
  (j \in DOMAIN task) ~> (j \in DOMAIN task /\ task[j].pc = "done")

\* scheduler.py:59-60: of two publishes that trigger a reflection of one subject at
\* the same time not both are to make one (the lock reduces duplicates, which a
\* demo tolerates).  So an event is counted towards at most one reflection of a
\* subject.
CountedOnce ==
  \A k \in Keys : \A h, i \in Of(k) :
    h # i => reflections[h].counted \cap reflections[i].counted = {}
=============================================================================
