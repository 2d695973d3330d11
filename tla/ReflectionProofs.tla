-------------------------- MODULE ReflectionProofs --------------------------
(***************************************************************************)
(* The locks of Reflection exclude each other, the reflections of a        *)
(* subject are stored in the order of their dates, and the traits of agents *)
(* are what the stored reflections said, for any number of agents,         *)
(* publishes, crashes and thresholds.                                      *)
(***************************************************************************)
EXTENDS Reflection, TLAPS

\* The tasks form a sequence; a task that is not done has legs of known keys.
TasksShaped ==
  /\ \E S : task \in Seq(S)
  /\ \A j \in DOMAIN task : /\ task[j].legs \in Seq(Keys)
                            /\ task[j].pc # "done" => task[j].legs # <<>>

\* Whoever asks the model holds the lock of its subject.
LockInv ==
  /\ TasksShaped
  /\ holder \in [Keys -> Nat \cup {NULL}]
  /\ \A j \in DOMAIN task : task[j].pc = "asking" => holder[Key(j)] = j

\* A sequence with one element replaced is a sequence.
LEMMA UpdateSeq ==
  ASSUME NEW S, NEW s \in Seq(S), NEW j \in DOMAIN s, NEW x
  PROVE  \E T : [s EXCEPT ![j] = x] \in Seq(T)
<1>1. [s EXCEPT ![j] = x] \in Seq(S \cup {x}) OBVIOUS
<1> QED BY <1>1

\* The task of a publish visits known subjects, at least one.
LEMMA LegsKeys ==
  ASSUME NEW src \in Names, NEW seen \in Names \cup {NULL}
  PROVE  Legs(src, seen) \in Seq(Keys) /\ Legs(src, seen) # <<>>
<1>1. AgentKey(src) \in Keys /\ SocietyKey \in Keys BY DEF Keys
<1>2. CASE seen = NULL BY <1>1, <1>2 DEF Legs
<1>3. CASE seen # NULL
  <2>1. AgentKey(seen) \in Keys /\ PairKey(src, seen) \in Keys
    BY <1>3 DEF Keys, PairKeys
  <2> QED BY <1>1, <1>3, <2>1 DEF Legs
<1> QED BY <1>2, <1>3

\* A task between two legs asks for nothing, and has legs unless it is done.
LEMMA RestingShaped ==
  ASSUME NEW legs \in Seq(Keys)
  PROVE  /\ Resting(legs).legs = legs /\ Resting(legs).pc # "asking"
         /\ Resting(legs).pc # "done" => legs # <<>>
  BY DEF Resting

\* One leg of a task ends: nobody else's claim to a lock is touched.
LEMMA LeaveKeeps ==
  ASSUME LockInv, NEW j \in DOMAIN task, task[j].pc # "done",
         holder[Key(j)] \in {NULL, j}, Leave(j)
  PROVE  LockInv'
<1>1. Key(j) \in Keys /\ Tail(task[j].legs) \in Seq(Keys)
  BY DEF LockInv, TasksShaped, Key
<1>2. /\ Resting(Tail(task[j].legs)).legs = Tail(task[j].legs)
      /\ Resting(Tail(task[j].legs)).pc # "asking"
      /\ Resting(Tail(task[j].legs)).pc # "done" => Tail(task[j].legs) # <<>>
  BY <1>1, RestingShaped
<1>3. task' = [task EXCEPT ![j] = Resting(Tail(task[j].legs))]
  BY DEF Leave
<1>4. DOMAIN task' = DOMAIN task /\ task'[j] = Resting(Tail(task[j].legs))
      /\ \A i \in DOMAIN task : i # j => task'[i] = task[i]
  BY <1>3
<1>5. \E S : task' \in Seq(S)
  <2>1. PICK S : task \in Seq(S) BY DEF LockInv, TasksShaped
  <2>2. task' \in Seq(S \cup {Resting(Tail(task[j].legs))}) BY <1>3, <2>1
  <2> QED BY <2>2
<1>6. TasksShaped'
  BY <1>1, <1>2, <1>4, <1>5 DEF LockInv, TasksShaped
<1>7. holder' = [holder EXCEPT ![Key(j)] = NULL] /\ holder' \in [Keys -> Nat \cup {NULL}]
  BY DEF Leave, LockInv
<1>8. ASSUME NEW i \in DOMAIN task', task'[i].pc = "asking"
      PROVE  holder'[Key(i)'] = i
  <2>1. i # j /\ i \in DOMAIN task /\ task'[i] = task[i] BY <1>2, <1>4, <1>8
  <2>2. Key(i)' = Key(i) /\ holder[Key(i)] = i BY <2>1, <1>8 DEF LockInv, Key
  <2>3. i \in Nat BY <2>1 DEF LockInv, TasksShaped
  <2>4. Key(i) # Key(j) BY <2>1, <2>2, <2>3, ReflectionAssumption DEF ReflectionAssumption
  <2>5. Key(i) \in Keys BY <2>1, <1>8, <1>4 DEF LockInv, TasksShaped, Key
  <2> QED BY <1>7, <2>2, <2>4, <2>5, <1>1
<1> QED BY <1>6, <1>7, <1>8 DEF LockInv

\* With the lock free, a task takes it for its own subject or moves on.
LEMMA LookKeeps ==
  ASSUME LockInv, NEW j \in DOMAIN task, task[j].pc # "done", NEW now,
         holder[Key(j)] = NULL, Look(j, Key(j), now)
  PROVE  LockInv'
<1>1. CASE ShouldTrigger(Key(j), now) /\ Contexts(Key(j)) # {{}}
  <2> DEFINE row == [legs |-> task[j].legs, pc |-> "asking", now |-> now,
                     counted |-> Counted(Key(j))]
  <2>1. Key(j) \in Keys /\ task[j].legs \in Seq(Keys) /\ task[j].legs # <<>>
    BY DEF LockInv, TasksShaped, Key
  <2>2. task' = [task EXCEPT ![j] = row] /\ holder' = [holder EXCEPT ![Key(j)] = j]
    BY <1>1 DEF Look
  <2>3. row.legs = task[j].legs /\ row.pc = "asking" OBVIOUS
  <2> HIDE DEF row
  <2>4. DOMAIN task' = DOMAIN task /\ task'[j] = row
        /\ \A i \in DOMAIN task : i # j => task'[i] = task[i]
    BY <2>2
  <2>5. \E S : task' \in Seq(S)
    <3>1. PICK S : task \in Seq(S) BY DEF LockInv, TasksShaped
    <3>2. task' \in Seq(S \cup {row}) BY <2>2, <3>1
    <3> QED BY <3>2
  <2>6. TasksShaped'
    BY <2>1, <2>3, <2>4, <2>5 DEF LockInv, TasksShaped
  <2>7. j \in Nat BY DEF LockInv, TasksShaped
  <2>8. holder' \in [Keys -> Nat \cup {NULL}] BY <2>2, <2>7 DEF LockInv
  <2>9. ASSUME NEW i \in DOMAIN task', task'[i].pc = "asking"
        PROVE  holder'[Key(i)'] = i
    <3>1. CASE i = j BY <3>1, <2>1, <2>2, <2>3, <2>4 DEF Key, LockInv
    <3>2. CASE i # j
      <4>1. i \in DOMAIN task /\ task'[i] = task[i] BY <3>2, <2>4, <2>9
      <4>2. Key(i)' = Key(i) /\ holder[Key(i)] = i BY <4>1, <2>9 DEF LockInv, Key
      <4>3. i \in Nat BY <4>1 DEF LockInv, TasksShaped
      <4>4. Key(i) # Key(j) BY <4>2, <4>3, ReflectionAssumption DEF ReflectionAssumption
      <4> QED BY <2>2, <4>2, <4>4 DEF LockInv
    <3> QED BY <3>1, <3>2
  <2> QED BY <2>6, <2>8, <2>9 DEF LockInv
<1>2. CASE ~(ShouldTrigger(Key(j), now) /\ Contexts(Key(j)) # {{}})
  BY <1>2, LeaveKeeps DEF Look
<1> QED BY <1>1, <1>2

\* The queue and the tasks that wait in it carry no claim to the lock.
LEMMA WaitKeeps ==
  ASSUME LockInv, NEW j \in DOMAIN task, task[j].pc = "ready", UNCHANGED holder,
         task' = [task EXCEPT ![j].pc = "waiting", ![j].now = clock]
  PROVE  LockInv'
<1> DEFINE row == [task[j] EXCEPT !.pc = "waiting", !.now = clock]
<1>1. task' = [task EXCEPT ![j] = row] OBVIOUS
<1>2. DOMAIN task' = DOMAIN task /\ task'[j] = row
      /\ \A i \in DOMAIN task : i # j => task'[i] = task[i]
  BY <1>1
<1>3. row.legs = task[j].legs /\ row.pc # "asking" OBVIOUS
<1> HIDE DEF row
<1>4. \E S : task' \in Seq(S)
  <2>1. PICK S : task \in Seq(S) BY DEF LockInv, TasksShaped
  <2>2. \E T : [task EXCEPT ![j] = row] \in Seq(T) BY <2>1, UpdateSeq
  <2> QED BY <1>1, <2>2, Zenon
<1>5. TasksShaped' BY <1>2, <1>3, <1>4 DEF LockInv, TasksShaped
<1>6. \A i \in DOMAIN task' : task'[i].pc = "asking" => holder'[Key(i)'] = i
  BY <1>2, <1>3 DEF LockInv, Key
<1> QED BY <1>5, <1>6 DEF LockInv

\* A task that breaks off before it asks had no lock to lose.
LEMMA BreakKeeps ==
  ASSUME LockInv, NEW j \in DOMAIN task, Break(j)
  PROVE  LockInv'
<1> DEFINE row == Resting(<<>>)
<1>1. task' = [task EXCEPT ![j] = row] /\ holder' = holder BY DEF Break
<1>2. row.legs = <<>> /\ <<>> \in Seq(Keys) /\ row.pc = "done" BY DEF Resting
<1> HIDE DEF row
<1>3. DOMAIN task' = DOMAIN task /\ task'[j] = row
      /\ \A i \in DOMAIN task : i # j => task'[i] = task[i]
  BY <1>1
<1>4. \E S : task' \in Seq(S)
  <2>1. PICK S : task \in Seq(S) BY DEF LockInv, TasksShaped
  <2>2. \E T : [task EXCEPT ![j] = row] \in Seq(T) BY <2>1, UpdateSeq
  <2> QED BY <1>1, <2>2, Zenon
<1>5. TasksShaped' BY <1>2, <1>3, <1>4 DEF LockInv, TasksShaped
<1>6. \A i \in DOMAIN task' : task'[i].pc = "asking" => holder'[Key(i)'] = i
  BY <1>1, <1>2, <1>3 DEF LockInv, Key
<1> QED BY <1>1, <1>5, <1>6 DEF LockInv

\* Every step keeps each lock with the one task that asks under it.
LEMMA LockInductive == ASSUME LockInv, [Next]_vars PROVE LockInv'
<1>1. ASSUME NEW m \in Mentions, NEW ts, Publish(m[1], m[2], ts) PROVE LockInv'
  <2> DEFINE row == Resting(Legs(m[1], m[2]))
  <2>1. m[1] \in Names /\ m[2] \in Names \cup {NULL}
    BY ReflectionAssumption DEF ReflectionAssumption
  <2>2. row.legs \in Seq(Keys) /\ row.legs # <<>> /\ row.pc # "asking"
    BY <2>1, LegsKeys, RestingShaped
  <2>3. task' = Append(task, row) /\ holder' = holder BY <1>1 DEF Publish
  <2> HIDE DEF row
  <2>4. PICK S : task \in Seq(S) BY DEF LockInv, TasksShaped
  <2>5. task' \in Seq(S \cup {row}) BY <2>3, <2>4
  <2>6. /\ DOMAIN task' = DOMAIN task \cup {Len(task) + 1}
        /\ task'[Len(task) + 1] = row
        /\ \A i \in DOMAIN task : task'[i] = task[i]
    BY <2>3, <2>4
  <2>7. TasksShaped'
    <3>1. \E T : task' \in Seq(T) BY <2>5
    <3>2. ASSUME NEW i \in DOMAIN task'
          PROVE  task'[i].legs \in Seq(Keys) /\ (task'[i].pc # "done" => task'[i].legs # <<>>)
      BY <2>2, <2>6 DEF LockInv, TasksShaped
    <3> QED BY <3>1, <3>2 DEF TasksShaped
  <2>8. \A i \in DOMAIN task' : task'[i].pc = "asking" => holder'[Key(i)'] = i
    BY <2>2, <2>3, <2>6 DEF LockInv, Key
  <2> QED BY <2>3, <2>7, <2>8 DEF LockInv
<1>2. ASSUME NEW j \in DOMAIN task, TaskStep(j) PROVE LockInv'
  <2>1. CASE Enter(j)
    <3>1. CASE Free(Key(j)) BY <2>1, <3>1, LookKeeps DEF Enter, Free
    <3>2. CASE ~Free(Key(j)) BY <2>1, <3>2, WaitKeeps DEF Enter
    <3> QED BY <3>1, <3>2
  <2>2. CASE Resume(j) BY <2>2, LookKeeps DEF Resume
  <2>3. ASSUME NEW words \in SUBSET Descriptors, Answer(j, words) PROVE LockInv'
    BY <2>3, LeaveKeeps DEF Answer, LockInv
  <2>4. CASE Fail(j) BY <2>4, LeaveKeeps DEF Fail, LockInv
  <2>5. CASE Break(j) BY <2>5, BreakKeeps
  <2> QED BY <1>2, <2>1, <2>2, <2>3, <2>4, <2>5 DEF TaskStep
<1>3. CASE Pause BY <1>3 DEF Pause, LockInv, TasksShaped, Key
<1>4. CASE Crash
  <2>1. DOMAIN task' = DOMAIN task /\ \A j \in DOMAIN task : task'[j] = Resting(<<>>)
    BY <1>4 DEF Crash
  <2>2. PICK S : task \in Seq(S) BY DEF LockInv, TasksShaped
  <2>3. task' = [j \in 1 .. Len(task) |-> Resting(<<>>)] /\ Len(task) \in Nat
    BY <1>4, <2>2 DEF Crash
  <2>4. task' \in Seq({Resting(<<>>)}) BY <2>3
  <2>5. Resting(<<>>).legs = <<>> /\ Resting(<<>>).pc = "done" BY DEF Resting
  <2>6. TasksShaped'
    <3>1. \E T : task' \in Seq(T) BY <2>4
    <3>2. \A j \in DOMAIN task' : task'[j].legs = <<>> /\ task'[j].pc = "done"
      BY <2>1, <2>5
    <3>3. <<>> \in Seq(Keys) OBVIOUS
    <3>4. \A j \in DOMAIN task' : task'[j].legs \in Seq(Keys) BY <3>2, <3>3, Zenon
    <3> QED BY <3>1, <3>2, <3>4 DEF TasksShaped
  <2>7. holder' \in [Keys -> Nat \cup {NULL}] BY <1>4 DEF Crash
  <2> QED BY <2>1, <2>5, <2>6, <2>7 DEF LockInv
<1>5. CASE UNCHANGED vars BY <1>5 DEF vars, LockInv, TasksShaped, Key
<1> QED BY <1>1, <1>2, <1>3, <1>4, <1>5 DEF Next

\* Two tasks never ask the model about one subject at the same time
\* (scheduler.py:58-68 and the lock held across the await at 205).
THEOREM LocksExclude == Spec => []OneReflectionAtATime
<1>1. Init => LockInv
  <2> SUFFICES ASSUME Init PROVE LockInv OBVIOUS
  <2>1. task = <<>> /\ task \in Seq({}) /\ DOMAIN task = {} BY DEF Init
  <2>2. holder \in [Keys -> Nat \cup {NULL}] BY DEF Init
  <2> QED BY <2>1, <2>2 DEF LockInv, TasksShaped
<1>2. LockInv /\ [Next]_vars => LockInv' BY LockInductive
<1>3. LockInv => OneReflectionAtATime
  BY DEF LockInv, OneReflectionAtATime
<1> QED BY <1>1, <1>2, <1>3, PTL DEF Spec

----------------------------------------------------------------------------
(* What the reflections leave behind.                                      *)

\* The words the stored reflections have for an agent.
Said(a) == UNION {reflections[i].words :
                    i \in {i \in DOMAIN reflections : a \in Targets(reflections[i].key)}}

\* The reflections form a sequence, and the traits say what they say.
TraitsInv ==
  /\ \E S : reflections \in Seq(S)
  /\ TraitsExplained

\* One more reflection adds its words to the agents it is about.
LEMMA SaidMore ==
  ASSUME NEW S, reflections \in Seq(S), NEW row, NEW a,
         reflections' = Append(reflections, row)
  PROVE  Said(a)' = IF a \in Targets(row.key) THEN Said(a) \cup row.words ELSE Said(a)
<1> DEFINE n == Len(reflections) + 1
<1>1. reflections' \in Seq(S \cup {row})
  <2>1. reflections \in Seq(S \cup {row}) OBVIOUS
  <2> QED BY <2>1
<1>2. /\ DOMAIN reflections' = DOMAIN reflections \cup {n}
      /\ reflections'[n] = row
      /\ \A i \in DOMAIN reflections : i # n /\ reflections'[i] = reflections[i]
  OBVIOUS
<1> HIDE DEF n
<1>3. ASSUME NEW w
      PROVE  w \in Said(a)' <=> \/ w \in Said(a)
                                \/ a \in Targets(row.key) /\ w \in row.words
  <2>1. w \in Said(a)' <=> \E i \in DOMAIN reflections' :
                             a \in Targets(reflections'[i].key) /\ w \in reflections'[i].words
    BY DEF Said, Targets
  <2>2. w \in Said(a) <=> \E i \in DOMAIN reflections :
                            a \in Targets(reflections[i].key) /\ w \in reflections[i].words
    BY DEF Said
  <2> QED BY <1>2, <2>1, <2>2
<1> QED BY <1>3

\* Storing a reflection with its traits, in one transaction, keeps the two in
\* step, for whichever subject and whatever was stored meanwhile.
LEMMA PersistExplains ==
  ASSUME TraitsInv, NEW j, NEW k, NEW words, Persist(j, k, words)
  PROVE  TraitsInv'
<1> DEFINE row == [key |-> k, ts |-> task[j].now, counted |-> task[j].counted,
                   words |-> words]
<1>1. reflections' = Append(reflections, row) /\ row.key = k /\ row.words = words
  BY DEF Persist
<1> HIDE DEF row
<1>2. PICK S : reflections \in Seq(S) BY DEF TraitsInv
<1>3. reflections' \in Seq(S \cup {row})
  <2>1. reflections \in Seq(S \cup {row}) BY <1>2
  <2> QED BY <1>1, <2>1
<1>4. ASSUME NEW a \in Known PROVE traits'[a] = Said(a)'
  <2>1. Said(a)' = IF a \in Targets(k) THEN Said(a) \cup words ELSE Said(a)
    BY <1>1, <1>2, SaidMore
  <2>2. traits[a] = Said(a) BY DEF TraitsInv, TraitsExplained, Said
  <2>3. traits'[a] = IF a \in Targets(k) THEN traits[a] \cup words ELSE traits[a]
    BY DEF Persist, Merge
  <2> QED BY <2>1, <2>2, <2>3
<1>5. TraitsExplained' BY <1>4 DEF TraitsExplained, Said
<1>6. \E T : reflections' \in Seq(T) BY <1>3
<1> QED BY <1>5, <1>6 DEF TraitsInv

\* The traits of every agent are exactly what the stored reflections about it
\* said (scheduler.py:271-345): merges into one row from the agent's own
\* reflections and from both sides of its pairs lose nothing, and a failed or
\* interrupted reflection leaves nothing.
THEOREM TraitsTold == Spec => []TraitsExplained
<1>1. Init => TraitsInv
  <2> SUFFICES ASSUME Init PROVE TraitsInv OBVIOUS
  <2>1. reflections = <<>> /\ DOMAIN reflections = {} /\ reflections \in Seq({})
    BY DEF Init
  <2>2. \A a \in Known : traits[a] = {} BY DEF Init
  <2>3. TraitsExplained BY <2>1, <2>2 DEF TraitsExplained
  <2> QED BY <2>1, <2>3 DEF TraitsInv
<1>2. ASSUME TraitsInv, [Next]_vars PROVE TraitsInv'
  <2>1. ASSUME NEW j, NEW words, Answer(j, words) PROVE TraitsInv'
    BY <1>2, <2>1, PersistExplains DEF Answer
  <2>2. CASE UNCHANGED <<reflections, traits>>
    BY <1>2, <2>2 DEF TraitsInv, TraitsExplained
  <2>3. ASSUME NEW j, Enter(j) \/ Resume(j) \/ Fail(j) \/ Break(j)
        PROVE  UNCHANGED <<reflections, traits>>
    BY <2>3 DEF Enter, Resume, Fail, Break, db
  <2>4. ASSUME NEW src, NEW seen, NEW ts, Publish(src, seen, ts)
        PROVE  UNCHANGED <<reflections, traits>>
    BY <2>4 DEF Publish
  <2>5. CASE Pause \/ Crash \/ UNCHANGED vars BY <2>2, <2>5 DEF Pause, Crash, vars, db
  <2> QED BY <1>2, <2>1, <2>2, <2>3, <2>4, <2>5 DEF Next, TaskStep
<1>3. TraitsInv => TraitsExplained BY DEF TraitsInv
<1> QED BY <1>1, <1>2, <1>3, PTL DEF Spec

----------------------------------------------------------------------------
(* The order in which reflections are stored.  A task reads the clock      *)
(* before it waits, so what a reflection is dated with and when it is      *)
(* stored are related only through the queue of the lock: the readings of  *)
(* those who wait ascend along it, the task that asks read before all of   *)
(* them, and whatever is stored was read before any of these.              *)

\* A task that holds a reading of the clock it may store a reflection under.
Pending(row) == row.pc \in {"waiting", "asking"}

\* The queues hold the tasks that wait, each in that of its subject, by the
\* readings they hold; the tasks in "out" are in none.
InLine(queues, rows, out) ==
  /\ queues \in [Keys -> Seq(Nat)]
  /\ \A k \in Keys : \A p \in DOMAIN queues[k] :
       /\ queues[k][p] \in DOMAIN rows \ out
       /\ rows[queues[k][p]].pc = "waiting" /\ Head(rows[queues[k][p]].legs) = k
  /\ \A j \in DOMAIN rows \ out : rows[j].pc = "waiting" =>
       \E p \in DOMAIN queues[Head(rows[j].legs)] : queues[Head(rows[j].legs)][p] = j
  /\ \A k \in Keys : \A p, q \in DOMAIN queues[k] :
       p < q => rows[queues[k][p]].now < rows[queues[k][q]].now

\* Readings are past, and who asks read before those who wait for the same.
ReadInTurn(rows, time) ==
  /\ time \in Nat
  /\ \A j \in DOMAIN rows : Pending(rows[j]) => rows[j].now \in Nat /\ rows[j].now < time
  /\ \A i, j \in DOMAIN rows :
       (/\ rows[i].pc = "asking" /\ rows[j].pc = "waiting"
        /\ Head(rows[i].legs) = Head(rows[j].legs)) => rows[i].now < rows[j].now

\* What is stored of a subject was read before what is pending for it.
StoredFirst(rows, time, stored) ==
  /\ \E S : stored \in Seq(S)
  /\ \A r \in DOMAIN stored : stored[r].ts \in Nat /\ stored[r].ts < time
  /\ \A r \in DOMAIN stored, j \in DOMAIN rows :
       Pending(rows[j]) /\ Head(rows[j].legs) = stored[r].key => stored[r].ts < rows[j].now
  /\ \A h, r \in DOMAIN stored :
       h < r /\ stored[h].key = stored[r].key => stored[h].ts < stored[r].ts

OrderInv ==
  /\ InLine(waiters, task, {})
  /\ ReadInTurn(task, clock)
  /\ StoredFirst(task, clock, reflections)

\* Tasks that do not wait come and go without the queues being touched.
LEMMA InLineFrame ==
  ASSUME NEW queues, NEW rows, NEW others, NEW out, InLine(queues, rows, out),
         \A i \in DOMAIN rows \ out : i \in DOMAIN others /\ others[i] = rows[i],
         \A i \in DOMAIN others : i \in DOMAIN rows \ out \/ others[i].pc # "waiting"
  PROVE  InLine(queues, others, {})
<1>1. ASSUME NEW k \in Keys, NEW p \in DOMAIN queues[k]
      PROVE  /\ queues[k][p] \in DOMAIN rows \ out /\ queues[k][p] \in DOMAIN others
             /\ others[queues[k][p]] = rows[queues[k][p]]
             /\ others[queues[k][p]].pc = "waiting" /\ Head(others[queues[k][p]].legs) = k
  BY DEF InLine
<1>2. ASSUME NEW j \in DOMAIN others, others[j].pc = "waiting"
      PROVE  \E p \in DOMAIN queues[Head(others[j].legs)] : queues[Head(others[j].legs)][p] = j
  BY <1>2 DEF InLine
<1>3. ASSUME NEW k \in Keys, NEW p \in DOMAIN queues[k], NEW q \in DOMAIN queues[k], p < q
      PROVE  others[queues[k][p]].now < others[queues[k][q]].now
  BY <1>1, <1>3 DEF InLine
<1> QED
  BY <1>1, <1>2, <1>3 DEF InLine

\* A task that does not wait is in no queue.
LEMMA InLineReady ==
  ASSUME NEW queues, NEW rows, InLine(queues, rows, {}), NEW j, rows[j].pc # "waiting"
  PROVE  InLine(queues, rows, {j})
  BY DEF InLine

\* The first in line leaves: those behind it hold later readings.
LEMMA InLineServed ==
  ASSUME NEW queues, NEW rows, InLine(queues, rows, {}), NEW k \in Keys,
         NEW j \in DOMAIN rows, rows[j].pc = "waiting", Head(rows[j].legs) = k,
         Head(queues[k]) = j, NEW left, left = [queues EXCEPT ![k] = Tail(queues[k])],
         \A i \in DOMAIN rows : Pending(rows[i]) => rows[i].now \in Nat
  PROVE  /\ InLine(left, rows, {j})
         /\ \A i \in DOMAIN rows :
              i # j /\ rows[i].pc = "waiting" /\ Head(rows[i].legs) = k
                => rows[j].now < rows[i].now
<1> DEFINE line == queues[k]
<1>1. PICK at \in DOMAIN line : line[at] = j
  BY DEF InLine
<1>2. line \in Seq(Nat) /\ line # <<>> /\ line[1] = j
  BY <1>1 DEF InLine
<1>3. /\ Len(Tail(line)) = Len(line) - 1 /\ Tail(line) \in Seq(Nat)
      /\ Len(line) \in Nat \ {0} /\ DOMAIN line = 1..Len(line)
      /\ DOMAIN Tail(line) = 1..(Len(line) - 1)
      /\ \A p \in DOMAIN Tail(line) : /\ p \in Nat /\ p + 1 \in DOMAIN line /\ p + 1 # 1
                                      /\ Tail(line)[p] = line[p + 1]
  BY <1>2
<1>4. \A p \in DOMAIN line : /\ line[p] \in DOMAIN rows /\ rows[line[p]].pc = "waiting"
                             /\ Head(rows[line[p]].legs) = k
  BY DEF InLine
<1>5. \A p, q \in DOMAIN line : p < q => rows[line[p]].now < rows[line[q]].now
  BY DEF InLine
<1>6. \A p \in DOMAIN line : rows[line[p]].now \in Nat
  BY <1>4 DEF Pending
<1>7. ASSUME NEW p \in DOMAIN line, p # 1
      PROVE  rows[j].now < rows[line[p]].now /\ line[p] # j
  <2>1. 1 \in DOMAIN line /\ 1 < p
    BY <1>3, <1>7
  <2>2. rows[line[1]].now < rows[line[p]].now
    BY <1>5, <2>1
  <2>3. rows[line[1]].now \in Nat
    BY <1>6, <2>1
  <2> QED
    BY <1>2, <2>2, <2>3
<1>8. ASSUME NEW i \in DOMAIN rows, i # j, rows[i].pc = "waiting", Head(rows[i].legs) = k
      PROVE  \E p \in DOMAIN line : p # 1 /\ line[p] = i
  BY <1>2, <1>8 DEF InLine
<1>9. left \in [Keys -> Seq(Nat)] /\ left[k] = Tail(line)
      /\ \A other \in Keys : other # k => left[other] = queues[other]
  BY <1>3 DEF InLine
<1> HIDE DEF line
<1>10. ASSUME NEW other \in Keys, NEW p \in DOMAIN left[other]
       PROVE  /\ left[other][p] \in DOMAIN rows \ {j}
              /\ rows[left[other][p]].pc = "waiting"
              /\ Head(rows[left[other][p]].legs) = other
  <2>1. CASE other = k
    <3>1. p + 1 \in DOMAIN line /\ p + 1 # 1 /\ left[other][p] = line[p + 1]
      BY <1>3, <1>9, <1>10, <2>1
    <3> QED BY <1>4, <1>7, <2>1, <3>1
  <2>2. CASE other # k
    BY <1>9, <2>2 DEF InLine
  <2> QED BY <2>1, <2>2
<1>11. ASSUME NEW i \in DOMAIN rows \ {j}, rows[i].pc = "waiting"
       PROVE  \E p \in DOMAIN left[Head(rows[i].legs)] : left[Head(rows[i].legs)][p] = i
  <2>1. CASE Head(rows[i].legs) = k
    <3>1. PICK p \in DOMAIN line : p # 1 /\ line[p] = i
      BY <1>8, <1>11, <2>1
    <3>2. p - 1 \in DOMAIN Tail(line) /\ Tail(line)[p - 1] = line[(p - 1) + 1]
          /\ (p - 1) + 1 = p
      BY <1>3, <3>1
    <3> QED BY <1>9, <2>1, <3>1, <3>2
  <2>2. CASE Head(rows[i].legs) # k
    <3>1. PICK p \in DOMAIN queues[Head(rows[i].legs)] : queues[Head(rows[i].legs)][p] = i
      BY <1>11 DEF InLine
    <3>2. Head(rows[i].legs) \in Keys => left[Head(rows[i].legs)] = queues[Head(rows[i].legs)]
      BY <1>9, <2>2
    <3>3. Head(rows[i].legs) \notin Keys => left[Head(rows[i].legs)] = queues[Head(rows[i].legs)]
      BY <1>9, <2>2
    <3> QED BY <3>1, <3>2, <3>3
  <2> QED BY <2>1, <2>2
<1>12. ASSUME NEW other \in Keys, NEW p \in DOMAIN left[other], NEW q \in DOMAIN left[other],
              p < q
       PROVE  rows[left[other][p]].now < rows[left[other][q]].now
  <2>1. CASE other = k
    <3>1. p \in DOMAIN Tail(line) /\ q \in DOMAIN Tail(line)
      BY <1>9, <2>1
    <3>2. /\ p + 1 \in DOMAIN line /\ left[other][p] = line[p + 1]
          /\ q + 1 \in DOMAIN line /\ left[other][q] = line[q + 1]
      BY <1>3, <1>9, <2>1, <3>1
    <3>3. p + 1 < q + 1
      BY <1>3, <1>12, <3>1
    <3> QED BY <1>5, <3>2, <3>3
  <2>2. CASE other # k
    BY <1>9, <1>12, <2>2 DEF InLine
  <2> QED BY <2>1, <2>2
<1>13. InLine(left, rows, {j})
  BY <1>9, <1>10, <1>11, <1>12 DEF InLine
<1> QED
  BY <1>7, <1>8, <1>13

\* A task joins the queue with a reading later than all the others'.
LEMMA InLineJoined ==
  ASSUME NEW queues, NEW rows, NEW others, NEW j \in Nat, NEW k \in Keys,
         InLine(queues, rows, {j}), DOMAIN others = DOMAIN rows, j \in DOMAIN rows,
         \A i \in DOMAIN rows : i # j => others[i] = rows[i],
         others[j].pc = "waiting", Head(others[j].legs) = k,
         \A i \in DOMAIN rows : i # j /\ rows[i].pc = "waiting" => rows[i].now < others[j].now,
         NEW longer, longer = [queues EXCEPT ![k] = Append(queues[k], j)]
  PROVE  InLine(longer, others, {})
<1> DEFINE line == queues[k]
<1>1. line \in Seq(Nat) BY DEF InLine
<1>2. /\ Append(line, j) \in Seq(Nat) /\ Len(line) \in Nat /\ DOMAIN line = 1..Len(line)
      /\ DOMAIN Append(line, j) = DOMAIN line \cup {Len(line) + 1}
      /\ Append(line, j)[Len(line) + 1] = j
      /\ \A p \in DOMAIN line : p <= Len(line) /\ p \in Nat /\ Append(line, j)[p] = line[p]
  BY <1>1
<1>3. /\ longer \in [Keys -> Seq(Nat)] /\ longer[k] = Append(line, j)
      /\ \A other \in Keys : other # k => longer[other] = queues[other]
  BY <1>2 DEF InLine
<1>4. \A other \in Keys : \A p \in DOMAIN queues[other] :
        /\ queues[other][p] \in DOMAIN rows \ {j}
        /\ rows[queues[other][p]].pc = "waiting" /\ Head(rows[queues[other][p]].legs) = other
        /\ others[queues[other][p]] = rows[queues[other][p]]
  BY DEF InLine
<1>5. \A i \in DOMAIN rows \ {j} : rows[i].pc = "waiting" =>
        \E p \in DOMAIN queues[Head(rows[i].legs)] : queues[Head(rows[i].legs)][p] = i
  BY DEF InLine
<1>6. \A other \in Keys : \A p, q \in DOMAIN queues[other] :
        p < q => rows[queues[other][p]].now < rows[queues[other][q]].now
  BY DEF InLine
<1>7. \A other \in DOMAIN queues : other # k => longer[other] = queues[other]
  BY <1>3 DEF InLine
<1>8. ASSUME NEW other \in Keys, NEW p \in DOMAIN longer[other]
      PROVE  /\ longer[other][p] \in DOMAIN others
             /\ others[longer[other][p]].pc = "waiting"
             /\ Head(others[longer[other][p]].legs) = other
  <2>1. CASE other = k
    BY <1>2, <1>3, <1>4, <2>1
  <2>2. CASE other # k
    BY <1>3, <1>4, <2>2
  <2> QED BY <2>1, <2>2
<1>9. ASSUME NEW i \in DOMAIN others, others[i].pc = "waiting"
      PROVE  \E p \in DOMAIN longer[Head(others[i].legs)] : longer[Head(others[i].legs)][p] = i
  <2>1. CASE i = j
    BY <1>2, <1>3, <2>1
  <2>2. CASE i # j
    <3>1. others[i] = rows[i]
      BY <2>2
    <3>2. PICK p \in DOMAIN queues[Head(rows[i].legs)] : queues[Head(rows[i].legs)][p] = i
      BY <1>5, <1>9, <2>2, <3>1
    <3>3. CASE Head(rows[i].legs) = k
      BY <1>2, <1>3, <3>1, <3>2, <3>3
    <3>4. CASE Head(rows[i].legs) # k
      BY <3>1, <3>2, <3>4
    <3> QED BY <3>3, <3>4
  <2> QED BY <2>1, <2>2
<1>10. ASSUME NEW other \in Keys, NEW p \in DOMAIN longer[other],
              NEW q \in DOMAIN longer[other], p < q
       PROVE  others[longer[other][p]].now < others[longer[other][q]].now
  <2>1. CASE other = k /\ q \in DOMAIN line
    <3>1. p \in DOMAIN line
      BY <1>2, <1>3, <1>10, <2>1
    <3>2. longer[other][p] = line[p] /\ longer[other][q] = line[q]
      BY <1>2, <1>3, <2>1, <3>1
    <3>3. others[line[p]] = rows[line[p]] /\ others[line[q]] = rows[line[q]]
      BY <1>4, <2>1, <3>1
    <3>4. rows[line[p]].now < rows[line[q]].now
      BY <1>6, <1>10, <2>1, <3>1
    <3> QED BY <3>2, <3>3, <3>4
  <2>2. CASE other = k /\ q \notin DOMAIN line
    <3>1. longer[other][q] = j /\ p \in DOMAIN line /\ longer[other][p] = line[p]
      BY <1>2, <1>3, <1>10, <2>2
    <3>2. line[p] \in DOMAIN rows \ {j} /\ rows[line[p]].pc = "waiting"
          /\ others[line[p]] = rows[line[p]]
      BY <1>4, <2>2, <3>1
    <3> QED BY <3>1, <3>2
  <2>3. CASE other # k
    BY <1>3, <1>4, <1>6, <1>10, <2>3
  <2> QED BY <2>1, <2>2, <2>3
<1>11. \A other \in Keys : \A p, q \in DOMAIN longer[other] :
         p < q => others[longer[other][p]].now < others[longer[other][q]].now
  BY <1>10
<1>12. \A other \in Keys : \A p \in DOMAIN longer[other] :
         /\ longer[other][p] \in DOMAIN others \ {}
         /\ others[longer[other][p]].pc = "waiting"
         /\ Head(others[longer[other][p]].legs) = other
  BY <1>8
<1>13. \A i \in DOMAIN others \ {} : others[i].pc = "waiting" =>
         \E p \in DOMAIN longer[Head(others[i].legs)] : longer[Head(others[i].legs)][p] = i
  BY <1>9
<1> QED
  BY <1>3, <1>11, <1>12, <1>13, Zenon DEF InLine

\* Time passes, and tasks stop being pending or new ones arrive.
LEMMA TurnFrame ==
  ASSUME NEW rows, NEW others, NEW time, NEW later \in Nat, NEW stored,
         ReadInTurn(rows, time), StoredFirst(rows, time, stored), time <= later,
         \A i \in DOMAIN others :
           Pending(others[i]) => i \in DOMAIN rows /\ others[i] = rows[i]
  PROVE  ReadInTurn(others, later) /\ StoredFirst(others, later, stored)
<1>1. ReadInTurn(others, later)
  BY DEF ReadInTurn, Pending
<1>2. StoredFirst(others, later, stored)
  BY DEF ReadInTurn, StoredFirst
<1> QED
  BY <1>1, <1>2

\* A task becomes pending under a reading: later than what is stored of its
\* subject and, if it asks, earlier than those who wait.
LEMMA TurnTaken ==
  ASSUME NEW rows, NEW others, NEW time, NEW later \in Nat, NEW stored, NEW j \in DOMAIN rows,
         ReadInTurn(rows, time), StoredFirst(rows, time, stored), time <= later,
         DOMAIN others = DOMAIN rows, \A i \in DOMAIN rows : i # j => others[i] = rows[i],
         others[j].now \in Nat, others[j].now < later,
         \A r \in DOMAIN stored :
           stored[r].key = Head(others[j].legs) => stored[r].ts < others[j].now,
         \A i \in DOMAIN rows :
           i # j /\ Head(rows[i].legs) = Head(others[j].legs) =>
             /\ others[j].pc = "asking" /\ rows[i].pc = "waiting" => others[j].now < rows[i].now
             /\ others[j].pc = "waiting" /\ rows[i].pc = "asking" => rows[i].now < others[j].now
  PROVE  ReadInTurn(others, later) /\ StoredFirst(others, later, stored)
<1>1. ReadInTurn(others, later)
  BY DEF ReadInTurn, Pending
<1>2. StoredFirst(others, later, stored)
  BY DEF ReadInTurn, StoredFirst
<1> QED
  BY <1>1, <1>2

\* The one task that asks about a subject stores its reflection and is done
\* with it: it is the latest of that subject and earlier than all that wait.
LEMMA TurnStored ==
  ASSUME NEW rows, NEW others, NEW time, NEW stored, NEW j \in DOMAIN rows, NEW row,
         ReadInTurn(rows, time), StoredFirst(rows, time, stored),
         DOMAIN others = DOMAIN rows, \A i \in DOMAIN rows : i # j => others[i] = rows[i],
         ~Pending(others[j]), rows[j].pc = "asking",
         row.ts = rows[j].now, row.key = Head(rows[j].legs),
         \A i \in DOMAIN rows :
           rows[i].pc = "asking" /\ Head(rows[i].legs) = Head(rows[j].legs) => i = j
  PROVE  ReadInTurn(others, time) /\ StoredFirst(others, time, Append(stored, row))
<1>1. ReadInTurn(others, time)
  BY DEF ReadInTurn, Pending
<1>2. PICK S : stored \in Seq(S)
  BY DEF StoredFirst
<1> DEFINE longer == Append(stored, row)
           new == Len(stored) + 1
<1>3. \E T : longer \in Seq(T)
  <2>1. stored \in Seq(S \cup {row})
    BY <1>2
  <2>2. longer \in Seq(S \cup {row})
    BY <2>1
  <2> QED BY <2>2
<1>4. /\ DOMAIN longer = DOMAIN stored \cup {new} /\ longer[new] = row
      /\ new \notin DOMAIN stored /\ new \in Nat
      /\ \A r \in DOMAIN stored : longer[r] = stored[r] /\ r < new /\ r \in Nat
  BY <1>2
<1>5. rows[j].now \in Nat /\ rows[j].now < time /\ Pending(rows[j])
  BY DEF ReadInTurn, Pending
<1> HIDE DEF longer, new
<1>6. \A r \in DOMAIN longer : longer[r].ts \in Nat /\ longer[r].ts < time
  BY <1>4, <1>5 DEF StoredFirst
<1>7. ASSUME NEW r \in DOMAIN longer, NEW i \in DOMAIN others,
             Pending(others[i]), Head(others[i].legs) = longer[r].key
      PROVE  longer[r].ts < others[i].now
  <2>1. i # j /\ others[i] = rows[i]
    BY <1>7
  <2>2. CASE r \in DOMAIN stored
    BY <1>4, <1>7, <2>1, <2>2 DEF StoredFirst
  <2>3. CASE r = new
    <3>1. rows[i].pc = "waiting"
      BY <1>4, <1>7, <2>1, <2>3 DEF Pending
    <3> QED BY <1>4, <1>7, <2>1, <2>3, <3>1 DEF ReadInTurn
  <2> QED BY <1>4, <2>2, <2>3
<1>8. ASSUME NEW h \in DOMAIN longer, NEW r \in DOMAIN longer, h < r,
             longer[h].key = longer[r].key
      PROVE  longer[h].ts < longer[r].ts
  <2>1. CASE r \in DOMAIN stored
    <3>1. h \in DOMAIN stored
      BY <1>4, <1>8, <2>1
    <3> QED BY <1>4, <1>8, <2>1, <3>1 DEF StoredFirst
  <2>2. CASE r = new
    <3>1. h \in DOMAIN stored
      BY <1>4, <1>8, <2>2
    <3> QED BY <1>4, <1>5, <1>8, <2>2, <3>1 DEF StoredFirst
  <2> QED BY <1>4, <2>1, <2>2
<1>9. StoredFirst(others, time, longer)
  BY <1>3, <1>6, <1>7, <1>8 DEF StoredFirst
<1> QED
  BY <1>1, <1>9 DEF longer

\* The legs of one task end, or a task is replaced: the others stay.
LEMMA LeaveOrdered ==
  ASSUME OrderInv, LockInv, NEW j \in DOMAIN task, NEW legs,
         task' = [task EXCEPT ![j] = Resting(legs)], UNCHANGED reflections,
         InLine(waiters', task, {j}), clock' \in Nat, clock <= clock'
  PROVE  OrderInv'
<1> DEFINE row == Resting(legs)
<1>1. ~Pending(row)
  BY DEF Resting, Pending
<1>2. task' = [task EXCEPT ![j] = row]
  OBVIOUS
<1> HIDE DEF row
<1>3. /\ DOMAIN task' = DOMAIN task /\ task'[j] = row
      /\ \A i \in DOMAIN task : i # j => task'[i] = task[i]
  BY <1>2
<1>4. InLine(waiters', task', {})
  BY <1>1, <1>3, InLineFrame DEF Pending
<1>5. ReadInTurn(task', clock') /\ StoredFirst(task', clock', reflections)
  BY <1>1, <1>3, TurnFrame DEF OrderInv
<1> QED
  BY <1>4, <1>5 DEF OrderInv

\* A task whose turn it is asks under its reading, or moves on.
LEMMA LookOrdered ==
  ASSUME OrderInv, LockInv, NEW j \in DOMAIN task, NEW now \in Nat, now <= clock,
         Look(j, Key(j), now), UNCHANGED reflections, InLine(waiters', task, {j}),
         \A i \in DOMAIN task :
           i # j /\ task[i].pc = "waiting" /\ Key(i) = Key(j) => now < task[i].now,
         \A r \in DOMAIN reflections : reflections[r].key = Key(j) => reflections[r].ts < now
  PROVE  OrderInv'
<1>1. CASE ShouldTrigger(Key(j), now) /\ Contexts(Key(j)) # {{}}
  <2> DEFINE row == [legs |-> task[j].legs, pc |-> "asking", now |-> now,
                     counted |-> Counted(Key(j))]
  <2>1. row.legs = task[j].legs /\ row.pc = "asking" /\ row.now = now
    OBVIOUS
  <2>2. task' = [task EXCEPT ![j] = row] /\ clock' = clock + 1
    BY <1>1 DEF Look
  <2> HIDE DEF row
  <2>3. /\ DOMAIN task' = DOMAIN task /\ task'[j] = row
        /\ \A i \in DOMAIN task : i # j => task'[i] = task[i]
    BY <2>2
  <2>4. InLine(waiters', task', {})
    BY <2>1, <2>3, InLineFrame
  <2>5. /\ clock \in Nat /\ clock' \in Nat /\ clock <= clock'
        /\ task'[j].now \in Nat /\ task'[j].now < clock'
    BY <2>1, <2>2, <2>3 DEF OrderInv, ReadInTurn
  <2>6. /\ \A r \in DOMAIN reflections :
             reflections[r].key = Head(task'[j].legs) => reflections[r].ts < task'[j].now
        /\ \A i \in DOMAIN task :
             i # j /\ Head(task[i].legs) = Head(task'[j].legs) =>
               /\ task'[j].pc = "asking" /\ task[i].pc = "waiting" => task'[j].now < task[i].now
               /\ task'[j].pc = "waiting" /\ task[i].pc = "asking" => task[i].now < task'[j].now
    BY <2>1, <2>3 DEF Key
  <2>7. ReadInTurn(task', clock') /\ StoredFirst(task', clock', reflections)
    BY <2>3, <2>5, <2>6, TurnTaken DEF OrderInv
  <2> QED
    BY <2>4, <2>7 DEF OrderInv
<1>2. CASE ~(ShouldTrigger(Key(j), now) /\ Contexts(Key(j)) # {{}})
  <2>1. /\ task' = [task EXCEPT ![j] = Resting(Tail(task[j].legs))]
        /\ clock' \in Nat /\ clock <= clock'
    BY <1>2 DEF Look, Leave, OrderInv, ReadInTurn
  <2> QED
    BY <2>1, LeaveOrdered
<1> QED
  BY <1>1, <1>2

\* A task that may not look yet queues up under a reading later than all.
LEMMA WaitOrdered ==
  ASSUME OrderInv, LockInv, NEW j \in DOMAIN task, Enter(j), ~Free(Key(j))
  PROVE  OrderInv'
<1> DEFINE row == [task[j] EXCEPT !.pc = "waiting", !.now = clock]
<1>0. /\ task[j].pc = "ready" /\ clock' = clock + 1 /\ UNCHANGED reflections
      /\ waiters' = [waiters EXCEPT ![Key(j)] = Append(waiters[Key(j)], j)]
  BY DEF Enter, db
<1>1. task' = [task EXCEPT ![j] = row]
  BY DEF Enter
<1>2. row.legs = task[j].legs
  OBVIOUS
<1>3. row.pc = "waiting" /\ row.now = clock
  OBVIOUS
<1> HIDE DEF row
<1>4. /\ DOMAIN task' = DOMAIN task /\ task'[j] = row
      /\ \A i \in DOMAIN task : i # j => task'[i] = task[i]
  BY <1>1
<1>5. j \in Nat /\ Key(j) \in Keys
  BY <1>0 DEF LockInv, TasksShaped, Key
<1>6. clock \in Nat /\ clock' \in Nat /\ clock <= clock' /\ clock < clock'
  BY <1>0 DEF OrderInv, ReadInTurn
<1>7. InLine(waiters, task, {j})
  BY <1>0, InLineReady DEF OrderInv
<1>8. \A i \in DOMAIN task : Pending(task[i]) => task[i].now < clock
  BY DEF OrderInv, ReadInTurn
<1>9. InLine(waiters', task', {})
  <2>1. \A i \in DOMAIN task : i # j /\ task[i].pc = "waiting" => task[i].now < task'[j].now
    BY <1>3, <1>4, <1>8 DEF Pending
  <2>2. Head(task'[j].legs) = Key(j) /\ task'[j].pc = "waiting"
    BY <1>2, <1>3, <1>4 DEF Key
  <2> QED
    BY <1>0, <1>4, <1>5, <1>7, <2>1, <2>2, InLineJoined
<1>10. \A r \in DOMAIN reflections :
         reflections[r].key = Head(task'[j].legs) => reflections[r].ts < task'[j].now
  BY <1>3, <1>4 DEF OrderInv, StoredFirst
<1>11. \A i \in DOMAIN task :
         i # j /\ Head(task[i].legs) = Head(task'[j].legs) =>
           /\ task'[j].pc = "asking" /\ task[i].pc = "waiting" => task'[j].now < task[i].now
           /\ task'[j].pc = "waiting" /\ task[i].pc = "asking" => task[i].now < task'[j].now
  BY <1>3, <1>4, <1>8 DEF Pending
<1>12. task'[j].now \in Nat /\ task'[j].now < clock'
  BY <1>3, <1>4, <1>6
<1>13. ReadInTurn(task', clock') /\ StoredFirst(task', clock', reflections)
  BY <1>4, <1>6, <1>10, <1>11, <1>12, TurnTaken DEF OrderInv
<1> QED
  BY <1>0, <1>9, <1>13 DEF OrderInv

\* A publish brings a task that holds no reading yet.
LEMMA PublishOrdered ==
  ASSUME OrderInv, LockInv, NEW src \in Names, NEW seen \in Names \cup {NULL}, NEW ts,
         Publish(src, seen, ts)
  PROVE  OrderInv'
<1> DEFINE row == Resting(Legs(src, seen))
<1>1. ~Pending(row)
  BY DEF Resting, Pending
<1>2. task' = Append(task, row) /\ clock' = clock + 1 /\ UNCHANGED <<reflections, waiters>>
  BY DEF Publish
<1>3. PICK S : task \in Seq(S)
  BY DEF LockInv, TasksShaped
<1> HIDE DEF row
<1>4. /\ DOMAIN task' = DOMAIN task \cup {Len(task) + 1} /\ task'[Len(task) + 1] = row
      /\ \A i \in DOMAIN task : task'[i] = task[i]
  BY <1>2, <1>3
<1>5. clock \in Nat /\ clock' \in Nat /\ clock <= clock'
  BY <1>2 DEF OrderInv, ReadInTurn
<1>6. InLine(waiters', task', {})
  <2>1. InLine(waiters, task, {})
    BY DEF OrderInv
  <2> QED
    BY <1>1, <1>2, <1>4, <2>1, InLineFrame DEF Pending
<1>7. ReadInTurn(task', clock') /\ StoredFirst(task', clock', reflections)
  BY <1>1, <1>4, <1>5, TurnFrame DEF OrderInv
<1> QED
  BY <1>2, <1>6, <1>7 DEF OrderInv

\* An answer stores what was read before all that is pending for its subject.
LEMMA AnswerOrdered ==
  ASSUME OrderInv, LockInv, NEW j \in DOMAIN task, NEW words, Answer(j, words)
  PROVE  OrderInv'
<1> DEFINE row == Resting(Tail(task[j].legs))
           new == [key |-> Key(j), ts |-> task[j].now, counted |-> task[j].counted,
                   words |-> words]
<1>1. ~Pending(row)
  BY DEF Resting, Pending
<1>2. new.ts = task[j].now /\ new.key = Head(task[j].legs)
  BY DEF Key
<1>3. /\ task' = [task EXCEPT ![j] = row] /\ reflections' = Append(reflections, new)
      /\ UNCHANGED <<clock, waiters>> /\ task[j].pc = "asking"
  BY DEF Answer, Persist, Leave
<1> HIDE DEF row, new
<1>4. /\ DOMAIN task' = DOMAIN task /\ task'[j] = row
      /\ \A i \in DOMAIN task : i # j => task'[i] = task[i]
  BY <1>3
<1>5. \A i \in DOMAIN task :
        task[i].pc = "asking" /\ Head(task[i].legs) = Head(task[j].legs) => i = j
  BY <1>3 DEF LockInv, Key
<1>6. InLine(waiters', task', {})
  <2>1. InLine(waiters, task, {j})
    BY <1>3, InLineReady DEF OrderInv
  <2> QED
    BY <1>1, <1>3, <1>4, <2>1, InLineFrame DEF Pending
<1>7. ReadInTurn(task', clock) /\ StoredFirst(task', clock, Append(reflections, new))
  BY <1>1, <1>2, <1>3, <1>4, <1>5, TurnStored DEF OrderInv
<1> QED
  BY <1>3, <1>6, <1>7 DEF OrderInv

\* A task enters a leg: at once under the present reading, or after a wait.
LEMMA EnterOrdered ==
  ASSUME OrderInv, LockInv, NEW j \in DOMAIN task, Enter(j)
  PROVE  OrderInv'
<1>1. task[j].pc = "ready" /\ UNCHANGED reflections /\ clock \in Nat /\ clock <= clock
  BY DEF Enter, db, OrderInv, ReadInTurn
<1>2. CASE Free(Key(j))
  <2>1. Look(j, Key(j), clock) /\ waiters' = waiters /\ waiters[Key(j)] = <<>>
    BY <1>2 DEF Enter, Free
  <2>2. InLine(waiters', task, {j})
    BY <1>1, <2>1, InLineReady DEF OrderInv
  <2>3. \A i \in DOMAIN task : task[i].pc = "waiting" => Key(i) # Key(j)
    BY <2>1 DEF OrderInv, InLine, Key
  <2>4. \A r \in DOMAIN reflections : reflections[r].ts < clock
    BY DEF OrderInv, StoredFirst
  <2> QED
    BY <1>1, <2>1, <2>2, <2>3, <2>4, LookOrdered
<1>3. CASE ~Free(Key(j))
  BY <1>3, WaitOrdered
<1> QED
  BY <1>2, <1>3

\* The first in line resumes under the reading it has held since it came.
LEMMA ResumeOrdered ==
  ASSUME OrderInv, LockInv, NEW j \in DOMAIN task, Resume(j)
  PROVE  OrderInv'
<1>1. /\ task[j].pc = "waiting" /\ Head(waiters[Key(j)]) = j /\ UNCHANGED reflections
      /\ waiters' = [waiters EXCEPT ![Key(j)] = Tail(waiters[Key(j)])]
      /\ Look(j, Key(j), task[j].now)
  BY DEF Resume, db
<1>2. Key(j) \in Keys /\ Head(task[j].legs) = Key(j)
  BY <1>1 DEF LockInv, TasksShaped, Key
<1>3. \A i \in DOMAIN task : Pending(task[i]) => task[i].now \in Nat /\ task[i].now < clock
  BY DEF OrderInv, ReadInTurn
<1>4. Pending(task[j]) /\ clock \in Nat
  BY <1>1 DEF Pending, OrderInv, ReadInTurn
<1>5. InLine(waiters, task, {})
  BY DEF OrderInv
<1>6. /\ InLine(waiters', task, {j})
      /\ \A i \in DOMAIN task :
           i # j /\ task[i].pc = "waiting" /\ Head(task[i].legs) = Key(j)
             => task[j].now < task[i].now
  BY <1>1, <1>2, <1>3, <1>5, InLineServed
<1>7. \A i \in DOMAIN task :
        i # j /\ task[i].pc = "waiting" /\ Key(i) = Key(j) => task[j].now < task[i].now
  BY <1>6 DEF Key
<1>8. \A r \in DOMAIN reflections :
        reflections[r].key = Key(j) => reflections[r].ts < task[j].now
  BY <1>2, <1>4 DEF OrderInv, StoredFirst
<1>9. task[j].now \in Nat /\ task[j].now <= clock
  BY <1>3, <1>4
<1> QED
  BY <1>1, <1>6, <1>7, <1>8, <1>9, LookOrdered

\* A task that breaks off leaves the queue it may have been first in.
LEMMA BreakOrdered ==
  ASSUME OrderInv, LockInv, NEW j \in DOMAIN task, Break(j)
  PROVE  OrderInv'
<1>1. /\ task' = [task EXCEPT ![j] = Resting(<<>>)] /\ UNCHANGED reflections
      /\ clock' \in Nat /\ clock <= clock'
  BY DEF Break, db, OrderInv, ReadInTurn
<1>2. InLine(waiters, task, {})
  BY DEF OrderInv
<1>3. CASE task[j].pc # "waiting"
  <2>1. waiters' = waiters BY <1>3 DEF Break
  <2>2. InLine(waiters', task, {j}) BY <1>2, <1>3, <2>1, InLineReady
  <2> QED BY <1>1, <2>2, LeaveOrdered
<1>4. CASE task[j].pc = "waiting"
  <2>1. /\ Head(waiters[Key(j)]) = j
        /\ waiters' = [waiters EXCEPT ![Key(j)] = Tail(waiters[Key(j)])]
    BY <1>4 DEF Break
  <2>2. Key(j) \in Keys /\ Head(task[j].legs) = Key(j)
    BY <1>4 DEF LockInv, TasksShaped, Key
  <2>3. \A i \in DOMAIN task : Pending(task[i]) => task[i].now \in Nat
    BY DEF OrderInv, ReadInTurn
  <2>4. InLine(waiters', task, {j})
    BY <1>2, <1>4, <2>1, <2>2, <2>3, InLineServed
  <2> QED BY <1>1, <2>4, LeaveOrdered
<1> QED BY <1>3, <1>4

\* Every step keeps the readings in their order.
LEMMA OrderInductive ==
  ASSUME OrderInv, LockInv, [Next]_vars
  PROVE  OrderInv'
<1>1. ASSUME NEW m \in Mentions, NEW ts, Publish(m[1], m[2], ts) PROVE OrderInv'
  <2>1. m[1] \in Names /\ m[2] \in Names \cup {NULL}
    BY ReflectionAssumption DEF ReflectionAssumption
  <2> QED
    BY <1>1, <2>1, PublishOrdered
<1>2. ASSUME NEW j \in DOMAIN task, Fail(j) PROVE OrderInv'
  <2>1. /\ task' = [task EXCEPT ![j] = Resting(Tail(task[j].legs))]
        /\ UNCHANGED <<clock, reflections, waiters>> /\ task[j].pc = "asking"
    BY <1>2 DEF Fail, Leave, db
  <2>2. InLine(waiters', task, {j})
    BY <2>1, InLineReady DEF OrderInv
  <2>3. clock' \in Nat /\ clock <= clock'
    BY <2>1 DEF OrderInv, ReadInTurn
  <2> QED
    BY <2>1, <2>2, <2>3, LeaveOrdered
<1>3. ASSUME NEW j \in DOMAIN task, TaskStep(j) PROVE OrderInv'
  BY <1>2, <1>3, EnterOrdered, ResumeOrdered, AnswerOrdered, BreakOrdered DEF TaskStep
<1>4. CASE Pause
  <2>1. clock' \in Nat /\ clock <= clock'
    BY <1>4, ReflectionAssumption DEF Pause, OrderInv, ReadInTurn, ReflectionAssumption
  <2>2. UNCHANGED <<reflections, waiters, task>>
    BY <1>4 DEF Pause, db
  <2>3. ReadInTurn(task, clock') /\ StoredFirst(task, clock', reflections)
    BY <2>1, TurnFrame DEF OrderInv, ReadInTurn
  <2> QED
    BY <2>2, <2>3 DEF OrderInv
<1>5. CASE Crash
  <2>1. /\ DOMAIN task' = DOMAIN task /\ UNCHANGED <<clock, reflections>>
        /\ \A j \in DOMAIN task' : task'[j] = Resting(<<>>)
        /\ waiters' = [k \in Keys |-> <<>>]
    BY <1>5 DEF Crash, db
  <2>2. ~Pending(Resting(<<>>))
    BY DEF Resting, Pending
  <2>3. InLine(waiters', task', {})
    <3>1. waiters' \in [Keys -> Seq(Nat)] /\ \A k \in Keys : DOMAIN waiters'[k] = {}
      BY <2>1
    <3>2. \A j \in DOMAIN task' : task'[j].pc # "waiting"
      BY <2>1, <2>2 DEF Pending
    <3> QED
      BY <3>1, <3>2 DEF InLine
  <2>4. clock \in Nat /\ clock <= clock
    BY DEF OrderInv, ReadInTurn
  <2>5. ReadInTurn(task', clock) /\ StoredFirst(task', clock, reflections)
    BY <2>1, <2>2, <2>4, TurnFrame DEF OrderInv
  <2> QED
    BY <2>1, <2>3, <2>5 DEF OrderInv
<1>6. CASE UNCHANGED vars
  BY <1>6 DEF vars, db, OrderInv
<1> QED
  BY <1>1, <1>3, <1>4, <1>5, <1>6 DEF Next

\* Of one subject, what is stored later is dated later, although a task reads
\* the clock before it waits for the lock (scheduler.py:174): MAX(ts) is the
\* reflection stored last, for any number of tasks, subjects and crashes.
THEOREM ReadingsStoredInOrder == Spec => []StoredInOrder
<1>1. Init => LockInv /\ OrderInv
  <2> SUFFICES ASSUME Init PROVE LockInv /\ OrderInv
    OBVIOUS
  <2>1. task = <<>> /\ task \in Seq({}) /\ DOMAIN task = {}
    BY DEF Init
  <2>2. holder \in [Keys -> Nat \cup {NULL}]
    BY DEF Init
  <2>3. waiters \in [Keys -> Seq(Nat)] /\ \A k \in Keys : DOMAIN waiters[k] = {}
    BY DEF Init
  <2>4. clock \in Nat /\ reflections \in Seq({}) /\ DOMAIN reflections = {}
    BY DEF Init
  <2>5. LockInv
    BY <2>1, <2>2 DEF LockInv, TasksShaped
  <2>6. InLine(waiters, task, {})
    BY <2>1, <2>3 DEF InLine
  <2>7. ReadInTurn(task, clock) /\ StoredFirst(task, clock, reflections)
    BY <2>1, <2>4 DEF ReadInTurn, StoredFirst
  <2> QED
    BY <2>5, <2>6, <2>7 DEF OrderInv
<1>2. LockInv /\ OrderInv /\ [Next]_vars => LockInv' /\ OrderInv'
  BY LockInductive, OrderInductive
<1>3. OrderInv => StoredInOrder
  BY DEF OrderInv, StoredFirst, StoredInOrder, Of
<1> QED
  BY <1>1, <1>2, <1>3, PTL DEF Spec
=============================================================================
