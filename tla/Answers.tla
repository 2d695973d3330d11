------------------------------- MODULE Answers -------------------------------
(***************************************************************************)
(* What a question is promised, without attempts, judges or models: it is  *)
(* answered once, either with an excuse that cites nothing, or by citing   *)
(* something, and then only events about whom it asked that were on record *)
(* when it was asked.                                                      *)
(***************************************************************************)
CONSTANTS Queries, Events, Agents, Author, NULL

VARIABLES
  record,  \* the events on record
  asked,   \* the subject of each question and the events it may cite, or NULL
  reply    \* the events each answer cites, or NULL

answers == <<record, asked, reply>>

About(subject) == {e \in record : subject = NULL \/ Author[e] = subject}

Init ==
  /\ record = {}
  /\ asked = [q \in Queries |-> NULL]
  /\ reply = [q \in Queries |-> NULL]

Grow(e) == record' = record \cup {e} /\ UNCHANGED <<asked, reply>>

\* A question is asked; a hopeless one gets its excuse at once.
Ask(q, subject) ==
  /\ asked[q] = NULL
  /\ \E may \in SUBSET About(subject) :
       asked' = [asked EXCEPT ![q] = [subject |-> subject, may |-> may]]
  /\ \/ UNCHANGED reply
     \/ reply' = [reply EXCEPT ![q] = {}]
  /\ UNCHANGED record

\* {} is an excuse.
Answer(q) ==
  /\ asked[q] # NULL /\ reply[q] = NULL
  /\ \E cited \in SUBSET asked[q].may : reply' = [reply EXCEPT ![q] = cited]
  /\ UNCHANGED <<record, asked>>

Next ==
  \/ \E e \in Events : Grow(e)
  \/ \E q \in Queries : Answer(q) \/ \E subject \in Agents \cup {NULL} : Ask(q, subject)

Spec == Init /\ [][Next]_answers
=============================================================================
