------------------------------ MODULE Narrative ------------------------------
(***************************************************************************)
(* Narrative answers: a question takes a snapshot of the evidence, asks    *)
(* the model up to MaxRetries + 1 times, and lets a text out only when all *)
(* its citation markers are of that evidence and, in strict mode, the      *)
(* judge rejects none of them.                                             *)
(*                                                                         *)
(* A query suspends at every request to the model or the judge; events are *)
(* stored and other queries answered meanwhile.  A text is abstracted to   *)
(* the set of short ids it marks, a payload to the event it belongs to.    *)
(* Short ids are the first eight digits of an event id and may collide.    *)
(***************************************************************************)
EXTENDS Naturals, Sequences, SequencesExt

CONSTANTS
  Queries,    \* questions asked
  Events,     \* events that may be stored
  Agents,     \* agent names
  Author,     \* source_agent of every event
  ShortIds,   \* eight digits; some may belong to no event
  Short,      \* the short id of every event
  NULL,       \* no subject, no answer yet
  HasJudge,   \* a judge provider is configured
  Caps,       \* the max_citations a client may ask for
  MaxEvents,  \* newest events taken as evidence (30)
  MaxRetries  \* requests repeated after an invalid text (2)

ASSUME NarrativeAssumption ==
  /\ Author \in [Events -> Agents] /\ Short \in [Events -> ShortIds]
  /\ NULL \notin Agents /\ NULL \notin [subject : Agents \cup {NULL}, may : SUBSET Events]
  /\ HasJudge \in BOOLEAN /\ Caps \subseteq Nat
  /\ MaxEvents \in Nat \ {0} /\ MaxRetries \in Nat

VARIABLES
  stored,     \* events, ordered by their timestamps
  reflected,  \* some reflection exists
  query       \* where each query stands

vars == <<stored, reflected, query>>

Unasked == [pc |-> "idle", subject |-> NULL, strict |-> FALSE, cap |-> 0,
            evidence |-> <<>>, attempts |-> 0, markers |-> {}, judged |-> {},
            rejected |-> {}, reply |-> NULL]

----------------------------------------------------------------------------
(* Evidence.                                                               *)

\* Newest first, as many as the limit allows, of one agent or of all: the n-th has
\* n - 1 newer ones.
Evidence(subject) ==
  LET own   == {i \in DOMAIN stored : subject = NULL \/ Author[stored[i]] = subject}
      total == Cardinality(own)
      at(n) == CHOOSE i \in own : Cardinality({j \in own : i < j}) = n - 1
  IN  [n \in 1 .. (IF total < MaxEvents THEN total ELSE MaxEvents) |-> stored[at(n)]]

ShortIdsOf(evidence) == {Short[evidence[i]] : i \in DOMAIN evidence}

\* The event a marker stands for: of several with one short id the last.
Cited(evidence, m) == evidence[SelectLastInSeq(evidence, LAMBDA e : Short[e] = m)]

\* Mutant: the judge is shown the first event with that short id.
JudgedFirst(evidence, m) == evidence[SelectInSeq(evidence, LAMBDA e : Short[e] = m)]

\* The event whose payload the judge is shown for a marker.
Judged(evidence, m) == evidence[SelectLastInSeq(evidence, LAMBDA e : Short[e] = m)]

\* Mutant: markers are looked up among all events.
CitationsAnywhere(evidence, markers) ==
  {[short |-> m, event |-> Cited(stored, m)] : m \in markers}

Citations(evidence, markers) ==
  {[short |-> m, event |-> Cited(evidence, m)] : m \in markers}

\* The corpus is too poor to ground an answer.
IsCold == stored = <<>> \/ ~reflected

----------------------------------------------------------------------------
(* Outcomes of a query.                                                    *)

Fallback(q, cold) ==
  query' = [query EXCEPT ![q].pc = "done",
              ![q].reply = [citations |-> {}, cold |-> cold, fallback |-> TRUE,
                            retries |-> IF query[q].attempts = 0 THEN 0
                                        ELSE query[q].attempts - 1]]

Deliver(q, row) ==
  query' = [query EXCEPT ![q] =
              [row EXCEPT !.pc = "done",
                 !.reply = [citations |-> Citations(row.evidence, row.markers),
                            cold |-> FALSE, fallback |-> FALSE,
                            retries |-> row.attempts - 1]]]

\* Mutant: one request too many.
RetryOnceMore(q) ==
  IF query[q].attempts <= MaxRetries + 1
  THEN query' = [query EXCEPT ![q].pc = "asking", ![q].attempts = @ + 1,
                              ![q].markers = {}, ![q].judged = {}, ![q].rejected = {}]
  ELSE Fallback(q, FALSE)

\* The text was invalid: ask again, or give up.
Retry(q) ==
  IF query[q].attempts <= MaxRetries
  THEN query' = [query EXCEPT ![q].pc = "asking", ![q].attempts = @ + 1,
                              ![q].markers = {}, ![q].judged = {}, ![q].rejected = {}]
  ELSE Fallback(q, FALSE)

----------------------------------------------------------------------------
(* Steps of a query.                                                       *)

\* A question arrives.  Strict mode without a judge is downgraded.
Ask(q, subject, strict, cap) ==
  /\ query[q].pc = "idle"
  /\ LET evidence == Evidence(subject)
         row == [Unasked EXCEPT !.subject = subject, !.strict = strict /\ HasJudge, !.cap = cap]
     IN  query' = [query EXCEPT ![q] =
           IF ~IsCold /\ evidence # <<>>
           THEN [row EXCEPT !.pc = "asking", !.evidence = evidence, !.attempts = 1]
           ELSE [row EXCEPT !.pc = "done",
                   !.reply = [citations |-> {}, cold |-> IsCold, fallback |-> TRUE, retries |-> 0]]]
  /\ UNCHANGED <<stored, reflected>>

\* The model answers with a text that marks these short ids.
Respond(q, markers) ==
  /\ query[q].pc = "asking"
  /\ LET row == [query[q] EXCEPT !.markers = markers]
     IN  CASE markers = {} \/ ~ markers \subseteq ShortIdsOf(row.evidence) -> Retry(q)
           [] OTHER -> IF row.strict
                       THEN query' = [query EXCEPT ![q] = [row EXCEPT !.pc = "judging"]]
                       ELSE Deliver(q, row)
  /\ UNCHANGED <<stored, reflected>>

\* The request for a text fails.
ProviderFails(q) ==
  /\ query[q].pc = "asking"
  /\ Fallback(q, FALSE)
  /\ UNCHANGED <<stored, reflected>>

\* The judge gives its verdict on one marker; an error of the judge or an
\* unreadable verdict counts as grounded.
Judge(q, m, verdict) ==
  /\ query[q].pc = "judging"
  /\ m \in query[q].markers
  /\ Judged(query[q].evidence, m) \notin query[q].judged
  /\ LET event == Judged(query[q].evidence, m)
         row   == [query[q] EXCEPT !.judged = @ \cup {event},
                     !.rejected = IF verdict = "ungrounded" THEN @ \cup {event} ELSE @]
         over  == \A n \in row.markers : Judged(row.evidence, n) \in row.judged
     IN  CASE ~over -> query' = [query EXCEPT ![q] = row]
           [] over /\ row.rejected # {} -> Retry(q)
           [] OTHER -> Deliver(q, row)
  /\ UNCHANGED <<stored, reflected>>

\* Reading the tables or the prompt fails: the excuse goes out, and it calls
\* the corpus cold when the count was what failed.
ReadFails(q, subject, cold) ==
  /\ query[q].pc = "idle"
  /\ query' = [query EXCEPT ![q] =
       [Unasked EXCEPT !.pc = "done", !.subject = subject,
          !.reply = [citations |-> {}, cold |-> cold, fallback |-> TRUE, retries |-> 0]]]
  /\ UNCHANGED <<stored, reflected>>

----------------------------------------------------------------------------
(* The surroundings.                                                       *)

\* Another event is stored; its client may have dated it.
Publish(e, at) ==
  /\ e \notin ToSet(stored)
  /\ stored' = InsertAt(stored, at, e)
  /\ UNCHANGED <<reflected, query>>

Reflect ==
  /\ stored # <<>> /\ ~reflected
  /\ reflected' = TRUE
  /\ UNCHANGED <<stored, query>>

Init ==
  /\ stored = <<>> /\ reflected = FALSE
  /\ query = [q \in Queries |-> Unasked]

Verdicts == {"grounded", "ungrounded", "error"}

Progress(q) ==
  \/ \E markers \in SUBSET ShortIds : Respond(q, markers)
  \/ ProviderFails(q)
  \/ \E m \in ShortIds, verdict \in Verdicts : Judge(q, m, verdict)

Arrive(q) ==
  \E subject \in Agents \cup {NULL} :
    \/ \E strict \in BOOLEAN, cap \in Caps : Ask(q, subject, strict, cap)
    \/ \E cold \in BOOLEAN : ReadFails(q, subject, cold)

Surroundings ==
  \/ \E e \in Events : \E at \in 1 .. Len(stored) + 1 : Publish(e, at)
  \/ Reflect

Next == (\E q \in Queries : Progress(q) \/ Arrive(q)) \/ Surroundings

\* Requests to the model and to the judge end within the provider's timeout.
Fairness == \A q \in Queries : WF_vars(Progress(q))

Spec == Init /\ [][Next]_vars /\ Fairness

----------------------------------------------------------------------------
(* Properties.                                                             *)

EventsOf(reply) == {c.event : c \in reply.citations}

\* Types of the tables and of the queries; a reply exists exactly at the end.
TypeOK ==
  /\ ToSet(stored) \subseteq Events /\ reflected \in BOOLEAN
  /\ \A q \in Queries :
       LET row == query[q] IN
       /\ row.pc \in {"idle", "asking", "judging", "done"}
       /\ row.subject \in Agents \cup {NULL} /\ row.strict \in BOOLEAN
       /\ row.attempts \in 0 .. MaxRetries + 1
       /\ row.markers \subseteq ShortIds
       /\ row.rejected \subseteq row.judged /\ row.judged \subseteq ToSet(row.evidence)
       /\ (row.pc = "done") <=> (row.reply # NULL)

\* In strict mode the very events an answer cites were put to the judge, and it
\* rejected none of them, although payloads and citations are looked up by short
\* id in two places (validator.py:119, renderer.py:197).
StrictAnswersJudged ==
  \A q \in Queries :
    LET row == query[q] IN
    (row.pc = "done" /\ ~row.reply.fallback /\ row.strict) =>
      EventsOf(row.reply) \subseteq row.judged \ row.rejected

\* The model is asked at most MaxRetries + 1 times, and the answer owns up to
\* every retry (renderer.py:125).
RetriesCounted ==
  \A q \in Queries :
    /\ query[q].attempts <= MaxRetries + 1
    /\ query[q].pc = "done" /\ query[q].attempts > 0 =>
         query[q].reply.retries = query[q].attempts - 1

\* The narrative implements what Answers promises: each question is answered
\* once, from events about its subject that were on record when it was asked.
AskedOf(row) ==
  IF row.pc = "idle" THEN NULL ELSE [subject |-> row.subject, may |-> ToSet(row.evidence)]
ReplyOf(row) == IF row.pc = "done" THEN EventsOf(row.reply) ELSE NULL

Promise == INSTANCE Answers WITH
  record <- ToSet(stored),
  asked  <- [q \in Queries |-> AskedOf(query[q])],
  reply  <- [q \in Queries |-> ReplyOf(query[q])]
PromiseKept == Promise!Spec
=============================================================================
