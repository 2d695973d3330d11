--------------------------- MODULE NarrativeProofs ---------------------------
(***************************************************************************)
(* What the judge promises in strict mode, how often the model is asked,   *)
(* and that Narrative implements Answers, for any number of questions,     *)
(* events, retries and colliding ids; and what the event stream of a task  *)
(* says, for any number of requests and cancels.                           *)
(***************************************************************************)
EXTENDS Tasks, FiniteSetTheorems, TLAPS

Fields == {"pc", "subject", "strict", "cap", "evidence", "attempts",
           "markers", "judged", "rejected", "reply"}

\* A query counts its requests; once it is done, its answer owns up to them and
\* cites, in strict mode, only events that were judged and not rejected.
RowSound(row) ==
  /\ DOMAIN row = Fields
  /\ row.strict \in BOOLEAN
  /\ row.attempts \in Nat /\ row.attempts <= MaxRetries + 1
  /\ row.pc \in {"asking", "judging"} => row.attempts > 0
  /\ row.pc = "done" =>
       /\ row.attempts > 0 => row.reply.retries = row.attempts - 1
       /\ (~row.reply.fallback /\ row.strict) =>
            EventsOf(row.reply) \subseteq row.judged \ row.rejected

QueryInv == DOMAIN query = Queries /\ \A q \in Queries : RowSound(query[q])

\* A step that changes one row to a sound one keeps the invariant.
LEMMA OneRow ==
  ASSUME QueryInv, NEW q \in Queries, NEW row, RowSound(row),
         query' = [query EXCEPT ![q] = row]
  PROVE  QueryInv'
<1>1. DOMAIN query' = Queries /\ query'[q] = row
      /\ \A p \in Queries : p # q => query'[p] = query[p]
  BY DEF QueryInv
<1>2. \A p \in Queries : RowSound(query'[p])
  <2>1. ASSUME NEW p \in Queries, p # q PROVE RowSound(query'[p])
    <3>1. query'[p] = query[p] /\ RowSound(query[p]) BY <1>1, <2>1 DEF QueryInv
    <3> QED BY <3>1
  <2>2. RowSound(query'[q]) BY <1>1
  <2> QED BY <2>1, <2>2
<1> QED BY <1>1, <1>2 DEF QueryInv

\* The excuse cites nothing and reports the requests made.
LEMMA FallbackKeeps ==
  ASSUME QueryInv, NEW q \in Queries, NEW cold, Fallback(q, cold)
  PROVE  QueryInv'
<1> DEFINE excuse == [citations |-> {}, cold |-> cold, fallback |-> TRUE,
                      retries |-> IF query[q].attempts = 0 THEN 0
                                  ELSE query[q].attempts - 1]
           row    == [query[q] EXCEPT !.pc = "done", !.reply = excuse]
<1>1. RowSound(query[q]) /\ DOMAIN query = Queries BY DEF QueryInv
<1>2. query' = [query EXCEPT ![q] = row] BY <1>1 DEF Fallback
<1>3. /\ DOMAIN row = Fields /\ row.pc = "done" /\ row.reply = excuse
      /\ row.strict = query[q].strict /\ row.attempts = query[q].attempts
  BY <1>1 DEF RowSound, Fields
<1>4. excuse.fallback = TRUE
      /\ (query[q].attempts > 0 => excuse.retries = query[q].attempts - 1)
  BY <1>1 DEF RowSound
<1> HIDE DEF row, excuse
<1>5. RowSound(row) BY <1>1, <1>3, <1>4 DEF RowSound
<1> QED BY <1>2, <1>5, OneRow

\* Another attempt is made only while the bound allows one.
LEMMA RetryKeeps ==
  ASSUME QueryInv, NEW q \in Queries, Retry(q)
  PROVE  QueryInv'
<1>1. CASE query[q].attempts <= MaxRetries
  <2> DEFINE row == [query[q] EXCEPT !.pc = "asking", !.attempts = @ + 1,
                       !.markers = {}, !.judged = {}, !.rejected = {}]
  <2>1. RowSound(query[q]) /\ DOMAIN query = Queries BY DEF QueryInv
  <2>2. query' = [query EXCEPT ![q] = row] BY <1>1, <2>1 DEF Retry
  <2>3. /\ DOMAIN row = Fields /\ row.pc = "asking"
        /\ row.strict = query[q].strict /\ row.attempts = query[q].attempts + 1
    BY <2>1 DEF RowSound, Fields
  <2> HIDE DEF row
  <2>4. RowSound(row)
    BY <1>1, <2>1, <2>3, NarrativeAssumption DEF RowSound, NarrativeAssumption
  <2> QED BY <2>2, <2>4, OneRow
<1>2. CASE ~(query[q].attempts <= MaxRetries)
  BY <1>2, FallbackKeeps DEF Retry
<1> QED BY <1>1, <1>2

\* A text goes out with the citations its markers stand for.
LEMMA DeliverKeeps ==
  ASSUME QueryInv, NEW q \in Queries, NEW row, DOMAIN row = Fields,
         row.strict \in BOOLEAN, row.attempts \in Nat \ {0},
         row.attempts <= MaxRetries + 1,
         row.strict => \A m \in row.markers :
                         Cited(row.evidence, m) \in row.judged \ row.rejected,
         Deliver(q, row)
  PROVE  QueryInv'
<1> DEFINE answer == [citations |-> Citations(row.evidence, row.markers),
                      cold |-> FALSE, fallback |-> FALSE, retries |-> row.attempts - 1]
           done   == [row EXCEPT !.pc = "done", !.reply = answer]
<1>1. query' = [query EXCEPT ![q] = done] BY DEF Deliver
<1>2. /\ DOMAIN done = Fields /\ done.pc = "done" /\ done.reply = answer
      /\ done.strict = row.strict /\ done.attempts = row.attempts
      /\ done.judged = row.judged /\ done.rejected = row.rejected
  BY DEF Fields
<1>3. answer.retries = row.attempts - 1
      /\ answer.citations = Citations(row.evidence, row.markers)
  OBVIOUS
<1>4. EventsOf(answer) = {Cited(row.evidence, m) : m \in row.markers}
  <2>1. \A c \in answer.citations : \E m \in row.markers : c.event = Cited(row.evidence, m)
    BY <1>3 DEF Citations
  <2>2. \A m \in row.markers :
          \E c \in answer.citations : c.event = Cited(row.evidence, m)
    <3>1. ASSUME NEW m \in row.markers
          PROVE  \E c \in answer.citations : c.event = Cited(row.evidence, m)
      <4>1. [short |-> m, event |-> Cited(row.evidence, m)] \in answer.citations
        BY <1>3 DEF Citations
      <4> QED BY <4>1
    <3> QED BY <3>1
  <2> HIDE DEF answer
  <2> QED BY <2>1, <2>2 DEF EventsOf
<1> HIDE DEF answer, done
<1>5. row.strict => EventsOf(answer) \subseteq row.judged \ row.rejected BY <1>4
<1>6. RowSound(done) BY <1>2, <1>3, <1>5 DEF RowSound
<1> QED BY <1>1, <1>6, OneRow

\* The text of the model is retried, judged or delivered.
LEMMA RespondKeeps ==
  ASSUME QueryInv, NEW q \in Queries, NEW markers, Respond(q, markers)
  PROVE  QueryInv'
<1> DEFINE row == [query[q] EXCEPT !.markers = markers]
<1>1. RowSound(query[q]) /\ DOMAIN query = Queries /\ query[q].pc = "asking"
  BY DEF QueryInv, Respond
<1>2. /\ DOMAIN row = Fields /\ row.pc = "asking" /\ row.strict = query[q].strict
      /\ row.attempts = query[q].attempts
  BY <1>1 DEF RowSound, Fields
<1>3. \/ Retry(q)
      \/ row.strict /\ query' = [query EXCEPT ![q] = [row EXCEPT !.pc = "judging"]]
      \/ ~row.strict /\ Deliver(q, row)
  BY DEF Respond
<1> HIDE DEF row
<1>4. CASE Retry(q) BY <1>4, RetryKeeps
<1>5. CASE query' = [query EXCEPT ![q] = [row EXCEPT !.pc = "judging"]]
  <2> DEFINE next == [row EXCEPT !.pc = "judging"]
  <2>1. /\ DOMAIN next = Fields /\ next.pc = "judging" /\ next.strict = row.strict
        /\ next.attempts = row.attempts
    BY <1>2 DEF Fields
  <2>2. query' = [query EXCEPT ![q] = next] BY <1>5
  <2> HIDE DEF next
  <2>3. RowSound(next) BY <1>1, <1>2, <2>1 DEF RowSound
  <2> QED BY <2>2, <2>3, OneRow
<1>6. CASE ~row.strict /\ Deliver(q, row)
  <2>1. row.strict \in BOOLEAN /\ row.attempts \in Nat \ {0} /\ row.attempts <= MaxRetries + 1
    BY <1>1, <1>2 DEF RowSound
  <2> QED BY <1>2, <1>6, <2>1, DeliverKeeps
<1> QED BY <1>3, <1>4, <1>5, <1>6

\* The verdict of the judge delivers the narrative or sends it back.
LEMMA JudgeKeeps ==
  ASSUME QueryInv, NEW q \in Queries, NEW m, NEW verdict, Judge(q, m, verdict)
  PROVE  QueryInv'
<1> DEFINE event == Judged(query[q].evidence, m)
           row   == [query[q] EXCEPT !.judged = @ \cup {event},
                       !.rejected = IF verdict = "ungrounded" THEN @ \cup {event} ELSE @]
           over  == \A n \in row.markers : Judged(row.evidence, n) \in row.judged
<1>1. RowSound(query[q]) /\ DOMAIN query = Queries /\ query[q].pc = "judging"
  BY DEF QueryInv, Judge
<1>2. /\ DOMAIN row = Fields /\ row.pc = "judging" /\ row.strict = query[q].strict
      /\ row.attempts = query[q].attempts
  BY <1>1 DEF RowSound, Fields
<1>3. \/ query' = [query EXCEPT ![q] = row]
      \/ Retry(q)
      \/ over /\ row.rejected = {} /\ Deliver(q, row)
  BY DEF Judge
<1> HIDE DEF event, row
<1>4. RowSound(row) BY <1>1, <1>2 DEF RowSound
<1>5. CASE query' = [query EXCEPT ![q] = row] BY <1>4, <1>5, OneRow
<1>6. CASE Retry(q) BY <1>6, RetryKeeps
<1>7. CASE over /\ row.rejected = {} /\ Deliver(q, row)
  <2>1. row.strict \in BOOLEAN /\ row.attempts \in Nat \ {0} /\ row.attempts <= MaxRetries + 1
    BY <1>1, <1>2, <1>4 DEF RowSound
  <2>2. \A n \in row.markers : Cited(row.evidence, n) \in row.judged \ row.rejected
    BY <1>7 DEF Cited, Judged
  <2> QED BY <1>2, <1>7, <2>1, <2>2, DeliverKeeps
<1> QED BY <1>3, <1>5, <1>6, <1>7

\* A question that is answered at once has made no request and cites nothing.
LEMMA AskKeeps ==
  ASSUME QueryInv, NEW q \in Queries, NEW subject, NEW strict \in BOOLEAN, NEW cap,
         Ask(q, subject, strict, cap)
  PROVE  QueryInv'
<1> DEFINE row    == [Unasked EXCEPT !.subject = subject, !.strict = strict /\ HasJudge,
                                     !.cap = cap]
           asking == [row EXCEPT !.pc = "asking", !.evidence = Evidence(subject), !.attempts = 1]
           excuse == [citations |-> {}, cold |-> IsCold, fallback |-> TRUE, retries |-> 0]
           done   == [row EXCEPT !.pc = "done", !.reply = excuse]
<1>1. query' = [query EXCEPT ![q] = asking] \/ query' = [query EXCEPT ![q] = done]
  BY DEF Ask
<1>2. DOMAIN row = Fields /\ row.strict = (strict /\ HasJudge) /\ row.attempts = 0
  BY DEF Unasked, Fields
<1>3. excuse.fallback = TRUE OBVIOUS
<1>4. HasJudge \in BOOLEAN BY NarrativeAssumption DEF NarrativeAssumption
<1> HIDE DEF row, excuse
<1>5. RowSound(asking)
  <2>1. /\ DOMAIN asking = Fields /\ asking.pc = "asking" /\ asking.attempts = 1
        /\ asking.strict = row.strict
    BY <1>2 DEF Fields
  <2> HIDE DEF asking
  <2> QED BY <1>2, <1>4, <2>1, NarrativeAssumption DEF RowSound, NarrativeAssumption
<1>6. RowSound(done)
  <2>1. /\ DOMAIN done = Fields /\ done.pc = "done" /\ done.attempts = 0
        /\ done.strict = row.strict /\ done.reply = excuse
    BY <1>2 DEF Fields
  <2> HIDE DEF done
  <2> QED BY <1>2, <1>3, <1>4, <2>1, NarrativeAssumption DEF RowSound, NarrativeAssumption
<1> HIDE DEF asking, done
<1> QED BY <1>1, <1>5, <1>6, OneRow

\* An error while the evidence is read ends the query with the fallback.
LEMMA ReadFailsKeeps ==
  ASSUME QueryInv, NEW q \in Queries, NEW subject, NEW cold, ReadFails(q, subject, cold)
  PROVE  QueryInv'
<1> DEFINE excuse == [citations |-> {}, cold |-> cold, fallback |-> TRUE, retries |-> 0]
           done   == [Unasked EXCEPT !.pc = "done", !.subject = subject, !.reply = excuse]
<1>1. query' = [query EXCEPT ![q] = done] BY DEF ReadFails
<1>2. excuse.fallback = TRUE OBVIOUS
<1> HIDE DEF excuse
<1>3. /\ DOMAIN done = Fields /\ done.pc = "done" /\ done.attempts = 0
      /\ done.strict = FALSE /\ done.reply = excuse
  BY DEF Unasked, Fields
<1> HIDE DEF done
<1>4. 0 \in Nat /\ 0 <= MaxRetries + 1 BY NarrativeAssumption DEF NarrativeAssumption
<1>5. done.strict \in BOOLEAN BY <1>3
<1>6. RowSound(done) BY <1>2, <1>3, <1>4, <1>5 DEF RowSound
<1> QED BY <1>1, <1>6, OneRow

\* Every step of the service keeps the rows of the queries sound.
LEMMA QueryInductive == ASSUME QueryInv, [Next]_vars PROVE QueryInv'
<1>1. ASSUME NEW q \in Queries, Progress(q) PROVE QueryInv'
  <2>1. ASSUME NEW markers \in SUBSET ShortIds, Respond(q, markers) PROVE QueryInv'
    BY <2>1, RespondKeeps
  <2>2. CASE ProviderFails(q) BY <2>2, FallbackKeeps DEF ProviderFails
  <2>3. ASSUME NEW m \in ShortIds, NEW verdict \in Verdicts, Judge(q, m, verdict)
        PROVE  QueryInv'
    BY <2>3, JudgeKeeps
  <2> QED BY <1>1, <2>1, <2>2, <2>3 DEF Progress
<1>2. ASSUME NEW q \in Queries, Arrive(q) PROVE QueryInv'
  BY <1>2, AskKeeps, ReadFailsKeeps DEF Arrive
<1>3. ASSUME UNCHANGED query PROVE QueryInv' BY <1>3 DEF QueryInv
<1>4. CASE UNCHANGED vars BY <1>3, <1>4 DEF vars
<1>5. ASSUME NEW e \in Events, NEW at \in 1 .. Len(stored) + 1, Publish(e, at) PROVE QueryInv'
  BY <1>3, <1>5 DEF Publish
<1>6. CASE Reflect BY <1>3, <1>6 DEF Reflect
<1> QED BY <1>1, <1>2, <1>4, <1>5, <1>6 DEF Next, Surroundings

\* Nothing is asked at the start.
LEMMA InitSound == ASSUME Init PROVE QueryInv
<1>1. DOMAIN query = Queries /\ \A q \in Queries : query[q] = Unasked BY DEF Init
<1>2. /\ DOMAIN Unasked = Fields /\ Unasked.strict = FALSE /\ Unasked.attempts = 0
      /\ Unasked.pc = "idle"
  BY DEF Unasked, Fields
<1>3. 0 \in Nat /\ 0 <= MaxRetries + 1 BY NarrativeAssumption DEF NarrativeAssumption
<1>4. Unasked.strict \in BOOLEAN BY <1>2
<1>5. RowSound(Unasked) BY <1>2, <1>3, <1>4 DEF RowSound
<1> QED BY <1>1, <1>5 DEF QueryInv

\* The rows of the queries are sound in every reachable state.
LEMMA QueryInvariant == Spec => []QueryInv
<1>1. Init => QueryInv BY InitSound
<1>2. QueryInv /\ [Next]_vars => QueryInv' BY QueryInductive
<1> QED BY <1>1, <1>2, PTL DEF Spec

\* A strict answer cites only events the judge saw and did not reject
\* (validator.py:83-157, renderer.py:192-201).
THEOREM JudgedBeforeCited == Spec => []StrictAnswersJudged
<1>1. QueryInv => StrictAnswersJudged BY DEF QueryInv, RowSound, StrictAnswersJudged
<1> QED BY <1>1, QueryInvariant, PTL

\* The retry loop is bounded and reported (renderer.py:125-189).
THEOREM RetriesBounded == Spec => []RetriesCounted
<1>1. QueryInv => RetriesCounted BY DEF QueryInv, RowSound, RetriesCounted
<1> QED BY <1>1, QueryInvariant, PTL

\* A step of the executor takes the narrative one step further or leaves it alone
\* (executor.py:305-320).
LEMMA ExecutorStep == ASSUME TNext PROVE [Next]_vars
<1>1. ASSUME NEW r \in Queries, Step(r) PROVE [Next]_vars
  <2>1. CASE DispatchQuery(r) BY <2>1 DEF DispatchQuery, Narration, Next
  <2>2. CASE NarrateOn(r) BY <2>2 DEF NarrateOn, Next
  <2>3. CASE StartQuery(r) \/ Emit(r) \/ DispatchPublish(r) \/ DispatchReputation(r)
    BY <2>3 DEF StartQuery, Emit, DispatchPublish, DispatchReputation, Narration
  <2>4. CASE ServeQuery(r) \/ ServeReputation(r) \/ Kill(r) \/ Return(r) \/ EmitCanceled(r)
    BY <2>4 DEF ServeQuery, ServeReputation, Kill, Return, EmitCanceled, Narration
  <2> QED BY <1>1, <2>1, <2>2, <2>3, <2>4 DEF Step
<1>2. ASSUME NEW r \in Queries, NEW msg \in Messages, Receive(r, msg) PROVE [Next]_vars
  BY <1>2 DEF Receive, Narration
<1>3. ASSUME NEW r \in Queries, Cancel(r) PROVE [Next]_vars
  BY <1>3 DEF Cancel, Narration
<1>4. CASE Grow BY <1>4 DEF Grow, Next
<1> QED BY <1>1, <1>2, <1>3, <1>4 DEF TNext

\* What holds of answers holds when queries run as tasks that are killed at any
\* suspension (executor.py:110-119, 305-320).
THEOREM TasksNarrate == TSpec => [](StrictAnswersJudged /\ RetriesCounted)
<1>1. TInit => QueryInv BY InitSound DEF TInit
<1>2. QueryInv /\ [TNext]_tvars => QueryInv'
  <2>1. UNCHANGED tvars => UNCHANGED vars BY DEF tvars, Narration
  <2> QED BY <2>1, ExecutorStep, QueryInductive
<1>3. QueryInv => StrictAnswersJudged /\ RetriesCounted
  BY DEF QueryInv, RowSound, StrictAnswersJudged, RetriesCounted
<1> QED BY <1>1, <1>2, <1>3, PTL DEF TSpec

----------------------------------------------------------------------------
(* The event streams of the tasks.                                         *)

EventKinds == {"task", "working", "artifact", "completed", "failed", "canceled"}

Opening == {<<>>, <<"task">>, <<"task", "working">>, <<"working">>}
Closing == {<<"failed">>, <<"artifact", "completed">>, <<"completed">>}

Stages == {"absent", "starting", "opening", "serving", "closing", "ended", "done"}

Row == [stage : Stages, msg : Messages \cup {NoMessage}, todo : {<<>>} \cup Opening \cup Closing,
        killed : BOOLEAN, raised : BOOLEAN]

Counts == [asked : Nat, emitted : Nat]

Has(s, e) == \E i \in DOMAIN s : s[i] = e

\* The events nothing but the echo of a cancel follows, by the intent of the request.
Final(intent) == {"completed", "failed"} \cup (IF intent = "query" THEN {"canceled"} ELSE {})

\* What TerminalEventStands says of one stream.
Stands(intent, s) ==
  \A i \in DOMAIN s :
    /\ s[i] \in Final(intent) => \A j \in i + 1 .. Len(s) : s[j] = "canceled"
    /\ s[i] = "completed" => \E j \in 1 .. i : s[j] = "artifact"

UnderWay(stage) == stage \in {"starting", "opening", "serving", "closing"}

\* A request under way has not reported a result.  A query that was cancelled
\* under way has its CancelledError coming, so it emits nothing more; and what is
\* left to emit begins or ends a stream.
TaskSound(row, s, asked) ==
  /\ Stands(Intent(row.msg), s)
  /\ row.stage = "absent" => s = <<>> /\ asked = 0
  /\ UnderWay(row.stage) => ~Has(s, "completed") /\ ~Has(s, "failed")
  /\ Intent(row.msg) = "query" /\ Has(s, "canceled") => asked > 0
  /\ Intent(row.msg) = "query" /\ UnderWay(row.stage) /\ asked > 0 => row.killed = TRUE
  /\ row.stage \in {"starting", "opening", "serving"} => row.todo \in Opening
  /\ row.stage = "closing" =>
       row.todo \in Closing /\ (row.todo = <<"completed">> => Has(s, "artifact"))

\* cancel finds every query that is under way in _in_flight.
TaskInv ==
  /\ request \in [Queries -> Row]
  /\ stream \in [Queries -> Seq(EventKinds)]
  /\ cancels \in [Queries -> Counts]
  /\ \A r \in Queries :
       /\ TaskSound(request[r], stream[r], cancels[r].asked)
       /\ IntentOf(r) = "query" /\ UnderWay(request[r].stage) => r \in inFlight

\* The fields of a request.
LEMMA RowFields ==
  ASSUME NEW row \in Row
  PROVE  /\ row.stage \in Stages /\ row.msg \in Messages \cup {NoMessage}
         /\ row.todo \in {<<>>} \cup Opening \cup Closing
         /\ row.killed \in BOOLEAN /\ row.raised \in BOOLEAN
BY DEF Row

\* Appending an event that may follow keeps a stream standing.
LEMMA AppendStands ==
  ASSUME NEW intent, NEW s \in Seq(EventKinds), NEW e \in EventKinds, Stands(intent, s),
         e # "canceled" => \A i \in DOMAIN s : s[i] \notin Final(intent),
         e = "completed" => Has(s, "artifact")
  PROVE  /\ Stands(intent, Append(s, e))
         /\ Append(s, e) \in Seq(EventKinds)
         /\ \A k : Has(Append(s, e), k) <=> Has(s, k) \/ k = e
<1> DEFINE t == Append(s, e)
<1>1. /\ t \in Seq(EventKinds) /\ Len(s) \in Nat /\ Len(t) = Len(s) + 1
      /\ DOMAIN s = 1 .. Len(s) /\ DOMAIN t = 1 .. Len(s) + 1
      /\ t[Len(s) + 1] = e /\ \A i \in 1 .. Len(s) : t[i] = s[i]
  OBVIOUS
<1> HIDE DEF t
<1>2. \A k : Has(t, k) <=> Has(s, k) \/ k = e
  <2> TAKE k
  <2>1. ASSUME Has(t, k) PROVE Has(s, k) \/ k = e
    <3>1. PICK i \in 1 .. Len(s) + 1 : t[i] = k BY <1>1, <2>1 DEF Has
    <3>2. CASE i = Len(s) + 1 BY <1>1, <3>1, <3>2
    <3>3. CASE i \in 1 .. Len(s) BY <1>1, <3>1, <3>3 DEF Has
    <3> QED BY <1>1, <3>1, <3>2, <3>3
  <2>2. ASSUME Has(s, k) PROVE Has(t, k)
    <3>1. PICK i \in 1 .. Len(s) : s[i] = k BY <1>1, <2>2 DEF Has
    <3>2. i \in 1 .. Len(s) + 1 BY <1>1
    <3> QED BY <1>1, <3>1, <3>2 DEF Has
  <2>3. Has(t, e)
    <3>1. Len(s) + 1 \in 1 .. Len(s) + 1 BY <1>1
    <3> QED BY <1>1, <3>1 DEF Has
  <2> QED BY <2>1, <2>2, <2>3
<1>3. ASSUME NEW i \in 1 .. Len(s) + 1, t[i] \in Final(intent)
      PROVE  \A j \in i + 1 .. Len(t) : t[j] = "canceled"
  <2> SUFFICES ASSUME NEW j \in i + 1 .. Len(s) + 1 PROVE t[j] = "canceled"
    BY <1>1
  <2>1. i \in 1 .. Len(s) /\ t[i] = s[i] BY <1>1
  <2>2. CASE j = Len(s) + 1 BY <1>1, <1>3, <2>1, <2>2
  <2>3. CASE j \in i + 1 .. Len(s)
    <3>1. s[j] = "canceled" BY <1>1, <1>3, <2>1, <2>3 DEF Stands
    <3>2. t[j] = s[j] BY <1>1, <2>1, <2>3
    <3> QED BY <3>1, <3>2
  <2> QED BY <1>1, <2>2, <2>3
<1>4. ASSUME NEW i \in 1 .. Len(s) + 1, t[i] = "completed"
      PROVE  \E j \in 1 .. i : t[j] = "artifact"
  <2>1. CASE i = Len(s) + 1
    <3>1. PICK j \in 1 .. Len(s) : s[j] = "artifact" BY <1>1, <1>4, <2>1 DEF Has
    <3>2. j \in 1 .. i /\ t[j] = s[j] BY <1>1, <2>1
    <3> QED BY <3>1, <3>2
  <2>2. CASE i \in 1 .. Len(s)
    <3>1. PICK j \in 1 .. i : s[j] = "artifact" BY <1>1, <1>4, <2>2 DEF Stands
    <3>2. t[j] = s[j] BY <1>1, <2>2
    <3> QED BY <3>1, <3>2
  <2> QED BY <1>1, <2>1, <2>2
<1>5. Stands(intent, t) BY <1>1, <1>3, <1>4 DEF Stands
<1> QED BY <1>1, <1>2, <1>5 DEF t

\* What begins a stream contains no result; the last event follows its artifact.
LEMMA FirstAndRest ==
  ASSUME NEW todo \in Opening \cup Closing, todo # <<>>
  PROVE  /\ Head(todo) \in EventKinds
         /\ todo \in Opening => Tail(todo) \in Opening /\ Head(todo) \in {"task", "working"}
         /\ todo \in Closing =>
              /\ Tail(todo) \in Closing => Head(todo) = "artifact"
              /\ Tail(todo) = <<>> => Head(todo) \in {"failed", "completed"}
              /\ Head(todo) = "completed" => todo = <<"completed">>
              /\ Tail(todo) = <<>> \/ Tail(todo) = <<"completed">>
<1>1. Tail(<<"task">>) = <<>> /\ Head(<<"task">>) = "task" OBVIOUS
<1>2. Tail(<<"working">>) = <<>> /\ Head(<<"working">>) = "working" OBVIOUS
<1>3. Tail(<<"task", "working">>) = <<"working">> /\ Head(<<"task", "working">>) = "task" OBVIOUS
<1>4. Tail(<<"failed">>) = <<>> /\ Head(<<"failed">>) = "failed" OBVIOUS
<1>5. Tail(<<"completed">>) = <<>> /\ Head(<<"completed">>) = "completed" OBVIOUS
<1>6. /\ Tail(<<"artifact", "completed">>) = <<"completed">>
      /\ Head(<<"artifact", "completed">>) = "artifact"
  OBVIOUS
<1>7. /\ <<>> \notin Closing
      /\ <<"failed">> # <<"artifact", "completed">> /\ <<"failed">> # <<"completed">>
  BY DEF Closing
<1>8. todo \in {<<"task">>, <<"task", "working">>, <<"working">>, <<"failed">>,
                <<"artifact", "completed">>, <<"completed">>}
  BY DEF Opening, Closing
<1>9. Opening \cap Closing = {}
  BY DEF Opening, Closing
<1>10. <<>> \in Opening /\ <<"working">> \in Opening /\ <<"task">> \in Opening
       /\ <<"task", "working">> \in Opening /\ <<"failed">> \in Closing
       /\ <<"completed">> \in Closing /\ <<"artifact", "completed">> \in Closing
  BY DEF Opening, Closing
<1>11. CASE todo = <<"task">> BY <1>1, <1>9, <1>10, <1>11 DEF EventKinds
<1>12. CASE todo = <<"working">> BY <1>2, <1>9, <1>10, <1>12 DEF EventKinds
<1>13. CASE todo = <<"task", "working">> BY <1>3, <1>9, <1>10, <1>13 DEF EventKinds
<1>14. CASE todo = <<"failed">> BY <1>4, <1>7, <1>9, <1>10, <1>14 DEF EventKinds
<1>15. CASE todo = <<"completed">> BY <1>5, <1>7, <1>9, <1>10, <1>15 DEF EventKinds
<1>16. CASE todo = <<"artifact", "completed">> BY <1>6, <1>7, <1>9, <1>10, <1>16 DEF EventKinds
<1> QED BY <1>8, <1>11, <1>12, <1>13, <1>14, <1>15, <1>16

\* A step that concerns one request keeps the others sound.
LEMMA OneTask ==
  ASSUME TaskInv, NEW r \in Queries,
         request' \in [Queries -> Row], stream' \in [Queries -> Seq(EventKinds)],
         cancels' \in [Queries -> Counts],
         \A p \in Queries : p # r =>
           request'[p] = request[p] /\ stream'[p] = stream[p] /\ cancels'[p] = cancels[p],
         \A p \in Queries : p # r /\ p \in inFlight => p \in inFlight',
         TaskSound(request'[r], stream'[r], cancels'[r].asked),
         Intent(request'[r].msg) = "query" /\ UnderWay(request'[r].stage) => r \in inFlight'
  PROVE  TaskInv'
<1>1. ASSUME NEW p \in Queries
      PROVE  /\ TaskSound(request'[p], stream'[p], cancels'[p].asked)
             /\ Intent(request'[p].msg) = "query" /\ UnderWay(request'[p].stage) => p \in inFlight'
  <2>1. CASE p = r BY <2>1
  <2>2. CASE p # r
    <3>1. request'[p] = request[p] /\ stream'[p] = stream[p] /\ cancels'[p] = cancels[p]
          /\ (p \in inFlight => p \in inFlight')
      BY <2>2
    <3> QED BY <3>1 DEF TaskInv, IntentOf
  <2> QED BY <2>1, <2>2
<1> QED BY <1>1 DEF TaskInv, IntentOf

\* The rows a request moves to without a message, and what they keep.
LEMMA Moved ==
  ASSUME TaskInv, NEW r \in Queries, NEW stage \in Stages,
         NEW todo \in {<<>>} \cup Opening \cup Closing, At(r, stage, todo)
  PROVE  /\ request' \in [Queries -> Row]
         /\ \A p \in Queries : p # r => request'[p] = request[p]
         /\ request'[r].stage = stage /\ request'[r].todo = todo
         /\ request'[r].msg = request[r].msg /\ request'[r].killed = request[r].killed
<1>1. request \in [Queries -> Row] /\ request[r] \in Row BY DEF TaskInv
<1> DEFINE row == [request[r] EXCEPT !.stage = stage, !.todo = todo]
<1>2. row.stage = stage /\ row.todo = todo /\ row.msg = request[r].msg
      /\ row.killed = request[r].killed /\ row \in Row
  BY <1>1 DEF Row
<1>3. request' = [request EXCEPT ![r] = row] BY <1>1 DEF At
<1> HIDE DEF row
<1>4. request'[r] = row BY <1>1, <1>3
<1> QED BY <1>1, <1>2, <1>3, <1>4

\* Where the executor leaves a request between two events.
Onward(stage, todo) ==
  \/ stage \in {"opening", "serving"} /\ todo \in Opening
  \/ stage = "closing" /\ todo \in {<<"failed">>, <<"artifact", "completed">>}
  \/ stage = "ended" /\ todo = <<>>

\* A step of a request under way that leaves the stream alone and does not begin
\* a stream anew.
LEMMA MoveKeeps ==
  ASSUME TaskInv, NEW r \in Queries, NEW stage, NEW todo,
         UnderWay(request[r].stage),
         Onward(stage, todo),
         At(r, stage, todo), UNCHANGED <<stream, inFlight, cancels>>
  PROVE  TaskInv'
<1>1. stage \in Stages /\ todo \in {<<>>} \cup Opening \cup Closing
  BY DEF Onward, Stages, Closing
<1>2. /\ request' \in [Queries -> Row]
      /\ \A p \in Queries : p # r => request'[p] = request[p]
      /\ request'[r].stage = stage /\ request'[r].todo = todo
      /\ request'[r].msg = request[r].msg /\ request'[r].killed = request[r].killed
  BY <1>1, Moved
<1>3. PICK row : row = request'[r] OBVIOUS
<1>4. TaskSound(request[r], stream[r], cancels[r].asked)
      /\ (IntentOf(r) = "query" => r \in inFlight)
  BY DEF TaskInv
<1>5. <<"completed">> # <<"failed">> /\ <<"completed">> # <<"artifact", "completed">>
      /\ <<"failed">> \in Closing /\ <<"artifact", "completed">> \in Closing
  BY DEF Closing
<1>6. TaskSound(row, stream[r], cancels[r].asked)
  BY <1>2, <1>3, <1>4, <1>5 DEF Onward, TaskSound, UnderWay
<1>7. stream' \in [Queries -> Seq(EventKinds)] /\ cancels' \in [Queries -> Counts]
      /\ (\A p \in Queries : stream'[p] = stream[p] /\ cancels'[p] = cancels[p])
      /\ inFlight' = inFlight
  BY DEF TaskInv
<1>8. TaskSound(request'[r], stream'[r], cancels'[r].asked) BY <1>3, <1>6, <1>7
<1>9. Intent(request'[r].msg) = "query" => r \in inFlight' BY <1>2, <1>4, <1>7 DEF IntentOf
<1> QED BY <1>2, <1>7, <1>8, <1>9, OneTask

\* An exception that leaves the executor ends the request where it stands.
LEMMA RaiseKeeps ==
  ASSUME TaskInv, NEW r \in Queries, UnderWay(request[r].stage), Raise(r),
         UNCHANGED <<stream, inFlight, cancels>>
  PROVE  TaskInv'
<1>1. request \in [Queries -> Row] /\ request[r] \in Row BY DEF TaskInv
<1> DEFINE row == [request[r] EXCEPT !.stage = "ended", !.raised = TRUE]
<1>2. row.stage = "ended" /\ row.msg = request[r].msg /\ row \in Row
  BY <1>1 DEF Row, Stages
<1>3. request' = [request EXCEPT ![r] = row] BY <1>1 DEF Raise
<1> HIDE DEF row
<1>4. request'[r] = row /\ request' \in [Queries -> Row]
      /\ \A p \in Queries : p # r => request'[p] = request[p]
  BY <1>1, <1>2, <1>3
<1>5. TaskSound(request[r], stream[r], cancels[r].asked) BY DEF TaskInv
<1>6. TaskSound(row, stream[r], cancels[r].asked)
  BY <1>2, <1>5 DEF TaskSound, UnderWay
<1>7. stream' \in [Queries -> Seq(EventKinds)] /\ cancels' \in [Queries -> Counts]
      /\ (\A p \in Queries : stream'[p] = stream[p] /\ cancels'[p] = cancels[p])
      /\ inFlight' = inFlight
  BY DEF TaskInv
<1>8. TaskSound(request'[r], stream'[r], cancels'[r].asked) BY <1>4, <1>6, <1>7
<1>9. ~UnderWay(request'[r].stage) BY <1>2, <1>4 DEF UnderWay
<1> QED BY <1>4, <1>7, <1>8, <1>9, OneTask

\* A message arrives for a request that has emitted nothing.
LEMMA ReceiveKeeps ==
  ASSUME TaskInv, NEW r \in Queries, NEW msg \in Messages, Receive(r, msg)
  PROVE  TaskInv'
<1> DEFINE stage == CASE Intent(msg) \in {"publish", "reputation"} -> "opening"
                      [] Intent(msg) = "query"                     -> "starting"
                      [] OTHER                                     -> "closing"
           todo  == CASE Intent(msg) \in {"publish", "reputation"} -> <<"task">>
                      [] Intent(msg) = "query"                     -> <<>>
                      [] OTHER                                     -> <<"failed">>
           row   == [Absent EXCEPT !.msg = msg, !.stage = stage, !.todo = todo]
<1>1. request \in [Queries -> Row] /\ request[r].stage = "absent" BY DEF TaskInv, Receive
<1>2. request' = [request EXCEPT ![r] = row] BY DEF Receive
<1>3. \/ stage \in {"opening", "starting"} /\ todo \in Opening
      \/ stage = "closing" /\ todo = <<"failed">>
  BY DEF Opening
<1> HIDE DEF stage, todo
<1>4. row.stage = stage /\ row.todo = todo /\ row.msg = msg /\ row.killed = FALSE
  BY DEF Absent
<1>5. stage \in Stages /\ todo \in {<<>>} \cup Opening \cup Closing
  BY <1>3 DEF Stages, Closing
<1>6. row \in Row
  <2>1. Absent \in Row BY DEF Absent, Row, Stages
  <2>2. msg \in Messages \cup {NoMessage} OBVIOUS
  <2> QED BY <1>5, <2>1, <2>2 DEF Row
<1> HIDE DEF row
<1>7. request'[r] = row /\ request' \in [Queries -> Row]
      /\ \A p \in Queries : p # r => request'[p] = request[p]
  BY <1>1, <1>2, <1>6
<1>8. stream[r] = <<>> /\ cancels[r].asked = 0 BY <1>1 DEF TaskInv, TaskSound
<1>9. <<"failed">> \in Closing /\ <<"failed">> # <<"completed">> BY DEF Closing
<1>10. \A i \in DOMAIN stream[r] : FALSE BY <1>8
<1>11. TaskSound(row, stream[r], cancels[r].asked)
  BY <1>3, <1>4, <1>8, <1>9, <1>10 DEF TaskSound, Stands, Has
<1>12. stream' \in [Queries -> Seq(EventKinds)] /\ cancels' \in [Queries -> Counts]
       /\ (\A p \in Queries : stream'[p] = stream[p] /\ cancels'[p] = cancels[p])
  BY DEF TaskInv, Receive
<1>13. TaskSound(request'[r], stream'[r], cancels'[r].asked) BY <1>7, <1>11, <1>12
<1>14. inFlight' = IF Intent(msg) = "query" THEN inFlight \cup {r} ELSE inFlight BY DEF Receive
<1>15. Intent(request'[r].msg) = "query" => r \in inFlight' BY <1>4, <1>7, <1>14
<1>16. \A p \in Queries : p # r /\ p \in inFlight => p \in inFlight' BY <1>14
<1> QED BY <1>7, <1>12, <1>13, <1>15, <1>16, OneTask

\* The next event of a request nobody has cancelled may follow what went out.
LEMMA EmitKeeps ==
  ASSUME TaskInv, NEW r \in Queries, Emit(r)
  PROVE  TaskInv'
<1> DEFINE s     == stream[r]
           todo  == request[r].todo
           e     == Head(todo)
           rest  == Tail(todo)
           stage == IF request[r].stage = "closing" /\ rest = <<>> THEN "ended"
                    ELSE request[r].stage
<1>1. /\ request[r] \in Row /\ s \in Seq(EventKinds) /\ cancels[r].asked \in Nat
      /\ TaskSound(request[r], s, cancels[r].asked)
      /\ (IntentOf(r) = "query" /\ UnderWay(request[r].stage) => r \in inFlight)
  BY DEF TaskInv, Counts
<1>2. UnderWay(request[r].stage) /\ request[r].killed # TRUE /\ todo # <<>>
  <2>1. request[r].stage \in Stages BY <1>1, RowFields
  <2> QED BY <2>1 DEF Emit, Running, UnderWay, Stages
<1>3. At(r, stage, rest) /\ stream' = [stream EXCEPT ![r] = Append(s, e)]
      /\ UNCHANGED <<inFlight, cancels>>
  BY DEF Emit
<1>4. /\ request[r].stage = "closing" => todo \in Closing /\ (todo = <<"completed">> => Has(s, "artifact"))
      /\ request[r].stage # "closing" => todo \in Opening
  BY <1>1, <1>2 DEF TaskSound, UnderWay
<1>5. /\ e \in EventKinds
      /\ todo \in Opening => rest \in Opening /\ e \in {"task", "working"}
      /\ todo \in Closing =>
           /\ rest \in Closing => e = "artifact"
           /\ rest = <<>> => e \in {"failed", "completed"}
           /\ e = "completed" => todo = <<"completed">>
           /\ rest = <<>> \/ rest = <<"completed">>
  BY <1>2, <1>4, FirstAndRest
<1>6. /\ request[r].stage = "closing" /\ rest = <<>> => stage = "ended"
      /\ ~(request[r].stage = "closing" /\ rest = <<>>) => stage = request[r].stage
  OBVIOUS
<1> HIDE DEF stage
<1>7. <<"completed">> \in Closing /\ stage \in Stages BY <1>1, <1>6, RowFields DEF Closing, Stages
<1>8. rest \in {<<>>} \cup Opening \cup Closing BY <1>4, <1>5, <1>7
<1> HIDE DEF s, e, rest
<1>9. \A i \in DOMAIN s : s[i] \notin Final(IntentOf(r))
  <2>1. ~Has(s, "completed") /\ ~Has(s, "failed") BY <1>1, <1>2 DEF TaskSound
  <2>2. IntentOf(r) = "query" => ~Has(s, "canceled")
    BY <1>1, <1>2 DEF TaskSound, IntentOf
  <2> QED BY <2>1, <2>2 DEF Has, Final
<1>10. e = "completed" => Has(s, "artifact") BY <1>4, <1>5
<1>11. /\ Stands(IntentOf(r), Append(s, e)) /\ Append(s, e) \in Seq(EventKinds)
       /\ \A k : Has(Append(s, e), k) <=> Has(s, k) \/ k = e
  <2>1. Stands(IntentOf(r), s) BY <1>1 DEF TaskSound, IntentOf
  <2> QED BY <1>1, <1>5, <1>9, <1>10, <2>1, AppendStands
<1>12. /\ request' \in [Queries -> Row]
       /\ \A p \in Queries : p # r => request'[p] = request[p]
       /\ request'[r].stage = stage /\ request'[r].todo = rest
       /\ request'[r].msg = request[r].msg /\ request'[r].killed = request[r].killed
  BY <1>3, <1>7, <1>8, Moved
<1>13. PICK row : row = request'[r] OBVIOUS
<1>14. row.stage = stage /\ row.todo = rest /\ row.msg = request[r].msg
       /\ row.killed = request[r].killed
  BY <1>12, <1>13
<1>15. e # "canceled" BY <1>4, <1>5 DEF Closing
<1>16. PICK t : t = Append(s, e) OBVIOUS
<1>17. stage # "absent" BY <1>2, <1>6 DEF UnderWay
<1>18. TaskSound(row, t, cancels[r].asked)
  <2>1. Stands(Intent(row.msg), t) BY <1>11, <1>14, <1>16 DEF IntentOf
  <2>2. UnderWay(stage) => ~Has(t, "completed") /\ ~Has(t, "failed")
    <3> SUFFICES ASSUME UnderWay(stage) PROVE ~Has(t, "completed") /\ ~Has(t, "failed")
      OBVIOUS
    <3>1. ~(request[r].stage = "closing" /\ rest = <<>>) BY <1>6 DEF UnderWay
    <3>2. e # "completed" /\ e # "failed" BY <1>4, <1>5, <1>7, <3>1
    <3> QED BY <1>1, <1>2, <1>11, <1>16, <3>2 DEF TaskSound
  <2>3. Intent(row.msg) = "query" /\ Has(t, "canceled") => cancels[r].asked > 0
    BY <1>1, <1>11, <1>14, <1>15, <1>16 DEF TaskSound
  <2>4. Intent(row.msg) = "query" /\ UnderWay(stage) /\ cancels[r].asked > 0 => row.killed = TRUE
    BY <1>1, <1>2, <1>14 DEF TaskSound
  <2>5. stage \in {"starting", "opening", "serving"} => rest \in Opening
    BY <1>4, <1>5, <1>6
  <2>6. stage = "closing" => rest \in Closing /\ (rest = <<"completed">> => Has(t, "artifact"))
    BY <1>4, <1>5, <1>6, <1>7, <1>11, <1>16
  <2> QED BY <1>14, <1>17, <2>1, <2>2, <2>3, <2>4, <2>5, <2>6 DEF TaskSound
<1>19. /\ stream' \in [Queries -> Seq(EventKinds)] /\ stream'[r] = t
       /\ \A p \in Queries : p # r => stream'[p] = stream[p]
  BY <1>3, <1>11, <1>16 DEF TaskInv
<1>20. cancels' \in [Queries -> Counts] /\ (\A p \in Queries : cancels'[p] = cancels[p])
       /\ inFlight' = inFlight
  BY <1>3 DEF TaskInv
<1>21. TaskSound(request'[r], stream'[r], cancels'[r].asked) BY <1>13, <1>18, <1>19, <1>20
<1>22. Intent(request'[r].msg) = "query" => r \in inFlight'
  BY <1>1, <1>2, <1>12, <1>20 DEF IntentOf
<1> QED BY <1>12, <1>19, <1>20, <1>21, <1>22, OneTask

\* execute() resumes after the request and forgets its asyncio task.
LEMMA ReturnKeeps ==
  ASSUME TaskInv, NEW r \in Queries, Return(r)
  PROVE  TaskInv'
<1>1. "done" \in Stages /\ request[r].stage = "ended" BY DEF Stages, Return
<1>2. /\ request' \in [Queries -> Row]
      /\ \A p \in Queries : p # r => request'[p] = request[p]
      /\ request'[r].stage = "done" /\ request'[r].msg = request[r].msg
  BY <1>1, Moved DEF Return
<1>3. PICK row : row = request'[r] OBVIOUS
<1>4. TaskSound(request[r], stream[r], cancels[r].asked) BY DEF TaskInv
<1>5. TaskSound(row, stream[r], cancels[r].asked)
  BY <1>1, <1>2, <1>3, <1>4 DEF TaskSound, UnderWay
<1>6. stream' \in [Queries -> Seq(EventKinds)] /\ cancels' \in [Queries -> Counts]
      /\ (\A p \in Queries : stream'[p] = stream[p] /\ cancels'[p] = cancels[p])
      /\ (\A p \in Queries : p # r /\ p \in inFlight => p \in inFlight')
  BY DEF TaskInv, Return
<1>7. TaskSound(request'[r], stream'[r], cancels'[r].asked) BY <1>3, <1>5, <1>6
<1>8. ~UnderWay(request'[r].stage) BY <1>2 DEF UnderWay
<1> QED BY <1>2, <1>6, <1>7, <1>8, OneTask

\* A cancel finds a query that is under way, and its task takes no more steps.
LEMMA CancelKeeps ==
  ASSUME TaskInv, NEW r \in Queries, Cancel(r)
  PROVE  TaskInv'
<1> DEFINE hit == request[r].killed \/ (r \in inFlight /\ Running(r))
           row == [request[r] EXCEPT !.killed = hit]
           c   == [cancels[r] EXCEPT !.asked = @ + 1]
<1>1. /\ request \in [Queries -> Row] /\ request[r] \in Row
      /\ cancels \in [Queries -> Counts] /\ cancels[r] \in Counts
      /\ TaskSound(request[r], stream[r], cancels[r].asked)
      /\ (IntentOf(r) = "query" /\ UnderWay(request[r].stage) => r \in inFlight)
  BY DEF TaskInv
<1>2. request' = [request EXCEPT ![r] = row] /\ cancels' = [cancels EXCEPT ![r] = c]
  BY <1>1 DEF Cancel
<1>3. UnderWay(request[r].stage) => Running(r) BY DEF UnderWay, Running
<1>4. hit \in BOOLEAN BY <1>1, RowFields
<1>5. UnderWay(request[r].stage) /\ IntentOf(r) = "query" => hit = TRUE BY <1>1, <1>3, <1>4
<1> HIDE DEF hit
<1>6. /\ row \in Row /\ row.stage = request[r].stage /\ row.todo = request[r].todo
      /\ row.msg = request[r].msg /\ row.killed = hit
  BY <1>1, <1>4 DEF Row
<1>7. c \in Counts /\ c.asked = cancels[r].asked + 1 /\ cancels[r].asked \in Nat
  BY <1>1 DEF Counts
<1> HIDE DEF row, c
<1>8. /\ request'[r] = row /\ request' \in [Queries -> Row]
      /\ cancels'[r] = c /\ cancels' \in [Queries -> Counts]
      /\ \A p \in Queries : p # r => request'[p] = request[p] /\ cancels'[p] = cancels[p]
  BY <1>1, <1>2, <1>6, <1>7
<1>9. request[r].stage # "absent" BY DEF Cancel
<1>10. c.asked > 0 BY <1>7
<1>11. TaskSound(row, stream[r], c.asked)
  BY <1>1, <1>5, <1>6, <1>9, <1>10 DEF TaskSound, IntentOf
<1>12. /\ stream' \in [Queries -> Seq(EventKinds)] /\ inFlight' = inFlight
       /\ \A p \in Queries : stream'[p] = stream[p]
  BY DEF TaskInv, Cancel
<1>13. TaskSound(request'[r], stream'[r], cancels'[r].asked) BY <1>8, <1>11, <1>12
<1>14. Intent(request'[r].msg) = "query" /\ UnderWay(request'[r].stage) => r \in inFlight'
  BY <1>1, <1>6, <1>8, <1>12 DEF IntentOf
<1> QED BY <1>8, <1>12, <1>13, <1>14, OneTask

\* The echo of a cancel may follow anything.
LEMMA EmitCanceledKeeps ==
  ASSUME TaskInv, NEW r \in Queries, EmitCanceled(r)
  PROVE  TaskInv'
<1> DEFINE c == [cancels[r] EXCEPT !.emitted = @ + 1]
<1>1. /\ cancels \in [Queries -> Counts] /\ cancels[r] \in Counts
      /\ stream \in [Queries -> Seq(EventKinds)] /\ stream[r] \in Seq(EventKinds)
      /\ TaskSound(request[r], stream[r], cancels[r].asked)
  BY DEF TaskInv
<1>2. cancels' = [cancels EXCEPT ![r] = c] /\ cancels[r].emitted < cancels[r].asked
      /\ stream' = [stream EXCEPT ![r] = Append(stream[r], "canceled")]
      /\ request' = request /\ inFlight' = inFlight
  BY <1>1 DEF EmitCanceled
<1>3. c \in Counts /\ c.asked = cancels[r].asked /\ cancels[r].asked > 0
  <2>1. cancels[r] \in Counts /\ cancels[r].asked \in Nat /\ cancels[r].emitted \in Nat
    BY <1>1 DEF Counts
  <2>2. cancels[r].asked > 0 BY <1>2, <2>1
  <2>3. c \in Counts /\ c.asked = cancels[r].asked BY <2>1 DEF Counts
  <2> QED BY <2>2, <2>3
<1> HIDE DEF c
<1>4. PICK t : t = Append(stream[r], "canceled") OBVIOUS
<1>5. "canceled" \in EventKinds BY DEF EventKinds
<1>6. /\ Stands(IntentOf(r), t) /\ t \in Seq(EventKinds)
      /\ \A k : Has(t, k) <=> Has(stream[r], k) \/ k = "canceled"
  <2>1. Stands(IntentOf(r), stream[r]) BY <1>1 DEF TaskSound, IntentOf
  <2> QED BY <1>1, <1>4, <1>5, <2>1, AppendStands
<1>7. request[r].stage # "absent" BY <1>1, <1>3 DEF TaskSound
<1>8. TaskSound(request[r], t, cancels[r].asked)
  BY <1>1, <1>3, <1>6, <1>7 DEF TaskSound, IntentOf
<1>9. /\ stream'[r] = t /\ stream' \in [Queries -> Seq(EventKinds)]
      /\ cancels'[r] = c /\ cancels' \in [Queries -> Counts]
      /\ \A p \in Queries : p # r => stream'[p] = stream[p] /\ cancels'[p] = cancels[p]
  BY <1>1, <1>2, <1>3, <1>4, <1>6
<1>10. TaskSound(request'[r], stream'[r], cancels'[r].asked) BY <1>2, <1>3, <1>8, <1>9
<1>11. /\ request' \in [Queries -> Row] /\ (\A p \in Queries : request'[p] = request[p])
       /\ (Intent(request'[r].msg) = "query" /\ UnderWay(request'[r].stage) => r \in inFlight')
  BY <1>2 DEF TaskInv, IntentOf
<1> QED BY <1>2, <1>9, <1>10, <1>11, OneTask

\* What the executor does between two events of a request.
LEMMA ServeKeeps ==
  ASSUME TaskInv, NEW r \in Queries,
         \/ StartQuery(r) \/ DispatchPublish(r) \/ DispatchQuery(r) \/ DispatchReputation(r)
         \/ ServeQuery(r) \/ ServeReputation(r) \/ Kill(r)
  PROVE  TaskInv'
<1>1. UNCHANGED <<stream, inFlight, cancels>>
  BY DEF StartQuery, DispatchPublish, DispatchQuery, DispatchReputation,
         ServeQuery, ServeReputation, Kill
<1>2. request[r].stage \in Stages BY RowFields DEF TaskInv
<1>3. UnderWay(request[r].stage)
  BY <1>2 DEF StartQuery, DispatchPublish, DispatchQuery, DispatchReputation,
              ServeQuery, ServeReputation, Kill, Live, Running, UnderWay, Stages
<1>4. \/ At(r, "opening", <<"task", "working">>)
      \/ At(r, "closing", <<"failed">>)
      \/ At(r, "closing", <<"artifact", "completed">>)
      \/ At(r, "serving", <<>>)
      \/ At(r, "serving", <<"working">>)
      \/ At(r, "ended", <<>>)
      \/ Raise(r)
  BY DEF StartQuery, DispatchPublish, DispatchQuery, DispatchReputation,
         ServeQuery, ServeReputation, Kill, Close
<1>5. ASSUME NEW stage, NEW todo, Onward(stage, todo), At(r, stage, todo) PROVE TaskInv'
  BY <1>1, <1>3, <1>5, MoveKeeps
<1>6. CASE Raise(r) BY <1>1, <1>3, <1>6, RaiseKeeps
<1>7. CASE At(r, "opening", <<"task", "working">>)
  <2>1. Onward("opening", <<"task", "working">>) BY DEF Onward, Opening
  <2> QED BY <1>5, <1>7, <2>1
<1>8. CASE At(r, "closing", <<"failed">>)
  <2>1. Onward("closing", <<"failed">>) BY DEF Onward, Opening
  <2> QED BY <1>5, <1>8, <2>1
<1>9. CASE At(r, "closing", <<"artifact", "completed">>)
  <2>1. Onward("closing", <<"artifact", "completed">>) BY DEF Onward, Opening
  <2> QED BY <1>5, <1>9, <2>1
<1>10. CASE At(r, "serving", <<>>)
  <2>1. Onward("serving", <<>>) BY DEF Onward, Opening
  <2> QED BY <1>5, <1>10, <2>1
<1>11. CASE At(r, "serving", <<"working">>)
  <2>1. Onward("serving", <<"working">>) BY DEF Onward, Opening
  <2> QED BY <1>5, <1>11, <2>1
<1>12. CASE At(r, "ended", <<>>)
  <2>1. Onward("ended", <<>>) BY DEF Onward, Opening
  <2> QED BY <1>5, <1>12, <2>1
<1> QED BY <1>4, <1>6, <1>7, <1>8, <1>9, <1>10, <1>11, <1>12

\* Every step keeps the streams of all tasks sound.
LEMMA TaskInductive == ASSUME TaskInv, [TNext]_tvars PROVE TaskInv'
<1>1. ASSUME UNCHANGED <<request, stream, inFlight, cancels>> PROVE TaskInv'
  BY <1>1 DEF TaskInv, IntentOf
<1>2. ASSUME NEW r \in Queries, Step(r) PROVE TaskInv'
  <2>1. CASE Emit(r) BY <2>1, EmitKeeps
  <2>2. CASE Return(r) BY <2>2, ReturnKeeps
  <2>3. CASE EmitCanceled(r) BY <2>3, EmitCanceledKeeps
  <2>4. CASE NarrateOn(r) BY <1>1, <2>4 DEF NarrateOn
  <2>5. CASE \/ StartQuery(r) \/ DispatchPublish(r) \/ DispatchQuery(r)
             \/ DispatchReputation(r) \/ ServeQuery(r) \/ ServeReputation(r) \/ Kill(r)
    BY <2>5, ServeKeeps
  <2> QED BY <1>2, <2>1, <2>2, <2>3, <2>4, <2>5 DEF Step
<1>3. ASSUME NEW r \in Queries, NEW msg \in Messages, Receive(r, msg) PROVE TaskInv'
  BY <1>3, ReceiveKeeps
<1>4. ASSUME NEW r \in Queries, Cancel(r) PROVE TaskInv' BY <1>4, CancelKeeps
<1>5. CASE Grow BY <1>1, <1>5 DEF Grow
<1>6. CASE UNCHANGED tvars BY <1>1, <1>6 DEF tvars
<1> QED BY <1>2, <1>3, <1>4, <1>5, <1>6 DEF TNext

\* After a result of a task comes nothing but the echo of a cancel, and a
\* completed task has its artifact, however many requests and cancels there are
\* (executor.py:110-119, 141-145, 354-365).
THEOREM ResultsStand == TSpec => []TerminalEventStands
<1>1. TInit => TaskInv
  <2> SUFFICES ASSUME TInit PROVE TaskInv
    OBVIOUS
  <2>1. Absent \in Row /\ Absent.stage = "absent" BY DEF Absent, Row, Stages
  <2>2. <<>> \in Seq(EventKinds) /\ \A i \in DOMAIN <<>> : FALSE OBVIOUS
  <2>3. [asked |-> 0, emitted |-> 0] \in Counts BY DEF Counts
  <2>4. TaskSound(Absent, <<>>, 0)
    BY <2>1, <2>2 DEF TaskSound, Stands, Has, UnderWay
  <2>5. \A r \in Queries : request[r] = Absent /\ stream[r] = <<>> /\ cancels[r].asked = 0
    BY DEF TInit
  <2>6. request \in [Queries -> Row] /\ stream \in [Queries -> Seq(EventKinds)]
        /\ cancels \in [Queries -> Counts]
    BY <2>1, <2>2, <2>3 DEF TInit
  <2>7. ~UnderWay(Absent.stage) BY <2>1 DEF UnderWay
  <2> QED BY <2>4, <2>5, <2>6, <2>7 DEF TaskInv
<1>2. TaskInv /\ [TNext]_tvars => TaskInv' BY TaskInductive
<1>3. TaskInv => TerminalEventStands
  <2> SUFFICES ASSUME TaskInv, NEW r \in Queries, NEW i \in DOMAIN stream[r]
      PROVE  /\ stream[r][i] \in Terminal \ (IF IntentOf(r) = "query" THEN {} ELSE {"canceled"}) =>
                  \A j \in i + 1 .. Len(stream[r]) : stream[r][j] = "canceled"
             /\ stream[r][i] = "completed" => \E j \in 1 .. i : stream[r][j] = "artifact"
    BY DEF TerminalEventStands
  <2>1. Stands(IntentOf(r), stream[r]) BY DEF TaskInv, TaskSound, IntentOf
  <2>2. stream[r][i] \in Terminal \ (IF IntentOf(r) = "query" THEN {} ELSE {"canceled"})
          => stream[r][i] \in Final(IntentOf(r))
    BY DEF Terminal, Final
  <2> QED BY <2>1, <2>2 DEF Stands
<1> QED BY <1>1, <1>2, <1>3, PTL DEF TSpec

----------------------------------------------------------------------------
(* What a narrative may cite.                                              *)

\* In a finite set of positions there is one with any number of others after it
\* that leaves room for itself: if none had n, the numbers would be too few.
LEMMA Ranked ==
  ASSUME NEW own, IsFiniteSet(own), own \subseteq Nat,
         NEW n \in 0 .. Cardinality(own) - 1
  PROVE  \E i \in own : Cardinality({j \in own : i < j}) = n
<1> DEFINE after(i) == {j \in own : i < j}
           rank     == [i \in own |-> Cardinality(after(i))]
           room     == 0 .. Cardinality(own) - 1
<1>1. Cardinality(own) \in Nat
  BY FS_CardinalityType
<1>2. ASSUME NEW i \in own
      PROVE  /\ IsFiniteSet(after(i)) /\ Cardinality(after(i)) \in Nat
             /\ Cardinality(after(i)) < Cardinality(own)
  <2>1. after(i) \in SUBSET own /\ after(i) # own
    OBVIOUS
  <2>2. /\ IsFiniteSet(after(i)) /\ Cardinality(after(i)) <= Cardinality(own)
        /\ Cardinality(own) # Cardinality(after(i))
    BY <2>1, FS_Subset
  <2>3. Cardinality(after(i)) \in Nat
    BY <2>2, FS_CardinalityType
  <2> QED BY <1>1, <2>2, <2>3
<1>3. ASSUME NEW i \in own, NEW j \in own, i < j
      PROVE  rank[j] < rank[i]
  <2>1. \A k \in own : k \in Nat
    OBVIOUS
  <2>2. after(j) \in SUBSET after(i)
    <3>1. ASSUME NEW k \in own, j < k PROVE i < k
      BY <1>3, <2>1, <3>1
    <3> QED BY <3>1
  <2>3. j \in after(i) /\ j \notin after(j)
    BY <1>3
  <2>4. after(j) # after(i)
    BY <2>3
  <2>5. /\ Cardinality(after(j)) <= Cardinality(after(i))
        /\ Cardinality(after(j)) # Cardinality(after(i))
    BY <1>2, <2>2, <2>4, FS_Subset
  <2>6. Cardinality(after(i)) \in Nat /\ Cardinality(after(j)) \in Nat
    BY <1>2
  <2> HIDE DEF after
  <2> QED BY <2>5, <2>6
<1>4. SUFFICES ASSUME \A i \in own : Cardinality(after(i)) # n PROVE FALSE
  OBVIOUS
<1>5. IsFiniteSet(room \ {n}) /\ Cardinality(room \ {n}) < Cardinality(own)
  <2>1. IsFiniteSet(room) /\ Cardinality(room) = Cardinality(own)
    BY <1>1, FS_Interval
  <2>2. n \in room
    OBVIOUS
  <2> HIDE DEF room
  <2> QED BY <1>1, <2>1, <2>2, FS_RemoveElement
<1>6. rank \in [own -> room \ {n}]
  BY <1>1, <1>2, <1>4
<1>7. \A i \in own : rank[i] \in Nat
  BY <1>2
<1> HIDE DEF rank, room
<1>8. PICK i \in own, j \in own : i # j /\ rank[i] = rank[j]
  BY <1>5, <1>6, FS_PigeonHole
<1>9. i < j \/ j < i
  BY <1>8
<1> QED BY <1>3, <1>7, <1>8, <1>9

\* A finite set of numbers has a greatest one.
LEMMA MaxExists ==
  ASSUME NEW own, IsFiniteSet(own), own \subseteq Nat, own # {}
  PROVE  Max(own) \in own
<1>1. 0 \in 0 .. Cardinality(own) - 1
  BY FS_CardinalityType, FS_EmptySet
<1>2. PICK i \in own : Cardinality({j \in own : i < j}) = 0
  BY <1>1, Ranked
<1>3. {j \in own : i < j} = {}
  <2>1. {j \in own : i < j} \in SUBSET own
    OBVIOUS
  <2>2. IsFiniteSet({j \in own : i < j})
    BY <2>1, FS_Subset
  <2> QED BY <1>2, <2>2, FS_EmptySet
<1>4. \A j \in own : i >= j
  BY <1>3
<1> QED BY <1>4 DEF Max

\* Evidence about a subject is a sequence of stored events about it.
LEMMA EvidenceAbout ==
  ASSUME stored \in Seq(Events), NEW subject
  PROVE  /\ Evidence(subject) \in Seq(Events)
         /\ ToSet(Evidence(subject))
              \subseteq {e \in ToSet(stored) : subject = NULL \/ Author[e] = subject}
<1> DEFINE own   == {i \in DOMAIN stored : subject = NULL \/ Author[stored[i]] = subject}
           total == Cardinality(own)
           at(n) == CHOOSE i \in own : Cardinality({j \in own : i < j}) = n - 1
           last  == IF total < MaxEvents THEN total ELSE MaxEvents
<1>1. IsFiniteSet(own) /\ own \subseteq Nat /\ own \subseteq DOMAIN stored
  <2>1. DOMAIN stored = 1 .. Len(stored) /\ Len(stored) \in Nat
    OBVIOUS
  <2>2. IsFiniteSet(1 .. Len(stored))
    BY <2>1, FS_Interval
  <2>3. own \in SUBSET (1 .. Len(stored))
    BY <2>1
  <2> HIDE DEF own
  <2>4. IsFiniteSet(own)
    BY <2>2, <2>3, FS_Subset
  <2> QED BY <2>1, <2>3, <2>4
<1>2. total \in Nat /\ last \in Nat /\ last <= total
  BY <1>1, FS_CardinalityType, NarrativeAssumption DEF NarrativeAssumption
<1>3. \A i \in own : /\ stored[i] \in Events /\ stored[i] \in ToSet(stored)
                     /\ subject = NULL \/ Author[stored[i]] = subject
  BY DEF ToSet
<1>4. Evidence(subject) = [n \in 1 .. last |-> stored[at(n)]]
  BY DEF Evidence
<1> HIDE DEF own, last
<1>5. ASSUME NEW n \in 1 .. last PROVE at(n) \in own
  <2>1. n - 1 \in 0 .. Cardinality(own) - 1
    BY <1>2
  <2>2. \E i \in own : Cardinality({j \in own : i < j}) = n - 1
    BY <1>1, <2>1, Ranked
  <2> QED BY <2>2
<1> HIDE DEF at
<1>6. Evidence(subject) \in Seq(Events)
  BY <1>2, <1>3, <1>4, <1>5
<1>7. \A n \in DOMAIN Evidence(subject) : n \in 1 .. last /\ Evidence(subject)[n] = stored[at(n)]
  BY <1>4
<1> QED BY <1>3, <1>5, <1>6, <1>7 DEF ToSet

\* A marker of a text that is let out stands for an event of the evidence.
LEMMA CitedFromEvidence ==
  ASSUME NEW evidence \in Seq(Events), NEW m \in ShortIdsOf(evidence)
  PROVE  Cited(evidence, m) \in ToSet(evidence)
<1> DEFINE places == {i \in 1 .. Len(evidence) : Short[evidence[i]] = m}
<1>1. DOMAIN evidence = 1 .. Len(evidence) /\ Len(evidence) \in Nat
  OBVIOUS
<1>2. IsFiniteSet(1 .. Len(evidence))
  BY <1>1, FS_Interval
<1>3. places \in SUBSET (1 .. Len(evidence)) /\ places # {}
  BY <1>1 DEF ShortIdsOf
<1>4. Cited(evidence, m) = evidence[Max(places)]
  BY <1>3 DEF Cited, SelectLastInSeq
<1> HIDE DEF places
<1>5. IsFiniteSet(places)
  BY <1>2, <1>3, FS_Subset
<1>6. Max(places) \in DOMAIN evidence
  <2>1. places \subseteq Nat
    BY <1>1, <1>3
  <2> QED BY <1>1, <1>3, <1>5, <2>1, MaxExists
<1> QED BY <1>4, <1>6 DEF ToSet

\* A text that is let out cites events of its evidence only.
LEMMA CitationsFromEvidence ==
  ASSUME NEW evidence \in Seq(Events), NEW markers, markers \subseteq ShortIdsOf(evidence),
         NEW reply, reply.citations = Citations(evidence, markers)
  PROVE  EventsOf(reply) \subseteq ToSet(evidence)
<1>1. \A m \in markers : Cited(evidence, m) \in ToSet(evidence)
  BY CitedFromEvidence
<1>2. \A c \in reply.citations : \E m \in markers : c.event = Cited(evidence, m)
  BY DEF Citations
<1> QED BY <1>1, <1>2 DEF EventsOf

\* An event that is stored among the others joins them, wherever its date puts it.
LEMMA PublishGrows ==
  ASSUME stored \in Seq(Events), NEW e \in Events, NEW at \in 1 .. Len(stored) + 1,
         Publish(e, at)
  PROVE  stored' \in Seq(Events) /\ ToSet(stored') = ToSet(stored) \cup {e}
<1> DEFINE before == SubSeq(stored, 1, at - 1)
           after  == SubSeq(stored, at, Len(stored))
<1>1. stored' = before \o <<e>> \o after
  BY DEF Publish, InsertAt
<1>2. Len(stored) \in Nat /\ DOMAIN stored = 1 .. Len(stored) /\ at \in Nat \ {0}
  OBVIOUS
<1>3. /\ before \in Seq(Events) /\ Len(before) = at - 1
      /\ \A i \in 1 .. at - 1 : before[i] = stored[i]
  BY <1>2
<1>4. /\ after \in Seq(Events) /\ Len(after) = Len(stored) - at + 1
      /\ \A i \in 1 .. Len(stored) - at + 1 : after[i] = stored[at + i - 1]
  BY <1>2
<1> HIDE DEF before, after
<1>5. /\ stored' \in Seq(Events) /\ Len(stored') = Len(stored) + 1
      /\ DOMAIN stored' = 1 .. Len(stored) + 1
      /\ \A i \in 1 .. Len(stored) + 1 :
           stored'[i] = IF i < at THEN stored[i] ELSE IF i = at THEN e ELSE stored[i - 1]
  <2> DEFINE upTo == before \o <<e>>
  <2>1. /\ upTo \in Seq(Events) /\ Len(upTo) = at
        /\ \A i \in 1 .. at : upTo[i] = IF i < at THEN stored[i] ELSE e
    BY <1>2, <1>3
  <2> HIDE DEF upTo
  <2>2. stored' = upTo \o after
    BY <1>1 DEF upTo
  <2>3. stored' \in Seq(Events) /\ Len(stored') = Len(stored) + 1
    BY <1>2, <1>4, <2>1, <2>2
  <2>4. ASSUME NEW i \in 1 .. Len(stored) + 1
        PROVE  stored'[i] = IF i < at THEN stored[i] ELSE IF i = at THEN e ELSE stored[i - 1]
    <3>1. CASE i <= at BY <1>2, <1>4, <2>1, <2>2, <3>1
    <3>2. CASE i > at
      <4>1. stored'[i] = after[i - at]
        BY <1>2, <1>4, <2>1, <2>2, <3>2
      <4>2. i - at \in 1 .. Len(stored) - at + 1 /\ at + (i - at) - 1 = i - 1
        BY <1>2, <3>2
      <4>3. after[i - at] = stored[i - 1]
        BY <1>4, <4>2
      <4> QED BY <1>2, <3>2, <4>1, <4>3
    <3> QED BY <1>2, <3>1, <3>2
  <2>5. DOMAIN stored' = 1 .. Len(stored')
    BY <2>3
  <2> QED BY <2>3, <2>4, <2>5
<1>6. ASSUME NEW i \in DOMAIN stored' PROVE stored'[i] \in ToSet(stored) \cup {e}
  BY <1>2, <1>5 DEF ToSet
<1>7. ASSUME NEW i \in DOMAIN stored PROVE \E j \in DOMAIN stored' : stored'[j] = stored[i]
  <2>1. CASE i < at BY <1>2, <1>5, <2>1
  <2>2. CASE i >= at
    <3>1. i + 1 \in DOMAIN stored' /\ stored'[i + 1] = stored[i]
      BY <1>2, <1>5, <2>2
    <3> QED BY <3>1
  <2> QED BY <1>2, <2>1, <2>2
<1>8. at \in DOMAIN stored' /\ stored'[at] = e
  BY <1>2, <1>5
<1> QED BY <1>5, <1>6, <1>7, <1>8 DEF ToSet

----------------------------------------------------------------------------
(* The promise.                                                            *)

\* The states in which a question waits for its answer.
Open == {"asking", "judging"}

\* A question is about somebody or all, and is judged on markers of its evidence.
RowAsked(row) ==
  /\ row.pc \in {"idle", "done"} \cup Open
  /\ row.subject \in Agents \cup {NULL}
  /\ row.evidence \in Seq(Events)
  /\ row.pc = "judging" => row.markers \subseteq ShortIdsOf(row.evidence)

PromiseInv ==
  /\ QueryInv
  /\ stored \in Seq(Events)
  /\ \A q \in Queries : RowAsked(query[q])

\* How a row changes: an open question stays what it is or is answered from its
\* evidence, and a new one is about events on record.
Moves(old, row) ==
  \/ /\ old.pc \in Open /\ row.subject = old.subject /\ row.evidence = old.evidence
     /\ \/ row.pc \in Open
        \/ row.pc = "done" /\ EventsOf(row.reply) \subseteq ToSet(old.evidence)
  \/ /\ old.pc = "idle" /\ row.pc \in {"asking", "done"}
     /\ ToSet(row.evidence)
          \subseteq {e \in ToSet(stored) : row.subject = NULL \/ Author[e] = row.subject}
     /\ row.pc = "done" => EventsOf(row.reply) = {}

Proceeds(q) ==
  \E row : query' = [query EXCEPT ![q] = row] /\ RowAsked(row) /\ Moves(query[q], row)

\* Such a change is a deal of Answers or none.
LEMMA MoveKept ==
  ASSUME PromiseInv, QueryInv', NEW q \in Queries, Proceeds(q), stored' = stored
  PROVE  PromiseInv' /\ [Promise!Next]_(Promise!answers)
<1> DEFINE asked == [p \in Queries |-> AskedOf(query[p])]
           reply == [p \in Queries |-> ReplyOf(query[p])]
<1>1. PICK row : query' = [query EXCEPT ![q] = row] /\ RowAsked(row) /\ Moves(query[q], row)
  BY DEF Proceeds
<1>2. DOMAIN query = Queries
  BY DEF PromiseInv, QueryInv
<1>3. query'[q] = row /\ \A p \in Queries : p # q => query'[p] = query[p]
  BY <1>1, <1>2
<1>4. PromiseInv'
  <2>1. \A p \in Queries : RowAsked(query'[p])
    BY <1>1, <1>3 DEF PromiseInv
  <2>2. stored' \in Seq(Events)
    BY DEF PromiseInv
  <2>3. \A p \in Queries : RowAsked(query[p])'
    BY <2>1 DEF RowAsked, ShortIdsOf
  <2> QED BY <2>2, <2>3 DEF PromiseInv
<1>5. asked' = [asked EXCEPT ![q] = AskedOf(row)]
  BY <1>3 DEF AskedOf
<1>6. reply' = [reply EXCEPT ![q] = ReplyOf(row)]
  BY <1>3 DEF ReplyOf, EventsOf
<1>7. asked[q] = AskedOf(query[q]) /\ reply[q] = ReplyOf(query[q])
  OBVIOUS
<1>8. asked = [asked EXCEPT ![q] = asked[q]] /\ reply = [reply EXCEPT ![q] = reply[q]]
  OBVIOUS
<1>9. RowAsked(query[q])
  BY DEF PromiseInv
<1> HIDE DEF asked, reply
<1>10. CASE /\ query[q].pc \in Open /\ row.pc \in Open
            /\ row.subject = query[q].subject /\ row.evidence = query[q].evidence
  <2>1. AskedOf(row) = AskedOf(query[q]) /\ ReplyOf(row) = ReplyOf(query[q])
    BY <1>10 DEF AskedOf, ReplyOf, Open
  <2>2. asked' = asked /\ reply' = reply
    BY <1>5, <1>6, <1>7, <1>8, <2>1
  <2> QED BY <1>4, <2>2 DEF Promise!answers, asked, reply
<1>11. CASE /\ query[q].pc \in Open /\ row.pc = "done"
            /\ row.subject = query[q].subject /\ row.evidence = query[q].evidence
            /\ EventsOf(row.reply) \subseteq ToSet(query[q].evidence)
  <2>1. /\ AskedOf(query[q]) = [subject |-> query[q].subject, may |-> ToSet(query[q].evidence)]
        /\ AskedOf(row) = AskedOf(query[q])
        /\ ReplyOf(query[q]) = NULL /\ ReplyOf(row) = EventsOf(row.reply)
    BY <1>11 DEF AskedOf, ReplyOf, Open
  <2>2. AskedOf(query[q]) # NULL
    <3>1. ToSet(query[q].evidence) \in SUBSET Events
      BY <1>9 DEF RowAsked, ToSet
    <3>2. AskedOf(query[q]) \in [subject : Agents \cup {NULL}, may : SUBSET Events]
      BY <1>9, <2>1, <3>1 DEF RowAsked
    <3> QED BY <3>2, NarrativeAssumption DEF NarrativeAssumption
  <2>3. asked' = asked
    BY <1>5, <1>7, <1>8, <2>1
  <2>4. EventsOf(row.reply) \in SUBSET asked[q].may
    BY <1>7, <1>11, <2>1
  <2>5. reply' = [reply EXCEPT ![q] = EventsOf(row.reply)]
    BY <1>6, <2>1
  <2>6. asked[q] # NULL /\ reply[q] = NULL
    BY <1>7, <2>1, <2>2
  <2>7. Promise!Answer(q)
    BY <2>3, <2>4, <2>5, <2>6 DEF Promise!Answer, asked, reply
  <2> QED BY <1>4, <2>7 DEF Promise!Next
<1>12. CASE /\ query[q].pc = "idle" /\ row.pc \in {"asking", "done"}
            /\ ToSet(row.evidence)
                 \subseteq {e \in ToSet(stored) : row.subject = NULL \/ Author[e] = row.subject}
            /\ row.pc = "done" => EventsOf(row.reply) = {}
  <2>1. /\ AskedOf(query[q]) = NULL /\ ReplyOf(query[q]) = NULL
        /\ AskedOf(row) = [subject |-> row.subject, may |-> ToSet(row.evidence)]
        /\ ReplyOf(row) = IF row.pc = "done" THEN {} ELSE NULL
    BY <1>12 DEF AskedOf, ReplyOf
  <2>2. ToSet(row.evidence) \in SUBSET Promise!About(row.subject)
    BY <1>12 DEF Promise!About
  <2>3. asked[q] = NULL
    BY <1>7, <2>1
  <2>4. reply' = reply \/ reply' = [reply EXCEPT ![q] = {}]
    BY <1>6, <1>7, <1>8, <2>1
  <2>5. asked' = [asked EXCEPT ![q] = [subject |-> row.subject, may |-> ToSet(row.evidence)]]
    BY <1>5, <2>1
  <2>6. Promise!Ask(q, row.subject)
    BY <2>2, <2>3, <2>4, <2>5 DEF Promise!Ask, asked, reply
  <2>7. row.subject \in Agents \cup {NULL}
    BY <1>1 DEF RowAsked
  <2> QED BY <1>4, <2>6, <2>7 DEF Promise!Next
<1> QED BY <1>1, <1>10, <1>11, <1>12 DEF Moves

\* The excuse answers an open question with no event.
LEMMA FallbackMoves ==
  ASSUME PromiseInv, NEW q \in Queries, query[q].pc \in Open, NEW cold, Fallback(q, cold)
  PROVE  Proceeds(q)
<1> DEFINE excuse == [citations |-> {}, cold |-> cold, fallback |-> TRUE,
                      retries |-> IF query[q].attempts = 0 THEN 0
                                  ELSE query[q].attempts - 1]
           row    == [query[q] EXCEPT !.pc = "done", !.reply = excuse]
<1>1. DOMAIN query[q] = Fields /\ DOMAIN query = Queries /\ RowAsked(query[q])
  BY DEF PromiseInv, QueryInv, RowSound
<1>2. query' = [query EXCEPT ![q] = row]
  BY <1>1 DEF Fallback
<1>3. /\ row.pc = "done" /\ row.reply = excuse
      /\ row.subject = query[q].subject /\ row.evidence = query[q].evidence
  BY <1>1 DEF Fields
<1>4. excuse.citations = {}
  OBVIOUS
<1> HIDE DEF row, excuse
<1>5. RowAsked(row)
  BY <1>1, <1>3 DEF RowAsked
<1>6. EventsOf(row.reply) = {}
  BY <1>3, <1>4 DEF EventsOf
<1>7. Moves(query[q], row)
  BY <1>3, <1>6 DEF Moves
<1> QED BY <1>2, <1>5, <1>7 DEF Proceeds

\* A retry leaves the question open, or answers it with the excuse.
LEMMA RetryMoves ==
  ASSUME PromiseInv, NEW q \in Queries, query[q].pc \in Open, Retry(q)
  PROVE  Proceeds(q)
<1>1. CASE query[q].attempts <= MaxRetries
  <2> DEFINE row == [query[q] EXCEPT !.pc = "asking", !.attempts = @ + 1,
                       !.markers = {}, !.judged = {}, !.rejected = {}]
  <2>1. DOMAIN query[q] = Fields /\ DOMAIN query = Queries /\ RowAsked(query[q])
    BY DEF PromiseInv, QueryInv, RowSound
  <2>2. query' = [query EXCEPT ![q] = row]
    BY <1>1, <2>1 DEF Retry
  <2>3. /\ row.pc = "asking" /\ row.subject = query[q].subject
        /\ row.evidence = query[q].evidence
    BY <2>1 DEF Fields
  <2> HIDE DEF row
  <2>4. RowAsked(row)
    BY <2>1, <2>3 DEF RowAsked, Open
  <2>5. Moves(query[q], row)
    BY <2>3 DEF Moves, Open
  <2> QED BY <2>2, <2>4, <2>5 DEF Proceeds
<1>2. CASE ~(query[q].attempts <= MaxRetries)
  BY <1>2, FallbackMoves DEF Retry
<1> QED BY <1>1, <1>2

\* A text whose markers are of the evidence answers the question from it.
LEMMA DeliverMoves ==
  ASSUME PromiseInv, NEW q \in Queries, query[q].pc \in Open,
         NEW row, DOMAIN row = Fields, row.subject = query[q].subject,
         row.evidence = query[q].evidence, row.markers \subseteq ShortIdsOf(row.evidence),
         Deliver(q, row)
  PROVE  Proceeds(q)
<1> DEFINE answer == [citations |-> Citations(row.evidence, row.markers),
                      cold |-> FALSE, fallback |-> FALSE, retries |-> row.attempts - 1]
           done   == [row EXCEPT !.pc = "done", !.reply = answer]
<1>1. query' = [query EXCEPT ![q] = done]
  BY DEF Deliver
<1>2. /\ done.pc = "done" /\ done.reply = answer
      /\ done.subject = row.subject /\ done.evidence = row.evidence
  BY DEF Fields
<1>3. answer.citations = Citations(row.evidence, row.markers)
  OBVIOUS
<1> HIDE DEF answer, done
<1>4. RowAsked(query[q])
  BY DEF PromiseInv
<1>5. RowAsked(done)
  BY <1>2, <1>4 DEF RowAsked
<1>6. EventsOf(done.reply) \subseteq ToSet(query[q].evidence)
  BY <1>2, <1>3, <1>4, CitationsFromEvidence DEF RowAsked
<1>7. Moves(query[q], done)
  BY <1>2, <1>6 DEF Moves
<1> QED BY <1>1, <1>5, <1>7 DEF Proceeds

\* A text keeps the question open, for the judge or another text, or answers it.
LEMMA RespondMoves ==
  ASSUME PromiseInv, NEW q \in Queries, NEW markers, Respond(q, markers)
  PROVE  Proceeds(q)
<1> DEFINE row == [query[q] EXCEPT !.markers = markers]
<1>1. /\ DOMAIN query[q] = Fields /\ RowAsked(query[q])
      /\ query[q].pc = "asking" /\ query[q].pc \in Open
  BY DEF PromiseInv, QueryInv, RowSound, Respond, Open
<1>2. /\ DOMAIN row = Fields /\ row.markers = markers
      /\ row.subject = query[q].subject /\ row.evidence = query[q].evidence
  BY <1>1 DEF Fields
<1>3. \/ Retry(q)
      \/ /\ markers \subseteq ShortIdsOf(row.evidence)
         /\ \/ query' = [query EXCEPT ![q] = [row EXCEPT !.pc = "judging"]]
            \/ Deliver(q, row)
  BY DEF Respond
<1> HIDE DEF row
<1>4. CASE Retry(q)
  BY <1>1, <1>4, RetryMoves
<1>5. CASE /\ markers \subseteq ShortIdsOf(row.evidence)
           /\ query' = [query EXCEPT ![q] = [row EXCEPT !.pc = "judging"]]
  <2> DEFINE next == [row EXCEPT !.pc = "judging"]
  <2>1. /\ next.pc = "judging" /\ next.markers = row.markers
        /\ next.subject = row.subject /\ next.evidence = row.evidence
    BY <1>2 DEF Fields
  <2>2. query' = [query EXCEPT ![q] = next]
    BY <1>5
  <2> HIDE DEF next
  <2>3. RowAsked(next)
    BY <1>1, <1>2, <1>5, <2>1 DEF RowAsked, Open
  <2>4. Moves(query[q], next)
    BY <1>1, <1>2, <2>1 DEF Moves, Open
  <2> QED BY <2>2, <2>3, <2>4 DEF Proceeds
<1>6. CASE markers \subseteq ShortIdsOf(row.evidence) /\ Deliver(q, row)
  BY <1>1, <1>2, <1>6, DeliverMoves
<1> QED BY <1>3, <1>4, <1>5, <1>6

\* So does a verdict of the judge.
LEMMA JudgeMoves ==
  ASSUME PromiseInv, NEW q \in Queries, NEW m, NEW verdict, Judge(q, m, verdict)
  PROVE  Proceeds(q)
<1> DEFINE event == Judged(query[q].evidence, m)
           row   == [query[q] EXCEPT !.judged = @ \cup {event},
                       !.rejected = IF verdict = "ungrounded" THEN @ \cup {event} ELSE @]
<1>1. /\ DOMAIN query[q] = Fields /\ RowAsked(query[q])
      /\ query[q].pc = "judging" /\ query[q].pc \in Open
  BY DEF PromiseInv, QueryInv, RowSound, Judge, Open
<1>2. /\ DOMAIN row = Fields /\ row.pc = "judging" /\ row.markers = query[q].markers
      /\ row.subject = query[q].subject /\ row.evidence = query[q].evidence
  BY <1>1 DEF Fields
<1>3. query' = [query EXCEPT ![q] = row] \/ Retry(q) \/ Deliver(q, row)
  BY DEF Judge
<1> HIDE DEF event, row
<1>4. CASE query' = [query EXCEPT ![q] = row]
  <2>1. RowAsked(row)
    BY <1>1, <1>2 DEF RowAsked
  <2>2. Moves(query[q], row)
    BY <1>1, <1>2 DEF Moves, Open
  <2> QED BY <1>4, <2>1, <2>2 DEF Proceeds
<1>5. CASE Retry(q)
  BY <1>1, <1>5, RetryMoves
<1>6. CASE Deliver(q, row)
  <2>1. row.markers \subseteq ShortIdsOf(row.evidence)
    BY <1>1, <1>2 DEF RowAsked
  <2> QED BY <1>1, <1>2, <1>6, <2>1, DeliverMoves
<1> QED BY <1>3, <1>4, <1>5, <1>6

\* A new question may cite its evidence, and one that is hopeless cites nothing.
LEMMA AskMoves ==
  ASSUME PromiseInv, NEW q \in Queries, NEW subject \in Agents \cup {NULL},
         NEW strict \in BOOLEAN, NEW cap, Ask(q, subject, strict, cap)
  PROVE  Proceeds(q)
<1> DEFINE row    == [Unasked EXCEPT !.subject = subject, !.strict = strict /\ HasJudge,
                                     !.cap = cap]
           asking == [row EXCEPT !.pc = "asking", !.evidence = Evidence(subject), !.attempts = 1]
           excuse == [citations |-> {}, cold |-> IsCold, fallback |-> TRUE, retries |-> 0]
           done   == [row EXCEPT !.pc = "done", !.reply = excuse]
<1>1. query' = [query EXCEPT ![q] = asking] \/ query' = [query EXCEPT ![q] = done]
  BY DEF Ask
<1>2. query[q].pc = "idle"
  BY DEF Ask
<1>3. DOMAIN row = Fields /\ row.subject = subject /\ row.evidence = <<>>
  BY DEF Unasked, Fields
<1>4. excuse.citations = {}
  OBVIOUS
<1> HIDE DEF row, excuse
<1>5. CASE query' = [query EXCEPT ![q] = asking]
  <2>1. asking.pc = "asking" /\ asking.subject = subject /\ asking.evidence = Evidence(subject)
    BY <1>3 DEF Fields
  <2> HIDE DEF asking
  <2>2. /\ Evidence(subject) \in Seq(Events)
        /\ ToSet(Evidence(subject))
             \subseteq {e \in ToSet(stored) : subject = NULL \/ Author[e] = subject}
    BY EvidenceAbout DEF PromiseInv
  <2>3. RowAsked(asking)
    BY <2>1, <2>2 DEF RowAsked, Open
  <2>4. Moves(query[q], asking)
    BY <1>2, <2>1, <2>2 DEF Moves
  <2> QED BY <1>5, <2>3, <2>4 DEF Proceeds
<1>6. CASE query' = [query EXCEPT ![q] = done]
  <2>1. /\ done.pc = "done" /\ done.subject = subject /\ done.evidence = <<>>
        /\ done.reply = excuse
    BY <1>3 DEF Fields
  <2> HIDE DEF asking, done
  <2>2. <<>> \in Seq(Events) /\ ToSet(<<>>) = {}
    BY DEF ToSet
  <2>3. RowAsked(done)
    BY <2>1, <2>2 DEF RowAsked
  <2>4. EventsOf(done.reply) = {}
    BY <1>4, <2>1 DEF EventsOf
  <2>5. Moves(query[q], done)
    BY <1>2, <2>1, <2>2, <2>4 DEF Moves
  <2> QED BY <1>6, <2>3, <2>5 DEF Proceeds
<1> QED BY <1>1, <1>5, <1>6

\* A question whose evidence cannot be read is answered at once.
LEMMA ReadFailsMoves ==
  ASSUME PromiseInv, NEW q \in Queries, NEW subject \in Agents \cup {NULL}, NEW cold,
         ReadFails(q, subject, cold)
  PROVE  Proceeds(q)
<1> DEFINE excuse == [citations |-> {}, cold |-> cold, fallback |-> TRUE, retries |-> 0]
           done   == [Unasked EXCEPT !.pc = "done", !.subject = subject, !.reply = excuse]
<1>1. query' = [query EXCEPT ![q] = done] /\ query[q].pc = "idle"
  BY DEF ReadFails
<1>2. excuse.citations = {}
  OBVIOUS
<1> HIDE DEF excuse
<1>3. /\ done.pc = "done" /\ done.subject = subject /\ done.evidence = <<>>
      /\ done.reply = excuse
  BY DEF Unasked, Fields
<1> HIDE DEF done
<1>4. <<>> \in Seq(Events) /\ ToSet(<<>>) = {}
  BY DEF ToSet
<1>5. RowAsked(done)
  BY <1>3, <1>4 DEF RowAsked
<1>6. EventsOf(done.reply) = {}
  BY <1>2, <1>3 DEF EventsOf
<1>7. Moves(query[q], done)
  BY <1>1, <1>3, <1>4, <1>6 DEF Moves
<1> QED BY <1>1, <1>5, <1>7 DEF Proceeds

\* Every step of the narrative is a deal of Answers or invisible.
LEMMA PromiseStep ==
  ASSUME PromiseInv, [Next]_vars
  PROVE  PromiseInv' /\ [Promise!Next]_(Promise!answers)
<1>0. QueryInv'
  BY QueryInductive DEF PromiseInv
<1>1. ASSUME NEW q \in Queries, Progress(q)
      PROVE  PromiseInv' /\ [Promise!Next]_(Promise!answers)
  <2>1. stored' = stored
    BY <1>1 DEF Progress, Respond, ProviderFails, Judge
  <2>2. ASSUME NEW markers \in SUBSET ShortIds, Respond(q, markers) PROVE Proceeds(q)
    BY <2>2, RespondMoves
  <2>3. ASSUME ProviderFails(q) PROVE Proceeds(q)
    BY <2>3, FallbackMoves DEF ProviderFails, Open
  <2>4. ASSUME NEW m \in ShortIds, NEW verdict \in Verdicts, Judge(q, m, verdict) PROVE Proceeds(q)
    BY <2>4, JudgeMoves
  <2>5. Proceeds(q)
    BY <1>1, <2>2, <2>3, <2>4 DEF Progress
  <2> QED BY <1>0, <2>1, <2>5, MoveKept
<1>2. ASSUME NEW q \in Queries, Arrive(q)
      PROVE  PromiseInv' /\ [Promise!Next]_(Promise!answers)
  <2>1. stored' = stored
    BY <1>2 DEF Arrive, Ask, ReadFails
  <2>2. Proceeds(q)
    <3>1. PICK subject \in Agents \cup {NULL} :
            \/ \E strict \in BOOLEAN, cap \in Caps : Ask(q, subject, strict, cap)
            \/ \E cold \in BOOLEAN : ReadFails(q, subject, cold)
      BY <1>2 DEF Arrive
    <3>2. ASSUME NEW strict \in BOOLEAN, NEW cap \in Caps, Ask(q, subject, strict, cap)
          PROVE  Proceeds(q)
      BY <3>2, AskMoves
    <3>3. ASSUME NEW cold \in BOOLEAN, ReadFails(q, subject, cold) PROVE Proceeds(q)
      BY <3>3, ReadFailsMoves
    <3> QED BY <3>1, <3>2, <3>3
  <2> QED BY <1>0, <2>1, <2>2, MoveKept
<1>3. ASSUME query' = query, stored' \in Seq(Events)
      PROVE  /\ PromiseInv'
             /\ UNCHANGED <<[q \in Queries |-> AskedOf(query[q])],
                            [q \in Queries |-> ReplyOf(query[q])]>>
  BY <1>0, <1>3 DEF PromiseInv, RowAsked, ShortIdsOf, AskedOf, ReplyOf, EventsOf
<1>4. CASE UNCHANGED stored /\ UNCHANGED query
  <2>1. stored' \in Seq(Events)
    BY <1>4 DEF PromiseInv
  <2> QED BY <1>3, <1>4, <2>1 DEF Promise!answers
<1>5. ASSUME NEW e \in Events, NEW at \in 1 .. Len(stored) + 1, Publish(e, at)
      PROVE  PromiseInv' /\ [Promise!Next]_(Promise!answers)
  <2>1. stored' \in Seq(Events) /\ ToSet(stored') = ToSet(stored) \cup {e}
    BY <1>5, PublishGrows DEF PromiseInv
  <2>2. ToSet(stored)' = ToSet(stored')
    BY DEF ToSet
  <2>3. Promise!Grow(e)
    BY <1>3, <1>5, <2>1, <2>2 DEF Promise!Grow, Publish
  <2> QED BY <1>3, <1>5, <2>1, <2>3 DEF Promise!Next, Publish
<1> QED BY <1>1, <1>2, <1>4, <1>5 DEF Next, Surroundings, Reflect, vars

\* Whatever its retries, judges, errors and cancels, every question is answered at
\* most once, and only from events about its subject that were on record when it
\* was asked (renderer.py:86-201, evidence.py:48-109).
THEOREM AnswersPromised == TSpec => PromiseKept
<1>1. TInit => PromiseInv /\ Promise!Init
  <2> SUFFICES ASSUME TInit PROVE PromiseInv /\ Promise!Init
    OBVIOUS
  <2>1. Init
    BY DEF TInit
  <2>2. QueryInv
    BY <2>1, InitSound
  <2>3. \A q \in Queries : query[q] = Unasked
    BY <2>1 DEF Init
  <2>4. Unasked.pc = "idle" /\ Unasked.subject = NULL /\ Unasked.evidence = <<>>
    BY DEF Unasked
  <2>5. stored = <<>> /\ stored \in Seq(Events) /\ ToSet(stored) = {}
    BY <2>1 DEF Init, ToSet
  <2>6. \A q \in Queries : RowAsked(query[q])
    <3>1. <<>> \in Seq(Events)
      OBVIOUS
    <3>2. RowAsked(Unasked)
      BY <2>4, <3>1 DEF RowAsked, Open
    <3> QED BY <2>3, <3>2
  <2>7. \A q \in Queries : AskedOf(query[q]) = NULL /\ ReplyOf(query[q]) = NULL
    BY <2>3, <2>4 DEF AskedOf, ReplyOf
  <2>8. Promise!Init
    BY <2>5, <2>7 DEF Promise!Init
  <2> QED BY <2>2, <2>5, <2>6, <2>8 DEF PromiseInv
<1>2. PromiseInv /\ [TNext]_tvars => PromiseInv' /\ [Promise!Next]_(Promise!answers)
  <2>1. UNCHANGED tvars => UNCHANGED vars BY DEF tvars, Narration
  <2> QED BY <2>1, ExecutorStep, PromiseStep
<1> QED BY <1>1, <1>2, PTL DEF TSpec, PromiseKept, Promise!Spec
=============================================================================
