-------------------------------- MODULE Tasks --------------------------------
(***************************************************************************)
(* The A2A task of every request: what the executor puts on the event      *)
(* stream of the task, in which order, when it may be cancelled in         *)
(* between, and what the client is left with.                              *)
(*                                                                         *)
(* A request suspends at every event it emits and at the model.  Queries   *)
(* run in an asyncio task of their own, which cancel looks up in           *)
(* _in_flight; the other intents run in the handler itself.  A query asks  *)
(* its question of Narrative, whose steps are taken only while its task is *)
(* alive.  The handler of the A2A SDK is external: it lets a cancel        *)
(* through for a task it has stored, which may be any time after the       *)
(* message came (a message may go on with a task stored before) and after  *)
(* the task was done.                                                      *)
(***************************************************************************)
EXTENDS Narrative

CONSTANTS
  Messages,   \* messages that requests may carry; see Message
  MaxCancels  \* bound: cancels of one request

\* The parts of a message that decide about it: the intent its metadata names
\* ("" for none or none that is a string), whether it has text and data.
Message == [intent : {"", "publish", "query", "reputation", "other"},
            text : BOOLEAN, data : BOOLEAN]
NoMessage == [intent |-> "no message", text |-> FALSE, data |-> FALSE]

ASSUME TasksAssumption ==
  /\ Messages \subseteq Message \cup {NoMessage}
  /\ MaxCancels \in Nat

VARIABLES
  request,   \* where each request stands
  stream,    \* the events of its task, in order
  inFlight,  \* _in_flight: tasks of queries that cancel can find
  cancels    \* cancels of each request: asked for, and emitted

Narration == vars
tvars     == <<request, stream, inFlight, cancels, Narration>>

----------------------------------------------------------------------------
(* What is asked for.                                                      *)

\* Text without data is taken for a question when no intent is named.
HeuristicIntent(msg) == IF msg.text /\ ~msg.data THEN "query" ELSE "none"

Intent(msg) == IF msg.intent = "" THEN HeuristicIntent(msg) ELSE msg.intent

IntentOf(r) == Intent(request[r].msg)

Absent == [stage |-> "absent", msg |-> NoMessage, todo |-> <<>>, killed |-> FALSE,
           raised |-> FALSE]

\* A request is under way until its coroutine returns.
Running(r) == request[r].stage \notin {"absent", "ended", "done"}

\* It can take a step of its own: nobody has cancelled it.
Live(r, stage) == request[r].stage = stage /\ ~request[r].killed

At(r, stage, todo) == request' = [request EXCEPT ![r].stage = stage, ![r].todo = todo]

\* Emit these events and return.
Close(r, events) == At(r, "closing", events)

Raise(r) == request' = [request EXCEPT ![r].stage = "ended", ![r].raised = TRUE]

----------------------------------------------------------------------------
(* The executor.                                                           *)

\* Mutant: a message nobody can serve is dropped without a word.
ReceiveSilent(r, msg) ==
  /\ request[r].stage = "absent"
  /\ request' = [request EXCEPT ![r] = [Absent EXCEPT !.msg = msg,
       !.stage = CASE Intent(msg) \in {"publish", "reputation"} -> "opening"
                   [] Intent(msg) = "query"                     -> "starting"
                   [] OTHER                                     -> "ended",
       !.todo  = CASE Intent(msg) \in {"publish", "reputation"} -> <<"task">>
                   [] OTHER                                     -> <<>>]]
  /\ inFlight' = IF Intent(msg) = "query" THEN inFlight \cup {r} ELSE inFlight
  /\ UNCHANGED <<stream, cancels, Narration>>

\* A message arrives and is dispatched by its intent.
Receive(r, msg) ==
  /\ request[r].stage = "absent"
  /\ request' = [request EXCEPT ![r] = [Absent EXCEPT !.msg = msg,
       !.stage = CASE Intent(msg) \in {"publish", "reputation"} -> "opening"
                   [] Intent(msg) = "query"                     -> "starting"
                   [] OTHER                                     -> "closing",
       !.todo  = CASE Intent(msg) \in {"publish", "reputation"} -> <<"task">>
                   [] Intent(msg) = "query"                     -> <<>>
                   [] OTHER                                     -> <<"failed">>]]
  /\ inFlight' = IF Intent(msg) = "query" THEN inFlight \cup {r} ELSE inFlight
  /\ UNCHANGED <<stream, cancels, Narration>>

\* The asyncio task of a query gets its first turn.
StartQuery(r) ==
  /\ Live(r, "starting")
  /\ At(r, "opening", <<"task", "working">>)
  /\ UNCHANGED <<stream, inFlight, cancels, Narration>>

\* The next event goes out; after the last closing one the coroutine returns.
Emit(r) ==
  /\ Running(r) /\ ~request[r].killed
  /\ request[r].todo # <<>>
  /\ stream' = [stream EXCEPT ![r] = Append(@, Head(request[r].todo))]
  /\ LET rest == Tail(request[r].todo)
     IN  At(r, IF request[r].stage = "closing" /\ rest = <<>> THEN "ended"
               ELSE request[r].stage, rest)
  /\ UNCHANGED <<inFlight, cancels, Narration>>

\* Publish: no data, a payload that cannot be parsed, a refusal and a stored
\* event are all reported; any other exception leaves the coroutine.
DispatchPublish(r) ==
  /\ Live(r, "opening") /\ request[r].todo = <<>> /\ IntentOf(r) = "publish"
  /\ \/ ~request[r].msg.data /\ Close(r, <<"failed">>)
     \/ request[r].msg.data /\ Close(r, <<"artifact", "completed">>)
     \/ request[r].msg.data /\ Raise(r)
  /\ UNCHANGED <<stream, inFlight, cancels, Narration>>

\* Query: no question, small talk, filters that do not validate, the excuse of
\* the broke, a charge that raises, no provider, or a question to the model.
DispatchQuery(r) ==
  /\ Live(r, "opening") /\ request[r].todo = <<>> /\ IntentOf(r) = "query"
  /\ \/ ~request[r].msg.text /\ Close(r, <<"failed">>) /\ UNCHANGED Narration
     \/ /\ request[r].msg.text
        /\ \/ Close(r, <<"artifact", "completed">>) /\ UNCHANGED Narration
           \/ Close(r, <<"failed">>) /\ UNCHANGED Narration
           \/ Raise(r) /\ UNCHANGED Narration
           \/ At(r, "serving", <<>>) /\ Arrive(r)
  /\ UNCHANGED <<stream, inFlight, cancels>>

\* Reputation: the subject comes from the data or from the text.
DispatchReputation(r) ==
  /\ Live(r, "opening") /\ request[r].todo = <<>> /\ IntentOf(r) = "reputation"
  /\ \/ ~request[r].msg.text /\ Close(r, <<"failed">>)
     \/ (request[r].msg.text \/ request[r].msg.data) /\ At(r, "serving", <<"working">>)
  /\ UNCHANGED <<stream, inFlight, cancels, Narration>>

\* The model or the judge answers a query that is alive.
NarrateOn(r) ==
  /\ Live(r, "serving") /\ IntentOf(r) = "query"
  /\ Progress(r)
  /\ UNCHANGED <<request, stream, inFlight, cancels>>

\* The narrative has an answer or its excuse.
ServeQuery(r) ==
  /\ Live(r, "serving") /\ IntentOf(r) = "query"
  /\ query[r].pc = "done"
  /\ Close(r, <<"artifact", "completed">>)
  /\ UNCHANGED <<stream, inFlight, cancels, Narration>>

\* Reputation: the charge, perhaps the excuse of the broke, and the report.
ServeReputation(r) ==
  /\ Live(r, "serving") /\ request[r].todo = <<>> /\ IntentOf(r) = "reputation"
  /\ \/ Close(r, <<"artifact", "completed">>)
     \/ Raise(r)
  /\ UNCHANGED <<stream, inFlight, cancels, Narration>>

\* Mutant: the handler of a cancelled query reports a failure.
ReportKill(r) ==
  /\ Running(r) /\ request[r].killed
  /\ request' = [request EXCEPT ![r].stage = "closing", ![r].killed = FALSE,
                                ![r].todo = <<"failed">>]
  /\ UNCHANGED <<stream, inFlight, cancels, Narration>>

\* CancelledError reaches the query at its suspension and no handler stops it.
Kill(r) ==
  /\ Running(r) /\ request[r].killed
  /\ At(r, "ended", <<>>)
  /\ UNCHANGED <<stream, inFlight, cancels, Narration>>

\* execute() resumes after the query and drops it from _in_flight; the other
\* intents just return.
Return(r) ==
  /\ request[r].stage = "ended"
  /\ At(r, "done", <<>>)
  /\ inFlight' = inFlight \ {r}
  /\ UNCHANGED <<stream, cancels, Narration>>

\* tasks/cancel: a query that is found and not done is cancelled, one whose task
\* has had no turn yet included ...
Cancel(r) ==
  /\ request[r].stage # "absent"
  /\ cancels[r].asked < MaxCancels
  /\ cancels' = [cancels EXCEPT ![r].asked = @ + 1]
  /\ request' = [request EXCEPT ![r].killed = @ \/ (r \in inFlight /\ Running(r))]
  /\ UNCHANGED <<stream, inFlight, Narration>>

\* ... and the event is emitted, whatever was found.
EmitCanceled(r) ==
  /\ cancels[r].emitted < cancels[r].asked
  /\ cancels' = [cancels EXCEPT ![r].emitted = @ + 1]
  /\ stream' = [stream EXCEPT ![r] = Append(@, "canceled")]
  /\ UNCHANGED <<request, inFlight, Narration>>

TInit ==
  /\ Init
  /\ request = [r \in Queries |-> Absent]
  /\ stream = [r \in Queries |-> <<>>]
  /\ inFlight = {}
  /\ cancels = [r \in Queries |-> [asked |-> 0, emitted |-> 0]]

Step(r) ==
  \/ StartQuery(r) \/ Emit(r)
  \/ DispatchPublish(r) \/ DispatchQuery(r) \/ DispatchReputation(r)
  \/ NarrateOn(r) \/ ServeQuery(r) \/ ServeReputation(r)
  \/ Kill(r) \/ Return(r)
  \/ EmitCanceled(r)

\* Events and reflections appear while requests are served.
Grow ==
  /\ Surroundings
  /\ UNCHANGED <<request, stream, inFlight, cancels>>

TNext ==
  \/ \E r \in Queries :
       \/ Step(r)
       \/ \E msg \in Messages : Receive(r, msg)
       \/ Cancel(r)
  \/ Grow

\* The event loop runs every coroutine that can go on, and requests to the
\* model and the judge end within the provider's timeout.
TFairness == \A r \in Queries : WF_tvars(Step(r))

TSpec == TInit /\ [][TNext]_tvars /\ TFairness

----------------------------------------------------------------------------
(* Properties.                                                             *)

Terminal == {"completed", "failed", "canceled"}

\* After a terminal event of a query, and after the result of any request, comes
\* nothing but the echo of a cancel: no artifact or failure once a query is
\* cancelled, no failure once a request is completed; and the artifact of a
\* completed task is there before it (executor.py:110-119, 141-145, 354-365).
TerminalEventStands ==
  \A r \in Queries : \A i \in DOMAIN stream[r] :
    /\ stream[r][i] \in Terminal \ (IF IntentOf(r) = "query" THEN {} ELSE {"canceled"}) =>
         \A j \in i + 1 .. Len(stream[r]) : stream[r][j] = "canceled"
    /\ stream[r][i] = "completed" => \E j \in 1 .. i : stream[r][j] = "artifact"

\* Every request ends, however often its text is rejected, and unless an
\* exception left the executor its client has a terminal event (executor.py:92-133).
RequestsEnd ==
  \A r \in Queries :
    (request[r].stage # "absent") ~>
      /\ request[r].stage = "done"
      /\ request[r].raised \/ \E i \in DOMAIN stream[r] : stream[r][i] \in Terminal
=============================================================================
