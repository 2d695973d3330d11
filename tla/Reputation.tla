----------------------------- MODULE Reputation -----------------------------
(***************************************************************************)
(* What oldman says about an agent while the trust ledger moves on: the    *)
(* report that answers a reputation request, the model's wording of it,    *)
(* and the sanctions that follow from a membership state.                  *)
(*                                                                         *)
(* The steps of Trust go on unchanged; here each trust event also keeps    *)
(* its timestamp and place, because a report cites the newest ones.  The   *)
(* report is read without an await, then the model is asked to word it.    *)
(* Scores are wording: a report reads them decayed to its own time.        *)
(***************************************************************************)
EXTENDS Trust, Sequences, FiniteSets, FiniteSetsExt

CONSTANTS
  MaxCitations,   \* max_citations of a report
  MaxReports,     \* bound: reports
  MaxFeedback     \* bound: sanctions carried out

ASSUME ReputationAssumption ==
  MaxCitations \in Nat \ {0} /\ MaxReports \in Nat /\ MaxFeedback \in Nat

VARIABLES
  history,    \* trust_events in order of storage: agent, sign and timestamp
  report,     \* the report the model is wording, NULL if none
  answers,    \* what was answered
  feedback,   \* MockERC8004ReputationRegistry: scores given, in order
  scolds      \* the scoldings: agent, state and the trust event cited

rvars == <<history, report, answers, feedback, scolds>>

----------------------------------------------------------------------------
(* The report.                                                             *)

EventsOf(a) == {i \in DOMAIN history : history[i].agent = a}
Negative(S) == {i \in S : ~history[i].positive}

\* The newest n of some events by timestamp, ties at random.
Newest(S, n) ==
  {some \in kSubset(IF n < Cardinality(S) THEN n ELSE Cardinality(S), S) :
     \A i \in some, j \in S \ some : history[j].ts <= history[i].ts}

Report(a, cited) ==
  [agent |-> a, state |-> registry[a].state, violations |-> registry[a].violations,
   cited |-> cited, asOf |-> Len(history)]

\* Mutant: the answer states the registry of the moment it is given.
AnswerReread(rep, markers, byModel) ==
  [agent |-> rep.agent, state |-> registry[rep.agent].state,
   violations |-> registry[rep.agent].violations,
   markers |-> markers, byModel |-> byModel, asOf |-> rep.asOf]

\* The answer: what the report says, and the markers its text carries.
Answer(rep, markers, byModel) ==
  [agent |-> rep.agent, state |-> rep.state, violations |-> rep.violations,
   markers |-> markers, byModel |-> byModel, asOf |-> rep.asOf]

\* The template carries every marker the report allows.
Template(rep) == Answer(rep, rep.cited, FALSE)

\* Markers the model may write: those of any event of the agent, and invented
\* ones, of which 0 stands for all.
Markers == 0 .. MaxEvidence

\* Mutant: a marker is valid if any event of the village has it.
MarkersKnown(markers, rep) == markers # {} /\ markers \subseteq 1..Len(history)

MarkersValid(markers, rep) == markers # {} /\ markers \subseteq rep.cited

----------------------------------------------------------------------------
(* Sanctions.                                                              *)

Sanctioned == {"warned", "penalized", "excluded"}

FeedbackScore(state) ==
  CASE state = "member" -> 80 [] state = "provisional" -> 50 [] state = "warned" -> 40
    [] state = "penalized" -> 20 [] state = "excluded" -> 0

\* Mutant: the newest event is blamed even if it was positive.
CauseOfAnySign(a) == Newest(EventsOf(a), 1)

\* The newest negative event, if there is one.
Cause(a) == Newest(Negative(EventsOf(a)), 1)

----------------------------------------------------------------------------

RInit ==
  /\ Init
  /\ history = <<>> /\ report = NULL /\ answers = {} /\ feedback = <<>> /\ scolds = {}

\* A step of the ledger; when it records an event, the event gets its place.
Recorded(row, criterion) ==
  history' = Append(history, [agent |-> row.agent, positive |-> row.positive,
                              ts |-> ledger'[row.agent][criterion].at])

Village ==
  /\ Next
  /\ IF log' = log THEN UNCHANGED history
     ELSE \E row \in DOMAIN log' : Copies(row, log') > Copies(row, log)
                                     /\ Recorded(row, row.criterion)
  /\ UNCHANGED <<report, answers, feedback, scolds>>

\* Reading the report; without citations the model is not asked.
AskReputation(a) ==
  /\ report = NULL /\ Cardinality(answers) < MaxReports
  /\ \E cited \in Newest(EventsOf(a), MaxCitations) :
       IF cited = {} THEN /\ answers' = answers \cup {Template(Report(a, cited))}
                          /\ UNCHANGED report
       ELSE report' = Report(a, cited) /\ UNCHANGED answers
  /\ UNCHANGED <<vars, history, feedback, scolds>>

\* The model answers: its text passes only with markers the report allows.
Word(markers) ==
  /\ report # NULL
  /\ answers' = answers \cup
       {IF MarkersValid(markers, report) THEN Answer(report, markers, TRUE)
        ELSE Template(report)}
  /\ report' = NULL
  /\ UNCHANGED <<vars, history, feedback, scolds>>

\* The provider raises, or writes nothing.
WordFails ==
  /\ report # NULL
  /\ answers' = answers \cup {Template(report)}
  /\ report' = NULL
  /\ UNCHANGED <<vars, history, feedback, scolds>>

\* apply_sanction_effects: price and scolding follow from the state, and the
\* score is mirrored to the registry.
Sanction(a) ==
  LET state == registry[a].state
  IN  /\ Len(feedback) < MaxFeedback
      /\ feedback' = Append(feedback, [agent |-> a, score |-> FeedbackScore(state)])
      /\ IF state \notin Sanctioned THEN UNCHANGED scolds
         ELSE \E cause \in Cause(a) :
                scolds' = scolds \cup {[agent |-> a, cause |-> cause]}
      /\ UNCHANGED <<vars, history, report, answers>>

RNext ==
  \/ Village
  \/ \E a \in Agents : AskReputation(a) \/ Sanction(a)
  \/ \E markers \in SUBSET Markers : Word(markers)
  \/ WordFails

RSpec == RInit /\ [][RNext]_<<vars, rvars>>

----------------------------------------------------------------------------
(* Properties.                                                             *)

\* report.py:4-5, executor.py:406-427: an answer is a report of one instant,
\* although the ledger moves while the model is asked and whatever it writes:
\* verdict and violations are of that instant, and the answer carries markers
\* of the agent's events recorded by then, some whenever there are any.
OneSnapshot ==
  \A x \in answers :
    LET known == {i \in EventsOf(x.agent) : i <= x.asOf}
    IN  /\ x.violations = Cardinality(Negative(known))
        /\ x.state = "excluded" <=> x.violations >= ExcludeViolations
        /\ x.markers \subseteq known
        /\ known # {} => x.markers # {}

\* sanctions.py:69,97-105: a scolding always cites a negative trust event of
\* the agent, although the state it reads was decided from scores.
ScoldsCite ==
  \A x \in scolds : x.cause # {} /\ x.cause \subseteq Negative(EventsOf(x.agent))
=============================================================================
