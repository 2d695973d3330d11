--------------------------- MODULE DbSessionProofs ---------------------------
(***************************************************************************)
(* Proofs about DbSession and the Migrations it rests on, for any requests *)
(* and rows, any releases, and any number of crashes and failures.         *)
(*                                                                         *)
(* UnitInv says what is in a unit's transaction; PromiseInv where the      *)
(* writes of the request that is handled are; LogInv where the rows of the *)
(* credits log are while its table is rebuilt; VersionInv which file is    *)
(* applied; SchemaInv which schema that leaves.                            *)
(***************************************************************************)
EXTENDS DbSession, FiniteSetTheorems, WellFoundedInduction, TLAPS

----------------------------------------------------------------------------
(* What is committed.                                                      *)

\* A unit that is in a transaction has staged its writes so far, and nothing else
\* is staged with them: what an earlier handler left would have made BEGIN raise.
UnitInv ==
  /\ conn \in {"idle", "open", "aborted"}
  /\ conn # "open" => staged = {}
  /\ at \in 0..3
  /\ at # 0 =>
       /\ Due(Transactions) /\ conn = "open"
       /\ at <= Size(Head(turn)) + 1
       /\ staged = {Write(part) : part \in 1..at - 1}

LEMMA Sizes == \A kind : Size(kind) \in 0..2
BY DEF Size

\* Outside its transaction a unit has nothing to keep but that.
LEMMA UnitEnds ==
  ASSUME at' = 0, conn' \in {"idle", "open", "aborted"}, conn' # "open" => staged' = {}
  PROVE  UnitInv'
BY DEF UnitInv

\* Every step keeps it.
LEMMA UnitInductive ==
  ASSUME UnitInv, [SNext]_<<database, session>>
  PROVE  UnitInv'
<1>1. CASE UNCHANGED session
  BY <1>1 DEF session, UnitInv, Due, Write
<1>2. ASSUME NEW request \in Requests, Take(request) PROVE UnitInv'
  <2>1. at = 0 BY <1>2 DEF Take, UnitInv, Due
  <2> QED BY <1>2, <2>1, UnitEnds DEF Take, UnitInv
<1>3. CASE Read \/ Refuse
  BY <1>3, UnitEnds DEF Read, Refuse, GoOn, Answer, UnitInv
<1>4. CASE Statement
  <2>1. at' = 0 /\ conn' = conn /\ (conn = "idle" => staged' = staged)
        /\ conn # "aborted"
    BY <1>4 DEF Statement, GoOn
  <2>2. conn \in {"idle", "open", "aborted"} BY DEF UnitInv
  <2> QED BY <2>1, <2>2, UnitEnds DEF UnitInv
<1>5. CASE Close \/ RefuseInside \/ Reject \/ Stop
  BY <1>5, UnitEnds DEF Close, RefuseInside, Reject, Stop, GoOn, Answer
<1>6. CASE UnitRaises
  BY <1>6, UnitEnds DEF UnitRaises, RaiseOn, GoOn, UnitInv
<1>7. CASE Open
  <2>1. /\ at' = 1 /\ turn' = turn /\ conn' = "open" /\ staged' = {}
        /\ Due(Transactions)
    BY <1>7 DEF Open, UnitInv
  <2>2. 1..1 - 1 = {} OBVIOUS
  <2>3. staged' = {Write(part)' : part \in 1..at' - 1} BY <2>1, <2>2
  <2>4. Size(Head(turn)) \in 0..2 BY Sizes
  <2>5. 1 \in 0..3 /\ 1 <= Size(Head(turn)) + 1 BY <2>4
  <2> QED BY <2>1, <2>3, <2>5 DEF UnitInv, Due
<1>8. CASE Insert
  <2>1. /\ Due(Transactions) /\ at \in 1..Size(Head(turn)) /\ at' = at + 1
        /\ staged' = staged \cup {Write(at)}
        /\ conn' = conn /\ turn' = turn /\ now' = now
    BY <1>8 DEF Insert
  <2>2. Size(Head(turn)) \in 0..2 BY Sizes
  <2>3. at' \in 0..3 /\ at' <= Size(Head(turn)) + 1 /\ at # 0 /\ at' - 1 = at
    BY <2>1, <2>2
  <2>4. 1..at = (1..at - 1) \cup {at} BY <2>1, <2>2
  <2>5. staged' = {Write(part) : part \in 1..at}
    BY <2>1, <2>3, <2>4 DEF UnitInv
  <2>6. \A part : Write(part)' = Write(part) BY <2>1 DEF Write
  <2>7. staged' = {Write(part)' : part \in 1..at' - 1} BY <2>3, <2>5, <2>6
  <2>8. conn' = "open" BY <2>1, <2>3 DEF UnitInv
  <2> QED BY <2>1, <2>3, <2>7, <2>8 DEF UnitInv, Due
<1> QED
  BY <1>1, <1>2, <1>3, <1>4, <1>5, <1>6, <1>7, <1>8
  DEF SNext, Handle, Prepare, ServeEarlier

\* A step commits the writes of the unit that is running, or nothing.
LEMMA CommitsWhole ==
  ASSUME UnitInv, [SNext]_<<database, session>>
  PROVE  \/ durable' = durable
         \/ turn # <<>> /\ durable' = durable \cup Unit
<1>1. CASE UNCHANGED session BY <1>1 DEF session
<1>2. CASE \E request \in Requests : Take(request) BY <1>2 DEF Take
<1>3. CASE Read \/ Refuse \/ Statement \/ Open \/ Insert
  BY <1>3 DEF Read, Refuse, Statement, Open, Insert, Due
<1>4. CASE Close
  <2>1. /\ Due(Transactions) /\ at > Size(Head(turn)) /\ durable' = durable \cup staged
    BY <1>4 DEF Close
  <2>2. Size(Head(turn)) \in 0..2 BY Sizes
  <2>3. at \in 0..3 BY DEF UnitInv
  <2>4. at # 0 BY <2>1, <2>2, <2>3
  <2>5. at - 1 = Size(Head(turn)) BY <2>1, <2>2, <2>3, <2>4 DEF UnitInv
  <2>6. staged = Unit BY <2>4, <2>5 DEF UnitInv, Unit
  <2> QED BY <2>1, <2>6 DEF Due
<1>5. CASE RefuseInside \/ Reject \/ UnitRaises
  BY <1>5 DEF RefuseInside, Reject, UnitRaises
<1>6. CASE Prepare \/ ServeEarlier BY <1>1, <1>6 DEF Prepare, ServeEarlier
<1>7. CASE Stop BY <1>7 DEF Stop
<1> QED BY <1>1, <1>2, <1>3, <1>4, <1>5, <1>6, <1>7 DEF SNext, Handle

\* publish.py:250-329, executor.py:468-516, service.py:126-201: whatever an earlier
\* handler left on the connection, a commit holds exactly the running unit's writes.
THEOREM UnitsAreWhole == SSpec => WholeUnits
<1>1. SInit => UnitInv BY DEF SInit, UnitInv
<1>2. UnitInv /\ [SNext]_<<database, session>> => UnitInv' BY UnitInductive
<1>3. UnitInv /\ [SNext]_<<database, session>>
      => [durable' = durable \/ (turn # <<>> /\ durable' = durable \cup Unit)]_session
  BY CommitsWhole
<1> QED BY <1>1, <1>2, <1>3, PTL DEF SSpec, WholeUnits

----------------------------------------------------------------------------
(* What is promised.                                                       *)

\* The series of units that may be left of a handler: those in which it has not
\* tried a transaction yet, and writes outside one;
Early ==
  {<<"gate", "bind", "gate", "publish", "effort">>,
   <<"bind", "gate", "publish", "effort">>,
   <<"read", "claim">>, <<"claim">>,
   <<"read", "revoke", "guarded">>, <<"revoke", "guarded">>}

\* those in which its first transaction is yet to come and may end it;
Waiting == {<<"gate", "publish", "effort">>, <<"publish", "effort">>, <<"guarded">>}

\* and the others.
Turns ==
  Early \cup Waiting \cup
  {<<>>, <<"effort">>, <<"effort", "read">>, <<"read">>,
   <<"invoice", "settle", "effort">>, <<"settle", "effort">>, <<"invalidate">>,
   <<"read", "guarded">>,
   <<"read", "guarded", "mark">>, <<"guarded", "mark">>, <<"mark">>}

\* Units and what is left after them.
LEMMA TurnParts ==
  ASSUME NEW t \in Turns, t # <<>>
  PROVE  /\ Tail(t) \in Turns
         /\ Head(t) \in {"read", "gate"} =>
              /\ Tail(t) # <<"mark">>
              /\ Tail(t) \in Early => t \in Early
              /\ t \in Waiting => Tail(t) \in Waiting
         /\ Head(t) \in Statements =>
              /\ t \notin Waiting /\ Tail(t) \notin Early /\ Tail(t) # <<"mark">>
              /\ t # <<"mark">> => t \in Early /\ Tail(t) \in Waiting \cup {<<>>}
         /\ Head(t) \in Transactions =>
              Tail(t) \notin Early /\ t \notin Early
         /\ Head(t) = "effort" => t \notin Waiting /\ Tail(t) # <<"mark">>
<1> USE DEF Turns, Early, Waiting, Statements, Transactions
<1>1. CASE t = <<"effort">> BY <1>1
<1>2. CASE t = <<"read">> BY <1>2
<1>3. CASE t = <<"invalidate">> BY <1>3
<1>4. CASE t = <<"mark">> BY <1>4
<1>5. CASE t = <<"claim">> BY <1>5
<1>6. CASE t = <<"guarded">> BY <1>6
<1>7. CASE t = <<"effort", "read">> BY <1>7
<1>8. CASE t = <<"settle", "effort">> BY <1>8
<1>9. CASE t = <<"read", "guarded">> BY <1>9
<1>10. CASE t = <<"guarded", "mark">> BY <1>10
<1>11. CASE t = <<"read", "claim">> BY <1>11
<1>12. CASE t = <<"revoke", "guarded">> BY <1>12
<1>13. CASE t = <<"publish", "effort">> BY <1>13
<1>14. CASE t = <<"invoice", "settle", "effort">> BY <1>14
<1>15. CASE t = <<"read", "guarded", "mark">> BY <1>15
<1>16. CASE t = <<"read", "revoke", "guarded">> BY <1>16
<1>17. CASE t = <<"gate", "publish", "effort">> BY <1>17
<1>18. CASE t = <<"bind", "gate", "publish", "effort">> BY <1>18
<1>19. CASE t = <<"gate", "bind", "gate", "publish", "effort">> BY <1>19
<1> QED
  BY <1>1, <1>2, <1>3, <1>4, <1>5, <1>6, <1>7, <1>8, <1>9, <1>10,
     <1>11, <1>12, <1>13, <1>14, <1>15, <1>16, <1>17, <1>18, <1>19

\* What a handler has written is committed, or it was written into a transaction
\* that was left on the connection, while none of its own went through: then the
\* BEGIN of the next raises, or it is refused before.
PromiseInv ==
  /\ turn \in Turns
  /\ PromisesKept
  /\ \A w \in answered \cup durable : w[1] \in served
  /\ turn # <<>> =>
       /\ now \in served
       /\ \A w \in answered : w[1] # now
       /\ \A w \in done : w[1] = now
       /\ \/ done \subseteq durable
          \/ turn \in Waiting /\ at = 0 /\ conn # "idle" /\ ~Committed(now)
       /\ turn \in Early => ~Committed(now)
       /\ turn = <<"mark">> => conn = "idle"

\* A step that commits nothing keeps what is promised of others, and of the request
\* itself if what it wrote is committed or no transaction of it.
LEMMA AnswerKeeps ==
  ASSUME PromiseInv, turn # <<>>, NEW written,
         turn' = <<>>, now' = now, served' = served,
         answered' = answered \cup written,
         durable \subseteq durable',
         \A w \in durable' : w \in durable \/ w[1] = now,
         \A w \in written : w[1] = now,
         written \subseteq durable' \/ ~Committed(now)'
  PROVE  PromiseInv'
<1>1. <<>> \in Turns BY DEF Turns
<1>2. ASSUME NEW w \in answered', Committed(w[1])' PROVE w \in durable'
  <2>1. CASE w \in answered
    <3>1. w[1] # now BY <2>1 DEF PromiseInv
    <3>2. Committed(w[1]) BY <1>2, <3>1 DEF Committed
    <3> QED BY <2>1, <3>2 DEF PromiseInv, PromisesKept
  <2>2. CASE w \in written
    <3>1. w[1] = now BY <2>2
    <3> QED BY <1>2, <2>2, <3>1 DEF Committed
  <2> QED BY <2>1, <2>2
<1>3. \A w \in answered' \cup durable' : w[1] \in served' BY DEF PromiseInv
<1> QED BY <1>1, <1>2, <1>3 DEF PromiseInv, PromisesKept

\* So does one after which the handler goes on.
LEMMA TurnKeeps ==
  ASSUME PromiseInv, turn # <<>>, turn' \in Turns, turn' # <<>>,
         now' = now, served' = served, answered' = answered,
         durable \subseteq durable',
         \A w \in durable' : w \in durable \/ w[1] = now,
         \A w \in done' : w[1] = now,
         \/ done' \subseteq durable'
         \/ turn' \in Waiting /\ at' = 0 /\ conn' # "idle" /\ ~Committed(now)',
         turn' \in Early => ~Committed(now)',
         turn' = <<"mark">> => conn' = "idle"
  PROVE  PromiseInv'
<1>1. ASSUME NEW w \in answered', Committed(w[1])' PROVE w \in durable'
  <2>1. w[1] # now BY DEF PromiseInv
  <2>2. Committed(w[1]) BY <1>1, <2>1 DEF Committed
  <2> QED BY <2>2 DEF PromiseInv, PromisesKept
<1> QED BY <1>1 DEF PromiseInv, PromisesKept

\* A unit that ends well keeps it when its writes are committed, or doomed.
LEMMA GoOnKeeps ==
  ASSUME PromiseInv, turn # <<>>, NEW written, GoOn(written),
         \A w \in written : w[1] = now,
         durable \subseteq durable',
         \A w \in durable' : w \in durable \/ w[1] = now,
         \/ done \cup written \subseteq durable'
         \/ Tail(turn) \in Waiting \cup {<<>>} /\ conn' # "idle" /\ ~Committed(now)',
         Tail(turn) \in Early => ~Committed(now)',
         Tail(turn) = <<"mark">> => conn' = "idle"
  PROVE  PromiseInv'
<1>1. /\ turn' = Tail(turn) /\ at' = 0 /\ done' = done \cup written
      /\ now' = now /\ served' = served
  BY DEF GoOn
<1>2. Tail(turn) \in Turns BY TurnParts DEF PromiseInv
<1>3. \A w \in done \cup written : w[1] = now BY DEF PromiseInv
<1>4. CASE Tail(turn) = <<>>
  <2>1. answered' = answered \cup (done \cup written) BY <1>1, <1>4 DEF GoOn
  <2> QED BY <1>1, <1>3, <1>4, <2>1, AnswerKeeps
<1>5. CASE Tail(turn) # <<>>
  <2>1. answered' = answered BY <1>5 DEF GoOn
  <2> QED BY <1>1, <1>2, <1>3, <1>5, <2>1, TurnKeeps
<1> QED BY <1>4, <1>5

\* The end of a handler without an answer keeps it.
LEMMA EndKeeps ==
  ASSUME PromiseInv, turn' = <<>>, served' = served, answered' = answered,
         durable' = durable
  PROVE  PromiseInv'
<1>1. <<>> \in Turns BY DEF Turns
<1> QED BY <1>1 DEF PromiseInv, PromisesKept, Committed

\* Every step keeps what was promised.
LEMMA PromiseInductive ==
  ASSUME UnitInv, PromiseInv, [SNext]_<<database, session>>
  PROVE  PromiseInv'
<1>1. CASE UNCHANGED session
  BY <1>1 DEF session, PromiseInv, PromisesKept, Committed
<1>2. ASSUME NEW request \in Requests, Take(request) PROVE PromiseInv'
  <2>1. /\ turn' \in Handlers /\ done' = {} /\ durable' = durable
        /\ answered' = answered /\ now' = request /\ request \notin served
        /\ served' = served \cup {request}
    BY <1>2 DEF Take
  <2>2. Handlers \subseteq Turns /\ <<"mark">> \notin Handlers /\ <<>> \notin Handlers
    BY DEF Handlers, Turns, Early, Waiting, Publish, SignedPublish, Charge, Royalties,
           Reflect, Audit, Claim, Contradict, Adjudicate, View
  <2>3. \A w \in answered \cup durable : w[1] \in served /\ w[1] # request
    BY <2>1 DEF PromiseInv
  <2>4. ~Committed(now)' BY <2>1, <2>3 DEF Committed
  <2>5. PromisesKept' BY <2>1 DEF PromiseInv, PromisesKept, Committed
  <2> QED BY <2>1, <2>2, <2>3, <2>4, <2>5 DEF PromiseInv
<1>3. CASE Read
  <2>1. turn # <<>> /\ Head(turn) \in {"read", "gate"} /\ GoOn({})
        /\ durable' = durable /\ conn' = conn /\ now' = now
    BY <1>3 DEF Read, Due, GoOn
  <2>2. /\ Tail(turn) # <<"mark">>
        /\ Tail(turn) \in Early => turn \in Early
        /\ turn \in Waiting => Tail(turn) \in Waiting
    BY <2>1, TurnParts DEF PromiseInv
  <2>3. Committed(now)' = Committed(now) BY <2>1 DEF Committed
  <2> QED BY <2>1, <2>2, <2>3, GoOnKeeps DEF PromiseInv
<1>4. CASE Refuse \/ RefuseInside
  <2>1. turn # <<>> /\ Answer /\ durable' = durable
    BY <1>4 DEF Refuse, RefuseInside, Due
  <2>2. Committed(now)' = Committed(now) BY <2>1 DEF Answer, Committed
  <2>3. done \subseteq durable \/ ~Committed(now) BY <2>1 DEF PromiseInv
  <2>4. \A w \in done : w[1] = now BY <2>1 DEF PromiseInv
  <2> QED BY <2>1, <2>2, <2>3, <2>4, AnswerKeeps DEF Answer
<1>5. CASE Statement
  <2>1. /\ turn # <<>> /\ Head(turn) \in Statements /\ GoOn(Unit)
        /\ conn' = conn /\ now' = now
    BY <1>5 DEF Statement, Due, GoOn
  <2>2. /\ turn \notin Waiting /\ Tail(turn) \notin Early /\ Tail(turn) # <<"mark">>
        /\ turn # <<"mark">> => turn \in Early /\ Tail(turn) \in Waiting \cup {<<>>}
    BY <2>1, TurnParts DEF PromiseInv
  <2>3. done \subseteq durable BY <2>1, <2>2 DEF PromiseInv
  <2>4. \A w \in Unit : w[1] = now BY DEF Unit, Write
  <2>5. CASE durable' = durable \cup Unit
    BY <2>1, <2>2, <2>3, <2>4, <2>5, GoOnKeeps
  <2>6. CASE durable' = durable /\ conn # "idle"
    <3>1. turn # <<"mark">> BY <2>1, <2>6 DEF PromiseInv
    <3>2. ~Committed(now)' BY <2>1, <2>2, <2>6, <3>1 DEF PromiseInv, Committed
    <3> QED BY <2>1, <2>2, <2>4, <2>6, <3>1, <3>2, GoOnKeeps
  <2> QED BY <1>5, <2>5, <2>6 DEF Statement
<1>6. CASE Open \/ Insert
  <2>1. /\ turn # <<>> /\ turn' = turn /\ now' = now /\ done' = done
        /\ served' = served /\ answered' = answered /\ durable' = durable
        /\ Head(turn) \in Transactions /\ (conn = "idle" \/ at # 0)
    BY <1>6 DEF Open, Insert, Due
  <2>2. turn \notin Early /\ turn # <<"mark">>
    BY <2>1, TurnParts DEF PromiseInv, Transactions
  <2>3. done \subseteq durable BY <2>1 DEF PromiseInv
  <2> QED BY <2>1, <2>2, <2>3, TurnKeeps DEF PromiseInv
<1>7. CASE Close
  <2>1. /\ turn # <<>> /\ Head(turn) \in Transactions /\ GoOn(Unit) /\ conn' = "idle"
        /\ at > Size(Head(turn)) /\ durable' = durable \cup staged
    BY <1>7 DEF Close, Due
  <2>2. at # 0 /\ staged = Unit
    <3>1. Size(Head(turn)) \in 0..2 BY Sizes
    <3>2. at \in 0..3 BY DEF UnitInv
    <3>3. at # 0 BY <2>1, <3>1, <3>2
    <3>4. at - 1 = Size(Head(turn)) BY <2>1, <3>1, <3>2, <3>3 DEF UnitInv
    <3> QED BY <3>3, <3>4 DEF UnitInv, Unit
  <2>3. \A w \in Unit : w[1] = now BY DEF Unit, Write
  <2>4. done \subseteq durable BY <2>1, <2>2 DEF PromiseInv
  <2>5. Tail(turn) \notin Early BY <2>1, TurnParts DEF PromiseInv
  <2> QED BY <2>1, <2>2, <2>3, <2>4, <2>5, GoOnKeeps
<1>8. CASE Reject
  <2>1. /\ turn # <<>> /\ turn' = <<"invalidate">> /\ at # 0 /\ now' = now
        /\ done' = done /\ served' = served /\ answered' = answered
        /\ durable' = durable
    BY <1>8 DEF Reject, Due
  <2>2. done \subseteq durable BY <2>1 DEF PromiseInv
  <2>3. <<"invalidate">> \in Turns /\ <<"invalidate">> # <<"mark">>
        /\ <<"invalidate">> # <<>> /\ <<"invalidate">> \notin Early
    BY DEF Turns, Early
  <2> QED BY <2>1, <2>2, <2>3, TurnKeeps DEF PromiseInv
<1>9. CASE UnitRaises
  <2>1. turn # <<>> /\ RaiseOn /\ durable' = durable BY <1>9 DEF UnitRaises
  <2>2. CASE Head(turn) = "effort"
    <3>1. GoOn({}) /\ now' = now BY <2>1, <2>2 DEF RaiseOn, GoOn
    <3>2. turn \notin Waiting /\ Tail(turn) # <<"mark">> /\ Tail(turn) \notin Early
      BY <2>1, <2>2, TurnParts DEF PromiseInv, Transactions
    <3>3. done \cup {} \subseteq durable' BY <2>1, <3>2 DEF PromiseInv
    <3> QED BY <2>1, <3>1, <3>2, <3>3, GoOnKeeps
  <2>3. CASE Head(turn) # "effort" BY <2>1, <2>3, EndKeeps DEF RaiseOn
  <2> QED BY <2>2, <2>3
<1>10. CASE Stop BY <1>10, EndKeeps DEF Stop
<1>11. CASE Prepare \/ ServeEarlier BY <1>1, <1>11 DEF Prepare, ServeEarlier
<1> QED
  BY <1>1, <1>2, <1>3, <1>4, <1>5, <1>6, <1>7, <1>8, <1>9, <1>10, <1>11
  DEF SNext, Handle

\* publish.py:217-225, corroboration.py:78-98, canary.py:144-163: what a request
\* wrote that got a transaction through and was answered is committed: statements
\* that joined somebody else's transaction are followed by a BEGIN that raises.
THEOREM PromisesAreKept == SSpec => []PromisesKept
<1>1. SInit => UnitInv /\ PromiseInv
  <2> SUFFICES ASSUME SInit PROVE UnitInv /\ PromiseInv
    OBVIOUS
  <2>1. turn = <<>> /\ answered = {} /\ durable = {} BY DEF SInit
  <2>2. <<>> \in Turns BY DEF Turns
  <2> QED BY <2>1, <2>2 DEF SInit, UnitInv, PromiseInv, PromisesKept
<1>2. UnitInv /\ PromiseInv /\ [SNext]_<<database, session>> => UnitInv' /\ PromiseInv'
  BY UnitInductive, PromiseInductive
<1>3. PromiseInv => PromisesKept BY DEF PromiseInv
<1> QED BY <1>1, <1>2, <1>3, PTL DEF SSpec

----------------------------------------------------------------------------
(* The log of credits through the migrations that rebuild its table.       *)

DbFields == {"tables", "parts", "versions", "log", "copied"}

Additive == {"ensure", "make", "index", "column"}

\* After a statement of kind prev, these discard the table of the rows only once
\* they are copied, and then give the copy its name at once.
Orderly(prev, statements) ==
  /\ \A i \in 1 .. Len(statements) :
       LET before == IF i = 1 THEN prev ELSE statements[i - 1].op
           op     == statements[i].op
       IN  /\ op \in Additive \cup {"copy", "discard", "rename"}
           /\ op = "discard" <=> before = "copy"
           /\ op = "rename" <=> before = "discard"
  /\ IF statements = <<>> THEN prev \notin {"copy", "discard"}
     ELSE statements[Len(statements)].op \notin {"copy", "discard"}

\* What is left of a file brings the rows back, with the rows in the log, in the
\* copy or in both, by the statement that was executed last.
Keeps(kept, db, prev) ==
  /\ DOMAIN db = DbFields
  /\ prev # "discard" => db.log = kept
  /\ prev \in {"copy", "discard"} => db.copied = kept

\* While a file is applied nothing else writes to the database.
LogInv ==
  /\ DOMAIN disk = DbFields
  /\ \E S : todo \in Seq(S)
  /\ working # NULL =>
       /\ pc = "migrating"
       /\ \E prev : Orderly(prev, todo) /\ Keeps(disk.log, working, prev)
  /\ release \in 1..9

\* The kinds of the statements.
LEMMA Kinds ==
  /\ \A t : Ensure(t).op \in Additive /\ Make(t).op \in Additive
  /\ \A t, u : Index(t, u).op \in Additive /\ Column(t, u).op \in Additive
  /\ \A t, u : Copy(t, u).op = "copy" /\ Rename(t, u).op = "rename"
  /\ \A t : Discard(t).op = "discard"
BY DEF Additive, Ensure, Make, Index, Column, Copy, Rename, Discard

\* A file that only adds tables, indexes and columns is orderly.
LEMMA AdditiveOrderly ==
  ASSUME NEW S, NEW s \in Seq(S), s # <<>>, \A i \in 1 .. Len(s) : s[i].op \in Additive
  PROVE  Orderly("ensure", s)
<1>1. Len(s) \in Nat /\ Len(s) \in 1 .. Len(s) OBVIOUS
<1>2. \A i \in 1 .. Len(s) : i # 1 => i - 1 \in 1 .. Len(s) BY <1>1
<1>3. \A i \in 1 .. Len(s) : s[i].op \notin {"copy", "discard", "rename"} BY DEF Additive
<1> QED BY <1>1, <1>2, <1>3 DEF Orderly, Additive

\* All files of the repository are.
LEMMA FilesOrderly ==
  ASSUME NEW v \in 1..9
  PROVE  (\E S : Files[v] \in Seq(S)) /\ Orderly("ensure", Files[v])
<1>1. (\E S : InitialSchema \in Seq(S)) /\ Orderly("ensure", InitialSchema)
  <2> DEFINE S == {InitialSchema[i] : i \in 1..11}
  <2>1. InitialSchema \in Seq(S) BY DEF InitialSchema
  <2>2. Len(InitialSchema) = 11 /\ InitialSchema # <<>> BY DEF InitialSchema
  <2>3. \A i \in 1..11 : InitialSchema[i].op \in Additive BY Kinds DEF InitialSchema
  <2> HIDE DEF S
  <2> QED BY <2>1, <2>2, <2>3, AdditiveOrderly
<1>2. (\E S : Payments \in Seq(S)) /\ Orderly("ensure", Payments)
  <2> DEFINE S == {Payments[i] : i \in 1..9}
  <2>1. Payments \in Seq(S) BY DEF Payments
  <2>2. Len(Payments) = 9 /\ Payments # <<>> BY DEF Payments
  <2>3. \A i \in 1..9 : Payments[i].op \in Additive BY Kinds DEF Payments
  <2> HIDE DEF S
  <2> QED BY <2>1, <2>2, <2>3, AdditiveOrderly
<1>3. (\E S : TrustIdentity \in Seq(S)) /\ Orderly("ensure", TrustIdentity)
  <2> DEFINE S == {TrustIdentity[i] : i \in 1..2}
  <2>1. TrustIdentity \in Seq(S) BY DEF TrustIdentity
  <2>2. Len(TrustIdentity) = 2 /\ TrustIdentity # <<>> BY DEF TrustIdentity
  <2>3. \A i \in 1..2 : TrustIdentity[i].op \in Additive BY Kinds DEF TrustIdentity
  <2> HIDE DEF S
  <2> QED BY <2>1, <2>2, <2>3, AdditiveOrderly
<1>4. (\E S : TrustLedger \in Seq(S)) /\ Orderly("ensure", TrustLedger)
  <2> DEFINE S == {TrustLedger[i] : i \in 1..4}
  <2>1. TrustLedger \in Seq(S) BY DEF TrustLedger
  <2>2. Len(TrustLedger) = 4 /\ TrustLedger # <<>> BY DEF TrustLedger
  <2>3. \A i \in 1..4 : TrustLedger[i].op \in Additive BY Kinds DEF TrustLedger
  <2> HIDE DEF S
  <2> QED BY <2>1, <2>2, <2>3, AdditiveOrderly
<1>5. (\E S : RoyaltyEscrow \in Seq(S)) /\ Orderly("ensure", RoyaltyEscrow)
  <2> DEFINE S == {RoyaltyEscrow[i] : i \in 1..2}
  <2>1. RoyaltyEscrow \in Seq(S) BY DEF RoyaltyEscrow
  <2>2. Len(RoyaltyEscrow) = 2 /\ RoyaltyEscrow # <<>> BY DEF RoyaltyEscrow
  <2>3. \A i \in 1..2 : RoyaltyEscrow[i].op \in Additive BY Kinds DEF RoyaltyEscrow
  <2> HIDE DEF S
  <2> QED BY <2>1, <2>2, <2>3, AdditiveOrderly
<1>6. (\E S : CanaryPool \in Seq(S)) /\ Orderly("ensure", CanaryPool)
  <2> DEFINE S == {CanaryPool[i] : i \in 1..2}
  <2>1. CanaryPool \in Seq(S) BY DEF CanaryPool
  <2>2. Len(CanaryPool) = 2 /\ CanaryPool # <<>> BY DEF CanaryPool
  <2>3. \A i \in 1..2 : CanaryPool[i].op \in Additive BY Kinds DEF CanaryPool
  <2> HIDE DEF S
  <2> QED BY <2>1, <2>2, <2>3, AdditiveOrderly
<1>7. (\E S : CreditsIndexes \in Seq(S)) /\ Orderly("ensure", CreditsIndexes)
  <2> DEFINE S == {CreditsIndexes[i] : i \in 1..2}
  <2>1. CreditsIndexes \in Seq(S) BY DEF CreditsIndexes
  <2>2. Len(CreditsIndexes) = 2 /\ CreditsIndexes # <<>> BY DEF CreditsIndexes
  <2>3. \A i \in 1..2 : CreditsIndexes[i].op \in Additive BY Kinds DEF CreditsIndexes
  <2> HIDE DEF S
  <2> QED BY <2>1, <2>2, <2>3, AdditiveOrderly
<1>8. (\E S : CreditsReasons \in Seq(S)) /\ Orderly("ensure", CreditsReasons)
  <2> DEFINE X == CreditsReasons
             S == {Make(V2), Copy(Tx, V2), Discard(Tx), Rename(V2, Tx), Index("tx_ts", Tx)}
  <2>1. /\ X \in Seq(S) /\ Len(X) = 5 /\ X[1] = Make(V2) /\ X[2] = Copy(Tx, V2)
        /\ X[3] = Discard(Tx) /\ X[4] = Rename(V2, Tx) /\ X[5] = Index("tx_ts", Tx)
    BY DEF CreditsReasons, Rebuild
  <2> HIDE DEF X, S
  <2>2. Orderly("ensure", X) BY <2>1, Kinds DEF Orderly, Additive
  <2> QED BY <2>1, <2>2 DEF X
<1>9. (\E S : RefundPool \in Seq(S)) /\ Orderly("ensure", RefundPool)
  <2> DEFINE X == RefundPool
             S == {Ensure("refund_claims"), Index("claims_status", "refund_claims"),
                   Make(V3), Copy(Tx, V3), Discard(Tx), Rename(V3, Tx), Index("tx_ts", Tx)}
  <2>1. /\ X \in Seq(S) /\ Len(X) = 7
        /\ X[1] = Ensure("refund_claims") /\ X[2] = Index("claims_status", "refund_claims")
        /\ X[3] = Make(V3) /\ X[4] = Copy(Tx, V3) /\ X[5] = Discard(Tx)
        /\ X[6] = Rename(V3, Tx) /\ X[7] = Index("tx_ts", Tx)
    BY DEF RefundPool, Rebuild
  <2> HIDE DEF X, S
  <2>2. Orderly("ensure", X) BY <2>1, Kinds DEF Orderly, Additive
  <2> QED BY <2>1, <2>2 DEF X
<1>10. v \in {1, 2, 3, 4, 5, 6, 7, 8, 9} OBVIOUS
<1> QED BY <1>1, <1>2, <1>3, <1>4, <1>5, <1>6, <1>7, <1>8, <1>9, <1>10 DEF Files

\* The first statement of an orderly rest, and what is left after it.
LEMMA OrderlyTail ==
  ASSUME NEW S, NEW t \in Seq(S), t # <<>>, NEW prev, Orderly(prev, t)
  PROVE  /\ Head(t).op \in Additive \cup {"copy", "discard", "rename"}
         /\ Head(t).op = "discard" <=> prev = "copy"
         /\ Head(t).op = "rename" <=> prev = "discard"
         /\ Orderly(Head(t).op, Tail(t))
         /\ Tail(t) \in Seq(S)
<1>1. /\ Len(t) \in Nat \ {0} /\ Head(t) = t[1] /\ 1 \in 1 .. Len(t)
      /\ Tail(t) \in Seq(S) /\ Len(Tail(t)) = Len(t) - 1
      /\ \A i \in 1 .. Len(t) - 1 : Tail(t)[i] = t[i + 1]
  OBVIOUS
<1>2. PICK r : r = Tail(t) OBVIOUS
<1>3. /\ t[1].op \in Additive \cup {"copy", "discard", "rename"}
      /\ t[1].op = "discard" <=> prev = "copy"
      /\ t[1].op = "rename" <=> prev = "discard"
  BY <1>1 DEF Orderly
<1>4. ASSUME NEW i \in 1 .. Len(r)
      PROVE  LET before == IF i = 1 THEN t[1].op ELSE r[i - 1].op
                 op     == r[i].op
             IN  /\ op \in Additive \cup {"copy", "discard", "rename"}
                 /\ op = "discard" <=> before = "copy"
                 /\ op = "rename" <=> before = "discard"
  <2>1. /\ i + 1 \in 1 .. Len(t) /\ i + 1 # 1 /\ (i + 1) - 1 = i /\ r[i] = t[i + 1]
        /\ i # 1 => r[i - 1] = t[i]
    BY <1>1, <1>2
  <2>2. /\ t[i + 1].op \in Additive \cup {"copy", "discard", "rename"}
        /\ t[i + 1].op = "discard" <=> t[i].op = "copy"
        /\ t[i + 1].op = "rename" <=> t[i].op = "discard"
    BY <2>1 DEF Orderly
  <2> QED BY <2>1, <2>2
<1>5. CASE r = <<>>
  <2>1. Len(t) = 1
    <3>1. Len(r) = 0 BY <1>5
    <3>2. Len(r) = Len(t) - 1 BY <1>1, <1>2
    <3>3. Len(t) \in Nat BY <1>1
    <3> QED BY <3>1, <3>2, <3>3
  <2>2. t[1].op \notin {"copy", "discard"} BY <2>1 DEF Orderly
  <2>3. Orderly(t[1].op, r) BY <1>4, <1>5, <2>2 DEF Orderly
  <2> QED BY <1>1, <1>2, <1>3, <2>3
<1>6. CASE r # <<>>
  <2>1. Len(r) \in 1 .. Len(t) - 1 /\ Len(r) + 1 = Len(t) BY <1>1, <1>2, <1>6
  <2>2. r[Len(r)] = t[Len(t)] BY <1>1, <1>2, <2>1
  <2>3. r[Len(r)].op \notin {"copy", "discard"} BY <2>2 DEF Orderly
  <2>4. Orderly(t[1].op, r) BY <1>4, <1>6, <2>3 DEF Orderly
  <2> QED BY <1>1, <1>2, <1>3, <2>4
<1> QED BY <1>5, <1>6

\* A statement moves the rows the way its kind says.
LEMMA AfterKeeps ==
  ASSUME NEW db, NEW kept, NEW prev, Keeps(kept, db, prev), NEW s,
         s.op \in Additive \cup {"copy", "discard", "rename"},
         s.op = "discard" <=> prev = "copy",
         s.op = "rename" <=> prev = "discard"
  PROVE  Keeps(kept, After(db, s), s.op)
<1>1. CASE s.op \in {"ensure", "make"} BY <1>1 DEF After, Keeps, DbFields
<1>2. CASE s.op \in {"index", "column"} BY <1>2 DEF After, Keeps, DbFields
<1>3. CASE s.op = "copy" BY <1>3 DEF After, Keeps, DbFields
<1>4. CASE s.op = "discard" BY <1>4 DEF After, Keeps, DbFields
<1>5. CASE s.op = "rename" BY <1>5 DEF After, Keeps, DbFields
<1> QED BY <1>1, <1>2, <1>3, <1>4, <1>5 DEF Additive

\* The file in turn is one of the nine.
LEMMA VersionIsFile ==
  ASSUME release \in 1..9, Pending # {}
  PROVE  Version \in 1..9
<1>1. Pending \subseteq 1..9 BY DEF Pending
<1>2. \E x \in Pending : \A y \in Pending : x <= y
  <2>1. PICK P : P = Pending OBVIOUS
  <2>2. \E x \in P : \A y \in P : x <= y
    <3>1. P \subseteq 1..9 /\ P # {} BY <1>1, <2>1
    <3>2. CASE 1 \in P BY <3>1, <3>2
    <3>3. CASE 1 \notin P /\ 2 \in P BY <3>1, <3>3
    <3>4. CASE P \cap 1..2 = {} /\ 3 \in P BY <3>1, <3>4
    <3>5. CASE P \cap 1..3 = {} /\ 4 \in P BY <3>1, <3>5
    <3>6. CASE P \cap 1..4 = {} /\ 5 \in P BY <3>1, <3>6
    <3>7. CASE P \cap 1..5 = {} /\ 6 \in P BY <3>1, <3>7
    <3>8. CASE P \cap 1..6 = {} /\ 7 \in P BY <3>1, <3>8
    <3>9. CASE P \cap 1..7 = {} /\ 8 \in P BY <3>1, <3>9
    <3>10. CASE P \cap 1..8 = {}
      <4>1. \A x \in P : x = 9 BY <3>1, <3>10
      <4>2. 9 \in P BY <3>1, <4>1
      <4> QED BY <4>1, <4>2
    <3> QED BY <3>2, <3>3, <3>4, <3>5, <3>6, <3>7, <3>8, <3>9, <3>10
  <2> QED BY <2>1, <2>2
<1>3. Version \in Pending BY <1>2 DEF Version, Min
<1> QED BY <1>1, <1>3

\* What a step of the session does to the database: nothing, or what the process
\* does to its schema and its log.
LEMMA DatabaseStep ==
  ASSUME [SNext]_<<database, session>>
  PROVE  \/ UNCHANGED <<disk, working, pc, applied, todo, release>>
         \/ Migrate \/ Raise \/ Serve \/ Upgrade \/ Crash
<1>1. CASE UNCHANGED <<database, session>> BY <1>1 DEF database, vars
<1>2. CASE \E request \in Requests : Take(request) BY <1>2 DEF Take, database, vars
<1>3. CASE Handle /\ ~Close
  BY <1>3
  DEF Handle, Read, Refuse, Statement, Open, Insert, RefuseInside, Reject, UnitRaises,
      database, vars
<1>4. CASE Close BY <1>4 DEF Close, database, vars
<1>5. CASE Prepare \/ ServeEarlier \/ Stop BY <1>5 DEF Prepare, ServeEarlier, Stop
<1> QED BY <1>1, <1>2, <1>3, <1>4, <1>5 DEF SNext

\* A step keeps the rows, those on disk and those on the way through a rebuild.
LEMMA LogInductive ==
  ASSUME LogInv, [SNext]_<<database, session>>
  PROVE  LogInv' /\ disk.log \subseteq disk'.log
<1>1. CASE UNCHANGED <<disk, working, pc, applied, todo, release>> BY <1>1 DEF LogInv
<1>2. CASE Start
  <2>1. Ensure("_schema_version").op = "ensure" BY DEF Ensure
  <2>2. DOMAIN disk' = DbFields /\ disk'.log = disk.log
    BY <1>2, <2>1 DEF Start, After, LogInv, DbFields
  <2>3. working = NULL BY <1>2 DEF Start, LogInv
  <2>4. working' = NULL /\ todo' = todo /\ release' = release BY <1>2, <2>3 DEF Start
  <2> QED BY <2>2, <2>4 DEF LogInv
<1>3. CASE Begin
  <2>1. disk' = disk /\ pc' = "migrating" /\ release' = release /\ todo' = Files[Version]
        /\ working' = disk
    BY <1>3 DEF Begin
  <2>2. (\E S : Files[Version] \in Seq(S)) /\ Orderly("ensure", Files[Version])
    BY <1>3, VersionIsFile, FilesOrderly DEF Begin, LogInv
  <2>3. Keeps(disk.log, disk, "ensure") BY DEF Keeps, LogInv
  <2> QED BY <2>1, <2>2, <2>3 DEF LogInv
<1>4. CASE Execute
  <2>1. PICK S : todo \in Seq(S) BY DEF LogInv
  <2>2. PICK prev : Orderly(prev, todo) /\ Keeps(disk.log, working, prev)
    BY <1>4 DEF Execute, LogInv
  <2>3. PICK h, rest : h = Head(todo) /\ rest = Tail(todo) OBVIOUS
  <2>4. /\ h.op \in Additive \cup {"copy", "discard", "rename"}
        /\ h.op = "discard" <=> prev = "copy"
        /\ h.op = "rename" <=> prev = "discard"
        /\ Orderly(h.op, rest) /\ rest \in Seq(S)
    BY <1>4, <2>1, <2>2, <2>3, OrderlyTail DEF Execute
  <2>5. Keeps(disk.log, After(working, h), h.op) BY <2>2, <2>4, AfterKeeps
  <2>6. working' = After(working, h) /\ todo' = rest /\ disk' = disk /\ pc' = pc
        /\ release' = release /\ pc = "migrating"
    BY <1>4, <2>3 DEF Execute, LogInv
  <2> QED BY <2>4, <2>5, <2>6 DEF LogInv
<1>5. CASE Commit
  <2>1. PICK prev : Orderly(prev, todo) /\ Keeps(disk.log, working, prev)
    BY <1>5 DEF Commit, LogInv
  <2>2. prev # "discard" BY <1>5, <2>1 DEF Commit, Orderly
  <2>3. DOMAIN working = DbFields /\ working.log = disk.log BY <2>1, <2>2 DEF Keeps
  <2>4. DOMAIN disk' = DbFields /\ disk'.log = working.log
    BY <1>5, <2>3 DEF Commit, Recorded, DbFields
  <2>5. working' = NULL /\ todo' = todo /\ release' = release BY <1>5 DEF Commit
  <2> QED BY <2>3, <2>4, <2>5 DEF LogInv
<1>6. CASE Ready
  <2>1. disk' = disk /\ working' = working /\ working = NULL /\ todo' = todo /\ release' = release
    BY <1>6 DEF Ready
  <2> QED BY <2>1 DEF LogInv
<1>7. CASE Raise \/ Crash
  <2>1. disk' = disk /\ working' = NULL /\ todo' = <<>> /\ release' = release
    BY <1>7 DEF Raise, Crash
  <2>2. \E S : <<>> \in Seq(S) OBVIOUS
  <2> QED BY <2>1, <2>2 DEF LogInv
<1>8. CASE Serve
  <2>1. working = NULL /\ working' = NULL /\ todo' = todo /\ release' = release
    BY <1>8 DEF Serve, LogInv
  <2>2. PICK row \in Rows : disk' = [disk EXCEPT !.log = @ \cup {row}] BY <1>8 DEF Serve
  <2>3. DOMAIN disk' = DbFields /\ disk'.log = disk.log \cup {row}
    BY <2>2 DEF LogInv, DbFields
  <2> QED BY <2>1, <2>3 DEF LogInv
<1>9. CASE Upgrade
  <2>1. working = NULL /\ working' = NULL /\ todo' = todo /\ disk' = disk
    BY <1>9 DEF Upgrade, LogInv
  <2>2. release' \in 1..9 BY <1>9, MigrationsAssumption DEF Upgrade, MigrationsAssumption
  <2> QED BY <2>1, <2>2 DEF LogInv
<1> QED BY <1>1, <1>2, <1>3, <1>4, <1>5, <1>6, <1>7, <1>8, <1>9, DatabaseStep DEF Migrate

\* 006 and 008 rebuild the log of credits: whatever release is installed, whatever
\* fails and wherever the process dies, a logged row stays.
THEOREM RowsKept == SSpec => LogKept
<1>1. SInit => LogInv
  <2>1. DOMAIN Fresh = DbFields BY DEF Fresh, DbFields
  <2>2. \E S : <<>> \in Seq(S) OBVIOUS
  <2> QED BY <2>1, <2>2, MigrationsAssumption DEF SInit, Init, LogInv, MigrationsAssumption
<1>2. LogInv /\ [SNext]_<<database, session>> => LogInv' BY LogInductive
<1>3. LogInv /\ [SNext]_<<database, session>> => [disk.log \subseteq disk'.log]_vars
  BY LogInductive
<1> QED BY <1>1, <1>2, <1>3, PTL DEF SSpec, LogKept

----------------------------------------------------------------------------
(* The versions on record.                                                 *)

\* While a start is under way it knows the versions on record, and the file that
\* is being applied is the one after them.
VersionInv ==
  /\ LogInv
  /\ \E n \in 0..9 : disk.versions = 1..n
  /\ pc = "migrating" => applied = disk.versions
  /\ working # NULL => working.versions = disk.versions /\ Pending # {}

\* Statements leave the versions alone.
LEMMA AfterVersions ==
  ASSUME NEW db, DOMAIN db = DbFields, NEW s,
         s.op \in Additive \cup {"copy", "discard", "rename"}
  PROVE  After(db, s).versions = db.versions
<1>1. CASE s.op \in {"ensure", "make"} BY <1>1 DEF After, DbFields
<1>2. CASE s.op \in {"index", "column"} BY <1>2 DEF After, DbFields
<1>3. CASE s.op = "copy" BY <1>3 DEF After, DbFields
<1>4. CASE s.op = "discard" BY <1>4 DEF After, DbFields
<1>5. CASE s.op = "rename" BY <1>5 DEF After, DbFields
<1> QED BY <1>1, <1>2, <1>3, <1>4, <1>5 DEF Additive

\* The file in turn follows the ones that are applied.
LEMMA VersionIsNext ==
  ASSUME release \in 1..9, NEW n \in 0..9, applied = 1..n, Pending # {}
  PROVE  Version = n + 1 /\ n + 1 \in 1..9
<1>1. n + 1 \in Pending /\ \A y \in Pending : n + 1 <= y BY DEF Pending
<1>2. Version \in Pending /\ \A y \in Pending : Version <= y BY <1>1 DEF Version, Min
<1>3. Pending \subseteq 1..9 BY DEF Pending
<1> QED BY <1>1, <1>2, <1>3

\* Every step keeps the versions on record without a gap.
LEMMA VersionInductive ==
  ASSUME VersionInv, [SNext]_<<database, session>>
  PROVE  VersionInv'
<1>0. LogInv' BY LogInductive DEF VersionInv
<1>1. PICK n \in 0..9 : disk.versions = 1..n BY DEF VersionInv
<1>2. CASE UNCHANGED <<disk, working, pc, applied, todo, release>>
  BY <1>0, <1>2 DEF VersionInv, Pending
<1>3. CASE Start
  <2>1. disk'.versions = disk.versions
    <3>1. Ensure("_schema_version").op = "ensure" BY DEF Ensure
    <3> QED BY <1>3, <3>1, AfterVersions DEF Start, VersionInv, LogInv, Additive
  <2>2. working' = NULL /\ applied' = disk.versions
    BY <1>3 DEF Start, VersionInv, LogInv
  <2> QED BY <1>0, <1>1, <2>1, <2>2 DEF VersionInv
<1>4. CASE Begin
  BY <1>0, <1>1, <1>4 DEF Begin, VersionInv, Pending
<1>5. CASE Execute
  <2>1. PICK S : todo \in Seq(S) BY DEF VersionInv, LogInv
  <2>2. PICK prev : Orderly(prev, todo) /\ Keeps(disk.log, working, prev)
    BY <1>5 DEF Execute, VersionInv, LogInv
  <2>3. Head(todo).op \in Additive \cup {"copy", "discard", "rename"}
    BY <1>5, <2>1, <2>2, OrderlyTail DEF Execute
  <2>4. working'.versions = working.versions
    BY <1>5, <2>2, <2>3, AfterVersions DEF Execute, Keeps
  <2> QED BY <1>0, <1>1, <1>5, <2>4 DEF Execute, VersionInv, Pending
<1>6. CASE Commit
  <2>1. PICK prev : Keeps(disk.log, working, prev) BY <1>6 DEF Commit, VersionInv, LogInv
  <2>2. /\ pc = "migrating" /\ applied = 1..n /\ Pending # {} /\ release \in 1..9
        /\ working.versions = 1..n /\ DOMAIN working = DbFields
    BY <1>1, <1>6, <2>1 DEF Commit, VersionInv, LogInv, Keeps
  <2>3. Version = n + 1 /\ n + 1 \in 1..9 BY <2>2, VersionIsNext
  <2>4. disk'.versions = 1..n \cup {n + 1} /\ applied' = 1..n \cup {n + 1} /\ working' = NULL
    BY <1>6, <2>2, <2>3 DEF Commit, Recorded, DbFields
  <2>5. 1..n \cup {n + 1} = 1..n + 1 OBVIOUS
  <2>6. n + 1 \in 0..9 BY <2>3
  <2> QED BY <1>0, <2>4, <2>5, <2>6 DEF VersionInv
<1>7. CASE Ready BY <1>0, <1>1, <1>7 DEF Ready, VersionInv
<1>8. CASE Raise \/ Crash BY <1>0, <1>1, <1>8 DEF Raise, Crash, VersionInv
<1>9. CASE Serve
  <2>1. PICK row \in Rows : disk' = [disk EXCEPT !.log = @ \cup {row}] BY <1>9 DEF Serve
  <2>2. disk'.versions = disk.versions BY <2>1 DEF VersionInv, LogInv, DbFields
  <2>3. working' = NULL /\ pc' # "migrating" BY <1>9 DEF Serve, VersionInv, LogInv
  <2> QED BY <1>0, <1>1, <2>2, <2>3 DEF VersionInv
<1>10. CASE Upgrade
  <2>1. working' = NULL /\ disk' = disk /\ pc' # "migrating"
    BY <1>10 DEF Upgrade, VersionInv, LogInv
  <2> QED BY <1>0, <1>1, <2>1 DEF VersionInv
<1> QED
  BY <1>2, <1>3, <1>4, <1>5, <1>6, <1>7, <1>8, <1>9, <1>10, DatabaseStep DEF Migrate

----------------------------------------------------------------------------
(* The schema of the versions on record.                                   *)

Less == {ss \in Nat \X Nat : ss[1] < ss[2]}

\* Any set of numbers has a least one.
LEMMA LeastNumber ==
  ASSUME NEW some, some \subseteq Nat, some # {}
  PROVE  \E m \in some : m \in Nat /\ \A k \in Nat : k < m => k \notin some
<1>1. IsWellFoundedOn(Less, Nat)
  BY NatLessThanWellFounded DEF OpToRel, Less
<1>2. PICK m \in some : \A k \in some : ~ (<<k, m>> \in Less)
  BY <1>1, WFMin
<1> QED BY <1>2 DEF Less

\* The first m statements of a file have a run on any schema,
RunUpTo(g, db, s, m) ==
  g = [i \in 0 .. m |-> IF i = 0 THEN db ELSE After(g[i - 1], s[i])]

LEMMA RunExists ==
  ASSUME NEW db, NEW s, NEW m \in Nat
  PROVE  \E g : RunUpTo(g, db, s, m)
<1> DEFINE bad == {k \in Nat : ~ \E g : RunUpTo(g, db, s, k)}
<1>1. SUFFICES ASSUME m \in bad PROVE FALSE
  OBVIOUS
<1>2. PICK k \in bad : k \in Nat /\ \A j \in Nat : j < k => j \notin bad
  BY <1>1, LeastNumber
<1>3. CASE k = 0
  <2> DEFINE g == [i \in 0 .. 0 |-> db]
  <2>1. RunUpTo(g, db, s, 0)
    BY DEF RunUpTo
  <2> QED BY <1>3, <2>1
<1>4. CASE k # 0
  <2>1. k - 1 \in Nat /\ k - 1 < k /\ k - 1 \notin bad
    BY <1>2, <1>4
  <2>2. PICK g : RunUpTo(g, db, s, k - 1)
    BY <2>1
  <2> DEFINE h == [i \in 0 .. k |-> IF i \in 0 .. k - 1 THEN g[i] ELSE After(g[k - 1], s[k])]
  <2>3. \A i \in 0 .. k - 1 : g[i] = IF i = 0 THEN db ELSE After(g[i - 1], s[i])
    BY <2>2 DEF RunUpTo
  <2>4. \A i \in 0 .. k : h[i] = IF i = 0 THEN db ELSE After(h[i - 1], s[i])
    <3>1. ASSUME NEW i \in 0 .. k PROVE h[i] = IF i = 0 THEN db ELSE After(h[i - 1], s[i])
      <4>1. CASE i = 0
        BY <1>2, <1>4, <2>3, <4>1
      <4>2. CASE i # 0 /\ i \in 0 .. k - 1
        <5>1. i - 1 \in 0 .. k - 1 /\ i - 1 \in 0 .. k
          BY <1>2, <4>2
        <5>2. h[i - 1] = g[i - 1] /\ h[i] = g[i]
          BY <4>2, <5>1
        <5> QED BY <2>3, <4>2, <5>2
      <4>3. CASE i = k
        <5>1. k - 1 \in 0 .. k - 1 /\ k - 1 \in 0 .. k /\ k \notin 0 .. k - 1
          BY <1>2, <1>4
        <5>2. h[k - 1] = g[k - 1] /\ h[k] = After(g[k - 1], s[k])
          BY <1>2, <5>1
        <5> QED BY <1>4, <4>3, <5>2
      <4>4. i \in 0 .. k - 1 \/ i = k
        BY <1>2
      <4> QED BY <4>1, <4>2, <4>3, <4>4
    <3> QED BY <3>1
  <2>5. h = [i \in 0 .. k |-> h[i]]
    OBVIOUS
  <2> HIDE DEF h
  <2>6. RunUpTo(h, db, s, k)
    BY <2>4, <2>5 DEF RunUpTo
  <2> QED BY <1>2, <2>6
<1> QED BY <1>3, <1>4

\* ... and it takes them one after the other.
LEMMA RunSteps ==
  ASSUME NEW db, NEW s, Len(s) \in Nat
  PROVE  /\ RunOf(db, s)[0] = db
         /\ \A i \in 1 .. Len(s) : RunOf(db, s)[i] = After(RunOf(db, s)[i - 1], s[i])
<1>1. \E g : RunUpTo(g, db, s, Len(s))
  BY RunExists
<1>2. RunOf(db, s) = CHOOSE g : RunUpTo(g, db, s, Len(s))
  BY DEF RunOf, RunUpTo
<1>3. PICK g : g = RunOf(db, s) /\ RunUpTo(g, db, s, Len(s))
  BY <1>1, <1>2
<1>4. \A i \in 0 .. Len(s) : g[i] = IF i = 0 THEN db ELSE After(g[i - 1], s[i])
  BY <1>3 DEF RunUpTo
<1> QED BY <1>3, <1>4

\* So do the files of a release: the first m of them have a run.
CleanUpTo(g, m) ==
  g = [n \in 0 .. m |-> IF n = 0 THEN Fresh ELSE RunOf(g[n - 1], Files[n])[Len(Files[n])]]

LEMMA CleanExists ==
  ASSUME NEW m \in Nat
  PROVE  \E g : CleanUpTo(g, m)
<1> DEFINE file(db, n) == RunOf(db, Files[n])[Len(Files[n])]
           bad == {k \in Nat : ~ \E g : CleanUpTo(g, k)}
<1>1. SUFFICES ASSUME m \in bad PROVE FALSE
  OBVIOUS
<1>2. PICK k \in bad : k \in Nat /\ \A j \in Nat : j < k => j \notin bad
  BY <1>1, LeastNumber
<1>3. CASE k = 0
  <2> DEFINE g == [n \in 0 .. 0 |-> Fresh]
  <2>1. CleanUpTo(g, 0)
    BY DEF CleanUpTo
  <2> QED BY <1>3, <2>1
<1>4. CASE k # 0
  <2>1. k - 1 \in Nat /\ k - 1 < k /\ k - 1 \notin bad
    BY <1>2, <1>4
  <2>2. PICK g : CleanUpTo(g, k - 1)
    BY <2>1
  <2> DEFINE h == [n \in 0 .. k |-> IF n \in 0 .. k - 1 THEN g[n] ELSE file(g[k - 1], k)]
  <2>3. \A n \in 0 .. k - 1 : g[n] = IF n = 0 THEN Fresh ELSE file(g[n - 1], n)
    BY <2>2 DEF CleanUpTo
  <2> HIDE DEF file
  <2>4. ASSUME NEW n \in 0 .. k PROVE h[n] = IF n = 0 THEN Fresh ELSE file(h[n - 1], n)
    <3>1. CASE n = 0
      BY <1>2, <1>4, <2>3, <3>1
    <3>2. CASE n # 0 /\ n \in 0 .. k - 1
      <4>1. n - 1 \in 0 .. k - 1 /\ n - 1 \in 0 .. k
        BY <1>2, <3>2
      <4>2. h[n - 1] = g[n - 1] /\ h[n] = g[n]
        BY <3>2, <4>1
      <4> QED BY <2>3, <3>2, <4>2
    <3>3. CASE n = k
      <4>1. k - 1 \in 0 .. k - 1 /\ k - 1 \in 0 .. k /\ k \notin 0 .. k - 1
        BY <1>2, <1>4
      <4>2. h[k - 1] = g[k - 1] /\ h[k] = file(g[k - 1], k)
        BY <1>2, <4>1
      <4> QED BY <1>4, <3>3, <4>2
    <3>4. n \in 0 .. k - 1 \/ n = k
      BY <1>2
    <3> QED BY <3>1, <3>2, <3>3, <3>4
  <2>5. h = [n \in 0 .. k |-> h[n]]
    OBVIOUS
  <2> HIDE DEF h
  <2>6. h = [n \in 0 .. k |-> IF n = 0 THEN Fresh ELSE file(h[n - 1], n)]
    BY <2>4, <2>5
  <2>7. CleanUpTo(h, k)
    BY <2>6 DEF CleanUpTo, file
  <2> QED BY <1>2, <2>7
<1> QED BY <1>3, <1>4

\* The clean run starts from nothing and takes one file after the other.
LEMMA CleanSteps ==
  /\ CleanRun[0] = Fresh
  /\ \A n \in 1..9 : CleanRun[n] = RunOf(CleanRun[n - 1], Files[n])[Len(Files[n])]
<1>1. Len(Files) = 9
  BY DEF Files
<1>2. PICK top : top = Len(Files)
  OBVIOUS
<1>3. \E g : CleanUpTo(g, top)
  BY <1>1, <1>2, CleanExists
<1>4. CleanRun = CHOOSE g : CleanUpTo(g, top)
  BY <1>2 DEF CleanRun, CleanUpTo
<1>5. PICK g : g = CleanRun /\ CleanUpTo(g, top)
  BY <1>3, <1>4
<1>6. \A n \in 0 .. top :
        g[n] = IF n = 0 THEN Fresh ELSE RunOf(g[n - 1], Files[n])[Len(Files[n])]
  BY <1>5 DEF CleanUpTo
<1> QED BY <1>1, <1>2, <1>5, <1>6

\* Two databases with one schema: what differs is who keeps the versions, and rows.
Alike(db, other) ==
  /\ DOMAIN db = DbFields /\ DOMAIN other = DbFields
  /\ db.tables \ {"_schema_version"} = other.tables \ {"_schema_version"}
  /\ db.parts = other.parts

\* A statement does the same to both.
LEMMA AfterAlike ==
  ASSUME NEW db, NEW other, Alike(db, other), NEW s,
         s.op \in Additive \cup {"copy", "discard", "rename"}
  PROVE  Alike(After(db, s), After(other, s))
<1>1. CASE s.op \in {"ensure", "make"} BY <1>1 DEF After, Alike, DbFields
<1>2. CASE s.op \in {"index", "column"} BY <1>2 DEF After, Alike, DbFields
<1>3. CASE s.op = "copy" BY <1>3 DEF After, Alike, DbFields
<1>4. CASE s.op = "discard"
  <2>1. /\ After(db, s) = [db EXCEPT !.tables = @ \ {s.table}, !.log = {},
                                     !.parts = {p \in @ : p[1] # s.table}]
        /\ After(other, s) = [other EXCEPT !.tables = @ \ {s.table}, !.log = {},
                                           !.parts = {p \in @ : p[1] # s.table}]
    BY <1>4 DEF After
  <2> QED BY <2>1 DEF Alike, DbFields
<1>5. CASE s.op = "rename"
  <2>1. /\ After(db, s).tables = (db.tables \ {s.object}) \cup {s.table}
        /\ After(other, s).tables = (other.tables \ {s.object}) \cup {s.table}
        /\ After(db, s).parts = db.parts /\ After(other, s).parts = other.parts
        /\ DOMAIN After(db, s) = DbFields /\ DOMAIN After(other, s) = DbFields
    BY <1>5 DEF After, Alike, DbFields
  <2> QED BY <2>1 DEF Alike
<1> QED BY <1>1, <1>2, <1>3, <1>4, <1>5 DEF Additive

\* A database on which the statements of a file are done but for a rest.
Underway(db, rest, version) ==
  \E i \in 0 .. Len(Files[version]) :
    /\ Len(rest) = Len(Files[version]) - i
    /\ \A j \in 1 .. Len(rest) : rest[j] = Files[version][i + j]
    /\ Alike(db, RunOf(CleanRun[version - 1], Files[version])[i])

\* The disk has the schema of a clean run of the versions on record, and the open
\* transaction the schema of that run some statements further.
SchemaInv ==
  /\ VersionInv
  /\ \E n \in 0..9 :
       /\ disk.versions = 1..n
       /\ Alike(disk, CleanRun[n])
       /\ working # NULL => n + 1 \in 1..9 /\ Underway(working, todo, n + 1)

\* A file begins on the schema of the files before it.
LEMMA FileBegins ==
  ASSUME NEW n \in 0..8, NEW db, Alike(db, CleanRun[n])
  PROVE  Underway(db, Files[n + 1], n + 1)
<1>1. n + 1 \in 1..9 /\ (n + 1) - 1 = n
  OBVIOUS
<1>2. Len(Files[n + 1]) \in Nat
  <2>1. PICK S : Files[n + 1] \in Seq(S) BY <1>1, FilesOrderly
  <2> QED BY <2>1
<1>3. RunOf(CleanRun[n], Files[n + 1])[0] = CleanRun[n]
  BY <1>2, RunSteps
<1>4. PICK file : file = Files[n + 1]
  OBVIOUS
<1>5. /\ 0 \in 0 .. Len(file) /\ Len(file) = Len(file) - 0
      /\ \A j \in 1 .. Len(file) : file[j] = file[0 + j]
  BY <1>2, <1>4
<1> QED BY <1>1, <1>3, <1>4, <1>5 DEF Underway

\* A statement brings it one statement further,
LEMMA FileGoesOn ==
  ASSUME NEW version \in 1..9, NEW db, NEW S, NEW rest \in Seq(S), rest # <<>>,
         Underway(db, rest, version),
         Head(rest).op \in Additive \cup {"copy", "discard", "rename"}
  PROVE  Underway(After(db, Head(rest)), Tail(rest), version)
<1>1. PICK file : file = Files[version]
  OBVIOUS
<1>2. PICK run : run = RunOf(CleanRun[version - 1], file)
  OBVIOUS
<1>3. Len(file) \in Nat
  <2>1. PICK T : Files[version] \in Seq(T) BY FilesOrderly
  <2> QED BY <1>1, <2>1
<1>4. PICK i \in 0 .. Len(file) :
        /\ Len(rest) = Len(file) - i
        /\ \A j \in 1 .. Len(rest) : rest[j] = file[i + j]
        /\ Alike(db, run[i])
  BY <1>1, <1>2 DEF Underway
<1>5. PICK s, left : s = Head(rest) /\ left = Tail(rest)
  OBVIOUS
<1>6. /\ Len(rest) \in Nat \ {0} /\ s = rest[1] /\ Len(left) = Len(rest) - 1
      /\ \A j \in 1 .. Len(rest) - 1 : left[j] = rest[j + 1]
  BY <1>5
<1>7. i + 1 \in 1 .. Len(file) /\ i + 1 \in 0 .. Len(file) /\ (i + 1) - 1 = i
  BY <1>3, <1>4, <1>6
<1>8. run[i + 1] = After(run[i], file[i + 1])
  <2>1. \A k \in 1 .. Len(file) : run[k] = After(run[k - 1], file[k])
    BY <1>2, <1>3, RunSteps
  <2> QED BY <1>7, <2>1
<1>9. s = file[i + 1]
  BY <1>4, <1>6
<1>10. Alike(After(db, s), run[i + 1])
  BY <1>4, <1>5, <1>8, <1>9, AfterAlike
<1>11. Len(left) = Len(file) - (i + 1)
  BY <1>3, <1>4, <1>6
<1>12. ASSUME NEW j \in 1 .. Len(left) PROVE left[j] = file[(i + 1) + j]
  <2>1. j \in 1 .. Len(rest) - 1 /\ j + 1 \in 1 .. Len(rest) /\ i + (j + 1) = (i + 1) + j
    BY <1>4, <1>6
  <2> QED BY <1>4, <1>6, <2>1
<1> QED BY <1>1, <1>2, <1>5, <1>7, <1>10, <1>11, <1>12 DEF Underway

\* ... and when none is left the schema is that of one more file.
LEMMA FileEnds ==
  ASSUME NEW version \in 1..9, NEW db, Underway(db, <<>>, version)
  PROVE  Alike(db, CleanRun[version])
<1>1. Len(Files[version]) \in Nat
  <2>1. PICK S : Files[version] \in Seq(S) BY FilesOrderly
  <2> QED BY <2>1
<1>2. PICK i \in 0 .. Len(Files[version]) :
        /\ Len(<<>>) = Len(Files[version]) - i
        /\ Alike(db, RunOf(CleanRun[version - 1], Files[version])[i])
  BY DEF Underway
<1>3. i = Len(Files[version])
  BY <1>1, <1>2
<1> QED BY <1>2, <1>3, CleanSteps

\* Neither versions nor rows are part of a schema.
LEMMA NoSchema ==
  ASSUME NEW db, NEW other, Alike(db, other), NEW version, NEW row
  PROVE  /\ Alike(Recorded(db, version), other)
         /\ Alike([db EXCEPT !.log = @ \cup {row}], other)
         /\ Alike(After(db, Ensure("_schema_version")), other)
<1>1. /\ Recorded(db, version).tables = db.tables /\ Recorded(db, version).parts = db.parts
      /\ DOMAIN Recorded(db, version) = DbFields
  BY DEF Recorded, Alike, DbFields
<1>2. PICK more : more = [db EXCEPT !.log = @ \cup {row}]
  OBVIOUS
<1>3. more.tables = db.tables /\ more.parts = db.parts /\ DOMAIN more = DbFields
  BY <1>2 DEF Alike, DbFields
<1>4. PICK left : left = After(db, Ensure("_schema_version"))
  OBVIOUS
<1>5. /\ left.tables = db.tables \cup {"_schema_version"} /\ left.parts = db.parts
      /\ DOMAIN left = DbFields
  <2>1. left = [db EXCEPT !.tables = @ \cup {"_schema_version"}]
    BY <1>4 DEF After, Ensure
  <2> QED BY <2>1 DEF Alike, DbFields
<1> QED BY <1>1, <1>2, <1>3, <1>4, <1>5 DEF Alike

\* Every step keeps the schema that of a clean run.
LEMMA SchemaInductive ==
  ASSUME SchemaInv, [SNext]_<<database, session>>
  PROVE  SchemaInv'
<1>0. VersionInv' BY VersionInductive DEF SchemaInv
<1>1. PICK n \in 0..9 :
        /\ disk.versions = 1..n
        /\ Alike(disk, CleanRun[n])
        /\ working # NULL => n + 1 \in 1..9 /\ Underway(working, todo, n + 1)
  BY DEF SchemaInv
<1>2. CASE UNCHANGED <<disk, working, pc, applied, todo, release>>
  BY <1>0, <1>1, <1>2 DEF SchemaInv
<1>3. CASE Start
  <2>1. disk'.versions = 1..n
    <3>1. Ensure("_schema_version").op = "ensure" BY DEF Ensure
    <3> QED BY <1>1, <1>3, <3>1, AfterVersions DEF Start, SchemaInv, VersionInv, LogInv, Additive
  <2>2. Alike(disk', CleanRun[n]) BY <1>1, <1>3, NoSchema DEF Start
  <2>3. working' = NULL BY <1>3 DEF Start, SchemaInv, VersionInv, LogInv
  <2> QED BY <1>0, <2>1, <2>2, <2>3 DEF SchemaInv
<1>4. CASE Begin
  <2>1. /\ disk' = disk /\ working' = disk /\ todo' = Files[Version] /\ pc = "migrating"
        /\ Pending # {} /\ release \in 1..9 /\ applied = 1..n
    BY <1>1, <1>4 DEF Begin, SchemaInv, VersionInv, LogInv
  <2>2. Version = n + 1 /\ n + 1 \in 1..9
    BY <2>1, VersionIsNext
  <2>3. n \in 0..8 BY <2>2
  <2>4. Underway(disk, Files[n + 1], n + 1) BY <1>1, <2>3, FileBegins
  <2> QED BY <1>0, <1>1, <2>1, <2>2, <2>4 DEF SchemaInv
<1>5. CASE Execute
  <2>1. PICK S : todo \in Seq(S) BY DEF SchemaInv, VersionInv, LogInv
  <2>2. PICK prev : Orderly(prev, todo)
    BY <1>5 DEF Execute, SchemaInv, VersionInv, LogInv
  <2>3. Head(todo).op \in Additive \cup {"copy", "discard", "rename"}
    BY <1>5, <2>1, <2>2, OrderlyTail DEF Execute
  <2>4. Underway(After(working, Head(todo)), Tail(todo), n + 1)
    BY <1>1, <1>5, <2>1, <2>3, FileGoesOn DEF Execute
  <2> QED BY <1>0, <1>1, <1>5, <2>4 DEF Execute, SchemaInv
<1>6. CASE Commit
  <2>1. /\ pc = "migrating" /\ applied = 1..n /\ Pending # {} /\ release \in 1..9
        /\ working.versions = 1..n
    BY <1>1, <1>6 DEF Commit, SchemaInv, VersionInv, LogInv
  <2>2. Version = n + 1 /\ n + 1 \in 1..9 BY <2>1, VersionIsNext
  <2>3. Alike(working, CleanRun[n + 1])
    BY <1>1, <1>6, <2>2, FileEnds DEF Commit
  <2>4. disk' = Recorded(working, n + 1) /\ working' = NULL BY <1>6, <2>2 DEF Commit
  <2>5. Alike(disk', CleanRun[n + 1]) BY <2>3, <2>4, NoSchema
  <2>6. disk'.versions = 1..n \cup {n + 1}
    BY <2>1, <2>3, <2>4 DEF Recorded, Alike, DbFields
  <2>7. 1..n \cup {n + 1} = 1..n + 1 /\ n + 1 \in 0..9 BY <2>2
  <2> QED BY <1>0, <2>4, <2>5, <2>6, <2>7 DEF SchemaInv
<1>7. CASE Ready \/ Raise \/ Crash
  BY <1>0, <1>1, <1>7 DEF Ready, Raise, Crash, SchemaInv
<1>8. CASE Serve
  <2>1. PICK row \in Rows : disk' = [disk EXCEPT !.log = @ \cup {row}] BY <1>8 DEF Serve
  <2>2. Alike(disk', CleanRun[n]) BY <1>1, <2>1, NoSchema
  <2>3. disk'.versions = 1..n BY <1>1, <2>1 DEF Alike, DbFields
  <2>4. working' = NULL BY <1>8 DEF Serve, SchemaInv, VersionInv, LogInv
  <2> QED BY <1>0, <2>2, <2>3, <2>4 DEF SchemaInv
<1>9. CASE Upgrade
  <2>1. working' = NULL /\ disk' = disk
    BY <1>9 DEF Upgrade, SchemaInv, VersionInv, LogInv
  <2> QED BY <1>0, <1>1, <2>1 DEF SchemaInv
<1> QED
  BY <1>2, <1>3, <1>4, <1>5, <1>6, <1>7, <1>8, <1>9, DatabaseStep DEF Migrate

\* db.py:39-65: each file is applied in one transaction with its version, in their
\* order: wherever the process dies or a file fails, and whatever release comes next,
\* the committed schema is that of the versions on record, which have no gap.
THEOREM SchemasAreWhole == SSpec => []WholeMigrations
<1>1. SInit => SchemaInv
  <2> SUFFICES ASSUME SInit PROVE SchemaInv OBVIOUS
  <2>1. disk = Fresh /\ working = NULL /\ pc = "down" /\ todo = <<>> /\ release \in 1..9
    BY MigrationsAssumption DEF SInit, Init, MigrationsAssumption
  <2>2. DOMAIN Fresh = DbFields /\ Fresh.versions = 1..0 BY DEF Fresh, DbFields
  <2>3. \E S : <<>> \in Seq(S) OBVIOUS
  <2>4. Alike(disk, CleanRun[0]) BY <2>1, <2>2, CleanSteps DEF Alike
  <2>5. VersionInv BY <2>1, <2>2, <2>3 DEF LogInv, VersionInv
  <2> QED BY <2>1, <2>2, <2>4, <2>5 DEF SchemaInv
<1>2. SchemaInv /\ [SNext]_<<database, session>> => SchemaInv' BY SchemaInductive
<1>3. SchemaInv => WholeMigrations
  <2> SUFFICES ASSUME SchemaInv PROVE WholeMigrations OBVIOUS
  <2>1. PICK n \in 0..9 : disk.versions = 1..n /\ Alike(disk, CleanRun[n])
    BY DEF SchemaInv
  <2>2. Cardinality(1..n) = n
    <3>1. n \in Int /\ 1 \in Int /\ n >= 0 OBVIOUS
    <3>2. Cardinality(1..n) = IF 1 > n THEN 0 ELSE n - 1 + 1 BY <3>1, FS_Interval
    <3> QED BY <3>1, <3>2
  <2>3. Cardinality(disk.versions) = n BY <2>1, <2>2
  <2> QED BY <2>1, <2>3 DEF WholeMigrations, Alike
<1> QED BY <1>1, <1>2, <1>3, PTL DEF SSpec
=============================================================================
