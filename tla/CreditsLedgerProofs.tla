------------------------ MODULE CreditsLedgerProofs ------------------------
(***************************************************************************)
(* Proofs about the ledger's operators: what one transfer does to the sums *)
(* of the books, and that every balance stays explained and conserved.     *)
(***************************************************************************)
EXTENDS CreditsLedger, FiniteSetTheorems, TLAPS

----------------------------------------------------------------------------
(* Sums.                                                                   *)

\* A function with values in Nat whose units can be counted.
Summable(f) == f \in [DOMAIN f -> Nat] /\ IsFiniteSet(Units(f))

\* A column of m units has m elements.
LEMMA ColumnCardinality ==
  ASSUME NEW x, NEW m \in Nat
  PROVE  IsFiniteSet({x} \X (1 .. m)) /\ Cardinality({x} \X (1 .. m)) = m
<1> DEFINE g == [k \in 1 .. m |-> <<x, k>>]
<1>1. g \in Bijection(1 .. m, {x} \X (1 .. m))
  <2>1. g \in [1 .. m -> {x} \X (1 .. m)]
    OBVIOUS
  <2>2. \A i, j \in 1 .. m : g[i] = g[j] => i = j
    OBVIOUS
  <2>3. \A t \in {x} \X (1 .. m) : \E i \in 1 .. m : g[i] = t
    <3> TAKE t \in {x} \X (1 .. m)
    <3>1. t = <<x, t[2]>> /\ t[2] \in 1 .. m
      OBVIOUS
    <3> QED BY <3>1
  <2> QED BY <2>1, <2>2, <2>3 DEF Bijection, Injection, Surjection, IsInjective
<1>2. IsFiniteSet(1 .. m) /\ Cardinality(1 .. m) = m
  BY FS_Interval
<1>3. ExistsBijection(1 .. m, {x} \X (1 .. m))
  BY <1>1 DEF ExistsBijection
<1> QED BY <1>2, <1>3, FS_Bijection

\* What the units of a function are.
LEMMA UnitsMember ==
  ASSUME NEW f, NEW u
  PROVE  u \in Units(f) <=> \E x \in DOMAIN f : u \in {x} \X (1 .. f[x])
BY DEF Units

\* Changing one value, or adding one argument, changes the sum by as much.
LEMMA TotalChange ==
  ASSUME NEW f, Summable(f), NEW g, NEW x,
         g \in [DOMAIN f \cup {x} -> Nat],
         \A y \in DOMAIN f \ {x} : g[y] = f[y]
  PROVE  /\ Summable(g)
         /\ Total(f) \in Nat
         /\ Total(g) = Total(f) - (IF x \in DOMAIN f THEN f[x] ELSE 0) + g[x]
<1> DEFINE old  == IF x \in DOMAIN f THEN f[x] ELSE 0
           Old  == {x} \X (1 .. old)
           New  == {x} \X (1 .. g[x])
           Rest == Units(f) \ Old
<1>1. old \in Nat /\ g[x] \in Nat
  BY DEF Summable
<1>2. IsFiniteSet(Old) /\ Cardinality(Old) = old
  BY <1>1, ColumnCardinality
<1>3. IsFiniteSet(New) /\ Cardinality(New) = g[x]
  BY <1>1, ColumnCardinality
<1>4. Old \subseteq Units(f)
  BY UnitsMember
<1>5. IsFiniteSet(Rest) /\ Cardinality(Rest) = Total(f) - old /\ Total(f) \in Nat
  <2>1. Units(f) \cap Old = Old
    BY <1>4
  <2>2. IsFiniteSet(Units(f)) /\ Total(f) \in Nat
    BY FS_CardinalityType DEF Summable, Total
  <2>3. /\ IsFiniteSet(Rest)
        /\ Cardinality(Rest) = Cardinality(Units(f)) - Cardinality(Units(f) \cap Old)
    BY <2>2, FS_Difference
  <2> QED BY <2>1, <2>2, <2>3, <1>2 DEF Total
<1>6. \A u \in Rest : u \notin New
  <2> SUFFICES ASSUME NEW u \in Rest, u \in New PROVE FALSE
    OBVIOUS
  <2>1. PICK y \in DOMAIN f : u \in {y} \X (1 .. f[y])
    BY UnitsMember
  <2>2. y = x
    BY <2>1
  <2> QED BY <2>1, <2>2
<1>7. Units(g) = Rest \cup New
  <2>1. ASSUME NEW u \in Units(g) PROVE u \in Rest \cup New
    <3>1. PICK y \in DOMAIN f \cup {x} : u \in {y} \X (1 .. g[y])
      BY <2>1, UnitsMember
    <3>2. CASE y = x
      BY <3>1, <3>2
    <3>3. CASE y # x
      <4>1. u \in Units(f) BY <3>1, <3>3, UnitsMember
      <4>2. u \notin Old BY <3>1, <3>3
      <4> QED BY <4>1, <4>2
    <3> QED BY <3>2, <3>3
  <2>2. ASSUME NEW u \in Rest PROVE u \in Units(g)
    <3>1. PICK y \in DOMAIN f : u \in {y} \X (1 .. f[y])
      BY <2>2, UnitsMember
    <3>2. y # x
      BY <3>1, <2>2
    <3>3. u \in {y} \X (1 .. g[y]) /\ y \in DOMAIN g
      BY <3>1, <3>2
    <3> QED BY <3>3, UnitsMember
  <2>3. ASSUME NEW u \in New PROVE u \in Units(g)
    BY <2>3, UnitsMember
  <2> QED BY <2>1, <2>2, <2>3
<1>8. Rest \cap New = {}
  BY <1>6
<1>9. IsFiniteSet(Units(g)) /\ Total(g) = Total(f) - old + g[x]
  <2>1. /\ IsFiniteSet(Rest \cup New)
        /\ Cardinality(Rest \cup New) = Cardinality(Rest) + Cardinality(New)
                                        - Cardinality(Rest \cap New)
    BY <1>3, <1>5, FS_Union
  <2>2. Cardinality(Rest \cap New) = 0
    BY <1>8, FS_EmptySet
  <2>3. Total(g) = (Total(f) - old) + g[x] - 0
    BY <2>1, <2>2, <1>3, <1>5, <1>7 DEF Total
  <2>4. IsFiniteSet(Units(g))
    BY <2>1, <1>7
  <2> QED BY <2>3, <2>4, <1>1, <1>5
<1> QED BY <1>5, <1>9 DEF Summable

----------------------------------------------------------------------------
(* The log.                                                                *)

Moves(log) == [t \in DOMAIN log |-> log[t] * t.amount]

WellFormedLog(log) ==
  /\ log \in [DOMAIN log -> Nat \ {0}]
  /\ \A t \in DOMAIN log : t.amount \in Nat \ {0}
  /\ Summable(Moves(log))

\* What a row contributes grows by its amount when it is posted again.
LEMMA OneMore ==
  ASSUME NEW n \in Nat, NEW m \in Nat
  PROVE  n * m \in Nat /\ (n + 1) * m = n * m + m /\ (n + 1) * m \in Nat
OBVIOUS

\* Any selection of rows can be summed.
LEMMA SelectionSummable ==
  ASSUME NEW log, WellFormedLog(log), NEW S, S \subseteq DOMAIN log
  PROVE  Summable([t \in S |-> log[t] * t.amount])
<1> DEFINE f == [t \in S |-> log[t] * t.amount]
<1>1. \A t \in S : log[t] * t.amount \in Nat
  BY OneMore DEF WellFormedLog
<1>2. Units(f) \subseteq Units(Moves(log))
  <2> SUFFICES ASSUME NEW u \in Units(f) PROVE u \in Units(Moves(log))
    OBVIOUS
  <2>1. PICK t \in S : u \in {t} \X (1 .. f[t])
    BY UnitsMember
  <2>2. t \in DOMAIN Moves(log) /\ Moves(log)[t] = f[t]
    BY <2>1 DEF Moves
  <2>3. u \in {t} \X (1 .. Moves(log)[t])
    BY <2>1, <2>2
  <2> QED BY <2>2, <2>3, UnitsMember
<1>3. IsFiniteSet(Units(f))
  BY <1>2, FS_Subset DEF WellFormedLog, Summable
<1> QED BY <1>1, <1>3 DEF Summable

\* A posted row adds its amount to every selection it belongs to.
LEMMA PostCounted ==
  ASSUME NEW log, WellFormedLog(log), NEW tx, tx.amount \in Nat \ {0},
         NEW S, S \subseteq DOMAIN log, tx \in DOMAIN log => tx \in S
  PROVE  /\ Volume(log, S) \in Nat
         /\ Volume(Post(log, tx), S \cup {tx}) = Volume(log, S) + tx.amount
         /\ Summable([t \in S \cup {tx} |-> Post(log, tx)[t] * t.amount])
<1> DEFINE f == [t \in S |-> log[t] * t.amount]
           g == [t \in S \cup {tx} |-> Post(log, tx)[t] * t.amount]
           n == Copies(tx, log)
<1>1. Summable(f)
  BY SelectionSummable
<1>2. n \in Nat
  BY DEF Copies, WellFormedLog
<1>3. \A t \in S \ {tx} : Post(log, tx)[t] = log[t]
  BY DEF Post, Copies, WellFormedLog
<1>4. Post(log, tx)[tx] = n + 1
  BY DEF Post
<1>5. n * tx.amount \in Nat /\ g[tx] = n * tx.amount + tx.amount /\ g[tx] \in Nat
  BY <1>2, <1>4, OneMore
<1>6. g \in [DOMAIN f \cup {tx} -> Nat] /\ \A t \in DOMAIN f \ {tx} : g[t] = f[t]
  <2>1. \A t \in S \ {tx} : g[t] = f[t]
    BY <1>3
  <2>2. \A t \in S : f[t] \in Nat
    BY <1>1 DEF Summable
  <2> QED BY <2>1, <2>2, <1>5
<1>7. (IF tx \in DOMAIN f THEN f[tx] ELSE 0) = n * tx.amount
  <2>1. CASE tx \in S
    BY <2>1 DEF Copies
  <2>2. CASE tx \notin S
    BY <2>2 DEF Copies
  <2> QED BY <2>1, <2>2
<1>8. /\ Summable(g)
      /\ Total(f) \in Nat
      /\ Total(g) = Total(f) - (IF tx \in DOMAIN f THEN f[tx] ELSE 0) + g[tx]
  BY <1>1, <1>6, TotalChange
<1>9. Total(g) = Total(f) + tx.amount
  BY <1>5, <1>7, <1>8
<1> QED BY <1>8, <1>9 DEF Volume

\* ... and leaves every other selection alone.
LEMMA PostIgnored ==
  ASSUME NEW log, WellFormedLog(log), NEW tx,
         NEW S, S \subseteq DOMAIN log, tx \notin S
  PROVE  Volume(Post(log, tx), S) = Volume(log, S)
<1>1. \A t \in S : Post(log, tx)[t] = log[t]
  BY DEF Post, Copies, WellFormedLog
<1>2. [t \in S |-> Post(log, tx)[t] * t.amount] = [t \in S |-> log[t] * t.amount]
  BY <1>1
<1> QED BY <1>2 DEF Volume

\* The log stays well formed.
LEMMA PostWellFormed ==
  ASSUME NEW log, WellFormedLog(log), NEW tx, tx.amount \in Nat \ {0}
  PROVE  WellFormedLog(Post(log, tx)) /\ DOMAIN Post(log, tx) = DOMAIN log \cup {tx}
<1>1. DOMAIN Post(log, tx) = DOMAIN log \cup {tx}
  BY DEF Post
<1>2. Post(log, tx) \in [DOMAIN Post(log, tx) -> Nat \ {0}]
  BY DEF Post, Copies, WellFormedLog
<1>3. Summable([t \in DOMAIN log \cup {tx} |-> Post(log, tx)[t] * t.amount])
  BY PostCounted
<1>4. Summable(Moves(Post(log, tx)))
  BY <1>1, <1>3 DEF Moves
<1> QED BY <1>1, <1>2, <1>4 DEF WellFormedLog

----------------------------------------------------------------------------
(* The books.                                                              *)

\* The inductive invariant: well-typed books whose balances are explained
\* by the log, whose total was minted, and whose grants happened once.
SoundBooks(b) ==
  /\ b = [balance |-> b.balance, log |-> b.log]
  /\ DOMAIN b.balance \subseteq Accounts
  /\ Summable(b.balance)
  /\ WellFormedLog(b.log)
  /\ Balanced(b)
  /\ Explained(b)
  /\ GrantedOnce(b)

MintedBy(log)     == {t \in DOMAIN log : t.from = NULL}
NamedTo(log, a)   == {t \in DOMAIN log : t.to = a}
NamedFrom(log, a) == {t \in DOMAIN log : t.from = a}

\* What one posted row does to the three sums the books are judged by.
LEMMA PostSums ==
  ASSUME NEW log, WellFormedLog(log), NEW tx, tx.amount \in Nat \ {0}, NEW a
  PROVE  LET log2 == Post(log, tx)
             Added(sel) == IF sel THEN tx.amount ELSE 0
         IN  /\ Volume(log, MintedBy(log)) \in Nat
             /\ Volume(log, NamedTo(log, a)) \in Nat
             /\ Volume(log, NamedFrom(log, a)) \in Nat
             /\ Volume(log2, MintedBy(log2))
                  = Volume(log, MintedBy(log)) + Added(tx.from = NULL)
             /\ Volume(log2, NamedTo(log2, a))
                  = Volume(log, NamedTo(log, a)) + Added(tx.to = a)
             /\ Volume(log2, NamedFrom(log2, a))
                  = Volume(log, NamedFrom(log, a)) + Added(tx.from = a)
<1> DEFINE log2 == Post(log, tx)
<1>1. DOMAIN log2 = DOMAIN log \cup {tx}
  BY PostWellFormed
<1>2. \A S \in SUBSET DOMAIN log :
        (tx \in DOMAIN log => tx \in S)
          => /\ Volume(log, S) \in Nat
             /\ Volume(log2, S \cup {tx}) = Volume(log, S) + tx.amount
  BY PostCounted
<1>3. \A S \in SUBSET DOMAIN log :
        tx \notin S => Volume(log2, S) = Volume(log, S)
  BY PostIgnored
<1>4. \A S \in SUBSET DOMAIN log : Volume(log, S) \in Nat
  <2> TAKE S \in SUBSET DOMAIN log
  <2>1. Summable([t \in S |-> log[t] * t.amount])
    BY SelectionSummable
  <2> QED BY <2>1, FS_CardinalityType DEF Summable, Volume, Total
<1>5. Volume(log2, MintedBy(log2))
        = Volume(log, MintedBy(log)) + (IF tx.from = NULL THEN tx.amount ELSE 0)
  <2>1. CASE tx.from = NULL
    <3>1. MintedBy(log2) = MintedBy(log) \cup {tx}
      BY <1>1, <2>1 DEF MintedBy
    <3>2. MintedBy(log) \in SUBSET DOMAIN log /\ (tx \in DOMAIN log => tx \in MintedBy(log))
      BY <2>1 DEF MintedBy
    <3> QED BY <1>2, <2>1, <3>1, <3>2
  <2>2. CASE tx.from # NULL
    <3>1. MintedBy(log2) = MintedBy(log) /\ tx \notin MintedBy(log)
      BY <1>1, <2>2 DEF MintedBy
    <3>2. MintedBy(log) \in SUBSET DOMAIN log
      BY DEF MintedBy
    <3> QED BY <1>3, <1>4, <2>2, <3>1, <3>2
  <2> QED BY <2>1, <2>2
<1>6. Volume(log2, NamedTo(log2, a))
        = Volume(log, NamedTo(log, a)) + (IF tx.to = a THEN tx.amount ELSE 0)
  <2>1. CASE tx.to = a
    <3>1. NamedTo(log2, a) = NamedTo(log, a) \cup {tx}
      BY <1>1, <2>1 DEF NamedTo
    <3>2. NamedTo(log, a) \in SUBSET DOMAIN log /\ (tx \in DOMAIN log => tx \in NamedTo(log, a))
      BY <2>1 DEF NamedTo
    <3> QED BY <1>2, <2>1, <3>1, <3>2
  <2>2. CASE tx.to # a
    <3>1. NamedTo(log2, a) = NamedTo(log, a) /\ tx \notin NamedTo(log, a)
      BY <1>1, <2>2 DEF NamedTo
    <3>2. NamedTo(log, a) \in SUBSET DOMAIN log
      BY DEF NamedTo
    <3> QED BY <1>3, <1>4, <2>2, <3>1, <3>2
  <2> QED BY <2>1, <2>2
<1>7. Volume(log2, NamedFrom(log2, a))
        = Volume(log, NamedFrom(log, a)) + (IF tx.from = a THEN tx.amount ELSE 0)
  <2>1. CASE tx.from = a
    <3>1. NamedFrom(log2, a) = NamedFrom(log, a) \cup {tx}
      BY <1>1, <2>1 DEF NamedFrom
    <3>2. NamedFrom(log, a) \in SUBSET DOMAIN log /\ (tx \in DOMAIN log => tx \in NamedFrom(log, a))
      BY <2>1 DEF NamedFrom
    <3> QED BY <1>2, <2>1, <3>1, <3>2
  <2>2. CASE tx.from # a
    <3>1. NamedFrom(log2, a) = NamedFrom(log, a) /\ tx \notin NamedFrom(log, a)
      BY <1>1, <2>2 DEF NamedFrom
    <3>2. NamedFrom(log, a) \in SUBSET DOMAIN log
      BY DEF NamedFrom
    <3> QED BY <1>3, <1>4, <2>2, <3>1, <3>2
  <2> QED BY <2>1, <2>2
<1>8. /\ MintedBy(log) \in SUBSET DOMAIN log
      /\ NamedTo(log, a) \in SUBSET DOMAIN log
      /\ NamedFrom(log, a) \in SUBSET DOMAIN log
  BY DEF MintedBy, NamedTo, NamedFrom
<1> QED BY <1>4, <1>5, <1>6, <1>7, <1>8

\* The first touch of an account keeps the books sound.
LEMMA EnsureBalanceSound ==
  ASSUME NEW b, SoundBooks(b), NEW a \in Accounts \cup {NULL}
  PROVE  LET e == EnsureBalance(b, a)
         IN  /\ SoundBooks(e)
             /\ DOMAIN b.balance \subseteq DOMAIN e.balance
             /\ a # NULL => a \in DOMAIN e.balance
<1> DEFINE e == EnsureBalance(b, a)
<1>1. CASE a = NULL \/ a \in DOMAIN b.balance
  BY <1>1 DEF EnsureBalance
<1>2. CASE a # NULL /\ a \notin DOMAIN b.balance
  <2> DEFINE g  == GrantTx(a)
             nb == [x \in DOMAIN b.balance \cup {a} |->
                      IF x = a THEN StartingGrant ELSE b.balance[x]]
             nl == Post(b.log, g)
  <2>1. e = [balance |-> nb, log |-> nl] /\ e.balance = nb /\ e.log = nl
    BY <1>2 DEF EnsureBalance
  <2>2. g.amount = StartingGrant /\ g.from = NULL /\ g.to = a
    BY DEF GrantTx, Tx
  <2>3. StartingGrant \in Nat \ {0} /\ a \in Accounts /\ NULL \notin Accounts
    BY <1>2, LedgerAssumption
  <2>4. Summable(nb) /\ Total(nb) = Total(b.balance) + StartingGrant
        /\ Total(b.balance) \in Nat
    <3>1. nb \in [DOMAIN b.balance \cup {a} -> Nat]
          /\ nb[a] = StartingGrant
          /\ \A y \in DOMAIN b.balance \ {a} : nb[y] = b.balance[y]
      BY <2>3, <1>2 DEF SoundBooks, Summable
    <3>2. Summable(b.balance)
      BY DEF SoundBooks
    <3>3. /\ Summable(nb)
          /\ Total(b.balance) \in Nat
          /\ Total(nb) = Total(b.balance)
               - (IF a \in DOMAIN b.balance THEN b.balance[a] ELSE 0) + nb[a]
      BY <3>1, <3>2, TotalChange
    <3> QED BY <3>1, <3>3, <1>2, <2>3
  <2>5. WellFormedLog(nl) /\ DOMAIN nl = DOMAIN b.log \cup {g}
    BY <2>2, <2>3, PostWellFormed DEF SoundBooks
  <2>6. Balanced(e)
    <3>1. Volume(nl, MintedBy(nl)) = Volume(b.log, MintedBy(b.log)) + StartingGrant
      BY <2>2, <2>3, PostSums DEF SoundBooks
    <3> QED BY <2>1, <2>4, <3>1
        DEF SoundBooks, Balanced, TotalBalance, TotalMinted, MintedBy
  <2>7. Explained(e)
    <3> SUFFICES ASSUME NEW x \in Accounts
                 PROVE  CreditedTo(e, x) - DebitedFrom(e, x) =
                          (IF x \in DOMAIN nb THEN nb[x] ELSE 0)
      BY <2>1 DEF Explained
    <3>1. /\ Volume(b.log, NamedTo(b.log, x)) \in Nat
          /\ Volume(b.log, NamedFrom(b.log, x)) \in Nat
          /\ Volume(nl, NamedTo(nl, x)) = Volume(b.log, NamedTo(b.log, x))
                                          + (IF g.to = x THEN g.amount ELSE 0)
          /\ Volume(nl, NamedFrom(nl, x)) = Volume(b.log, NamedFrom(b.log, x))
                                            + (IF g.from = x THEN g.amount ELSE 0)
      BY <2>2, <2>3, PostSums DEF SoundBooks
    <3>2. Volume(b.log, NamedTo(b.log, x)) - Volume(b.log, NamedFrom(b.log, x)) =
            (IF x \in DOMAIN b.balance THEN b.balance[x] ELSE 0)
      BY DEF SoundBooks, Explained, CreditedTo, DebitedFrom, NamedTo, NamedFrom
    <3>3. CreditedTo(e, x) = Volume(nl, NamedTo(nl, x))
          /\ DebitedFrom(e, x) = Volume(nl, NamedFrom(nl, x))
      BY <2>1 DEF CreditedTo, DebitedFrom, NamedTo, NamedFrom
    <3>4. CASE x = a
      BY <3>1, <3>2, <3>3, <3>4, <1>2, <2>2, <2>3
    <3>5. CASE x # a
      BY <3>1, <3>2, <3>3, <3>5, <2>2, <2>3
    <3> QED BY <3>4, <3>5
  <2>8. GrantedOnce(e)
    <3> SUFFICES ASSUME NEW x \in Accounts
                 PROVE  Copies(GrantTx(x), nl) = (IF x \in DOMAIN nb THEN 1 ELSE 0)
      BY <2>1 DEF GrantedOnce
    <3>1. Copies(GrantTx(x), b.log) = (IF x \in DOMAIN b.balance THEN 1 ELSE 0)
      BY DEF SoundBooks, GrantedOnce
    <3>2. x # a => GrantTx(x) # g
      BY DEF GrantTx, Tx
    <3>3. Copies(GrantTx(x), nl) = Copies(GrantTx(x), b.log) + (IF GrantTx(x) = g THEN 1 ELSE 0)
      BY <3>1 DEF Post, Copies
    <3>4. CASE x = a
      BY <3>1, <3>3, <3>4, <1>2
    <3>5. CASE x # a
      BY <3>1, <3>2, <3>3, <3>5
    <3> QED BY <3>4, <3>5
  <2>9. DOMAIN nb \subseteq Accounts
    BY <2>3 DEF SoundBooks
  <2> QED BY <2>1, <2>4, <2>5, <2>6, <2>7, <2>8, <2>9 DEF SoundBooks
<1> QED BY <1>1, <1>2

\* Two touched accounts exchange an amount the payer has (or the system
\* mints it), and the row is posted: the books stay sound.
LEMMA MoveSound ==
  ASSUME NEW b, SoundBooks(b), NEW tx,
         tx.amount \in Nat \ {0}, tx.reason # "starting_grant",
         tx.to \in DOMAIN b.balance,
         tx.from \in DOMAIN b.balance \cup {NULL},
         tx.from # NULL => b.balance[tx.from] >= tx.amount
  PROVE  SoundBooks([balance |-> Credit(Debit(b.balance, tx), tx),
                     log     |-> Post(b.log, tx)])
<1> DEFINE bal == b.balance
           deb == Debit(bal, tx)
           nb  == Credit(deb, tx)
           nl  == Post(b.log, tx)
           e   == [balance |-> nb, log |-> nl]
           m   == tx.amount
           out(x) == IF tx.from = x THEN m ELSE 0
           in(x)  == IF tx.to = x THEN m ELSE 0
<1>1. m \in Nat \ {0} /\ NULL \notin DOMAIN bal /\ Summable(bal) /\ tx.to # NULL
  BY LedgerAssumption DEF SoundBooks
<1>2. deb \in [DOMAIN bal -> Nat] /\ \A x \in DOMAIN bal : deb[x] = bal[x] - out(x)
  BY <1>1 DEF Debit, Summable
<1>3. nb \in [DOMAIN bal -> Nat]
      /\ \A x \in DOMAIN bal : nb[x] = bal[x] - out(x) + in(x)
  BY <1>1, <1>2 DEF Credit, Summable
<1>4. /\ Summable(deb)
      /\ Total(bal) \in Nat /\ Total(deb) \in Nat
      /\ Total(deb) = Total(bal) - (IF tx.from = NULL THEN 0 ELSE m)
  <2>1. CASE tx.from = NULL
    <3>1. deb = bal
      BY <2>1 DEF Debit
    <3>2. Total(bal) \in Nat
      BY <1>1, FS_CardinalityType DEF Summable, Total
    <3> QED BY <1>1, <2>1, <3>1, <3>2
  <2>2. CASE tx.from # NULL
    <3>1. tx.from \in DOMAIN bal /\ DOMAIN bal \cup {tx.from} = DOMAIN bal
      BY <2>2
    <3>2. \A y \in DOMAIN bal \ {tx.from} : deb[y] = bal[y]
      BY <1>1, <1>2 DEF Summable
    <3>3. deb \in [DOMAIN bal \cup {tx.from} -> Nat]
      BY <1>2, <3>1
    <3>4. /\ Summable(deb)
          /\ Total(bal) \in Nat
          /\ Total(deb) = Total(bal) - bal[tx.from] + deb[tx.from]
      BY <1>1, <3>1, <3>2, <3>3, TotalChange
    <3>5. deb[tx.from] = bal[tx.from] - m /\ bal[tx.from] \in Nat
      BY <1>1, <1>2, <3>1 DEF Summable
    <3>6. Total(deb) \in Nat
      BY <3>4, FS_CardinalityType DEF Summable, Total
    <3> QED BY <1>1, <2>2, <3>4, <3>5, <3>6
  <2> QED BY <2>1, <2>2
<1>5. Summable(nb) /\ Total(nb) = Total(deb) + m
  <2>1. /\ tx.to \in DOMAIN deb /\ DOMAIN deb = DOMAIN bal
        /\ DOMAIN deb \cup {tx.to} = DOMAIN bal
    BY <1>2
  <2>2. \A y \in DOMAIN deb \ {tx.to} : nb[y] = deb[y]
    BY <1>1, <1>2 DEF Credit
  <2>3. nb \in [DOMAIN deb \cup {tx.to} -> Nat]
    BY <1>3, <2>1
  <2>4. Summable(nb) /\ Total(nb) = Total(deb) - deb[tx.to] + nb[tx.to]
    BY <1>4, <2>1, <2>2, <2>3, TotalChange
  <2>5. nb[tx.to] = deb[tx.to] + m /\ deb[tx.to] \in Nat
    BY <1>1, <1>2, <2>1 DEF Credit
  <2> QED BY <1>1, <1>4, <2>4, <2>5
<1>6. WellFormedLog(nl) /\ DOMAIN nl = DOMAIN b.log \cup {tx}
  BY <1>1, PostWellFormed DEF SoundBooks
<1>7. Balanced(e)
  <2>1. Volume(nl, MintedBy(nl)) =
          Volume(b.log, MintedBy(b.log)) + (IF tx.from = NULL THEN m ELSE 0)
        /\ Volume(b.log, MintedBy(b.log)) \in Nat
    BY <1>1, PostSums DEF SoundBooks
  <2>2. Total(bal) = Volume(b.log, MintedBy(b.log))
    BY DEF SoundBooks, Balanced, TotalBalance, TotalMinted, MintedBy
  <2>3. Total(nb) = Volume(nl, MintedBy(nl))
    BY <1>1, <1>4, <1>5, <2>1, <2>2
  <2> QED BY <2>3 DEF Balanced, TotalBalance, TotalMinted, MintedBy
<1>8. Explained(e)
  <2> SUFFICES ASSUME NEW x \in Accounts
               PROVE  CreditedTo(e, x) - DebitedFrom(e, x) =
                        (IF x \in DOMAIN nb THEN nb[x] ELSE 0)
    BY DEF Explained
  <2>1. /\ Volume(b.log, NamedTo(b.log, x)) \in Nat
        /\ Volume(b.log, NamedFrom(b.log, x)) \in Nat
        /\ Volume(nl, NamedTo(nl, x)) = Volume(b.log, NamedTo(b.log, x)) + in(x)
        /\ Volume(nl, NamedFrom(nl, x)) = Volume(b.log, NamedFrom(b.log, x)) + out(x)
    BY <1>1, PostSums DEF SoundBooks
  <2>2. Volume(b.log, NamedTo(b.log, x)) - Volume(b.log, NamedFrom(b.log, x)) =
          (IF x \in DOMAIN bal THEN bal[x] ELSE 0)
    BY DEF SoundBooks, Explained, CreditedTo, DebitedFrom, NamedTo, NamedFrom
  <2>3. CreditedTo(e, x) = Volume(nl, NamedTo(nl, x))
        /\ DebitedFrom(e, x) = Volume(nl, NamedFrom(nl, x))
    BY DEF CreditedTo, DebitedFrom, NamedTo, NamedFrom
  <2>4. DOMAIN nb = DOMAIN bal /\ in(x) \in Nat /\ out(x) \in Nat
    BY <1>1, <1>3
  <2>5. CASE x \in DOMAIN bal
    <3>1. nb[x] = bal[x] - out(x) + in(x) /\ bal[x] \in Nat
      BY <1>1, <1>3, <2>5 DEF Summable
    <3> QED BY <2>1, <2>2, <2>3, <2>4, <2>5, <3>1
  <2>6. CASE x \notin DOMAIN bal
    <3>1. out(x) = 0 /\ in(x) = 0
      BY <2>6, LedgerAssumption
    <3> QED BY <2>1, <2>2, <2>3, <2>4, <2>6, <3>1
  <2> QED BY <2>5, <2>6
<1>9. GrantedOnce(e)
  <2> SUFFICES ASSUME NEW x \in Accounts
               PROVE  Copies(GrantTx(x), nl) = (IF x \in DOMAIN nb THEN 1 ELSE 0)
    BY DEF GrantedOnce
  <2>1. GrantTx(x) # tx
    BY DEF GrantTx, Tx
  <2>2. Copies(GrantTx(x), nl) = Copies(GrantTx(x), b.log)
    BY <2>1 DEF Post, Copies, SoundBooks, WellFormedLog
  <2>3. DOMAIN nb = DOMAIN bal
    BY <1>3
  <2> QED BY <2>2, <2>3 DEF SoundBooks, GrantedOnce
<1>10. DOMAIN nb \subseteq Accounts
  BY <1>3 DEF SoundBooks
<1> QED BY <1>5, <1>6, <1>7, <1>8, <1>9, <1>10 DEF SoundBooks

\* What a caller of transfer may rely on, whatever the two accounts are.
THEOREM TransferSound ==
  ASSUME NEW b, SoundBooks(b), NEW tx,
         tx.amount \in Nat \ {0}, tx.reason # "starting_grant",
         tx.to \in Accounts, tx.from \in Accounts \cup {NULL},
         Affordable(b, tx)
  PROVE  SoundBooks(Transfer(b, tx))
<1> DEFINE e1 == EnsureBalance(b, tx.from)
           e2 == EnsureBalance(e1, tx.to)
<1>1. SoundBooks(e1) /\ (tx.from # NULL => tx.from \in DOMAIN e1.balance)
  BY EnsureBalanceSound
<1>2. tx.to # NULL /\ tx.to \in Accounts \cup {NULL}
  BY LedgerAssumption
<1>3. /\ SoundBooks(e2)
      /\ DOMAIN e1.balance \subseteq DOMAIN e2.balance
      /\ tx.to \in DOMAIN e2.balance
  BY <1>1, <1>2, EnsureBalanceSound
<1>4. \A x \in DOMAIN e1.balance : e2.balance[x] = e1.balance[x]
  BY DEF EnsureBalance
<1>5. tx.from # NULL => e2.balance[tx.from] >= tx.amount
  BY <1>1, <1>4 DEF Affordable
<1>6. tx.from \in DOMAIN e2.balance \cup {NULL}
  BY <1>1, <1>3
<1>7. SoundBooks([balance |-> Credit(Debit(e2.balance, tx), tx),
                  log     |-> Post(e2.log, tx)])
  BY <1>3, <1>5, <1>6, MoveSound
<1> QED BY <1>7 DEF Transfer

\* No transaction has happened yet.
LEMMA EmptyBooksSound == SoundBooks(EmptyBooks)
<1> DEFINE z == [a \in {} |-> 0]
<1>1. \A f : DOMAIN f = {} => Units(f) = {}
  BY UnitsMember
<1>2. \A f : f = [x \in DOMAIN f |-> f[x]] /\ DOMAIN f = {} => Summable(f) /\ Total(f) = 0
  BY <1>1, FS_EmptySet DEF Summable, Total
<1>3. Summable(EmptyBooks.balance) /\ Total(EmptyBooks.balance) = 0
  BY <1>2 DEF EmptyBooks
<1>4. \A S : S = {} => Volume(EmptyBooks.log, S) = 0
  BY <1>2 DEF Volume
<1>5. WellFormedLog(EmptyBooks.log)
  <2>1. Summable(Moves(EmptyBooks.log))
    BY <1>2 DEF Moves, EmptyBooks
  <2> QED BY <2>1 DEF WellFormedLog, EmptyBooks
<1>6. Balanced(EmptyBooks)
  <2>1. {t \in DOMAIN EmptyBooks.log : t.from = NULL} = {}
    BY DEF EmptyBooks
  <2> QED BY <1>3, <1>4, <2>1 DEF Balanced, TotalBalance, TotalMinted
<1>7. Explained(EmptyBooks)
  <2>1. \A a : {t \in DOMAIN EmptyBooks.log : t.to = a} = {}
               /\ {t \in DOMAIN EmptyBooks.log : t.from = a} = {}
    BY DEF EmptyBooks
  <2>2. DOMAIN EmptyBooks.balance = {}
    BY DEF EmptyBooks
  <2> QED BY <1>4, <2>1, <2>2 DEF Explained, CreditedTo, DebitedFrom
<1>8. GrantedOnce(EmptyBooks)
  BY DEF GrantedOnce, Copies, EmptyBooks
<1> QED BY <1>3, <1>5, <1>6, <1>7, <1>8 DEF SoundBooks, EmptyBooks
=============================================================================
