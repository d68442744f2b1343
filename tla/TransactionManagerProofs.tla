---------------------- MODULE TransactionManagerProofs ----------------------
(***************************************************************************)
(* What TransactionManager promises, for every set of tables, every list   *)
(* of triggers and every number of statements: transactions are isolated,  *)
(* statements are executed in order, triggers answer, all until a BEGIN,   *)
(* COMMIT or ROLLBACK that a trigger sends takes effect (meddled): a COMMIT*)
(* within a COMMIT executes statements twice.                              *)
(*                                                                         *)
(* The inductive invariant IInv says where each statement there has been   *)
(* is.  A place is an entry of the log, the call that executes a           *)
(* statement, an entry of the buffer a COMMIT has not reached, or a call   *)
(* with no executor yet: a statement is at one place (Apart), clients'     *)
(* statements are at places in the order they were sent (Sorted), and the  *)
(* statements of triggers name the INSERT that caused them (Caused).  That *)
(* every action keeps this needs how calls nest (Nested).                  *)
(***************************************************************************)
EXTENDS TransactionManager, FiniteSetTheorems, WellFoundedInduction, TLAPS

-----------------------------------------------------------------------------
(* Numbers and sequences.                                                  *)

\* A set of naturals that is not empty has a least element.
LEMMA LeastNatural ==
    ASSUME NEW T \in SUBSET Nat, T # {}
    PROVE  \E m \in T : \A k \in T : m <= k
  <1>1. PICK m \in T : \A k \in T : <<k, m>> \notin OpToRel(<, Nat)
    BY WFMin, NatLessThanWellFounded
  <1>2. \A k \in T : ~ (k < m)
    <2>1. OpToRel(<, Nat) = {ss \in Nat \X Nat : ss[1] < ss[2]}
      BY DEF OpToRel
    <2> QED
      BY <1>1, <2>1
  <1> QED
    BY <1>2

\* Induction, about sets: what holds of 0 and of the successor of every number
\* up to n it holds of, holds of every number up to n.
LEMMA InductionUpTo ==
    ASSUME NEW n \in Nat, NEW T, 0 \in T,
           \A k \in 0 .. n : k \in T /\ k < n => k + 1 \in T
    PROVE  0 .. n \subseteq T
  <1> SUFFICES ASSUME (0 .. n) \ T # {}
               PROVE  FALSE
    OBVIOUS
  <1>1. PICK m \in (0 .. n) \ T : \A k \in (0 .. n) \ T : m <= k
    <2>1. (0 .. n) \ T \in SUBSET Nat
      OBVIOUS
    <2> QED
      BY <2>1, LeastNatural
  <1>2. m # 0 /\ m - 1 \in 0 .. n /\ m - 1 < n
    BY <1>1
  <1>3. m - 1 \in T
    BY <1>1, <1>2
  <1>4. m \in T
    BY <1>2, <1>3
  <1> QED
    BY <1>1, <1>4

Rises(m) == \A k, l \in DOMAIN m : k < l => m[k] < m[l]

\* A set of numbers up to n can be enumerated in increasing order.
LEMMA RisingExists ==
    ASSUME NEW n \in Nat, NEW S \in SUBSET (1 .. n)
    PROVE  \E m \in SetToSeqs(S) : Rises(m)
  <1> DEFINE Lists(l, m, k) == /\ \A i, j \in 1 .. l : i < j => m[i] < m[j]
                               /\ \A i \in 1 .. l : m[i] <= k
                               /\ \A s \in S : s <= k => \E i \in 1 .. l : m[i] = s
             Listed(k) == \E l \in Nat : \E m \in [1 .. l -> S] : Lists(l, m, k)
             T == {k \in 0 .. n : Listed(k)}
  <1>1. 0 \in T
    <2> DEFINE m == [i \in 1 .. 0 |-> 1]
    <2>1. m \in [1 .. 0 -> S] /\ Lists(0, m, 0)
      OBVIOUS
    <2>2. Listed(0)
      BY <2>1
    <2> QED
      BY <2>2
  <1>2. ASSUME NEW k \in 0 .. n, k \in T, k < n
        PROVE  k + 1 \in T
    <2>1. PICK l \in Nat : \E m \in [1 .. l -> S] : Lists(l, m, k)
      BY <1>2
    <2>2. PICK m \in [1 .. l -> S] : Lists(l, m, k)
      BY <2>1
    <2>0. \A i \in 1 .. l : m[i] \in S /\ m[i] \in 1 .. n
      OBVIOUS
    <2>3. CASE k + 1 \notin S
      <3>1. \A s \in S : s <= k + 1 => s <= k
        BY <2>3
      <3>2. \A i \in 1 .. l : m[i] <= k + 1
        BY <2>0, <2>2
      <3>3. Lists(l, m, k + 1)
        BY <3>1, <3>2, <2>2
      <3>4. Listed(k + 1)
        BY <3>3
      <3> QED
        BY SMTT(60), <3>4, <1>2
    <2>4. CASE k + 1 \in S
      <3> DEFINE w == [i \in 1 .. l + 1 |-> IF i <= l THEN m[i] ELSE k + 1]
      <3>1. w \in [1 .. l + 1 -> S]
        BY <2>4
      <3>2. \A i \in 1 .. l : w[i] = m[i] /\ m[i] \in S /\ m[i] \in Nat
        BY <2>0
      <3>3. w[l + 1] = k + 1
        OBVIOUS
      <3> HIDE DEF w
      <3>4. Lists(l + 1, w, k + 1)
        <4>1. ASSUME NEW i \in 1 .. l + 1, NEW j \in 1 .. l + 1, i < j
              PROVE  w[i] < w[j]
          <5>1. i \in 1 .. l /\ w[i] = m[i] /\ m[i] <= k /\ m[i] \in Nat
            BY <4>1, <3>2, <2>2
          <5>2. CASE j = l + 1
            BY <5>1, <5>2, <3>3
          <5>3. CASE j \in 1 .. l
            BY <5>1, <5>3, <4>1, <3>2, <2>2
          <5> QED
            BY <5>2, <5>3
        <4>2. ASSUME NEW i \in 1 .. l + 1
              PROVE  w[i] <= k + 1
          BY <3>2, <3>3, <2>2
        <4>3. ASSUME NEW s \in S, s <= k + 1
              PROVE  \E i \in 1 .. l + 1 : w[i] = s
          <5>1. CASE s = k + 1
            BY <5>1, <3>3
          <5>2. CASE s # k + 1
            <6>1. s <= k
              BY <4>3, <5>2
            <6>2. PICK i \in 1 .. l : m[i] = s
              BY <6>1, <2>2
            <6> QED
              BY <6>2, <3>2
          <5> QED
            BY <5>1, <5>2
        <4> QED
          BY <4>1, <4>2, <4>3
      <3>5. Listed(k + 1)
        BY <3>1, <3>4
      <3> QED
        BY SMTT(60), <3>5, <1>2
    <2> QED
      BY <2>3, <2>4
  <1>3. Listed(n)
    <2>1. n \in T
      <3> HIDE DEF T
      <3>1. 0 .. n \subseteq T
        BY <1>1, <1>2, InductionUpTo
      <3> QED
        BY <3>1
    <2> QED
      BY <2>1
  <1>4. PICK l \in Nat : \E m \in [1 .. l -> S] : Lists(l, m, n)
    BY <1>3
  <1>5. PICK m \in [1 .. l -> S] : Lists(l, m, n)
    BY <1>4
  <1>6. \A i, j \in 1 .. l : i # j => m[i] # m[j]
    <2> SUFFICES ASSUME NEW i \in 1 .. l, NEW j \in 1 .. l, i < j
                 PROVE  m[i] # m[j]
      OBVIOUS
    <2>1. m[i] \in 1 .. n /\ m[j] \in 1 .. n
      OBVIOUS
    <2>2. m[i] < m[j]
      BY <1>5
    <2> QED
      BY <2>1, <2>2
  <1>7. \A s \in S : \E i \in 1 .. l : m[i] = s
    BY <1>5
  <1>8. Cardinality(S) = l
    <2>1. m \in Bijection(1 .. l, S)
      BY <1>6, <1>7 DEF Bijection, Injection, Surjection, IsInjective
    <2> QED
      BY <2>1, FS_CountingElements DEF ExistsBijection
  <1>9. Rises(m)
    BY <1>5 DEF Rises
  <1>10. m \in SetToSeqs(S)
    BY <1>6, <1>8 DEF SetToSeqs
  <1> QED
    BY <1>9, <1>10

\* What enumerates it in increasing order has every member at one place.
LEMMA RisingFacts ==
    ASSUME NEW n \in Nat, NEW S \in SUBSET (1 .. n), NEW m \in SetToSeqs(S)
    PROVE  /\ m \in Seq(S) /\ DOMAIN m = 1 .. Len(m) /\ Len(m) \in Nat
           /\ \A k \in DOMAIN m : m[k] \in S
           /\ \A i \in S : \E k \in DOMAIN m : m[k] = i
           /\ \A k, l \in DOMAIN m : m[k] = m[l] => k = l
  <1>1. IsFiniteSet(S) /\ Cardinality(S) \in Nat
    <2>1. IsFiniteSet(1 .. n)
      BY FS_Interval
    <2>2. IsFiniteSet(S)
      BY <2>1, FS_Subset
    <2> QED
      BY <2>2, FS_CardinalityType
  <1> DEFINE c == Cardinality(S)
  <1>2. m \in [1 .. c -> S] /\ \A i, j \in 1 .. c : i # j => m[i] # m[j]
    BY DEF SetToSeqs
  <1>3. m \in Injection(1 .. c, S)
    BY <1>2 DEF Injection, IsInjective
  <1>4. IsFiniteSet(1 .. c) /\ Cardinality(1 .. c) = c
    BY <1>1, FS_Interval
  <1>5. m \in Surjection(1 .. c, S)
    BY <1>1, <1>3, <1>4, FS_Injection
  <1>6. m \in Seq(S) /\ Len(m) = c
    BY <1>1, <1>2
  <1> QED
    BY <1>1, <1>2, <1>5, <1>6 DEF Surjection

\* What a sequence is made of.
LEMMA SeqFacts ==
    ASSUME NEW T, NEW s \in Seq(T)
    PROVE  /\ Len(s) \in Nat /\ DOMAIN s = 1 .. Len(s)
           /\ \A k \in 1 .. Len(s) : s[k] \in T
  OBVIOUS

\* A sequence without its head.
LEMMA TailFacts ==
    ASSUME NEW T, NEW s \in Seq(T), s # <<>>
    PROVE  /\ Len(s) \in Nat \ {0} /\ Head(s) = s[1] /\ Head(s) \in T
           /\ Tail(s) \in Seq(T) /\ Len(Tail(s)) = Len(s) - 1
           /\ DOMAIN Tail(s) = 1 .. Len(s) - 1
           /\ \A k \in 1 .. Len(s) - 1 : Tail(s)[k] = s[k + 1]
  OBVIOUS

\* A sequence with one more element.
LEMMA AppendFacts ==
    ASSUME NEW T, NEW s \in Seq(T), NEW e \in T
    PROVE  /\ Append(s, e) \in Seq(T) /\ Len(Append(s, e)) = Len(s) + 1
           /\ DOMAIN Append(s, e) = 1 .. Len(s) + 1
           /\ \A k \in 1 .. Len(s) : Append(s, e)[k] = s[k]
           /\ Append(s, e)[Len(s) + 1] = e
  OBVIOUS

\* A sequence of one element, and one of two, without its first elements.
LEMMA EmptyTails ==
    ASSUME NEW T, NEW s \in Seq(T)
    PROVE  /\ Len(s) = 1 => Tail(s) = <<>>
           /\ Len(s) = 2 => Tail(Tail(s)) = <<>>
  <1>1. ASSUME NEW t \in Seq(T), Len(t) = 0
        PROVE  t = <<>>
    BY <1>1
  <1>2. ASSUME NEW t \in Seq(T), Len(t) = 1
        PROVE  Tail(t) = <<>>
    <2>1. t # <<>>
      <3> SUFFICES ASSUME t = <<>>
                   PROVE  FALSE
        OBVIOUS
      <3>1. Len(t) = 0
        OBVIOUS
      <3> QED
        BY <1>2, <3>1
    <2>2. Tail(t) \in Seq(T) /\ Len(Tail(t)) = 0
      BY <1>2, <2>1, TailFacts
    <2> QED
      BY <2>2, <1>1
  <1>3. ASSUME Len(s) = 2
        PROVE  Tail(Tail(s)) = <<>>
    <2>1. s # <<>>
      BY <1>3
    <2>2. Tail(s) \in Seq(T) /\ Len(Tail(s)) = 1
      BY <1>3, <2>1, TailFacts
    <2> QED
      BY <2>2, <1>2
  <1> QED
    BY <1>2, <1>3

\* Two sequences in a row.
LEMMA ConcatFacts ==
    ASSUME NEW T, NEW s \in Seq(T), NEW t \in Seq(T)
    PROVE  /\ s \o t \in Seq(T) /\ Len(s \o t) = Len(s) + Len(t)
           /\ DOMAIN (s \o t) = 1 .. Len(s) + Len(t)
           /\ \A k \in 1 .. Len(s) : (s \o t)[k] = s[k]
           /\ \A k \in 1 .. Len(t) : (s \o t)[Len(s) + k] = t[k]
  <1>1. Len(s) \in Nat /\ Len(t) \in Nat
    OBVIOUS
  <1>2. s \o t \in Seq(T) /\ Len(s \o t) = Len(s) + Len(t)
    OBVIOUS
  <1>3. \A k \in 1 .. Len(s) : (s \o t)[k] = s[k]
    OBVIOUS
  <1>4. \A k \in 1 .. Len(t) : (s \o t)[Len(s) + k] = t[k]
    BY <1>1
  <1> QED
    BY <1>1, <1>2, <1>3, <1>4

\* A sequence with e between b and a.
LEMMA BetweenFacts ==
    ASSUME NEW T, NEW b \in Seq(T), NEW e \in T, NEW a \in Seq(T)
    PROVE  LET c == b \o <<e>> \o a
           IN /\ c \in Seq(T) /\ Len(c) = Len(b) + 1 + Len(a)
              /\ \A k \in 1 .. Len(b) : c[k] = b[k]
              /\ c[Len(b) + 1] = e
              /\ \A k \in 1 .. Len(a) : c[Len(b) + 1 + k] = a[k]
              /\ \A k \in 1 .. Len(c) : \/ k \in 1 .. Len(b) /\ c[k] = b[k]
                                        \/ k = Len(b) + 1
                                        \/ /\ k - Len(b) - 1 \in 1 .. Len(a)
                                           /\ c[k] = a[k - Len(b) - 1]
  <1> DEFINE d == b \o <<e>>
             c == d \o a
             lb == Len(b)
             la == Len(a)
  <1>1. lb \in Nat /\ la \in Nat
    OBVIOUS
  <1>2. <<e>> \in Seq(T) /\ Len(<<e>>) = 1 /\ <<e>>[1] = e
    OBVIOUS
  <1>3. d \in Seq(T) /\ Len(d) = lb + 1 /\ \A k \in 1 .. lb : d[k] = b[k]
    BY <1>1, <1>2, ConcatFacts
  <1>4. d[lb + 1] = e
    BY <1>1, <1>2, ConcatFacts
  <1> HIDE DEF d
  <1>5. c \in Seq(T) /\ Len(c) = lb + 1 + la /\ \A k \in 1 .. lb + 1 : c[k] = d[k]
    <2>1. /\ c \in Seq(T) /\ Len(c) = Len(d) + Len(a)
          /\ \A k \in 1 .. Len(d) : c[k] = d[k]
      BY <1>3, ConcatFacts
    <2> HIDE DEF c
    <2> QED
      BY <2>1, <1>3
  <1>6. \A k \in 1 .. la : c[lb + 1 + k] = a[k]
    <2>1. \A k \in 1 .. la : (d \o a)[Len(d) + k] = a[k]
      BY <1>3, ConcatFacts
    <2> QED
      BY <2>1, <1>3
  <1> HIDE DEF c, la, lb
  <1>7. (\A k \in 1 .. lb : c[k] = b[k]) /\ c[lb + 1] = e
    BY <1>1, <1>3, <1>4, <1>5
  <1>8. ASSUME NEW k \in 1 .. Len(c), k \notin 1 .. lb, k # lb + 1
        PROVE  k - lb - 1 \in 1 .. la /\ c[k] = a[k - lb - 1]
    <2>1. k - lb - 1 \in 1 .. la
      BY <1>1, <1>5, <1>8
    <2>2. lb + 1 + (k - lb - 1) = k
      BY <1>1
    <2> QED
      BY <2>1, <2>2, <1>6
  <1> QED
    BY <1>5, <1>6, <1>7, <1>8 DEF c, d, la, lb

-----------------------------------------------------------------------------
(* The invariant.                                                          *)

Op == [id : Nat, kind : Actions, table : Tables, cause : Nat, trigger : Nat]

CallType ==
    [call : {"query"}, op : Op]
    \cup [call : {"execute"}, op : Op, from : {"query", "commit", "update"}]
    \cup [call : {"insertMany"}, op : Op]
    \cup [call : {"store"}, op : Op]
    \cup [call : {"commit"}, at : Nat \ {0}, over : {"buffer"}, ops : {<<>>}]

\* The fields have their types.
Typed ==
    /\ tm \in [state : {"IDLE", "ACTIVE"}, buffer : Seq(Op)]
    /\ todo \in Seq(CallType)
    /\ tables \in SUBSET Tables
    /\ log \in Seq(Op)
    /\ sent \in Nat
    /\ gone \in SUBSET Op
    /\ failed \in SUBSET Op

\* The calls under way about a statement.
InTodo == {i \in DOMAIN todo : todo[i].call # "commit"}

\* The place in the buffer from which statements wait for their execution.
At == IF Committing THEN todo[Len(todo)].at ELSE 1

\* How calls nest.  The call of a COMMIT is the oldest, an executor's is the
\* youngest.  While a COMMIT runs, the statement executed is the one before
\* the place its loop has come to, or a row that an UPDATE inserts again; else
\* statements are executed outside transactions only.
Nested ==
    /\ \A i \in DOMAIN todo :
          /\ todo[i].call = "commit" => i = Len(todo)
          /\ todo[i].call = "execute" => i = 1
          /\ todo[i].call = "execute" /\ todo[i].from = "query" =>
                ~ Committing /\ ~ Active
          /\ todo[i].call = "execute" /\ todo[i].from = "commit" =>
                /\ Committing /\ Len(todo) = 2
                /\ At > 1 /\ todo[i].op = tm.buffer[At - 1]
    /\ Committing => Active /\ At \in 1 .. Len(tm.buffer) + 1
    /\ ~ Active => tm.buffer = <<>>

\* Every step but those in which a trigger meddles.
Quiet ==
    \/ Begin \/ Commit \/ Rollback
    \/ \E t \in Tables : \/ \E kind \in Kinds : SendDml(kind, t)
                        \/ CreateTable(t)
                        \/ DropTable(t)
    \/ RouteDml \/ RunTable \/ Refuse \/ Run \/ RunInsert \/ StoreRow
    \/ Fail \/ CommitNext \/ CommitEnd
    \/ UNCHANGED vars

LEMMA QuietStep ==
    ASSUME [Next]_vars, ~ meddled'
    PROVE  ~ meddled /\ Quiet
  <1>1. ~ (BeginWithin \/ CommitWithin \/ RollbackWithin)
    BY DEF BeginWithin, CommitWithin, RollbackWithin, Meddle
  <1>2. Quiet
    BY <1>1 DEF Next, Step, Quiet
  <1>3. meddled' = meddled
    BY <1>2 DEF Quiet, Begin, Commit, Rollback, SendDml, CreateTable, DropTable,
                RouteDml, RunTable, Refuse, Run, RunInsert, StoreRow, Fail,
                CommitNext, CommitEnd, vars
  <1> QED
    BY <1>2, <1>3

-----------------------------------------------------------------------------
(* Calls.                                                                  *)

LEMMA CallsTyped ==
    ASSUME NEW op \in Op, NEW from \in {"query", "commit", "update"}, NEW i \in Nat \ {0}
    PROVE  /\ Query(op) \in CallType /\ Query(op).call = "query" /\ Query(op).op = op
           /\ Execute(op, from) \in CallType /\ Execute(op, from).call = "execute"
           /\ Execute(op, from).op = op /\ Execute(op, from).from = from
           /\ InsertMany(op) \in CallType /\ InsertMany(op).call = "insertMany"
           /\ InsertMany(op).op = op
           /\ Store(op) \in CallType /\ Store(op).call = "store" /\ Store(op).op = op
           /\ CommitFrom(i) \in CallType /\ CommitFrom(i).call = "commit"
           /\ CommitFrom(i).at = i
  BY DEF Query, Execute, InsertMany, Store, CommitFrom, CallType

LEMMA CallFields ==
    ASSUME NEW c \in CallType
    PROVE  /\ c.call \in {"query", "execute", "insertMany", "store", "commit"}
           /\ c.call # "commit" => c.op \in Op
           /\ c.call = "commit" =>
                 /\ c.at \in Nat \ {0} /\ Loop(c) = tm.buffer
                 /\ [c EXCEPT !.at = c.at + 1] = CommitFrom(c.at + 1)
           /\ c.call = "execute" => c.from \in {"query", "commit", "update"}
  <1>1. CASE c.call # "commit"
    BY <1>1 DEF CallType
  <1>2. CASE c.call = "commit"
    <2>1. c \in [call : {"commit"}, at : Nat \ {0}, over : {"buffer"}, ops : {<<>>}]
      BY <1>2 DEF CallType
    <2>2. c.at \in Nat \ {0} /\ c.over = "buffer"
      BY <2>1
    <2>3. c = [call |-> "commit", at |-> c.at, over |-> "buffer", ops |-> <<>>]
      BY <2>1
    <2>4. [c EXCEPT !.at = c.at + 1] = CommitFrom(c.at + 1)
      BY <2>3 DEF CommitFrom
    <2> QED
      BY <1>2, <2>2, <2>4 DEF Loop
  <1> QED
    BY <1>1, <1>2

LEMMA TriggersTyped ==
    /\ DOMAIN Triggers = 1 .. Len(Triggers) /\ Len(Triggers) \in Nat
    /\ \A i \in DOMAIN Triggers :
          /\ Triggers[i].kind \in Actions /\ Triggers[i].target \in Tables
          /\ Triggers[i].timing \in {"BEFORE", "AFTER"}
  <1> DEFINE T == [table : Tables, event : Kinds, timing : {"BEFORE", "AFTER"},
                   kind : Actions, target : Tables]
  <1>1. \A t \in T : /\ t.kind \in Actions /\ t.target \in Tables
                     /\ t.timing \in {"BEFORE", "AFTER"}
    OBVIOUS
  <1>2. Triggers \in Seq(T)
    BY TriggerAssumption
  <1> HIDE DEF T
  <1>3. DOMAIN Triggers = 1 .. Len(Triggers) /\ Len(Triggers) \in Nat
        /\ \A i \in DOMAIN Triggers : Triggers[i] \in T
    BY <1>2
  <1> QED
    BY <1>1, <1>3

\* What executeTriggers sends: a statement for every trigger that matches, one
\* for each, numbered from n + 1 on.
LEMMA FiredFacts ==
    ASSUME NEW op \in Op, NEW timing \in {"BEFORE", "AFTER"}, NEW n \in Nat
    PROVE  LET f == Fired(op, timing, n)
               matching == {i \in DOMAIN Triggers : /\ Triggers[i].table = op.table
                                                    /\ Triggers[i].event = "INSERT"
                                                    /\ Triggers[i].timing = timing}
           IN /\ f \in Seq(CallType) /\ Len(f) \in Nat /\ DOMAIN f = 1 .. Len(f)
              /\ \A k \in 1 .. Len(f) :
                    /\ f[k].call = "query" /\ f[k].op \in Op
                    /\ f[k].op.id = n + k /\ f[k].op.cause = op.id
                    /\ f[k].op.trigger \in matching
              /\ \A k, l \in 1 .. Len(f) : f[k].op.trigger = f[l].op.trigger => k = l
              /\ \A i \in matching : \E k \in 1 .. Len(f) : f[k].op.trigger = i
  <1> DEFINE matching == {i \in DOMAIN Triggers : /\ Triggers[i].table = op.table
                                                  /\ Triggers[i].event = "INSERT"
                                                  /\ Triggers[i].timing = timing}
             m == Matching(op, "INSERT", timing)
             f == Fired(op, timing, n)
  <1>1. /\ DOMAIN Triggers = 1 .. Len(Triggers) /\ Len(Triggers) \in Nat
        /\ \A i \in DOMAIN Triggers : Triggers[i].kind \in Actions /\ Triggers[i].target \in Tables
    BY TriggersTyped
  <1>2. matching \in SUBSET (1 .. Len(Triggers))
    BY <1>1
  <1>3. m \in SetToSeqs(matching)
    <2> DEFINE Up(s) == \A k, l \in DOMAIN s : k < l => s[k] < s[l]
    <2>1. \E s \in SetToSeqs(matching) : Up(s)
      BY <1>1, <1>2, RisingExists DEF Rises
    <2>2. m = CHOOSE s \in SetToSeqs(matching) : Up(s)
      BY DEF Matching
    <2> HIDE DEF m, matching, Up
    <2> QED
      BY <2>1, <2>2
  <1> HIDE DEF m
  <1>4. /\ m \in Seq(matching) /\ DOMAIN m = 1 .. Len(m) /\ Len(m) \in Nat
        /\ \A k \in DOMAIN m : m[k] \in matching
        /\ \A i \in matching : \E k \in DOMAIN m : m[k] = i
        /\ \A k, l \in DOMAIN m : m[k] = m[l] => k = l
    <2> HIDE DEF matching
    <2> QED
      BY <1>1, <1>2, <1>3, RisingFacts
  <1> DEFINE st(k) == Statement(n + k, Triggers[m[k]].kind, Triggers[m[k]].target,
                                op.id, m[k])
  <1>5. f = [k \in 1 .. Len(m) |-> Query(st(k))]
    BY <1>4 DEF Fired, m
  <1>6. ASSUME NEW k \in 1 .. Len(m)
        PROVE  /\ st(k) \in Op /\ st(k).id = n + k /\ st(k).cause = op.id
               /\ st(k).trigger = m[k]
    <2>1. m[k] \in DOMAIN Triggers /\ m[k] \in Nat
      BY <1>1, <1>2, <1>4
    <2>2. Triggers[m[k]].kind \in Actions /\ Triggers[m[k]].target \in Tables
      BY <1>1, <2>1
    <2>3. op.id \in Nat /\ n + k \in Nat
      BY <1>4 DEF Op
    <2> HIDE DEF m
    <2> QED
      BY <2>1, <2>2, <2>3 DEF Statement, Op
  <1> HIDE DEF st, f
  <1>7. ASSUME NEW k \in 1 .. Len(m)
        PROVE  /\ f[k] \in CallType /\ f[k].call = "query" /\ f[k].op = st(k)
    BY <1>5, <1>6, CallsTyped
  <1>8. f \in Seq(CallType) /\ Len(f) = Len(m) /\ DOMAIN f = 1 .. Len(m)
    BY <1>4, <1>5, <1>7
  <1>9. /\ \A k \in 1 .. Len(f) :
              /\ f[k].call = "query" /\ f[k].op \in Op
              /\ f[k].op.id = n + k /\ f[k].op.cause = op.id
              /\ f[k].op.trigger = m[k]
    BY <1>6, <1>7, <1>8
  <1> HIDE DEF matching
  <1>10. /\ \A k \in 1 .. Len(f) : f[k].op.trigger \in matching
         /\ \A k, l \in 1 .. Len(f) : f[k].op.trigger = f[l].op.trigger => k = l
         /\ \A i \in matching : \E k \in 1 .. Len(f) : f[k].op.trigger = i
    <2>1. 1 .. Len(f) = DOMAIN m /\ \A k \in DOMAIN m : f[k].op.trigger = m[k]
      BY <1>4, <1>8, <1>9
    <2>2. \A k \in DOMAIN m : f[k].op.trigger \in matching
      BY <1>4, <2>1
    <2>3. \A k, l \in DOMAIN m : f[k].op.trigger = f[l].op.trigger => k = l
      BY <1>4, <2>1
    <2>4. \A i \in matching : \E k \in DOMAIN m : f[k].op.trigger = i
      BY <1>4, <2>1
    <2> QED
      BY <2>1, <2>2, <2>3, <2>4
  <1>11. Len(f) \in Nat /\ DOMAIN f = 1 .. Len(f)
    BY <1>4, <1>8
  <1> QED
    BY <1>8, <1>9, <1>10, <1>11 DEF f, matching

\* The calls c that the executor of op makes when n statements were sent: the
\* s-th stores the row, the others are statements of triggers, one of each, and
\* rows to insert again.
Spawned(c, s, op, n) ==
    /\ c \in Seq(CallType) /\ Len(c) \in Nat /\ DOMAIN c = 1 .. Len(c)
    /\ s \in 1 .. Len(c) /\ c[s] = Store(op)
    /\ \A k \in 1 .. Len(c) : k # s =>
          /\ c[k].call \in {"query", "insertMany"} /\ c[k].op \in Op
          /\ c[k].op.id = IF k < s THEN n + k ELSE n + k - 1
          /\ c[k].op.cause = op.id
    /\ \A k, l \in (1 .. Len(c)) \ {s} :
          c[k].op.trigger = c[l].op.trigger /\ c[k].op.trigger # 0 => k = l
    /\ \A i \in DOMAIN Triggers :
          /\ op.kind = "INSERT" /\ Triggers[i].event = "INSERT"
          /\ Triggers[i].table = op.table
          => \E k \in (1 .. Len(c)) \ {s} : c[k].op.trigger = i

RunCalls(op) ==
    CASE op.kind = "INSERT" -> {InsertCalls(op)}
      [] op.kind = "UPDATE" -> {UpdateCalls(op, n) : n \in 0 .. MaxLonger}
      [] OTHER -> {<<Store(op)>>}

\* An UPDATE stores its rows, then inserts those that became too long.
LEMMA UpdateCallsFacts ==
    ASSUME NEW op \in Op, sent \in Nat, op.kind # "INSERT", NEW n \in Nat
    PROVE  Spawned(UpdateCalls(op, n), 1, op, sent)
  <1> DEFINE st(k) == Statement(sent + k, "INSERT", op.table, op.id, 0)
             r == [k \in 1 .. n |-> InsertMany(st(k))]
             h == <<Store(op)>>
             c == h \o r
  <1>1. ASSUME NEW k \in 1 .. n
        PROVE  st(k) \in Op /\ st(k).id = sent + k /\ st(k).cause = op.id /\ st(k).trigger = 0
    BY DEF Statement, Op, Actions, Kinds
  <1> HIDE DEF st
  <1>2. ASSUME NEW k \in 1 .. n
        PROVE  r[k] \in CallType /\ r[k].call = "insertMany" /\ r[k].op = st(k)
    BY <1>1, CallsTyped
  <1>3. r \in Seq(CallType) /\ Len(r) = n
    BY <1>2
  <1>4. h \in Seq(CallType) /\ Len(h) = 1 /\ h[1] = Store(op)
    <2>1. Store(op) \in CallType
      BY CallsTyped
    <2> QED
      BY <2>1
  <1> HIDE DEF r, h
  <1>5. /\ c \in Seq(CallType) /\ Len(c) = 1 + n
        /\ \A k \in 1 .. 1 : c[k] = h[k]
        /\ \A k \in 1 .. n : c[1 + k] = r[k]
    <2>1. /\ h \o r \in Seq(CallType) /\ Len(h \o r) = Len(h) + Len(r)
          /\ \A k \in 1 .. Len(h) : (h \o r)[k] = h[k]
          /\ \A k \in 1 .. Len(r) : (h \o r)[Len(h) + k] = r[k]
      <3> HIDE DEF c
      <3>1. h \in Seq(CallType) /\ r \in Seq(CallType)
        BY <1>3, <1>4
      <3> QED
        BY <3>1, ConcatFacts
    <2>2. c = h \o r
      OBVIOUS
    <2> HIDE DEF c
    <2> QED
      BY <2>1, <2>2, <1>3, <1>4
  <1> HIDE DEF c
  <1>6. DOMAIN c = 1 .. Len(c) /\ Len(c) \in Nat
    BY <1>5, SeqFacts
  <1>7. ASSUME NEW k \in 1 .. Len(c), k # 1
        PROVE  /\ c[k].call = "insertMany" /\ c[k].op \in Op
               /\ c[k].op.id = sent + k - 1 /\ c[k].op.cause = op.id /\ c[k].op.trigger = 0
    <2>1. k - 1 \in 1 .. n /\ 1 + (k - 1) = k /\ sent + (k - 1) = sent + k - 1
      BY <1>5, <1>7
    <2>2. c[k] = r[k - 1]
      BY <2>1, <1>5
    <2> QED
      BY <2>1, <2>2, <1>1, <1>2
  <1>8. c[1] = Store(op) /\ 1 \in 1 .. Len(c)
    BY <1>4, <1>5
  <1>9. UpdateCalls(op, n) = c
    BY DEF UpdateCalls, c, h, r, st
  <1>10. ASSUME NEW k \in 1 .. Len(c), k # 1
         PROVE  ~ (k < 1)
    BY <1>10, <1>6
  <1>11. Spawned(c, 1, op, sent)
    BY <1>5, <1>6, <1>7, <1>8, <1>10 DEF Spawned
  <1> QED
    BY <1>9, <1>11

LEMMA RunCallsFacts ==
    ASSUME NEW op \in Op, sent \in Nat, NEW calls \in RunCalls(op)
    PROVE  \E s \in Nat : Spawned(calls, s, op, sent)
  <1>1. CASE op.kind \notin {"INSERT", "UPDATE"}
    <2> DEFINE c == <<Store(op)>>
    <2>1. Store(op) \in CallType
      BY CallsTyped
    <2>2. c \in Seq(CallType) /\ Len(c) = 1 /\ DOMAIN c = 1 .. 1 /\ c[1] = Store(op)
      BY <2>1
    <2>3. Spawned(c, 1, op, sent)
      BY <1>1, <2>2 DEF Spawned
    <2>4. calls = c
      BY <1>1 DEF RunCalls
    <2> QED
      BY <2>3, <2>4
  <1>3. CASE op.kind = "UPDATE"
    <2>1. PICK n \in 0 .. MaxLonger : calls = UpdateCalls(op, n)
      BY <1>3 DEF RunCalls
    <2>2. n \in Nat
      BY MaxLongerAssumption
    <2> QED
      BY <1>3, <2>1, <2>2, UpdateCallsFacts
  <1>2. CASE op.kind = "INSERT"
    <2> DEFINE b == Fired(op, "BEFORE", sent)
               lb == Len(b)
               a == Fired(op, "AFTER", sent + lb)
               la == Len(a)
               c == b \o <<Store(op)>> \o a
               s == lb + 1
               matching(timing) == {i \in DOMAIN Triggers :
                                      /\ Triggers[i].table = op.table
                                      /\ Triggers[i].event = "INSERT"
                                      /\ Triggers[i].timing = timing}
    <2>1. /\ b \in Seq(CallType) /\ lb \in Nat /\ DOMAIN b = 1 .. lb
          /\ \A k \in 1 .. lb :
                /\ b[k].call = "query" /\ b[k].op \in Op
                /\ b[k].op.id = sent + k /\ b[k].op.cause = op.id
                /\ b[k].op.trigger \in matching("BEFORE")
          /\ \A k, l \in 1 .. lb : b[k].op.trigger = b[l].op.trigger => k = l
          /\ \A i \in matching("BEFORE") : \E k \in 1 .. lb : b[k].op.trigger = i
      BY FiredFacts
    <2> HIDE DEF b
    <2>2. /\ a \in Seq(CallType) /\ la \in Nat /\ DOMAIN a = 1 .. la
          /\ \A k \in 1 .. la :
                /\ a[k].call = "query" /\ a[k].op \in Op
                /\ a[k].op.id = sent + lb + k /\ a[k].op.cause = op.id
                /\ a[k].op.trigger \in matching("AFTER")
          /\ \A k, l \in 1 .. la : a[k].op.trigger = a[l].op.trigger => k = l
          /\ \A i \in matching("AFTER") : \E k \in 1 .. la : a[k].op.trigger = i
      <3>1. sent + lb \in Nat
        BY <2>1
      <3> QED
        BY <3>1, FiredFacts
    <2> HIDE DEF a
    <2>4. /\ c \in Seq(CallType) /\ Len(c) = lb + 1 + la /\ DOMAIN c = 1 .. Len(c)
          /\ \A k \in 1 .. lb : c[k] = b[k]
          /\ c[lb + 1] = Store(op)
          /\ \A k \in 1 .. la : c[lb + 1 + k] = a[k]
          /\ \A k \in 1 .. Len(c) : \/ k \in 1 .. lb /\ c[k] = b[k]
                                    \/ k = lb + 1
                                    \/ k - lb - 1 \in 1 .. la /\ c[k] = a[k - lb - 1]
      <3>1. b \in Seq(CallType) /\ a \in Seq(CallType) /\ lb \in Nat /\ la \in Nat
            /\ Store(op) \in CallType
        BY <2>1, <2>2, CallsTyped
      <3>2. c \in Seq(CallType) => DOMAIN c = 1 .. Len(c)
        BY SeqFacts
      <3> QED
        BY <3>1, <3>2, BetweenFacts
    <2> HIDE DEF c
    <2>5. \A k \in (1 .. Len(c)) \ {s} :
             \/ k \in 1 .. lb /\ c[k] = b[k]
             \/ k - lb - 1 \in 1 .. la /\ c[k] = a[k - lb - 1]
      BY <2>4
    <2>6. s \in 1 .. Len(c) /\ c[s] = Store(op) /\ Len(c) \in Nat
      BY <2>1, <2>2, <2>4
    <2>7. ASSUME NEW k \in 1 .. Len(c), k # s
          PROVE  /\ c[k].call = "query" /\ c[k].op \in Op
                 /\ c[k].op.id = IF k < s THEN sent + k ELSE sent + k - 1
                 /\ c[k].op.cause = op.id
      <3>1. CASE k \in 1 .. lb /\ c[k] = b[k]
        BY <3>1, <2>1
      <3>2. CASE k - lb - 1 \in 1 .. la /\ c[k] = a[k - lb - 1]
        <4>1. ~ (k < s) /\ sent + lb + (k - lb - 1) = sent + k - 1
          BY <3>2, <2>1
        <4> QED
          BY <3>2, <4>1, <2>2
      <3> QED
        BY <3>1, <3>2, <2>5, <2>7
    <2>8. \A k, l \in (1 .. Len(c)) \ {s} : c[k].op.trigger = c[l].op.trigger => k = l
      <3>1. matching("BEFORE") \cap matching("AFTER") = {}
        OBVIOUS
      <3> HIDE DEF matching
      <3>2. ASSUME NEW k \in (1 .. Len(c)) \ {s}, NEW l \in (1 .. Len(c)) \ {s},
                   c[k].op.trigger = c[l].op.trigger
            PROVE  k = l
        <4>1. CASE k \in 1 .. lb /\ c[k] = b[k]
          <5>1. c[k].op.trigger \in matching("BEFORE")
            BY <4>1, <2>1
          <5>2. ~ (l - lb - 1 \in 1 .. la /\ c[l] = a[l - lb - 1])
            BY <3>1, <3>2, <5>1, <2>2
          <5>3. l \in 1 .. lb /\ c[l] = b[l]
            BY <5>2, <2>5
          <5> QED
            BY <4>1, <5>3, <3>2, <2>1
        <4>2. CASE k - lb - 1 \in 1 .. la /\ c[k] = a[k - lb - 1]
          <5>1. c[k].op.trigger \in matching("AFTER")
            BY <4>2, <2>2
          <5>2. ~ (l \in 1 .. lb /\ c[l] = b[l])
            BY <3>1, <3>2, <5>1, <2>1
          <5>3. l - lb - 1 \in 1 .. la /\ c[l] = a[l - lb - 1]
            BY <5>2, <2>5
          <5>4. k - lb - 1 = l - lb - 1
            BY SMTT(60), <4>2, <5>3, <3>2, <2>2
          <5> QED
            BY <5>4, <2>1, <2>6
        <4> QED
          BY <4>1, <4>2, <2>5
      <3> QED
        BY <3>2
    <2>9. \A i \in DOMAIN Triggers :
             Triggers[i].event = "INSERT" /\ Triggers[i].table = op.table
             => \E k \in (1 .. Len(c)) \ {s} : c[k].op.trigger = i
      <3> SUFFICES ASSUME NEW i \in DOMAIN Triggers,
                          Triggers[i].event = "INSERT", Triggers[i].table = op.table
                   PROVE  \E k \in (1 .. Len(c)) \ {s} : c[k].op.trigger = i
        OBVIOUS
      <3>1. Triggers[i].timing \in {"BEFORE", "AFTER"}
        BY TriggersTyped
      <3>2. CASE i \in matching("BEFORE")
        <4>1. PICK k \in 1 .. lb : b[k].op.trigger = i
          BY <3>2, <2>1
        <4>2. k \in (1 .. Len(c)) \ {s} /\ c[k] = b[k]
          BY <2>1, <2>2, <2>4
        <4> QED
          BY <4>1, <4>2
      <3>3. CASE i \in matching("AFTER")
        <4>1. PICK k \in 1 .. la : a[k].op.trigger = i
          BY <3>3, <2>2
        <4>2. lb + 1 + k \in (1 .. Len(c)) \ {s}
          BY <2>1, <2>2, <2>4
        <4>3. c[lb + 1 + k] = a[k]
          BY <2>4
        <4> QED
          BY <4>1, <4>2, <4>3
      <3> QED
        BY <3>1, <3>2, <3>3
    <2>10. Spawned(c, s, op, sent)
      <3> HIDE DEF s
      <3> QED
        BY <2>4, <2>6, <2>7, <2>8, <2>9 DEF Spawned
    <2>11. calls = c
      BY <1>2 DEF RunCalls, InsertCalls, c, b, a
    <2>12. s \in Nat
      BY <2>1
    <2> QED
      BY <2>10, <2>11, <2>12
  <1> QED
    BY <1>1, <1>2, <1>3

-----------------------------------------------------------------------------
(* Types.                                                                  *)

TmType == [state : {"IDLE", "ACTIVE"}, buffer : Seq(Op)]

LEMMA TmFields ==
    ASSUME NEW x \in TmType, NEW op \in Op
    PROVE  /\ x.state \in {"IDLE", "ACTIVE"} /\ x.buffer \in Seq(Op)
           /\ [x EXCEPT !.buffer = Append(@, op)] \in TmType
           /\ [x EXCEPT !.buffer = Append(@, op)].state = x.state
           /\ [x EXCEPT !.buffer = Append(@, op)].buffer = Append(x.buffer, op)
  <1>1. Append(x.buffer, op) \in Seq(Op)
    BY AppendFacts DEF TmType
  <1> QED
    BY <1>1 DEF TmType

LEMMA CleanTyped == [state |-> "IDLE", buffer |-> <<>>] \in TmType
  <1>1. <<>> \in Seq(Op)
    OBVIOUS
  <1> QED
    BY <1>1 DEF TmType

\* What Typed says about the parts of the state.
LEMMA StateFacts ==
    ASSUME Typed
    PROVE  /\ tm \in TmType /\ tm.buffer \in Seq(Op) /\ Len(tm.buffer) \in Nat
           /\ DOMAIN tm.buffer = 1 .. Len(tm.buffer)
           /\ \A k \in 1 .. Len(tm.buffer) : tm.buffer[k] \in Op
           /\ Len(todo) \in Nat /\ DOMAIN todo = 1 .. Len(todo)
           /\ \A i \in 1 .. Len(todo) : todo[i] \in CallType
           /\ Len(log) \in Nat /\ DOMAIN log = 1 .. Len(log)
           /\ \A n \in 1 .. Len(log) : log[n] \in Op
  <1>1. tm \in TmType /\ tm.buffer \in Seq(Op)
    BY TmFields DEF Typed, TmType
  <1>2. todo \in Seq(CallType) /\ log \in Seq(Op)
    BY DEF Typed
  <1>3. /\ Len(todo) \in Nat /\ DOMAIN todo = 1 .. Len(todo)
        /\ \A i \in 1 .. Len(todo) : todo[i] \in CallType
    BY <1>2, SeqFacts
  <1>4. /\ Len(log) \in Nat /\ DOMAIN log = 1 .. Len(log)
        /\ \A n \in 1 .. Len(log) : log[n] \in Op
    BY <1>2, SeqFacts
  <1> QED
    BY <1>1, <1>3, <1>4, SeqFacts

\* The youngest call.
LEMMA HeadFacts ==
    ASSUME Typed, todo # <<>>
    PROVE  /\ Len(todo) \in Nat \ {0} /\ Head(todo) = todo[1] /\ todo[1] \in CallType
           /\ Tail(todo) \in Seq(CallType) /\ Len(Tail(todo)) = Len(todo) - 1
           /\ \A k \in 1 .. Len(todo) - 1 : Tail(todo)[k] = todo[k + 1]
           /\ todo[1].call # "commit" => todo[1].op \in Op
  <1>1. todo \in Seq(CallType)
    BY DEF Typed
  <1>2. /\ Len(todo) \in Nat \ {0} /\ Head(todo) = todo[1] /\ todo[1] \in CallType
        /\ Tail(todo) \in Seq(CallType) /\ Len(Tail(todo)) = Len(todo) - 1
        /\ \A k \in 1 .. Len(todo) - 1 : Tail(todo)[k] = todo[k + 1]
    BY <1>1, TailFacts
  <1> QED
    BY <1>2, CallFields

\* The statements of the buffer as a set.
LEMMA BufferIsOps ==
    ASSUME Typed
    PROVE  Range(tm.buffer) \in SUBSET Op
  BY StateFacts DEF Range

\* The executor's calls in place of its own.
LEMMA RunTodo ==
    ASSUME Typed, Run
    PROVE  \E s \in Nat : \E c \in Seq(CallType) :
              /\ todo[1].op \in Op /\ todo[1].call = "execute" /\ todo # <<>>
              /\ Spawned(c, s, todo[1].op, sent)
              /\ todo' \in Seq(CallType)
              /\ Len(todo') = Len(c) + Len(todo) - 1
              /\ \A k \in 1 .. Len(c) : todo'[k] = c[k]
              /\ \A k \in 1 .. Len(todo) - 1 : todo'[Len(c) + k] = todo[k + 1]
              /\ sent' = sent + Len(c) - 1 /\ sent' \in Nat
  <1> DEFINE op == todo[1].op
  <1>1. todo # <<>> /\ todo[1].call = "execute" /\ op \in Op /\ Head(todo) = todo[1]
        /\ Tail(todo) \in Seq(CallType) /\ Len(Tail(todo)) = Len(todo) - 1
        /\ \A k \in 1 .. Len(todo) - 1 : Tail(todo)[k] = todo[k + 1]
    BY HeadFacts DEF Run, Calls
  <1>2. PICK c \in RunCalls(op) : todo' = c \o Tail(todo) /\ sent' = sent + Len(c) - 1
    BY <1>1 DEF Run, RunCalls
  <1>3. PICK s \in Nat : Spawned(c, s, op, sent)
    BY <1>1, RunCallsFacts DEF Typed
  <1>4. c \in Seq(CallType) /\ Len(c) \in Nat /\ Len(c) >= 1
    BY <1>3 DEF Spawned
  <1>5. /\ todo' \in Seq(CallType) /\ Len(todo') = Len(c) + Len(Tail(todo))
        /\ \A k \in 1 .. Len(c) : todo'[k] = c[k]
        /\ \A k \in 1 .. Len(Tail(todo)) : todo'[Len(c) + k] = Tail(todo)[k]
    BY <1>1, <1>2, <1>4, ConcatFacts
  <1>6. sent' \in Nat
    BY <1>2, <1>4 DEF Typed
  <1>7. Len(todo') = Len(c) + Len(todo) - 1
    BY <1>1, <1>4, <1>5, StateFacts
  <1>8. \A k \in 1 .. Len(todo) - 1 : todo'[Len(c) + k] = todo[k + 1]
    BY <1>1, <1>5
  <1> QED
    BY <1>1, <1>2, <1>3, <1>4, <1>5, <1>6, <1>7, <1>8

\* _cleanup with no calls left.
LEMMA CleanedUp ==
    ASSUME Typed,
           \/ todo = <<>> /\ Cleanup(todo)
           \/ Len(todo) = 1 /\ Cleanup(Tail(todo))
           \/ Len(todo) = 2 /\ Cleanup(Tail(Tail(todo)))
    PROVE  todo' = <<>> /\ tm' = [state |-> "IDLE", buffer |-> <<>>]
  <1>1. todo \in Seq(CallType)
    BY DEF Typed
  <1>2. /\ Len(todo) = 1 => Tail(todo) = <<>>
        /\ Len(todo) = 2 => Tail(Tail(todo)) = <<>>
    BY <1>1, EmptyTails
  <1>3. DOMAIN <<>> = {} /\ [i \in {} |-> Detached(<<>>[i])] = <<>>
    OBVIOUS
  <1>4. CASE todo = <<>> /\ Cleanup(todo)
    BY <1>3, <1>4 DEF Cleanup
  <1>5. CASE Len(todo) = 1 /\ Cleanup(Tail(todo))
    BY <1>2, <1>3, <1>5 DEF Cleanup
  <1>6. CASE Len(todo) = 2 /\ Cleanup(Tail(Tail(todo)))
    BY <1>2, <1>3, <1>6 DEF Cleanup
  <1> QED
    BY <1>4, <1>5, <1>6

\* A COMMIT that is the youngest call is the only one.
LEMMA CommitIsLast ==
    ASSUME Typed, Nested, Calls("commit")
    PROVE  /\ todo # <<>> /\ Head(todo) = todo[1] /\ Len(todo) = 1 /\ Tail(todo) = <<>>
           /\ Head(todo).at \in Nat \ {0} /\ Loop(Head(todo)) = tm.buffer
           /\ [Head(todo) EXCEPT !.at = Head(todo).at + 1] = CommitFrom(Head(todo).at + 1)
  <1>1. todo # <<>> /\ Head(todo) = todo[1] /\ todo[1].call = "commit" /\ todo[1] \in CallType
        /\ 1 \in DOMAIN todo
    BY HeadFacts, StateFacts DEF Calls
  <1>2. Len(todo) = 1
    BY <1>1 DEF Nested
  <1>3. Tail(todo) = <<>>
    BY <1>2, EmptyTails DEF Typed
  <1> QED
    BY <1>1, <1>2, <1>3, CallFields

\* The steps of a COMMIT, and a ROLLBACK, in a word.
LEMMA CommitNextTodo ==
    ASSUME Typed, Nested, CommitNext
    PROVE  LET i == Head(todo).at
           IN /\ i \in Nat \ {0} /\ i <= Len(tm.buffer)
              /\ todo' = <<Execute(tm.buffer[i], "commit"), CommitFrom(i + 1)>>
  <1> DEFINE i == Head(todo).at
             e == Execute(tm.buffer[i], "commit")
             c == CommitFrom(i + 1)
  <1>1. Calls("commit")
    BY DEF CommitNext
  <1>2. /\ Tail(todo) = <<>> /\ i \in Nat \ {0} /\ Loop(Head(todo)) = tm.buffer
        /\ [Head(todo) EXCEPT !.at = i + 1] = c
    BY <1>1, CommitIsLast
  <1>3. i <= Len(tm.buffer) /\ todo' = <<e, c>> \o Tail(todo)
    BY <1>2 DEF CommitNext
  <1> HIDE DEF e, c
  <1>4. <<e, c>> \o <<>> = <<e, c>>
    OBVIOUS
  <1> QED
    BY <1>2, <1>3, <1>4 DEF e, c

LEMMA CommitEndTodo ==
    ASSUME Typed, Nested, CommitEnd
    PROVE  /\ Head(todo).at > Len(tm.buffer) /\ todo' = <<>>
           /\ tm' = [state |-> "IDLE", buffer |-> <<>>]
  <1>1. Calls("commit") /\ Cleanup(Tail(todo)) /\ Head(todo).at > Len(Loop(Head(todo)))
    BY DEF CommitEnd
  <1>2. Len(todo) = 1 /\ Loop(Head(todo)) = tm.buffer
    BY <1>1, CommitIsLast
  <1> QED
    BY <1>1, <1>2, CleanedUp

LEMMA RollbackTodo ==
    ASSUME Typed, Rollback
    PROVE  todo = <<>> /\ todo' = <<>> /\ tm' = [state |-> "IDLE", buffer |-> <<>>]
  BY CleanedUp DEF Rollback

LEMMA FailTodo ==
    ASSUME Typed, Nested, Fail, todo[1].from = "commit"
    PROVE  /\ todo' = <<>> /\ tm' = [state |-> "IDLE", buffer |-> <<>>]
           /\ todo[1].op = tm.buffer[At - 1] /\ Len(todo) = 2 /\ Committing /\ At > 1
           /\ failed' = failed \cup {todo[1].op} \cup Range(tm.buffer)
  <1>1. todo # <<>> /\ Head(todo) = todo[1] /\ todo[1].call = "execute" /\ 1 \in DOMAIN todo
    BY HeadFacts, StateFacts DEF Fail, Calls
  <1>2. todo[1].op = tm.buffer[At - 1] /\ Len(todo) = 2 /\ Committing /\ At > 1
    BY <1>1 DEF Nested
  <1>3. /\ Cleanup(Tail(Tail(todo)))
        /\ failed' = failed \cup {todo[1].op} \cup Range(tm.buffer)
    BY <1>1 DEF Fail
  <1> QED
    BY <1>2, <1>3, CleanedUp

LEMMA TypedStep ==
    ASSUME Typed, Nested, Quiet
    PROVE  Typed'
  <1>0. tm \in TmType
    BY StateFacts
  <1>1. CASE Begin
    <2>1. [state |-> "ACTIVE", buffer |-> <<>>] \in TmType
      <3>1. <<>> \in Seq(Op)
        OBVIOUS
      <3> QED
        BY <3>1 DEF TmType
    <2> QED
      BY <1>1, <2>1 DEF Begin, Typed, TmType
  <1>2. ASSUME NEW t \in Tables, NEW kind \in Kinds, SendDml(kind, t)
        PROVE  Typed'
    <2> DEFINE op == Statement(sent + 1, kind, t, 0, 0)
    <2>1. op \in Op /\ sent + 1 \in Nat
      BY DEF Typed, Statement, Op, Actions
    <2> HIDE DEF op
    <2>2. <<Query(op)>> \in Seq(CallType)
      BY <2>1, CallsTyped
    <2> QED
      BY <1>2, <2>1, <2>2 DEF SendDml, Typed, op
  <1>3. ASSUME NEW t \in Tables, CreateTable(t) \/ DropTable(t)
        PROVE  Typed'
    BY <1>3 DEF CreateTable, DropTable, Typed
  <1>4. CASE Commit
    <2>1. <<CommitFrom(1)>> \in Seq(CallType)
      <3>1. CommitFrom(1) \in CallType
        BY DEF CommitFrom, CallType
      <3> QED
        BY <3>1
    <2> QED
      BY <1>4, <2>1 DEF Commit, Typed
  <1>5. CASE Rollback
    BY <1>5, RollbackTodo, CleanTyped, BufferIsOps DEF Rollback, Typed, TmType
  <1>6. CASE RouteDml
    <2>1. /\ Tail(todo) \in Seq(CallType) /\ Head(todo).op \in Op
      BY <1>6, HeadFacts DEF RouteDml, Queries, Calls
    <2>2. CASE Active
      BY <1>6, <2>1, <2>2, <1>0, TmFields DEF RouteDml, Typed, TmType
    <2>3. CASE ~ Active
      <3>1. Execute(Head(todo).op, "query") \in CallType
        BY <2>1, CallsTyped
      <3>2. <<Execute(Head(todo).op, "query")>> \o Tail(todo) \in Seq(CallType)
        BY <2>1, <3>1
      <3> QED
        BY <1>6, <2>3, <3>2 DEF RouteDml, Typed
    <2> QED
      BY <2>2, <2>3
  <1>7. CASE Run
    BY <1>7, RunTodo DEF Run, Typed
  <1>8. CASE StoreRow
    <2>1. /\ Tail(todo) \in Seq(CallType) /\ Head(todo).op \in Op
      BY <1>8, HeadFacts DEF StoreRow, Calls
    <2>2. Append(log, Head(todo).op) \in Seq(Op)
      BY <2>1, AppendFacts DEF Typed
    <2> QED
      BY <1>8, <2>1, <2>2 DEF StoreRow, Typed
  <1>9. CASE Fail
    <2>1. /\ Tail(todo) \in Seq(CallType) /\ Head(todo).op \in Op
      BY <1>9, HeadFacts DEF Fail, Calls
    <2>2. CASE Head(todo).from # "commit"
      BY <1>9, <2>1, <2>2 DEF Fail, Typed
    <2>3. CASE Head(todo).from = "commit"
      <3>1. <<>> \in Seq(CallType)
        OBVIOUS
      <3>2. Head(todo) = todo[1]
        BY <1>9, HeadFacts DEF Fail, Calls
      <3>3. /\ todo' = <<>> /\ tm' = [state |-> "IDLE", buffer |-> <<>>]
            /\ failed' = failed \cup {Head(todo).op} \cup Range(tm.buffer)
        BY <1>9, <2>3, <3>2, FailTodo
      <3> QED
        BY <1>9, <2>1, <3>1, <3>3, CleanTyped, BufferIsOps DEF Fail, Typed, TmType
    <2> QED
      BY <2>2, <2>3
  <1>10. CASE CommitNext
    <2> DEFINE i == Head(todo).at
    <2>1. i \in Nat \ {0} /\ i <= Len(tm.buffer)
          /\ todo' = <<Execute(tm.buffer[i], "commit"), CommitFrom(i + 1)>>
      BY <1>10, CommitNextTodo
    <2>2. i <= Len(tm.buffer)
          /\ todo' = <<Execute(tm.buffer[i], "commit"), CommitFrom(i + 1)>>
      BY <2>1
    <2> HIDE DEF i
    <2>3. tm.buffer[i] \in Op
      BY <2>1, <2>2, StateFacts
    <2>4. Execute(tm.buffer[i], "commit") \in CallType /\ CommitFrom(i + 1) \in CallType
      BY <2>1, <2>3, CallsTyped
    <2>5. todo' \in Seq(CallType)
      BY <2>2, <2>4
    <2> QED
      BY <1>10, <2>5 DEF CommitNext, Typed
  <1>11. CASE CommitEnd
    <2>1. <<>> \in Seq(CallType)
      OBVIOUS
    <2>2. todo' = <<>> /\ tm' = [state |-> "IDLE", buffer |-> <<>>]
      BY <1>11, CommitEndTodo
    <2> QED
      BY <1>11, <2>1, <2>2, CleanTyped DEF CommitEnd, Typed, TmType
  <1>12. CASE UNCHANGED vars
    BY <1>12 DEF vars, Typed
  <1>13. CASE RunTable
    <2>1. /\ Tail(todo) \in Seq(CallType) /\ Head(todo).op \in Op
      BY <1>13, HeadFacts DEF RunTable, Queries, Calls
    <2>2. Append(log, Head(todo).op) \in Seq(Op) /\ Head(todo).op.table \in Tables
      BY <2>1, AppendFacts DEF Typed, Op
    <2> QED
      BY <1>13, <2>1, <2>2 DEF RunTable, Typed
  <1>14. CASE Refuse
    <2>1. /\ Tail(todo) \in Seq(CallType) /\ Head(todo).op \in Op
      BY <1>14, HeadFacts DEF Refuse, Queries, Calls
    <2> QED
      BY <1>14, <2>1 DEF Refuse, Typed
  <1>15. CASE RunInsert
    <2>1. /\ Tail(todo) \in Seq(CallType) /\ Head(todo).op \in Op
      BY <1>15, HeadFacts DEF RunInsert, Calls
    <2> DEFINE e == Execute(Head(todo).op, "update")
    <2>2. e \in CallType
      BY <2>1, CallsTyped
    <2>3. todo' = <<e>> \o Tail(todo)
      BY <1>15 DEF RunInsert
    <2> HIDE DEF e
    <2>4. <<e>> \in Seq(CallType)
      BY <2>2
    <2>5. <<e>> \o Tail(todo) \in Seq(CallType)
      BY <2>1, <2>4, ConcatFacts
    <2> QED
      BY <1>15, <2>3, <2>5 DEF RunInsert, Typed
  <1> QED
    BY <1>1, <1>2, <1>3, <1>4, <1>5, <1>6, <1>7, <1>8, <1>9, <1>10, <1>11, <1>12,
       <1>13, <1>14, <1>15 DEF Quiet

-----------------------------------------------------------------------------
(* How calls nest.                                                         *)

LEMMA CommittingFacts ==
    ASSUME Typed, Nested
    PROVE  /\ Committing <=> todo # <<>> /\ todo[Len(todo)].call = "commit"
           /\ At \in 1 .. Len(tm.buffer) + 1
           /\ ~ Committing => At = 1
           /\ Committing => Active
  <1>1. todo # <<>> => Len(todo) \in DOMAIN todo
    BY StateFacts, HeadFacts
  <1>2. todo = <<>> => DOMAIN todo = {}
    OBVIOUS
  <1>3. Committing <=> todo # <<>> /\ todo[Len(todo)].call = "commit"
    BY <1>1, <1>2 DEF Committing, Nested
  <1> QED
    BY <1>3, StateFacts DEF At, Nested

LEMMA NoCalls ==
    ASSUME todo = <<>>
    PROVE  ~ Committing /\ At = 1 /\ DOMAIN todo = {} /\ InTodo = {}
  <1>1. DOMAIN todo = {}
    OBVIOUS
  <1> QED
    BY <1>1 DEF Committing, At, InTodo

\* The youngest call is replaced by d calls that are not of a COMMIT.
Replaced(d) ==
    /\ todo # <<>> /\ todo[1].call # "commit"
    /\ todo' \in Seq(CallType) /\ Len(todo') = d + Len(todo) - 1
    /\ \A k \in 1 .. d : todo'[k].call # "commit"
    /\ \A k \in 1 .. Len(todo) - 1 : todo'[d + k] = todo[k + 1]

LEMMA ReplacedFacts ==
    ASSUME Typed, Nested, NEW d \in Nat, Replaced(d)
    PROVE  /\ Committing' = Committing /\ At' = At
           /\ DOMAIN todo' = 1 .. d + Len(todo) - 1
           /\ \A j \in 1 .. d + Len(todo) - 1 :
                 \/ j \in 1 .. d /\ todo'[j].call # "commit"
                 \/ /\ j \notin 1 .. d /\ j - d + 1 \in 2 .. Len(todo)
                    /\ todo'[j] = todo[j - d + 1]
           /\ \A j \in 2 .. Len(todo) : j + d - 1 \in DOMAIN todo' /\ todo'[j + d - 1] = todo[j]
  <1>1. Len(todo) \in Nat \ {0} /\ DOMAIN todo = 1 .. Len(todo)
    BY StateFacts, HeadFacts DEF Replaced
  <1>2. DOMAIN todo' = 1 .. d + Len(todo) - 1
    BY SeqFacts DEF Replaced
  <1>3. ASSUME NEW j \in 1 .. d + Len(todo) - 1, j \notin 1 .. d
        PROVE  j - d + 1 \in 2 .. Len(todo) /\ todo'[j] = todo[j - d + 1]
    <2>1. j - d \in 1 .. Len(todo) - 1 /\ d + (j - d) = j /\ (j - d) + 1 = j - d + 1
          /\ j - d + 1 \in 2 .. Len(todo)
      BY <1>1, <1>3
    <2>2. todo'[d + (j - d)] = todo[(j - d) + 1]
      BY <2>1 DEF Replaced
    <2> QED
      BY <2>1, <2>2
  <1>4. ASSUME NEW j \in 2 .. Len(todo)
        PROVE  j + d - 1 \in DOMAIN todo' /\ todo'[j + d - 1] = todo[j]
    <2>1. j - 1 \in 1 .. Len(todo) - 1 /\ d + (j - 1) = j + d - 1 /\ (j - 1) + 1 = j
      BY <1>1
    <2>2. todo'[d + (j - 1)] = todo[(j - 1) + 1]
      BY <2>1 DEF Replaced
    <2>3. j + d - 1 \in DOMAIN todo'
      BY <1>1, <1>2
    <2> QED
      BY <2>1, <2>2, <2>3
  <1>5. \A j \in 1 .. d : todo'[j].call # "commit"
    BY DEF Replaced
  <1>6. Committing' <=> Committing
    <2>1. ASSUME Committing
          PROVE  Committing'
      <3>1. PICK i \in DOMAIN todo : todo[i].call = "commit"
        BY <2>1 DEF Committing
      <3>2. i \in 2 .. Len(todo)
        BY <3>1, <1>1 DEF Replaced
      <3> QED
        BY <3>1, <3>2, <1>4 DEF Committing
    <2>2. ASSUME Committing'
          PROVE  Committing
      <3>1. PICK j \in DOMAIN todo' : todo'[j].call = "commit"
        BY <2>2 DEF Committing
      <3>2. j - d + 1 \in 2 .. Len(todo) /\ todo'[j] = todo[j - d + 1]
        BY <3>1, <1>2, <1>3, <1>5
      <3> QED
        BY <3>1, <3>2, <1>1 DEF Committing
    <2> QED
      BY <2>1, <2>2
  <1>7. At' = At
    <2>1. CASE Committing
      <3>1. todo[Len(todo)].call = "commit"
        BY <2>1, CommittingFacts
      <3>2. Len(todo) \in 2 .. Len(todo)
        BY <3>1, <1>1 DEF Replaced
      <3>3. Len(todo') = Len(todo) + d - 1
        BY <1>1 DEF Replaced
      <3>4. todo'[Len(todo')] = todo[Len(todo)]
        BY <3>2, <3>3, <1>4
      <3> QED
        BY <2>1, <3>4, <1>6 DEF At
    <2>2. CASE ~ Committing
      BY <2>2, <1>6 DEF At
    <2> QED
      BY <2>1, <2>2
  <1>8. Committing' = Committing
    BY <1>6 DEF Committing
  <1> QED
    BY <1>2, <1>3, <1>4, <1>5, <1>7, <1>8

\* What the actions on the youngest call do to the calls.
LEMMA Replacing ==
    ASSUME Typed, Nested
    PROVE  /\ RouteDml /\ Active => Replaced(0)
           /\ RouteDml /\ ~ Active =>
                 Replaced(1) /\ todo'[1] = Execute(todo[1].op, "query")
           /\ StoreRow => Replaced(0)
           /\ RunTable => Replaced(0)
           /\ Refuse => Replaced(0)
           /\ RunInsert => Replaced(1) /\ todo'[1] = Execute(todo[1].op, "update")
           /\ Fail /\ todo[1].from # "commit" => Replaced(0)
           /\ Run => \E s, d \in Nat : \E c \in Seq(CallType) :
                        /\ Replaced(d) /\ d = Len(c)
                        /\ Spawned(c, s, todo[1].op, sent)
                        /\ \A k \in 1 .. d : todo'[k] = c[k]
                        /\ sent' = sent + d - 1
                        /\ todo[1].op \in Op /\ todo[1].call = "execute"
  <1> DEFINE Tailed == todo # <<>> /\ todo[1].call # "commit" /\ todo' = Tail(todo)
  <1>1. Tailed => Replaced(0)
    BY HeadFacts DEF Replaced
  <1>2. RouteDml /\ Active => Tailed
    BY HeadFacts DEF RouteDml, Queries, Calls
  <1>3. StoreRow => Tailed
    BY HeadFacts DEF StoreRow, Calls
  <1>4. Fail /\ todo[1].from # "commit" => Tailed
    BY HeadFacts DEF Fail, Calls
  <1>7. RunTable => Tailed
    BY HeadFacts DEF RunTable, Queries, Calls
  <1>8. Refuse => Tailed
    BY HeadFacts DEF Refuse, Queries, Calls
  <1>5. ASSUME NEW from \in {"query", "update"}, todo # <<>>, todo[1].call # "commit",
               todo' = <<Execute(todo[1].op, from)>> \o Tail(todo)
        PROVE  Replaced(1) /\ todo'[1] = Execute(todo[1].op, from)
    <2> DEFINE e == Execute(todo[1].op, from)
    <2>1. /\ todo # <<>> /\ todo[1].call # "commit" /\ todo[1].op \in Op
          /\ Tail(todo) \in Seq(CallType) /\ Len(Tail(todo)) = Len(todo) - 1
          /\ Len(todo) \in Nat \ {0}
          /\ \A k \in 1 .. Len(todo) - 1 : Tail(todo)[k] = todo[k + 1]
      BY <1>5, HeadFacts
    <2>2. todo' = <<e>> \o Tail(todo)
      BY <1>5
    <2>3. e \in CallType /\ e.call = "execute"
      BY <2>1, CallsTyped
    <2> HIDE DEF e
    <2>4. /\ <<e>> \in Seq(CallType) /\ Len(<<e>>) = 1 /\ <<e>>[1] = e
      BY <2>3
    <2>5. /\ todo' \in Seq(CallType) /\ Len(todo') = 1 + Len(Tail(todo))
          /\ \A k \in 1 .. 1 : todo'[k] = <<e>>[k]
          /\ \A k \in 1 .. Len(Tail(todo)) : todo'[1 + k] = Tail(todo)[k]
      BY <2>1, <2>2, <2>4, ConcatFacts
    <2>6. todo'[1] = e /\ Len(todo') = 1 + Len(todo) - 1
      BY <2>1, <2>4, <2>5
    <2>7. \A k \in 1 .. Len(todo) - 1 : todo'[1 + k] = todo[k + 1]
      BY <2>1, <2>5
    <2>8. \A k \in 1 .. 1 : todo'[k].call # "commit"
      BY <2>3, <2>6
    <2>9. Replaced(1)
      BY <2>1, <2>5, <2>6, <2>7, <2>8 DEF Replaced
    <2> QED
      BY <2>6, <2>9 DEF e
  <1>9. RouteDml /\ ~ Active => Replaced(1) /\ todo'[1] = Execute(todo[1].op, "query")
    <2> SUFFICES ASSUME RouteDml, ~ Active
                 PROVE  Replaced(1) /\ todo'[1] = Execute(todo[1].op, "query")
      OBVIOUS
    <2>1. todo # <<>> /\ todo[1].call = "query" /\ Head(todo) = todo[1]
      BY HeadFacts DEF RouteDml, Queries, Calls
    <2>2. todo' = <<Execute(todo[1].op, "query")>> \o Tail(todo)
      BY <2>1 DEF RouteDml
    <2> QED
      BY <2>1, <2>2, <1>5
  <1>10. RunInsert => Replaced(1) /\ todo'[1] = Execute(todo[1].op, "update")
    <2> SUFFICES ASSUME RunInsert
                 PROVE  Replaced(1) /\ todo'[1] = Execute(todo[1].op, "update")
      OBVIOUS
    <2>1. todo # <<>> /\ todo[1].call = "insertMany" /\ Head(todo) = todo[1]
      BY HeadFacts DEF RunInsert, Calls
    <2>2. todo' = <<Execute(todo[1].op, "update")>> \o Tail(todo)
      BY <2>1 DEF RunInsert
    <2> QED
      BY <2>1, <2>2, <1>5
  <1>6. ASSUME Run
        PROVE  \E s, d \in Nat : \E c \in Seq(CallType) :
                  /\ Replaced(d) /\ d = Len(c)
                  /\ Spawned(c, s, todo[1].op, sent)
                  /\ \A k \in 1 .. d : todo'[k] = c[k]
                  /\ sent' = sent + d - 1
                  /\ todo[1].op \in Op /\ todo[1].call = "execute"
    <2>1. PICK s \in Nat, c \in Seq(CallType) :
              /\ todo[1].op \in Op /\ todo[1].call = "execute" /\ todo # <<>>
              /\ Spawned(c, s, todo[1].op, sent)
              /\ todo' \in Seq(CallType)
              /\ Len(todo') = Len(c) + Len(todo) - 1
              /\ \A k \in 1 .. Len(c) : todo'[k] = c[k]
              /\ \A k \in 1 .. Len(todo) - 1 : todo'[Len(c) + k] = todo[k + 1]
              /\ sent' = sent + Len(c) - 1 /\ sent' \in Nat
      BY <1>6, RunTodo
    <2>2. \A k \in 1 .. Len(c) : c[k].call # "commit"
      <3>1. Store(todo[1].op).call = "store"
        BY DEF Store
      <3> QED
        BY <2>1, <3>1 DEF Spawned
    <2>3. Len(c) \in Nat
      BY <2>1 DEF Spawned
    <2>4. Replaced(Len(c))
      BY <2>1, <2>2 DEF Replaced
    <2> QED
      BY <2>1, <2>3, <2>4
  <1> QED
    BY <1>1, <1>2, <1>3, <1>4, <1>6, <1>7, <1>8, <1>9, <1>10

\* In a transaction a statement is buffered.
LEMMA Buffered ==
    ASSUME Typed, RouteDml, Active
    PROVE  /\ todo[1].call = "query" /\ todo[1].op \in Op /\ 1 \in DOMAIN todo
           /\ tm'.state = tm.state /\ tm'.buffer = Append(tm.buffer, todo[1].op)
           /\ tm'.buffer \in Seq(Op) /\ Len(tm'.buffer) = Len(tm.buffer) + 1
           /\ DOMAIN tm'.buffer = 1 .. Len(tm.buffer) + 1
           /\ \A k \in 1 .. Len(tm.buffer) : tm'.buffer[k] = tm.buffer[k]
           /\ tm'.buffer[Len(tm.buffer) + 1] = todo[1].op
  <1> DEFINE op == todo[1].op
  <1>1. todo[1].call = "query" /\ op \in Op /\ Head(todo) = todo[1] /\ 1 \in DOMAIN todo
    BY HeadFacts, StateFacts DEF RouteDml, Queries, Calls
  <1>2. tm' = [tm EXCEPT !.buffer = Append(@, op)]
    BY <1>1 DEF RouteDml
  <1>3. tm \in TmType /\ tm.buffer \in Seq(Op)
    BY StateFacts
  <1> HIDE DEF op
  <1>4. tm'.state = tm.state /\ tm'.buffer = Append(tm.buffer, op)
    BY <1>1, <1>2, <1>3, TmFields
  <1>5. /\ Append(tm.buffer, op) \in Seq(Op)
        /\ Len(Append(tm.buffer, op)) = Len(tm.buffer) + 1
        /\ DOMAIN Append(tm.buffer, op) = 1 .. Len(tm.buffer) + 1
        /\ \A k \in 1 .. Len(tm.buffer) : Append(tm.buffer, op)[k] = tm.buffer[k]
        /\ Append(tm.buffer, op)[Len(tm.buffer) + 1] = op
    BY <1>1, <1>3, AppendFacts
  <1> QED
    BY <1>1, <1>4, <1>5 DEF op

\* A step that replaces the youngest call keeps the others as they were nested.
LEMMA NestedReplaced ==
    ASSUME Typed, Nested, NEW d \in Nat, Replaced(d),
           tm'.state = tm.state,
           \/ tm'.buffer = tm.buffer
           \/ Active /\ \E op \in Op : tm'.buffer = Append(tm.buffer, op),
           \A k \in 1 .. d :
              todo'[k].call = "execute" =>
                 /\ k = 1 /\ todo'[k].from # "commit"
                 /\ todo'[k].from = "query" => ~ Committing /\ ~ Active
    PROVE  Nested'
  <1>1. /\ Committing' = Committing /\ At' = At
        /\ DOMAIN todo' = 1 .. d + Len(todo) - 1
        /\ \A j \in 1 .. d + Len(todo) - 1 :
              \/ j \in 1 .. d /\ todo'[j].call # "commit"
              \/ /\ j \notin 1 .. d /\ j - d + 1 \in 2 .. Len(todo)
                 /\ todo'[j] = todo[j - d + 1]
    BY ReplacedFacts
  <1>2. Len(todo') = d + Len(todo) - 1 /\ Len(todo) \in Nat /\ DOMAIN todo = 1 .. Len(todo)
    BY StateFacts DEF Replaced
  <1>3. At \in 1 .. Len(tm.buffer) + 1 /\ Len(tm.buffer) \in Nat /\ (Committing => Active)
    BY CommittingFacts, StateFacts
  <1>4. /\ Len(tm'.buffer) \in Nat /\ Len(tm'.buffer) >= Len(tm.buffer)
        /\ \A k \in 1 .. Len(tm.buffer) : tm'.buffer[k] = tm.buffer[k]
        /\ ~ Active => tm'.buffer = tm.buffer
    <2>1. tm.buffer \in Seq(Op)
      BY StateFacts
    <2>2. CASE tm'.buffer = tm.buffer
      BY <2>2, <1>3
    <2>3. CASE Active /\ \E op \in Op : tm'.buffer = Append(tm.buffer, op)
      BY <2>1, <2>3, <1>3, AppendFacts
    <2> QED
      BY <2>2, <2>3
  <1>5. Active' = Active
    BY DEF Active
  <1>6. At > 1 => tm'.buffer[At - 1] = tm.buffer[At - 1]
    BY <1>3, <1>4
  <1>7. ASSUME NEW j \in DOMAIN todo'
        PROVE  /\ todo'[j].call = "commit" => j = Len(todo')
               /\ todo'[j].call = "execute" => j = 1
               /\ todo'[j].call = "execute" /\ todo'[j].from = "query" =>
                     ~ Committing' /\ ~ Active'
               /\ todo'[j].call = "execute" /\ todo'[j].from = "commit" =>
                     /\ Committing' /\ Len(todo') = 2
                     /\ At' > 1 /\ todo'[j].op = tm'.buffer[At' - 1]
    <2>1. CASE j \in 1 .. d
      BY <2>1, <1>1, <1>5, <1>6
    <2>2. CASE j \notin 1 .. d
      <3> DEFINE i == j - d + 1
      <3>1. i \in DOMAIN todo /\ i # 1 /\ todo'[j] = todo[i]
        BY <2>2, <1>1, <1>2
      <3>2. /\ todo[i].call = "commit" => i = Len(todo)
            /\ todo[i].call # "execute"
        BY <3>1 DEF Nested
      <3>3. i = Len(todo) => j = Len(todo')
        BY <1>1, <1>2
      <3> HIDE DEF i
      <3> QED
        BY <3>1, <3>2, <3>3, <1>1, <1>5, <1>6
    <2> QED
      BY <2>1, <2>2
  <1>8. Committing' => Active' /\ At' \in 1 .. Len(tm'.buffer) + 1
    BY <1>1, <1>3, <1>4, <1>5
  <1>9. ~ Active' => tm'.buffer = <<>>
    BY <1>4, <1>5 DEF Nested
  <1> QED
    BY <1>7, <1>8, <1>9 DEF Nested

LEMMA NestedStep ==
    ASSUME Typed, Nested, Quiet
    PROVE  Nested'
  <1>1. CASE Begin
    <2>1. todo' = <<>> /\ tm' = [state |-> "ACTIVE", buffer |-> <<>>]
      BY <1>1 DEF Begin, Free
    <2>2. DOMAIN todo' = {} /\ tm'.state = "ACTIVE"
      BY <2>1
    <2> QED
      BY <2>2 DEF Nested, Committing, Active
  <1>2. ASSUME NEW t \in Tables, NEW kind \in Kinds, SendDml(kind, t)
        PROVE  Nested'
    <2> DEFINE q == Query(Statement(sent + 1, kind, t, 0, 0))
    <2>1. todo' = <<q>> /\ tm' = tm /\ q.call = "query"
      BY <1>2 DEF SendDml, Query
    <2> HIDE DEF q
    <2>2. DOMAIN todo' = 1 .. 1 /\ todo'[1] = q
      BY <2>1
    <2>3. Nested => (~ Active => tm.buffer = <<>>)
      BY DEF Nested
    <2> QED
      BY <2>1, <2>2, <2>3 DEF Nested, Committing, Active
  <1>3. ASSUME NEW t \in Tables, CreateTable(t) \/ DropTable(t)
        PROVE  Nested'
    BY <1>3 DEF CreateTable, DropTable, Nested, Committing, Active, At
  <1>4. CASE Commit
    <2>1. todo' = <<CommitFrom(1)>> /\ tm' = tm /\ Active
      BY <1>4 DEF Commit
    <2>2. DOMAIN todo' = 1 .. 1 /\ todo'[1] = CommitFrom(1) /\ Len(todo') = 1
      BY <2>1
    <2>3. CommitFrom(1).call = "commit" /\ CommitFrom(1).at = 1
      BY DEF CommitFrom
    <2>4. Committing' /\ At' = 1
      BY <2>2, <2>3 DEF Committing, At
    <2>5. At' \in 1 .. Len(tm'.buffer) + 1
      BY <2>1, <2>4, StateFacts
    <2> QED
      BY <2>1, <2>2, <2>3, <2>4, <2>5 DEF Nested, Active
  <1>5. CASE Rollback
    <2>1. todo' = <<>> /\ tm' = [state |-> "IDLE", buffer |-> <<>>]
      BY <1>5, RollbackTodo
    <2>2. DOMAIN todo' = {} /\ tm'.buffer = <<>>
      BY <2>1
    <2> QED
      BY <2>2 DEF Nested, Committing
  <1>6. CASE RouteDml
    <2>1. CASE Active
      <3>1. Replaced(0)
        BY <1>6, <2>1, Replacing
      <3>2. /\ todo[1].op \in Op /\ tm'.state = tm.state
            /\ tm'.buffer = Append(tm.buffer, todo[1].op)
        BY <1>6, <2>1, Buffered
      <3> QED
        BY <2>1, <3>1, <3>2, NestedReplaced
    <2>2. CASE ~ Active
      <3>1. Replaced(1) /\ todo'[1] = Execute(todo[1].op, "query")
        BY <1>6, <2>2, Replacing
      <3>2. /\ todo'[1].call = "execute" /\ todo'[1].from = "query"
            /\ tm' = tm /\ ~ Committing
        BY <1>6, <2>2, <3>1, CommittingFacts DEF Execute, RouteDml
      <3> QED
        BY <2>2, <3>1, <3>2, NestedReplaced
    <2> QED
      BY <2>1, <2>2
  <1>7. CASE Run
    <2>1. PICK s \in Nat, d \in Nat, c \in Seq(CallType) :
              /\ Replaced(d) /\ d = Len(c)
              /\ Spawned(c, s, todo[1].op, sent)
              /\ \A k \in 1 .. d : todo'[k] = c[k]
              /\ todo[1].op \in Op /\ todo[1].call = "execute"
      BY <1>7, Replacing
    <2>2. \A k \in 1 .. d : /\ k = s => todo'[k].call = "store" /\ todo'[k].op = todo[1].op
                            /\ k # s => todo'[k].call \in {"query", "insertMany"}
      BY <2>1, CallsTyped DEF Spawned
    <2>3. tm' = tm
      BY <1>7 DEF Run
    <2> QED
      BY <2>1, <2>2, <2>3, NestedReplaced
  <1>8. CASE StoreRow
    <2>1. Replaced(0) /\ tm' = tm
      BY <1>8, Replacing DEF StoreRow
    <2> QED
      BY <2>1, NestedReplaced
  <1>9. CASE Fail
    <2>1. todo # <<>> /\ Head(todo) = todo[1]
      BY <1>9, HeadFacts DEF Fail, Calls
    <2>2. CASE todo[1].from # "commit"
      <3>1. Replaced(0) /\ tm' = tm
        BY <1>9, <2>1, <2>2, Replacing DEF Fail
      <3> QED
        BY <3>1, NestedReplaced
    <2>3. CASE todo[1].from = "commit"
      <3>1. todo' = <<>> /\ tm' = [state |-> "IDLE", buffer |-> <<>>]
        BY <1>9, <2>3, FailTodo
      <3>2. DOMAIN todo' = {} /\ tm'.buffer = <<>>
        BY <3>1
      <3> QED
        BY <3>2 DEF Nested, Committing
    <2> QED
      BY <2>2, <2>3
  <1>10. CASE CommitNext
    <2> DEFINE i == Head(todo).at
               e == Execute(tm.buffer[i], "commit")
    <2>1. /\ todo # <<>> /\ Head(todo) = todo[1] /\ todo[1].call = "commit"
          /\ i \in Nat \ {0} /\ i <= Len(tm.buffer) /\ tm' = tm
          /\ todo' = <<e, CommitFrom(i + 1)>>
      BY <1>10, HeadFacts, CommitNextTodo DEF CommitNext, Calls
    <2>2. Committing /\ Active
      <3>1. 1 \in DOMAIN todo
        BY <2>1, HeadFacts, StateFacts
      <3> QED
        BY <2>1, <3>1, CommittingFacts DEF Committing
    <2>3. e.call = "execute" /\ e.from = "commit" /\ e.op = tm.buffer[i]
      BY DEF Execute
    <2>4. CommitFrom(i + 1).call = "commit" /\ CommitFrom(i + 1).at = i + 1
      BY DEF CommitFrom
    <2> HIDE DEF i, e
    <2>5. DOMAIN todo' = {1, 2} /\ Len(todo') = 2 /\ todo'[1] = e /\ todo'[2] = CommitFrom(i + 1)
      BY <2>1
    <2>6. Committing' /\ At' = i + 1
      BY <2>4, <2>5 DEF Committing, At
    <2>7. At' > 1 /\ At' - 1 = i /\ At' \in 1 .. Len(tm'.buffer) + 1
      BY <2>1, <2>6, StateFacts
    <2> QED
      BY <2>1, <2>2, <2>3, <2>4, <2>5, <2>6, <2>7 DEF Nested, Active
  <1>11. CASE CommitEnd
    <2>1. todo' = <<>> /\ tm' = [state |-> "IDLE", buffer |-> <<>>]
      BY <1>11, CommitEndTodo
    <2>2. DOMAIN todo' = {} /\ tm'.buffer = <<>>
      BY <2>1
    <2> QED
      BY <2>2 DEF Nested, Committing
  <1>12. CASE UNCHANGED vars
    BY <1>12 DEF vars, Nested, Committing, Active, At
  <1>13. CASE RunTable
    <2>1. Replaced(0) /\ tm' = tm
      BY <1>13, Replacing DEF RunTable
    <2> QED
      BY <2>1, NestedReplaced
  <1>14. CASE Refuse
    <2>1. Replaced(0) /\ tm' = tm
      BY <1>14, Replacing DEF Refuse
    <2> QED
      BY <2>1, NestedReplaced
  <1>15. CASE RunInsert
    <2>1. Replaced(1) /\ todo'[1] = Execute(todo[1].op, "update") /\ tm' = tm
      BY <1>15, Replacing DEF RunInsert
    <2>2. todo'[1].call = "execute" /\ todo'[1].from = "update"
      BY <2>1 DEF Execute
    <2> QED
      BY <2>1, <2>2, NestedReplaced
  <1> QED
    BY <1>1, <1>2, <1>3, <1>4, <1>5, <1>6, <1>7, <1>8, <1>9, <1>10, <1>11, <1>12,
       <1>13, <1>14, <1>15 DEF Quiet

-----------------------------------------------------------------------------
(* Where statements are.                                                   *)

\* The statements of the calls of kinds C.
OpsOf(C) == {todo[i].op : i \in {j \in DOMAIN todo : todo[j].call \in C}}

AnyCall == {"query", "execute", "insertMany", "store"}

\* All statements there have been.
Known == Range(log) \cup Range(tm.buffer) \cup gone \cup failed \cup OpsOf(AnyCall)

\* Those not executed so far, which may still be.
Unrouted == {"query", "insertMany"}
Waiting == Unrouted \cup {"execute"}
Pending == OpsOf(Waiting)
             \cup {tm.buffer[k] : k \in At .. Len(tm.buffer)}

\* Those whose executor was called.
Ran == Range(log) \cup OpsOf({"store"})

\* A COMMIT has executed the buffer up to where it is, or has tried to.
Executed ==
    \A k \in 1 .. Len(tm.buffer) : k < At =>
        tm.buffer[k] \in Range(log) \cup failed \cup OpsOf({"execute", "store"})

LEMMA ReplacedOps ==
    ASSUME Typed, Nested, NEW d \in Nat, Replaced(d), NEW C \in SUBSET AnyCall
    PROVE  LET rest == {todo[j].op : j \in {i \in 2 .. Len(todo) : todo[i].call \in C}}
           IN /\ OpsOf(C) = rest \cup (IF todo[1].call \in C THEN {todo[1].op} ELSE {})
              /\ OpsOf(C)' = rest \cup {todo'[k].op : k \in {i \in 1 .. d : todo'[i].call \in C}}
  <1> DEFINE rest == {todo[j].op : j \in {i \in 2 .. Len(todo) : todo[i].call \in C}}
  <1>1. Len(todo) \in Nat \ {0} /\ DOMAIN todo = 1 .. Len(todo)
    BY StateFacts, HeadFacts DEF Replaced
  <1>2. DOMAIN todo = {1} \cup (2 .. Len(todo))
    BY <1>1
  <1>3. OpsOf(C) = rest \cup (IF todo[1].call \in C THEN {todo[1].op} ELSE {})
    BY <1>2 DEF OpsOf
  <1>4. /\ DOMAIN todo' = 1 .. d + Len(todo) - 1
        /\ \A j \in 1 .. d + Len(todo) - 1 :
              \/ j \in 1 .. d /\ todo'[j].call # "commit"
              \/ /\ j \notin 1 .. d /\ j - d + 1 \in 2 .. Len(todo)
                 /\ todo'[j] = todo[j - d + 1]
        /\ \A j \in 2 .. Len(todo) : j + d - 1 \in DOMAIN todo' /\ todo'[j + d - 1] = todo[j]
    BY ReplacedFacts
  <1> DEFINE new == {todo'[k].op : k \in {i \in 1 .. d : todo'[i].call \in C}}
  <1>5. OpsOf(C)' = {todo'[i].op : i \in {j \in DOMAIN todo' : todo'[j].call \in C}}
    BY DEF OpsOf
  <1>6. ASSUME NEW o \in OpsOf(C)'
        PROVE  o \in rest \cup new
    <2>1. PICK j \in DOMAIN todo' : todo'[j].call \in C /\ o = todo'[j].op
      BY <1>5
    <2> QED
      BY <2>1, <1>4
  <1>7. ASSUME NEW o \in rest
        PROVE  o \in OpsOf(C)'
    <2>1. PICK j \in 2 .. Len(todo) : todo[j].call \in C /\ o = todo[j].op
      OBVIOUS
    <2> QED
      BY <2>1, <1>4, <1>5
  <1>8. ASSUME NEW o \in new
        PROVE  o \in OpsOf(C)'
    <2>1. PICK k \in 1 .. d : todo'[k].call \in C /\ o = todo'[k].op
      OBVIOUS
    <2>2. k \in DOMAIN todo'
      BY <1>1, <1>4
    <2> QED
      BY <2>1, <2>2, <1>5
  <1>9. OpsOf(C)' = rest \cup new
    BY <1>6, <1>7, <1>8
  <1> QED
    BY <1>3, <1>9

\* What most steps do to the statements: none is lost, none comes up.
Kept == /\ Known' = Known /\ sent' = sent
        /\ Pending' \subseteq Pending
        /\ \A o \in Ran' : o \in Ran \/ o.kind # "INSERT"
        /\ Executed'

LEMMA KeptByRoute ==
    ASSUME Typed, Nested, Executed, RouteDml
    PROVE  Kept
  <1>0. UNCHANGED <<tables, log, sent, gone, failed>>
    BY DEF RouteDml
  <1>1. /\ todo # <<>> /\ todo[1].call = "query" /\ todo[1].op \in Op
    BY HeadFacts DEF RouteDml, Queries, Calls
  <1>2. At \in 1 .. Len(tm.buffer) + 1 /\ Len(tm.buffer) \in Nat
        /\ DOMAIN tm.buffer = 1 .. Len(tm.buffer)
    BY CommittingFacts, StateFacts
  <1>3. CASE Active
    <2>1. Replaced(0)
      BY <1>3, Replacing
    <2>2. At' = At
      BY <2>1, ReplacedFacts
    <2>3. /\ \A C \in SUBSET AnyCall : "query" \in C => OpsOf(C) = OpsOf(C)' \cup {todo[1].op}
          /\ \A C \in SUBSET AnyCall : "query" \notin C => OpsOf(C) = OpsOf(C)'
      <3> SUFFICES ASSUME NEW C \in SUBSET AnyCall
                   PROVE  OpsOf(C) = OpsOf(C)' \cup (IF "query" \in C THEN {todo[1].op} ELSE {})
        OBVIOUS
      <3>1. \E rest : /\ OpsOf(C) = rest \cup (IF todo[1].call \in C THEN {todo[1].op} ELSE {})
                      /\ OpsOf(C)' = rest \cup {todo'[k].op : k \in {i \in 1 .. 0 : todo'[i].call \in C}}
        BY <2>1, ReplacedOps
      <3> QED
        BY <3>1, <1>1
    <2>4. /\ DOMAIN tm'.buffer = 1 .. Len(tm.buffer) + 1 /\ Len(tm'.buffer) = Len(tm.buffer) + 1
          /\ \A k \in 1 .. Len(tm.buffer) : tm'.buffer[k] = tm.buffer[k]
          /\ tm'.buffer[Len(tm.buffer) + 1] = todo[1].op
      BY <1>3, Buffered
    <2>5. Range(tm'.buffer) = Range(tm.buffer) \cup {todo[1].op}
      BY SMTT(60), <2>4, <1>2 DEF Range
    <2>6. Known' = Known
      BY <2>3, <2>5, <1>0 DEF Known, AnyCall, Waiting, Unrouted
    <2>7. Pending' \subseteq Pending
      <3>1. ASSUME NEW k \in At .. Len(tm.buffer) + 1
            PROVE  tm'.buffer[k] \in Pending
        <4>1. CASE k = Len(tm.buffer) + 1
          <5>1. todo[1].op \in OpsOf(Waiting)
            BY <2>3 DEF AnyCall, Waiting, Unrouted
          <5> QED
            BY <4>1, <5>1, <2>4 DEF Pending
        <4>2. CASE k # Len(tm.buffer) + 1
          <5>1. k \in At .. Len(tm.buffer) /\ k \in 1 .. Len(tm.buffer)
            BY <4>2, <1>2
          <5> QED
            BY <5>1, <2>4 DEF Pending
        <4> QED
          BY <4>1, <4>2
      <3>2. OpsOf(Waiting)' \subseteq OpsOf(Waiting)
        BY <2>3 DEF AnyCall, Waiting, Unrouted
      <3> QED
        BY <2>2, <2>4, <3>1, <3>2 DEF Pending
    <2>8. Ran' \subseteq Ran
      BY <2>3, <1>0 DEF Ran, AnyCall, Waiting, Unrouted
    <2>9. Executed'
      <3> SUFFICES ASSUME NEW k \in 1 .. Len(tm.buffer) + 1, k < At
                   PROVE  tm'.buffer[k] \in Range(log) \cup failed \cup OpsOf({"execute", "store"})'
        BY <2>2, <2>4, <1>0 DEF Executed
      <3>1. k \in 1 .. Len(tm.buffer)
        BY <1>2
      <3>2. OpsOf({"execute", "store"})' = OpsOf({"execute", "store"})
        BY <2>3 DEF AnyCall, Waiting, Unrouted
      <3> QED
        BY <3>1, <3>2, <2>4 DEF Executed
    <2> QED
      BY <2>6, <2>7, <2>8, <2>9, <1>0 DEF Kept
  <1>4. CASE ~ Active
    <2>1. Replaced(1) /\ todo'[1] = Execute(todo[1].op, "query") /\ tm' = tm
      BY <1>4, Replacing DEF RouteDml
    <2>2. At' = At /\ At = 1
      BY <2>1, <1>4, ReplacedFacts, CommittingFacts
    <2>3. todo'[1].call = "execute" /\ todo'[1].op = todo[1].op
      BY <2>1 DEF Execute
    <2>4. /\ OpsOf(AnyCall)' = OpsOf(AnyCall)
          /\ OpsOf(Waiting)' = OpsOf(Waiting)
          /\ OpsOf({"store"})' = OpsOf({"store"})
      <3> DEFINE In(k, C) == IF k \in C THEN {todo[1].op} ELSE {}
      <3>1. ASSUME NEW C \in SUBSET AnyCall
            PROVE  \E rest : /\ OpsOf(C) = rest \cup In("query", C)
                             /\ OpsOf(C)' = rest \cup In("execute", C)
        <4>1. \E rest : /\ OpsOf(C) = rest \cup (IF todo[1].call \in C THEN {todo[1].op} ELSE {})
                        /\ OpsOf(C)' = rest \cup {todo'[k].op : k \in {i \in 1 .. 1 : todo'[i].call \in C}}
          BY <2>1, ReplacedOps
        <4>2. {todo'[k].op : k \in {i \in 1 .. 1 : todo'[i].call \in C}} = In("execute", C)
          BY <2>3
        <4> QED
          BY <4>1, <4>2, <1>1
      <3> QED
        BY <3>1 DEF AnyCall, Waiting, Unrouted
    <2>5. Known' = Known /\ Pending' = Pending /\ Ran' = Ran
      BY <2>1, <2>2, <2>4, <1>0 DEF Known, Pending, Ran
    <2>6. Executed'
      BY <2>1, <2>2, <1>2 DEF Executed
    <2> QED
      BY <2>5, <2>6, <1>0 DEF Kept
  <1> QED
    BY <1>3, <1>4

LEMMA KeptByStore ==
    ASSUME Typed, Nested, Executed, StoreRow
    PROVE  Kept
  <1>0. UNCHANGED <<tm, tables, sent, gone, failed>>
    BY DEF StoreRow
  <1>1. /\ todo # <<>> /\ todo[1].call = "store" /\ todo[1].op \in Op
        /\ log' = Append(log, todo[1].op)
    BY HeadFacts DEF StoreRow, Calls
  <1>2. Replaced(0) /\ At' = At
    BY Replacing, ReplacedFacts
  <1>3. ASSUME NEW C \in SUBSET AnyCall
        PROVE  OpsOf(C) = OpsOf(C)' \cup (IF "store" \in C THEN {todo[1].op} ELSE {})
    <2>1. \E rest : /\ OpsOf(C) = rest \cup (IF todo[1].call \in C THEN {todo[1].op} ELSE {})
                    /\ OpsOf(C)' = rest \cup {todo'[k].op : k \in {i \in 1 .. 0 : todo'[i].call \in C}}
      BY <1>2, ReplacedOps
    <2> QED
      BY <2>1, <1>1
  <1>4. /\ OpsOf(AnyCall) = OpsOf(AnyCall)' \cup {todo[1].op}
        /\ OpsOf(Waiting) = OpsOf(Waiting)'
        /\ OpsOf({"store"}) = OpsOf({"store"})' \cup {todo[1].op}
        /\ OpsOf({"execute", "store"}) = OpsOf({"execute", "store"})' \cup {todo[1].op}
    BY ZenonT(80), <1>3 DEF AnyCall, Waiting, Unrouted
  <1>5. Range(log') = Range(log) \cup {todo[1].op}
    <2>1. /\ DOMAIN log' = 1 .. Len(log) + 1
          /\ \A k \in 1 .. Len(log) : log'[k] = log[k]
          /\ log'[Len(log) + 1] = todo[1].op
      BY <1>1, AppendFacts DEF Typed
    <2> QED
      BY <2>1, StateFacts DEF Range
  <1>6. Known' = Known /\ Pending' = Pending /\ Ran' = Ran
    BY <1>0, <1>2, <1>4, <1>5 DEF Known, Pending, Ran
  <1>7. Executed'
    BY <1>0, <1>2, <1>4, <1>5 DEF Executed
  <1> QED
    BY <1>0, <1>6, <1>7 DEF Kept

LEMMA NoOps ==
    ASSUME todo = <<>>, NEW C
    PROVE  OpsOf(C) = {}
  BY NoCalls DEF OpsOf

\* What the call of an executor that fails under a COMMIT was about.
LEMMA FailedCommit ==
    ASSUME Typed, Nested, Fail, todo[1].from = "commit"
    PROVE  /\ Committing /\ At - 1 \in DOMAIN tm.buffer /\ Len(todo) = 2
           /\ todo[1].op = tm.buffer[At - 1] /\ todo[1].call = "execute"
           /\ todo[2].call = "commit"
           /\ failed' = failed \cup Range(tm.buffer) /\ todo' = <<>>
           /\ tm' = [state |-> "IDLE", buffer |-> <<>>]
  <1>1. todo # <<>> /\ Head(todo) = todo[1] /\ todo[1].call = "execute"
    BY HeadFacts DEF Fail, Calls
  <1>2. /\ todo' = <<>> /\ tm' = [state |-> "IDLE", buffer |-> <<>>]
        /\ todo[1].op = tm.buffer[At - 1] /\ Len(todo) = 2 /\ Committing /\ At > 1
        /\ failed' = failed \cup {todo[1].op} \cup Range(tm.buffer)
    BY FailTodo
  <1>3. todo[2].call = "commit"
    BY <1>2, CommittingFacts
  <1>4. At - 1 \in DOMAIN tm.buffer
    BY <1>2, CommittingFacts, StateFacts
  <1>5. todo[1].op \in Range(tm.buffer)
    BY <1>2, <1>4 DEF Range
  <1> QED
    BY <1>1, <1>2, <1>3, <1>4, <1>5

LEMMA KeptByFail ==
    ASSUME Typed, Nested, Executed, Fail
    PROVE  Kept
  <1>0. UNCHANGED <<tables, log, sent, gone>>
    BY DEF Fail
  <1>1. /\ todo # <<>> /\ todo[1].call = "execute" /\ todo[1].op \in Op /\ Head(todo) = todo[1]
    BY HeadFacts DEF Fail, Calls
  <1>2. CASE todo[1].from # "commit"
    <2>1. Replaced(0) /\ At' = At /\ tm' = tm /\ failed' = failed \cup {todo[1].op}
      BY <1>1, <1>2, Replacing, ReplacedFacts DEF Fail
    <2>2. ASSUME NEW C \in SUBSET AnyCall
          PROVE  OpsOf(C) = OpsOf(C)' \cup (IF "execute" \in C THEN {todo[1].op} ELSE {})
      <3>1. \E rest : /\ OpsOf(C) = rest \cup (IF todo[1].call \in C THEN {todo[1].op} ELSE {})
                      /\ OpsOf(C)' = rest \cup {todo'[k].op : k \in {i \in 1 .. 0 : todo'[i].call \in C}}
        BY <2>1, ReplacedOps
      <3> QED
        BY <3>1, <1>1
    <2>3. /\ OpsOf(AnyCall) = OpsOf(AnyCall)' \cup {todo[1].op}
          /\ OpsOf(Waiting) = OpsOf(Waiting)' \cup {todo[1].op}
          /\ OpsOf({"store"}) = OpsOf({"store"})'
      BY ZenonT(80), <2>2 DEF AnyCall, Waiting, Unrouted
    <2>4. Known' = Known /\ Pending' \subseteq Pending /\ Ran' = Ran
      BY <1>0, <2>1, <2>3 DEF Known, Pending, Ran
    <2>5. OpsOf({"execute", "store"}) = OpsOf({"execute", "store"})' \cup {todo[1].op}
      BY ZenonT(80), <2>2 DEF AnyCall
    <2>6. Executed'
      BY <1>0, <2>1, <2>5 DEF Executed
    <2> QED
      BY <1>0, <2>4, <2>6 DEF Kept
  <1>3. CASE todo[1].from = "commit"
    <2>1. /\ Committing /\ At - 1 \in DOMAIN tm.buffer /\ Len(todo) = 2
          /\ todo[1].op = tm.buffer[At - 1] /\ todo[2].call = "commit"
          /\ failed' = failed \cup Range(tm.buffer) /\ todo' = <<>>
          /\ tm' = [state |-> "IDLE", buffer |-> <<>>]
      BY <1>3, FailedCommit
    <2>2. tm'.buffer = <<>> /\ Len(tm'.buffer) = 0 /\ DOMAIN tm'.buffer = {} /\ At' = 1
          /\ \A C : OpsOf(C)' = {}
      <3>1. tm'.buffer = <<>>
        BY <2>1
      <3>2. Len(tm'.buffer) = 0 /\ DOMAIN tm'.buffer = {}
        BY <3>1
      <3>3. DOMAIN todo' = {}
        BY <2>1
      <3>4. At' = 1 /\ \A C : OpsOf(C)' = {}
        BY <3>3 DEF At, Committing, OpsOf
      <3> QED
        BY <3>1, <3>2, <3>4
    <2>3. OpsOf(AnyCall) = {todo[1].op}
      <3>1. DOMAIN todo = {1, 2}
        BY <2>1, StateFacts
      <3> QED
        BY <3>1, <2>1, <1>1 DEF OpsOf, AnyCall, Waiting, Unrouted
    <2>4. todo[1].op \in Range(tm.buffer)
      BY <2>1 DEF Range
    <2>5. Known' = Known
      BY <1>0, <2>1, <2>2, <2>3, <2>4 DEF Known, Range
    <2>6. Pending' = {} /\ Ran' \subseteq Ran /\ Executed'
      BY <1>0, <2>2 DEF Pending, Ran, Executed
    <2> QED
      BY <1>0, <2>5, <2>6 DEF Kept
  <1> QED
    BY <1>2, <1>3

LEMMA KeptByTable ==
    ASSUME Typed, Nested, Executed, RunTable
    PROVE  Kept
  <1>0. UNCHANGED <<tm, sent, gone, failed>>
    BY DEF RunTable
  <1>1. /\ todo # <<>> /\ todo[1].call = "query" /\ todo[1].op \in Op
        /\ todo[1].op.kind # "INSERT" /\ log' = Append(log, todo[1].op)
    BY HeadFacts DEF RunTable, Queries, Calls, TableKinds
  <1>2. Replaced(0) /\ At' = At
    BY Replacing, ReplacedFacts
  <1>3. ASSUME NEW C \in SUBSET AnyCall
        PROVE  OpsOf(C) = OpsOf(C)' \cup (IF "query" \in C THEN {todo[1].op} ELSE {})
    <2>1. \E rest : /\ OpsOf(C) = rest \cup (IF todo[1].call \in C THEN {todo[1].op} ELSE {})
                    /\ OpsOf(C)' = rest \cup {todo'[k].op : k \in {i \in 1 .. 0 : todo'[i].call \in C}}
      BY <1>2, ReplacedOps
    <2> QED
      BY <2>1, <1>1
  <1>4. /\ OpsOf(AnyCall) = OpsOf(AnyCall)' \cup {todo[1].op}
        /\ OpsOf(Waiting) = OpsOf(Waiting)' \cup {todo[1].op}
        /\ OpsOf({"store"}) = OpsOf({"store"})'
        /\ OpsOf({"execute", "store"}) = OpsOf({"execute", "store"})'
    BY ZenonT(80), <1>3 DEF AnyCall, Waiting, Unrouted
  <1>5. Range(log') = Range(log) \cup {todo[1].op}
    <2>1. /\ DOMAIN log' = 1 .. Len(log) + 1
          /\ \A k \in 1 .. Len(log) : log'[k] = log[k]
          /\ log'[Len(log) + 1] = todo[1].op
      BY <1>1, AppendFacts DEF Typed
    <2> QED
      BY <2>1, StateFacts DEF Range
  <1>6. Known' = Known /\ Pending' \subseteq Pending /\ Ran' = Ran \cup {todo[1].op}
    BY <1>0, <1>2, <1>4, <1>5 DEF Known, Pending, Ran
  <1>7. Executed'
    BY <1>0, <1>2, <1>4, <1>5 DEF Executed
  <1> QED
    BY <1>0, <1>1, <1>6, <1>7 DEF Kept

LEMMA KeptByRefuse ==
    ASSUME Typed, Nested, Executed, Refuse
    PROVE  Kept
  <1>0. UNCHANGED <<tm, log, sent, gone>> /\ failed' = failed \cup {todo[1].op}
    BY HeadFacts DEF Refuse, Queries, Calls
  <1>1. todo # <<>> /\ todo[1].call = "query" /\ todo[1].op \in Op
    BY HeadFacts DEF Refuse, Queries, Calls
  <1>2. Replaced(0) /\ At' = At
    BY Replacing, ReplacedFacts
  <1>3. ASSUME NEW C \in SUBSET AnyCall
        PROVE  OpsOf(C) = OpsOf(C)' \cup (IF "query" \in C THEN {todo[1].op} ELSE {})
    <2>1. \E rest : /\ OpsOf(C) = rest \cup (IF todo[1].call \in C THEN {todo[1].op} ELSE {})
                    /\ OpsOf(C)' = rest \cup {todo'[k].op : k \in {i \in 1 .. 0 : todo'[i].call \in C}}
      BY <1>2, ReplacedOps
    <2> QED
      BY <2>1, <1>1
  <1>4. /\ OpsOf(AnyCall) = OpsOf(AnyCall)' \cup {todo[1].op}
        /\ OpsOf(Waiting) = OpsOf(Waiting)' \cup {todo[1].op}
        /\ OpsOf({"store"}) = OpsOf({"store"})'
        /\ OpsOf({"execute", "store"}) = OpsOf({"execute", "store"})'
    BY ZenonT(80), <1>3 DEF AnyCall, Waiting, Unrouted
  <1>5. Known' = Known /\ Pending' \subseteq Pending /\ Ran' = Ran
    BY <1>0, <1>2, <1>4 DEF Known, Pending, Ran
  <1>6. Executed'
    BY <1>0, <1>2, <1>4 DEF Executed
  <1> QED
    BY <1>0, <1>5, <1>6 DEF Kept

LEMMA KeptByInsert ==
    ASSUME Typed, Nested, Executed, RunInsert
    PROVE  Kept
  <1>0. UNCHANGED <<tm, log, sent, gone, failed>>
    BY DEF RunInsert
  <1>1. todo # <<>> /\ todo[1].call = "insertMany" /\ todo[1].op \in Op
    BY HeadFacts DEF RunInsert, Calls
  <1>2. Replaced(1) /\ todo'[1] = Execute(todo[1].op, "update") /\ At' = At
    BY Replacing, ReplacedFacts
  <1>3. todo'[1].call = "execute" /\ todo'[1].op = todo[1].op
    BY <1>2 DEF Execute
  <1> DEFINE In(k, C) == IF k \in C THEN {todo[1].op} ELSE {}
  <1>4. ASSUME NEW C \in SUBSET AnyCall
        PROVE  \E rest : /\ OpsOf(C) = rest \cup In("insertMany", C)
                         /\ OpsOf(C)' = rest \cup In("execute", C)
    <2>1. \E rest : /\ OpsOf(C) = rest \cup (IF todo[1].call \in C THEN {todo[1].op} ELSE {})
                    /\ OpsOf(C)' = rest \cup {todo'[k].op : k \in {i \in 1 .. 1 : todo'[i].call \in C}}
      BY <1>2, ReplacedOps
    <2>2. {todo'[k].op : k \in {i \in 1 .. 1 : todo'[i].call \in C}} = In("execute", C)
      BY <1>3
    <2> QED
      BY <2>1, <2>2, <1>1
  <1>5. /\ OpsOf(AnyCall)' = OpsOf(AnyCall)
        /\ OpsOf(Waiting)' = OpsOf(Waiting)
        /\ OpsOf({"store"})' = OpsOf({"store"})
        /\ OpsOf({"execute", "store"}) \subseteq OpsOf({"execute", "store"})'
    BY <1>4 DEF AnyCall, Waiting, Unrouted
  <1>6. Known' = Known /\ Pending' = Pending /\ Ran' = Ran
    BY <1>0, <1>2, <1>5 DEF Known, Pending, Ran
  <1>7. Executed'
    BY <1>0, <1>2, <1>5 DEF Executed
  <1> QED
    BY <1>0, <1>6, <1>7 DEF Kept

\* While a COMMIT is the only call, all before its place has been executed.
LEMMA OnlyCommit ==
    ASSUME Typed, Nested, Executed, Calls("commit")
    PROVE  /\ Committing /\ Active /\ At = Head(todo).at /\ Len(todo) = 1
           /\ todo[1].call = "commit" /\ DOMAIN todo = {1} /\ Head(todo) = todo[1]
           /\ \A C \in SUBSET AnyCall : OpsOf(C) = {}
           /\ \A k \in 1 .. Len(tm.buffer) : k < At => tm.buffer[k] \in Range(log) \cup failed
  <1>1. todo # <<>> /\ Head(todo) = todo[1] /\ todo[1].call = "commit" /\ 1 \in DOMAIN todo
    BY HeadFacts, StateFacts DEF Calls
  <1>2. Len(todo) = 1 /\ DOMAIN todo = {1}
    <2>1. Len(todo) = 1
      BY <1>1 DEF Nested
    <2> QED
      BY <2>1, StateFacts
  <1>3. Committing /\ Active /\ At = Head(todo).at
    BY <1>1, <1>2, CommittingFacts DEF At
  <1>4. \A C \in SUBSET AnyCall : OpsOf(C) = {}
    BY <1>1, <1>2 DEF OpsOf, AnyCall, Waiting, Unrouted
  <1>5. OpsOf({"execute", "store"}) = {}
    BY <1>4 DEF AnyCall, Waiting, Unrouted
  <1> QED
    BY <1>1, <1>2, <1>3, <1>4, <1>5 DEF Executed

LEMMA CommitNextFacts ==
    ASSUME Typed, Nested, Executed, CommitNext
    PROVE  /\ At \in DOMAIN tm.buffer /\ At' = At + 1
           /\ DOMAIN todo' = {1, 2}
           /\ todo'[1].call = "execute" /\ todo'[1].op = tm.buffer[At]
           /\ todo'[2].call = "commit"
           /\ UNCHANGED <<tm, tables, log, sent, gone, failed>>
  <1> DEFINE i == Head(todo).at
             e == Execute(tm.buffer[i], "commit")
  <1>1. i = At /\ At \in 1 .. Len(tm.buffer) + 1
    BY OnlyCommit, CommittingFacts DEF CommitNext
  <1>2. i <= Len(tm.buffer) /\ todo' = <<e, CommitFrom(i + 1)>>
        /\ UNCHANGED <<tm, tables, log, sent, gone, failed>>
    BY CommitNextTodo DEF CommitNext
  <1>3. e.call = "execute" /\ e.op = tm.buffer[i]
    BY DEF Execute
  <1>4. CommitFrom(i + 1).call = "commit" /\ CommitFrom(i + 1).at = i + 1
    BY DEF CommitFrom
  <1> HIDE DEF i, e
  <1>5. DOMAIN todo' = {1, 2} /\ Len(todo') = 2 /\ todo'[1] = e /\ todo'[2] = CommitFrom(i + 1)
    BY <1>2
  <1>6. At' = i + 1
    BY <1>4, <1>5 DEF Committing, At
  <1>7. i \in DOMAIN tm.buffer
    BY <1>1, <1>2, StateFacts
  <1> QED
    BY <1>1, <1>2, <1>3, <1>4, <1>5, <1>6, <1>7

LEMMA KeptByCommitNext ==
    ASSUME Typed, Nested, Executed, CommitNext
    PROVE  Kept
  <1>1. /\ At \in DOMAIN tm.buffer /\ At' = At + 1
        /\ DOMAIN todo' = {1, 2}
        /\ todo'[1].call = "execute" /\ todo'[1].op = tm.buffer[At]
        /\ todo'[2].call = "commit"
        /\ UNCHANGED <<tm, tables, log, sent, gone, failed>>
    BY CommitNextFacts
  <1>2. /\ \A C \in SUBSET AnyCall : OpsOf(C) = {}
        /\ \A k \in 1 .. Len(tm.buffer) : k < At => tm.buffer[k] \in Range(log) \cup failed
    BY OnlyCommit DEF CommitNext
  <1>3. /\ OpsOf(AnyCall)' = {tm.buffer[At]}
        /\ OpsOf(Waiting)' = {tm.buffer[At]}
        /\ OpsOf({"store"})' = {}
        /\ OpsOf({"execute", "store"})' = {tm.buffer[At]}
    BY <1>1 DEF OpsOf, AnyCall, Waiting, Unrouted
  <1>4. tm.buffer[At] \in Range(tm.buffer)
    BY <1>1 DEF Range
  <1>5. Known' = Known
    <2>1. OpsOf(AnyCall) = {}
      BY <1>2
    <2> QED
      BY <2>1, <1>1, <1>3, <1>4 DEF Known
  <1>6. Pending' \subseteq Pending
    <2>1. At \in At .. Len(tm.buffer) /\ (At + 1) .. Len(tm.buffer) \subseteq At .. Len(tm.buffer)
      BY <1>1, StateFacts
    <2> QED
      BY <2>1, <1>1, <1>3 DEF Pending
  <1>7. Ran' \subseteq Ran
    BY <1>1, <1>3 DEF Ran
  <1>8. Executed'
    <2>1. ASSUME NEW k \in 1 .. Len(tm.buffer), k < At + 1
          PROVE  tm.buffer[k] \in Range(log) \cup failed \cup {tm.buffer[At]}
      <3>1. k < At \/ k = At
        BY <2>1, <1>1, StateFacts
      <3> QED
        BY <3>1, <1>2
    <2> QED
      BY <2>1, <1>1, <1>3 DEF Executed
  <1> QED
    BY <1>1, <1>5, <1>6, <1>7, <1>8 DEF Kept

LEMMA KeptByRest ==
    ASSUME Typed, Nested, Executed,
           \/ Begin \/ Commit \/ Rollback \/ CommitEnd \/ UNCHANGED vars
           \/ \E t \in Tables : CreateTable(t) \/ DropTable(t)
    PROVE  Kept
  <1>1. CASE \/ UNCHANGED vars
             \/ \E t \in Tables : CreateTable(t) \/ DropTable(t)
    <2>1. UNCHANGED <<tm, todo, log, sent, gone, failed>>
      BY <1>1 DEF vars, CreateTable, DropTable
    <2> QED
      BY <2>1 DEF Kept, Known, Pending, Ran, Executed, OpsOf, At, Committing
  <1>2. CASE Begin
    <2>1. /\ todo = <<>> /\ todo' = <<>> /\ tm.buffer = <<>> /\ tm'.buffer = <<>>
          /\ UNCHANGED <<log, sent, gone, failed>>
      BY <1>2 DEF Begin, Free, Nested
    <2> QED
      BY <2>1 DEF Kept, Known, Pending, Ran, Executed, OpsOf, At, Committing
  <1>3. CASE Commit
    <2>1. /\ todo = <<>> /\ todo' = <<CommitFrom(1)>>
          /\ UNCHANGED <<tm, log, sent, gone, failed>>
      BY <1>3 DEF Commit
    <2>2. DOMAIN todo' = {1} /\ Len(todo') = 1 /\ todo'[1].call = "commit" /\ todo'[1].at = 1
      BY <2>1 DEF CommitFrom
    <2>3. At = 1 /\ At' = 1 /\ \A C \in SUBSET AnyCall : OpsOf(C) = {} /\ OpsOf(C)' = {}
      BY <2>1, <2>2, NoCalls, NoOps DEF At, Committing, OpsOf, AnyCall, Waiting, Unrouted
    <2>4. /\ OpsOf(AnyCall) = {} /\ OpsOf(AnyCall)' = {}
          /\ OpsOf(Waiting) = {} /\ OpsOf(Waiting)' = {}
          /\ OpsOf({"store"}) = {} /\ OpsOf({"store"})' = {}
      BY <2>3 DEF AnyCall, Waiting, Unrouted
    <2>5. Executed'
      BY <2>1, <2>3 DEF Executed
    <2> QED
      BY <2>1, <2>3, <2>4, <2>5 DEF Kept, Known, Pending, Ran
  <1>4. CASE Rollback
    <2>1. /\ todo = <<>> /\ todo' = <<>> /\ tm' = [state |-> "IDLE", buffer |-> <<>>]
          /\ gone' = gone \cup Range(tm.buffer) /\ UNCHANGED <<log, sent, failed>>
      BY <1>4, RollbackTodo DEF Rollback
    <2>2. tm'.buffer = <<>> /\ Len(tm'.buffer) = 0 /\ DOMAIN tm'.buffer = {}
      <3>1. tm'.buffer = <<>>
        BY <2>1
      <3> QED
        BY <3>1
    <2>3. DOMAIN todo' = {} /\ DOMAIN todo = {}
      BY <2>1
    <2>4. At' = 1 /\ \A C : OpsOf(C)' = {} /\ OpsOf(C) = {}
      BY <2>3 DEF At, Committing, OpsOf
    <2>5. Known' = Known
      BY <2>1, <2>2, <2>4 DEF Known, Range
    <2>6. Pending' = {} /\ Ran' = Ran /\ Executed'
      BY <2>1, <2>2, <2>4 DEF Pending, Ran, Executed
    <2> QED
      BY <2>1, <2>5, <2>6 DEF Kept
  <1>5. CASE CommitEnd
    <2>1. /\ todo' = <<>> /\ tm' = [state |-> "IDLE", buffer |-> <<>>]
          /\ Head(todo).at > Len(tm.buffer) /\ Calls("commit")
          /\ UNCHANGED <<tables, log, sent, gone, failed>>
      BY <1>5, CommitEndTodo DEF CommitEnd
    <2>2. tm'.buffer = <<>> /\ Len(tm'.buffer) = 0 /\ DOMAIN tm'.buffer = {}
      <3>1. tm'.buffer = <<>>
        BY <2>1
      <3> QED
        BY <3>1
    <2>3. DOMAIN todo' = {}
      BY <2>1
    <2>4. At' = 1 /\ \A C : OpsOf(C)' = {}
      BY <2>3 DEF At, Committing, OpsOf
    <2>5. /\ At > Len(tm.buffer) /\ OpsOf(AnyCall) = {}
          /\ \A k \in 1 .. Len(tm.buffer) : k < At => tm.buffer[k] \in Range(log) \cup failed
      BY <2>1, OnlyCommit
    <2>6. Range(tm.buffer) \subseteq Range(log) \cup failed
      BY <2>5, StateFacts, CommittingFacts DEF Range
    <2>7. Known' = Known
      BY <2>1, <2>2, <2>4, <2>5, <2>6 DEF Known, Range
    <2>8. Pending' = {} /\ Ran' \subseteq Ran /\ Executed'
      BY <2>1, <2>2, <2>4 DEF Pending, Ran, Executed
    <2> QED
      BY <2>1, <2>7, <2>8 DEF Kept
  <1> QED
    BY <1>1, <1>2, <1>3, <1>4, <1>5

-----------------------------------------------------------------------------
(* Who sent what.                                                          *)

\* Every statement was numbered when it was sent, after the one that sent it.
Numbered == \A o \in Known : o.id \in 1 .. sent /\ o.cause \in 0 .. sent

\* A trigger answers an INSERT with one statement only.
OneAnswer ==
    \A o, p \in Known :
        /\ o.cause = p.cause /\ o.cause # 0
        /\ o.trigger = p.trigger /\ o.trigger # 0
        => o = p

\* No trigger has answered a statement that has not been executed.
NotYet == \A o \in Pending, p \in Known : p.cause # o.id

\* Every trigger has answered one that has.
Answered ==
    \A o \in Ran, i \in DOMAIN Triggers :
        /\ o.kind = "INSERT" /\ Triggers[i].event = "INSERT"
        /\ o.table = Triggers[i].table
        => \E p \in Known : p.cause = o.id /\ p.trigger = i

Caused == Numbered /\ OneAnswer /\ NotYet /\ Answered /\ Executed

\* A place is where a statement is that was executed or still may be: in the
\* log (1), in the call that executes it (2), in the buffer (3), in a call from
\* which no executor has been called yet (4).
PlacesOf(C) == {i \in DOMAIN todo : todo[i].call \in C}
Places ==
    {<<1, n>> : n \in DOMAIN log}
    \cup {<<2, i>> : i \in PlacesOf({"execute", "store"})}
    \cup {<<3, k>> : k \in At .. Len(tm.buffer)}
    \cup {<<4, i>> : i \in PlacesOf(Unrouted)}

OpAt(p) ==
    CASE p[1] = 1 -> log[p[2]]
      [] p[1] = 3 -> tm.buffer[p[2]]
      [] OTHER -> todo[p[2]].op

LEMMA KnownTyped ==
    ASSUME Typed, Nested
    PROVE  Known \in SUBSET Op /\ Pending \subseteq Known /\ Ran \subseteq Known
  <1>1. \A C \in SUBSET AnyCall : OpsOf(C) \subseteq OpsOf(AnyCall)
    BY DEF OpsOf
  <1>2. OpsOf(AnyCall) \subseteq Op
    BY StateFacts, CallFields DEF OpsOf, AnyCall, Waiting, Unrouted
  <1>3. /\ OpsOf(Waiting) \subseteq OpsOf(AnyCall)
        /\ OpsOf({"store"}) \subseteq OpsOf(AnyCall)
    BY <1>1 DEF AnyCall, Waiting, Unrouted
  <1>4. Range(log) \subseteq Op /\ Range(tm.buffer) \subseteq Op
    BY StateFacts DEF Range
  <1>5. {tm.buffer[k] : k \in At .. Len(tm.buffer)} \subseteq Range(tm.buffer)
    <2>1. At .. Len(tm.buffer) \subseteq DOMAIN tm.buffer
      BY CommittingFacts, StateFacts
    <2> QED
      BY <2>1 DEF Range
  <1> QED
    BY <1>2, <1>3, <1>4, <1>5 DEF Typed, Known, Pending, Ran

\* A client sends a statement.
LEMMA SentFacts ==
    ASSUME Typed, Nested, NEW t \in Tables, NEW kind \in Kinds, SendDml(kind, t)
    PROVE  LET st == Statement(sent + 1, kind, t, 0, 0)
           IN /\ st \in Op /\ st.id = sent + 1 /\ IsClients(st)
              /\ todo = <<>> /\ DOMAIN todo' = {1} /\ Len(todo') = 1
              /\ todo'[1].call = "query" /\ todo'[1].op = st
              /\ sent' = sent + 1 /\ UNCHANGED <<tm, tables, log, gone, failed>>
              /\ ~ Committing' /\ At = 1 /\ At' = 1
  <1> DEFINE st == Statement(sent + 1, kind, t, 0, 0)
             q == Query(st)
  <1>1. st \in Op /\ st.id = sent + 1 /\ IsClients(st)
    BY DEF Statement, Op, IsClients, Typed, Actions
  <1>2. q.call = "query" /\ q.op = st
    BY <1>1, CallsTyped
  <1>3. todo = <<>> /\ todo' = <<q>> /\ sent' = sent + 1
        /\ UNCHANGED <<tm, tables, log, gone, failed>>
    BY DEF SendDml, Free
  <1> HIDE DEF q
  <1>4. DOMAIN todo' = {1} /\ Len(todo') = 1 /\ todo'[1] = q
    BY <1>3
  <1>5. ~ Committing' /\ At' = 1
    BY <1>2, <1>4 DEF Committing, At
  <1> QED
    BY <1>1, <1>2, <1>3, <1>4, <1>5, NoCalls

LEMMA SentSets ==
    ASSUME Typed, Nested, NEW t \in Tables, NEW kind \in Kinds, SendDml(kind, t)
    PROVE  LET st == Statement(sent + 1, kind, t, 0, 0)
           IN /\ Known' = Known \cup {st}
              /\ Pending' = Pending \cup {st}
              /\ Ran' = Ran
              /\ Executed'
  <1> DEFINE st == Statement(sent + 1, kind, t, 0, 0)
  <1>1. /\ todo = <<>> /\ DOMAIN todo' = {1}
        /\ todo'[1].call = "query" /\ todo'[1].op = st
        /\ UNCHANGED <<tm, tables, log, gone, failed>>
        /\ At = 1 /\ At' = 1
    BY SentFacts
  <1> HIDE DEF st
  <1>2. /\ OpsOf(AnyCall) = {} /\ OpsOf(Waiting) = {} /\ OpsOf({"store"}) = {}
    BY <1>1, NoOps
  <1>3. /\ OpsOf(AnyCall)' = {st} /\ OpsOf(Waiting)' = {st}
        /\ OpsOf({"store"})' = {}
    BY <1>1 DEF OpsOf, AnyCall, Waiting, Unrouted
  <1>4. Executed'
    BY <1>1, StateFacts DEF Executed
  <1> QED
    BY <1>1, <1>2, <1>3, <1>4 DEF Known, Pending, Ran, st

\* The calls of the executor of a statement.
LEMMA RunSets ==
    ASSUME Typed, Nested, Executed, Run
    PROVE  \E s, d \in Nat : \E c \in Seq(CallType) :
              /\ Replaced(d) /\ d = Len(c) /\ s \in 1 .. d
              /\ Spawned(c, s, todo[1].op, sent)
              /\ \A k \in 1 .. d : todo'[k] = c[k]
              /\ sent' = sent + d - 1
              /\ todo[1].op \in Op /\ todo[1].call = "execute"
              /\ todo[1].op \in Pending
              /\ Known' = Known \cup {c[k].op : k \in (1 .. d) \ {s}}
              /\ Pending' \subseteq Pending \cup {c[k].op : k \in (1 .. d) \ {s}}
              /\ Ran' = Ran \cup {todo[1].op}
              /\ Executed' /\ At' = At
              /\ UNCHANGED <<tm, tables, log, gone, failed>>
  <1>1. PICK s \in Nat, d \in Nat, c \in Seq(CallType) :
            /\ Replaced(d) /\ d = Len(c)
            /\ Spawned(c, s, todo[1].op, sent)
            /\ \A k \in 1 .. d : todo'[k] = c[k]
            /\ sent' = sent + d - 1
            /\ todo[1].op \in Op /\ todo[1].call = "execute"
    BY Replacing
  <1> DEFINE op == todo[1].op
             new == {c[k].op : k \in (1 .. d) \ {s}}
  <1>2. s \in 1 .. d /\ c[s].call = "store" /\ c[s].op = op
        /\ \A k \in (1 .. d) \ {s} : c[k].call \in Unrouted
    BY <1>1, CallsTyped DEF Spawned, Unrouted
  <1>3. UNCHANGED <<tm, tables, log, gone, failed>> /\ At' = At
    BY <1>1, ReplacedFacts DEF Run
  <1>4. ASSUME NEW C \in SUBSET AnyCall, Unrouted \subseteq C \/ Unrouted \cap C = {}
        PROVE  \E rest :
                  /\ OpsOf(C) = rest \cup (IF "execute" \in C THEN {op} ELSE {})
                  /\ OpsOf(C)' = rest \cup (IF "store" \in C THEN {op} ELSE {})
                                     \cup (IF Unrouted \subseteq C THEN new ELSE {})
    <2>0. Replaced(d)
      BY <1>1
    <2>1. \E rest :
            /\ OpsOf(C) = rest \cup (IF todo[1].call \in C THEN {todo[1].op} ELSE {})
            /\ OpsOf(C)' = rest \cup {todo'[k].op : k \in {i \in 1 .. d : todo'[i].call \in C}}
      BY ZenonT(60), <2>0, ReplacedOps
    <2>2. {todo'[k].op : k \in {i \in 1 .. d : todo'[i].call \in C}}
             = (IF "store" \in C THEN {op} ELSE {}) \cup (IF Unrouted \subseteq C THEN new ELSE {})
      <3>1. CASE Unrouted \subseteq C
        <4>1. \A k \in 1 .. d : k # s => todo'[k] = c[k] /\ todo'[k].call \in C
          BY <3>1, <1>1, <1>2
        <4>2. s \in 1 .. d /\ todo'[s].call = "store" /\ todo'[s].op = op
          BY <1>1, <1>2
        <4> QED
          BY <3>1, <4>1, <4>2
      <3>2. CASE ~ (Unrouted \subseteq C)
        <4>1. \A k \in 1 .. d : k # s => todo'[k].call \notin C
          BY <3>2, <1>1, <1>2, <1>4
        <4>2. s \in 1 .. d /\ todo'[s].call = "store" /\ todo'[s].op = op
          BY <1>1, <1>2
        <4> QED
          BY <3>2, <4>1, <4>2
      <3> QED
        BY <3>1, <3>2
    <2> HIDE DEF new, op
    <2> QED
      BY <2>1, <2>2, <1>1 DEF op
  <1> HIDE DEF new, op
  <1>5. /\ OpsOf(AnyCall)' = OpsOf(AnyCall) \cup new /\ op \in OpsOf(AnyCall)
        /\ OpsOf(Waiting)' \subseteq OpsOf(Waiting) \cup new
        /\ op \in OpsOf(Waiting)
        /\ OpsOf({"store"})' = OpsOf({"store"}) \cup {op}
        /\ OpsOf({"execute", "store"})' = OpsOf({"execute", "store"})
    <2>1. AnyCall \in SUBSET AnyCall
      OBVIOUS
    <2>2. OpsOf(AnyCall)' = OpsOf(AnyCall) \cup new /\ op \in OpsOf(AnyCall)
      <3>1. "execute" \in AnyCall /\ "store" \in AnyCall /\ Unrouted \subseteq AnyCall
        BY DEF AnyCall, Unrouted
      <3> QED
        BY <2>1, <3>1, <1>4
    <2>3. /\ OpsOf(Waiting)' \subseteq OpsOf(Waiting) \cup new
          /\ op \in OpsOf(Waiting)
      <3>1. /\ Waiting \in SUBSET AnyCall /\ Unrouted \subseteq Waiting
            /\ "execute" \in Waiting /\ "store" \notin Waiting
        BY DEF AnyCall, Waiting, Unrouted
      <3> QED
        BY <3>1, <1>4
    <2>4. OpsOf({"store"})' = OpsOf({"store"}) \cup {op}
      <3>1. {"store"} \in SUBSET AnyCall /\ Unrouted \cap {"store"} = {} /\ Unrouted # {}
        BY DEF AnyCall, Unrouted
      <3>2. ~ (Unrouted \subseteq {"store"})
        BY <3>1
      <3> QED
        BY <3>1, <3>2, <1>4
    <2>5. OpsOf({"execute", "store"})' = OpsOf({"execute", "store"})
      <3>1. /\ {"execute", "store"} \in SUBSET AnyCall
            /\ Unrouted \cap {"execute", "store"} = {} /\ Unrouted # {}
        BY DEF AnyCall, Unrouted
      <3>2. ~ (Unrouted \subseteq {"execute", "store"})
        BY <3>1
      <3> QED
        BY <3>1, <3>2, <1>4
    <2> QED
      BY <2>2, <2>3, <2>4, <2>5
  <1>6. Known' = Known \cup new /\ Ran' = Ran \cup {op}
    BY <1>3, <1>5 DEF Known, Ran
  <1>7. Pending' \subseteq Pending \cup new /\ op \in Pending
    BY <1>3, <1>5 DEF Pending
  <1>8. Executed'
    BY <1>3, <1>5 DEF Executed
  <1> QED
    BY <1>1, <1>2, <1>3, <1>6, <1>7, <1>8 DEF new, op

-----------------------------------------------------------------------------
(* Where statements wait.                                                  *)

Before(p, q) == p[1] < q[1] \/ (p[1] = q[1] /\ p[2] < q[2])

\* A statement is at one place, and none that was rolled back is at any.
Apart ==
    /\ \A p, q \in Places : OpAt(p).id = OpAt(q).id => p = q
    /\ \A p \in Places, o \in gone : OpAt(p).id # o.id

\* Clients' statements are at places in the order in which they were sent.
Sorted ==
    \A p, q \in Places :
        Before(p, q) /\ IsClients(OpAt(p)) /\ IsClients(OpAt(q))
        => OpAt(p).id < OpAt(q).id

\* A client's statement that has not been routed is the only call; a row to
\* insert again is none.
Alone ==
    \A i \in DOMAIN todo :
        /\ todo[i].call = "query" /\ IsClients(todo[i].op) =>
              Len(todo) = 1 /\ todo[i].op.kind \in Kinds
        /\ todo[i].call = "insertMany" => ~ IsClients(todo[i].op)

PlacesAre ==
    \A p \in Places :
        /\ p = <<p[1], p[2]>> /\ p[1] \in 1 .. 4 /\ p[2] \in Nat
        /\ p[1] = 1 => p[2] \in DOMAIN log /\ OpAt(p) = log[p[2]]
        /\ p[1] = 2 => p[2] \in PlacesOf({"execute", "store"}) /\ OpAt(p) = todo[p[2]].op
        /\ p[1] = 3 => p[2] \in At .. Len(tm.buffer) /\ OpAt(p) = tm.buffer[p[2]]
        /\ p[1] = 4 => p[2] \in PlacesOf(Unrouted) /\ OpAt(p) = todo[p[2]].op
        /\ OpAt(p) \in Known /\ OpAt(p).id \in Nat

LEMMA PlaceFacts == Typed /\ Nested => PlacesAre
  <1> SUFFICES ASSUME Typed, Nested, NEW p \in Places
               PROVE  /\ p = <<p[1], p[2]>> /\ p[1] \in 1 .. 4 /\ p[2] \in Nat
                      /\ p[1] = 1 => p[2] \in DOMAIN log /\ OpAt(p) = log[p[2]]
                      /\ p[1] = 2 => p[2] \in PlacesOf({"execute", "store"}) /\ OpAt(p) = todo[p[2]].op
                      /\ p[1] = 3 => p[2] \in At .. Len(tm.buffer) /\ OpAt(p) = tm.buffer[p[2]]
                      /\ p[1] = 4 => p[2] \in PlacesOf(Unrouted) /\ OpAt(p) = todo[p[2]].op
                      /\ OpAt(p) \in Known /\ OpAt(p).id \in Nat
    BY DEF PlacesAre
  <1>0. \A o \in Known : o.id \in Nat
    BY KnownTyped DEF Op
  <1>1. CASE p \in {<<1, n>> : n \in DOMAIN log}
    <2>1. p = <<1, p[2]>> /\ p[1] = 1 /\ p[2] \in DOMAIN log /\ p[2] \in Nat
      BY <1>1, StateFacts
    <2>2. OpAt(p) = log[p[2]]
      BY <2>1 DEF OpAt
    <2> QED
      BY <1>0, <2>1, <2>2 DEF Known, Range
  <1>2. CASE p \in {<<2, i>> : i \in PlacesOf({"execute", "store"})}
    <2>1. p = <<2, p[2]>> /\ p[1] = 2 /\ p[2] \in PlacesOf({"execute", "store"})
      BY <1>2
    <2>2. OpAt(p) = todo[p[2]].op
      BY <2>1 DEF OpAt
    <2>3. p[2] \in Nat /\ todo[p[2]].op \in OpsOf(AnyCall)
      BY <2>1, StateFacts DEF PlacesOf, OpsOf, AnyCall, Waiting, Unrouted
    <2> QED
      BY <1>0, <2>1, <2>2, <2>3 DEF Known
  <1>3. CASE p \in {<<3, k>> : k \in At .. Len(tm.buffer)}
    <2>1. p = <<3, p[2]>> /\ p[1] = 3 /\ p[2] \in At .. Len(tm.buffer)
      BY <1>3
    <2>2. OpAt(p) = tm.buffer[p[2]]
      BY <2>1 DEF OpAt
    <2>3. p[2] \in DOMAIN tm.buffer /\ p[2] \in Nat
      BY <2>1, CommittingFacts, StateFacts
    <2> QED
      BY <1>0, <2>1, <2>2, <2>3 DEF Known, Range
  <1>4. CASE p \in {<<4, i>> : i \in PlacesOf(Unrouted)}
    <2>1. p = <<4, p[2]>> /\ p[1] = 4 /\ p[2] \in PlacesOf(Unrouted)
      BY <1>4
    <2>2. OpAt(p) = todo[p[2]].op
      BY <2>1 DEF OpAt
    <2>3. p[2] \in Nat /\ todo[p[2]].op \in OpsOf(AnyCall)
      BY <2>1, StateFacts DEF PlacesOf, OpsOf, AnyCall, Waiting, Unrouted
    <2> QED
      BY <1>0, <2>1, <2>2, <2>3 DEF Known
  <1> QED
    BY <1>0, <1>1, <1>2, <1>3, <1>4 DEF Places

\* A step after which every statement is where it was or has moved to a place
\* of its own, clients' statements staying in order, and new ones were numbered.
LEMMA Moved ==
    ASSUME Typed, Nested, Typed', Nested', Apart, Sorted, Numbered, gone' = gone,
           NEW f, NEW new,
           \A p \in Places' \ new : f[p] \in Places /\ OpAt(p)' = OpAt(f[p]),
           \A p, q \in Places' \ new : f[p] = f[q] => p = q,
           \A p, q \in Places' \ new :
              IsClients(OpAt(p)') /\ IsClients(OpAt(q)') /\ Before(p, q)
              => Before(f[p], f[q]),
           \A p, q \in new : OpAt(p)'.id = OpAt(q)'.id => p = q,
           \A p \in new :
              /\ OpAt(p)'.id > sent
              /\ IsClients(OpAt(p)') => new = {p} /\ \A q \in Places' : ~ Before(p, q)
    PROVE  Apart' /\ Sorted'
  <1>1. \A p \in Places : OpAt(p).id \in 1 .. sent
    BY PlaceFacts DEF PlacesAre, Numbered
  <1>2. \A o \in gone : o.id \in 1 .. sent
    BY DEF Numbered, Known
  <1>3. sent \in Nat /\ \A p \in Places' : OpAt(p)'.id \in Nat
    <2>1. (Typed /\ Nested => PlacesAre)'
      BY PlaceFacts, PTL
    <2> QED
      BY <2>1 DEF Typed, PlacesAre
  <1>4. ASSUME NEW p \in Places', NEW q \in Places', OpAt(p)'.id = OpAt(q)'.id
        PROVE  p = q
    <2>1. CASE p \in new /\ q \in new
      BY <2>1, <1>4
    <2>2. CASE p \notin new /\ q \notin new
      <3>1. f[p] = f[q]
        BY <2>2, <1>4 DEF Apart
      <3> QED
        BY <3>1, <2>2
    <2>3. CASE p \in new /\ q \notin new
      BY <2>3, <1>1, <1>3, <1>4
    <2>4. CASE p \notin new /\ q \in new
      BY <2>4, <1>1, <1>3, <1>4
    <2> QED
      BY <2>1, <2>2, <2>3, <2>4
  <1>5. ASSUME NEW p \in Places', NEW o \in gone'
        PROVE  OpAt(p)'.id # o.id
    <2>1. CASE p \in new
      BY <2>1, <1>2, <1>3
    <2>2. CASE p \notin new
      BY <2>2 DEF Apart
    <2> QED
      BY <2>1, <2>2
  <1>6. ASSUME NEW p \in Places', NEW q \in Places', Before(p, q),
               IsClients(OpAt(p)'), IsClients(OpAt(q)')
        PROVE  OpAt(p)'.id < OpAt(q)'.id
    <2>1. CASE p \in new
      BY <2>1, <1>6
    <2>2. CASE p \notin new /\ q \in new
      BY <2>2, <1>1, <1>3
    <2>3. CASE p \notin new /\ q \notin new
      <3>1. Before(f[p], f[q])
        BY <2>3, <1>6
      <3>2. IsClients(OpAt(f[p])) /\ IsClients(OpAt(f[q]))
        BY <2>3, <1>6
      <3> QED
        BY <2>3, <3>1, <3>2 DEF Sorted
    <2> QED
      BY <2>1, <2>2, <2>3
  <1>7. Apart'
    BY <1>4, <1>5 DEF Apart
  <1>8. Sorted'
    BY <1>6 DEF Sorted, Before
  <1> QED
    BY <1>7, <1>8

\* The places after a step that replaces the youngest call by d calls: the
\* older calls are d - 1 places further.
Back(p, d) == IF p[1] \in {2, 4} /\ p[2] > d THEN <<p[1], p[2] - d + 1>> ELSE p

LEMMA ReplacedPlaces ==
    ASSUME Typed, Nested, Typed', Nested', NEW d \in Nat, Replaced(d)
    PROVE  \A p \in Places' :
              p[1] \in {2, 4} /\ p[2] > d =>
                 /\ Back(p, d) \in Places /\ OpAt(p)' = OpAt(Back(p, d))
                 /\ Back(p, d)[1] = p[1] /\ Back(p, d)[2] = p[2] - d + 1
                 /\ p[2] - d + 1 \in 2 .. Len(todo)
  <1> SUFFICES ASSUME NEW p \in Places', p[1] \in {2, 4}, p[2] > d
               PROVE  /\ Back(p, d) \in Places /\ OpAt(p)' = OpAt(Back(p, d))
                      /\ Back(p, d)[1] = p[1] /\ Back(p, d)[2] = p[2] - d + 1
                      /\ p[2] - d + 1 \in 2 .. Len(todo)
    OBVIOUS
  <1> DEFINE C == IF p[1] = 2 THEN {"execute", "store"} ELSE Unrouted
             j == p[2]
             i == j - d + 1
  <1>1. PlacesAre'
    <2>1. (Typed /\ Nested => PlacesAre)'
      BY PlaceFacts, PTL
    <2> QED
      BY <2>1
  <1>2. j \in PlacesOf(C)' /\ OpAt(p)' = todo'[j].op /\ j \in Nat
    BY <1>1 DEF PlacesAre
  <1>3. j \in DOMAIN todo' /\ todo'[j].call \in C
    BY <1>2 DEF PlacesOf
  <1>4. i \in 2 .. Len(todo) /\ todo'[j] = todo[i]
    <2>1. j \in 1 .. d + Len(todo) - 1 /\ j \notin 1 .. d
      BY <1>2, <1>3, ReplacedFacts
    <2> HIDE DEF C
    <2> QED
      BY <2>1, ReplacedFacts
  <1>5. Back(p, d) = <<p[1], i>>
    BY DEF Back
  <1> HIDE DEF i, j
  <1>6. i \in DOMAIN todo
    BY <1>4, StateFacts
  <1>7. i \in PlacesOf(C)
    BY <1>3, <1>4, <1>6 DEF PlacesOf
  <1>8. <<p[1], i>> \in Places
    BY <1>7 DEF Places
  <1>9. OpAt(<<p[1], i>>) = todo[i].op
    BY DEF OpAt
  <1>10. i = p[2] - d + 1
    BY DEF i, j
  <1> QED
    BY <1>2, <1>4, <1>5, <1>8, <1>9, <1>10

\* Such a step puts the youngest call's statement at place s, when it keeps it.
LEMMA ReplacedMoves ==
    ASSUME Typed, Nested, Typed', Nested', Apart, Sorted, Numbered, gone' = gone,
           NEW d \in Nat, Replaced(d),
           NEW a \in {2, 4}, <<a, 1>> \in Places,
           NEW s, NEW new, ~ (s[1] \in {2, 4} /\ s[2] > d),
           s \in Places' \ new => OpAt(s)' = todo[1].op,
           \A p \in Places' \ new :
              \/ p[1] \in {2, 4} /\ p[2] > d
              \/ p = s
              \/ p[1] \in {1, 3} /\ p \in Places /\ OpAt(p)' = OpAt(p),
           IsClients(todo[1].op) =>
              \A p \in Places' \ new :
                 p # s => /\ Before(p, s) => Before(Back(p, d), <<a, 1>>)
                          /\ Before(s, p) => Before(<<a, 1>>, Back(p, d)),
           \A p, q \in new : OpAt(p)'.id = OpAt(q)'.id => p = q,
           \A p \in new : OpAt(p)'.id > sent /\ ~ IsClients(OpAt(p)')
    PROVE  Apart' /\ Sorted'
  <1> DEFINE old == Places' \ new
             f == [p \in old |-> IF p = s THEN <<a, 1>> ELSE Back(p, d)]
             Shifted(p) == p[1] \in {2, 4} /\ p[2] > d
  <1>0. PlacesAre'
    <2>1. (Typed /\ Nested => PlacesAre)'
      BY PlaceFacts, PTL
    <2> QED
      BY <2>1
  <1>1. \A p \in old : /\ p = <<p[1], p[2]>> /\ p[1] \in 1 .. 4 /\ p[2] \in Nat
    BY <1>0 DEF PlacesAre
  <1>2. OpAt(<<a, 1>>) = todo[1].op
    BY DEF OpAt
  <1>3. \A p \in old : Shifted(p) =>
           /\ p # s /\ Back(p, d) \in Places /\ OpAt(p)' = OpAt(Back(p, d))
           /\ Back(p, d)[1] = p[1] /\ Back(p, d)[2] = p[2] - d + 1
           /\ p[2] - d + 1 \in 2 .. Len(todo)
    BY ReplacedPlaces
  <1>4. \A p \in old : ~ Shifted(p) /\ p # s =>
           /\ p[1] \in {1, 3} /\ p \in Places /\ OpAt(p)' = OpAt(p) /\ Back(p, d) = p
    BY DEF Back
  <1>5. \A p \in old : f[p] \in Places /\ OpAt(p)' = OpAt(f[p])
    BY <1>2, <1>3, <1>4
  <1>6. ASSUME NEW p \in old, NEW q \in old, f[p] = f[q]
        PROVE  p = q
    <2>1. CASE p = s /\ q # s
      <3>1. <<a, 1>> = Back(q, d)
        BY <1>6, <2>1
      <3>2. Back(q, d)[1] = a /\ Back(q, d)[2] = 1
        BY <3>1
      <3> QED
        BY <2>1, <3>2, <1>1, <1>3, <1>4
    <2>2. CASE q = s /\ p # s
      <3>1. <<a, 1>> = Back(p, d)
        BY <1>6, <2>2
      <3>2. Back(p, d)[1] = a /\ Back(p, d)[2] = 1
        BY <3>1
      <3> QED
        BY <2>2, <3>2, <1>1, <1>3, <1>4
    <2>3. CASE p # s /\ q # s
      <3>1. Back(p, d) = Back(q, d)
        BY <1>6, <2>3
      <3>2. CASE Shifted(p) /\ Shifted(q)
        <4>1. p[1] = q[1] /\ p[2] - d + 1 = q[2] - d + 1
          BY <1>3, <3>1, <3>2
        <4>2. p[2] = q[2]
          BY <4>1, <1>1
        <4> QED
          BY <4>1, <4>2, <1>1
      <3>3. CASE ~ Shifted(p) /\ ~ Shifted(q)
        BY <1>4, <2>3, <3>1, <3>3
      <3>4. CASE Shifted(p) # Shifted(q)
        BY <1>3, <1>4, <2>3, <3>1, <3>4
      <3> QED
        BY <3>2, <3>3, <3>4
    <2> QED
      BY <2>1, <2>2, <2>3
  <1>7. ASSUME NEW p \in old, NEW q \in old, Before(p, q),
               IsClients(OpAt(p)'), IsClients(OpAt(q)')
        PROVE  Before(f[p], f[q])
    <2>1. CASE p = s /\ q = s
      BY <2>1, <1>7, <1>1 DEF Before
    <2>2. CASE p = s /\ q # s
      BY <2>2, <1>7
    <2>3. CASE p # s /\ q = s
      BY <2>3, <1>7
    <2>4. CASE p # s /\ q # s
      <3>1. CASE Shifted(p) /\ Shifted(q)
        BY <3>1, <2>4, <1>7, <1>1, <1>3 DEF Before
      <3>2. CASE ~ Shifted(p) /\ ~ Shifted(q)
        BY <3>2, <2>4, <1>7, <1>4
      <3>3. CASE Shifted(p) # Shifted(q)
        BY <3>3, <2>4, <1>7, <1>1, <1>3, <1>4 DEF Before
      <3> QED
        BY <3>1, <3>2, <3>3
    <2> QED
      BY <2>1, <2>2, <2>3, <2>4
  <1> HIDE DEF f
  <1> QED
    BY <1>5, <1>6, <1>7, Moved

\* The places of calls of the kinds C after such a step.
LEMMA ReplacedCalls ==
    ASSUME Typed, Nested, NEW d \in Nat, Replaced(d), NEW C,
           NEW j \in PlacesOf(C)'
    PROVE  j \in Nat /\ (j > d \/ (j \in 1 .. d /\ todo'[j].call \in C))
  <1>1. j \in DOMAIN todo' /\ todo'[j].call \in C
    BY DEF PlacesOf
  <1>2. DOMAIN todo' = 1 .. d + Len(todo) - 1
    BY ReplacedFacts
  <1>3. j \in Nat /\ j >= 1
    BY <1>1, <1>2
  <1> QED
    BY <1>1, <1>3

\* The youngest call is at a place.
LEMMA HeadPlace ==
    ASSUME Typed, todo # <<>>
    PROVE  /\ todo[1].call \in {"execute", "store"} => <<2, 1>> \in Places
           /\ todo[1].call \in Unrouted => <<4, 1>> \in Places
  <1>1. 1 \in DOMAIN todo
    BY HeadFacts, StateFacts
  <1> QED
    BY <1>1 DEF Places, PlacesOf

LEMMA MovedByRoute ==
    ASSUME Typed, Nested, Typed', Nested', Apart, Sorted, Numbered, Alone, RouteDml
    PROVE  Apart' /\ Sorted'
  <1>0. PlacesAre'
    <2>1. (Typed /\ Nested => PlacesAre)'
      BY PlaceFacts, PTL
    <2> QED
      BY <2>1
  <1>1. UNCHANGED <<tables, log, sent, gone, failed>>
    BY DEF RouteDml
  <1>2. todo # <<>> /\ todo[1].call = "query" /\ <<4, 1>> \in Places /\ 1 \in DOMAIN todo
    BY HeadFacts, HeadPlace, StateFacts DEF RouteDml, Queries, Calls, Unrouted
  <1>3. \A p \in Places' : /\ p = <<p[1], p[2]>> /\ p[1] \in 1 .. 4 /\ p[2] \in Nat
    BY <1>0 DEF PlacesAre
  <1>4. \A p \in Places' : p[1] = 1 => p \in Places /\ OpAt(p)' = OpAt(p)
    <2>1. ASSUME NEW p \in Places', p[1] = 1
          PROVE  p \in Places /\ OpAt(p)' = OpAt(p)
      <3>1. p[2] \in DOMAIN log /\ p = <<1, p[2]>> /\ OpAt(p)' = log[p[2]]
        BY <2>1, <1>0, <1>1 DEF PlacesAre
      <3>2. OpAt(p) = log[p[2]]
        BY <2>1 DEF OpAt
      <3>3. <<1, p[2]>> \in Places
        BY <3>1 DEF Places
      <3> QED
        BY <3>1, <3>2, <3>3
    <2> QED
      BY <2>1
  <1>5. CASE Active
    <2>0. PICK L \in Nat : L = Len(tm.buffer)
      BY StateFacts
    <2> DEFINE new == {}
               s == <<3, L + 1>>
    <2>1. /\ Replaced(0) /\ At' = At /\ DOMAIN tm'.buffer = 1 .. L + 1
          /\ Len(tm'.buffer) = L + 1 /\ L \in Nat /\ At \in Nat
          /\ \A k \in 1 .. L : tm'.buffer[k] = tm.buffer[k]
          /\ tm'.buffer[L + 1] = todo[1].op
      <3>1. Replaced(0)
        BY <1>5, Replacing
      <3>2. At' = At
        BY <3>1, ReplacedFacts
      <3>3. L \in Nat /\ At \in Nat
        BY StateFacts, CommittingFacts, <2>0
      <3>4. /\ DOMAIN tm'.buffer = 1 .. L + 1 /\ Len(tm'.buffer) = L + 1
            /\ \A k \in 1 .. L : tm'.buffer[k] = tm.buffer[k]
            /\ tm'.buffer[L + 1] = todo[1].op
        BY <1>5, <2>0, Buffered
      <3> QED
        BY <3>1, <3>2, <3>3, <3>4
    <2>2. OpAt(s)' = todo[1].op
      BY <2>1 DEF OpAt
    <2>3. ASSUME NEW p \in Places', p[1] = 3, p # s
          PROVE  /\ p \in Places /\ OpAt(p)' = OpAt(p)
      <3>1. p[2] \in At .. L + 1 /\ OpAt(p)' = tm'.buffer[p[2]] /\ p = <<3, p[2]>>
        BY <2>1, <2>3, <1>0 DEF PlacesAre
      <3>2. p[2] \in At .. L
        BY <3>1, <2>1, <2>3
      <3>3. p[2] \in 1 .. L
        BY <3>2, CommittingFacts, <2>0, <2>1
      <3>4. OpAt(p) = tm.buffer[p[2]]
        BY <2>3 DEF OpAt
      <3>5. <<3, p[2]>> \in Places
        BY <3>2, <2>0 DEF Places
      <3> QED
        BY <3>1, <3>3, <3>4, <3>5, <2>1
    <2>4. \A p \in Places' \ new :
             \/ p[1] \in {2, 4} /\ p[2] > 0
             \/ p = s
             \/ p[1] \in {1, 3} /\ p \in Places /\ OpAt(p)' = OpAt(p)
      <3>1. \A p \in Places' : p[1] \in {2, 4} => p[2] > 0
        <4>1. ASSUME NEW p \in Places', NEW C, p[2] \in PlacesOf(C)'
              PROVE  p[2] > 0
          BY <4>1, <2>1, ReplacedCalls
        <4> QED
          BY <4>1, <1>0 DEF PlacesAre
      <3> QED
        BY <3>1, <1>3, <1>4, <2>3
    <2>5. \A p \in Places' \ new : p # s =>
             /\ Before(p, s) => Before(Back(p, 0), <<4, 1>>)
             /\ Before(s, p) => Before(<<4, 1>>, Back(p, 0))
      <3> SUFFICES ASSUME NEW p \in Places', p # s
                   PROVE  /\ Before(p, s) => Before(Back(p, 0), <<4, 1>>)
                          /\ Before(s, p) => Before(<<4, 1>>, Back(p, 0))
        OBVIOUS
      <3>1. CASE p[1] \in {2, 4}
        <4>1. Back(p, 0)[1] = p[1] /\ Back(p, 0)[2] >= 2 /\ Back(p, 0)[2] \in Nat
          BY <3>1, <2>1, <2>4, ReplacedPlaces, HeadFacts
        <4> QED
          BY <3>1, <4>1 DEF Before
      <3>2. CASE p[1] \in {1, 3}
        <4>1. Back(p, 0) = p
          BY <3>2 DEF Back
        <4>2. p[1] = 3 => p[2] \in At .. L + 1
          BY <1>0, <2>1 DEF PlacesAre
        <4>3. ~ Before(s, p)
          BY <3>2, <4>2, <1>3, <2>1 DEF Before
        <4> QED
          BY <3>2, <4>1, <4>3, <1>3 DEF Before
      <3> QED
        BY <3>1, <3>2, <1>3
    <2>6. ~ (s[1] \in {2, 4} /\ s[2] > 0)
      OBVIOUS
    <2>7. \A p \in new : FALSE
      OBVIOUS
    <2>8. 0 \in Nat /\ 4 \in {2, 4}
      OBVIOUS
    <2> HIDE DEF s, new
    <2> QED
      BY <1>1, <1>2, <2>1, <2>2, <2>4, <2>5, <2>6, <2>7, <2>8, ReplacedMoves
  <1>6. CASE ~ Active
    <2> DEFINE new == {}
               s == <<2, 1>>
    <2>1. /\ Replaced(1) /\ todo'[1] = Execute(todo[1].op, "query") /\ tm' = tm
          /\ tm.buffer = <<>> /\ At' = At /\ At = 1 /\ Len(tm.buffer) = 0
      BY <1>6, Replacing, ReplacedFacts, CommittingFacts DEF RouteDml, Nested
    <2>2. todo'[1].op = todo[1].op /\ todo'[1].call = "execute"
      BY <2>1 DEF Execute
    <2>3. OpAt(s)' = todo[1].op
      BY <2>2 DEF OpAt
    <2>4. \A p \in Places' : p[1] # 3
      BY <1>0, <2>1 DEF PlacesAre
    <2>5. \A p \in Places' : p[1] \in {2, 4} => p[2] > 1 \/ p = s
      <3> SUFFICES ASSUME NEW p \in Places', p[1] \in {2, 4}, ~ (p[2] > 1)
                   PROVE  p = s
        OBVIOUS
      <3>1. CASE p[1] = 2
        <4>1. p[2] \in PlacesOf({"execute", "store"})'
          BY <3>1, <1>0 DEF PlacesAre
        <4>2. p[2] \in 1 .. 1
          BY <4>1, <2>1, ReplacedCalls
        <4> QED
          BY <3>1, <4>2, <1>3
      <3>2. CASE p[1] = 4
        <4>1. p[2] \in PlacesOf(Unrouted)'
          BY <3>2, <1>0 DEF PlacesAre
        <4>2. p[2] \in 1 .. 1 /\ todo'[p[2]].call \in Unrouted
          BY <4>1, <2>1, ReplacedCalls
        <4> QED
          BY <4>2, <2>2 DEF Unrouted
      <3> QED
        BY <3>1, <3>2
    <2>6. \A p \in Places' \ new :
             \/ p[1] \in {2, 4} /\ p[2] > 1
             \/ p = s
             \/ p[1] \in {1, 3} /\ p \in Places /\ OpAt(p)' = OpAt(p)
      BY <1>3, <1>4, <2>4, <2>5
    <2>7. ASSUME IsClients(todo[1].op)
          PROVE  \A p \in Places' \ new : p # s =>
                    /\ Before(p, s) => Before(Back(p, 1), <<4, 1>>)
                    /\ Before(s, p) => Before(<<4, 1>>, Back(p, 1))
      <3>1. Len(todo) = 1
        BY <2>7, <1>2 DEF Alone
      <3>2. \A p \in Places' : p[1] \in {2, 4} => ~ (p[2] > 1)
        BY <3>1, <2>1, ReplacedPlaces
      <3>3. \A p \in Places' : p # s => p[1] = 1 /\ Back(p, 1) = p
        BY <3>2, <2>4, <2>5, <1>3 DEF Back
      <3> QED
        BY <3>3 DEF Before
    <2>8. ~ (s[1] \in {2, 4} /\ s[2] > 1)
      OBVIOUS
    <2>9. \A p \in new : FALSE
      OBVIOUS
    <2>10. 1 \in Nat /\ 4 \in {2, 4}
      OBVIOUS
    <2> HIDE DEF s, new
    <2> QED
      BY <1>1, <1>2, <2>1, <2>3, <2>6, <2>7, <2>8, <2>9, <2>10, ReplacedMoves
  <1> QED
    BY <1>5, <1>6

\* Places in the log and in the buffer that a step leaves alone.
LEMMA LogPlaces ==
    ASSUME PlacesAre', log' = log
    PROVE  \A p \in Places' : p[1] = 1 => p \in Places /\ OpAt(p)' = OpAt(p)
  <1> SUFFICES ASSUME NEW p \in Places', p[1] = 1
               PROVE  p \in Places /\ OpAt(p)' = OpAt(p)
    OBVIOUS
  <1>1. p[2] \in DOMAIN log /\ p = <<1, p[2]>> /\ OpAt(p)' = log[p[2]]
    BY DEF PlacesAre
  <1>2. OpAt(p) = log[p[2]]
    BY DEF OpAt
  <1>3. <<1, p[2]>> \in Places
    BY <1>1 DEF Places
  <1> QED
    BY <1>1, <1>2, <1>3

LEMMA BufferPlaces ==
    ASSUME PlacesAre', tm' = tm, At \in Nat, At' \in Nat, At' >= At, Len(tm.buffer) \in Nat
    PROVE  \A p \in Places' :
              p[1] = 3 => /\ p \in Places /\ OpAt(p)' = OpAt(p)
                          /\ p[2] \in At' .. Len(tm.buffer)
  <1> SUFFICES ASSUME NEW p \in Places', p[1] = 3
               PROVE  /\ p \in Places /\ OpAt(p)' = OpAt(p)
                      /\ p[2] \in At' .. Len(tm.buffer)
    OBVIOUS
  <1>1. p[2] \in At' .. Len(tm.buffer) /\ p = <<3, p[2]>> /\ OpAt(p)' = tm.buffer[p[2]]
    BY DEF PlacesAre
  <1>2. OpAt(p) = tm.buffer[p[2]]
    BY DEF OpAt
  <1>3. p[2] \in At .. Len(tm.buffer)
    BY <1>1
  <1>4. <<3, p[2]>> \in Places
    BY <1>3 DEF Places
  <1> QED
    BY <1>1, <1>2, <1>4

LEMMA MovedByStore ==
    ASSUME Typed, Nested, Typed', Nested', Apart, Sorted, Numbered, StoreRow
    PROVE  Apart' /\ Sorted'
  <1>0. PlacesAre'
    <2>1. (Typed /\ Nested => PlacesAre)'
      BY PlaceFacts, PTL
    <2> QED
      BY <2>1
  <1>1. /\ todo # <<>> /\ todo[1].call = "store" /\ todo[1].op \in Op
        /\ <<2, 1>> \in Places /\ log' = Append(log, todo[1].op)
        /\ UNCHANGED <<tm, tables, sent, gone, failed>>
    BY HeadFacts, HeadPlace DEF StoreRow, Calls
  <1>2. Replaced(0) /\ At' = At /\ At \in Nat
    BY Replacing, ReplacedFacts, CommittingFacts
  <1>3. PICK L \in Nat : L = Len(log)
    BY StateFacts
  <1> DEFINE new == {}
             s == <<1, L + 1>>
  <1>4. /\ DOMAIN log' = 1 .. L + 1 /\ DOMAIN log = 1 .. L
        /\ \A n \in 1 .. L : log'[n] = log[n]
        /\ log'[L + 1] = todo[1].op
    BY <1>1, <1>3, AppendFacts, StateFacts DEF Typed
  <1>5. \A p \in Places' : /\ p = <<p[1], p[2]>> /\ p[1] \in 1 .. 4 /\ p[2] \in Nat
    BY <1>0 DEF PlacesAre
  <1>6. OpAt(s)' = todo[1].op
    BY <1>4 DEF OpAt
  <1>7. ASSUME NEW p \in Places', p[1] = 1, p # s
        PROVE  p \in Places /\ OpAt(p)' = OpAt(p) /\ p[2] \in 1 .. L
    <2>1. p[2] \in 1 .. L + 1 /\ OpAt(p)' = log'[p[2]] /\ p = <<1, p[2]>>
      BY <1>0, <1>4, <1>7 DEF PlacesAre
    <2>2. p[2] \in 1 .. L
      BY <2>1, <1>7
    <2>3. OpAt(p) = log[p[2]]
      BY <1>7 DEF OpAt
    <2>4. <<1, p[2]>> \in Places
      BY <2>2, <1>4 DEF Places
    <2> QED
      BY <2>1, <2>2, <2>3, <2>4, <1>4
  <1>8. \A p \in Places' : p[1] = 3 => p \in Places /\ OpAt(p)' = OpAt(p)
    BY <1>0, <1>1, <1>2, StateFacts, BufferPlaces
  <1>9. \A p \in Places' : p[1] \in {2, 4} => p[2] > 0
    <2>1. ASSUME NEW p \in Places', NEW C, p[2] \in PlacesOf(C)'
          PROVE  p[2] > 0
      BY <2>1, <1>2, ReplacedCalls
    <2> QED
      BY <2>1, <1>0 DEF PlacesAre
  <1>10. \A p \in Places' \ new :
            \/ p[1] \in {2, 4} /\ p[2] > 0
            \/ p = s
            \/ p[1] \in {1, 3} /\ p \in Places /\ OpAt(p)' = OpAt(p)
    BY <1>5, <1>7, <1>8, <1>9
  <1>11. ASSUME NEW p \in Places' \ new, p # s
         PROVE  /\ Before(p, s) => Before(Back(p, 0), <<2, 1>>)
                /\ Before(s, p) => Before(<<2, 1>>, Back(p, 0))
    <2>1. CASE p[1] \in {2, 4}
      <3>1. Back(p, 0)[1] = p[1] /\ Back(p, 0)[2] >= 2 /\ Back(p, 0)[2] \in Nat
        BY <2>1, <1>2, <1>9, ReplacedPlaces, HeadFacts
      <3> QED
        BY <2>1, <3>1 DEF Before
    <2>2. CASE p[1] \in {1, 3}
      <3>1. Back(p, 0) = p
        BY <2>2 DEF Back
      <3>2. p[1] = 1 => p[2] \in 1 .. L
        BY <1>7, <1>11
      <3> QED
        BY <2>2, <3>1, <3>2 DEF Before
    <2> QED
      BY <2>1, <2>2, <1>5
  <1>12. \A p \in new : FALSE
    OBVIOUS
  <1>13. 0 \in Nat /\ 2 \in {2, 4} /\ ~ (s[1] \in {2, 4} /\ s[2] > 0)
    OBVIOUS
  <1> HIDE DEF s, new
  <1> QED
    BY <1>1, <1>2, <1>6, <1>10, <1>11, <1>12, <1>13, ReplacedMoves

LEMMA MovedByTable ==
    ASSUME Typed, Nested, Typed', Nested', Apart, Sorted, Numbered, Alone, RunTable
    PROVE  Apart' /\ Sorted'
  <1>0. PlacesAre'
    <2>1. (Typed /\ Nested => PlacesAre)'
      BY PlaceFacts, PTL
    <2> QED
      BY <2>1
  <1>1. /\ todo # <<>> /\ todo[1].call = "query" /\ todo[1].op \in Op
        /\ todo[1].op.kind \notin Kinds
        /\ <<4, 1>> \in Places /\ log' = Append(log, todo[1].op)
        /\ UNCHANGED <<tm, sent, gone, failed>>
    BY HeadFacts, HeadPlace DEF RunTable, Queries, Calls, TableKinds, Kinds, Unrouted
  <1>2. Replaced(0) /\ At' = At /\ At \in Nat
    BY Replacing, ReplacedFacts, CommittingFacts
  <1>3. PICK L \in Nat : L = Len(log)
    BY StateFacts
  <1> DEFINE new == {}
             s == <<1, L + 1>>
  <1>4. /\ DOMAIN log' = 1 .. L + 1 /\ DOMAIN log = 1 .. L
        /\ \A n \in 1 .. L : log'[n] = log[n]
        /\ log'[L + 1] = todo[1].op
    BY <1>1, <1>3, AppendFacts, StateFacts DEF Typed
  <1>5. \A p \in Places' : /\ p = <<p[1], p[2]>> /\ p[1] \in 1 .. 4 /\ p[2] \in Nat
    BY <1>0 DEF PlacesAre
  <1>6. OpAt(s)' = todo[1].op
    BY <1>4 DEF OpAt
  <1>7. ASSUME NEW p \in Places', p[1] = 1, p # s
        PROVE  p \in Places /\ OpAt(p)' = OpAt(p)
    <2>1. p[2] \in 1 .. L + 1 /\ OpAt(p)' = log'[p[2]] /\ p = <<1, p[2]>>
      BY <1>0, <1>4, <1>7 DEF PlacesAre
    <2>2. p[2] \in 1 .. L
      BY <2>1, <1>7
    <2>3. OpAt(p) = log[p[2]]
      BY <1>7 DEF OpAt
    <2>4. <<1, p[2]>> \in Places
      BY <2>2, <1>4 DEF Places
    <2> QED
      BY <2>1, <2>2, <2>3, <2>4, <1>4
  <1>8. \A p \in Places' : p[1] = 3 => p \in Places /\ OpAt(p)' = OpAt(p)
    BY <1>0, <1>1, <1>2, StateFacts, BufferPlaces
  <1>9. \A p \in Places' : p[1] \in {2, 4} => p[2] > 0
    <2>1. ASSUME NEW p \in Places', NEW C, p[2] \in PlacesOf(C)'
          PROVE  p[2] > 0
      BY <2>1, <1>2, ReplacedCalls
    <2> QED
      BY <2>1, <1>0 DEF PlacesAre
  <1>10. \A p \in Places' \ new :
            \/ p[1] \in {2, 4} /\ p[2] > 0
            \/ p = s
            \/ p[1] \in {1, 3} /\ p \in Places /\ OpAt(p)' = OpAt(p)
    BY <1>5, <1>7, <1>8, <1>9
  <1>11. ~ IsClients(todo[1].op)
    BY <1>1, HeadFacts, StateFacts DEF Alone
  <1>12. \A p \in new : FALSE
    OBVIOUS
  <1>13. 0 \in Nat /\ 4 \in {2, 4} /\ ~ (s[1] \in {2, 4} /\ s[2] > 0)
    OBVIOUS
  <1> HIDE DEF s, new
  <1> QED
    BY <1>1, <1>2, <1>6, <1>10, <1>11, <1>12, <1>13, ReplacedMoves

LEMMA MovedByRefuse ==
    ASSUME Typed, Nested, Typed', Nested', Apart, Sorted, Numbered, Alone, Refuse
    PROVE  Apart' /\ Sorted'
  <1>0. PlacesAre'
    <2>1. (Typed /\ Nested => PlacesAre)'
      BY PlaceFacts, PTL
    <2> QED
      BY <2>1
  <1>1. /\ todo # <<>> /\ todo[1].call = "query" /\ <<4, 1>> \in Places
        /\ todo[1].op.kind \notin Kinds /\ UNCHANGED <<tm, log, gone>>
    BY HeadFacts, HeadPlace DEF Refuse, Queries, Calls, Commands, Kinds, Unrouted
  <1> DEFINE new == {}
             s == <<2, 0>>
  <1>2. Replaced(0) /\ At' = At /\ At \in Nat
    BY Replacing, ReplacedFacts, CommittingFacts
  <1>3. \A p \in Places' : /\ p = <<p[1], p[2]>> /\ p[1] \in 1 .. 4 /\ p[2] \in Nat
    BY <1>0 DEF PlacesAre
  <1>4. /\ \A p \in Places' : p[1] = 1 => p \in Places /\ OpAt(p)' = OpAt(p)
        /\ \A p \in Places' : p[1] = 3 => p \in Places /\ OpAt(p)' = OpAt(p)
    BY <1>0, <1>1, <1>2, StateFacts, LogPlaces, BufferPlaces
  <1>5. \A p \in Places' : p[1] \in {2, 4} => p[2] > 0
    <2>1. ASSUME NEW p \in Places', NEW C, p[2] \in PlacesOf(C)'
          PROVE  p[2] > 0
      BY <2>1, <1>2, ReplacedCalls
    <2> QED
      BY <2>1, <1>0 DEF PlacesAre
  <1>6. \A p \in Places' \ new :
           \/ p[1] \in {2, 4} /\ p[2] > 0
           \/ p = s
           \/ p[1] \in {1, 3} /\ p \in Places /\ OpAt(p)' = OpAt(p)
    BY <1>3, <1>4, <1>5
  <1>7. ~ IsClients(todo[1].op)
    BY <1>1, HeadFacts, StateFacts DEF Alone
  <1>8. s \notin Places'
    <2>1. s[1] = 2 /\ s[2] = 0
      OBVIOUS
    <2> QED
      BY <2>1, <1>5
  <1>9. \A p \in new : FALSE
    OBVIOUS
  <1>10. 0 \in Nat /\ 4 \in {2, 4} /\ ~ (s[1] \in {2, 4} /\ s[2] > 0)
    OBVIOUS
  <1> HIDE DEF s, new
  <1> QED
    BY <1>1, <1>2, <1>6, <1>7, <1>8, <1>9, <1>10, ReplacedMoves

LEMMA MovedByInsert ==
    ASSUME Typed, Nested, Typed', Nested', Apart, Sorted, Numbered, Alone, RunInsert
    PROVE  Apart' /\ Sorted'
  <1>0. PlacesAre'
    <2>1. (Typed /\ Nested => PlacesAre)'
      BY PlaceFacts, PTL
    <2> QED
      BY <2>1
  <1>1. /\ todo # <<>> /\ todo[1].call = "insertMany" /\ <<4, 1>> \in Places
        /\ UNCHANGED <<tm, log, gone>>
    BY HeadFacts, HeadPlace DEF RunInsert, Calls, Unrouted
  <1> DEFINE new == {}
             s == <<2, 1>>
  <1>2. /\ Replaced(1) /\ todo'[1] = Execute(todo[1].op, "update")
        /\ At' = At /\ At \in Nat
    BY Replacing, ReplacedFacts, CommittingFacts
  <1>3. todo'[1].op = todo[1].op /\ todo'[1].call = "execute"
    BY <1>2 DEF Execute
  <1>4. OpAt(s)' = todo[1].op
    BY <1>3 DEF OpAt
  <1>5. \A p \in Places' : /\ p = <<p[1], p[2]>> /\ p[1] \in 1 .. 4 /\ p[2] \in Nat
    BY <1>0 DEF PlacesAre
  <1>6. /\ \A p \in Places' : p[1] = 1 => p \in Places /\ OpAt(p)' = OpAt(p)
        /\ \A p \in Places' : p[1] = 3 => p \in Places /\ OpAt(p)' = OpAt(p)
    BY <1>0, <1>1, <1>2, StateFacts, LogPlaces, BufferPlaces
  <1>7. ASSUME NEW p \in Places', p[1] \in {2, 4}, ~ (p[2] > 1)
        PROVE  p = s
    <2>1. CASE p[1] = 2
      <3>1. p[2] \in PlacesOf({"execute", "store"})'
        BY <2>1, <1>0 DEF PlacesAre
      <3>2. p[2] \in 1 .. 1
        BY <3>1, <1>2, <1>7, ReplacedCalls
      <3> QED
        BY <2>1, <3>2, <1>5
    <2>2. CASE p[1] = 4
      <3>1. p[2] \in PlacesOf(Unrouted)'
        BY <2>2, <1>0 DEF PlacesAre
      <3>2. p[2] \in 1 .. 1 /\ todo'[p[2]].call \in Unrouted
        BY <3>1, <1>2, <1>7, ReplacedCalls
      <3> QED
        BY <3>2, <1>3 DEF Unrouted
    <2> QED
      BY <2>1, <2>2, <1>7
  <1>8. \A p \in Places' \ new :
           \/ p[1] \in {2, 4} /\ p[2] > 1
           \/ p = s
           \/ p[1] \in {1, 3} /\ p \in Places /\ OpAt(p)' = OpAt(p)
    BY <1>5, <1>6, <1>7
  <1>9. ~ IsClients(todo[1].op)
    BY <1>1, HeadFacts, StateFacts DEF Alone
  <1>10. \A p \in new : FALSE
    OBVIOUS
  <1>11. 1 \in Nat /\ 4 \in {2, 4} /\ ~ (s[1] \in {2, 4} /\ s[2] > 1)
    OBVIOUS
  <1> HIDE DEF s, new
  <1> QED
    BY <1>1, <1>2, <1>4, <1>8, <1>9, <1>10, <1>11, ReplacedMoves

LEMMA MovedByRun ==
    ASSUME Typed, Nested, Executed, Typed', Nested', Apart, Sorted, Numbered, Run
    PROVE  Apart' /\ Sorted'
  <1>0. PlacesAre'
    <2>1. (Typed /\ Nested => PlacesAre)'
      BY PlaceFacts, PTL
    <2> QED
      BY <2>1
  <1>1. PICK s \in Nat, d \in Nat, c \in Seq(CallType) :
            /\ Replaced(d) /\ d = Len(c) /\ s \in 1 .. d
            /\ Spawned(c, s, todo[1].op, sent)
            /\ \A k \in 1 .. d : todo'[k] = c[k]
            /\ sent' = sent + d - 1
            /\ todo[1].op \in Op /\ todo[1].call = "execute"
            /\ todo[1].op \in Pending
            /\ UNCHANGED <<tm, tables, log, gone, failed>> /\ At' = At
    BY RunSets
  <1> DEFINE new == {<<4, k>> : k \in (1 .. d) \ {s}}
             x == <<2, s>>
  <1>2. todo # <<>> /\ <<2, 1>> \in Places /\ At \in Nat
    BY <1>1, HeadPlace, CommittingFacts DEF Replaced
  <1>3. /\ todo'[s].call = "store" /\ todo'[s].op = todo[1].op
        /\ \A k \in (1 .. d) \ {s} : /\ todo'[k].call \in Unrouted
                                     /\ todo'[k].op.id = IF k < s THEN sent + k ELSE sent + k - 1
                                     /\ todo'[k].op.cause = todo[1].op.id
    BY <1>1, CallsTyped DEF Spawned, Unrouted
  <1>4. \A p \in Places' : /\ p = <<p[1], p[2]>> /\ p[1] \in 1 .. 4 /\ p[2] \in Nat
    BY <1>0 DEF PlacesAre
  <1>5. OpAt(x)' = todo[1].op
    BY <1>3 DEF OpAt
  <1>6. /\ \A p \in Places' : p[1] = 1 => p \in Places /\ OpAt(p)' = OpAt(p)
        /\ \A p \in Places' : p[1] = 3 => p \in Places /\ OpAt(p)' = OpAt(p)
    BY <1>0, <1>1, <1>2, StateFacts, LogPlaces, BufferPlaces
  <1>7. ASSUME NEW p \in Places' \ new, p[1] \in {2, 4}, ~ (p[2] > d)
        PROVE  p = x
    <2>1. CASE p[1] = 2
      <3>1. p[2] \in PlacesOf({"execute", "store"})'
        BY <2>1, <1>0 DEF PlacesAre
      <3>2. p[2] \in 1 .. d /\ todo'[p[2]].call \in {"execute", "store"}
        BY <3>1, <1>1, <1>7, ReplacedCalls
      <3> QED
        BY <2>1, <3>2, <1>3, <1>4 DEF Unrouted
    <2>2. CASE p[1] = 4
      <3>1. p[2] \in PlacesOf(Unrouted)'
        BY <2>2, <1>0 DEF PlacesAre
      <3>2. p[2] \in 1 .. d /\ todo'[p[2]].call \in Unrouted
        BY <3>1, <1>1, <1>7, ReplacedCalls
      <3>3. p[2] # s
        BY <3>2, <1>3 DEF Unrouted
      <3>4. p = <<4, p[2]>>
        BY <2>2, <1>4
      <3> QED
        BY <3>2, <3>3, <3>4
    <2> QED
      BY <2>1, <2>2, <1>7
  <1>8. \A p \in Places' \ new :
           \/ p[1] \in {2, 4} /\ p[2] > d
           \/ p = x
           \/ p[1] \in {1, 3} /\ p \in Places /\ OpAt(p)' = OpAt(p)
    BY <1>4, <1>6, <1>7
  <1>9. ASSUME NEW p \in Places' \ new, p # x
        PROVE  /\ Before(p, x) => Before(Back(p, d), <<2, 1>>)
               /\ Before(x, p) => Before(<<2, 1>>, Back(p, d))
    <2>1. CASE p[1] \in {2, 4}
      <3>1. p[2] > d
        BY <2>1, <1>7, <1>9
      <3>2. Back(p, d)[1] = p[1] /\ Back(p, d)[2] >= 2 /\ Back(p, d)[2] \in Nat
        BY <2>1, <1>1, <1>2, <3>1, ReplacedPlaces, HeadFacts
      <3> QED
        BY <2>1, <3>1, <3>2, <1>1, <1>4 DEF Before
    <2>2. CASE p[1] \in {1, 3}
      <3>1. Back(p, d) = p
        BY <2>2 DEF Back
      <3> QED
        BY <2>2, <3>1 DEF Before
    <2> QED
      BY <2>1, <2>2, <1>4
  <1>10. \A p \in new : /\ p = <<4, p[2]>> /\ p[2] \in (1 .. d) \ {s}
                        /\ OpAt(p)' = todo'[p[2]].op
    BY DEF OpAt
  <1>11. sent \in Nat /\ todo[1].op.id \in 1 .. sent
    BY <1>1, KnownTyped DEF Typed, Numbered
  <1>12. \A p, q \in new : OpAt(p)'.id = OpAt(q)'.id => p = q
    <2> SUFFICES ASSUME NEW p \in new, NEW q \in new, OpAt(p)'.id = OpAt(q)'.id
                 PROVE  p = q
      OBVIOUS
    <2> DEFINE k == p[2]
               l == q[2]
    <2>1. k \in (1 .. d) \ {s} /\ l \in (1 .. d) \ {s} /\ p = <<4, k>> /\ q = <<4, l>>
      BY <1>10
    <2>2. (IF k < s THEN sent + k ELSE sent + k - 1) = (IF l < s THEN sent + l ELSE sent + l - 1)
      BY <2>1, <1>3, <1>10
    <2> HIDE DEF k, l
    <2>3. k = l
      BY <2>1, <2>2, <1>11
    <2> QED
      BY <2>1, <2>3
  <1>13. \A p \in new : OpAt(p)'.id > sent /\ ~ IsClients(OpAt(p)')
    BY <1>1, <1>3, <1>10, <1>11 DEF IsClients
  <1>14. 2 \in {2, 4} /\ ~ (x[1] \in {2, 4} /\ x[2] > d)
    BY <1>1
  <1> HIDE DEF x, new
  <1> QED
    BY <1>1, <1>2, <1>5, <1>8, <1>9, <1>12, <1>13, <1>14, ReplacedMoves

\* A step after which fewer statements wait.
LEMMA MovedByDropping ==
    ASSUME Apart, Sorted, gone' = gone,
           \A p \in Places' : p \in Places /\ OpAt(p)' = OpAt(p)
    PROVE  Apart' /\ Sorted'
  <1>1. Apart'
    BY DEF Apart
  <1>2. Sorted'
    BY DEF Sorted, Before
  <1> QED
    BY <1>1, <1>2

\* Without calls and with an empty buffer, only the log has places.
LEMMA OnlyLog ==
    ASSUME Typed', Nested', todo' = <<>>, tm'.buffer = <<>>, log' = log
    PROVE  \A p \in Places' :
              /\ p \in Places /\ OpAt(p)' = OpAt(p)
              /\ p = <<1, p[2]>> /\ p[2] \in DOMAIN log
  <1>0. PlacesAre'
    <2>1. (Typed /\ Nested => PlacesAre)'
      BY PlaceFacts, PTL
    <2> QED
      BY <2>1
  <1>1. DOMAIN todo' = {} /\ Len(tm'.buffer) = 0
    BY SeqFacts
  <1>2. At' = 1 /\ \A C : PlacesOf(C)' = {}
    BY <1>1 DEF At, Committing, PlacesOf
  <1>3. \A p \in Places' : p[1] = 1
    BY <1>0, <1>1, <1>2 DEF PlacesAre
  <1> QED
    BY <1>0, <1>3, LogPlaces DEF PlacesAre

LEMMA MovedByFail ==
    ASSUME Typed, Nested, Typed', Nested', Apart, Sorted, Numbered, Fail
    PROVE  Apart' /\ Sorted'
  <1>0. PlacesAre'
    <2>1. (Typed /\ Nested => PlacesAre)'
      BY PlaceFacts, PTL
    <2> QED
      BY <2>1
  <1>1. /\ todo # <<>> /\ todo[1].call = "execute" /\ <<2, 1>> \in Places
        /\ Head(todo) = todo[1] /\ log' = log /\ gone' = gone
    BY HeadFacts, HeadPlace DEF Fail, Calls
  <1>2. CASE todo[1].from # "commit"
    <2> DEFINE new == {}
               s == <<2, 0>>
    <2>1. Replaced(0) /\ At' = At /\ At \in Nat /\ tm' = tm
      BY <1>1, <1>2, Replacing, ReplacedFacts, CommittingFacts DEF Fail
    <2>2. \A p \in Places' : /\ p = <<p[1], p[2]>> /\ p[1] \in 1 .. 4 /\ p[2] \in Nat
      BY <1>0 DEF PlacesAre
    <2>3. /\ \A p \in Places' : p[1] = 1 => p \in Places /\ OpAt(p)' = OpAt(p)
          /\ \A p \in Places' : p[1] = 3 => p \in Places /\ OpAt(p)' = OpAt(p)
      BY <1>0, <1>1, <2>1, StateFacts, LogPlaces, BufferPlaces
    <2>4. \A p \in Places' : p[1] \in {2, 4} => p[2] > 0
      <3>1. ASSUME NEW p \in Places', NEW C, p[2] \in PlacesOf(C)'
            PROVE  p[2] > 0
        BY <3>1, <2>1, ReplacedCalls
      <3> QED
        BY <3>1, <1>0 DEF PlacesAre
    <2>5. \A p \in Places' \ new :
             \/ p[1] \in {2, 4} /\ p[2] > 0
             \/ p = s
             \/ p[1] \in {1, 3} /\ p \in Places /\ OpAt(p)' = OpAt(p)
      BY <2>2, <2>3, <2>4
    <2>6. ASSUME NEW p \in Places' \ new, p # s
          PROVE  /\ Before(p, s) => Before(Back(p, 0), <<2, 1>>)
                 /\ Before(s, p) => Before(<<2, 1>>, Back(p, 0))
      <3>1. CASE p[1] \in {2, 4}
        <4>1. Back(p, 0)[1] = p[1] /\ Back(p, 0)[2] >= 2 /\ Back(p, 0)[2] \in Nat
          BY <3>1, <2>1, <2>4, ReplacedPlaces, HeadFacts, <1>1
        <4> QED
          BY <3>1, <4>1, <2>2 DEF Before
      <3>2. CASE p[1] \in {1, 3}
        <4>1. Back(p, 0) = p
          BY <3>2 DEF Back
        <4> QED
          BY <3>2, <4>1 DEF Before
      <3> QED
        BY <3>1, <3>2, <2>2
    <2>7. s \notin Places'
      <3>1. s[1] = 2 /\ s[2] = 0
        OBVIOUS
      <3> QED
        BY <3>1, <2>4
    <2>8. \A p \in new : FALSE
      OBVIOUS
    <2>9. 0 \in Nat /\ 2 \in {2, 4} /\ ~ (s[1] \in {2, 4} /\ s[2] > 0)
      OBVIOUS
    <2> HIDE DEF s, new
    <2> QED
      BY <1>1, <2>1, <2>5, <2>6, <2>7, <2>8, <2>9, ReplacedMoves
  <1>3. CASE todo[1].from = "commit"
    <2>1. todo' = <<>> /\ tm' = [state |-> "IDLE", buffer |-> <<>>]
      BY <1>3, FailedCommit
    <2>2. tm'.buffer = <<>>
      BY <2>1
    <2> QED
      BY <1>1, <2>1, <2>2, OnlyLog, MovedByDropping
  <1> QED
    BY <1>2, <1>3

LEMMA MovedByCommitNext ==
    ASSUME Typed, Nested, Executed, Typed', Nested', Apart, Sorted, Numbered, CommitNext
    PROVE  Apart' /\ Sorted'
  <1>0. PlacesAre'
    <2>1. (Typed /\ Nested => PlacesAre)'
      BY PlaceFacts, PTL
    <2> QED
      BY <2>1
  <1>1. /\ At \in DOMAIN tm.buffer /\ At' = At + 1
        /\ DOMAIN todo' = {1, 2}
        /\ todo'[1].call = "execute" /\ todo'[1].op = tm.buffer[At]
        /\ todo'[2].call = "commit"
        /\ UNCHANGED <<tm, tables, log, sent, gone, failed>>
    BY CommitNextFacts
  <1>2. PICK a \in Nat : a = At /\ a \in 1 .. Len(tm.buffer)
    BY <1>1, StateFacts
  <1> DEFINE x == <<2, 1>>
             f == [p \in Places' |-> IF p = x THEN <<3, a>> ELSE p]
             new == {}
  <1>3. /\ PlacesOf({"execute", "store"})' = {1} /\ PlacesOf(Unrouted)' = {}
    BY <1>1 DEF PlacesOf, Unrouted
  <1>4. /\ \A p \in Places' : p[1] = 1 => p \in Places /\ OpAt(p)' = OpAt(p)
        /\ \A p \in Places' : p[1] = 3 => /\ p \in Places /\ OpAt(p)' = OpAt(p)
                                          /\ p[2] \in (a + 1) .. Len(tm.buffer)
    BY <1>0, <1>1, <1>2, StateFacts, LogPlaces, BufferPlaces
  <1>5. <<3, a>> \in Places /\ OpAt(<<3, a>>) = tm.buffer[a]
    BY <1>2 DEF Places, OpAt
  <1>6. OpAt(x)' = tm.buffer[a]
    BY <1>1, <1>2 DEF OpAt
  <1>7. \A p \in Places' : \/ p[1] = 1 /\ p[2] \in Nat
                           \/ p = x
                           \/ p[1] = 3 /\ p[2] \in (a + 1) .. Len(tm.buffer)
    BY <1>0, <1>3, <1>4 DEF PlacesAre
  <1>8. \A p \in Places' : f[p] \in Places /\ OpAt(p)' = OpAt(f[p])
    BY <1>4, <1>5, <1>6, <1>7
  <1>9. \A p \in Places' : p # <<3, a>>
    BY <1>2, <1>7
  <1>10. \A p, q \in Places' : f[p] = f[q] => p = q
    BY <1>9
  <1>11. \A p, q \in Places' : Before(p, q) => Before(f[p], f[q])
    <2> SUFFICES ASSUME NEW p \in Places', NEW q \in Places', Before(p, q)
                 PROVE  Before(f[p], f[q])
      OBVIOUS
    <2>1. CASE p = x /\ q = x
      BY <2>1, <1>2 DEF Before
    <2>2. CASE p = x /\ q # x
      BY <2>2, <1>2, <1>7, StateFacts DEF Before
    <2>3. CASE p # x /\ q = x
      BY <2>3, <1>2, <1>7 DEF Before
    <2>4. CASE p # x /\ q # x
      BY <2>4
    <2> QED
      BY <2>1, <2>2, <2>3, <2>4
  <1>12. \A p \in new : FALSE
    OBVIOUS
  <1>13. Places' \ new = Places'
    OBVIOUS
  <1> HIDE DEF f, x, new
  <1> QED
    BY <1>1, <1>8, <1>10, <1>11, <1>12, <1>13, Moved

LEMMA MovedBySend ==
    ASSUME Typed, Nested, Typed', Nested', Apart, Sorted, Numbered,
           NEW t \in Tables, NEW kind \in Kinds, SendDml(kind, t)
    PROVE  Apart' /\ Sorted'
  <1>0. PlacesAre'
    <2>1. (Typed /\ Nested => PlacesAre)'
      BY PlaceFacts, PTL
    <2> QED
      BY <2>1
  <1>1. /\ DOMAIN todo' = {1}
        /\ todo'[1].call = "query" /\ todo'[1].op.id = sent + 1
        /\ UNCHANGED <<tm, tables, log, gone, failed>>
        /\ At = 1 /\ At' = 1
    <2> DEFINE st == Statement(sent + 1, kind, t, 0, 0)
    <2>1. /\ st.id = sent + 1 /\ DOMAIN todo' = {1}
          /\ todo'[1].call = "query" /\ todo'[1].op = st
          /\ UNCHANGED <<tm, tables, log, gone, failed>>
          /\ At = 1 /\ At' = 1
      BY SentFacts
    <2> HIDE DEF st
    <2> QED
      BY <2>1
  <1> DEFINE x == <<4, 1>>
             new == {x}
             f == [p \in Places' |-> p]
  <1>2. /\ PlacesOf({"execute", "store"})' = {} /\ PlacesOf(Unrouted)' = {1}
    BY <1>1 DEF PlacesOf, Unrouted
  <1>3. /\ \A p \in Places' : p[1] = 1 => p \in Places /\ OpAt(p)' = OpAt(p)
        /\ \A p \in Places' : p[1] = 3 => p \in Places /\ OpAt(p)' = OpAt(p)
    BY <1>0, <1>1, StateFacts, LogPlaces, BufferPlaces
  <1>4. \A p \in Places' : p[1] \in {1, 3} \/ p = x
    BY <1>0, <1>2 DEF PlacesAre
  <1>5. \A p \in Places' \ new : f[p] = p /\ p \in Places /\ OpAt(p)' = OpAt(p)
    BY <1>3, <1>4
  <1>6. OpAt(x)'.id = sent + 1
    BY <1>1 DEF OpAt
  <1>7. \A q \in Places' : ~ Before(x, q)
    BY <1>4 DEF Before
  <1>8. sent + 1 > sent
    BY DEF Typed
  <1> HIDE DEF f, x
  <1>9. \A p \in Places' \ new : f[p] \in Places /\ OpAt(p)' = OpAt(f[p])
    BY <1>5
  <1>10. \A p, q \in Places' \ new : f[p] = f[q] => p = q
    BY <1>5
  <1>11. \A p, q \in Places' \ new : Before(p, q) => Before(f[p], f[q])
    BY <1>5
  <1>12. \A p, q \in new : p = q
    OBVIOUS
  <1>13. \A p \in new : /\ OpAt(p)'.id > sent /\ new = {p}
                         /\ \A q \in Places' : ~ Before(p, q)
    BY <1>6, <1>7, <1>8
  <1> HIDE DEF new
  <1> QED
    BY <1>1, <1>9, <1>10, <1>11, <1>12, <1>13, Moved

LEMMA MovedByRest ==
    ASSUME Typed, Nested, Typed', Nested', Apart, Sorted,
           \/ Begin \/ Commit \/ Rollback \/ CommitEnd \/ UNCHANGED vars
           \/ \E t \in Tables : CreateTable(t) \/ DropTable(t)
    PROVE  Apart' /\ Sorted'
  <1>1. CASE \/ UNCHANGED vars
             \/ \E t \in Tables : CreateTable(t) \/ DropTable(t)
    <2>1. UNCHANGED <<tm, todo, log, gone>>
      BY <1>1 DEF vars, CreateTable, DropTable
    <2>2. At' = At
      BY <2>1 DEF At, Committing
    <2> QED
      BY <2>1, <2>2 DEF Apart, Sorted, Before, Places, PlacesOf, OpAt
  <1>2. CASE Begin \/ CommitEnd
    <2>1. todo' = <<>> /\ tm'.buffer = <<>> /\ UNCHANGED <<log, gone>>
      BY <1>2, CommitEndTodo DEF Begin, Free, CommitEnd
    <2> QED
      BY <2>1, OnlyLog, MovedByDropping
  <1>3. CASE Commit
    <2>0. PlacesAre'
      <3>1. (Typed /\ Nested => PlacesAre)'
        BY PlaceFacts, PTL
      <3> QED
        BY <3>1
    <2>1. todo = <<>> /\ todo' = <<CommitFrom(1)>> /\ UNCHANGED <<tm, log, gone>>
      BY <1>3 DEF Commit
    <2>2. DOMAIN todo' = {1} /\ Len(todo') = 1 /\ todo'[1].call = "commit" /\ todo'[1].at = 1
      BY <2>1 DEF CommitFrom
    <2>3. At = 1 /\ At' = 1
      BY <2>1, <2>2, NoCalls DEF At, Committing
    <2>4. PlacesOf({"execute", "store"})' = {} /\ PlacesOf(Unrouted)' = {}
      BY <2>2 DEF PlacesOf, Unrouted
    <2>5. /\ \A p \in Places' : p[1] = 1 => p \in Places /\ OpAt(p)' = OpAt(p)
          /\ \A p \in Places' : p[1] = 3 => p \in Places /\ OpAt(p)' = OpAt(p)
      BY <2>0, <2>1, <2>3, StateFacts, LogPlaces, BufferPlaces
    <2>6. \A p \in Places' : p[1] \in {1, 3}
      BY <2>0, <2>4 DEF PlacesAre
    <2> QED
      BY <2>1, <2>5, <2>6, MovedByDropping
  <1>4. CASE Rollback
    <2>1. /\ todo = <<>> /\ todo' = <<>> /\ tm'.buffer = <<>> /\ log' = log
          /\ gone' = gone \cup Range(tm.buffer)
      BY <1>4, RollbackTodo DEF Rollback
    <2>2. \A p \in Places' : /\ p \in Places /\ OpAt(p)' = OpAt(p)
                             /\ p = <<1, p[2]>>
      BY <2>1, OnlyLog
    <2>3. ASSUME NEW k \in DOMAIN tm.buffer
          PROVE  <<3, k>> \in Places /\ OpAt(<<3, k>>) = tm.buffer[k]
      <3>1. k \in At .. Len(tm.buffer)
        BY <2>1, NoCalls, StateFacts
      <3> QED
        BY <3>1 DEF Places, OpAt
    <2>4. ASSUME NEW p \in Places', NEW o \in gone'
          PROVE  OpAt(p)'.id # o.id
      <3>1. CASE o \in gone
        BY <3>1, <2>2 DEF Apart
      <3>2. CASE o \in Range(tm.buffer)
        <4>1. PICK k \in DOMAIN tm.buffer : o = tm.buffer[k]
          BY <3>2 DEF Range
        <4> DEFINE q == <<3, k>>
        <4>2. p # q
          BY <2>2
        <4>3. q \in Places /\ OpAt(q) = o
          BY <4>1, <2>3
        <4> HIDE DEF q
        <4>4. OpAt(p).id # OpAt(q).id
          BY <4>2, <4>3, <2>2 DEF Apart
        <4> QED
          BY <4>3, <4>4, <2>2
      <3> QED
        BY <3>1, <3>2, <2>1
    <2>5. Apart'
      BY <2>2, <2>4 DEF Apart
    <2>6. Sorted'
      BY <2>2 DEF Sorted, Before
    <2> QED
      BY <2>5, <2>6
  <1> QED
    BY <1>1, <1>2, <1>3, <1>4

\* Only a client's own call is of a client's statement that was not routed.
LEMMA AloneStep ==
    ASSUME Typed, Nested, Executed, Numbered, Alone, Quiet
    PROVE  Alone'
  <1>1. ASSUME NEW d \in Nat, Replaced(d),
               \A k \in 1 .. d : todo'[k].call \in Unrouted => ~ IsClients(todo'[k].op)
        PROVE  Alone'
    <2> SUFFICES ASSUME NEW j \in DOMAIN todo', todo'[j].call \in Unrouted,
                        IsClients(todo'[j].op)
                 PROVE  FALSE
      BY DEF Alone, Unrouted
    <2>1. j - d + 1 \in 2 .. Len(todo) /\ todo'[j] = todo[j - d + 1]
      BY <1>1, ReplacedFacts
    <2> DEFINE i == j - d + 1
    <2>2. i \in DOMAIN todo /\ i >= 2 /\ i <= Len(todo) /\ i \in Nat /\ Len(todo) \in Nat
      BY <2>1, StateFacts
    <2> HIDE DEF i
    <2>3. todo'[j] = todo[i]
      BY <2>1 DEF i
    <2>4. Len(todo) = 1
      BY <2>2, <2>3 DEF Alone, Unrouted
    <2> QED
      BY <2>2, <2>4
  <1>2. CASE RouteDml
    <2>1. CASE Active
      <3>1. Replaced(0)
        BY <1>2, <2>1, Replacing
      <3> QED
        BY <3>1, <1>1
    <2>2. CASE ~ Active
      <3>1. Replaced(1) /\ todo'[1].call = "execute"
        BY <1>2, <2>2, Replacing DEF Execute
      <3> QED
        BY <3>1, <1>1 DEF Unrouted
    <2> QED
      BY <2>1, <2>2
  <1>3. CASE Run
    <2>1. PICK s \in Nat, d \in Nat, c \in Seq(CallType) :
            /\ Replaced(d) /\ d = Len(c) /\ s \in 1 .. d
            /\ Spawned(c, s, todo[1].op, sent)
            /\ \A k \in 1 .. d : todo'[k] = c[k]
            /\ todo[1].op \in Op /\ todo[1].op \in Pending
      BY <1>3, RunSets
    <2>2. todo[1].op.id # 0
      BY <2>1, KnownTyped DEF Numbered
    <2>3. \A k \in 1 .. d : /\ k = s => todo'[k].call = "store"
                            /\ k # s => todo'[k].op.cause = todo[1].op.id
      BY <2>1, CallsTyped DEF Spawned
    <2> QED
      BY <2>1, <2>2, <2>3, <1>1 DEF IsClients, Unrouted
  <1>4. CASE StoreRow \/ RunTable \/ Refuse
    <2>1. Replaced(0)
      BY <1>4, Replacing
    <2> QED
      BY <2>1, <1>1
  <1>5. CASE Fail
    <2>1. CASE todo[1].from # "commit"
      <3>1. Replaced(0)
        BY <1>5, <2>1, Replacing
      <3> QED
        BY <3>1, <1>1
    <2>2. CASE todo[1].from = "commit"
      <3>1. todo' = <<>>
        BY <1>5, <2>2, FailedCommit
      <3>2. DOMAIN todo' = {}
        BY <3>1
      <3> QED
        BY <3>2 DEF Alone
    <2> QED
      BY <2>1, <2>2
  <1>6. CASE CommitNext
    <2>1. DOMAIN todo' = {1, 2} /\ todo'[1].call = "execute" /\ todo'[2].call = "commit"
      BY <1>6, CommitNextFacts
    <2> QED
      BY <2>1 DEF Alone
  <1>7. CASE CommitEnd \/ Begin \/ Rollback
    <2>1. todo' = <<>>
      BY <1>7, CommitEndTodo, RollbackTodo DEF Begin, Free
    <2>2. DOMAIN todo' = {}
      BY <2>1
    <2> QED
      BY <2>2 DEF Alone
  <1>8. CASE Commit
    <2>1. todo' = <<CommitFrom(1)>> /\ CommitFrom(1).call = "commit"
      BY <1>8 DEF Commit, CommitFrom
    <2>2. DOMAIN todo' = {1} /\ todo'[1].call = "commit"
      BY <2>1
    <2> QED
      BY <2>2 DEF Alone
  <1>9. ASSUME NEW t \in Tables, NEW kind \in Kinds, SendDml(kind, t)
        PROVE  Alone'
    <2> DEFINE st == Statement(sent + 1, kind, t, 0, 0)
    <2>1. /\ DOMAIN todo' = {1} /\ Len(todo') = 1
          /\ todo'[1].call = "query" /\ todo'[1].op = st
      BY <1>9, SentFacts
    <2>2. st.kind \in Kinds
      BY DEF Statement
    <2> HIDE DEF st
    <2> QED
      BY <2>1, <2>2 DEF Alone
  <1>10. CASE UNCHANGED vars \/ \E t \in Tables : CreateTable(t) \/ DropTable(t)
    <2>1. todo' = todo
      BY <1>10 DEF vars, CreateTable, DropTable
    <2> QED
      BY <2>1 DEF Alone
  <1>11. CASE RunInsert
    <2>1. Replaced(1) /\ todo'[1].call = "execute"
      BY <1>11, Replacing DEF Execute
    <2> QED
      BY <2>1, <1>1 DEF Unrouted
  <1> QED
    BY <1>2, <1>3, <1>4, <1>5, <1>6, <1>7, <1>8, <1>9, <1>10, <1>11 DEF Quiet

LEMMA CausedKept ==
    ASSUME Caused, Kept
    PROVE  Caused'
  <1>1. Numbered' /\ OneAnswer' /\ NotYet' /\ Answered'
    BY DEF Caused, Kept, Numbered, OneAnswer, NotYet, Answered
  <1> QED
    BY <1>1 DEF Caused, Kept

LEMMA CausedSend ==
    ASSUME Typed, Nested, Caused,
           NEW t \in Tables, NEW kind \in Kinds, SendDml(kind, t)
    PROVE  Caused'
  <1> DEFINE st == Statement(sent + 1, kind, t, 0, 0)
  <1>1. /\ st \in Op /\ st.id = sent + 1 /\ st.cause = 0 /\ sent' = sent + 1
    BY SentFacts DEF IsClients
  <1>2. Known' = Known \cup {st} /\ Pending' = Pending \cup {st} /\ Ran' = Ran /\ Executed'
    BY SentSets DEF Caused
  <1>3. sent \in Nat /\ Pending \subseteq Known
    BY KnownTyped DEF Typed
  <1> HIDE DEF st
  <1>4. Numbered'
    BY <1>1, <1>2, <1>3 DEF Caused, Numbered
  <1>5. OneAnswer'
    BY <1>1, <1>2 DEF Caused, OneAnswer
  <1>6. NotYet'
    <2> SUFFICES ASSUME NEW o \in Pending', NEW p \in Known', p.cause = o.id
                 PROVE  FALSE
      BY DEF NotYet
    <2>1. CASE o = st
      BY <2>1, <1>1, <1>2, <1>3 DEF Caused, Numbered
    <2>2. CASE o \in Pending /\ p = st
      BY <2>2, <1>1, <1>3 DEF Caused, Numbered
    <2>3. CASE o \in Pending /\ p \in Known
      BY <2>3 DEF Caused, NotYet
    <2> QED
      BY <2>1, <2>2, <2>3, <1>2
  <1>7. Answered'
    BY <1>2 DEF Caused, Answered
  <1> QED
    BY <1>2, <1>4, <1>5, <1>6, <1>7 DEF Caused

LEMMA CausedRun ==
    ASSUME Typed, Nested, Caused, Typed', Nested', Apart', Run
    PROVE  Caused'
  <1>1. PICK s \in Nat, d \in Nat, c \in Seq(CallType) :
            /\ Replaced(d) /\ d = Len(c) /\ s \in 1 .. d
            /\ Spawned(c, s, todo[1].op, sent)
            /\ \A k \in 1 .. d : todo'[k] = c[k]
            /\ sent' = sent + d - 1
            /\ todo[1].op \in Op
            /\ todo[1].op \in Pending
            /\ Known' = Known \cup {c[k].op : k \in (1 .. d) \ {s}}
            /\ Pending' \subseteq Pending \cup {c[k].op : k \in (1 .. d) \ {s}}
            /\ Ran' = Ran \cup {todo[1].op}
            /\ Executed' /\ UNCHANGED tm
    BY RunSets DEF Caused
  <1> DEFINE new == {c[k].op : k \in (1 .. d) \ {s}}
  <1>2. PICK op \in Pending : op = todo[1].op
    BY <1>1
  <1>3. op.id \in 1 .. sent /\ op \in Known /\ sent \in Nat /\ Pending \subseteq Known
    BY KnownTyped DEF Caused, Numbered, Typed
  <1>4. ASSUME NEW k \in (1 .. d) \ {s}
        PROVE  /\ c[k].op.id > sent /\ c[k].op.id \in 1 .. sent'
               /\ c[k].op.cause = op.id
    <2>1. c[k].op.id = IF k < s THEN sent + k ELSE sent + k - 1
      BY <1>1, <1>2 DEF Spawned
    <2>2. c[k].op.cause = op.id
      BY <1>1, <1>2 DEF Spawned
    <2>3. c[k].op.id > sent /\ c[k].op.id \in 1 .. sent'
      BY <2>1, <1>1, <1>3
    <2> QED
      BY <2>2, <2>3
  <1>5. /\ \A k, l \in (1 .. d) \ {s} :
              c[k].op.trigger = c[l].op.trigger /\ c[k].op.trigger # 0 => k = l
        /\ \A i \in DOMAIN Triggers :
              /\ op.kind = "INSERT" /\ Triggers[i].event = "INSERT"
              /\ Triggers[i].table = op.table
              => \E k \in (1 .. d) \ {s} : c[k].op.trigger = i
    BY <1>1, <1>2 DEF Spawned
  <1>6. \A o \in new : o.id > sent /\ o.id \in 1 .. sent' /\ o.cause = op.id
    BY <1>4
  <1>7. \A o, p \in new : o.trigger = p.trigger /\ o.trigger # 0 => o = p
    BY <1>5
  <1>8. Known' = Known \cup new /\ Pending' \subseteq Pending \cup new /\ Ran' = Ran \cup {op}
    BY <1>1, <1>2
  <1>9. \A i \in DOMAIN Triggers :
              /\ op.kind = "INSERT" /\ Triggers[i].event = "INSERT"
              /\ Triggers[i].table = op.table
              => \E o \in new : o.trigger = i
    BY <1>5
  <1>10. ASSUME NEW o \in Pending'
         PROVE  o.id # op.id
    <2> DEFINE x == <<2, s>>
    <2>1. todo'[s].call = "store" /\ todo'[s].op = op /\ s \in DOMAIN todo'
      <3>1. s \in 1 .. d + Len(todo) - 1
        BY <1>1, HeadFacts DEF Replaced
      <3>2. s \in DOMAIN todo'
        BY <3>1, <1>1, ReplacedFacts
      <3> QED
        BY <3>2, <1>1, <1>2, CallsTyped DEF Spawned
    <2>2. x \in Places' /\ OpAt(x)' = op
      BY <2>1 DEF Places, PlacesOf, OpAt
    <2>3. PICK p \in Places' : p # x /\ OpAt(p)' = o
      <3>1. CASE o \in OpsOf(Waiting)'
        <4>1. PICK i \in DOMAIN todo' : /\ todo'[i].call \in Unrouted \cup {"execute"}
                                        /\ o = todo'[i].op
          BY <3>1 DEF OpsOf, Waiting
        <4>2. i # s
          BY <4>1, <2>1 DEF Unrouted
        <4>3. CASE todo'[i].call \in Unrouted
          <5>1. <<4, i>> \in Places' /\ OpAt(<<4, i>>)' = o
            BY <4>1, <4>3 DEF Places, PlacesOf, OpAt
          <5> QED
            BY <5>1
        <4>4. CASE todo'[i].call = "execute"
          <5>1. <<2, i>> \in Places' /\ OpAt(<<2, i>>)' = o
            BY <4>1, <4>4 DEF Places, PlacesOf, OpAt
          <5> QED
            BY <5>1, <4>2
        <4> QED
          BY <4>1, <4>3, <4>4
      <3>2. CASE o \in {tm.buffer[k] : k \in At .. Len(tm.buffer)}'
        <4>1. PICK k \in (At .. Len(tm.buffer))' : o = tm'.buffer[k]
          BY <3>2
        <4>2. <<3, k>> \in Places' /\ OpAt(<<3, k>>)' = o
          BY <4>1 DEF Places, OpAt
        <4> QED
          BY <4>2
      <3> QED
        BY <3>1, <3>2 DEF Pending
    <2> HIDE DEF x
    <2> QED
      BY <2>2, <2>3 DEF Apart
  <1> HIDE DEF new
  <1>11. Numbered'
    <2>1. sent' >= sent /\ sent' \in Nat
      BY <1>1, <1>3
    <2> QED
      BY <2>1, <1>3, <1>6, <1>8 DEF Caused, Numbered
  <1>12. OneAnswer'
    <2> SUFFICES ASSUME NEW o \in Known', NEW p \in Known', o.cause = p.cause,
                        o.trigger = p.trigger, o.cause # 0, o.trigger # 0
                 PROVE  o = p
      BY DEF OneAnswer
    <2>1. CASE o \in Known /\ p \in Known
      BY <2>1 DEF Caused, OneAnswer
    <2>2. CASE o \in new /\ p \in new
      BY <2>2, <1>7
    <2>3. CASE o \in new /\ p \in Known
      BY <2>3, <1>6 DEF Caused, NotYet
    <2>4. CASE o \in Known /\ p \in new
      BY <2>4, <1>6 DEF Caused, NotYet
    <2> QED
      BY <2>1, <2>2, <2>3, <2>4, <1>8
  <1>13. NotYet'
    <2> SUFFICES ASSUME NEW o \in Pending', NEW p \in Known', p.cause = o.id
                 PROVE  FALSE
      BY DEF NotYet
    <2>1. p \in Known
      BY <1>6, <1>8, <1>10
    <2>2. CASE o \in Pending
      BY <2>1, <2>2 DEF Caused, NotYet
    <2>3. CASE o \in new
      BY <2>1, <2>3, <1>3, <1>6 DEF Caused, Numbered
    <2> QED
      BY <2>2, <2>3, <1>8
  <1>14. Answered'
    <2> SUFFICES ASSUME NEW o \in Ran', NEW i \in DOMAIN Triggers,
                        o.kind = "INSERT", Triggers[i].event = "INSERT",
                        o.table = Triggers[i].table
                 PROVE  \E p \in Known' : p.cause = o.id /\ p.trigger = i
      BY DEF Answered
    <2>1. CASE o \in Ran
      BY <2>1, <1>8 DEF Caused, Answered
    <2>2. CASE o = op
      BY <2>2, <1>6, <1>8, <1>9
    <2> QED
      BY <2>1, <2>2, <1>8
  <1> QED
    BY <1>1, <1>11, <1>12, <1>13, <1>14 DEF Caused

-----------------------------------------------------------------------------
(* The results.                                                            *)

IInv == Typed /\ Nested /\ Caused /\ Alone /\ Apart /\ Sorted

LEMMA InitIInv == Init => IInv
  <1> SUFFICES ASSUME Init
               PROVE  IInv
    OBVIOUS
  <1>1. /\ tm = [state |-> "IDLE", buffer |-> <<>>] /\ todo = <<>> /\ tables = Tables
        /\ log = <<>> /\ sent = 0 /\ gone = {} /\ failed = {}
    BY DEF Init
  <1>2. tm.state = "IDLE" /\ tm.buffer = <<>>
    BY <1>1
  <1>3. /\ DOMAIN todo = {} /\ DOMAIN log = {} /\ DOMAIN tm.buffer = {} /\ Len(tm.buffer) = 0
    BY <1>1, <1>2
  <1>4. ~ Committing /\ At = 1 /\ \A C : OpsOf(C) = {} /\ PlacesOf(C) = {}
    BY <1>3 DEF Committing, At, OpsOf, PlacesOf
  <1>5. Typed
    <2>1. <<>> \in Seq(CallType) /\ <<>> \in Seq(Op)
      OBVIOUS
    <2> QED
      BY <1>1, <2>1, CleanTyped DEF Typed, TmType
  <1>6. Nested
    BY <1>2, <1>3, <1>4 DEF Nested, Active
  <1>7. Known = {} /\ Pending = {} /\ Ran = {} /\ Executed
    BY <1>1, <1>3, <1>4 DEF Known, Pending, Ran, Executed, Range
  <1>8. Caused
    BY <1>7 DEF Caused, Numbered, OneAnswer, NotYet, Answered
  <1>9. Places = {}
    BY <1>3, <1>4 DEF Places
  <1>10. Alone /\ Apart /\ Sorted
    BY <1>3, <1>9 DEF Alone, Apart, Sorted
  <1> QED
    BY <1>5, <1>6, <1>8, <1>10 DEF IInv

LEMMA QuietIInv ==
    ASSUME IInv, Quiet
    PROVE  IInv'
  <1>1. Typed /\ Nested /\ Caused /\ Alone /\ Apart /\ Sorted /\ Numbered /\ Executed
    BY DEF IInv, Caused
  <1>2. Typed' /\ Nested'
    BY <1>1, TypedStep, NestedStep
  <1>3. Alone'
    BY <1>1, AloneStep
  <1>4. Apart' /\ Sorted'
    <2>1. ASSUME NEW t \in Tables, NEW kind \in Kinds, SendDml(kind, t)
          PROVE  Apart' /\ Sorted'
      BY <1>1, <1>2, <2>1, MovedBySend
    <2>2. CASE RouteDml
      BY <1>1, <1>2, <2>2, MovedByRoute
    <2>3. CASE Run
      BY <1>1, <1>2, <2>3, MovedByRun
    <2>4. CASE StoreRow
      BY <1>1, <1>2, <2>4, MovedByStore
    <2>5. CASE Fail
      BY <1>1, <1>2, <2>5, MovedByFail
    <2>6. CASE CommitNext
      BY <1>1, <1>2, <2>6, MovedByCommitNext
    <2>7. CASE \/ Begin \/ Commit \/ Rollback \/ CommitEnd \/ UNCHANGED vars
               \/ \E t \in Tables : CreateTable(t) \/ DropTable(t)
      BY <1>1, <1>2, <2>7, MovedByRest
    <2>8. CASE RunTable
      BY <1>1, <1>2, <2>8, MovedByTable
    <2>9. CASE Refuse
      BY <1>1, <1>2, <2>9, MovedByRefuse
    <2>10. CASE RunInsert
      BY <1>1, <1>2, <2>10, MovedByInsert
    <2> QED
      BY <2>1, <2>2, <2>3, <2>4, <2>5, <2>6, <2>7, <2>8, <2>9, <2>10 DEF Quiet
  <1>5. Caused'
    <2>1. ASSUME NEW t \in Tables, NEW kind \in Kinds, SendDml(kind, t)
          PROVE  Caused'
      BY <1>1, <2>1, CausedSend
    <2>2. CASE RouteDml
      BY <1>1, <2>2, KeptByRoute, CausedKept
    <2>3. CASE Run
      BY <1>1, <1>2, <1>4, <2>3, CausedRun
    <2>4. CASE StoreRow
      BY <1>1, <2>4, KeptByStore, CausedKept
    <2>5. CASE Fail
      BY <1>1, <2>5, KeptByFail, CausedKept
    <2>6. CASE CommitNext
      BY <1>1, <2>6, KeptByCommitNext, CausedKept
    <2>7. CASE \/ Begin \/ Commit \/ Rollback \/ CommitEnd \/ UNCHANGED vars
               \/ \E t \in Tables : CreateTable(t) \/ DropTable(t)
      BY <1>1, <2>7, KeptByRest, CausedKept
    <2>8. CASE RunTable
      BY <1>1, <2>8, KeptByTable, CausedKept
    <2>9. CASE Refuse
      BY <1>1, <2>9, KeptByRefuse, CausedKept
    <2>10. CASE RunInsert
      BY <1>1, <2>10, KeptByInsert, CausedKept
    <2> QED
      BY <2>1, <2>2, <2>3, <2>4, <2>5, <2>6, <2>7, <2>8, <2>9, <2>10 DEF Quiet
  <1> QED
    BY <1>2, <1>3, <1>4, <1>5 DEF IInv

\* The invariant holds until a trigger meddles.
Inv == ~ meddled => IInv

LEMMA InvariantHolds == Spec => []Inv
  <1>1. Init => Inv
    BY InitIInv DEF Inv
  <1>2. Inv /\ [Next]_vars => Inv'
    <2> SUFFICES ASSUME Inv, [Next]_vars, ~ meddled'
                 PROVE  IInv'
      BY DEF Inv
    <2>1. ~ meddled /\ Quiet
      BY QuietStep
    <2>2. IInv
      BY <2>1 DEF Inv
    <2> QED
      BY <2>1, <2>2, QuietIInv
  <1> QED
    BY <1>1, <1>2, PTL DEF Spec

\* The places of the log.
LEMMA LogAt ==
    ASSUME NEW n \in DOMAIN log
    PROVE  <<1, n>> \in Places /\ OpAt(<<1, n>>) = log[n]
  BY DEF Places, OpAt

LEMMA TypeOKHolds == IInv => TypeOK
  <1> SUFFICES ASSUME IInv
               PROVE  TypeOK
    OBVIOUS
  <1>1. Typed /\ Nested /\ Numbered
    BY DEF IInv, Caused
  <1>2. tm.state \in {"IDLE", "ACTIVE"} /\ tables \subseteq Tables
    BY <1>1, StateFacts, TmFields DEF Typed, TmType
  <1>3. tm.state = "IDLE" => tm.buffer = <<>> /\ ~ Committing
    BY <1>1 DEF Nested, Active
  <1>4. \A i \in DOMAIN todo :
           /\ todo[i].call \in {"query", "execute", "insertMany", "store", "commit"}
           /\ todo[i].call = "commit" => i = Len(todo)
           /\ todo[i].call = "execute" =>
                 /\ todo[i].from = "commit" => Committing
                 /\ todo[i].from = "query" => ~ Committing
    BY <1>1, StateFacts, CallFields DEF Nested
  <1>5. {op.id : op \in Range(log) \cup Range(tm.buffer) \cup gone \cup failed}
          \subseteq 1 .. sent
    BY <1>1 DEF Numbered, Known
  <1> QED
    BY <1>2, <1>3, <1>4, <1>5 DEF TypeOK

LEMMA IsolatedHolds == Inv => Isolated
  <1> SUFFICES ASSUME IInv
               PROVE  /\ TypeOK
                      /\ ~ Committing => Ids(tm.buffer) \cap Ids(log) = {}
                      /\ gone \cap Range(log) = {}
    BY DEF Inv, Isolated
  <1>1. Typed /\ Nested /\ Apart
    BY DEF IInv
  <1>2. ASSUME ~ Committing, NEW k \in DOMAIN tm.buffer, NEW n \in DOMAIN log
        PROVE  tm.buffer[k].id # log[n].id
    <2> DEFINE p == <<3, k>>
               q == <<1, n>>
    <2>1. k \in At .. Len(tm.buffer)
      BY <1>1, <1>2, CommittingFacts, StateFacts
    <2>2. p \in Places /\ OpAt(p) = tm.buffer[k]
      BY <2>1 DEF Places, OpAt
    <2>3. q \in Places /\ OpAt(q) = log[n] /\ p # q
      BY LogAt
    <2> HIDE DEF p, q
    <2> QED
      BY <2>2, <2>3, <1>1 DEF Apart
  <1>3. ASSUME NEW n \in DOMAIN log
        PROVE  log[n] \notin gone
    BY <1>1, LogAt DEF Apart
  <1> QED
    BY <1>2, <1>3, TypeOKHolds DEF Ids, Range

LEMMA InOrderHolds == Inv => InOrder
  <1> SUFFICES ASSUME IInv, NEW i \in DOMAIN log, NEW j \in DOMAIN log, i < j
               PROVE  /\ log[i].id # log[j].id
                      /\ IsClients(log[i]) /\ IsClients(log[j]) => log[i].id < log[j].id
    BY DEF InOrder, Inv
  <1> DEFINE p == <<1, i>>
             q == <<1, j>>
  <1>1. /\ p \in Places /\ OpAt(p) = log[i] /\ q \in Places /\ OpAt(q) = log[j]
    BY LogAt
  <1>2. i \in Nat /\ j \in Nat
    BY StateFacts DEF IInv
  <1>3. p # q /\ Before(p, q)
    BY <1>2 DEF Before
  <1> HIDE DEF p, q
  <1>4. log[i].id # log[j].id
    BY <1>1, <1>3 DEF IInv, Apart
  <1>5. IsClients(log[i]) /\ IsClients(log[j]) => log[i].id < log[j].id
    BY <1>1, <1>3 DEF IInv, Sorted
  <1> QED
    BY <1>4, <1>5

LEMMA TriggersAnswerHolds == Inv => TriggersAnswer
  <1> SUFFICES ASSUME IInv, NEW n \in DOMAIN log, NEW i \in DOMAIN Triggers,
                      log[n].kind = "INSERT", Triggers[i].event = "INSERT",
                      log[n].table = Triggers[i].table
               PROVE  Cardinality(Answers(log[n], i)) = 1
    BY DEF TriggersAnswer, Inv
  <1> DEFINE A == Answers(log[n], i)
  <1>1. Typed /\ Nested /\ Numbered /\ OneAnswer /\ Answered
    BY DEF IInv, Caused
  <1>2. {c.op : c \in {d \in Range(todo) : d.call # "commit"}} = OpsOf(AnyCall)
    <2>1. \A j \in DOMAIN todo : todo[j].call # "commit" <=> todo[j].call \in AnyCall
      BY <1>1, StateFacts, CallFields DEF AnyCall, Waiting, Unrouted
    <2> QED
      BY <2>1 DEF OpsOf, Range
  <1>3. A = {o \in Known : o.cause = log[n].id /\ o.trigger = i}
    BY <1>2 DEF Answers, Known
  <1>4. log[n] \in Ran /\ log[n] \in Known
    BY DEF Ran, Known, Range
  <1>5. log[n].id # 0
    BY <1>1, <1>4 DEF Numbered
  <1>6. PICK p \in Known : p.cause = log[n].id /\ p.trigger = i
    BY <1>1, <1>4 DEF Answered
  <1>7. i # 0
    BY TriggersTyped
  <1>8. A = {p}
    BY <1>1, <1>3, <1>5, <1>6, <1>7 DEF OneAnswer
  <1> QED
    BY <1>8, FS_Singleton

\* Nothing of an open transaction shows and nothing of a closed one is left:
\* what a COMMIT executes is what was buffered since BEGIN, once, and what a
\* ROLLBACK dropped is never executed, whatever triggers send meanwhile, until
\* one's BEGIN, COMMIT or ROLLBACK takes effect.
THEOREM IsolatedAlways == Spec => []Isolated
  BY InvariantHolds, IsolatedHolds, PTL

\* Until then the log holds the clients' statements in the order in which they
\* were sent, in and out of transactions, and no statement twice.
THEOREM InOrderAlways == Spec => []InOrder
  BY InvariantHolds, InOrderHolds, PTL

\* Until then insertMany fires every trigger of the table once for each row it
\* stores, for an INSERT or for an UPDATE.
THEOREM TriggersAnswerAlways == Spec => []TriggersAnswer
  BY InvariantHolds, TriggersAnswerHolds, PTL
=============================================================================
