---------------------------- MODULE ServerProofs ----------------------------
(***************************************************************************)
(* Proofs about Server and MCServer.  The inductive invariant speaks of    *)
(* each connection by itself: of its session, its client and the requests  *)
(* and responses on the way between them.  A chunk is a fold over its      *)
(* requests; the first parts say what it is step by step.                  *)
(***************************************************************************)
EXTENDS MCServer, FiniteSetTheorems, WellFoundedInduction, TLAPS

-----------------------------------------------------------------------------
(* Numbers and sequences.                                                  *)

\* A set of naturals that is not empty has a least element.
LEMMA LeastNatural ==
    ASSUME NEW T \in SUBSET Nat, T # {}
    PROVE  \E m \in T : \A k \in T : m <= k
  <1>1. PICK m \in T : \A k \in T : <<k, m>> \notin OpToRel(<, Nat)
    BY WFMin, NatLessThanWellFounded
  <1>2. \A k \in T : ~ (k < m)
    <2>1. OpToRel(<, Nat) = {ss \in Nat \X Nat : ss[1] < ss[2]}
      BY DEF OpToRel
    <2> QED
      BY <1>1, <2>1
  <1> QED
    BY <1>2

\* Induction, about sets: what holds of 0 and of the successor of every number
\* up to n it holds of, holds of every number up to n.
LEMMA InductionUpTo ==
    ASSUME NEW n \in Nat, NEW T, 0 \in T,
           \A k \in 0 .. n : k \in T /\ k < n => k + 1 \in T
    PROVE  0 .. n \subseteq T
  <1> SUFFICES ASSUME (0 .. n) \ T # {}
               PROVE  FALSE
    OBVIOUS
  <1>1. PICK m \in (0 .. n) \ T : \A k \in (0 .. n) \ T : m <= k
    <2>1. (0 .. n) \ T \in SUBSET Nat
      OBVIOUS
    <2> QED
      BY <2>1, LeastNatural
  <1>2. m # 0 /\ m - 1 \in 0 .. n /\ m - 1 < n
    BY <1>1
  <1>3. m - 1 \in T
    BY <1>1, <1>2
  <1>4. m \in T
    BY <1>2, <1>3
  <1> QED
    BY <1>1, <1>4

LEMMA MaxOf ==
    ASSUME NEW k \in Nat, NEW s \in SUBSET (1 .. k), k \in s
    PROVE  Max(s) = k
  <1>1. \A y \in s : k >= y
    OBVIOUS
  <1>2. \A x \in s : (\A y \in s : x >= y) => x = k
    OBVIOUS
  <1> QED
    BY <1>1, <1>2 DEF Max

\* What a sequence is made of.
LEMMA SeqFacts ==
    ASSUME NEW T, NEW s \in Seq(T)
    PROVE  /\ Len(s) \in Nat /\ DOMAIN s = 1 .. Len(s)
           /\ \A k \in 1 .. Len(s) : s[k] \in T
  OBVIOUS

\* A sequence without its head.
LEMMA TailFacts ==
    ASSUME NEW T, NEW s \in Seq(T), s # <<>>
    PROVE  /\ Len(s) \in Nat \ {0} /\ Head(s) = s[1] /\ Head(s) \in T
           /\ Tail(s) \in Seq(T) /\ Len(Tail(s)) = Len(s) - 1
           /\ DOMAIN Tail(s) = 1 .. Len(s) - 1
           /\ \A k \in 1 .. Len(s) - 1 : Tail(s)[k] = s[k + 1]
  OBVIOUS

\* A sequence with one more element.
LEMMA AppendFacts ==
    ASSUME NEW T, NEW s \in Seq(T), NEW e \in T
    PROVE  /\ Append(s, e) \in Seq(T) /\ Len(Append(s, e)) = Len(s) + 1
           /\ DOMAIN Append(s, e) = 1 .. Len(s) + 1
           /\ \A k \in 1 .. Len(s) : Append(s, e)[k] = s[k]
           /\ Append(s, e)[Len(s) + 1] = e
  OBVIOUS

\* Two sequences in a row.
LEMMA ConcatFacts ==
    ASSUME NEW T, NEW s \in Seq(T), NEW t \in Seq(T)
    PROVE  /\ s \o t \in Seq(T) /\ Len(s \o t) = Len(s) + Len(t)
           /\ DOMAIN (s \o t) = 1 .. Len(s) + Len(t)
           /\ \A k \in 1 .. Len(s) : (s \o t)[k] = s[k]
           /\ \A k \in 1 .. Len(t) : (s \o t)[Len(s) + k] = t[k]
  <1>1. Len(s) \in Nat /\ Len(t) \in Nat
    OBVIOUS
  <1>2. s \o t \in Seq(T) /\ Len(s \o t) = Len(s) + Len(t)
    OBVIOUS
  <1>3. \A k \in 1 .. Len(s) : (s \o t)[k] = s[k]
    OBVIOUS
  <1>4. \A k \in 1 .. Len(t) : (s \o t)[Len(s) + k] = t[k]
    BY <1>1
  <1> QED
    BY <1>1, <1>2, <1>3, <1>4

-----------------------------------------------------------------------------
(* A chunk is handled request by request.                                  *)

Folds(f, k, start, seq) ==
    f = [s \in SUBSET (1 .. k) |->
           IF s = {} THEN start ELSE Handle(f[s \ {Max(s)}], seq[Max(s)])]

LEMMA FoldExists ==
    ASSUME NEW n \in Nat, NEW start, NEW seq
    PROVE  \E f : Folds(f, n, start, seq)
  <1> DEFINE T == {k \in 0 .. n : \E f : Folds(f, k, start, seq)}
  <1>1. 0 \in T
    <2> DEFINE f == [s \in SUBSET (1 .. 0) |-> start]
    <2>1. \A s \in SUBSET (1 .. 0) : s = {}
      OBVIOUS
    <2>2. Folds(f, 0, start, seq)
      BY <2>1 DEF Folds
    <2> QED
      BY <2>2
  <1>2. ASSUME NEW k \in 0 .. n, k \in T, k < n
        PROVE  k + 1 \in T
    <2>1. PICK f : Folds(f, k, start, seq)
      BY <1>2
    <2> DEFINE D == SUBSET (1 .. k + 1)
               g == [s \in D |-> IF k + 1 \in s
                                 THEN Handle(f[s \ {k + 1}], seq[k + 1]) ELSE f[s]]
               Next1(s) == IF s = {} THEN start ELSE Handle(g[s \ {Max(s)}], seq[Max(s)])
    <2>2. ASSUME NEW s \in D
          PROVE  g[s] = Next1(s)
      <3>1. CASE k + 1 \in s
        <4>1. Max(s) = k + 1
          BY <3>1, MaxOf
        <4>2. s \ {k + 1} \in D /\ k + 1 \notin s \ {k + 1}
          OBVIOUS
        <4>3. g[s \ {k + 1}] = f[s \ {k + 1}]
          BY <4>2
        <4> QED
          BY <3>1, <4>1, <4>3
      <3>2. CASE k + 1 \notin s
        <4>1. s \in SUBSET (1 .. k)
          BY <3>2
        <4>2. g[s] = f[s]
          BY <3>2
        <4>3. f[s] = IF s = {} THEN start ELSE Handle(f[s \ {Max(s)}], seq[Max(s)])
          BY <4>1, <2>1 DEF Folds
        <4>4. s \ {Max(s)} \in D /\ k + 1 \notin s \ {Max(s)}
          BY <3>2
        <4>5. g[s \ {Max(s)}] = f[s \ {Max(s)}]
          BY <4>4
        <4> QED
          BY <4>2, <4>3, <4>5
      <3> QED
        BY <3>1, <3>2
    <2>3. g = [s \in D |-> Next1(s)]
      <3> HIDE DEF Next1
      <3> QED
        BY <2>2
    <2>4. Folds(g, k + 1, start, seq)
      <3> HIDE DEF g
      <3> QED
        BY <2>3 DEF Folds
    <2> QED
      BY <2>4, <1>2
  <1>3. n \in T
    <2> HIDE DEF T
    <2>1. 0 .. n \subseteq T
      BY <1>1, <1>2, InductionUpTo
    <2> QED
      BY <2>1
  <1> QED
    BY <1>3

\* The states of the handler of a chunk, from start on.
Handling(h, start, seq) ==
    /\ h[0] = start
    /\ \A k \in 1 .. Len(seq) : h[k] = Handle(h[k - 1], seq[k])

LEMMA FoldFacts ==
    ASSUME NEW T, NEW start, NEW seq \in Seq(T)
    PROVE  \E h : Handling(h, start, seq) /\ FoldLeft(Handle, start, seq) = h[Len(seq)]
  <1> DEFINE n == Len(seq)
             Iter(f) == f = [s \in SUBSET (DOMAIN seq) |->
                               IF s = {} THEN start
                               ELSE Handle(f[s \ {Max(s)}], seq[Max(s)])]
             g == CHOOSE f : Iter(f)
  <1>1. n \in Nat /\ DOMAIN seq = 1 .. n
    BY SeqFacts
  <1>2. \E f : Iter(f)
    <2>1. PICK f : Folds(f, n, start, seq)
      BY <1>1, FoldExists
    <2>2. Iter(f)
      BY <2>1, <1>1 DEF Folds
    <2> QED
      BY <2>2
  <1>3. Iter(g)
    <2> HIDE DEF Iter
    <2> QED
      BY <1>2
  <1>4. FoldLeft(Handle, start, seq) = g[DOMAIN seq]
    BY DEF FoldLeft, MapThenFoldSet
  <1> HIDE DEF g
  <1>5. \A s \in SUBSET (1 .. n) :
           g[s] = IF s = {} THEN start ELSE Handle(g[s \ {Max(s)}], seq[Max(s)])
    BY <1>1, <1>3
  <1> HIDE DEF Iter, n
  <1> DEFINE h == [k \in 0 .. n |-> g[1 .. k]]
  <1>6. h[0] = start
    <2>1. 1 .. 0 = {} /\ {} \in SUBSET (1 .. n)
      OBVIOUS
    <2>2. g[{}] = start
      BY <1>5
    <2> QED
      BY <2>1, <2>2, <1>1
  <1>7. ASSUME NEW k \in 1 .. n
        PROVE  h[k] = Handle(h[k - 1], seq[k])
    <2> DEFINE s == 1 .. k
    <2>1. s \in SUBSET (1 .. n) /\ s # {} /\ k \in s
      BY <1>1
    <2>2. Max(s) = k
      BY <1>1, MaxOf
    <2>3. s \ {k} = 1 .. k - 1
      BY <1>1
    <2>4. g[s] = Handle(g[1 .. k - 1], seq[k])
      BY <2>1, <2>2, <2>3, <1>5
    <2>5. k - 1 \in 0 .. n /\ k \in 0 .. n
      BY <1>1
    <2> QED
      BY <2>4, <2>5
  <1>8. h[n] = g[1 .. n]
    BY <1>1
  <1> HIDE DEF h
  <1>9. Handling(h, start, seq)
    BY <1>6, <1>7 DEF Handling, n
  <1> QED
    BY <1>1, <1>4, <1>8, <1>9 DEF n

-----------------------------------------------------------------------------
(* What the handler of a request does.                                     *)

Db == Databases \cup {None}

ReqType == [id : Nat,
            type : {"welcome", "auth", "use", "query", "unbound", "make", "enter",
                    "burn", "ping", "drop"},
            arg : Databases \cup Credentials \cup {None}]

\* What a client may wait for, and the requests that are sent.
Awaited == {r \in ReqType : r.type \in {"use", "make", "enter", "burn", "drop"}
                            => r.arg \in Databases}
Asked == {r \in Awaited : r.type # "welcome"}

RespType == [type : {"welcome", "error", "auth_success", "use_success",
                     "query_result", "pong", "drop_success"},
             to : Nat]

HandlerType == [files : SUBSET Databases, engines : SUBSET Databases,
                auth : BOOLEAN, db : Db, now : Seq(RespType), later : Seq(RespType)]

\* The database a session or a client is in after a response of this type to
\* the request.
Follow(db, req, type) ==
    IF req.type = "use" /\ type = "use_success" THEN req.arg
    ELSE IF req.type = "drop" /\ type = "drop_success" /\ db = req.arg THEN None
    ELSE db

\* The session may run queries.
Serves(s) == s.db # None /\ (config.auth => s.auth)

\* Handling req leads from s to t and writes r, at once or after an await.
Answered(s, t, req, r) ==
    /\ t \in HandlerType /\ (s.engines \subseteq s.files => t.engines \subseteq t.files)
    /\ r \in RespType /\ r.to = req.id
    /\ IF req.type = "query" /\ Serves(s)
       THEN t.now = s.now /\ t.later = Append(s.later, r)
       ELSE t.now = Append(s.now, r) /\ t.later = s.later
    /\ s.auth => t.auth
    /\ config.auth /\ ~ t.auth => r.type = "error" /\ t.db = s.db
    /\ req.type \notin {"enter", "burn"} => t.db = Follow(s.db, req, r.type)
    /\ req.type = "query" => t.db = s.db /\ t.auth = s.auth
    /\ r.type = "use_success" => req.type = "use"

LEMMA ReplyFacts ==
    ASSUME NEW s \in HandlerType, NEW req \in Asked,
           NEW type \in {"error", "auth_success", "use_success", "query_result",
                         "pong", "drop_success"}
    PROVE  LET t == Reply(s, req, type)
           IN /\ t \in HandlerType /\ Response(type, req.id) \in RespType
              /\ Response(type, req.id).type = type /\ Response(type, req.id).to = req.id
              /\ t.files = s.files /\ t.engines = s.engines /\ t.auth = s.auth
              /\ t.db = s.db /\ t.later = s.later
              /\ t.now = Append(s.now, Response(type, req.id))
  <1> DEFINE r == Response(type, req.id)
  <1>1. r \in RespType /\ r.type = type /\ r.to = req.id
    BY DEF Response, RespType, Asked, Awaited, ReqType
  <1> HIDE DEF r
  <1>2. Append(s.now, r) \in Seq(RespType)
    BY <1>1, AppendFacts DEF HandlerType
  <1> QED
    BY <1>1, <1>2 DEF Reply, HandlerType, r

LEMMA CreateFacts ==
    ASSUME NEW s \in HandlerType, NEW db \in Databases
    PROVE  LET t == GetOrCreate(s, db)
           IN /\ t \in HandlerType
              /\ t.files = s.files \cup {db} /\ t.engines = s.engines \cup {db}
              /\ t.auth = s.auth /\ t.db = s.db /\ t.now = s.now /\ t.later = s.later
  BY DEF GetOrCreate, HandlerType

LEMMA DropFacts ==
    ASSUME NEW s \in HandlerType, NEW db \in Databases
    PROVE  LET t == Dropped(s, db)
           IN /\ t \in HandlerType
              /\ t.files = s.files \ {db} /\ t.engines = s.engines \ {db}
              /\ t.db = IF s.db = db THEN None ELSE s.db
              /\ t.auth = s.auth /\ t.now = s.now /\ t.later = s.later
  BY DEF Dropped, HandlerType, Db

LEMMA SetFacts ==
    ASSUME NEW s \in HandlerType, NEW db \in Db
    PROVE  /\ [s EXCEPT !.db = db] \in HandlerType
           /\ [s EXCEPT !.db = db].files = s.files /\ [s EXCEPT !.db = db].engines = s.engines
           /\ [s EXCEPT !.db = db].auth = s.auth /\ [s EXCEPT !.db = db].db = db
           /\ [s EXCEPT !.db = db].now = s.now /\ [s EXCEPT !.db = db].later = s.later
           /\ [s EXCEPT !.auth = TRUE] \in HandlerType
           /\ [s EXCEPT !.auth = TRUE].files = s.files
           /\ [s EXCEPT !.auth = TRUE].engines = s.engines
           /\ [s EXCEPT !.auth = TRUE].auth = TRUE /\ [s EXCEPT !.auth = TRUE].db = s.db
           /\ [s EXCEPT !.auth = TRUE].now = s.now /\ [s EXCEPT !.auth = TRUE].later = s.later
  BY DEF HandlerType

\* A response written after the await of its query.
LEMMA LateFacts ==
    ASSUME NEW s \in HandlerType, NEW req \in Asked
    PROVE  LET r == Response("query_result", req.id)
               t == [s EXCEPT !.later = Append(@, r)]
           IN /\ t \in HandlerType /\ r \in RespType
              /\ r.type = "query_result" /\ r.to = req.id
              /\ t.files = s.files /\ t.engines = s.engines /\ t.auth = s.auth
              /\ t.db = s.db /\ t.now = s.now /\ t.later = Append(s.later, r)
  <1> DEFINE r == Response("query_result", req.id)
  <1>1. r \in RespType /\ r.type = "query_result" /\ r.to = req.id
    BY DEF Response, RespType, Asked, Awaited, ReqType
  <1> HIDE DEF r
  <1>2. Append(s.later, r) \in Seq(RespType)
    BY <1>1, AppendFacts DEF HandlerType
  <1> QED
    BY <1>1, <1>2 DEF HandlerType, r

\* A request that is answered at once, by a handler that leads from s to m
\* before it writes.
LEMMA AtOnceFacts ==
    ASSUME NEW s \in HandlerType, NEW m \in HandlerType, NEW req \in Asked,
           NEW type \in {"error", "auth_success", "use_success", "query_result",
                         "pong", "drop_success"},
           m.now = s.now, m.later = s.later,
           s.engines \subseteq s.files => m.engines \subseteq m.files,
           req.type = "query" => ~ Serves(s) /\ m.db = s.db /\ m.auth = s.auth,
           s.auth => m.auth,
           config.auth /\ ~ m.auth => type = "error" /\ m.db = s.db,
           req.type \notin {"enter", "burn"} => m.db = Follow(s.db, req, type),
           type = "use_success" => req.type = "use"
    PROVE  \E r : Answered(s, Reply(m, req, type), req, r)
  <1> DEFINE t == Reply(m, req, type)
             r == Response(type, req.id)
  <1>1. /\ t \in HandlerType /\ r \in RespType /\ r.type = type /\ r.to = req.id
        /\ t.files = m.files /\ t.engines = m.engines /\ t.auth = m.auth
        /\ t.db = m.db /\ t.later = m.later /\ t.now = Append(m.now, r)
    <2> HIDE DEF Serves
    <2>1. \A ty \in {"error", "auth_success", "use_success", "query_result",
                     "pong", "drop_success"} :
             LET tt == Reply(m, req, ty)
             IN /\ tt \in HandlerType /\ Response(ty, req.id) \in RespType
                /\ Response(ty, req.id).type = ty /\ Response(ty, req.id).to = req.id
                /\ tt.files = m.files /\ tt.engines = m.engines /\ tt.auth = m.auth
                /\ tt.db = m.db /\ tt.later = m.later
                /\ tt.now = Append(m.now, Response(ty, req.id))
      BY ReplyFacts
    <2> QED
      BY <2>1
  <1> HIDE DEF t, r
  <1>2. Answered(s, t, req, r)
    BY <1>1 DEF Answered
  <1> QED
    BY <1>2 DEF t

LEMMA HandleFacts ==
    ASSUME NEW s \in HandlerType, NEW req \in Asked
    PROVE  \E r : Answered(s, Handle(s, req), req, r)
  <1> DEFINE Goal == \E r : Answered(s, Handle(s, req), req, r)
             refused == config.auth /\ ~ s.auth /\ req.type # "auth"
  <1> HIDE DEF Goal
  <1>1. CASE refused
    <2>1. Handle(s, req) = Reply(s, req, "error")
      BY <1>1 DEF Handle
    <2>2. \E r : Answered(s, Reply(s, req, "error"), req, r)
      BY <1>1, AtOnceFacts DEF Serves, Follow
    <2> QED
      BY <2>1, <2>2
  <1>2. CASE ~ refused /\ req.type = "auth"
    <2>1. Handle(s, req) = HandleAuth(s, req)
      BY <1>2 DEF Handle, Handled
    <2>2. CASE ~ config.auth \/ req.arg = "good"
      <3> DEFINE m == [s EXCEPT !.auth = TRUE]
      <3>1. /\ m \in HandlerType /\ m.files = s.files /\ m.engines = s.engines
            /\ m.auth = TRUE /\ m.db = s.db /\ m.now = s.now /\ m.later = s.later
        BY SetFacts DEF Db
      <3>2. Handle(s, req) = Reply(m, req, "auth_success")
        BY <2>1, <2>2 DEF HandleAuth
      <3> HIDE DEF m
      <3>3. \E r : Answered(s, Reply(m, req, "auth_success"), req, r)
        BY <3>1, <1>2, AtOnceFacts DEF Follow
      <3> QED
        BY <3>2, <3>3
    <2>3. CASE ~ (~ config.auth \/ req.arg = "good")
      <3>1. Handle(s, req) = Reply(s, req, "error")
        BY <2>1, <2>3 DEF HandleAuth
      <3>2. \E r : Answered(s, Reply(s, req, "error"), req, r)
        BY <1>2, AtOnceFacts DEF Follow
      <3> QED
        BY <3>1, <3>2
    <2> QED
      BY <2>2, <2>3
  <1>3. CASE ~ refused /\ req.type = "use"
    <2> DEFINE g == GetOrCreate(s, req.arg)
               m == [g EXCEPT !.db = req.arg]
    <2>1. req.arg \in Databases /\ req.arg \in Db
      BY <1>3 DEF Asked, Awaited, Db
    <2>2. /\ g \in HandlerType
          /\ g.files = s.files \cup {req.arg} /\ g.engines = s.engines \cup {req.arg}
          /\ g.auth = s.auth /\ g.db = s.db /\ g.now = s.now /\ g.later = s.later
      BY <2>1, CreateFacts
    <2>3. Handle(s, req) = Reply(m, req, "use_success")
      BY <1>3 DEF Handle, Handled, HandleUseDatabase
    <2> HIDE DEF g
    <2>4. /\ m \in HandlerType /\ m.files = g.files /\ m.engines = g.engines
          /\ m.auth = g.auth /\ m.db = req.arg /\ m.now = g.now /\ m.later = g.later
      BY <2>1, <2>2, SetFacts
    <2> HIDE DEF m
    <2>5. \E r : Answered(s, Reply(m, req, "use_success"), req, r)
      BY <2>2, <2>4, <1>3, AtOnceFacts DEF Follow
    <2> QED
      BY <2>3, <2>5
  <1>4. CASE ~ refused /\ req.type = "query"
    <2>1. Handle(s, req) = Run(s, req)
      BY <1>4 DEF Handle, Handled
    <2>2. CASE s.db = None
      <3>1. Handle(s, req) = Reply(s, req, "error")
        BY <2>1, <2>2 DEF Run
      <3>2. \E r : Answered(s, Reply(s, req, "error"), req, r)
        BY <1>4, <2>2, AtOnceFacts DEF Follow, Serves
      <3> QED
        BY <3>1, <3>2
    <2>3. CASE s.db # None
      <3> DEFINE g == GetOrCreate(s, s.db)
                 r == Response("query_result", req.id)
                 t == [g EXCEPT !.later = Append(@, r)]
      <3>1. s.db \in Databases
        BY <2>3 DEF HandlerType, Db
      <3>2. /\ g \in HandlerType
            /\ g.files = s.files \cup {s.db} /\ g.engines = s.engines \cup {s.db}
            /\ g.auth = s.auth /\ g.db = s.db /\ g.now = s.now /\ g.later = s.later
        BY <3>1, CreateFacts
      <3>3. Handle(s, req) = t
        BY <1>4, <2>1, <2>3 DEF Run
      <3> HIDE DEF g
      <3>4. /\ t \in HandlerType /\ r \in RespType
            /\ r.type = "query_result" /\ r.to = req.id
            /\ t.files = g.files /\ t.engines = g.engines /\ t.auth = g.auth
            /\ t.db = g.db /\ t.now = g.now /\ t.later = Append(g.later, r)
        BY <3>2, LateFacts
      <3> HIDE DEF t, r
      <3>5. Serves(s)
        BY <1>4, <2>3 DEF Serves
      <3>6. config.auth => t.auth
        BY <1>4, <3>2, <3>4
      <3>7. Answered(s, t, req, r)
        BY <3>2, <3>4, <3>5, <3>6, <1>4 DEF Answered, Follow
      <3> QED
        BY <3>3, <3>7
    <2> QED
      BY <2>2, <2>3
  <1>5. CASE ~ refused /\ req.type = "make"
    <2> DEFINE m == IF req.arg \in s.files THEN s ELSE GetOrCreate(s, req.arg)
    <2>1. req.arg \in Databases
      BY <1>5 DEF Asked, Awaited
    <2>2. /\ m \in HandlerType /\ (s.engines \subseteq s.files => m.engines \subseteq m.files)
          /\ m.auth = s.auth /\ m.db = s.db /\ m.now = s.now /\ m.later = s.later
      BY <2>1, CreateFacts
    <2>3. Handle(s, req) = Reply(m, req, "query_result")
      BY <1>5 DEF Handle, Handled, Make
    <2> HIDE DEF m
    <2>4. \E r : Answered(s, Reply(m, req, "query_result"), req, r)
      BY <2>2, <1>5, AtOnceFacts DEF Follow
    <2> QED
      BY <2>3, <2>4
  <1>6. CASE ~ refused /\ req.type = "enter"
    <2>1. Handle(s, req) = Enter(s, req)
      BY <1>6 DEF Handle, Handled
    <2>2. CASE req.arg \in s.files
      <3> DEFINE m == [s EXCEPT !.db = req.arg]
      <3>1. req.arg \in Db
        BY <1>6 DEF Asked, Awaited, Db
      <3>2. /\ m \in HandlerType /\ m.files = s.files /\ m.engines = s.engines
            /\ m.auth = s.auth /\ m.db = req.arg /\ m.now = s.now /\ m.later = s.later
        BY <3>1, SetFacts
      <3>3. Handle(s, req) = Reply(m, req, "query_result")
        BY <2>1, <2>2 DEF Enter
      <3> HIDE DEF m
      <3>4. \E r : Answered(s, Reply(m, req, "query_result"), req, r)
        BY <3>2, <1>6, AtOnceFacts
      <3> QED
        BY <3>3, <3>4
    <2>3. CASE req.arg \notin s.files
      <3>1. Handle(s, req) = Reply(s, req, "error")
        BY <2>1, <2>3 DEF Enter
      <3>2. \E r : Answered(s, Reply(s, req, "error"), req, r)
        BY <1>6, AtOnceFacts
      <3> QED
        BY <3>1, <3>2
    <2> QED
      BY <2>2, <2>3
  <1>7. CASE ~ refused /\ req.type \in {"burn", "drop"}
    <2> DEFINE type == IF req.type = "burn" THEN "query_result" ELSE "drop_success"
               m == Dropped(s, req.arg)
    <2>1. req.arg \in Databases
      BY <1>7 DEF Asked, Awaited
    <2>2. Handle(s, req) = DropAs(s, req, type)
      BY <1>7 DEF Handle, Handled, Burn, HandleDropDatabase
    <2>3. /\ type \in {"query_result", "drop_success"}
          /\ req.type = "drop" => type = "drop_success"
      BY <1>7
    <2> HIDE DEF type
    <2>4. CASE req.arg \in s.files
      <3>1. /\ m \in HandlerType
            /\ m.files = s.files \ {req.arg} /\ m.engines = s.engines \ {req.arg}
            /\ m.db = IF s.db = req.arg THEN None ELSE s.db
            /\ m.auth = s.auth /\ m.now = s.now /\ m.later = s.later
        BY <2>1, DropFacts
      <3>2. Handle(s, req) = Reply(m, req, type)
        BY <2>2, <2>4 DEF DropAs
      <3> HIDE DEF m
      <3>3. \E r : Answered(s, Reply(m, req, type), req, r)
        BY <3>1, <2>3, <1>7, AtOnceFacts DEF Follow
      <3> QED
        BY <3>2, <3>3
    <2>5. CASE req.arg \notin s.files
      <3>1. Handle(s, req) = Reply(s, req, "error")
        BY <2>2, <2>5 DEF DropAs
      <3>2. \E r : Answered(s, Reply(s, req, "error"), req, r)
        BY <1>7, AtOnceFacts DEF Follow
      <3> QED
        BY <3>1, <3>2
    <2> QED
      BY <2>4, <2>5
  <1>8. CASE ~ refused /\ req.type = "ping"
    <2>1. Handle(s, req) = Reply(s, req, "pong")
      BY <1>8 DEF Handle, Handled, Ping
    <2>2. \E r : Answered(s, Reply(s, req, "pong"), req, r)
      BY <1>8, AtOnceFacts DEF Follow
    <2> QED
      BY <2>1, <2>2
  <1>9. CASE ~ refused /\ req.type = "unbound"
    <2> DEFINE m == IF s.db = None THEN s ELSE GetOrCreate(s, s.db)
    <2>1. /\ m \in HandlerType /\ (s.engines \subseteq s.files => m.engines \subseteq m.files)
          /\ m.auth = s.auth /\ m.db = s.db /\ m.now = s.now /\ m.later = s.later
      <3>1. CASE s.db = None
        BY <3>1
      <3>2. CASE s.db # None
        <4>1. s.db \in Databases
          BY <3>2 DEF HandlerType, Db
        <4> QED
          BY <3>2, <4>1, CreateFacts
      <3> QED
        BY <3>1, <3>2
    <2>2. Handle(s, req) = Reply(m, req, "error")
      BY <1>9 DEF Handle, Handled, Run
    <2> HIDE DEF m
    <2>3. \E r : Answered(s, Reply(m, req, "error"), req, r)
      BY <2>1, <1>9, AtOnceFacts DEF Follow
    <2> QED
      BY <2>2, <2>3
  <1>10. req.type \in {"auth", "use", "query", "unbound", "make", "enter", "burn", "ping",
                        "drop"}
    BY DEF Asked, Awaited, ReqType
  <1> QED
    BY <1>1, <1>2, <1>3, <1>4, <1>5, <1>6, <1>7, <1>8, <1>9, <1>10

-----------------------------------------------------------------------------
(* What the handler of a chunk writes.                                     *)

\* One more response, among those written at once or among those that wait.
LEMMA WrittenFacts ==
    ASSUME NEW T, NEW b \in Seq(T), NEW a \in Seq(T), NEW e \in T
    PROVE  LET n == Len(b) + Len(a)
           IN /\ b \o a \in Seq(T) /\ Len(b \o a) = n
              /\ Append(b, e) \o a \in Seq(T) /\ Len(Append(b, e) \o a) = n + 1
              /\ b \o Append(a, e) \in Seq(T) /\ Len(b \o Append(a, e)) = n + 1
              /\ \A k \in 1 .. n + 1 :
                    (Append(b, e) \o a)[k] = IF k <= Len(b) THEN (b \o a)[k]
                                             ELSE IF k = Len(b) + 1 THEN e
                                             ELSE (b \o a)[k - 1]
              /\ \A k \in 1 .. n : (b \o Append(a, e))[k] = (b \o a)[k]
              /\ (b \o Append(a, e))[n + 1] = e
  <1> DEFINE be == Append(b, e)
             ae == Append(a, e)
             lb == Len(b)
             la == Len(a)
             Concat(s, t) == /\ s \o t \in Seq(T) /\ Len(s \o t) = Len(s) + Len(t)
                             /\ \A k \in 1 .. Len(s) : (s \o t)[k] = s[k]
                             /\ \A k \in 1 .. Len(t) : (s \o t)[Len(s) + k] = t[k]
  <1>0. \A s, t \in Seq(T) : Concat(s, t)
    BY ConcatFacts
  <1>1. lb \in Nat /\ la \in Nat
    BY SeqFacts
  <1>2. /\ be \in Seq(T) /\ Len(be) = lb + 1 /\ be[lb + 1] = e
        /\ \A k \in 1 .. lb : be[k] = b[k]
    BY AppendFacts
  <1>3. /\ ae \in Seq(T) /\ Len(ae) = la + 1 /\ ae[la + 1] = e
        /\ \A k \in 1 .. la : ae[k] = a[k]
    BY AppendFacts
  <1> HIDE DEF be, ae
  <1>4. /\ b \o a \in Seq(T) /\ Len(b \o a) = lb + la
        /\ \A k \in 1 .. lb : (b \o a)[k] = b[k]
        /\ \A k \in 1 .. la : (b \o a)[lb + k] = a[k]
    BY ConcatFacts
  <1>5. /\ be \o a \in Seq(T) /\ Len(be \o a) = lb + 1 + la
        /\ \A k \in 1 .. lb + 1 : (be \o a)[k] = be[k]
        /\ \A k \in 1 .. la : (be \o a)[lb + 1 + k] = a[k]
    <2>1. /\ be \o a \in Seq(T) /\ Len(be \o a) = Len(be) + Len(a)
          /\ \A k \in 1 .. Len(be) : (be \o a)[k] = be[k]
          /\ \A k \in 1 .. Len(a) : (be \o a)[Len(be) + k] = a[k]
      BY <1>2, <1>0
    <2> QED
      BY <2>1, <1>2
  <1>6. /\ b \o ae \in Seq(T) /\ Len(b \o ae) = lb + (la + 1)
        /\ \A k \in 1 .. lb : (b \o ae)[k] = b[k]
        /\ \A k \in 1 .. la + 1 : (b \o ae)[lb + k] = ae[k]
    <2>1. /\ b \o ae \in Seq(T) /\ Len(b \o ae) = Len(b) + Len(ae)
          /\ \A k \in 1 .. Len(b) : (b \o ae)[k] = b[k]
          /\ \A k \in 1 .. Len(ae) : (b \o ae)[Len(b) + k] = ae[k]
      BY <1>3, <1>0
    <2> QED
      BY <2>1, <1>3
  <1> DEFINE ba == b \o a
             bea == be \o a
             bae == b \o ae
  <1> HIDE DEF ba, bea, bae, lb, la
  <1>7. ASSUME NEW k \in 1 .. lb + la + 1
        PROVE  bea[k] = IF k <= lb THEN ba[k] ELSE IF k = lb + 1 THEN e ELSE ba[k - 1]
    <2>1. CASE k <= lb
      BY <2>1, <1>1, <1>2, <1>4, <1>5 DEF ba, bea
    <2>2. CASE k = lb + 1
      BY <2>2, <1>1, <1>2, <1>5 DEF bea
    <2>3. CASE k > lb + 1
      <3>1. k - lb - 1 \in 1 .. la
        BY <2>3, <1>1
      <3>2. bea[lb + 1 + (k - lb - 1)] = a[k - lb - 1]
        BY <3>1, <1>5 DEF bea
      <3>3. ba[lb + (k - lb - 1)] = a[k - lb - 1]
        BY <3>1, <1>4 DEF ba
      <3>4. lb + 1 + (k - lb - 1) = k /\ lb + (k - lb - 1) = k - 1
        BY <1>1
      <3> QED
        BY <2>3, <3>2, <3>3, <3>4, <1>1
    <2> QED
      BY <2>1, <2>2, <2>3, <1>1
  <1>8. ASSUME NEW k \in 1 .. lb + la
        PROVE  bae[k] = ba[k]
    <2>1. CASE k <= lb
      BY <2>1, <1>1, <1>4, <1>6 DEF ba, bae
    <2>2. CASE k > lb
      <3>1. k - lb \in 1 .. la /\ k - lb \in 1 .. la + 1
        BY <2>2, <1>1
      <3>2. bae[lb + (k - lb)] = ae[k - lb] /\ ba[lb + (k - lb)] = a[k - lb]
        BY <3>1, <1>4, <1>6 DEF ba, bae
      <3>3. lb + (k - lb) = k
        BY <1>1
      <3> QED
        BY <3>1, <3>2, <3>3, <1>3
    <2> QED
      BY <2>1, <2>2, <1>1
  <1>9. bae[lb + la + 1] = e
    <2>1. la + 1 \in 1 .. la + 1 /\ lb + (la + 1) = lb + la + 1
      BY <1>1
    <2> QED
      BY <2>1, <1>3, <1>6 DEF bae
  <1>10. lb + 1 + la = lb + la + 1 /\ lb + (la + 1) = lb + la + 1
    BY <1>1
  <1> QED
    BY <1>4, <1>5, <1>6, <1>7, <1>8, <1>9, <1>10 DEF ba, bea, bae, be, ae, lb, la

\* Nothing but queries comes after a query.
QueriesLast(seq) ==
    \A i, j \in 1 .. Len(seq) :
        i < j /\ seq[i].type = "query" => seq[j].type = "query"

\* The responses to the first k requests of a chunk, with the databases the
\* session was in.
Replied(h, seq, k) ==
    LET R == Responses(h[k])
    IN /\ h[k] \in HandlerType /\ Len(R) = k
       /\ h[0].engines \subseteq h[0].files => h[k].engines \subseteq h[k].files
       /\ config.auth /\ ~ h[k].auth =>
             /\ h[k].db = h[0].db /\ ~ h[0].auth
             /\ \A i \in 1 .. k : R[i].type = "error"
       /\ QueriesLast(seq) =>
             /\ h[k].later # <<>> => k > 0 /\ seq[k].type = "query" /\ Serves(h[k])
             /\ \A i \in 1 .. k :
                   /\ R[i].to = seq[i].id
                   /\ R[i].type = "use_success" => seq[i].type = "use"
                   /\ seq[i].type \notin {"enter", "burn"} =>
                         h[i].db = Follow(h[i - 1].db, seq[i], R[i].type)

LEMMA RepliedStep ==
    ASSUME NEW h, NEW start, NEW seq \in Seq(Asked), Handling(h, start, seq),
           NEW k \in Nat, k < Len(seq), Replied(h, seq, k)
    PROVE  Replied(h, seq, k + 1)
  <1> DEFINE s == h[k]
             t == h[k + 1]
             req == seq[k + 1]
             R == Responses(s)
             Q == Responses(t)
             nb == Len(s.now)
             b == s.now
             a == s.later
  <1>1. Len(seq) \in Nat /\ k + 1 \in 1 .. Len(seq) /\ k + 1 - 1 = k
    BY SeqFacts
  <1>2. t = Handle(s, req) /\ req \in Asked
    BY <1>1, SeqFacts DEF Handling
  <1>3. s \in HandlerType /\ Len(R) = k
    BY DEF Replied
  <1>4. PICK r : Answered(s, t, req, r)
    BY <1>2, <1>3, HandleFacts
  <1>5. t \in HandlerType /\ r \in RespType /\ r.to = req.id
    BY <1>4 DEF Answered
  <1>6. b \in Seq(RespType) /\ a \in Seq(RespType)
    BY <1>3 DEF HandlerType
  <1>7. R = b \o a
    BY DEF Responses
  <1> HIDE DEF s, t, R, Q, nb, a, b, req
  <1>8. nb \in Nat /\ Len(a) \in Nat /\ Len(b) = nb /\ nb + Len(a) = k
    BY <1>3, <1>6, <1>7, SeqFacts, ConcatFacts DEF nb, b
  <1>9. \/ t.now = b /\ t.later = Append(a, r)
        \/ t.now = Append(b, r) /\ t.later = a
    BY <1>4 DEF Answered, a, b
  <1>10. /\ Len(Q) = k + 1
         /\ \A i \in 1 .. k + 1 : Q[i] = r \/ \E l \in 1 .. k : Q[i] = R[l]
         /\ t.now = b \/ a = <<>> =>
               Q[k + 1] = r /\ \A i \in 1 .. k : Q[i] = R[i]
    <2>1. CASE t.now = b /\ t.later = Append(a, r)
      <3>1. Q = b \o Append(a, r)
        BY <2>1 DEF Responses, Q
      <3>2. LET n == Len(b) + Len(a)
            IN /\ Len(Q) = n + 1 /\ Q[n + 1] = r
               /\ \A i \in 1 .. n : Q[i] = R[i]
        BY <3>1, <1>5, <1>6, <1>7, WrittenFacts
      <3>3. Len(b) + Len(a) = k
        BY <1>8
      <3>4. /\ Len(Q) = k + 1 /\ Q[k + 1] = r
            /\ \A i \in 1 .. k : Q[i] = R[i]
        BY <3>2, <3>3
      <3> QED
        BY <3>4
    <2>2. CASE t.now = Append(b, r) /\ t.later = a
      <3>1. Q = Append(b, r) \o a
        BY <2>2 DEF Responses, Q
      <3>2. /\ Len(Q) = k + 1
            /\ \A i \in 1 .. k + 1 : Q[i] = IF i <= nb THEN R[i]
                                            ELSE IF i = nb + 1 THEN r ELSE R[i - 1]
        BY <3>1, <1>5, <1>6, <1>7, <1>8, WrittenFacts
      <3>3. ASSUME NEW i \in 1 .. k + 1
            PROVE  Q[i] = r \/ \E l \in 1 .. k : Q[i] = R[l]
        <4>1. CASE i <= nb
          <5>1. i \in 1 .. k
            BY <4>1, <1>8
          <5> QED
            BY <5>1, <4>1, <3>2
        <4>2. CASE i > nb + 1
          <5>1. i - 1 \in 1 .. k /\ ~ (i <= nb) /\ i # nb + 1
            BY <4>2, <1>8
          <5> QED
            BY <5>1, <3>2
        <4> QED
          BY <4>1, <4>2, <3>2, <1>8
      <3>4. b # Append(b, r)
        <4>1. Len(Append(b, r)) = nb + 1
          BY <1>5, <1>6, <1>8, AppendFacts
        <4> QED
          BY <4>1, <1>8
      <3>5. a = <<>> => nb = k
        BY <1>8
      <3> QED
        BY <2>2, <3>2, <3>3, <3>4, <3>5
    <2> QED
      BY <1>9, <2>1, <2>2
  <1>11. ASSUME config.auth, ~ t.auth
         PROVE  /\ t.db = h[0].db /\ ~ h[0].auth
                /\ \A i \in 1 .. k + 1 : Q[i].type = "error"
    <2>1. ~ s.auth /\ r.type = "error" /\ t.db = s.db
      BY <1>11, <1>4 DEF Answered
    <2>2. s.db = h[0].db /\ ~ h[0].auth /\ \A i \in 1 .. k : R[i].type = "error"
      BY <2>1, <1>11 DEF Replied, s, R
    <2> QED
      BY <2>1, <2>2, <1>10
  <1>12. ASSUME QueriesLast(seq)
         PROVE  /\ t.later # <<>> => req.type = "query" /\ Serves(t)
                /\ t.now = b \/ a = <<>>
    <2>1. a # <<>> => k > 0 /\ seq[k].type = "query" /\ Serves(s)
      BY <1>12 DEF Replied, s, a
    <2>2. a # <<>> => req.type = "query" /\ Serves(s)
      BY <2>1, <1>1, <1>12 DEF QueriesLast, req
    <2>3. CASE req.type = "query" /\ Serves(s)
      <3>1. t.now = b /\ t.db = s.db /\ t.auth = s.auth
        BY <2>3, <1>4 DEF Answered, b
      <3> QED
        BY <3>1, <2>3 DEF Serves
    <2>4. CASE ~ (req.type = "query" /\ Serves(s))
      <3>1. a = <<>> /\ t.later = a
        BY <2>2, <2>4, <1>4 DEF Answered, a
      <3> QED
        BY <3>1
    <2> QED
      BY <2>3, <2>4
  <1>13. ASSUME QueriesLast(seq), NEW i \in 1 .. k + 1
         PROVE  /\ Q[i].to = seq[i].id
                /\ Q[i].type = "use_success" => seq[i].type = "use"
                /\ seq[i].type \notin {"enter", "burn"} =>
                      h[i].db = Follow(h[i - 1].db, seq[i], Q[i].type)
    <2>1. CASE i \in 1 .. k
      <3>1. Q[i] = R[i]
        BY <2>1, <1>10, <1>12, <1>13
      <3>2. /\ R[i].to = seq[i].id
            /\ R[i].type = "use_success" => seq[i].type = "use"
            /\ seq[i].type \notin {"enter", "burn"} =>
                  h[i].db = Follow(h[i - 1].db, seq[i], R[i].type)
        BY <2>1, <1>13 DEF Replied, R, s
      <3> QED
        BY <3>1, <3>2
    <2>2. CASE i = k + 1
      <3>1. Q[i] = r
        BY <2>2, <1>10, <1>12, <1>13
      <3>2. r.type = "use_success" => req.type = "use"
        BY <1>4 DEF Answered
      <3>3. req.type \notin {"enter", "burn"} => t.db = Follow(s.db, req, r.type)
        BY <1>4 DEF Answered
      <3>4. h[i] = t /\ h[i - 1] = s /\ seq[i] = req
        BY <2>2, <1>1 DEF t, s, req
      <3> QED
        BY <3>1, <3>2, <3>3, <3>4, <1>5
    <2> QED
      BY <2>1, <2>2
  <1>14. h[0].engines \subseteq h[0].files => t.engines \subseteq t.files
    BY <1>4 DEF Answered, Replied, s
  <1> QED
    BY <1>5, <1>10, <1>11, <1>12, <1>13, <1>14, <1>1 DEF Replied, Q, t, req

\* What the handler of a chunk and the awaits it leaves behind do to the
\* session and write to the client: one response a request; nothing but errors
\* as long as the session has not authenticated; and, when queries come last,
\* the responses in the order of the requests, along with the databases the
\* session was in.
ChunkDone(start, seq, t) ==
    LET R == Responses(t)
        n == Len(seq)
    IN /\ t \in HandlerType /\ R \in Seq(RespType) /\ Len(R) = n
       /\ start.engines \subseteq start.files => t.engines \subseteq t.files
       /\ config.auth /\ ~ t.auth =>
             /\ t.db = start.db /\ ~ start.auth
             /\ \A i \in 1 .. n : R[i].type = "error"
       /\ QueriesLast(seq) =>
             \A i \in 1 .. n : /\ R[i].to = seq[i].id
                               /\ R[i].type = "use_success" => seq[i].type = "use"
       /\ QueriesLast(seq) /\ (\A i \in 1 .. n : seq[i].type \notin {"enter", "burn"}) =>
             \E v \in [0 .. n -> Db] :
                /\ v[0] = start.db /\ v[n] = t.db
                /\ \A i \in 1 .. n : v[i] = Follow(v[i - 1], seq[i], R[i].type)

LEMMA ChunkFacts ==
    ASSUME NEW start \in HandlerType, start.now = <<>>, start.later = <<>>,
           NEW seq \in Seq(Asked)
    PROVE  ChunkDone(start, seq, FoldLeft(Handle, start, seq))
  <1>1. PICK h : Handling(h, start, seq) /\ FoldLeft(Handle, start, seq) = h[Len(seq)]
    BY FoldFacts
  <1> DEFINE n == Len(seq)
             t == h[n]
             R == Responses(t)
             T == {k \in 0 .. n : Replied(h, seq, k)}
  <1>2. n \in Nat /\ h[0] = start
    BY <1>1, SeqFacts DEF Handling
  <1>3. Replied(h, seq, 0)
    <2>1. Responses(start) = <<>>
      BY DEF Responses
    <2>2. Len(Responses(start)) = 0
      BY <2>1
    <2> QED
      BY <2>2, <1>2 DEF Replied
  <1> HIDE DEF n
  <1>4. ASSUME NEW k \in 0 .. n, k \in T, k < n
        PROVE  k + 1 \in T
    <2>1. Replied(h, seq, k + 1)
      BY <1>1, <1>2, <1>4, RepliedStep DEF n
    <2> QED
      BY <2>1, <1>2, <1>4
  <1>5. 0 \in T
    BY <1>3, <1>2
  <1> HIDE DEF T
  <1>6. 0 .. n \subseteq T
    BY <1>2, <1>4, <1>5, InductionUpTo
  <1>7. \A k \in 0 .. n : Replied(h, seq, k)
    BY <1>6 DEF T
  <1>8. Replied(h, seq, n)
    BY <1>2, <1>7
  <1>9. t \in HandlerType /\ Len(R) = n
    BY <1>8 DEF Replied
  <1>10. R \in Seq(RespType)
    <2>1. t.now \in Seq(RespType) /\ t.later \in Seq(RespType)
      BY <1>9 DEF HandlerType
    <2> QED
      BY <2>1, ConcatFacts DEF Responses
  <1>11. ASSUME QueriesLast(seq), \A i \in 1 .. n : seq[i].type \notin {"enter", "burn"}
         PROVE  \E v \in [0 .. n -> Db] :
                   /\ v[0] = start.db /\ v[n] = t.db
                   /\ \A i \in 1 .. n : v[i] = Follow(v[i - 1], seq[i], R[i].type)
    <2> DEFINE v == [k \in 0 .. n |-> h[k].db]
    <2>1. ASSUME NEW k \in 0 .. n
          PROVE  h[k].db \in Db
      <3>1. h[k] \in HandlerType
        BY <1>7 DEF Replied
      <3> QED
        BY <3>1 DEF HandlerType
    <2>2. v \in [0 .. n -> Db]
      BY <2>1
    <2>3. v[0] = start.db /\ v[n] = t.db
      BY <1>2
    <2>4. ASSUME NEW i \in 1 .. n
          PROVE  v[i] = Follow(v[i - 1], seq[i], R[i].type)
      <3>1. h[i].db = Follow(h[i - 1].db, seq[i], R[i].type)
        BY <1>8, <1>11 DEF Replied
      <3>2. i \in 0 .. n /\ i - 1 \in 0 .. n
        BY <1>2
      <3> QED
        BY <3>1, <3>2
    <2> HIDE DEF v
    <2> QED
      BY <2>2, <2>3, <2>4
  <1>12. ChunkDone(start, seq, t)
    BY <1>2, <1>8, <1>9, <1>10, <1>11 DEF ChunkDone, Replied, n
  <1> QED
    BY <1>1, <1>12 DEF n

-----------------------------------------------------------------------------
(* The two ends of a connection: the session s, the client w, the requests *)
(* and the responses on the way, in and out.                               *)

SessionType == [state : {"none", "open", "refused", "ended", "destroyed"},
                auth : BOOLEAN, db : Db]

\* The requests connect() sends.
Planned == {r \in Asked : r.id = 0 /\ r.type \in {"auth", "use"}}

ClientType == [life : {"new", "up", "ended", "gone"},
               connect : {"idle", "pending", "resolved", "rejected"},
               plan : Seq(Planned), db : Db, waiting : Seq(Awaited)]

\* The responses on the way are those to the requests that wait longest, and
\* queries wait last.
Ordered(w, out) ==
    w.life = "up" =>
        /\ QueriesLast(w.waiting)
        /\ Len(out) <= Len(w.waiting)
        /\ \A i \in 1 .. Len(out) :
              /\ out[i].to = w.waiting[i].id
              /\ out[i].type = "use_success" => w.waiting[i].type = "use"

\* The responses on the way lead the client to the database of its session.
Leads(v, s, w, out) ==
    /\ v \in [0 .. Len(out) -> Db] /\ v[0] = w.db /\ v[Len(out)] = s.db
    /\ \A i \in 1 .. Len(out) : v[i] = Follow(v[i - 1], w.waiting[i], out[i].type)

Views(s, w, in, out) ==
    /\ \A i \in 1 .. Len(in) : in[i].type \notin {"enter", "burn"}
    /\ w.life = "up" /\ s.state = "open" => \E v : Leads(v, s, w, out)

\* The requests that wait are numbered in their order, up to n.
Rising(w, n) ==
    /\ \A i, j \in 1 .. Len(w.waiting) : i < j => w.waiting[i].id < w.waiting[j].id
    /\ \A i \in 1 .. Len(w.waiting) : w.waiting[i].id <= n

\* connect() has one request at a time on the way, and only its requests have
\* number 0.
Connected(w, out) ==
    /\ w.life # "up" => w = Over(w.life)
    /\ w.connect = "resolved" => \A i \in 1 .. Len(w.waiting) : w.waiting[i].id > 0
    /\ w.connect # "resolved" => Len(w.waiting) <= 1 /\ Ordered(w, out)

\* A request that waits, or its response, is on the way.
Balanced(s, w, in, out) ==
    s.state = "open" /\ w.life = "up" =>
        /\ Len(w.waiting) = Len(in) + Len(out)
        /\ \A j \in 1 .. Len(in) : w.waiting[Len(out) + j] = in[j]

Authentic(a, s, out) ==
    a /\ s.state = "open" /\ ~ s.auth =>
        /\ s.db = None
        /\ \A i \in 1 .. Len(out) : out[i].type \in {"welcome", "error"}

Linked(a, s, w, in, out, n) ==
    /\ s \in SessionType /\ w \in ClientType
    /\ in \in Seq(Asked) /\ out \in Seq(RespType)
    /\ s.state = "none" <=> w.life = "new"
    /\ s.state \in {"none", "refused"} => ~ s.auth /\ s.db = None
    /\ s.state # "open" => in = <<>>
    /\ Rising(w, n) /\ Connected(w, out)
    /\ Balanced(s, w, in, out) /\ Authentic(a, s, out)

\* A step between two states of a connection keeps what holds of it.
Keeps(a, n, s, w, in, out, s1, w1, in1, out1) ==
    /\ Linked(a, s1, w1, in1, out1, n)
    /\ Ordered(w, out) => Ordered(w1, out1)
    /\ Ordered(w, out) /\ Views(s, w, in, out) => Views(s1, w1, in1, out1)

LEMMA EmptyFacts ==
    ASSUME NEW T, NEW s \in Seq(T), Len(s) = 0
    PROVE  s = <<>>
  OBVIOUS

LEMMA CutFacts ==
    ASSUME NEW T, NEW s \in Seq(T), NEW n \in 0 .. Len(s)
    PROVE  /\ SubSeq(s, 1, n) \in Seq(T) /\ Len(SubSeq(s, 1, n)) = n
           /\ \A k \in 1 .. n : SubSeq(s, 1, n)[k] = s[k]
           /\ SubSeq(s, n + 1, Len(s)) \in Seq(T)
           /\ Len(SubSeq(s, n + 1, Len(s))) = Len(s) - n
           /\ \A k \in 1 .. Len(s) - n : SubSeq(s, n + 1, Len(s))[k] = s[n + k]
  OBVIOUS

\* The requests of a chunk are those that wait first of the ones whose
\* responses are not on the way yet.
LEMMA ChunkKeeps ==
    ASSUME NEW s, NEW w, NEW in, NEW out, NEW m \in Nat,
           Linked(config.auth, s, w, in, out, m), s.state = "open",
           NEW n \in 1 .. Len(in), NEW start, NEW t,
           start.auth = s.auth, start.db = s.db,
           ChunkDone(start, SubSeq(in, 1, n), t)
    PROVE  Keeps(config.auth, m, s, w, in, out,
                 [s EXCEPT !.auth = t.auth, !.db = t.db], w,
                 SubSeq(in, n + 1, Len(in)),
                 IF w.life = "up" THEN out \o Responses(t) ELSE out)
  <1> DEFINE seq == SubSeq(in, 1, n)
             rest == SubSeq(in, n + 1, Len(in))
             R == Responses(t)
             q == IF w.life = "up" THEN out \o R ELSE out
             z == [s EXCEPT !.auth = t.auth, !.db = t.db]
             lo == Len(out)
             wt == w.waiting
  <1> HIDE DEF Linked
  <1>1. /\ in \in Seq(Asked) /\ out \in Seq(RespType) /\ s \in SessionType
        /\ w \in ClientType /\ wt \in Seq(Awaited)
    BY DEF Linked, ClientType
  <1>2. Len(in) \in Nat /\ lo \in Nat /\ n \in 0 .. Len(in)
    BY <1>1, SeqFacts
  <1>3. /\ seq \in Seq(Asked) /\ Len(seq) = n
        /\ \A k \in 1 .. n : seq[k] = in[k]
        /\ rest \in Seq(Asked) /\ Len(rest) = Len(in) - n
        /\ \A k \in 1 .. Len(in) - n : rest[k] = in[n + k]
    BY <1>1, <1>2, CutFacts
  <1> HIDE DEF seq, rest
  <1>4. /\ t \in HandlerType /\ R \in Seq(RespType) /\ Len(R) = n
        /\ config.auth /\ ~ t.auth =>
              /\ t.db = s.db /\ ~ s.auth
              /\ \A i \in 1 .. n : R[i].type = "error"
        /\ QueriesLast(seq) =>
              \A i \in 1 .. n : /\ R[i].to = seq[i].id
                                /\ R[i].type = "use_success" => seq[i].type = "use"
        /\ QueriesLast(seq) /\ (\A i \in 1 .. n : seq[i].type \notin {"enter", "burn"}) =>
              \E v \in [0 .. n -> Db] :
                 /\ v[0] = s.db /\ v[n] = t.db
                 /\ \A i \in 1 .. n : v[i] = Follow(v[i - 1], seq[i], R[i].type)
    <2>1. ChunkDone(start, seq, t)
      BY DEF seq
    <2>2. /\ t \in HandlerType /\ R \in Seq(RespType) /\ Len(R) = Len(seq)
          /\ config.auth /\ ~ t.auth =>
                /\ t.db = start.db /\ ~ start.auth
                /\ \A i \in 1 .. Len(seq) : R[i].type = "error"
          /\ QueriesLast(seq) =>
                \A i \in 1 .. Len(seq) :
                   /\ R[i].to = seq[i].id
                   /\ R[i].type = "use_success" => seq[i].type = "use"
      BY <2>1 DEF ChunkDone
    <2>3. QueriesLast(seq) /\ (\A i \in 1 .. Len(seq) : seq[i].type \notin {"enter", "burn"}) =>
             \E v \in [0 .. Len(seq) -> Db] :
                /\ v[0] = start.db /\ v[Len(seq)] = t.db
                /\ \A i \in 1 .. Len(seq) : v[i] = Follow(v[i - 1], seq[i], R[i].type)
      BY <2>1 DEF ChunkDone
    <2>4. Len(seq) = n
      BY <1>3
    <2> HIDE DEF R
    <2>5. QueriesLast(seq) /\ (\A i \in 1 .. n : seq[i].type \notin {"enter", "burn"}) =>
             \E v \in [0 .. n -> Db] :
                /\ v[0] = s.db /\ v[n] = t.db
                /\ \A i \in 1 .. n : v[i] = Follow(v[i - 1], seq[i], R[i].type)
      BY <2>3, <2>4, Zenon
    <2> QED
      BY <2>2, <2>4, <2>5
  <1> HIDE DEF R
  <1>5. /\ z \in SessionType /\ z.auth = t.auth /\ z.db = t.db /\ z.state = "open"
    BY <1>1, <1>4 DEF SessionType, HandlerType
  <1> HIDE DEF z
  <1>6. ASSUME w.life = "up"
        PROVE  /\ q \in Seq(RespType) /\ Len(q) = lo + n
               /\ \A k \in 1 .. lo : q[k] = out[k]
               /\ \A k \in 1 .. n : q[lo + k] = R[k]
    <2>1. q = out \o R
      BY <1>6
    <2> HIDE DEF q
    <2>2. /\ q \in Seq(RespType) /\ Len(q) = Len(out) + Len(R)
          /\ \A k \in 1 .. Len(out) : q[k] = out[k]
          /\ \A k \in 1 .. Len(R) : q[Len(out) + k] = R[k]
      <3>1. out \in Seq(RespType) /\ R \in Seq(RespType)
        BY <1>1, <1>4
      <3>2. LET p == out \o R
            IN /\ p \in Seq(RespType) /\ Len(p) = Len(out) + Len(R)
               /\ \A k \in 1 .. Len(out) : p[k] = out[k]
               /\ \A k \in 1 .. Len(R) : p[Len(out) + k] = R[k]
        BY <3>1, ConcatFacts
      <3> QED
        BY <2>1, <3>2
    <2>3. Len(R) = n
      BY <1>4
    <2> QED
      BY <2>2, <2>3 DEF lo
  <1>7. w.life # "up" => q = out
    OBVIOUS
  <1> HIDE DEF q
  <1>8. ASSUME w.life = "up"
        PROVE  /\ Len(wt) = Len(in) + lo
               /\ \A j \in 1 .. Len(in) : wt[lo + j] = in[j]
    BY <1>8 DEF Linked, Balanced
  <1> HIDE DEF lo, wt
  <1>9. Balanced(z, w, rest, q)
    <2> SUFFICES ASSUME w.life = "up"
                 PROVE  /\ Len(wt) = Len(rest) + Len(q)
                        /\ \A j \in 1 .. Len(rest) : wt[Len(q) + j] = rest[j]
      BY DEF Balanced, wt
    <2>3. Len(q) = lo + n /\ Len(rest) = Len(in) - n
      BY <1>3, <1>6
    <2>1. Len(wt) = Len(rest) + Len(q)
      BY <2>3, <1>2, <1>8
    <2>2. ASSUME NEW j \in 1 .. Len(rest)
          PROVE  wt[Len(q) + j] = rest[j]
      <3>1. n + j \in 1 .. Len(in) /\ Len(q) + j = lo + (n + j) /\ j \in 1 .. Len(in) - n
        BY <1>2, <2>3
      <3> QED
        BY <3>1, <1>3, <1>8
    <2> QED
      BY <2>1, <2>2
  <1>10. Authentic(config.auth, z, q)
    <2> SUFFICES ASSUME config.auth, ~ t.auth
                 PROVE  /\ z.db = None
                        /\ \A i \in 1 .. Len(q) : q[i].type \in {"welcome", "error"}
      BY <1>5 DEF Authentic
    <2>1. /\ t.db = s.db /\ ~ s.auth
          /\ \A i \in 1 .. n : R[i].type = "error"
      BY <1>4
    <2>2. /\ s.db = None
          /\ \A i \in 1 .. lo : out[i].type \in {"welcome", "error"}
      BY <2>1 DEF Linked, Authentic, lo
    <2>3. ASSUME NEW i \in 1 .. Len(q)
          PROVE  q[i].type \in {"welcome", "error"}
      <3>1. CASE w.life # "up"
        BY <3>1, <2>2, <1>7 DEF lo
      <3>2. CASE w.life = "up" /\ i <= lo
        <4>1. i \in 1 .. lo
          BY <3>2, <1>2
        <4> QED
          BY <4>1, <3>2, <2>2, <1>6
      <3>3. CASE w.life = "up" /\ i > lo
        <4>1. i - lo \in 1 .. n /\ lo + (i - lo) = i
          BY <3>3, <1>2, <1>6
        <4>2. q[lo + (i - lo)] = R[i - lo]
          BY <4>1, <3>3, <1>6
        <4> QED
          BY <4>1, <4>2, <2>1
      <3> QED
        BY <3>1, <3>2, <3>3, <1>2
    <2> QED
      BY <2>1, <2>2, <2>3, <1>5
  <1>11. ASSUME Ordered(w, out), w.life = "up"
         PROVE  QueriesLast(seq)
    <2> SUFFICES ASSUME NEW i \in 1 .. n, NEW j \in 1 .. n, i < j, seq[i].type = "query"
                 PROVE  seq[j].type = "query"
      BY <1>3 DEF QueriesLast
    <2>1. i \in 1 .. Len(in) /\ j \in 1 .. Len(in)
      BY <1>2
    <2>2. seq[i] = wt[lo + i] /\ seq[j] = wt[lo + j]
      BY <2>1, <1>3, <1>8, <1>11
    <2>3. lo + i \in 1 .. Len(wt) /\ lo + j \in 1 .. Len(wt) /\ lo + i < lo + j
      BY <2>1, <1>2, <1>8, <1>11
    <2>4. QueriesLast(wt)
      BY <1>11 DEF Ordered, wt
    <2> QED
      BY <2>2, <2>3, <2>4 DEF QueriesLast
  <1>12. ASSUME Ordered(w, out)
         PROVE  Ordered(w, q)
    <2> SUFFICES ASSUME w.life = "up"
                 PROVE  /\ QueriesLast(wt) /\ Len(q) <= Len(wt)
                        /\ \A i \in 1 .. Len(q) :
                              /\ q[i].to = wt[i].id
                              /\ q[i].type = "use_success" => wt[i].type = "use"
      BY DEF Ordered, wt
    <2>1. /\ QueriesLast(wt)
          /\ \A i \in 1 .. lo : /\ out[i].to = wt[i].id
                                /\ out[i].type = "use_success" => wt[i].type = "use"
      BY <1>12 DEF Ordered, wt, lo
    <2>2. Len(q) <= Len(wt)
      BY <1>2, <1>6, <1>8
    <2>3. ASSUME NEW i \in 1 .. Len(q)
          PROVE  /\ q[i].to = wt[i].id
                 /\ q[i].type = "use_success" => wt[i].type = "use"
      <3>1. CASE i <= lo
        <4>1. i \in 1 .. lo
          BY <3>1, <1>2
        <4> QED
          BY <4>1, <2>1, <1>6
      <3>2. CASE i > lo
        <4> DEFINE k == i - lo
        <4>1. k \in 1 .. n /\ k \in 1 .. Len(in) /\ lo + k = i
          BY <3>2, <1>2, <1>6
        <4> HIDE DEF k
        <4>2. q[i] = R[k] /\ wt[i] = seq[k]
          BY <4>1, <1>3, <1>6, <1>8
        <4>3. /\ R[k].to = seq[k].id
              /\ R[k].type = "use_success" => seq[k].type = "use"
          BY <4>1, <1>4, <1>11, <1>12
        <4> QED
          BY <4>2, <4>3
      <3> QED
        BY <3>1, <3>2, <1>2
    <2> QED
      BY <2>1, <2>2, <2>3
  <1>13. ASSUME Ordered(w, out), Views(s, w, in, out)
         PROVE  Views(z, w, rest, q)
    <2>1. ASSUME NEW i \in 1 .. Len(rest)
          PROVE  rest[i].type \notin {"enter", "burn"}
      <3>1. n + i \in 1 .. Len(in) /\ i \in 1 .. Len(in) - n
        BY <1>2, <1>3
      <3> QED
        BY <3>1, <1>3, <1>13 DEF Views
    <2>2. ASSUME w.life = "up"
          PROVE  \E v : Leads(v, z, w, q)
      <3>1. PICK u : Leads(u, s, w, out)
        BY <2>2, <1>13 DEF Views
      <3>2. \A i \in 1 .. n : seq[i].type \notin {"enter", "burn"}
        <4>1. \A i \in 1 .. n : i \in 1 .. Len(in)
          BY <1>2
        <4> QED
          BY <4>1, <1>3, <1>13 DEF Views
      <3>3. PICK x \in [0 .. n -> Db] :
                 /\ x[0] = s.db /\ x[n] = t.db
                 /\ \A i \in 1 .. n : x[i] = Follow(x[i - 1], seq[i], R[i].type)
        BY <3>2, <2>2, <1>4, <1>11, <1>13
      <3>4. /\ u \in [0 .. lo -> Db] /\ u[0] = w.db /\ u[lo] = s.db
            /\ \A i \in 1 .. lo : u[i] = Follow(u[i - 1], wt[i], out[i].type)
        BY <3>1 DEF Leads, lo, wt
      <3> DEFINE v == [i \in 0 .. lo + n |-> IF i <= lo THEN u[i] ELSE x[i - lo]]
      <3>5. v \in [0 .. lo + n -> Db]
        <4>1. ASSUME NEW i \in 0 .. lo + n
              PROVE  (IF i <= lo THEN u[i] ELSE x[i - lo]) \in Db
          <5>1. CASE i <= lo
            <6>1. i \in 0 .. lo
              BY <5>1, <1>2
            <6> QED
              BY <6>1, <5>1, <3>4
          <5>2. CASE i > lo
            <6>1. i - lo \in 0 .. n /\ ~ (i <= lo)
              BY <5>2, <1>2
            <6> QED
              BY <6>1, <3>3
          <5> QED
            BY <5>1, <5>2, <1>2
        <4> QED
          BY <4>1
      <3>6. \A i \in 0 .. lo : v[i] = u[i]
        BY <1>2
      <3>7. \A i \in 0 .. n : v[lo + i] = x[i]
        <4>0. \A k \in 0 .. lo + n : v[k] = IF k <= lo THEN u[k] ELSE x[k - lo]
          OBVIOUS
        <4> HIDE DEF v
        <4>1. ASSUME NEW i \in 0 .. n
              PROVE  v[lo + i] = x[i]
          <5> DEFINE k == lo + i
          <5>1. /\ k \in 0 .. lo + n /\ k - lo = i /\ (k <= lo <=> i = 0)
                /\ i = 0 => k = lo
            BY <1>2
          <5> HIDE DEF k
          <5>2. v[k] = IF k <= lo THEN u[k] ELSE x[k - lo]
            BY <4>0, <5>1
          <5>3. v[k] = x[i]
            <6>1. CASE i = 0
              BY <6>1, <5>1, <5>2, <3>3, <3>4
            <6>2. CASE i # 0
              BY <6>2, <5>1, <5>2
            <6> QED
              BY <6>1, <6>2
          <5> QED
            BY <5>3 DEF k
        <4> QED
          BY <4>1
      <3> HIDE DEF v
      <3>8. ASSUME NEW i \in 1 .. lo + n
            PROVE  v[i] = Follow(v[i - 1], wt[i], q[i].type)
        <4>1. CASE i <= lo
          <5>1. i \in 1 .. lo /\ i \in 0 .. lo /\ i - 1 \in 0 .. lo
            BY <4>1, <1>2
          <5> QED
            BY <5>1, <3>4, <3>6, <1>6, <2>2
        <4>2. CASE i > lo
          <5> DEFINE k == i - lo
          <5>1. /\ k \in 1 .. n /\ k \in 0 .. n /\ k - 1 \in 0 .. n /\ k \in 1 .. Len(in)
                /\ lo + k = i /\ lo + (k - 1) = i - 1
            BY <4>2, <1>2
          <5> HIDE DEF k
          <5>2. v[i] = x[k] /\ v[i - 1] = x[k - 1]
            BY <5>1, <3>7
          <5>3. q[i] = R[k] /\ wt[i] = seq[k]
            BY <5>1, <1>3, <1>6, <1>8, <2>2
          <5> QED
            BY <5>1, <5>2, <5>3, <3>3
        <4> QED
          BY <4>1, <4>2, <1>2
      <3>9. v[0] = w.db /\ v[lo + n] = t.db
        BY <3>3, <3>4, <3>6, <3>7, <1>2
      <3>10. Leads(v, z, w, q)
        BY <3>5, <3>8, <3>9, <1>5, <1>6, <2>2 DEF Leads, wt
      <3> QED
        BY <3>10
    <2> QED
      BY <2>1, <2>2 DEF Views
  <1>14. Connected(w, q)
    BY <1>12 DEF Linked, Connected
  <1>15. q \in Seq(RespType)
    BY <1>1, <1>6, <1>7
  <1>16. Linked(config.auth, z, w, rest, q, m)
    BY <1>1, <1>3, <1>5, <1>9, <1>10, <1>14, <1>15 DEF Linked
  <1>17. Keeps(config.auth, m, s, w, in, out, z, w, rest, q)
    BY <1>12, <1>13, <1>16 DEF Keeps
  <1> QED
    BY <1>17 DEF z, rest, q, R

\* The server's end is closed.
LEMMA CloseKeeps ==
    ASSUME NEW a, NEW s, NEW w, NEW in, NEW out, NEW n \in Nat,
           Linked(a, s, w, in, out, n), s.state = "open",
           NEW state \in {"ended", "destroyed"}, NEW q,
           \/ q = out \/ q = <<>>
           \/ in # <<>> /\ q = Append(out, Response("error", Head(in).id))
    PROVE  Keeps(a, n, s, w, in, out, Closed(state), w, <<>>, q)
  <1> DEFINE e == Response("error", Head(in).id)
             wt == w.waiting
             lo == Len(out)
  <1>1. /\ in \in Seq(Asked) /\ out \in Seq(RespType)
        /\ w \in ClientType /\ wt \in Seq(Awaited)
    BY DEF Linked, ClientType
  <1>2. Closed(state) \in SessionType /\ Closed(state).state = state
    BY DEF Closed, SessionType, Db
  <1>3. ASSUME in # <<>>
        PROVE  e \in RespType /\ e.to = in[1].id /\ e.type = "error" /\ 1 \in 1 .. Len(in)
    <2>1. Head(in) = in[1] /\ Head(in) \in Asked /\ Len(in) \in Nat \ {0}
      BY <1>1, <1>3, TailFacts
    <2> QED
      BY <2>1 DEF Response, RespType, Asked, Awaited, ReqType
  <1> HIDE DEF e, wt
  <1>4. q \in Seq(RespType)
    <2>1. in # <<>> => Append(out, e) \in Seq(RespType)
      BY <1>1, <1>3, AppendFacts
    <2>2. <<>> \in Seq(RespType)
      OBVIOUS
    <2> HIDE DEF RespType
    <2> QED
      BY <2>1, <2>2, <1>1 DEF e
  <1>5. lo \in Nat
    BY <1>1, SeqFacts
  <1>6. w.life = "up" => /\ Len(wt) = Len(in) + lo
                         /\ \A j \in 1 .. Len(in) : wt[lo + j] = in[j]
    BY DEF Linked, Balanced, wt
  <1>7. ASSUME Ordered(w, out)
        PROVE  Ordered(w, q)
    <2>1. CASE q = out
      BY <2>1, <1>7
    <2>2. CASE q = <<>>
      <3>1. Len(q) = 0
        BY <2>2
      <3>2. Len(w.waiting) \in Nat
        BY <1>1, SeqFacts DEF wt
      <3> QED
        BY <3>1, <3>2, <1>7 DEF Ordered
    <2>3. CASE in # <<>> /\ q = Append(out, e)
      <3> SUFFICES ASSUME w.life = "up"
                   PROVE  /\ QueriesLast(wt) /\ Len(q) <= Len(wt)
                          /\ \A i \in 1 .. Len(q) :
                                /\ q[i].to = wt[i].id
                                /\ q[i].type = "use_success" => wt[i].type = "use"
        BY DEF Ordered, wt
      <3>1. /\ Len(q) = lo + 1 /\ q[lo + 1] = e
            /\ \A k \in 1 .. lo : q[k] = out[k]
        BY <2>3, <1>1, <1>3, AppendFacts
      <3>2. wt[lo + 1] = in[1] /\ lo + 1 <= Len(wt)
        BY <2>3, <1>3, <1>5, <1>6
      <3>3. /\ QueriesLast(wt)
            /\ \A i \in 1 .. lo : /\ out[i].to = wt[i].id
                                  /\ out[i].type = "use_success" => wt[i].type = "use"
        BY <1>7 DEF Ordered, wt
      <3>4. ASSUME NEW i \in 1 .. Len(q)
            PROVE  /\ q[i].to = wt[i].id
                   /\ q[i].type = "use_success" => wt[i].type = "use"
        <4>1. CASE i \in 1 .. lo
          BY <4>1, <3>1, <3>3
        <4>2. CASE i = lo + 1
          BY <4>2, <2>3, <3>1, <3>2, <1>3
        <4> QED
          BY <4>1, <4>2, <3>1, <1>5
      <3> QED
        BY <3>1, <3>2, <3>3, <3>4
    <2> QED
      BY <2>1, <2>2, <2>3 DEF e
  <1>8. Connected(w, q)
    BY <1>7 DEF Linked, Connected
  <1>9. Balanced(Closed(state), w, <<>>, q) /\ Authentic(a, Closed(state), q)
    BY <1>2 DEF Balanced, Authentic
  <1>10. w.life # "new"
    BY DEF Linked
  <1>11. <<>> \in Seq(Asked) /\ Len(<<>>) = 0
    OBVIOUS
  <1>12. Linked(a, Closed(state), w, <<>>, q, n)
    BY <1>1, <1>2, <1>4, <1>8, <1>9, <1>10, <1>11 DEF Linked
  <1>13. Views(Closed(state), w, <<>>, q)
    BY <1>2, <1>11 DEF Views
  <1> QED
    BY <1>7, <1>12, <1>13 DEF Keeps

\* The client's end is closed.
LEMMA LeaveKeeps ==
    ASSUME NEW a, NEW s, NEW w, NEW in, NEW out, NEW n \in Nat,
           Linked(a, s, w, in, out, n), w.life = "up",
           NEW life \in {"ended", "gone"}
    PROVE  Keeps(a, n, s, w, in, out, s, Over(life), in, <<>>)
  <1> DEFINE o == Over(life)
  <1>1. /\ o \in ClientType /\ o.life = life /\ o.connect = "idle" /\ o.waiting = <<>>
    BY DEF Over, ClientType, Db
  <1>2. o = Over(o.life)
    BY <1>1
  <1> HIDE DEF o
  <1>3. Ordered(o, <<>>)
    BY <1>1 DEF Ordered
  <1>4. Len(o.waiting) = 0 /\ Len(<<>>) = 0 /\ <<>> \in Seq(RespType)
    BY <1>1
  <1>5. Rising(o, n) /\ Connected(o, <<>>)
    BY <1>1, <1>2, <1>3, <1>4 DEF Rising, Connected
  <1>6. Balanced(s, o, in, <<>>)
    BY <1>1 DEF Balanced
  <1>7. Authentic(a, s, <<>>)
    BY <1>4 DEF Linked, Authentic
  <1>8. Linked(a, s, o, in, <<>>, n)
    BY <1>1, <1>4, <1>5, <1>6, <1>7 DEF Linked
  <1>9. Views(s, w, in, out) => Views(s, o, in, <<>>)
    BY <1>1 DEF Views
  <1>10. Keeps(a, n, s, w, in, out, s, o, in, <<>>)
    BY <1>3, <1>8, <1>9 DEF Keeps
  <1> QED
    BY <1>10 DEF o

\* The client sends a request.
LEMMA SendKeeps ==
    ASSUME NEW a, NEW s, NEW w, NEW in, NEW out, NEW n \in Nat,
           Linked(a, s, w, in, out, n), w.life = "up",
           NEW req \in Asked, req.id <= n,
           w.connect # "resolved" => w.waiting = <<>>,
           w.connect = "resolved" =>
               req.id > 0 /\ \A i \in 1 .. Len(w.waiting) : w.waiting[i].id < req.id
    PROVE  LET w1 == [w EXCEPT !.waiting = Append(@, req)]
               in1 == IF s.state = "open" THEN Append(in, req) ELSE in
           IN /\ Linked(a, s, w1, in1, out, n)
              /\ Ordered(w, out) /\ (\/ req.type = "query"
                                     \/ \A i \in 1 .. Len(w.waiting) : w.waiting[i].type # "query")
                 => Ordered(w1, out)
              /\ Ordered(w, out) /\ Views(s, w, in, out) /\ req.type \notin {"enter", "burn"}
                 => Views(s, w1, in1, out)
  <1> DEFINE w1 == [w EXCEPT !.waiting = Append(@, req)]
             in1 == IF s.state = "open" THEN Append(in, req) ELSE in
             wt == w.waiting
             wt1 == Append(wt, req)
             l == Len(wt)
             lo == Len(out)
  <1>1. /\ in \in Seq(Asked) /\ out \in Seq(RespType) /\ s \in SessionType
        /\ w \in ClientType /\ wt \in Seq(Awaited) /\ req \in Awaited
    BY DEF Linked, ClientType, Asked
  <1>2. l \in Nat /\ lo \in Nat /\ Len(in) \in Nat
    BY <1>1, SeqFacts
  <1>3. /\ wt1 \in Seq(Awaited) /\ Len(wt1) = l + 1 /\ wt1[l + 1] = req
        /\ \A k \in 1 .. l : wt1[k] = wt[k]
    BY <1>1, AppendFacts
  <1>4. s.state = "open" =>
           /\ in1 \in Seq(Asked) /\ Len(in1) = Len(in) + 1 /\ in1[Len(in) + 1] = req
           /\ \A k \in 1 .. Len(in) : in1[k] = in[k]
    BY <1>1, AppendFacts
  <1>5. s.state # "open" => in1 = in
    OBVIOUS
  <1> HIDE DEF in1, wt1
  <1>6. /\ w1 \in ClientType /\ w1.life = "up" /\ w1.connect = w.connect
        /\ w1.db = w.db /\ w1.waiting = wt1
    BY <1>1, <1>3 DEF ClientType, wt1
  <1> HIDE DEF w1, wt, l, lo
  <1>7. /\ \A i, j \in 1 .. l : i < j => wt[i].id < wt[j].id
        /\ \A i \in 1 .. l : wt[i].id <= n
        /\ s.state = "open" => l = Len(in) + lo /\ \A j \in 1 .. Len(in) : wt[lo + j] = in[j]
    BY DEF Linked, Rising, Balanced, wt, l, lo
  <1>8. \A i \in 1 .. l : wt[i].id < req.id
    <2>1. CASE w.connect = "resolved"
      BY <2>1 DEF wt, l
    <2>2. CASE w.connect # "resolved"
      <3>1. l = 0
        BY <2>2 DEF wt, l
      <3> QED
        BY <3>1
    <2> QED
      BY <2>1, <2>2
  <1>9. Rising(w1, n)
    <2>1. ASSUME NEW i \in 1 .. l + 1, NEW j \in 1 .. l + 1, i < j
          PROVE  wt1[i].id < wt1[j].id
      <3>1. i \in 1 .. l
        BY <2>1, <1>2
      <3>2. CASE j = l + 1
        BY <3>1, <3>2, <1>3, <1>8
      <3>3. CASE j \in 1 .. l
        BY <3>1, <3>3, <2>1, <1>3, <1>7
      <3> QED
        BY <3>2, <3>3, <1>2
    <2>2. ASSUME NEW i \in 1 .. l + 1
          PROVE  wt1[i].id <= n
      <3>1. CASE i = l + 1
        BY <3>1, <1>3
      <3>2. CASE i \in 1 .. l
        BY <3>2, <1>3, <1>7
      <3> QED
        BY <3>1, <3>2, <1>2
    <2> QED
      BY <2>1, <2>2, <1>3, <1>6 DEF Rising
  <1>10. Balanced(s, w1, in1, out)
    <2> SUFFICES ASSUME s.state = "open"
                 PROVE  /\ l + 1 = Len(in1) + lo
                        /\ \A j \in 1 .. Len(in1) : wt1[lo + j] = in1[j]
      BY <1>3, <1>6 DEF Balanced, lo
    <2>1. ASSUME NEW j \in 1 .. Len(in1)
          PROVE  wt1[lo + j] = in1[j]
      <3>1. CASE j = Len(in) + 1
        <4>1. lo + j = l + 1
          BY <3>1, <1>2, <1>7
        <4> QED
          BY <4>1, <3>1, <1>3, <1>4
      <3>2. CASE j \in 1 .. Len(in)
        <4>1. lo + j \in 1 .. l
          BY <3>2, <1>2, <1>7
        <4> QED
          BY <4>1, <3>2, <1>3, <1>4, <1>7
      <3> QED
        BY <3>1, <3>2, <1>2, <1>4
    <2> QED
      BY <2>1, <1>2, <1>4, <1>7
  <1>11. ASSUME Ordered(w, out), req.type = "query" \/ \A i \in 1 .. l : wt[i].type # "query"
         PROVE  Ordered(w1, out)
    <2>1. /\ QueriesLast(wt) /\ lo <= l
          /\ \A i \in 1 .. lo : /\ out[i].to = wt[i].id
                                /\ out[i].type = "use_success" => wt[i].type = "use"
      BY <1>11 DEF Ordered, wt, l, lo
    <2>2. ASSUME NEW i \in 1 .. l + 1, NEW j \in 1 .. l + 1, i < j, wt1[i].type = "query"
          PROVE  wt1[j].type = "query"
      <3>1. i \in 1 .. l
        BY <2>2, <1>2
      <3>2. CASE j = l + 1
        BY <3>1, <3>2, <2>2, <1>3, <1>11
      <3>3. CASE j \in 1 .. l
        BY <3>1, <3>3, <2>1, <2>2, <1>3 DEF QueriesLast, l
      <3> QED
        BY <3>2, <3>3, <1>2
    <2>3. QueriesLast(wt1)
      BY <2>2, <1>3 DEF QueriesLast
    <2>4. ASSUME NEW i \in 1 .. lo
          PROVE  wt1[i] = wt[i]
      <3>1. i \in 1 .. l
        BY <2>1, <1>2
      <3> QED
        BY <3>1, <1>3
    <2>5. lo <= l + 1
      BY <2>1, <1>2
    <2> QED
      BY <2>1, <2>3, <2>4, <2>5, <1>3, <1>6 DEF Ordered, lo
  <1>12. ASSUME Ordered(w, out), Views(s, w, in, out), req.type \notin {"enter", "burn"}
         PROVE  Views(s, w1, in1, out)
    <2>1. ASSUME NEW i \in 1 .. Len(in1)
          PROVE  in1[i].type \notin {"enter", "burn"}
      <3>1. CASE s.state = "open" /\ i = Len(in) + 1
        BY <3>1, <1>4, <1>12
      <3>2. CASE s.state = "open" /\ i # Len(in) + 1
        <4>1. i \in 1 .. Len(in)
          BY <3>2, <1>2, <1>4
        <4> QED
          BY <4>1, <3>2, <1>4, <1>12 DEF Views
      <3>3. CASE s.state # "open"
        BY <3>3, <1>5, <1>12 DEF Views
      <3> QED
        BY <3>1, <3>2, <3>3
    <2>2. ASSUME s.state = "open"
          PROVE  \E v : Leads(v, s, w1, out)
      <3>1. PICK v : Leads(v, s, w, out)
        BY <2>2, <1>12 DEF Views
      <3>2. \A i \in 1 .. lo : wt1[i] = wt[i]
        <4>1. \A i \in 1 .. lo : i \in 1 .. l
          BY <1>2, <1>12 DEF Ordered, lo, l, wt
        <4> QED
          BY <4>1, <1>3
      <3>3. Leads(v, s, w1, out)
        BY <3>1, <3>2, <1>6 DEF Leads, lo, wt
      <3> QED
        BY <3>3
    <2> QED
      BY <2>1, <2>2 DEF Views
  <1>13. Connected(w1, out)
    <2>1. ASSUME w.connect = "resolved", NEW i \in 1 .. l + 1
          PROVE  wt1[i].id > 0
      <3>1. CASE i = l + 1
        BY <3>1, <2>1, <1>3
      <3>2. CASE i \in 1 .. l
        <4>1. wt[i].id > 0
          BY <3>2, <2>1 DEF Linked, Connected, wt, l
        <4> QED
          BY <4>1, <3>2, <1>3
      <3> QED
        BY <3>1, <3>2, <1>2
    <2>2. ASSUME w.connect # "resolved"
          PROVE  l + 1 <= 1 /\ Ordered(w1, out)
      <3>1. l = 0
        BY <2>2 DEF wt, l
      <3>2. Ordered(w, out)
        BY <2>2 DEF Linked, Connected
      <3>3. Ordered(w1, out)
        BY <3>1, <3>2, <1>11
      <3> QED
        BY <3>1, <3>3
    <2> QED
      BY <2>1, <2>2, <1>3, <1>6 DEF Connected
  <1>14. Authentic(a, s, out)
    BY DEF Linked
  <1>15. Linked(a, s, w1, in1, out, n)
    BY <1>1, <1>4, <1>5, <1>6, <1>9, <1>10, <1>13, <1>14 DEF Linked
  <1> QED
    BY <1>11, <1>12, <1>15 DEF w1, in1, wt, l

\* A client connects.
LEMMA OpenKeeps ==
    ASSUME NEW a, NEW s, NEW w, NEW in, NEW out, NEW n \in Nat,
           Linked(a, s, w, in, out, n), w.life = "new",
           NEW plan \in Seq(Planned),
           NEW state \in {"open", "refused"}, NEW type \in {"welcome", "error"}
    PROVE  Keeps(a, n, s, w, in, out, [s EXCEPT !.state = state],
                 [w EXCEPT !.life = "up", !.connect = "pending", !.plan = plan,
                           !.waiting = <<Request(0, "welcome", None)>>],
                 in, <<Response(type, 0)>>)
  <1> DEFINE req == Request(0, "welcome", None)
             r == Response(type, 0)
             z == [s EXCEPT !.state = state]
             w1 == [w EXCEPT !.life = "up", !.connect = "pending", !.plan = plan,
                             !.waiting = <<req>>]
  <1>1. s \in SessionType /\ w \in ClientType /\ s.state = "none" /\ ~ s.auth
        /\ s.db = None /\ in = <<>> /\ w.db = None
    <2>1. w.life # "up"
      OBVIOUS
    <2>2. w = Over("new")
      BY <2>1 DEF Linked, Connected
    <2>3. Over("new").db = None
      BY DEF Over
    <2> QED
      BY <2>2, <2>3 DEF Linked
  <1>2. req \in Awaited /\ req.id = 0 /\ req.type = "welcome"
    BY DEF Request, Awaited, ReqType
  <1>3. r \in RespType /\ r.type = type /\ r.to = 0
    BY DEF Response, RespType
  <1> HIDE DEF req, r
  <1>4. /\ <<req>> \in Seq(Awaited) /\ Len(<<req>>) = 1 /\ <<req>>[1] = req
        /\ <<r>> \in Seq(RespType) /\ Len(<<r>>) = 1 /\ <<r>>[1] = r
    BY <1>2, <1>3
  <1> DEFINE wt == <<req>>
             q == <<r>>
  <1> HIDE DEF wt, q
  <1>5. /\ z \in SessionType /\ z.state = state /\ z.auth = s.auth /\ z.db = s.db
    BY <1>1 DEF SessionType
  <1>6. /\ w1 \in ClientType /\ w1.life = "up" /\ w1.connect = "pending"
        /\ w1.db = w.db /\ w1.waiting = wt
    BY <1>1, <1>4 DEF ClientType, wt
  <1> HIDE DEF z, w1
  <1>7. /\ wt \in Seq(Awaited) /\ Len(wt) = 1 /\ wt[1] = req
        /\ q \in Seq(RespType) /\ Len(q) = 1 /\ q[1] = r
    BY <1>4 DEF wt, q
  <1>8. \A i \in 1 .. 1 : i = 1
    OBVIOUS
  <1>9. Ordered(w1, q)
    BY <1>2, <1>3, <1>6, <1>7, <1>8 DEF Ordered, QueriesLast
  <1>10. Rising(w1, n) /\ Connected(w1, q)
    BY <1>2, <1>6, <1>7, <1>8, <1>9 DEF Rising, Connected
  <1>11. Len(<<>>) = 0 /\ <<>> \in Seq(Asked)
    OBVIOUS
  <1>12. Balanced(z, w1, in, q)
    BY <1>1, <1>6, <1>7, <1>11 DEF Balanced
  <1>13. Authentic(a, z, q)
    BY <1>1, <1>3, <1>5, <1>7, <1>8 DEF Authentic
  <1>14. Linked(a, z, w1, in, q, n)
    BY <1>1, <1>5, <1>6, <1>7, <1>10, <1>11, <1>12, <1>13 DEF Linked
  <1>15. Views(z, w1, in, q)
    <2> DEFINE v == [i \in 0 .. Len(q) |-> None]
    <2>1. Follow(None, req, r.type) = None
      BY <1>2 DEF Follow
    <2>2. 0 .. 1 = {0, 1}
      OBVIOUS
    <2>3. v \in [0 .. Len(q) -> Db] /\ v[0] = None /\ v[1] = None
      BY <1>7, <2>2 DEF Db
    <2>4. v[1] = Follow(v[1 - 1], wt[1], q[1].type)
      BY <2>1, <2>3, <1>7
    <2> HIDE DEF v
    <2>5. Leads(v, z, w1, q)
      BY <2>3, <2>4, <1>1, <1>5, <1>6, <1>7, <1>8 DEF Leads
    <2> QED
      BY <2>5, <1>1, <1>11 DEF Views
  <1>16. Keeps(a, n, s, w, in, out, z, w1, in, q)
    BY <1>9, <1>14, <1>15 DEF Keeps
  <1> QED
    BY <1>16 DEF z, w1, wt, q, req, r

\* The client handles a response.
LEMMA PopKeeps ==
    ASSUME NEW a, NEW s, NEW w, NEW in, NEW out, NEW n \in Nat,
           Linked(a, s, w, in, out, n), w.life = "up",
           out # <<>>, w.waiting # <<>>,
           NEW w1 \in ClientType, w1.life = "up", w1.waiting = Tail(w.waiting),
           w.connect = "resolved" => w1.connect = "resolved",
           Ordered(w, out) => w1.db = Follow(w.db, Head(w.waiting), Head(out).type)
    PROVE  Keeps(a, n, s, w, in, out, s, w1, in, Tail(out))
  <1> DEFINE wt == w.waiting
             wt1 == Tail(wt)
             q == Tail(out)
             l == Len(wt)
             lo == Len(out)
  <1>1. /\ in \in Seq(Asked) /\ out \in Seq(RespType) /\ s \in SessionType
        /\ w \in ClientType /\ wt \in Seq(Awaited)
    BY DEF Linked, ClientType
  <1>2. /\ l \in Nat \ {0} /\ Head(wt) = wt[1]
        /\ wt1 \in Seq(Awaited) /\ Len(wt1) = l - 1
        /\ \A k \in 1 .. l - 1 : wt1[k] = wt[k + 1]
    BY <1>1, TailFacts
  <1>3. /\ lo \in Nat \ {0} /\ Head(out) = out[1]
        /\ q \in Seq(RespType) /\ Len(q) = lo - 1
        /\ \A k \in 1 .. lo - 1 : q[k] = out[k + 1]
    BY <1>1, TailFacts
  <1>4. w1.waiting = wt1
    OBVIOUS
  <1> HIDE DEF wt, wt1, q, l, lo
  <1>5. Rising(w1, n)
    <2>1. /\ \A i, j \in 1 .. l : i < j => wt[i].id < wt[j].id
          /\ \A i \in 1 .. l : wt[i].id <= n
      BY DEF Linked, Rising, wt, l
    <2>2. \A i \in 1 .. l - 1 : wt1[i] = wt[i + 1] /\ i + 1 \in 1 .. l
      BY <1>2
    <2>3. ASSUME NEW i \in 1 .. l - 1, NEW j \in 1 .. l - 1, i < j
          PROVE  wt1[i].id < wt1[j].id
      <3>1. i + 1 < j + 1 /\ i + 1 \in 1 .. l /\ j + 1 \in 1 .. l
        BY <2>3, <1>2
      <3>2. wt[i + 1].id < wt[j + 1].id
        BY <3>1, <2>1
      <3> QED
        BY <3>2, <2>2
    <2> QED
      BY <2>1, <2>2, <2>3, <1>2, <1>4 DEF Rising
  <1>6. ASSUME Ordered(w, out)
        PROVE  Ordered(w1, q)
    <2>1. /\ QueriesLast(wt) /\ lo <= l
          /\ \A i \in 1 .. lo : /\ out[i].to = wt[i].id
                                /\ out[i].type = "use_success" => wt[i].type = "use"
      BY <1>6 DEF Ordered, wt, l, lo
    <2>2. ASSUME NEW i \in 1 .. l - 1, NEW j \in 1 .. l - 1, i < j, wt1[i].type = "query"
          PROVE  wt1[j].type = "query"
      <3>1. i + 1 < j + 1 /\ i + 1 \in 1 .. l /\ j + 1 \in 1 .. l
        BY <2>2, <1>2
      <3>2. wt1[i] = wt[i + 1] /\ wt1[j] = wt[j + 1]
        BY <1>2
      <3> QED
        BY <3>1, <3>2, <2>1, <2>2 DEF QueriesLast, l
    <2>3. QueriesLast(wt1)
      BY <2>2, <1>2 DEF QueriesLast
    <2>4. ASSUME NEW i \in 1 .. lo - 1
          PROVE  /\ q[i].to = wt1[i].id
                 /\ q[i].type = "use_success" => wt1[i].type = "use"
      <3>1. i + 1 \in 1 .. lo /\ i \in 1 .. l - 1
        BY <2>1, <1>2, <1>3
      <3>2. q[i] = out[i + 1] /\ wt1[i] = wt[i + 1]
        BY <3>1, <1>2, <1>3
      <3> QED
        BY <3>1, <3>2, <2>1
    <2>5. Len(q) = lo - 1 /\ Len(wt1) = l - 1 /\ lo - 1 <= l - 1
      BY <2>1, <1>2, <1>3
    <2> HIDE DEF Awaited, RespType
    <2>6. Len(q) <= Len(w1.waiting) /\ QueriesLast(w1.waiting)
      BY <2>3, <2>5, <1>4
    <2>7. \A i \in 1 .. Len(q) :
             /\ q[i].to = w1.waiting[i].id
             /\ q[i].type = "use_success" => w1.waiting[i].type = "use"
      BY <2>4, <2>5, <1>4
    <2> QED
      BY <2>6, <2>7 DEF Ordered
  <1>7. Connected(w1, q)
    <2>1. CASE w.connect = "resolved"
      <3>1. \A i \in 1 .. l : wt[i].id > 0
        BY <2>1 DEF Linked, Connected, wt, l
      <3>2. \A i \in 1 .. l - 1 : wt1[i] = wt[i + 1] /\ i + 1 \in 1 .. l
        BY <1>2
      <3>3. \A i \in 1 .. l - 1 : wt1[i].id > 0
        BY <3>1, <3>2
      <3> QED
        BY <3>3, <2>1, <1>2, <1>4 DEF Connected
    <2>2. CASE w.connect # "resolved"
      <3>1. l <= 1 /\ Ordered(w, out)
        BY <2>2 DEF Linked, Connected, wt, l
      <3>2. Len(wt1) = 0 /\ 1 .. 0 = {}
        BY <3>1, <1>2
      <3>3. Ordered(w1, q)
        BY <3>1, <1>6
      <3>4. Len(w1.waiting) = 0
        BY <3>2, <1>4
      <3>5. \A i \in 1 .. Len(w1.waiting) : FALSE
        BY <3>2, <3>4
      <3>6. Len(w1.waiting) <= 1
        <4>1. 0 <= 1
          OBVIOUS
        <4> QED
          BY <3>4, <4>1, Zenon
      <3> QED
        BY <3>3, <3>5, <3>6 DEF Connected
    <2> QED
      BY <2>1, <2>2
  <1>8. Balanced(s, w1, in, q)
    <2> SUFFICES ASSUME s.state = "open"
                 PROVE  /\ Len(wt1) = Len(in) + Len(q)
                        /\ \A j \in 1 .. Len(in) : wt1[Len(q) + j] = in[j]
      BY <1>4 DEF Balanced
    <2>1. l = Len(in) + lo /\ \A j \in 1 .. Len(in) : wt[lo + j] = in[j]
      BY DEF Linked, Balanced, wt, l, lo
    <2>2. Len(in) \in Nat
      BY <1>1, SeqFacts
    <2>3. ASSUME NEW j \in 1 .. Len(in)
          PROVE  wt1[Len(q) + j] = in[j]
      <3> DEFINE k == Len(q) + j
      <3>1. k \in 1 .. l - 1 /\ k + 1 = lo + j
        BY <2>1, <2>2, <1>2, <1>3
      <3> HIDE DEF k
      <3>2. wt1[k] = wt[lo + j]
        BY <3>1, <1>2
      <3> QED
        BY <3>2, <2>1 DEF k
    <2> QED
      BY <2>1, <2>2, <2>3, <1>2, <1>3
  <1>9. Authentic(a, s, q)
    <2>1. \A i \in 1 .. lo - 1 : q[i] = out[i + 1] /\ i + 1 \in 1 .. lo
      BY <1>3
    <2> QED
      BY <2>1, <1>3 DEF Linked, Authentic, lo
  <1>10. ASSUME Ordered(w, out), Views(s, w, in, out)
         PROVE  Views(s, w1, in, q)
    <2> SUFFICES ASSUME s.state = "open"
                 PROVE  \E v : Leads(v, s, w1, q)
      BY <1>10 DEF Views
    <2>1. PICK u : Leads(u, s, w, out)
      BY <1>10 DEF Views
    <2>2. /\ u \in [0 .. lo -> Db] /\ u[0] = w.db /\ u[lo] = s.db
          /\ \A i \in 1 .. lo : u[i] = Follow(u[i - 1], wt[i], out[i].type)
      BY <2>1 DEF Leads, lo, wt
    <2>3. lo <= l
      BY <1>10 DEF Ordered, lo, l, wt
    <2> DEFINE v == [i \in 0 .. lo - 1 |-> u[i + 1]]
    <2>4. \A i \in 0 .. lo - 1 : i + 1 \in 0 .. lo /\ i + 1 \in 1 .. lo
      BY <1>3
    <2>5. v \in [0 .. lo - 1 -> Db]
      BY <2>2, <2>4
    <2>6. \A i \in 0 .. lo - 1 : v[i] = u[i + 1]
      OBVIOUS
    <2> HIDE DEF v
    <2>7. v[0] = w1.db
      <3>1. 0 \in 0 .. lo - 1 /\ 0 + 1 = 1 /\ 1 \in 1 .. lo /\ 1 - 1 = 0
        BY <1>3
      <3>2. v[0] = u[1]
        BY <3>1, <2>6
      <3>3. u[1] = Follow(u[0], wt[1], out[1].type)
        BY <3>1, <2>2
      <3>4. w1.db = Follow(w.db, wt[1], out[1].type)
        BY <1>2, <1>3, <1>10 DEF wt
      <3> QED
        BY <3>2, <3>3, <3>4, <2>2
    <2>8. v[lo - 1] = s.db
      <3>1. lo - 1 \in 0 .. lo - 1 /\ lo - 1 + 1 = lo
        BY <1>3
      <3>2. v[lo - 1] = u[lo - 1 + 1]
        BY <3>1, <2>6
      <3> QED
        BY <3>1, <3>2, <2>2
    <2>9. ASSUME NEW i \in 1 .. lo - 1
          PROVE  v[i] = Follow(v[i - 1], wt1[i], q[i].type)
      <3>1. /\ i \in 0 .. lo - 1 /\ i - 1 \in 0 .. lo - 1 /\ i - 1 + 1 = i
            /\ i + 1 \in 1 .. lo /\ i + 1 - 1 = i /\ i \in 1 .. l - 1
        BY <2>3, <1>2, <1>3
      <3>2. v[i] = u[i + 1] /\ v[i - 1] = u[i - 1 + 1]
        BY <3>1, <2>6
      <3>3. wt1[i] = wt[i + 1] /\ q[i] = out[i + 1]
        BY <3>1, <1>2, <1>3
      <3>4. u[i + 1] = Follow(u[i + 1 - 1], wt[i + 1], out[i + 1].type)
        BY <3>1, <2>2
      <3> QED
        BY <3>1, <3>2, <3>3, <3>4
    <2>10. Leads(v, s, w1, q)
      BY <2>5, <2>7, <2>8, <2>9, <1>3, <1>4 DEF Leads
    <2> QED
      BY <2>10
  <1>11. Linked(a, s, w1, in, q, n)
    BY <1>1, <1>3, <1>5, <1>7, <1>8, <1>9 DEF Linked
  <1>12. Keeps(a, n, s, w, in, out, s, w1, in, q)
    BY <1>6, <1>10, <1>11 DEF Keeps
  <1> QED
    BY <1>12 DEF q

-----------------------------------------------------------------------------
(* The inductive invariant.                                                *)

Typed ==
    /\ up \in BOOLEAN /\ config \in [auth : BOOLEAN, maxConnections : Limits]
    /\ sent \in Nat
    /\ session \in [Clients -> SessionType] /\ client \in [Clients -> ClientType]
    /\ toServer \in [Clients -> Seq(Asked)] /\ toClient \in [Clients -> Seq(RespType)]

\* Every connection that is served has a place, of which there are no more
\* than the limit.
Placed ==
    /\ slots \subseteq Clients /\ IsFiniteSet(slots)
    /\ Cardinality(slots) <= config.maxConnections
    /\ \A c \in Clients : up /\ Open(c) => c \in slots

\* Every open engine has its file.
Backed ==
    /\ registry \in [files : SUBSET Databases, engines : SUBSET Databases]
    /\ registry.engines \subseteq registry.files

LinkedAt(c) ==
    Linked(config.auth, session[c], client[c], toServer[c], toClient[c], sent)

IInv == Typed /\ Placed /\ Backed /\ \A c \in Clients : LinkedAt(c)

\* A step keeps what holds of c's connection.
KeepsAt(c) ==
    Keeps(config.auth, sent', session[c], client[c], toServer[c], toClient[c],
          session'[c], client'[c], toServer'[c], toClient'[c])

\* A step changes no connection but c's.
Only(c) ==
    /\ session' = [session EXCEPT ![c] = session'[c]]
    /\ client' = [client EXCEPT ![c] = client'[c]]
    /\ toServer' = [toServer EXCEPT ![c] = toServer'[c]]
    /\ toClient' = [toClient EXCEPT ![c] = toClient'[c]]

\* What a step that is not a client's call does.
Event == IInv' /\ \A c \in Clients : KeepsAt(c)

LEMMA SameFunction ==
    ASSUME NEW S, NEW T, NEW f \in [S -> T], NEW c \in S
    PROVE  f = [f EXCEPT ![c] = f[c]]
  OBVIOUS

LEMMA OneChanged ==
    ASSUME NEW S, NEW T, NEW f \in [S -> T], NEW c \in S, NEW v
    PROVE  /\ [f EXCEPT ![c] = v][c] = v
           /\ [f EXCEPT ![c] = v] = [f EXCEPT ![c] = [f EXCEPT ![c] = v][c]]
  OBVIOUS

LEMMA UpdateFacts ==
    ASSUME NEW S, NEW T, NEW f \in [S -> T], NEW c \in S, NEW v \in T, NEW g,
           g = [f EXCEPT ![c] = v]
    PROVE  g \in [S -> T] /\ g[c] = v /\ \A d \in S : d # c => g[d] = f[d]
  OBVIOUS

LEMMA LinkedGrows ==
    ASSUME NEW a, NEW s, NEW w, NEW in, NEW out, NEW n \in Nat, NEW m \in Nat, n <= m,
           Linked(a, s, w, in, out, n)
    PROVE  Linked(a, s, w, in, out, m)
  <1>1. w.waiting \in Seq(Awaited)
    BY DEF Linked, ClientType
  <1>2. ASSUME NEW i \in 1 .. Len(w.waiting)
        PROVE  w.waiting[i].id <= m
    <2>1. w.waiting[i].id \in Nat
      BY <1>1, SeqFacts DEF Awaited, ReqType
    <2>2. w.waiting[i].id <= n
      BY DEF Linked, Rising
    <2> QED
      BY <2>1, <2>2
  <1>3. Rising(w, m)
    BY <1>2 DEF Linked, Rising
  <1> QED
    BY <1>3 DEF Linked

\* The other connections are as they were.
LEMMA OthersKeep ==
    ASSUME IInv, NEW c \in Clients, Only(c),
           Linked(config.auth, session'[c], client'[c], toServer'[c], toClient'[c], sent'),
           up' \in BOOLEAN, config' = config, sent' \in Nat, sent <= sent'
    PROVE  /\ Typed' /\ \A d \in Clients : LinkedAt(d)'
           /\ \A d \in Clients : d # c => KeepsAt(d) /\ session'[d] = session[d]
  <1>1. /\ session'[c] \in SessionType /\ client'[c] \in ClientType
        /\ toServer'[c] \in Seq(Asked) /\ toClient'[c] \in Seq(RespType)
    BY DEF Linked
  <1>2. session' \in [Clients -> SessionType]
        /\ \A d \in Clients : d # c => session'[d] = session[d]
    <2>1. session \in [Clients -> SessionType]
      BY DEF IInv, Typed
    <2>2. session' = [session EXCEPT ![c] = session'[c]]
      BY DEF Only
    <2> QED
      BY <2>1, <2>2, <1>1, UpdateFacts
  <1>3. client' \in [Clients -> ClientType]
        /\ \A d \in Clients : d # c => client'[d] = client[d]
    <2>1. client \in [Clients -> ClientType]
      BY DEF IInv, Typed
    <2>2. client' = [client EXCEPT ![c] = client'[c]]
      BY DEF Only
    <2> QED
      BY <2>1, <2>2, <1>1, UpdateFacts
  <1>4. toServer' \in [Clients -> Seq(Asked)]
        /\ \A d \in Clients : d # c => toServer'[d] = toServer[d]
    <2>1. toServer \in [Clients -> Seq(Asked)]
      BY DEF IInv, Typed
    <2>2. toServer' = [toServer EXCEPT ![c] = toServer'[c]]
      BY DEF Only
    <2> QED
      BY <2>1, <2>2, <1>1, UpdateFacts
  <1>5. toClient' \in [Clients -> Seq(RespType)]
        /\ \A d \in Clients : d # c => toClient'[d] = toClient[d]
    <2>1. toClient \in [Clients -> Seq(RespType)]
      BY DEF IInv, Typed
    <2>2. toClient' = [toClient EXCEPT ![c] = toClient'[c]]
      BY DEF Only
    <2> QED
      BY <2>1, <2>2, <1>1, UpdateFacts
  <1>6. Typed'
    BY <1>2, <1>3, <1>4, <1>5 DEF IInv, Typed
  <1>7. ASSUME NEW d \in Clients, d # c
        PROVE  Linked(config.auth, session'[d], client'[d], toServer'[d], toClient'[d], sent')
    <2>1. LinkedAt(d) /\ sent \in Nat
      BY DEF IInv, Typed
    <2>2. Linked(config.auth, session[d], client[d], toServer[d], toClient[d], sent')
      BY <2>1, LinkedGrows DEF LinkedAt
    <2> QED
      BY <2>2, <1>2, <1>3, <1>4, <1>5, <1>7
  <1>8. \A d \in Clients : LinkedAt(d)'
    BY <1>7 DEF LinkedAt
  <1>9. \A d \in Clients : d # c => KeepsAt(d)
    BY <1>2, <1>3, <1>4, <1>5, <1>7 DEF KeepsAt, Keeps
  <1> QED
    BY <1>2, <1>6, <1>8, <1>9

\* A step at one connection, by its parts.
LEMMA OneEvent ==
    ASSUME IInv, NEW c \in Clients, Only(c), KeepsAt(c), Placed', Backed',
           up' = up, config' = config, sent' = sent
    PROVE  Event
  <1>1. Linked(config.auth, session'[c], client'[c], toServer'[c], toClient'[c], sent')
    BY DEF KeepsAt, Keeps
  <1>2. up' \in BOOLEAN /\ sent' \in Nat /\ sent <= sent'
    BY DEF IInv, Typed
  <1>3. /\ Typed' /\ \A d \in Clients : LinkedAt(d)'
        /\ \A d \in Clients : d # c => KeepsAt(d)
    BY <1>1, <1>2, OthersKeep
  <1> QED
    BY <1>3 DEF Event, IInv

LEMMA InvInit == Init => IInv
  <1> SUFFICES ASSUME Init
               PROVE  IInv
    OBVIOUS
  <1>1. /\ Closed("none") \in SessionType /\ Closed("none").state = "none"
        /\ ~ Closed("none").auth /\ Closed("none").db = None
    BY DEF Closed, SessionType, Db
  <1> DEFINE o == Over("new")
  <1>2. /\ o \in ClientType /\ o.life = "new" /\ o.waiting = <<>>
        /\ o.connect = "idle" /\ o = Over(o.life)
    BY DEF Over, ClientType, Db
  <1> HIDE DEF o
  <1>3. <<>> \in Seq(Asked) /\ <<>> \in Seq(RespType) /\ Len(<<>>) = 0
    OBVIOUS
  <1>4. Typed
    BY <1>1, <1>2, <1>3 DEF Init, Typed, o
  <1>5. Placed
    <2>1. IsFiniteSet({}) /\ Cardinality({}) = 0
      BY FS_EmptySet
    <2>2. config.maxConnections \in Nat
      BY LimitAssumption DEF Init
    <2> QED
      BY <2>1, <2>2, <1>1 DEF Init, Placed, Open
  <1>6. Backed
    BY DEF Init, Backed
  <1>7. Linked(config.auth, Closed("none"), o, <<>>, <<>>, 0)
    BY <1>1, <1>2, <1>3 DEF Linked, Rising, Connected, Balanced, Authentic, Ordered
  <1>8. ASSUME NEW c \in Clients
        PROVE  LinkedAt(c)
    BY <1>7 DEF Init, LinkedAt, o
  <1> QED
    BY <1>4, <1>5, <1>6, <1>8 DEF IInv

\* What the invariant says of one connection.
LEMMA AtClient ==
    ASSUME IInv, NEW c \in Clients
    PROVE  /\ session \in [Clients -> SessionType] /\ client \in [Clients -> ClientType]
           /\ toServer \in [Clients -> Seq(Asked)] /\ toClient \in [Clients -> Seq(RespType)]
           /\ session[c] \in SessionType /\ client[c] \in ClientType
           /\ toServer[c] \in Seq(Asked) /\ toClient[c] \in Seq(RespType)
           /\ sent \in Nat /\ LinkedAt(c)
  BY DEF IInv, Typed

-----------------------------------------------------------------------------
(* The server's events.                                                    *)

LEMMA ConnectionStep ==
    ASSUME IInv, NEW c \in Clients, HandleConnection(c)
    PROVE  Event
  <1> DEFINE full == Cardinality(slots) >= config.maxConnections
             state == IF full THEN "refused" ELSE "open"
             type == IF full THEN "error" ELSE "welcome"
             s1 == [session[c] EXCEPT !.state = state]
             q == <<Response(type, 0)>>
  <1>1. Connecting(c, full)
    BY DEF HandleConnection
  <1>2. PICK auth \in {<<>>} \cup {<<Request(0, "auth", cred)>> : cred \in Credentials},
             db \in {<<>>} \cup {<<Request(0, "use", d)>> : d \in Databases} :
             client' = [client EXCEPT
                          ![c].life = "up", ![c].connect = "pending",
                          ![c].plan = auth \o db,
                          ![c].waiting = <<Request(0, "welcome", None)>>]
    BY <1>1 DEF Connecting
  <1> DEFINE plan == auth \o db
             w1 == [client[c] EXCEPT !.life = "up", !.connect = "pending", !.plan = plan,
                                     !.waiting = <<Request(0, "welcome", None)>>]
  <1>3. plan \in Seq(Planned)
    <2>1. auth \in Seq(Planned)
      <3>1. \A cred \in Credentials : Request(0, "auth", cred) \in Planned
        BY DEF Request, Planned, Asked, Awaited, ReqType
      <3> HIDE DEF Planned
      <3>2. \A cred \in Credentials : <<Request(0, "auth", cred)>> \in Seq(Planned)
        BY <3>1
      <3>3. <<>> \in Seq(Planned)
        OBVIOUS
      <3> QED
        BY <3>2, <3>3
    <2>2. db \in Seq(Planned)
      <3>1. \A d \in Databases : Request(0, "use", d) \in Planned
        BY DEF Request, Planned, Asked, Awaited, ReqType
      <3>2. \A d \in Databases : <<Request(0, "use", d)>> \in Seq(Planned)
        BY <3>1
      <3>3. <<>> \in Seq(Planned)
        OBVIOUS
      <3> QED
        BY <3>2, <3>3
    <2> QED
      BY <2>1, <2>2, ConcatFacts
  <1> HIDE DEF plan
  <1>4. /\ up /\ client[c].life = "new" /\ config' = config /\ sent' = sent /\ up' = up
        /\ registry' = registry /\ toServer' = toServer
    BY <1>1 DEF Connecting
  <1>5. client' = [client EXCEPT ![c] = w1]
    BY <1>2 DEF plan
  <1>6. session' = [session EXCEPT ![c] = s1]
    BY <1>1 DEF Connecting
  <1>7. toClient' = [toClient EXCEPT ![c] = q]
    BY <1>1 DEF Connecting
  <1> HIDE DEF s1, q, w1
  <1>8. Only(c) /\ session'[c] = s1 /\ client'[c] = w1 /\ toServer'[c] = toServer[c]
        /\ toClient'[c] = q /\ \A d \in Clients : d # c => session'[d] = session[d]
    BY <1>4, <1>5, <1>6, <1>7, AtClient, SameFunction, OneChanged DEF Only
  <1>9. state \in {"open", "refused"} /\ type \in {"welcome", "error"}
    OBVIOUS
  <1> HIDE DEF state, type, full
  <1>10. Keeps(config.auth, sent, session[c], client[c], toServer[c], toClient[c],
               s1, w1, toServer[c], q)
    BY <1>3, <1>4, <1>9, AtClient, OpenKeeps DEF LinkedAt, s1, w1, q
  <1>11. KeepsAt(c)
    BY <1>4, <1>8, <1>10 DEF KeepsAt
  <1>12. s1.state = state
    BY AtClient DEF s1, SessionType
  <1>13. Placed'
    <2>1. /\ slots \subseteq Clients /\ IsFiniteSet(slots)
          /\ Cardinality(slots) <= config.maxConnections
          /\ \A d \in Clients : up /\ Open(d) => d \in slots
      BY DEF IInv, Placed
    <2>2. CASE full
      <3>1. slots' = slots
        BY <2>2, <1>1 DEF Connecting
      <3>2. \A d \in Clients : session'[d].state = "open" => Open(d)
        BY <2>2, <1>8, <1>12 DEF state, Open
      <3> QED
        BY <3>1, <3>2, <2>1, <1>4 DEF Placed, Open
    <2>3. CASE ~ full
      <3>1. slots' = slots \cup {c}
        BY <2>3, <1>1 DEF Connecting
      <3>2. /\ IsFiniteSet(slots')
            /\ Cardinality(slots') = Cardinality(slots)
               \/ Cardinality(slots') = Cardinality(slots) + 1
        BY <3>1, <2>1, FS_AddElement
      <3>3. Cardinality(slots) \in Nat /\ config.maxConnections \in Nat
        BY <2>1, FS_CardinalityType, LimitAssumption DEF IInv, Typed
      <3>4. Cardinality(slots') <= config.maxConnections
        BY <2>1, <2>3, <3>2, <3>3 DEF full
      <3>5. \A d \in Clients : session'[d].state = "open" => d \in slots'
        BY <2>1, <3>1, <1>4, <1>8 DEF Open
      <3> QED
        BY <3>1, <3>2, <3>4, <3>5, <2>1, <1>4 DEF Placed, Open
    <2> QED
      BY <2>2, <2>3
  <1>14. Backed'
    BY <1>4 DEF IInv, Backed
  <1> QED
    BY <1>4, <1>8, <1>11, <1>13, <1>14, OneEvent

LEMMA DataStep ==
    ASSUME IInv, NEW c \in Clients, NEW n, Data(c, n)
    PROVE  Event
  <1> DEFINE start == [files |-> registry.files, engines |-> registry.engines,
                       auth |-> session[c].auth, db |-> session[c].db,
                       now |-> <<>>, later |-> <<>>]
             in == toServer[c]
             seq == SubSeq(in, 1, n)
             t == FoldLeft(Handle, start, seq)
             s1 == [session[c] EXCEPT !.auth = t.auth, !.db = t.db]
             in1 == SubSeq(in, n + 1, Len(in))
             q == IF client[c].life = "up" THEN toClient[c] \o Responses(t) ELSE toClient[c]
  <1>1. /\ up /\ session[c].state = "open" /\ n \in 1 .. Len(in)
        /\ registry' = [files |-> t.files, engines |-> t.engines]
        /\ session' = [session EXCEPT ![c].auth = t.auth, ![c].db = t.db]
        /\ toClient' = [toClient EXCEPT ![c] =
                          IF client[c].life = "up" THEN @ \o Responses(t) ELSE @]
        /\ toServer' = [toServer EXCEPT ![c] = SubSeq(@, n + 1, Len(@))]
        /\ UNCHANGED <<up, config, slots, client, sent>>
    BY DEF Data
  <1> HIDE DEF t
  <1>2. start \in HandlerType /\ start.now = <<>> /\ start.later = <<>>
        /\ start.auth = session[c].auth /\ start.db = session[c].db
        /\ start.engines \subseteq start.files
    <2>1. session[c].auth \in BOOLEAN /\ session[c].db \in Db
      BY AtClient DEF SessionType
    <2>2. registry.files \in SUBSET Databases /\ registry.engines \in SUBSET Databases
          /\ registry.engines \subseteq registry.files
      BY DEF IInv, Backed
    <2>3. <<>> \in Seq(RespType)
      OBVIOUS
    <2> HIDE DEF RespType
    <2> QED
      BY <2>1, <2>2, <2>3 DEF HandlerType
  <1>3. seq \in Seq(Asked)
    <2>1. in \in Seq(Asked) /\ n \in 0 .. Len(in)
      BY <1>1, AtClient, SeqFacts
    <2> QED
      BY <2>1, CutFacts
  <1> HIDE DEF start, seq
  <1>4. ChunkDone(start, seq, t)
    BY <1>2, <1>3, ChunkFacts DEF t
  <1>5. session' = [session EXCEPT ![c] = s1]
    BY <1>1
  <1>6. toServer' = [toServer EXCEPT ![c] = in1]
    BY <1>1
  <1>7. toClient' = [toClient EXCEPT ![c] = q]
    BY <1>1
  <1> HIDE DEF s1, in1, q
  <1>8. client' = client
    BY <1>1
  <1>9. Only(c) /\ session'[c] = s1 /\ client'[c] = client[c] /\ toServer'[c] = in1
        /\ toClient'[c] = q /\ \A d \in Clients : d # c => session'[d] = session[d]
    BY <1>5, <1>6, <1>7, <1>8, AtClient, SameFunction, OneChanged DEF Only
  <1>10. Keeps(config.auth, sent, session[c], client[c], in, toClient[c],
               s1, client[c], in1, q)
    <2>1. Linked(config.auth, session[c], client[c], in, toClient[c], sent) /\ sent \in Nat
      BY AtClient DEF LinkedAt
    <2>2. ChunkDone(start, SubSeq(in, 1, n), t)
      BY <1>4 DEF seq
    <2> QED
      BY <2>1, <2>2, <1>1, <1>2, ChunkKeeps DEF s1, in1, q
  <1>11. KeepsAt(c)
    BY <1>1, <1>9, <1>10 DEF KeepsAt
  <1>12. Placed'
    <2>1. s1.state = "open"
      BY <1>1, AtClient DEF s1, SessionType
    <2>2. \A d \in Clients : session'[d].state = "open" => Open(d)
      BY <2>1, <1>1, <1>9 DEF Open
    <2> QED
      BY <2>2, <1>1 DEF IInv, Placed, Open
  <1>13. Backed'
    BY <1>1, <1>2, <1>4 DEF Backed, ChunkDone, HandlerType
  <1> QED
    BY <1>1, <1>9, <1>11, <1>12, <1>13, OneEvent

\* The end of the server's side of a connection.
LEMMA CloseStep ==
    ASSUME IInv, NEW c \in Clients, Open(c),
           NEW state \in {"ended", "destroyed"}, NEW q,
           \/ q = toClient[c] \/ q = <<>>
           \/ /\ toServer[c] # <<>>
              /\ q = Append(toClient[c], Response("error", Head(toServer[c]).id)),
           session' = [session EXCEPT ![c] = Closed(state)],
           toServer' = [toServer EXCEPT ![c] = <<>>],
           toClient' = [toClient EXCEPT ![c] = q],
           slots' = slots \/ slots' = slots \ {c},
           UNCHANGED <<up, config, registry, client, sent>>
    PROVE  Event
  <1>1. Only(c) /\ session'[c] = Closed(state) /\ client'[c] = client[c]
        /\ toServer'[c] = <<>> /\ toClient'[c] = q
        /\ \A d \in Clients : d # c => session'[d] = session[d]
    BY AtClient, SameFunction, OneChanged DEF Only
  <1>2. Keeps(config.auth, sent, session[c], client[c], toServer[c], toClient[c],
              Closed(state), client[c], <<>>, q)
    <2>1. /\ Linked(config.auth, session[c], client[c], toServer[c], toClient[c], sent)
          /\ sent \in Nat /\ session[c].state = "open"
      BY AtClient DEF LinkedAt, Open
    <2> QED
      BY <2>1, CloseKeeps
  <1>3. KeepsAt(c)
    BY <1>1, <1>2 DEF KeepsAt
  <1>4. Placed'
    <2>1. /\ slots \subseteq Clients /\ IsFiniteSet(slots)
          /\ Cardinality(slots) <= config.maxConnections
          /\ \A d \in Clients : up /\ Open(d) => d \in slots
      BY DEF IInv, Placed
    <2>2. IsFiniteSet(slots') /\ Cardinality(slots') <= config.maxConnections
      <3>1. CASE slots' = slots
        BY <3>1, <2>1
      <3>2. CASE slots' = slots \ {c}
        <4>1. IsFiniteSet(slots') /\ Cardinality(slots') <= Cardinality(slots)
          BY <3>2, <2>1, FS_Subset
        <4>2. Cardinality(slots) \in Nat /\ Cardinality(slots') \in Nat
              /\ config.maxConnections \in Nat
          BY <4>1, <2>1, FS_CardinalityType, LimitAssumption DEF IInv, Typed
        <4> QED
          BY <4>1, <4>2, <2>1
      <3> QED
        BY <3>1, <3>2
    <2>3. Closed(state).state # "open"
      BY DEF Closed
    <2>4. \A d \in Clients : session'[d].state = "open" => Open(d) /\ d # c
      BY <2>3, <1>1 DEF Open
    <2> QED
      BY <2>1, <2>2, <2>4 DEF Placed, Open
  <1>5. Backed'
    BY DEF IInv, Backed
  <1> QED
    BY <1>1, <1>3, <1>4, <1>5, OneEvent

LEMMA CloseStepOf ==
    ASSUME IInv, NEW c \in Clients,
           Overflow(c) \/ Timeout(c) \/ End(c) \/ Error(c)
    PROVE  Event
  <1>1. CASE Overflow(c)
    <2> DEFINE e == Append(toClient[c], Response("error", Head(toServer[c]).id))
    <2>1. /\ Open(c) /\ toServer[c] # <<>> /\ Destroyed(c, e)
          /\ UNCHANGED <<up, config, slots, registry, client, sent>>
      BY <1>1 DEF Overflow, Open
    <2>2. PICK q \in {<<>>, e} : toClient' = [toClient EXCEPT ![c] = q]
      BY <2>1 DEF Destroyed
    <2>3. session' = [session EXCEPT ![c] = Closed("destroyed")]
          /\ toServer' = [toServer EXCEPT ![c] = <<>>]
      BY <2>1 DEF Destroyed
    <2> QED
      BY <2>1, <2>2, <2>3, CloseStep
  <1>2. CASE Timeout(c)
    <2>1. /\ Open(c) /\ Destroyed(c, toClient[c])
          /\ UNCHANGED <<up, config, slots, registry, client, sent>>
      BY <1>2 DEF Timeout, Open
    <2>2. PICK q \in {<<>>, toClient[c]} : toClient' = [toClient EXCEPT ![c] = q]
      BY <2>1 DEF Destroyed
    <2>3. session' = [session EXCEPT ![c] = Closed("destroyed")]
          /\ toServer' = [toServer EXCEPT ![c] = <<>>]
      BY <2>1 DEF Destroyed
    <2> QED
      BY <2>1, <2>2, <2>3, CloseStep
  <1>3. CASE End(c)
    <2>1. /\ Open(c) /\ toServer[c] = <<>>
          /\ session' = [session EXCEPT ![c] = Closed("ended")] /\ slots' = slots \ {c}
          /\ UNCHANGED <<up, config, registry, client, toServer, toClient, sent>>
      BY <1>3 DEF End, Open
    <2>2. toServer' = [toServer EXCEPT ![c] = <<>>]
      BY <2>1, AtClient
    <2>3. toClient' = [toClient EXCEPT ![c] = toClient[c]]
      BY <2>1, AtClient
    <2> QED
      BY <2>1, <2>2, <2>3, CloseStep
  <1>4. CASE Error(c)
    <2>1. /\ Open(c)
          /\ session' = [session EXCEPT ![c] = Closed("destroyed")] /\ slots' = slots \ {c}
          /\ toServer' = [toServer EXCEPT ![c] = <<>>]
          /\ toClient' = [toClient EXCEPT ![c] = <<>>]
          /\ UNCHANGED <<up, config, registry, client, sent>>
      BY <1>4 DEF Error, Open
    <2> QED
      BY <2>1, CloseStep
  <1> QED
    BY <1>1, <1>2, <1>3, <1>4

\* Nothing changes at a connection that is closed already.
LEMMA StayKeeps ==
    ASSUME NEW a, NEW s, NEW w, NEW in, NEW out, NEW n,
           Linked(a, s, w, in, out, n), s.state # "open"
    PROVE  Keeps(a, n, s, w, in, out, s, w, <<>>, out)
  <1>1. in = <<>>
    BY DEF Linked
  <1> QED
    BY <1>1 DEF Keeps

LEMMA StopStep ==
    ASSUME IInv, Stop
    PROVE  Event
  <1>1. /\ up' = FALSE
        /\ session' = [c \in Clients |-> IF session[c].state = "open"
                                         THEN Closed("destroyed") ELSE session[c]]
        /\ registry' = [registry EXCEPT !.engines = {}]
        /\ toServer' = [c \in Clients |-> <<>>]
        /\ UNCHANGED <<config, slots, client, toClient, sent>>
    BY DEF Stop
  <1>2. ASSUME NEW c \in Clients
        PROVE  KeepsAt(c)
    <2>1. Linked(config.auth, session[c], client[c], toServer[c], toClient[c], sent)
          /\ sent \in Nat
      BY AtClient DEF LinkedAt
    <2>2. toServer'[c] = <<>> /\ client'[c] = client[c] /\ toClient'[c] = toClient[c]
          /\ sent' = sent /\ config' = config
      BY <1>1
    <2>3. CASE session[c].state = "open"
      <3>1. session'[c] = Closed("destroyed")
        BY <2>3, <1>1
      <3>2. Keeps(config.auth, sent, session[c], client[c], toServer[c], toClient[c],
                  Closed("destroyed"), client[c], <<>>, toClient[c])
        BY <2>1, <2>3, CloseKeeps
      <3> QED
        BY <2>2, <3>1, <3>2 DEF KeepsAt
    <2>4. CASE session[c].state # "open"
      <3>1. session'[c] = session[c]
        BY <2>4, <1>1
      <3>2. Keeps(config.auth, sent, session[c], client[c], toServer[c], toClient[c],
                  session[c], client[c], <<>>, toClient[c])
        BY <2>1, <2>4, StayKeeps
      <3> QED
        BY <2>2, <3>1, <3>2 DEF KeepsAt
    <2> QED
      BY <2>3, <2>4
  <1>3. \A c \in Clients :
           Linked(config.auth, session'[c], client'[c], toServer'[c], toClient'[c], sent)
    BY <1>1, <1>2 DEF KeepsAt, Keeps
  <1>4. Typed'
    <2>1. \A c \in Clients : session'[c] \in SessionType
      BY <1>3 DEF Linked
    <2>2. session' \in [Clients -> SessionType]
      BY <2>1, <1>1
    <2>3. toServer' \in [Clients -> Seq(Asked)]
      <3>1. <<>> \in Seq(Asked)
        OBVIOUS
      <3> QED
        BY <3>1, <1>1
    <2> QED
      BY <2>2, <2>3, <1>1 DEF IInv, Typed
  <1>5. Placed'
    BY <1>1 DEF IInv, Placed
  <1>6. Backed'
    BY <1>1 DEF IInv, Backed
  <1>7. \A c \in Clients : LinkedAt(c)'
    BY <1>1, <1>3 DEF LinkedAt
  <1> QED
    BY <1>2, <1>4, <1>5, <1>6, <1>7 DEF Event, IInv

-----------------------------------------------------------------------------
(* The client's events.                                                    *)

\* The server's sessions and what else the server has are as they were.
LEMMA ClientEvent ==
    ASSUME IInv, NEW c \in Clients,
           UNCHANGED <<up, config, slots, registry, session, sent>>, Only(c),
           Keeps(config.auth, sent, session[c], client[c], toServer[c], toClient[c],
                 session[c], client'[c], toServer'[c], toClient'[c])
    PROVE  Event
  <1>1. KeepsAt(c)
    BY DEF KeepsAt
  <1>2. Placed' /\ Backed'
    BY DEF IInv, Placed, Backed, Open
  <1> QED
    BY <1>1, <1>2, OneEvent

LEMMA LeaveStep ==
    ASSUME IInv, NEW c \in Clients, Disconnected(c) \/ Disconnect(c)
    PROVE  Event
  <1>1. PICK life \in {"ended", "gone"} :
             /\ client[c].life = "up" /\ client' = [client EXCEPT ![c] = Over(life)]
             /\ toClient' = [toClient EXCEPT ![c] = <<>>]
             /\ UNCHANGED <<up, config, slots, registry, session, toServer, sent>>
    <2>1. CASE Disconnected(c)
      <3>1. toClient' = [toClient EXCEPT ![c] = <<>>]
        BY <2>1, AtClient DEF Disconnected
      <3> QED
        BY <3>1, <2>1 DEF Disconnected
    <2>2. CASE Disconnect(c)
      BY <2>2 DEF Disconnect
    <2> QED
      BY <2>1, <2>2
  <1>2. Only(c) /\ client'[c] = Over(life) /\ toServer'[c] = toServer[c]
        /\ toClient'[c] = <<>>
    BY <1>1, AtClient, SameFunction, OneChanged DEF Only
  <1>3. Keeps(config.auth, sent, session[c], client[c], toServer[c], toClient[c],
              session[c], Over(life), toServer[c], <<>>)
    BY <1>1, AtClient, LeaveKeeps DEF LinkedAt
  <1> QED
    BY <1>1, <1>2, <1>3, ClientEvent

\* The response to a request that waited is taken, and nothing is sent.
LEMMA TakeStep ==
    ASSUME IInv, NEW c \in Clients,
           client[c].life = "up", toClient[c] # <<>>, client[c].waiting # <<>>,
           NEW w1 \in ClientType, w1.life = "up", w1.waiting = Tail(client[c].waiting),
           client[c].connect = "resolved" => w1.connect = "resolved",
           w1.db = Follow(client[c].db, Head(client[c].waiting), Head(toClient[c]).type),
           client' = [client EXCEPT ![c] = w1],
           toClient' = [toClient EXCEPT ![c] = Tail(@)],
           UNCHANGED <<up, config, slots, registry, session, toServer, sent>>
    PROVE  Event
  <1>1. toClient' = [toClient EXCEPT ![c] = Tail(toClient[c])]
    BY AtClient
  <1>2. Only(c) /\ client'[c] = w1 /\ toServer'[c] = toServer[c]
        /\ toClient'[c] = Tail(toClient[c])
    BY <1>1, AtClient, SameFunction, OneChanged DEF Only
  <1>3. Linked(config.auth, session[c], client[c], toServer[c], toClient[c], sent)
        /\ sent \in Nat
    BY AtClient DEF LinkedAt
  <1>4. Keeps(config.auth, sent, session[c], client[c], toServer[c], toClient[c],
              session[c], w1, toServer[c], Tail(toClient[c]))
    BY <1>3, PopKeeps
  <1> QED
    BY <1>2, <1>4, ClientEvent

LEMMA ResponseStep ==
    ASSUME IInv, NEW c \in Clients, HandleResponse(c)
    PROVE  Event
  <1> DEFINE x == client[c]
             r == Head(toClient[c])
             req == Head(x.waiting)
             w == [x EXCEPT !.waiting = Tail(@)]
  <1>1. /\ x.life = "up" /\ toClient[c] # <<>> /\ x.waiting # <<>>
        /\ toClient' = [toClient EXCEPT ![c] = Tail(@)]
        /\ UNCHANGED <<up, config, slots, registry, session, sent>>
    BY DEF HandleResponse
  <1>2. IF req.id = 0 THEN ConnectHandler(c, w, req, r)
        ELSE /\ client' = [client EXCEPT ![c] = [w EXCEPT !.db = Follows(w, req, r.type)]]
             /\ UNCHANGED toServer
    BY DEF HandleResponse
  <1>3. /\ x \in ClientType /\ x.waiting \in Seq(Awaited) /\ x.plan \in Seq(Planned)
        /\ toClient[c] \in Seq(RespType)
        /\ Linked(config.auth, session[c], x, toServer[c], toClient[c], sent) /\ sent \in Nat
    BY AtClient DEF ClientType, LinkedAt
  <1>4. /\ req = x.waiting[1] /\ req \in Awaited /\ Tail(x.waiting) \in Seq(Awaited)
        /\ Len(x.waiting) \in Nat \ {0} /\ Len(Tail(x.waiting)) = Len(x.waiting) - 1
    BY <1>1, <1>3, TailFacts
  <1>5. r = toClient[c][1] /\ r \in RespType /\ Len(toClient[c]) \in Nat \ {0}
    BY <1>1, <1>3, TailFacts
  <1> HIDE DEF r, req
  <1>6. /\ w \in ClientType /\ w.life = "up" /\ w.connect = x.connect /\ w.plan = x.plan
        /\ w.db = x.db /\ w.waiting = Tail(x.waiting)
    BY <1>1, <1>3, <1>4 DEF ClientType
  <1> HIDE DEF w, x
  <1>7. CASE req.id # 0
    <2> DEFINE w1 == [w EXCEPT !.db = Follows(w, req, r.type)]
    <2>1. Follows(w, req, r.type) = Follow(x.db, req, r.type)
      BY <1>6 DEF Follows, Follow
    <2>2. x.db \in Db
      BY <1>3 DEF ClientType
    <2>3. Follow(x.db, req, r.type) \in Db
      BY <2>2, <1>4 DEF Follow, Db, Awaited
    <2>4. client' = [client EXCEPT ![c] = w1] /\ UNCHANGED toServer
      BY <1>2, <1>7
    <2>5. /\ w1 \in ClientType /\ w1.life = "up" /\ w1.connect = x.connect
          /\ w1.db = Follow(x.db, req, r.type) /\ w1.waiting = Tail(x.waiting)
      BY <2>1, <2>3, <1>6 DEF ClientType
    <2> HIDE DEF w1
    <2> QED
      BY <2>4, <2>5, <1>1, TakeStep DEF x, req, r
  <1>8. CASE req.id = 0
    <2>1. x.connect # "resolved"
      <3>1. x.connect = "resolved" => \A i \in 1 .. Len(x.waiting) : x.waiting[i].id > 0
        BY <1>3 DEF Linked, Connected
      <3>2. 1 \in 1 .. Len(x.waiting)
        BY <1>4
      <3> QED
        BY <3>1, <3>2, <1>4, <1>8
    <2>2. Len(x.waiting) <= 1 /\ Ordered(x, toClient[c])
      BY <2>1, <1>3 DEF Linked, Connected
    <2>3. r.type = "use_success" => req.type = "use" /\ req.arg \in Databases
      <3>1. 1 \in 1 .. Len(toClient[c])
        BY <1>5
      <3> QED
        BY <3>1, <2>2, <1>1, <1>4, <1>5 DEF Ordered, Awaited
    <2>4. ConnectHandler(c, w, req, r)
      BY <1>2, <1>8
    <2>5. ASSUME NEW d \in Db, NEW result \in {"pending", "resolved", "rejected"},
                 Connects(c, [w EXCEPT !.db = d], result), d = Follow(x.db, req, r.type)
          PROVE  Event
      <3> DEFINE w1 == [w EXCEPT !.db = d, !.connect = result]
      <3>1. client' = [client EXCEPT ![c] = w1] /\ UNCHANGED toServer
        BY <2>5 DEF Connects
      <3>2. /\ w1 \in ClientType /\ w1.life = "up"
            /\ w1.db = Follow(x.db, req, r.type) /\ w1.waiting = Tail(x.waiting)
        BY <2>5, <1>6 DEF ClientType
      <3> HIDE DEF w1
      <3> QED
        BY <3>1, <3>2, <2>1, <1>1, TakeStep DEF x, req, r
    <2>6. x.db \in Db /\ w = [w EXCEPT !.db = x.db]
      BY <1>3, <1>6 DEF ClientType
    <2>7. CASE r.type \in {"welcome", "auth_success"} /\ InitConnection(c, w)
      <3>1. Follow(x.db, req, r.type) = x.db
        BY <2>7 DEF Follow
      <3>2. CASE w.plan = <<>>
        <4>1. Connects(c, w, "resolved")
          BY <2>7, <3>2 DEF InitConnection
        <4>2. Connects(c, [w EXCEPT !.db = x.db], "resolved")
          BY <4>1, <2>6
        <4> QED
          BY <4>2, <3>1, <2>5, <2>6
      <3>3. CASE w.plan # <<>>
        <4> DEFINE w1 == [w EXCEPT !.plan = Tail(@)]
                   next == Head(w.plan)
                   w2 == [w1 EXCEPT !.waiting = Append(@, next)]
                   in2 == IF session[c].state = "open" THEN Append(toServer[c], next)
                          ELSE toServer[c]
        <4>1. SendRequest(c, w1, next)
          BY <2>7, <3>3 DEF InitConnection
        <4>2. client' = [client EXCEPT ![c] = w2]
          BY <4>1 DEF SendRequest
        <4>3. toServer' = [toServer EXCEPT ![c] = in2]
          BY <4>1, AtClient DEF SendRequest
        <4>4. next \in Planned /\ Tail(w.plan) \in Seq(Planned)
          BY <3>3, <1>3, <1>6, TailFacts
        <4>5. /\ w1 \in ClientType /\ w1.life = "up" /\ w1.connect = x.connect
              /\ w1.db = x.db /\ w1.waiting = Tail(x.waiting)
          BY <4>4, <1>6 DEF ClientType
        <4>6. next \in Asked /\ next.id = 0 /\ next.type \notin {"enter", "burn", "query"}
          BY <4>4 DEF Planned
        <4> HIDE DEF w1, next
        <4> DEFINE q == Tail(toClient[c])
        <4>7. Keeps(config.auth, sent, session[c], x, toServer[c], toClient[c],
                    session[c], w1, toServer[c], q)
          <5>1. w1.db = Follow(x.db, Head(x.waiting), Head(toClient[c]).type)
            BY <4>5, <3>1 DEF req, r
          <5>2. x.connect = "resolved" => w1.connect = "resolved"
            BY <2>1
          <5>3. w1 \in ClientType /\ w1.life = "up" /\ w1.waiting = Tail(x.waiting)
            BY <4>5
          <5>4. Linked(config.auth, session[c], x, toServer[c], toClient[c], sent)
                /\ sent \in Nat
            BY <1>3
          <5>5. x.life = "up" /\ toClient[c] # <<>> /\ x.waiting # <<>>
            BY <1>1
          <5>6. Ordered(x, toClient[c]) =>
                   w1.db = Follow(x.db, Head(x.waiting), Head(toClient[c]).type)
            BY <5>1
          <5> QED
            BY <5>2, <5>3, <5>4, <5>5, <5>6, PopKeeps
        <4>8. Tail(x.waiting) = <<>>
          <5> DEFINE tl == Tail(x.waiting)
          <5> DEFINE lx == Len(x.waiting)
          <5>1. tl \in Seq(Awaited) /\ Len(tl) = lx - 1 /\ lx \in Nat \ {0} /\ lx <= 1
            BY <2>2, <1>4
          <5> HIDE DEF tl, lx
          <5>3. Len(tl) = 0
            BY <5>1
          <5>2. tl = <<>>
            BY <5>1, <5>3, EmptyFacts
          <5> QED
            BY <5>2 DEF tl
        <4> HIDE DEF q
        <4>9. Linked(config.auth, session[c], w1, toServer[c], q, sent)
          BY <4>7 DEF Keeps
        <4>10. w1.waiting = <<>> /\ \A i \in 1 .. Len(w1.waiting) : FALSE
          <5>1. Len(<<>>) = 0 /\ 1 .. 0 = {}
            OBVIOUS
          <5>2. w1.waiting = <<>>
            BY <4>5, <4>8, Zenon
          <5> QED
            BY <5>1, <5>2, Zenon
        <4>11. 0 <= sent
          BY <1>3
        <4>12. /\ Linked(config.auth, session[c], w2, in2, q, sent)
               /\ Ordered(w1, q) => Ordered(w2, q)
               /\ Ordered(w1, q) /\ Views(session[c], w1, toServer[c], q)
                  => Views(session[c], w2, in2, q)
          BY <4>5, <4>6, <4>9, <4>10, <4>11, <2>1, <1>3, SendKeeps
        <4> HIDE DEF w2, in2
        <4>13. Keeps(config.auth, sent, session[c], x, toServer[c], toClient[c],
                     session[c], w2, in2, q)
          BY <4>7, <4>12 DEF Keeps
        <4>14. toClient' = [toClient EXCEPT ![c] = q]
          BY <1>1, AtClient DEF q
        <4>15. Only(c) /\ client'[c] = w2 /\ toServer'[c] = in2 /\ toClient'[c] = q
          BY <4>2, <4>3, <4>14, <1>1, AtClient, SameFunction, OneChanged DEF Only
        <4> QED
          BY <4>13, <4>15, <1>1, ClientEvent DEF x
      <3> QED
        BY <3>2, <3>3
    <2>8. CASE r.type = "use_success" /\ Connects(c, [w EXCEPT !.db = req.arg], "resolved")
      <3>1. Follow(x.db, req, r.type) = req.arg /\ req.arg \in Db
        BY <2>3, <2>8 DEF Follow, Db
      <3> QED
        BY <3>1, <2>5, <2>8
    <2>9. ASSUME NEW result \in {"pending", "rejected"},
                 r.type = "error", Connects(c, w, result)
          PROVE  Event
      <3>1. Follow(x.db, req, r.type) = x.db
        BY <2>9 DEF Follow
      <3>2. Connects(c, [w EXCEPT !.db = x.db], result)
        BY <2>6, <2>9
      <3> QED
        BY <3>1, <3>2, <2>5, <2>6
    <2> QED
      BY <2>4, <2>7, <2>8, <2>9 DEF ConnectHandler
  <1> QED
    BY <1>7, <1>8

\* No query waits at the client.
NoQuery(c) == \A i \in 1 .. Len(client[c].waiting) : client[c].waiting[i].type # "query"

OrderedAt(c) == Ordered(client[c], toClient[c])
ViewsAt(c) == Views(session[c], client[c], toServer[c], toClient[c])

LEMMA CallStep ==
    ASSUME IInv, NEW c \in Clients, NEW type \in Types, NEW db \in Databases \cup {None},
           Call(c, type, db)
    PROVE  /\ IInv' /\ \A d \in Clients : d # c => KeepsAt(d)
           /\ OrderedAt(c) /\ (type = "query" \/ NoQuery(c)) => OrderedAt(c)'
           /\ OrderedAt(c) /\ ViewsAt(c) /\ type \notin {"enter", "burn"} => ViewsAt(c)'
  <1> DEFINE x == client[c]
             n == sent + 1
             req == Request(n, type, db)
             w1 == [x EXCEPT !.waiting = Append(@, req)]
             in1 == IF session[c].state = "open" THEN Append(toServer[c], req)
                    ELSE toServer[c]
             out == toClient[c]
  <1>1. /\ x.life = "up" /\ x.connect = "resolved" /\ sent' = n
        /\ db = None <=> type \in {"query", "unbound", "ping"}
        /\ SendRequest(c, x, Request(sent', type, db))
        /\ UNCHANGED <<up, config, slots, registry, session, toClient>>
    BY DEF Call
  <1>2. /\ Linked(config.auth, session[c], x, toServer[c], out, sent)
        /\ sent \in Nat /\ n \in Nat /\ sent <= n /\ sent < n /\ n > 0 /\ n <= n
    BY AtClient DEF LinkedAt
  <1>3. Linked(config.auth, session[c], x, toServer[c], out, n)
    BY <1>2, LinkedGrows
  <1>4. req \in Asked /\ req.id = n /\ req.type = type
    BY <1>1, <1>2, TypesAssumption DEF Request, Asked, Awaited, ReqType
  <1>5. client' = [client EXCEPT ![c] = w1]
    BY <1>1 DEF SendRequest
  <1>6. toServer' = [toServer EXCEPT ![c] = in1]
    BY <1>1, AtClient DEF SendRequest
  <1> HIDE DEF req
  <1>7. ASSUME NEW i \in 1 .. Len(x.waiting)
        PROVE  x.waiting[i].id < req.id
    <2>1. x.waiting[i].id <= sent
      BY <1>2 DEF Linked, Rising
    <2>2. x.waiting[i].id \in Nat
      <3>1. x.waiting \in Seq(Awaited)
        BY AtClient DEF ClientType
      <3>2. x.waiting[i] \in Awaited
        BY <3>1, SeqFacts
      <3> QED
        BY <3>2 DEF Awaited, ReqType
    <2> QED
      BY <2>1, <2>2, <1>2, <1>4
  <1>8. /\ req.id <= n /\ req.id > 0
        /\ x.connect # "resolved" => x.waiting = <<>>
    BY <1>1, <1>2, <1>4
  <1> HIDE DEF x, n, out
  <1>9. /\ Linked(config.auth, session[c], w1, in1, out, n)
        /\ Ordered(x, out) /\ (\/ req.type = "query"
                               \/ \A i \in 1 .. Len(x.waiting) : x.waiting[i].type # "query")
           => Ordered(w1, out)
        /\ Ordered(x, out) /\ Views(session[c], x, toServer[c], out)
           /\ req.type \notin {"enter", "burn"} => Views(session[c], w1, in1, out)
    BY <1>1, <1>2, <1>3, <1>4, <1>7, <1>8, SendKeeps
  <1> HIDE DEF w1, in1
  <1>10. Only(c) /\ client'[c] = w1 /\ toServer'[c] = in1 /\ toClient'[c] = out
         /\ session'[c] = session[c]
    BY <1>1, <1>5, <1>6, AtClient, SameFunction, OneChanged DEF Only, out
  <1>11. /\ Typed' /\ \A d \in Clients : LinkedAt(d)'
         /\ \A d \in Clients : d # c => KeepsAt(d)
    <2>1. Linked(config.auth, session'[c], client'[c], toServer'[c], toClient'[c], sent')
      BY <1>1, <1>9, <1>10
    <2>2. up' \in BOOLEAN /\ config' = config /\ sent' \in Nat /\ sent <= sent'
      BY <1>1, <1>2 DEF IInv, Typed
    <2> QED
      BY <2>1, <2>2, <1>10, OthersKeep
  <1>12. Placed' /\ Backed'
    BY <1>1 DEF IInv, Placed, Backed, Open
  <1>13. OrderedAt(c) /\ (type = "query" \/ NoQuery(c)) => OrderedAt(c)'
    BY <1>4, <1>9, <1>10 DEF OrderedAt, NoQuery, x, out
  <1>14. OrderedAt(c) /\ ViewsAt(c) /\ type \notin {"enter", "burn"} => ViewsAt(c)'
    BY <1>4, <1>9, <1>10 DEF OrderedAt, ViewsAt, x, out
  <1> QED
    BY <1>11, <1>12, <1>13, <1>14 DEF IInv

\* Every event at a connection, as MCServer names them.
LEMMA EventStep ==
    ASSUME IInv, NEW c \in Clients, Events(c)
    PROVE  Event
  <1>1. ASSUME NEW n, Data(c, n)
        PROVE  Event
    BY <1>1, DataStep
  <1>2. CASE HandleConnection(c)
    BY <1>2, ConnectionStep
  <1>3. CASE Overflow(c) \/ Timeout(c) \/ End(c) \/ Error(c)
    BY <1>3, CloseStepOf
  <1>4. CASE HandleResponse(c)
    BY <1>4, ResponseStep
  <1>5. CASE Disconnected(c) \/ Disconnect(c)
    BY <1>5, LeaveStep
  <1> QED
    BY <1>1, <1>2, <1>3, <1>4, <1>5 DEF Events

LEMMA InvNext == IInv /\ [Next]_vars => IInv'
  <1> SUFFICES ASSUME IInv, [Next]_vars
               PROVE  IInv'
    OBVIOUS
  <1>1. CASE Stop
    BY <1>1, StopStep DEF Event
  <1>2. ASSUME NEW c \in Clients, Events(c)
        PROVE  IInv'
    BY <1>2, EventStep DEF Event
  <1>3. ASSUME NEW c \in Clients, NEW type \in Types, NEW db \in Databases \cup {None},
               Call(c, type, db)
        PROVE  IInv'
    BY <1>3, CallStep
  <1>4. CASE UNCHANGED vars
    BY <1>4 DEF vars, IInv, Typed, Placed, Backed, LinkedAt, Open
  <1>5. Next => \/ Stop
                \/ \E c \in Clients : Events(c)
                \/ \E c \in Clients : \E type \in Types, db \in Databases \cup {None} :
                      Call(c, type, db)
    BY DEF Next, Events
  <1> QED
    BY <1>1, <1>2, <1>3, <1>4, <1>5

LEMMA InvGivesType == IInv => TypeOK
  <1> SUFFICES ASSUME IInv
               PROVE  TypeOK
    OBVIOUS
  <1>1. ASSUME NEW c \in Clients
        PROVE  /\ session[c].state \in {"none", "open", "refused", "ended", "destroyed"}
               /\ session[c].db \in Databases \cup {None}
               /\ client[c].db \in Databases \cup {None}
               /\ client[c].life = "new" <=> session[c].state = "none"
               /\ session[c].state \in {"none", "refused"} =>
                     ~ session[c].auth /\ session[c].db = None
               /\ \A i, j \in DOMAIN client[c].waiting :
                     i < j => client[c].waiting[i].id < client[c].waiting[j].id
               /\ \A i \in DOMAIN client[c].waiting :
                     client[c].waiting[i].id \in 0 .. sent
    <2> DEFINE wt == client[c].waiting
    <2>1. LinkedAt(c) /\ sent \in Nat /\ session[c] \in SessionType /\ client[c] \in ClientType
      BY AtClient
    <2>2. wt \in Seq(Awaited)
      BY <2>1 DEF ClientType
    <2>3. DOMAIN wt = 1 .. Len(wt) /\ \A i \in 1 .. Len(wt) : wt[i].id \in Nat
      BY <2>2, SeqFacts DEF Awaited, ReqType
    <2>4. /\ \A i, j \in 1 .. Len(wt) : i < j => wt[i].id < wt[j].id
          /\ \A i \in 1 .. Len(wt) : wt[i].id <= sent
      BY <2>1 DEF LinkedAt, Linked, Rising
    <2> HIDE DEF wt
    <2>5. /\ \A i, j \in DOMAIN wt : i < j => wt[i].id < wt[j].id
          /\ \A i \in DOMAIN wt : wt[i].id \in 0 .. sent
      BY <2>1, <2>3, <2>4
    <2>6. /\ client[c].life = "new" <=> session[c].state = "none"
          /\ session[c].state \in {"none", "refused"} =>
                ~ session[c].auth /\ session[c].db = None
      BY <2>1 DEF LinkedAt, Linked
    <2>7. /\ session[c].state \in {"none", "open", "refused", "ended", "destroyed"}
          /\ session[c].db \in Databases \cup {None}
          /\ client[c].db \in Databases \cup {None}
      BY <2>1 DEF SessionType, ClientType, Db
    <2> QED
      BY <2>5, <2>6, <2>7 DEF wt
  <1> QED
    BY <1>1 DEF TypeOK, IInv, Typed, Placed, Backed

LEMMA InvGivesAuth == IInv => AuthFirst
  <1> SUFFICES ASSUME IInv, config.auth, NEW c \in Clients, Open(c), ~ session[c].auth
               PROVE  /\ session[c].db = None
                      /\ \A i \in DOMAIN toClient[c] :
                            toClient[c][i].type \in {"welcome", "error"}
    BY DEF AuthFirst
  <1>1. Authentic(config.auth, session[c], toClient[c])
    BY AtClient DEF LinkedAt, Linked
  <1>2. DOMAIN toClient[c] = 1 .. Len(toClient[c])
    BY AtClient, SeqFacts
  <1> QED
    BY <1>1, <1>2 DEF Authentic, Open

LEMMA InvGivesBalance == IInv => NothingLost
  <1> SUFFICES ASSUME IInv, NEW c \in Clients, Open(c), client[c].life = "up"
               PROVE  Len(client[c].waiting) = Len(toServer[c]) + Len(toClient[c])
    BY DEF NothingLost
  <1>1. Balanced(session[c], client[c], toServer[c], toClient[c])
    BY AtClient DEF LinkedAt, Linked
  <1> QED
    BY <1>1 DEF Balanced, Open

LEMMA InvAlways == Spec => []IInv
  <1> QED
    BY InvInit, InvNext, PTL DEF Spec

\* The types of the server and its clients: a connection that is served has a
\* place in this.clients, which never holds more than maxConnections, however
\* connections come and end; an open engine has its file, after any number of
\* USE, CREATE and DROP of any sessions; requests wait in the order of their
\* numbers.
THEOREM TypeAlways == Spec => []TypeOK
  <1> QED
    BY InvAlways, InvGivesType, PTL

\* With config.auth set, a session that has not passed handleAuth is in no
\* database and has been sent nothing but its welcome and errors, whatever
\* requests came before the AUTH in the same chunk.
THEOREM AuthFirstAlways == Spec => []AuthFirst
  <1> QED
    BY InvAlways, InvGivesAuth, PTL

\* Every request a connected client waits for is on its way to the server or
\* its response is on the way back: the handler of a chunk writes exactly one
\* response a request, whether at once or after an await.
THEOREM NothingLostAlways == Spec => []NothingLost
  <1> QED
    BY InvAlways, InvGivesBalance, PTL

-----------------------------------------------------------------------------
(* Clients that keep to the rules.                                         *)

UseInv ==
    /\ use \in [Clients -> [serial : BOOLEAN, own : BOOLEAN]]
    /\ \A c \in Clients : use[c].serial => OrderedAt(c)
    /\ \A c \in Clients : use[c].serial /\ use[c].own => ViewsAt(c)

LEMMA UseInvInit == UseInit => UseInv
  <1> SUFFICES ASSUME UseInit
               PROVE  UseInv
    OBVIOUS
  <1>1. ASSUME NEW c \in Clients
        PROVE  OrderedAt(c) /\ ViewsAt(c)
    <2>1. /\ client[c] = Over("new") /\ toServer[c] = <<>>
      BY DEF UseInit, Init
    <2>2. client[c].life # "up" /\ Len(<<>>) = 0
      BY <2>1 DEF Over
    <2> QED
      BY <2>1, <2>2 DEF OrderedAt, ViewsAt, Ordered, Views
  <1> QED
    BY <1>1 DEF UseInv, UseInit

LEMMA KeepsUse ==
    ASSUME NEW c \in Clients, KeepsAt(c)
    PROVE  /\ OrderedAt(c) => OrderedAt(c)'
           /\ OrderedAt(c) /\ ViewsAt(c) => ViewsAt(c)'
  BY DEF KeepsAt, Keeps, OrderedAt, ViewsAt

UseNext ==
    \/ Stop /\ UNCHANGED use
    \/ \E c \in Clients : (Events(c) /\ UNCHANGED use) \/ Calls(c)

LEMMA UseInvNext == IInv /\ UseInv /\ [UseNext]_allvars => IInv' /\ UseInv'
  <1> SUFFICES ASSUME IInv, UseInv, [UseNext]_allvars
               PROVE  IInv' /\ UseInv'
    OBVIOUS
  <1>1. ASSUME Event, UNCHANGED use
        PROVE  IInv' /\ UseInv'
    <2>1. ASSUME NEW c \in Clients
          PROVE  /\ OrderedAt(c) => OrderedAt(c)'
                 /\ OrderedAt(c) /\ ViewsAt(c) => ViewsAt(c)'
      BY <1>1, KeepsUse DEF Event
    <2>2. UseInv'
      BY <2>1, <1>1 DEF UseInv
    <2> QED
      BY <2>2, <1>1 DEF Event
  <1>2. CASE Stop /\ UNCHANGED use
    BY <1>1, <1>2, StopStep
  <1>3. ASSUME NEW c \in Clients, Events(c), UNCHANGED use
        PROVE  IInv' /\ UseInv'
    BY <1>1, <1>3, EventStep
  <1>4. ASSUME NEW c \in Clients, Calls(c)
        PROVE  IInv' /\ UseInv'
    <2>1. PICK type \in Types, db \in Databases \cup {None} : Call(c, type, db) /\ Uses(c, type)
      BY <1>4 DEF Calls
    <2>2. /\ IInv' /\ \A d \in Clients : d # c => KeepsAt(d)
          /\ OrderedAt(c) /\ (type = "query" \/ NoQuery(c)) => OrderedAt(c)'
          /\ OrderedAt(c) /\ ViewsAt(c) /\ type \notin {"enter", "burn"} => ViewsAt(c)'
      BY <2>1, CallStep
    <2>3. use \in [Clients -> [serial : BOOLEAN, own : BOOLEAN]]
      BY DEF UseInv
    <2> DEFINE quiet == \A i \in DOMAIN client[c].waiting : client[c].waiting[i].type # "query"
               u == [use[c] EXCEPT !.serial = @ /\ (type = "query" \/ quiet),
                                   !.own = @ /\ type \notin {"enter", "burn"}]
    <2>4. use' = [use EXCEPT ![c] = u]
      BY <2>1, <2>3 DEF Uses
    <2> HIDE DEF quiet
    <2>5. /\ u \in [serial : BOOLEAN, own : BOOLEAN]
          /\ u.serial => use[c].serial /\ (type = "query" \/ quiet)
          /\ u.own => use[c].own /\ type \notin {"enter", "burn"}
      BY <2>3
    <2>6. quiet => NoQuery(c)
      <3>1. client[c].waiting \in Seq(Awaited)
        BY AtClient DEF ClientType
      <3>2. DOMAIN client[c].waiting = 1 .. Len(client[c].waiting)
        BY <3>1, SeqFacts
      <3> QED
        BY <3>2 DEF quiet, NoQuery
    <2> HIDE DEF u
    <2>7. /\ use' \in [Clients -> [serial : BOOLEAN, own : BOOLEAN]] /\ use'[c] = u
          /\ \A d \in Clients : d # c => use'[d] = use[d]
      BY <2>3, <2>4, <2>5, UpdateFacts
    <2>8. ASSUME NEW d \in Clients, d # c
          PROVE  /\ use'[d].serial => OrderedAt(d)'
                 /\ use'[d].serial /\ use'[d].own => ViewsAt(d)'
      <3>1. KeepsAt(d) /\ use'[d] = use[d]
        BY <2>2, <2>7, <2>8
      <3>2. /\ OrderedAt(d) => OrderedAt(d)'
            /\ OrderedAt(d) /\ ViewsAt(d) => ViewsAt(d)'
        BY <3>1, KeepsUse
      <3> QED
        BY <3>1, <3>2 DEF UseInv
    <2>9. /\ use'[c].serial => OrderedAt(c)'
          /\ use'[c].serial /\ use'[c].own => ViewsAt(c)'
      BY <2>2, <2>5, <2>6, <2>7 DEF UseInv
    <2>10. UseInv'
      BY <2>7, <2>8, <2>9 DEF UseInv
    <2> QED
      BY <2>2, <2>10
  <1>5. CASE UNCHANGED allvars
    <2>1. UNCHANGED vars /\ UNCHANGED use
      BY <1>5 DEF allvars
    <2>2. IInv'
      BY <2>1, InvNext
    <2> QED
      BY <2>1, <2>2 DEF vars, UseInv, OrderedAt, ViewsAt
  <1> QED
    BY <1>2, <1>3, <1>4, <1>5 DEF UseNext

LEMMA UseInvAlways == UseSpec => [](IInv /\ UseInv)
  <1>1. UseInit => IInv /\ UseInv
    BY InvInit, UseInvInit DEF UseInit
  <1>2. UseSpec => UseInit /\ [][UseNext]_allvars
    BY DEF UseSpec, UseNext
  <1> QED
    BY <1>1, <1>2, UseInvNext, PTL

LEMMA UseInvGivesOwn == IInv /\ UseInv => OwnResponses
  <1> SUFFICES ASSUME IInv, UseInv, NEW c \in Clients, use[c].serial, client[c].life = "up",
                      NEW i \in DOMAIN toClient[c]
               PROVE  /\ i <= Len(client[c].waiting)
                      /\ toClient[c][i].to = client[c].waiting[i].id
    BY DEF OwnResponses
  <1>1. Ordered(client[c], toClient[c])
    BY DEF UseInv, OrderedAt
  <1>2. Len(toClient[c]) \in Nat /\ i \in 1 .. Len(toClient[c])
    BY AtClient, SeqFacts
  <1>3. Len(client[c].waiting) \in Nat
    BY AtClient, SeqFacts DEF ClientType
  <1> QED
    BY <1>1, <1>2, <1>3 DEF Ordered

LEMMA UseInvGivesViews == IInv /\ UseInv => ViewsAgree
  <1> SUFFICES ASSUME IInv, UseInv, NEW c \in Clients, use[c].serial, use[c].own, Open(c),
                      client[c].connect = "resolved", client[c].waiting = <<>>
               PROVE  client[c].db = session[c].db
    BY DEF ViewsAgree
  <1>1. Ordered(client[c], toClient[c])
        /\ Views(session[c], client[c], toServer[c], toClient[c])
    BY DEF UseInv, OrderedAt, ViewsAt
  <1>2. client[c].life = "up"
    <2>1. Connected(client[c], toClient[c])
      BY AtClient DEF LinkedAt, Linked
    <2>2. \A life : Over(life).connect = "idle"
      BY DEF Over
    <2> QED
      BY <2>1, <2>2 DEF Connected
  <1>3. Len(toClient[c]) = 0
    <2>1. Len(<<>>) = 0
      OBVIOUS
    <2>2. Len(toClient[c]) \in Nat
      BY AtClient, SeqFacts
    <2>3. Len(toClient[c]) <= Len(client[c].waiting)
      BY <1>1, <1>2 DEF Ordered
    <2> QED
      BY <2>1, <2>2, <2>3
  <1>4. PICK v : Leads(v, session[c], client[c], toClient[c])
    BY <1>1, <1>2 DEF Views, Open
  <1> QED
    BY <1>3, <1>4 DEF Leads

\* Requests carry no id and a client takes responses in the order they come:
\* one that sends nothing but further queries while a query waits, with
\* parameters that can be bound (for the error of another is written before
\* the answer that is awaited), takes each response for the request it
\* answers, however the requests are cut into chunks and the connection ends.
THEOREM OwnResponsesAlways == UseSpec => []OwnResponses
  <1> QED
    BY UseInvAlways, UseInvGivesOwn, PTL

\* Such a client, when it changes its database by use() and dropDatabase()
\* only, has the same current database as its session whenever it waits for
\* nothing.
THEOREM ViewsAgreeAlways == UseSpec => []ViewsAgree
  <1> QED
    BY UseInvAlways, UseInvGivesViews, PTL
====
