------------------------------- MODULE Server -------------------------------
(***************************************************************************)
(* The network side of the database: src/SawitServer.js with its router,   *)
(* registry, authentication and sessions, and src/SawitClient.js at the    *)
(* other end of each connection.  Requests carry no id: a client matches   *)
(* responses with its requests by their order.  The server handles the     *)
(* requests of a chunk of data one after another; a query that reaches an  *)
(* engine is answered after an await, that is after the other requests of  *)
(* its chunk, everything else at once, and so is the error that the engine *)
(* throws out of query().                                                  *)
(*                                                                         *)
(* Each client connects once.  "ping" stands for list_databases, stats and *)
(* SHOW DATABASES too, which read and answer as it does.  An engine that is asked for     *)
(* opens.  Databases are opened in this process (no worker pool).          *)
(***************************************************************************)
EXTENDS Naturals, Sequences, FiniteSets, SequencesExt

CONSTANTS Clients,         \* the clients, one connection each
          Databases,       \* names of databases
          Limits,          \* the values of config.maxConnections in use
          MaxRequests,     \* bound on the requests of all clients
          Types,           \* the types of request clients send
          Credentials,     \* "good" or "bad", of the clients that have them
          None             \* no database

ASSUME LimitAssumption == Limits \subseteq Nat
ASSUME CredentialsAssumption == Credentials \subseteq {"good", "bad"}
ASSUME TypesAssumption ==
    Types \subseteq {"use", "query", "unbound", "make", "enter", "burn", "ping", "drop"}

VARIABLES up,           \* the server process runs
          config,       \* [auth: is it set; maxConnections]
          slots,        \* this.clients
          registry,     \* [files, engines]: the .sawit files, the open engines
          session,      \* client -> the server's end of its connection
          client,       \* client -> its SawitClient
          toServer,     \* client -> requests on the way
          toClient,     \* client -> responses on the way
          sent          \* how many requests clients sent; not in the code
vars == <<up, config, slots, registry, session, client,
          toServer, toClient, sent>>

\* "make", "enter" and "burn" are the queries CREATE DATABASE, USE and
\* DROP DATABASE, "unbound" is one whose parameters cannot be bound (IS NULL
\* is enough: a client sends parameters with every query); id 0 marks what connect() sends; arg is a database, or the
\* credentials of an "auth".
Request(id, type, arg) == [id |-> id, type |-> type, arg |-> arg]

\* to is the request a response answers; it is not sent.
Response(type, to) == [type |-> type, to |-> to]

-----------------------------------------------------------------------------
(* The server handles a request.  The state s of a chunk's handler:        *)
(* files and engines of the registry, auth and db of the session, now the  *)
(* responses written, later the responses that wait for their await.       *)

Reply(s, req, type) == [s EXCEPT !.now = Append(@, Response(type, req.id))]

\* getOrCreate: opening an engine creates its file.
GetOrCreate(s, db) ==
    [s EXCEPT !.files = @ \cup {db}, !.engines = @ \cup {db}]

HandleAuth(s, req) ==
    IF ~ config.auth \/ req.arg = "good"
    THEN Reply([s EXCEPT !.auth = TRUE], req, "auth_success")
    ELSE Reply(s, req, "error")

HandleUseDatabase(s, req) ==
    Reply([GetOrCreate(s, req.arg) EXCEPT !.db = req.arg], req, "use_success")

Make(s, req) ==
    Reply(IF req.arg \in s.files THEN s ELSE GetOrCreate(s, req.arg),
          req, "query_result")

Enter(s, req) ==
    IF req.arg \in s.files
    THEN Reply([s EXCEPT !.db = req.arg], req, "query_result")
    ELSE Reply(s, req, "error")

\* Mutated form of Dropped: the closed engine stays in the Map.
DroppedKept(s, db) ==
    [s EXCEPT !.files = @ \ {db}, !.db = IF @ = db THEN None ELSE @]

\* Mutated form of Dropped: the session keeps the database.
DroppedInUse(s, db) ==
    [s EXCEPT !.files = @ \ {db}, !.engines = @ \ {db}]

\* drop(): close the engine, delete the file; the session that asked leaves
\* the database, others do not.
Dropped(s, db) ==
    [s EXCEPT !.files = @ \ {db}, !.engines = @ \ {db},
              !.db = IF @ = db THEN None ELSE @]

DropAs(s, req, type) ==
    IF req.arg \in s.files THEN Reply(Dropped(s, req.arg), req, type)
    ELSE Reply(s, req, "error")

Burn(s, req) == DropAs(s, req, "query_result")

HandleDropDatabase(s, req) == DropAs(s, req, "drop_success")

\* A request that only reads.
Ping(s, req) == Reply(s, req, "pong")

\* Mutated form of Run: nothing is said to a session without a database.
RunSilent(s, req) ==
    IF s.db = None THEN s
    ELSE IF req.type = "unbound" THEN Reply(GetOrCreate(s, s.db), req, "error")
    ELSE [GetOrCreate(s, s.db) EXCEPT
            !.later = Append(@, Response("query_result", req.id))]

\* A query for the engine of the session's database, whether it has been
\* dropped since or not.  What it throws is caught in front of the await.
Run(s, req) ==
    IF s.db = None THEN Reply(s, req, "error")
    ELSE IF req.type = "unbound" THEN Reply(GetOrCreate(s, s.db), req, "error")
    ELSE [GetOrCreate(s, s.db) EXCEPT
            !.later = Append(@, Response("query_result", req.id))]

Handled(s, req) ==
    CASE req.type = "auth" -> HandleAuth(s, req)
      [] req.type = "use" -> HandleUseDatabase(s, req)
      [] req.type \in {"query", "unbound"} -> Run(s, req)
      [] req.type = "make" -> Make(s, req)
      [] req.type = "enter" -> Enter(s, req)
      [] req.type = "burn" -> Burn(s, req)
      [] req.type = "ping" -> Ping(s, req)
      [] req.type = "drop" -> HandleDropDatabase(s, req)

\* Mutated form of Handle: the session is not asked for its credentials.
HandleOpen(s, req) == Handled(s, req)

\* RequestRouter.handle
Handle(s, req) ==
    IF config.auth /\ ~ s.auth /\ req.type # "auth" THEN Reply(s, req, "error")
    ELSE Handled(s, req)

\* Mutated form of Responses: what waited is written first.
ResponsesLateFirst(s) == s.later \o s.now

\* What the handler of a chunk and the awaits it leaves behind write.
Responses(s) == s.now \o s.later

-----------------------------------------------------------------------------
(* The server's events.                                                    *)

\* A connection without a session, or whose session nothing refers to.
Closed(state) == [state |-> state, auth |-> FALSE, db |-> None]

\* A client before or after its connection: nothing reads its fields any more,
\* and what it does with a response that comes late is left out.
Over(life) == [life |-> life, connect |-> "idle", plan |-> <<>>, db |-> None,
               waiting |-> <<>>]

Init ==
    /\ up = TRUE
    /\ config \in [auth : BOOLEAN, maxConnections : Limits]
    /\ slots = {}
    /\ \E files \in SUBSET Databases :
          registry = [files |-> files, engines |-> {}]
    /\ session = [c \in Clients |-> Closed("none")]
    /\ client = [c \in Clients |-> Over("new")]
    /\ toServer = [c \in Clients |-> <<>>]
    /\ toClient = [c \in Clients |-> <<>>]
    /\ sent = 0

\* connect(), with the credentials and the database of the client's URL if it
\* has them, and handleConnection.
Connecting(c, full) ==
    /\ up
    /\ client[c].life = "new"
    /\ \E auth \in {<<>>} \cup {<<Request(0, "auth", cred)>> : cred \in Credentials},
          db \in {<<>>} \cup {<<Request(0, "use", d)>> : d \in Databases} :
          client' = [client EXCEPT
                       ![c].life = "up", ![c].connect = "pending",
                       ![c].plan = auth \o db,
                       ![c].waiting = <<Request(0, "welcome", None)>>]
    /\ IF full
       THEN /\ session' = [session EXCEPT ![c].state = "refused"]
            /\ toClient' = [toClient EXCEPT ![c] = <<Response("error", 0)>>]
            /\ UNCHANGED slots
       ELSE /\ session' = [session EXCEPT ![c].state = "open"]
            /\ toClient' = [toClient EXCEPT ![c] = <<Response("welcome", 0)>>]
            /\ slots' = slots \cup {c}
    /\ UNCHANGED <<up, config, registry, toServer, sent>>

HandleConnection(c) == Connecting(c, Cardinality(slots) >= config.maxConnections)

\* A chunk of n requests arrives.
Data(c, n) ==
    /\ up
    /\ session[c].state = "open"
    /\ n \in 1 .. Len(toServer[c])
    /\ LET s == FoldLeft(Handle,
                  [files |-> registry.files, engines |-> registry.engines,
                   auth |-> session[c].auth, db |-> session[c].db,
                   now |-> <<>>, later |-> <<>>],
                  SubSeq(toServer[c], 1, n))
       IN /\ registry' = [files |-> s.files, engines |-> s.engines]
          /\ session' = [session EXCEPT ![c].auth = s.auth, ![c].db = s.db]
          /\ toClient' = [toClient EXCEPT ![c] =
                            IF client[c].life = "up" THEN @ \o Responses(s) ELSE @]
    /\ toServer' = [toServer EXCEPT ![c] = SubSeq(@, n + 1, Len(@))]
    /\ UNCHANGED <<up, config, slots, client, sent>>

\* The server's end is destroyed: what it wrote may be lost with it.
Destroyed(c, written) ==
    /\ session' = [session EXCEPT ![c] = Closed("destroyed")]
    /\ toServer' = [toServer EXCEPT ![c] = <<>>]
    /\ \E r \in {<<>>, written} : toClient' = [toClient EXCEPT ![c] = r]

\* More than 1 MB has come in: the requests not handled yet are dropped.
Overflow(c) ==
    /\ up
    /\ session[c].state = "open"
    /\ toServer[c] # <<>>
    /\ Destroyed(c, Append(toClient[c], Response("error", Head(toServer[c]).id)))
    /\ UNCHANGED <<up, config, slots, registry, client, sent>>

\* The socket was idle for queryTimeout.
Timeout(c) ==
    /\ up
    /\ session[c].state = "open"
    /\ Destroyed(c, toClient[c])
    /\ UNCHANGED <<up, config, slots, registry, client, sent>>

\* The client has ended the connection and everything it sent was read.
End(c) ==
    /\ up
    /\ session[c].state = "open"
    /\ client[c].life = "gone"
    /\ toServer[c] = <<>>
    /\ session' = [session EXCEPT ![c] = Closed("ended")]
    /\ slots' = slots \ {c}
    /\ UNCHANGED <<up, config, registry, client, toServer, toClient, sent>>

\* The connection is reset.
Error(c) ==
    /\ up
    /\ session[c].state = "open"
    /\ session' = [session EXCEPT ![c] = Closed("destroyed")]
    /\ slots' = slots \ {c}
    /\ toServer' = [toServer EXCEPT ![c] = <<>>]
    /\ toClient' = [toClient EXCEPT ![c] = <<>>]
    /\ UNCHANGED <<up, config, registry, client, sent>>

\* stop(), after which the process exits.
Stop ==
    /\ up
    /\ up' = FALSE
    /\ session' = [c \in Clients |->
                     IF session[c].state = "open"
                     THEN Closed("destroyed")
                     ELSE session[c]]
    /\ registry' = [registry EXCEPT !.engines = {}]
    /\ toServer' = [c \in Clients |-> <<>>]
    /\ UNCHANGED <<config, slots, client, toClient, sent>>

-----------------------------------------------------------------------------
(* The client's methods and events.                                        *)

\* #sendRequest
SendRequest(c, w, req) ==
    /\ client' = [client EXCEPT ![c] = [w EXCEPT !.waiting = Append(@, req)]]
    /\ toServer' = IF session[c].state = "open"
                   THEN [toServer EXCEPT ![c] = Append(@, req)] ELSE toServer

\* A caller that has awaited connect() calls a method.  It may call the next
\* before the promise of the last is settled.
Call(c, type, db) ==
    /\ client[c].life = "up"
    /\ client[c].connect = "resolved"
    /\ sent < MaxRequests
    /\ db = None <=> type \in {"query", "unbound", "ping"}
    /\ sent' = sent + 1
    /\ SendRequest(c, client[c], Request(sent', type, db))
    /\ UNCHANGED <<up, config, slots, registry, session, toClient>>

\* connect()'s promise is settled, or its next request is sent.
Connects(c, w, result) ==
    /\ client' = [client EXCEPT ![c] = [w EXCEPT !.connect = result]]
    /\ UNCHANGED toServer

\* _initConnection: the next request of the plan, if there is one.
InitConnection(c, w) ==
    IF w.plan = <<>> THEN Connects(c, w, "resolved")
    ELSE SendRequest(c, [w EXCEPT !.plan = Tail(@)], Head(w.plan))

\* The handlers of connect(), _authenticate() and use() within connect().
ConnectHandler(c, w, req, r) ==
    \/ /\ r.type \in {"welcome", "auth_success"}
       /\ InitConnection(c, w)
    \/ /\ r.type = "use_success"
       /\ Connects(c, [w EXCEPT !.db = req.arg], "resolved")
    \/ /\ r.type = "error" /\ req.type = "welcome"
       /\ Connects(c, w, "pending")
    \/ /\ r.type = "error" /\ req.type # "welcome"
       /\ Connects(c, w, "rejected")

\* The database a client takes itself to be in when req got response type.
Follows(w, req, type) ==
    IF req.type = "use" /\ type = "use_success" THEN req.arg
    ELSE IF req.type = "drop" /\ type = "drop_success" /\ w.db = req.arg THEN None
    ELSE w.db

\* #handleResponse: the response is for the request that waits longest.
HandleResponse(c) ==
    /\ client[c].life = "up"
    /\ toClient[c] # <<>>
    /\ client[c].waiting # <<>>
    /\ LET r == Head(toClient[c])
           req == Head(client[c].waiting)
           w == [client[c] EXCEPT !.waiting = Tail(@)]
       IN IF req.id = 0 THEN ConnectHandler(c, w, req, r)
          ELSE /\ client' = [client EXCEPT ![c] =
                               [w EXCEPT !.db = Follows(w, req, r.type)]]
               /\ UNCHANGED toServer
    /\ toClient' = [toClient EXCEPT ![c] = Tail(@)]
    /\ UNCHANGED <<up, config, slots, registry, session, sent>>

\* The connection has ended at the server.
Disconnected(c) ==
    /\ client[c].life = "up"
    /\ session[c].state \in {"refused", "destroyed"}
    /\ toClient[c] = <<>>
    /\ client' = [client EXCEPT ![c] = Over("ended")]
    /\ UNCHANGED <<up, config, slots, registry, session, toServer,
                   toClient, sent>>

\* disconnect(), or the end of the client's process.
Disconnect(c) ==
    /\ client[c].life = "up"
    /\ client' = [client EXCEPT ![c] = Over("gone")]
    /\ toClient' = [toClient EXCEPT ![c] = <<>>]
    /\ UNCHANGED <<up, config, slots, registry, session, toServer, sent>>

Next ==
    \/ Stop
    \/ \E c \in Clients :
          \/ HandleConnection(c) \/ Overflow(c) \/ Timeout(c) \/ End(c) \/ Error(c)
          \/ \E n \in 1 .. MaxRequests + 1 : Data(c, n)
          \/ \E type \in Types, db \in Databases \cup {None} : Call(c, type, db)
          \/ HandleResponse(c) \/ Disconnected(c) \/ Disconnect(c)

Spec == Init /\ [][Next]_vars

-----------------------------------------------------------------------------
(* What must hold.                                                         *)

Open(c) == session[c].state = "open"

\* The fields have their types; every connection that is served has a place in
\* this.clients, which the limit counts; every open engine has its file, so a
\* dropped database leaves none behind that would answer for it; what is not
\* connected has no session, and a client's requests are numbered in the order
\* it waits for them.
TypeOK ==
    /\ up \in BOOLEAN /\ config \in [auth : BOOLEAN, maxConnections : Limits]
    /\ slots \subseteq Clients /\ Cardinality(slots) <= config.maxConnections
    /\ \A c \in Clients : up /\ Open(c) => c \in slots
    /\ registry.files \subseteq Databases /\ registry.engines \subseteq registry.files
    /\ \A c \in Clients :
          /\ session[c].state \in {"none", "open", "refused", "ended", "destroyed"}
          /\ session[c].db \in Databases \cup {None}
          /\ client[c].db \in Databases \cup {None}
          /\ client[c].life = "new" <=> session[c].state = "none"
          /\ session[c].state \in {"none", "refused"} =>
                ~ session[c].auth /\ session[c].db = None
          /\ \A i, j \in DOMAIN client[c].waiting :
                i < j => client[c].waiting[i].id < client[c].waiting[j].id
          /\ \A i \in DOMAIN client[c].waiting :
                client[c].waiting[i].id \in 0 .. sent

\* With authentication on, a session that has not passed it is in no database
\* and gets nothing but errors.
AuthFirst ==
    config.auth => \A c \in Clients : Open(c) /\ ~ session[c].auth =>
        /\ session[c].db = None
        /\ \A i \in DOMAIN toClient[c] : toClient[c][i].type \in {"welcome", "error"}

\* No request is lost and none is answered twice: for each one a connected
\* client waits for, the request or its response is on the way, so that every
\* promise is settled unless the connection ends first.
NothingLost ==
    \A c \in Clients : Open(c) /\ client[c].life = "up" =>
        Len(client[c].waiting) = Len(toServer[c]) + Len(toClient[c])
=============================================================================
