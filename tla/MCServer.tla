------------------------------ MODULE MCServer ------------------------------
(***************************************************************************)
(* Instances of Server for TLC, with a record of how each client uses its  *)
(* connection.                                                             *)
(***************************************************************************)
EXTENDS Server, TLC

ClientSymmetry == Permutations(Clients)

VARIABLE use  \* client -> [serial, own]; see Uses
allvars == <<vars, use>>

\* serial: nothing but further queries, with parameters that can be bound, was
\* sent while a query waited for its response.  own: the client changed its database by use() and
\* dropDatabase() only, not by a query.
Uses(c, type) ==
    use' = [use EXCEPT
              ![c].serial = @ /\ (type = "query" \/ \A i \in DOMAIN client[c].waiting :
                                     client[c].waiting[i].type # "query"),
              ![c].own = @ /\ type \notin {"enter", "burn"}]

Events(c) ==
    \/ \E n \in 1 .. MaxRequests + 1 : Data(c, n)
    \/ HandleConnection(c) \/ Overflow(c) \/ Timeout(c) \/ End(c) \/ Error(c)
    \/ HandleResponse(c) \/ Disconnected(c) \/ Disconnect(c)

Calls(c) ==
    \E type \in Types, db \in Databases \cup {None} :
        Call(c, type, db) /\ Uses(c, type)

UseInit == Init /\ use = [c \in Clients |-> [serial |-> TRUE, own |-> TRUE]]

UseSpec ==
    /\ UseInit
    /\ [][ \/ Stop /\ UNCHANGED use
           \/ \E c \in Clients : (Events(c) /\ UNCHANGED use) \/ Calls(c) ]_allvars

\* A serial client gets for each request the response to that request.
OwnResponses ==
    \A c \in Clients : use[c].serial /\ client[c].life = "up" =>
        \A i \in DOMAIN toClient[c] :
            /\ i <= Len(client[c].waiting)
            /\ toClient[c][i].to = client[c].waiting[i].id

\* A serial client that waits for nothing is in the database it takes itself
\* to be in, whatever other clients dropped or created.
ViewsAgree ==
    \A c \in Clients :
        /\ use[c].serial /\ use[c].own
        /\ Open(c) /\ client[c].connect = "resolved" /\ client[c].waiting = <<>>
        => client[c].db = session[c].db
=============================================================================
