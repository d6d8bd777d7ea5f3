-------------------------- MODULE ClientAuth_proofs --------------------------
(***************************************************************************)
(* KeptCredentials, CacheIsStored and DeletionComplete for every number of *)
(* credentials, clients, connections and requests, over errors of the      *)
(* provider and restarts at any step.                                      *)
(***************************************************************************)
EXTENDS ClientAuth, TLAPS

Request ==
    [pc : {"idle", "lookup", "force", "lock", "write", "encode", "cache"},
     op : {"add", "delete", None}, id : AuthIds \cup {None}, pass : Passwords \cup {None},
     force : BOOLEAN, found : SUBSET (Clients \X (Connections \cup {None})),
     pairs : Credentials \cup {None}]
Connection ==
    [pc : {"none", "start", "up", "closed", "done"}, id : AuthIds \cup {None},
     client : Clients \cup {None}]
Entry == [id : AuthIds \cup {None}, object : Connections \cup {None}]

\* The types of the variables the argument is about.
Types ==
    /\ source \in {"file", "database", "static"}
    /\ stored \in Credentials \cup {Torn} /\ cache \in Credentials /\ kept \in Credentials
    /\ stored = Torn => source = "file"
    /\ mu \in Requests \cup {None}
    /\ req \in [Requests -> Request]
    /\ known \in [Clients -> Entry]
    /\ conn \in [Connections -> Connection]
    /\ held \subseteq Clients \X Entry
    /\ late \subseteq Clients

(***************************************************************************)
(* A request that is past handlePostClientsAuth or handleDeleteClientAuth  *)
(* knows what it is about (RequestInv), one that writes holds the lock     *)
(* (LockInv), a connection that is past the handshake knows its client     *)
(* (ConnectionInv), and a server that stopped has neither (StoppedInv).    *)
(***************************************************************************)
Writing == {"write", "encode", "cache"}

RequestInv ==
    \A r \in Requests :
        /\ req[r].pc # "idle" => req[r].id \in AuthIds
        /\ req[r].pc \in {"lookup", "force"} => req[r].op = "delete"
        /\ req[r].pc = "encode" => source = "file" /\ req[r].pairs \in Credentials
        /\ req[r].pc \in Writing \cup {"lock"} =>
            \/ req[r].op = "delete"
            \/ req[r].op = "add" /\ req[r].pass \in Passwords

LockInv == \A r \in Requests : req[r].pc \in Writing <=> mu = r

ConnectionInv ==
    \A s \in Connections :
        conn[s].pc \in {"start", "up", "closed"} => conn[s].id \in AuthIds /\ conn[s].client \in Clients

StoppedInv ==
    ~running =>
        /\ mu = None /\ held = {}
        /\ \A r \in Requests : req[r].pc = "idle"
        /\ \A s \in Connections : conn[s].pc \in {"none", "done"}

ShapeInv == Types /\ RequestInv /\ LockInv /\ ConnectionInv /\ StoppedInv

(***************************************************************************)
(* The holder of the lock is the only one that changes the provider, the   *)
(* cache and what was acknowledged: what it has written is the cache with  *)
(* its own change (WriteInv).  A server that stopped left nothing          *)
(* acknowledged out of a provider that can be read (StoredKept).           *)
(***************************************************************************)
Target(r) == [cache EXCEPT ![req[r].id] = IF req[r].op = "add" THEN req[r].pass ELSE None]

InStep == stored = cache \/ (stored = Torn /\ source = "file")

WriteInv ==
    \A r \in Requests :
        /\ req[r].pc \in Writing =>
            IF req[r].op = "add" THEN cache[req[r].id] = None ELSE kept[req[r].id] = None
        /\ req[r].pc = "write" => InStep
        /\ req[r].pc = "encode" => stored = Torn /\ source = "file" /\ req[r].pairs = Target(r)
        /\ req[r].pc = "cache" => stored = Target(r)

StoredKept ==
    ~running => \A a \in AuthIds : kept[a] # None => stored = Torn \/ stored[a] = kept[a]

CacheInv == WriteInv /\ StoredKept /\ KeptCredentials /\ CacheIsStored

(***************************************************************************)
(* A deletion that has looked the clients up finds every client of its     *)
(* credentials in its list, or it came late (Doomed).  A client that did   *)
(* not come late has one connection, the one the repository knows          *)
(* (OneObject), so that its termination brings nothing else back, and an   *)
(* operation that saves another object than that one makes it late.        *)
(***************************************************************************)
Deleting == Writing \cup {"force", "lock"}

Doomed ==
    \A r \in Requests, c \in Clients :
        req[r].op = "delete" /\ req[r].pc \in Deleting /\ known[c].id = req[r].id =>
            \/ c \in late
            \/ req[r].pc = "force" /\ <<c, known[c].object>> \in req[r].found

OneObject ==
    \A s \in Connections :
        LET c == conn[s].client IN
        conn[s].pc \in {"up", "closed"} /\ c \notin late /\ known[c].id # None =>
            known[c] = [id |-> conn[s].id, object |-> s]

StoredComplete ==
    ~running => \A c \in Clients :
        known[c].id # None /\ stored # Torn /\ stored[known[c].id] = None => c \in late

DeleteInv == Doomed /\ OneObject /\ StoredComplete /\ DeletionComplete

-----------------------------------------------------------------------------
LEMMA NoneIsNone ==
    /\ None \notin AuthIds /\ None \notin Passwords /\ None \notin Clients
    /\ None \notin Connections /\ None \notin Requests
    /\ Torn \notin Credentials
  BY ClientAuthAssumption DEF Credentials

\* NoRequest and the request of a post or a delete are requests.
LEMMA RequestTypes ==
    /\ NoRequest \in Request
    /\ \A a \in AuthIds, p \in Passwords :
        [NoRequest EXCEPT !.pc = "lock", !.op = "add", !.id = a, !.pass = p] \in Request
    /\ \A a \in AuthIds, f \in BOOLEAN :
        [NoRequest EXCEPT !.pc = "lookup", !.op = "delete", !.id = a, !.force = f] \in Request
  BY DEF NoRequest, Request

LEMMA ShapeInit == Init => ShapeInv
<1> SUFFICES ASSUME Init PROVE ShapeInv
  OBVIOUS
<1>1. NoConn \in Connection /\ Unknown \in Entry
  BY DEF NoConn, Connection, Unknown, Entry
<1>2. kept \in Credentials /\ stored \in Credentials
  BY DEF Init, Credentials
<1>3. Types
  BY <1>1, <1>2, RequestTypes, NoneIsNone DEF Init, Types
<1>4. NoRequest.pc = "idle" /\ NoConn.pc = "none"
  BY DEF NoRequest, NoConn
<1>5. RequestInv /\ LockInv /\ ConnectionInv /\ StoppedInv
  BY <1>4, NoneIsNone DEF Init, RequestInv, LockInv, ConnectionInv, StoppedInv, Writing
<1>6. QED
  BY <1>3, <1>5 DEF ShapeInv

\* What the steps of a request do to it.
LEMMA GoesFields ==
    ASSUME Types, NEW r \in Requests, NEW p \in {"lock", "write", "cache"}, Goes(r, p)
    PROVE  /\ req' \in [Requests -> Request]
           /\ \A q \in Requests : q # r => req'[q] = req[q]
           /\ req'[r].pc = p /\ req'[r].op = req[r].op /\ req'[r].id = req[r].id /\ req'[r].pass = req[r].pass
  BY DEF Goes, Types, Request

LEMMA EndsFields ==
    ASSUME Types, NEW r \in Requests, Ends(r)
    PROVE  /\ req' \in [Requests -> Request]
           /\ \A q \in Requests : q # r => req'[q] = req[q]
           /\ req'[r].pc = "idle"
<1>1. NoRequest.pc = "idle"
  BY DEF NoRequest
<1>2. QED
  BY <1>1, RequestTypes DEF Ends, Types

\* What a new request is about.
LEMMA NewRequest ==
    ASSUME Types, NEW r \in Requests, handlePostClientsAuth(r) \/ handleDeleteClientAuth(r)
    PROVE  /\ req' \in [Requests -> Request]
           /\ \A x \in Requests : x # r => req'[x] = req[x]
           /\ req'[r].id \in AuthIds
           /\ \/ req'[r].pc = "lock" /\ req'[r].op = "add" /\ req'[r].pass \in Passwords
              \/ req'[r].pc = "lookup" /\ req'[r].op = "delete"
<1>1. CASE handlePostClientsAuth(r)
  <2>1. PICK a \in AuthIds, p \in Passwords :
          req' = [req EXCEPT ![r] = [NoRequest EXCEPT !.pc = "lock", !.op = "add", !.id = a, !.pass = p]]
    BY <1>1 DEF handlePostClientsAuth
  <2> DEFINE q == [NoRequest EXCEPT !.pc = "lock", !.op = "add", !.id = a, !.pass = p]
  <2>2. q \in Request /\ q.pc = "lock" /\ q.op = "add" /\ q.id = a /\ q.pass = p
    BY RequestTypes DEF NoRequest
  <2>3. req' \in [Requests -> Request] /\ req'[r] = q /\ \A x \in Requests : x # r => req'[x] = req[x]
    BY <2>1, <2>2 DEF Types
  <2>4. QED
    BY <2>2, <2>3
<1>2. CASE handleDeleteClientAuth(r)
  <2>1. PICK a \in AuthIds, f \in BOOLEAN :
          req' = [req EXCEPT ![r] = [NoRequest EXCEPT !.pc = "lookup", !.op = "delete", !.id = a, !.force = f]]
    BY <1>2 DEF handleDeleteClientAuth
  <2> DEFINE q == [NoRequest EXCEPT !.pc = "lookup", !.op = "delete", !.id = a, !.force = f]
  <2>2. q \in Request /\ q.pc = "lookup" /\ q.op = "delete" /\ q.id = a
    BY RequestTypes DEF NoRequest
  <2>3. req' \in [Requests -> Request] /\ req'[r] = q /\ \A x \in Requests : x # r => req'[x] = req[x]
    BY <2>1, <2>2 DEF Types
  <2>4. QED
    BY <2>2, <2>3
<1>3. QED
  BY <1>1, <1>2

\* Every step keeps ShapeInv.
LEMMA ShapeStep == ShapeInv /\ [Next]_vars => ShapeInv'
<1> SUFFICES ASSUME ShapeInv, [Next]_vars PROVE ShapeInv'
  OBVIOUS
<1> USE NoneIsNone DEF ShapeInv, config, server, bans, Writing
<1>1. ASSUME NEW r \in Requests, handlePostClientsAuth(r) \/ handleDeleteClientAuth(r) PROVE ShapeInv'
  <2>1. UNCHANGED <<source, running, stored, cache, kept, mu, known, conn, held, late>> /\ running /\ req[r].pc = "idle"
    BY <1>1 DEF handlePostClientsAuth, handleDeleteClientAuth
  <2>2. QED
    BY <1>1, <2>1, NewRequest DEF Types, RequestInv, LockInv, ConnectionInv, StoppedInv
<1>3. ASSUME NEW r \in Requests, LooksUp(r) PROVE ShapeInv'
  <2>1. CASE Ends(r)
    BY <1>3, <2>1, EndsFields DEF LooksUp, Types, RequestInv, LockInv, ConnectionInv, StoppedInv
  <2>2. CASE req' = [req EXCEPT ![r].pc = "force", ![r].found = BoundClients(req[r].id)]
    <3> DEFINE n == [req[r] EXCEPT !.pc = "force", !.found = BoundClients(req[r].id)]
    <3>0. req' = [req EXCEPT ![r] = n] /\ req[r] \in Request
      BY <2>2 DEF Types
    <3>1. BoundClients(req[r].id) \in SUBSET (Clients \X (Connections \cup {None}))
      BY DEF BoundClients, Types, Entry
    <3>2. n \in Request /\ n.pc = "force" /\ n.op = req[r].op /\ n.id = req[r].id
      BY <3>0, <3>1 DEF Request
    <3> HIDE DEF n
    <3>2a. /\ req' \in [Requests -> Request] /\ req'[r] = n
           /\ \A x \in Requests : x # r => req'[x] = req[x]
      BY <3>0, <3>2 DEF Types
    <3>3. QED
      BY <1>3, <3>2, <3>2a DEF LooksUp, Types, RequestInv, LockInv, ConnectionInv, StoppedInv
  <2>3. QED
    BY <1>3, <2>1, <2>2 DEF LooksUp
<1>4. ASSUME NEW r \in Requests, ForceDeletes(r) PROVE ShapeInv'
  <2>1. CASE Ends(r) /\ UNCHANGED <<known, conn>>
    BY <1>4, <2>1, EndsFields DEF ForceDeletes, Types, RequestInv, LockInv, ConnectionInv, StoppedInv
  <2>2. ASSUME NEW x \in req[r].found,
               known' = [known EXCEPT ![x[1]] = Unknown],
               conn' = IF x[2] # None /\ conn[x[2]].pc = "up" THEN [conn EXCEPT ![x[2]].pc = "closed"] ELSE conn,
               req' = [req EXCEPT ![r].found = @ \ {x}]
        PROVE  ShapeInv'
    <3>1. /\ req' \in [Requests -> Request]
          /\ \A q \in Requests : q # r => req'[q] = req[q]
          /\ req'[r].pc = req[r].pc /\ req'[r].op = req[r].op /\ req'[r].id = req[r].id
      BY <2>2 DEF Types, Request
    <3>2. known' \in [Clients -> Entry]
      BY <2>2 DEF Types, Unknown, Entry
    <3>3. x[2] # None => x[2] \in Connections
      BY <2>2 DEF Types, Request
    <3>4. /\ conn' \in [Connections -> Connection]
          /\ \A s \in Connections : conn'[s].id = conn[s].id /\ conn'[s].client = conn[s].client
          /\ \A s \in Connections : conn'[s].pc = conn[s].pc \/ (conn[s].pc = "up" /\ conn'[s].pc = "closed")
      BY <2>2, <3>3 DEF Types, Connection
    <3>5. QED
      BY <1>4, <3>1, <3>2, <3>4 DEF ForceDeletes, Types, RequestInv, LockInv, ConnectionInv, StoppedInv
  <2>3. QED
    BY <1>4, <2>1, <2>2 DEF ForceDeletes
<1>5. ASSUME NEW r \in Requests, ForceDeleted(r) PROVE ShapeInv'
  BY <1>5, GoesFields DEF ForceDeleted, Types, RequestInv, LockInv, ConnectionInv, StoppedInv
<1>6. ASSUME NEW r \in Requests, Locks(r) PROVE ShapeInv'
  <2>1. kept' \in Credentials
    BY <1>6 DEF Locks, Types, Credentials
  <2>2. CASE Ends(r) /\ mu' = mu
    BY <1>6, <2>1, <2>2, EndsFields DEF Locks, Types, RequestInv, LockInv, ConnectionInv, StoppedInv
  <2>3. CASE Goes(r, "write") /\ mu' = r
    BY <1>6, <2>1, <2>3, GoesFields DEF Locks, Types, RequestInv, LockInv, ConnectionInv, StoppedInv
  <2>4. QED
    BY <1>6, <2>2, <2>3 DEF Locks
<1>7. ASSUME NEW r \in Requests, WritesTable(r) PROVE ShapeInv'
  <2>1. stored # Torn => Written(r) \in Credentials
    BY <1>7 DEF WritesTable, Written, Types, RequestInv, Credentials
  <2>2. QED
    BY <1>7, <2>1, GoesFields DEF WritesTable, Types, RequestInv, LockInv, ConnectionInv, StoppedInv
<1>8. ASSUME NEW r \in Requests, LoadsFile(r) PROVE ShapeInv'
  <2>1. CASE Goes(r, "cache") /\ UNCHANGED stored
    BY <1>8, <2>1, GoesFields DEF LoadsFile, Types, RequestInv, LockInv, ConnectionInv, StoppedInv
  <2>2. CASE req' = [req EXCEPT ![r].pc = "encode", ![r].pairs = Written(r)] /\ stored' = Torn
    <3> DEFINE n == [req[r] EXCEPT !.pc = "encode", !.pairs = Written(r)]
    <3>0. req' = [req EXCEPT ![r] = n] /\ req[r] \in Request
      BY <2>2 DEF Types
    <3>1. Written(r) \in Credentials
      BY <1>8 DEF LoadsFile, Written, Types, RequestInv, Credentials
    <3>2. /\ n \in Request /\ n.pc = "encode" /\ n.op = req[r].op /\ n.id = req[r].id
          /\ n.pass = req[r].pass /\ n.pairs = Written(r)
      BY <3>0, <3>1 DEF Request
    <3> HIDE DEF n
    <3>2a. /\ req' \in [Requests -> Request] /\ req'[r] = n
           /\ \A x \in Requests : x # r => req'[x] = req[x]
      BY <3>0, <3>2 DEF Types
    <3>3. QED
      BY <1>8, <2>2, <3>1, <3>2, <3>2a DEF LoadsFile, Types, RequestInv, LockInv, ConnectionInv, StoppedInv
  <2>3. QED
    BY <1>8, <2>1, <2>2 DEF LoadsFile
<1>9. ASSUME NEW r \in Requests, Encodes(r) PROVE ShapeInv'
  <2> DEFINE n == [req[r] EXCEPT !.pc = "cache", !.pairs = None]
  <2>0. req' = [req EXCEPT ![r] = n] /\ req[r] \in Request
    BY <1>9 DEF Encodes, Types
  <2>1. /\ n \in Request /\ n.pc = "cache" /\ n.op = req[r].op /\ n.id = req[r].id
        /\ n.pass = req[r].pass
    BY <2>0 DEF Request
  <2> HIDE DEF n
  <2>1a. /\ req' \in [Requests -> Request] /\ req'[r] = n
         /\ \A x \in Requests : x # r => req'[x] = req[x]
    BY <2>0, <2>1 DEF Types
  <2>2. stored' \in Credentials
    BY <1>9 DEF Encodes, RequestInv
  <2>3. QED
    BY <1>9, <2>1, <2>1a, <2>2 DEF Encodes, Types, RequestInv, LockInv, ConnectionInv, StoppedInv
<1>10. ASSUME NEW r \in Requests, ReturnsError(r) PROVE ShapeInv'
  BY <1>10, EndsFields DEF ReturnsError, Types, RequestInv, LockInv, ConnectionInv, StoppedInv
<1>11. ASSUME NEW r \in Requests, Caches(r) PROVE ShapeInv'
  <2>1. cache' \in Credentials /\ kept' \in Credentials
    BY <1>11 DEF Caches, Types, RequestInv, Credentials
  <2>2. QED
    BY <1>11, <2>1, EndsFields DEF Caches, Types, RequestInv, LockInv, ConnectionInv, StoppedInv
<1>12. ASSUME NEW s \in Connections, Authenticates(s) PROVE ShapeInv'
  <2>1. /\ conn' \in [Connections -> Connection]
        /\ \A x \in Connections : x # s => conn'[x] = conn[x]
        /\ conn'[s].pc = "start" => conn'[s].id \in AuthIds /\ conn'[s].client \in Clients
        /\ conn'[s].pc \in {"start", "done"}
    BY <1>12 DEF Authenticates, Types, Connection
  <2>2. QED
    BY <1>12, <2>1 DEF Authenticates, Types, RequestInv, LockInv, ConnectionInv, StoppedInv
<1>13. ASSUME NEW s \in Connections, StartsClient(s) PROVE ShapeInv'
  <2>1. conn[s].id \in AuthIds /\ conn[s].client \in Clients
    BY <1>13 DEF StartsClient, ConnectionInv
  <2>2. /\ conn' \in [Connections -> Connection]
        /\ \A x \in Connections : x # s => conn'[x] = conn[x]
        /\ conn'[s].pc \in {"up", "done"} /\ conn'[s].id = conn[s].id /\ conn'[s].client = conn[s].client
    BY <1>13 DEF StartsClient, Types, Connection
  <2>3. known' \in [Clients -> Entry] /\ late' \subseteq Clients
    BY <1>13, <2>1 DEF StartsClient, Types, Entry
  <2>4. QED
    BY <1>13, <2>1, <2>2, <2>3 DEF StartsClient, Types, RequestInv, LockInv, ConnectionInv, StoppedInv
<1>14. ASSUME NEW s \in Connections, Closes(s) \/ Terminates(s) PROVE ShapeInv'
  <2>1. conn[s].id \in AuthIds /\ conn[s].client \in Clients
    BY <1>14 DEF Closes, Terminates, ConnectionInv
  <2>2. /\ conn' \in [Connections -> Connection]
        /\ \A x \in Connections : x # s => conn'[x] = conn[x]
        /\ conn'[s].pc \in {"closed", "done"} /\ conn'[s].id = conn[s].id /\ conn'[s].client = conn[s].client
    BY <1>14 DEF Closes, Terminates, Types, Connection
  <2>3. known' \in [Clients -> Entry]
    BY <1>14, <2>1 DEF Closes, Terminates, Types, Entry, Unknown
  <2>4. UNCHANGED <<source, running, stored, cache, kept, mu, req, held, late>> /\ conn[s].pc \in {"up", "closed"}
    BY <1>14 DEF Closes, Terminates
  <2>5. QED
    BY <2>1, <2>2, <2>3, <2>4 DEF Types, RequestInv, LockInv, ConnectionInv, StoppedInv
<1>15. CASE BanEnds
  BY <1>15 DEF BanEnds, Types, RequestInv, LockInv, ConnectionInv, StoppedInv
<1>16. CASE Stops
  <2>1. NoRequest.pc = "idle" /\ NoRequest \in Request /\ NoConn \in Connection /\ NoConn.pc = "none"
    BY RequestTypes DEF NoRequest, NoConn, Connection
  <2>2. req' \in [Requests -> Request] /\ \A r \in Requests : req'[r].pc = "idle"
    BY <1>16, <2>1 DEF Stops
  <2>3. conn' \in [Connections -> Connection] /\ \A s \in Connections : conn'[s].pc \in {"none", "done"}
    BY <1>16, <2>1 DEF Stops, Types, Connection
  <2>4. QED
    BY <1>16, <2>2, <2>3 DEF Stops, Types, RequestInv, LockInv, ConnectionInv, StoppedInv
<1>17. CASE Starts
  BY <1>17 DEF Starts, NewCachedProvider, Types, RequestInv, LockInv, ConnectionInv, StoppedInv
<1>18. CASE Repairs
  BY <1>18 DEF Repairs, Types, RequestInv, LockInv, ConnectionInv, StoppedInv
<1>19. CASE UNCHANGED vars
  BY <1>19 DEF vars, Types, RequestInv, LockInv, ConnectionInv, StoppedInv
<1>20. ASSUME NEW c \in Clients, FindsClient(c) PROVE ShapeInv'
  BY <1>20 DEF FindsClient, Types, RequestInv, LockInv, ConnectionInv, StoppedInv
<1>21. ASSUME NEW x \in held, SavesFound(x) PROVE ShapeInv'
  <2>1. known' \in [Clients -> Entry] /\ late' \subseteq Clients /\ held' \subseteq held /\ running
    BY <1>21 DEF SavesFound, Types, StoppedInv
  <2>2. UNCHANGED <<source, running, stored, cache, kept, mu, req, conn>>
    BY <1>21 DEF SavesFound
  <2>3. QED
    BY <2>1, <2>2 DEF Types, RequestInv, LockInv, ConnectionInv, StoppedInv
<1>22. QED
  BY <1>1, <1>3, <1>4, <1>5, <1>6, <1>7, <1>8, <1>9, <1>10, <1>11, <1>12, <1>13, <1>14,
     <1>15, <1>16, <1>17, <1>18, <1>19, <1>20, <1>21 DEF Next

-----------------------------------------------------------------------------
\* A step that leaves the provider, the cache and the requests that write alone keeps CacheInv.
LEMMA CacheFrame ==
    ASSUME CacheInv, UNCHANGED <<source, running, stored, cache, kept, mu>>,
           \A r \in Requests : req'[r].pc \in Writing => req'[r] = req[r]
    PROVE  CacheInv'
<1>1. WriteInv'
  BY DEF CacheInv, WriteInv, InStep, Target, Writing
<1>2. StoredKept' /\ KeptCredentials' /\ CacheIsStored'
  BY DEF CacheInv, StoredKept, KeptCredentials, CacheIsStored
<1>3. QED
  BY <1>1, <1>2 DEF CacheInv

\* The steps of a request before it takes the lock, and those of the connections.
LEMMA QuietSteps ==
    ASSUME Types,
           \/ \E r \in Requests : \/ handlePostClientsAuth(r) \/ handleDeleteClientAuth(r) \/ LooksUp(r)
                                  \/ ForceDeletes(r) \/ ForceDeleted(r)
           \/ \E s \in Connections : Authenticates(s) \/ StartsClient(s) \/ Closes(s) \/ Terminates(s)
           \/ \E c \in Clients : FindsClient(c)
           \/ \E x \in held : SavesFound(x)
           \/ BanEnds \/ UNCHANGED vars
    PROVE  /\ UNCHANGED <<source, running, stored, cache, kept, mu>>
           /\ \A r \in Requests : req'[r].pc \in Writing => req'[r] = req[r]
<1> USE DEF config, server, bans, Writing
<1>1. ASSUME NEW r \in Requests,
             \/ handlePostClientsAuth(r) \/ handleDeleteClientAuth(r) \/ LooksUp(r)
             \/ ForceDeletes(r) \/ ForceDeleted(r)
      PROVE  /\ UNCHANGED <<source, running, stored, cache, kept, mu>>
             /\ \A q \in Requests : req'[q].pc \in Writing => req'[q] = req[q]
  <2>1. UNCHANGED <<source, running, stored, cache, kept, mu>>
    BY <1>1, ZenonT(60) DEF handlePostClientsAuth, handleDeleteClientAuth, LooksUp, ForceDeletes, ForceDeleted
  <2>2. \A q \in Requests : q # r => req'[q] = req[q]
    BY <1>1 DEF handlePostClientsAuth, handleDeleteClientAuth, LooksUp, ForceDeletes, ForceDeleted,
                Goes, Ends, Types
  <2>3. req'[r].pc \in {"idle", "lookup", "force", "lock"}
    <3>1. CASE handlePostClientsAuth(r) \/ handleDeleteClientAuth(r)
      BY <3>1, NewRequest
    <3>2. CASE LooksUp(r)
      BY <3>2 DEF LooksUp, Ends, NoRequest, Types, Request
    <3>3. CASE ForceDeletes(r)
      <4>1. CASE Ends(r)
        BY <4>1, EndsFields
      <4>2. ASSUME NEW x \in req[r].found, req' = [req EXCEPT ![r].found = @ \ {x}]
            PROVE  req'[r].pc = req[r].pc
        BY <4>2 DEF Types, Request
      <4>3. QED
        BY <3>3, <4>1, <4>2 DEF ForceDeletes
    <3>4. CASE ForceDeleted(r)
      BY <3>4 DEF ForceDeleted, Goes, Types, Request
    <3>5. QED
      BY <1>1, <3>1, <3>2, <3>3, <3>4
  <2>4. QED
    BY <2>1, <2>2, <2>3, SMTT(30)
<1>2. ASSUME NEW s \in Connections, Authenticates(s) \/ StartsClient(s) \/ Closes(s) \/ Terminates(s)
      PROVE  UNCHANGED <<source, running, stored, cache, kept, mu, req>>
  BY <1>2 DEF Authenticates, StartsClient, Closes, Terminates
<1>3. ASSUME BanEnds \/ UNCHANGED vars
      PROVE  UNCHANGED <<source, running, stored, cache, kept, mu, req>>
  BY <1>3 DEF BanEnds, vars
<1>4. ASSUME (\E c \in Clients : FindsClient(c)) \/ (\E x \in held : SavesFound(x))
      PROVE  UNCHANGED <<source, running, stored, cache, kept, mu, req>>
  BY <1>4 DEF FindsClient, SavesFound
<1>5. QED
  BY <1>1, <1>2, <1>3, <1>4

\* Every step keeps CacheInv.
LEMMA CacheStep == ShapeInv /\ CacheInv /\ [Next]_vars => CacheInv'
<1> SUFFICES ASSUME ShapeInv, CacheInv, [Next]_vars PROVE CacheInv'
  OBVIOUS
<1> USE NoneIsNone DEF ShapeInv, config, server, bans, Writing
<1>1. ASSUME NEW r \in Requests, Locks(r) PROVE CacheInv'
  <2>1. running /\ InStep /\ req[r].id \in AuthIds /\ mu = None
    BY <1>1 DEF Locks, CacheInv, CacheIsStored, InStep, StoppedInv, RequestInv
  <2>2. UNCHANGED <<source, running, stored, cache>>
    BY <1>1 DEF Locks
  <2>3. \A q \in Requests : q # r => req'[q].pc \notin Writing
    BY <1>1, <2>1, EndsFields, GoesFields DEF Locks, LockInv
  <2>4. \A a \in AuthIds : kept'[a] # None => kept'[a] = kept[a]
    BY <1>1, <2>1 DEF Locks, Types, Credentials
  <2>5. CASE Ends(r) /\ mu' = mu
    <3>1. \A q \in Requests : req'[q].pc \notin Writing
      BY <2>3, <2>5, EndsFields
    <3>2. QED
      BY <2>1, <2>2, <2>4, <3>1
         DEF CacheInv, WriteInv, StoredKept, KeptCredentials, CacheIsStored, InStep
  <2>6. CASE ~(req[r].op = "add" /\ cache[req[r].id] # None) /\ Goes(r, "write") /\ mu' = r
    <3>1. /\ req'[r].pc = "write" /\ req'[r].op = req[r].op /\ req'[r].id = req[r].id
      BY <2>6, GoesFields
    <3>2. req[r].op # "add" => kept'[req[r].id] = None
      BY <1>1, <2>1 DEF Locks, RequestInv, Types, Credentials
    <3>3. WriteInv'
      BY <2>1, <2>2, <2>3, <2>6, <3>1, <3>2 DEF WriteInv, InStep
    <3>4. QED
      BY <2>1, <2>2, <2>4, <2>6, <3>3 DEF CacheInv, StoredKept, KeptCredentials, CacheIsStored
  <2>7. QED
    BY <1>1, <2>5, <2>6 DEF Locks
<1>2. ASSUME NEW r \in Requests, mu = r, req[r].pc \in Writing, req'[r].pc \in {"encode", "cache"},
             req'[r].op = req[r].op, req'[r].id = req[r].id, req'[r].pass = req[r].pass,
             \A q \in Requests : q # r => req'[q] = req[q],
             UNCHANGED <<source, running, cache, kept, mu>>,
             req'[r].pc = "encode" => stored' = Torn /\ source = "file" /\ req'[r].pairs = Target(r),
             req'[r].pc = "cache" => stored' = Target(r)
      PROVE  CacheInv'
  <2>1. running
    BY <1>2 DEF StoppedInv
  <2>2. \A q \in Requests : q # r => req[q].pc \notin Writing
    BY <1>2 DEF LockInv
  <2>3. WriteInv'
    <3>1. \A q \in Requests : q # r => req'[q].pc \notin Writing
      BY <1>2, <2>2
    <3>2. Target(r)' = Target(r)
      BY <1>2 DEF Target
    <3>3. IF req'[r].op = "add" THEN cache'[req'[r].id] = None ELSE kept'[req'[r].id] = None
      BY <1>2 DEF CacheInv, WriteInv
    <3>4. QED
      BY <1>2, <3>1, <3>2, <3>3 DEF WriteInv
  <2>4. QED
    BY <1>2, <2>1, <2>3 DEF CacheInv, StoredKept, KeptCredentials, CacheIsStored
<1>3. ASSUME NEW r \in Requests, req[r].pc = "write", stored # Torn PROVE Written(r) = Target(r)
  <2>1. stored = cache /\ (req[r].op = "add" => cache[req[r].id] = None) /\ req[r].id \in AuthIds
    BY <1>3 DEF CacheInv, WriteInv, InStep, RequestInv
  <2>2. req[r].op \in {"add", "delete"}
    BY <1>3 DEF RequestInv
  <2>3. QED
    BY <2>1, <2>2 DEF Written, Target, Types, Credentials
<1>4. ASSUME NEW r \in Requests, WritesTable(r) PROVE CacheInv'
  <2>1. stored # Torn /\ mu = r
    BY <1>4 DEF WritesTable, Types, LockInv
  <2>2. stored' = Target(r)
    BY <1>3, <1>4, <2>1 DEF WritesTable
  <2>3. UNCHANGED <<source, running, cache, kept, mu>> /\ Goes(r, "cache") /\ req[r].pc = "write"
    BY <1>4 DEF WritesTable
  <2>4. QED
    BY <1>2, <2>1, <2>2, <2>3, GoesFields
<1>5. ASSUME NEW r \in Requests, LoadsFile(r) PROVE CacheInv'
  <2>1. stored # Torn /\ mu = r /\ req[r].pc = "write" /\ source = "file"
        /\ UNCHANGED <<source, running, cache, kept, mu>>
    BY <1>5 DEF LoadsFile, LockInv
  <2>2. ~(req[r].op = "add" /\ stored[req[r].id] # None)
    BY <2>1 DEF CacheInv, WriteInv, InStep
  <2>3. req' = [req EXCEPT ![r].pc = "encode", ![r].pairs = Written(r)] /\ stored' = Torn
    BY <1>5, <2>2 DEF LoadsFile
  <2> DEFINE n == [req[r] EXCEPT !.pc = "encode", !.pairs = Written(r)]
  <2>4. req' = [req EXCEPT ![r] = n] /\ req[r] \in Request
    BY <2>3 DEF Types
  <2>5. /\ n.pc = "encode" /\ n.op = req[r].op /\ n.id = req[r].id
        /\ n.pass = req[r].pass /\ n.pairs = Written(r)
    BY <2>4 DEF Request
  <2> HIDE DEF n
  <2>6. req'[r] = n /\ \A q \in Requests : q # r => req'[q] = req[q]
    BY <2>4 DEF Types
  <2>7. Written(r) = Target(r)
    BY <1>3, <2>1
  <2>8. QED
    BY <1>2, <2>1, <2>3, <2>5, <2>6, <2>7
<1>6. ASSUME NEW r \in Requests, Encodes(r) PROVE CacheInv'
  <2>1. /\ mu = r /\ req[r].pc = "encode" /\ stored' = Target(r)
        /\ UNCHANGED <<source, running, cache, kept, mu>>
    BY <1>6 DEF Encodes, LockInv, CacheInv, WriteInv
  <2> DEFINE n == [req[r] EXCEPT !.pc = "cache", !.pairs = None]
  <2>2. req' = [req EXCEPT ![r] = n] /\ req[r] \in Request
    BY <1>6 DEF Encodes, Types
  <2>3. n.pc = "cache" /\ n.op = req[r].op /\ n.id = req[r].id /\ n.pass = req[r].pass
    BY <2>2 DEF Request
  <2> HIDE DEF n
  <2>4. req'[r] = n /\ \A q \in Requests : q # r => req'[q] = req[q]
    BY <2>2 DEF Types
  <2>5. QED
    BY <1>2, <2>1, <2>3, <2>4
<1>7. ASSUME NEW r \in Requests, ReturnsError(r) PROVE CacheInv'
  <2>1. /\ mu = r /\ InStep /\ running /\ mu' = None /\ Ends(r)
        /\ UNCHANGED <<source, running, stored, cache, kept>>
    BY <1>7 DEF ReturnsError, LockInv, CacheInv, WriteInv, InStep, StoppedInv
  <2>2. \A q \in Requests : req'[q].pc \notin Writing
    BY <2>1, EndsFields DEF LockInv
  <2>3. QED
    BY <2>1, <2>2 DEF CacheInv, WriteInv, StoredKept, KeptCredentials, CacheIsStored, InStep
<1>8. ASSUME NEW r \in Requests, Caches(r) PROVE CacheInv'
  <2>1. /\ mu = r /\ running /\ mu' = None /\ Ends(r) /\ req[r].id \in AuthIds
        /\ UNCHANGED <<source, running, stored>>
        /\ cache' = Target(r) /\ stored = Target(r)
    BY <1>8 DEF Caches, LockInv, CacheInv, WriteInv, StoppedInv, RequestInv, Target
  <2>2. \A q \in Requests : req'[q].pc \notin Writing
    BY <2>1, EndsFields DEF LockInv
  <2>3. \A a \in AuthIds : kept'[a] # None => cache'[a] = kept'[a]
    BY <1>8, <2>1 DEF Caches, Target, CacheInv, KeptCredentials, Types, Credentials
  <2>4. QED
    BY <2>1, <2>2, <2>3 DEF CacheInv, WriteInv, StoredKept, KeptCredentials, CacheIsStored
<1>9. CASE Stops
  <2>1. /\ running /\ ~running' /\ UNCHANGED <<source, stored, cache, kept>>
        /\ \A r \in Requests : req'[r].pc \notin Writing
    BY <1>9 DEF Stops, NoRequest
  <2>2. StoredKept'
    <3> SUFFICES ASSUME NEW a \in AuthIds, kept[a] # None PROVE stored = Torn \/ stored[a] = kept[a]
      BY <2>1 DEF StoredKept
    <3>1. cache[a] = kept[a]
      BY <2>1 DEF CacheInv, KeptCredentials
    <3>2. CASE mu = None
      BY <2>1, <3>1, <3>2 DEF CacheInv, CacheIsStored
    <3>3. CASE mu # None
      <4>1. PICK r \in Requests : mu = r /\ req[r].pc \in Writing
        BY <3>3 DEF Types, LockInv
      <4>2. stored = cache \/ stored = Torn \/ stored = Target(r)
        BY <4>1 DEF CacheInv, WriteInv, InStep
      <4>3. a # req[r].id
        BY <3>1, <4>1 DEF CacheInv, WriteInv
      <4>4. QED
        BY <3>1, <4>2, <4>3 DEF Target, Types, Credentials
    <3>4. QED
      BY <3>2, <3>3
  <2>3. QED
    BY <2>1, <2>2 DEF CacheInv, WriteInv, KeptCredentials, CacheIsStored
<1>10. CASE Starts
  BY <1>10 DEF Starts, NewCachedProvider, CacheInv, WriteInv, StoredKept, KeptCredentials, CacheIsStored,
              StoppedInv
<1>11. CASE Repairs
  BY <1>11 DEF Repairs, CacheInv, WriteInv, StoredKept, KeptCredentials, CacheIsStored, StoppedInv
<1>12. QED
  BY <1>1, <1>4, <1>5, <1>6, <1>7, <1>8, <1>9, <1>10, <1>11, QuietSteps, CacheFrame DEF Next

-----------------------------------------------------------------------------
\* A step of requests that finds no clients anew keeps DeleteInv.
LEMMA DeleteFrame ==
    ASSUME DeleteInv, running, UNCHANGED <<running, cache, known, conn, late>>,
           \A q \in Requests : req'[q].op = "delete" /\ req'[q].pc \in Deleting =>
                /\ req[q].op = "delete" /\ req[q].pc \in Deleting /\ req'[q].id = req[q].id
                /\ req[q].pc = "force" => req'[q] = req[q] \/ req[q].found = {}
    PROVE  DeleteInv'
<1>1. Doomed'
  <2> SUFFICES ASSUME NEW q \in Requests, NEW c \in Clients, req'[q].op = "delete", req'[q].pc \in Deleting,
                      known[c].id = req'[q].id, c \notin late
               PROVE  req'[q].pc = "force" /\ <<c, known[c].object>> \in req'[q].found
    BY DEF Doomed
  <2>1. /\ req[q].op = "delete" /\ req[q].pc \in Deleting /\ req'[q].id = req[q].id
        /\ req[q].pc = "force" => req'[q] = req[q] \/ req[q].found = {}
    OBVIOUS
  <2>2. req[q].pc = "force" /\ <<c, known[c].object>> \in req[q].found
    BY <2>1 DEF DeleteInv, Doomed
  <2>3. QED
    BY <2>1, <2>2
<1>2. OneObject' /\ StoredComplete' /\ DeletionComplete'
  BY DEF DeleteInv, OneObject, StoredComplete, DeletionComplete
<1>3. QED
  BY <1>1, <1>2 DEF DeleteInv

\* StartClient of a client: its registration is late, or nothing that is under way concerns it.
LEMMA StartsClientDelete ==
    ASSUME ShapeInv, DeleteInv, NEW s \in Connections, StartsClient(s)
    PROVE  DeleteInv'
<1> USE NoneIsNone DEF ShapeInv, config, server, bans, Writing
<1> DEFINE c0 == conn[s].client
           a0 == conn[s].id
<1>1. a0 \in AuthIds /\ c0 \in Clients /\ conn[s].pc = "start" /\ UNCHANGED <<running, stored, cache, req>>
  BY DEF StartsClient, ConnectionInv
<1>2. running
  BY <1>1 DEF StoppedInv
<1>3. CASE conn' = [conn EXCEPT ![s].pc = "done"] /\ UNCHANGED <<known, late>>
  <2>1. /\ \A x \in Connections : x # s => conn'[x] = conn[x]
        /\ conn'[s].pc = "done"
    BY <1>3 DEF Types, Connection
  <2>2. QED
    BY <1>1, <1>2, <1>3, <2>1 DEF DeleteInv, Doomed, OneObject, StoredComplete, DeletionComplete
<1>4. CASE /\ known' = [known EXCEPT ![c0] = [id |-> a0, object |-> s]]
           /\ conn' = [conn EXCEPT ![s].pc = "up"]
           /\ late' = IF ComesLate(s) THEN late \cup {c0} ELSE late \ {c0}
  <2>1. /\ \A x \in Connections : x # s => conn'[x] = conn[x]
        /\ conn'[s].pc = "up" /\ conn'[s].id = a0 /\ conn'[s].client = c0
    BY <1>4 DEF Types, Connection
  <2>2. /\ known'[c0] = [id |-> a0, object |-> s]
        /\ \A c \in Clients : c # c0 => known'[c] = known[c] /\ (c \in late' <=> c \in late)
    BY <1>1, <1>4 DEF Types
  <2>3. known'[c0].id = a0
    BY <2>2
  <2>4. c0 \in late' <=> ComesLate(s)
    BY <1>4
  <2>5. Doomed'
    <3> SUFFICES ASSUME NEW q \in Requests, NEW c \in Clients, req[q].op = "delete", req[q].pc \in Deleting,
                        known'[c].id = req[q].id, c \notin late'
                 PROVE  req[q].pc = "force" /\ <<c, known'[c].object>> \in req[q].found
      BY <1>1 DEF Doomed
    <3>1. c # c0
      BY <2>3, <2>4 DEF ComesLate, Deleting
    <3>2. QED
      BY <2>2, <3>1 DEF DeleteInv, Doomed
  <2>6. OneObject'
    <3> SUFFICES ASSUME NEW x \in Connections, conn'[x].pc \in {"up", "closed"}, conn'[x].client \notin late',
                        known'[conn'[x].client].id # None
                 PROVE  known'[conn'[x].client] = [id |-> conn'[x].id, object |-> x]
      BY DEF OneObject
    <3>1. CASE x = s
      BY <2>1, <2>2, <3>1
    <3>2. CASE x # s
      <4>1. conn'[x] = conn[x] /\ conn[x].client \in Clients
        BY <2>1, <3>2 DEF ConnectionInv
      <4>2. conn[x].client # c0
        BY <2>4, <3>2, <4>1 DEF ComesLate, Active
      <4>3. QED
        BY <2>2, <4>1, <4>2 DEF DeleteInv, OneObject
    <3>3. QED
      BY <3>1, <3>2
  <2>7. StoredComplete' /\ DeletionComplete'
    BY <1>1, <1>2, <2>2, <2>3, <2>4 DEF StoredComplete, DeletionComplete, DeleteInv, ComesLate
  <2>8. QED
    BY <2>5, <2>6, <2>7 DEF DeleteInv
<1>5. QED
  BY <1>3, <1>4 DEF StartsClient

\* Terminate of a client that did not come late changes nothing in the repository.
LEMMA TerminatesDelete ==
    ASSUME ShapeInv, DeleteInv, NEW s \in Connections, Terminates(s)
    PROVE  DeleteInv'
<1> USE NoneIsNone DEF ShapeInv, config, server, bans, Writing
<1> DEFINE c0 == conn[s].client
<1>1. /\ c0 \in Clients /\ conn[s].pc = "closed" /\ UNCHANGED <<running, stored, cache, req, late>>
      /\ conn[s].id \in AuthIds
  BY DEF Terminates, ConnectionInv
<1>2. running
  BY <1>1 DEF StoppedInv
<1>3. /\ \A x \in Connections : x # s => conn'[x] = conn[x]
      /\ conn'[s].pc = "done"
  BY DEF Terminates, Types, Connection
<1>4. \A c \in Clients : c # c0 => known'[c] = known[c]
  BY <1>1 DEF Terminates, Types
<1>5. known'[c0] = IF known[c0].id = None THEN Unknown ELSE [id |-> conn[s].id, object |-> s]
  BY <1>1 DEF Terminates, Types
<1>6. Unknown.id = None
  BY DEF Unknown
<1>7. c0 \notin late => known'[c0] = known[c0] \/ (known[c0].id = None /\ known'[c0].id = None)
  BY <1>1, <1>5, <1>6 DEF DeleteInv, OneObject
<1>8. \A c \in Clients : c \notin late => known'[c] = known[c] \/ (known[c].id = None /\ known'[c].id = None)
  BY <1>4, <1>7
<1>9. Doomed'
  <2> SUFFICES ASSUME NEW q \in Requests, NEW c \in Clients, req[q].op = "delete", req[q].pc \in Deleting,
                      known'[c].id = req[q].id, c \notin late
               PROVE  req[q].pc = "force" /\ <<c, known'[c].object>> \in req[q].found
    BY <1>1 DEF Doomed
  <2>1. req[q].id \in AuthIds
    BY DEF RequestInv, Deleting
  <2>2. known'[c] = known[c]
    BY <1>8, <2>1
  <2>3. QED
    BY <2>2 DEF DeleteInv, Doomed
<1>10. OneObject'
  <2> SUFFICES ASSUME NEW x \in Connections, conn'[x].pc \in {"up", "closed"}, conn'[x].client \notin late,
                      known'[conn'[x].client].id # None
               PROVE  known'[conn'[x].client] = [id |-> conn'[x].id, object |-> x]
    BY <1>1 DEF OneObject
  <2>1. conn'[x] = conn[x] /\ conn[x].client \in Clients
    BY <1>3 DEF ConnectionInv
  <2>2. QED
    BY <1>8, <2>1 DEF DeleteInv, OneObject
<1>11. StoredComplete' /\ DeletionComplete'
  BY <1>1, <1>2, <1>8 DEF DeleteInv, StoredComplete, DeletionComplete
<1>12. QED
  BY <1>9, <1>10, <1>11 DEF DeleteInv

\* An operation saves the object that the repository has, which changes nothing, or one that makes
\* its client late.
LEMMA SavesFoundDelete ==
    ASSUME ShapeInv, DeleteInv, NEW x \in held, SavesFound(x)
    PROVE  DeleteInv'
<1> USE NoneIsNone DEF ShapeInv, config, server, bans, Writing
<1>1. running /\ UNCHANGED <<running, stored, cache, req, conn>> /\ x[1] \in Clients /\ known \in [Clients -> Entry]
  BY DEF SavesFound, StoppedInv, Types
<1>2. late \subseteq late' /\ \A c \in Clients : c \notin late' => known'[c] = known[c]
  BY <1>1 DEF SavesFound
<1>3. Doomed'
  BY <1>1, <1>2 DEF DeleteInv, Doomed
<1>4. OneObject'
  <2> SUFFICES ASSUME NEW y \in Connections, conn[y].pc \in {"up", "closed"}, conn[y].client \notin late',
                      known'[conn[y].client].id # None
               PROVE  known'[conn[y].client] = [id |-> conn[y].id, object |-> y]
    BY <1>1 DEF OneObject
  <2>1. conn[y].client \in Clients
    BY DEF ConnectionInv
  <2>2. QED
    BY <1>2, <2>1 DEF DeleteInv, OneObject
<1>5. StoredComplete' /\ DeletionComplete'
  BY <1>1, <1>2 DEF DeleteInv, StoredComplete, DeletionComplete
<1>6. QED
  BY <1>3, <1>4, <1>5 DEF DeleteInv

\* The deletion of one client from the repository.
LEMMA ForceDeletesDelete ==
    ASSUME ShapeInv, DeleteInv, NEW r \in Requests, ForceDeletes(r)
    PROVE  DeleteInv'
<1> USE NoneIsNone DEF ShapeInv, config, server, bans, Writing
<1>1. running /\ req[r].pc = "force" /\ UNCHANGED <<running, stored, cache, late>>
  BY DEF ForceDeletes, StoppedInv
<1>2. CASE Ends(r) /\ UNCHANGED <<known, conn>>
  BY <1>1, <1>2, EndsFields, DeleteFrame DEF Deleting
<1>3. ASSUME NEW x \in req[r].found,
             known' = [known EXCEPT ![x[1]] = Unknown],
             conn' = IF x[2] # None /\ conn[x[2]].pc = "up" THEN [conn EXCEPT ![x[2]].pc = "closed"] ELSE conn,
             req' = [req EXCEPT ![r].found = @ \ {x}]
      PROVE  DeleteInv'
  <2>1. /\ \A q \in Requests : q # r => req'[q] = req[q]
        /\ req'[r].pc = req[r].pc /\ req'[r].op = req[r].op /\ req'[r].id = req[r].id
        /\ req'[r].found = req[r].found \ {x}
    BY <1>3 DEF Types, Request
  <2>2. x[1] \in Clients /\ (x[2] # None => x[2] \in Connections)
    BY <1>3 DEF Types, Request
  <2>3. known'[x[1]].id = None /\ \A c \in Clients : c # x[1] => known'[c] = known[c]
    BY <1>3, <2>2 DEF Types, Unknown
  <2>4. \A s \in Connections :
            /\ conn'[s].id = conn[s].id /\ conn'[s].client = conn[s].client
            /\ conn'[s].pc \in {"up", "closed"} => conn[s].pc \in {"up", "closed"}
    BY <1>3, <2>2 DEF Types, Connection
  <2>5. Doomed'
    <3> SUFFICES ASSUME NEW q \in Requests, NEW c \in Clients, req'[q].op = "delete", req'[q].pc \in Deleting,
                        known'[c].id = req'[q].id, c \notin late
                 PROVE  req'[q].pc = "force" /\ <<c, known'[c].object>> \in req'[q].found
      BY <1>1 DEF Doomed
    <3>1. req'[q].id = req[q].id /\ req'[q].pc = req[q].pc /\ req'[q].op = req[q].op
      BY <2>1
    <3>2. req[q].id \in AuthIds
      BY <3>1 DEF RequestInv, Deleting
    <3>3. c # x[1] /\ known'[c] = known[c]
      BY <2>3, <3>1, <3>2
    <3>4. req[q].pc = "force" /\ <<c, known[c].object>> \in req[q].found
      BY <3>1, <3>3 DEF DeleteInv, Doomed
    <3>5. <<c, known[c].object>> # x
      BY <3>3
    <3>6. QED
      BY <2>1, <3>3, <3>4, <3>5
  <2>6. OneObject'
    <3> SUFFICES ASSUME NEW s \in Connections, conn'[s].pc \in {"up", "closed"}, conn'[s].client \notin late,
                        known'[conn'[s].client].id # None
                 PROVE  known'[conn'[s].client] = [id |-> conn'[s].id, object |-> s]
      BY <1>1 DEF OneObject
    <3>1. conn[s].client \in Clients
      BY <2>4 DEF ConnectionInv
    <3>2. QED
      BY <2>3, <2>4, <3>1 DEF DeleteInv, OneObject
  <2>7. StoredComplete' /\ DeletionComplete'
    BY <1>1, <2>3 DEF DeleteInv, StoredComplete, DeletionComplete
  <2>8. QED
    BY <2>5, <2>6, <2>7 DEF DeleteInv
<1>4. QED
  BY <1>2, <1>3 DEF ForceDeletes

\* Every step keeps DeleteInv.
LEMMA DeleteStep == ShapeInv /\ CacheInv /\ DeleteInv /\ [Next]_vars => DeleteInv'
<1> SUFFICES ASSUME ShapeInv, CacheInv, DeleteInv, [Next]_vars PROVE DeleteInv'
  OBVIOUS
<1> USE NoneIsNone DEF ShapeInv, config, server, bans, Writing
<1>1. ASSUME NEW r \in Requests, handlePostClientsAuth(r) \/ handleDeleteClientAuth(r) PROVE DeleteInv'
  <2>1. running /\ UNCHANGED <<running, cache, known, conn, late>>
    BY <1>1 DEF handlePostClientsAuth, handleDeleteClientAuth
  <2>2. QED
    BY <1>1, <2>1, NewRequest, DeleteFrame DEF Deleting
<1>2. ASSUME NEW r \in Requests, LooksUp(r) PROVE DeleteInv'
  <2>1. running /\ UNCHANGED <<running, stored, cache, known, conn, late>> /\ req[r].pc = "lookup"
    BY <1>2 DEF LooksUp, StoppedInv
  <2>2. CASE Ends(r)
    BY <2>1, <2>2, EndsFields, DeleteFrame DEF Deleting
  <2>3. CASE req' = [req EXCEPT ![r].pc = "force", ![r].found = BoundClients(req[r].id)]
    <3> DEFINE n == [req[r] EXCEPT !.pc = "force", !.found = BoundClients(req[r].id)]
    <3>1. req' = [req EXCEPT ![r] = n] /\ req[r] \in Request
      BY <2>3 DEF Types
    <3>2. n.pc = "force" /\ n.id = req[r].id /\ n.found = BoundClients(req[r].id)
      BY <3>1 DEF Request
    <3> HIDE DEF n
    <3>3. req'[r] = n /\ \A q \in Requests : q # r => req'[q] = req[q]
      BY <3>1 DEF Types
    <3>4. \A c \in Clients : known[c].id = req[r].id => <<c, known[c].object>> \in BoundClients(req[r].id)
      BY DEF BoundClients
    <3>5. Doomed'
      BY <2>1, <3>2, <3>3, <3>4 DEF DeleteInv, Doomed
    <3>6. QED
      BY <2>1, <3>5 DEF DeleteInv, OneObject, StoredComplete, DeletionComplete
  <2>4. QED
    BY <1>2, <2>2, <2>3 DEF LooksUp
<1>3. ASSUME NEW r \in Requests, ForceDeleted(r) PROVE DeleteInv'
  <2>1. /\ running /\ UNCHANGED <<running, cache, known, conn, late>>
        /\ req[r].pc = "force" /\ req[r].found = {} /\ Goes(r, "lock")
    BY <1>3 DEF ForceDeleted, StoppedInv
  <2>2. QED
    BY <2>1, GoesFields, DeleteFrame DEF Deleting
<1>4. ASSUME NEW r \in Requests, Locks(r) PROVE DeleteInv'
  <2>1. running /\ UNCHANGED <<running, cache, known, conn, late>> /\ req[r].pc = "lock"
    BY <1>4 DEF Locks, StoppedInv
  <2>2. CASE Ends(r)
    BY <2>1, <2>2, EndsFields, DeleteFrame DEF Deleting
  <2>3. CASE Goes(r, "write")
    BY <2>1, <2>3, GoesFields, DeleteFrame DEF Deleting
  <2>4. QED
    BY <1>4, <2>2, <2>3 DEF Locks
<1>5. ASSUME NEW r \in Requests, WritesTable(r) \/ LoadsFile(r) \/ Encodes(r) PROVE DeleteInv'
  <2>1. running /\ UNCHANGED <<running, cache, known, conn, late>> /\ req[r].pc \in {"write", "encode"}
    BY <1>5 DEF WritesTable, LoadsFile, Encodes, StoppedInv
  <2>2. /\ \A q \in Requests : q # r => req'[q] = req[q]
        /\ req'[r].op = req[r].op /\ req'[r].id = req[r].id
    <3>1. CASE WritesTable(r)
      BY <3>1, GoesFields DEF WritesTable
    <3>2. CASE LoadsFile(r)
      BY <3>2 DEF LoadsFile, Goes, Types, Request
    <3>3. CASE Encodes(r)
      BY <3>3 DEF Encodes, Types, Request
    <3>4. QED
      BY <1>5, <3>1, <3>2, <3>3
  <2>3. QED
    BY <2>1, <2>2, DeleteFrame DEF Deleting
<1>6. ASSUME NEW r \in Requests, ReturnsError(r) PROVE DeleteInv'
  <2>1. running /\ UNCHANGED <<running, cache, known, conn, late>> /\ Ends(r)
    BY <1>6 DEF ReturnsError, StoppedInv
  <2>2. QED
    BY <2>1, EndsFields, DeleteFrame DEF Deleting
<1>7. ASSUME NEW r \in Requests, Caches(r) PROVE DeleteInv'
  <2>1. /\ running /\ UNCHANGED <<running, known, conn, late>> /\ Ends(r)
        /\ req[r].pc = "cache" /\ cache' = Target(r) /\ req[r].id \in AuthIds
    BY <1>7 DEF Caches, StoppedInv, RequestInv, Target
  <2>2. Doomed'
    BY <2>1, EndsFields DEF DeleteInv, Doomed, Deleting
  <2>3. DeletionComplete'
    <3> SUFFICES ASSUME NEW c \in Clients, known[c].id # None, cache'[known[c].id] = None PROVE c \in late
      BY <2>1 DEF DeletionComplete
    <3>1. known[c].id \in AuthIds
      BY DEF Types, Entry
    <3>2. CASE known[c].id # req[r].id
      BY <2>1, <3>1, <3>2 DEF DeleteInv, DeletionComplete, Target, Types, Credentials
    <3>3. CASE known[c].id = req[r].id
      <4>1. req[r].op = "delete"
        BY <2>1, <3>1, <3>3 DEF RequestInv, Target, Types, Credentials
      <4>2. QED
        BY <2>1, <3>3, <4>1 DEF DeleteInv, Doomed, Deleting
    <3>4. QED
      BY <3>2, <3>3
  <2>4. QED
    BY <2>1, <2>2, <2>3 DEF DeleteInv, OneObject, StoredComplete
<1>8. ASSUME NEW s \in Connections, Authenticates(s) \/ Closes(s) PROVE DeleteInv'
  <2>1. running /\ UNCHANGED <<running, stored, cache, known, req, late>>
    BY <1>8 DEF Authenticates, Closes, StoppedInv
  <2>2. /\ \A x \in Connections : x # s => conn'[x] = conn[x]
        /\ conn'[s].pc \in {"up", "closed"} =>
            conn[s].pc \in {"up", "closed"} /\ conn'[s].id = conn[s].id /\ conn'[s].client = conn[s].client
    BY <1>8 DEF Authenticates, Closes, Types, Connection
  <2>3. QED
    BY <2>1, <2>2 DEF DeleteInv, Doomed, OneObject, StoredComplete, DeletionComplete
<1>9. CASE BanEnds \/ (\E c \in Clients : FindsClient(c)) \/ UNCHANGED vars
  <2>1. UNCHANGED <<running, stored, cache, known, conn, req, late>>
    BY <1>9 DEF BanEnds, FindsClient, vars
  <2>2. QED
    BY <2>1 DEF DeleteInv, Doomed, OneObject, StoredComplete, DeletionComplete
<1>10. CASE Stops
  <2>1. /\ running /\ ~running' /\ UNCHANGED <<stored, cache, known, late>>
        /\ \A r \in Requests : req'[r].pc = "idle"
        /\ \A s \in Connections : conn'[s].pc \in {"none", "done"}
    BY <1>10 DEF Stops, NoRequest, NoConn, Types, Connection
  <2>2. StoredComplete'
    <3> SUFFICES ASSUME NEW c \in Clients, known[c].id # None, stored # Torn, stored[known[c].id] = None
                 PROVE  c \in late
      BY <2>1 DEF StoredComplete
    <3>1. known[c].id \in AuthIds
      BY DEF Types, Entry
    <3>2. CASE stored = cache
      BY <2>1, <3>2 DEF DeleteInv, DeletionComplete
    <3>3. CASE stored # cache
      <4>1. PICK r \in Requests : mu = r /\ req[r].pc \in Writing
        BY <2>1, <3>3 DEF Types, LockInv, CacheInv, CacheIsStored
      <4>2. req[r].pc = "cache" /\ stored = Target(r) /\ req[r].id \in AuthIds
        BY <3>3, <4>1 DEF CacheInv, WriteInv, InStep, RequestInv
      <4>3. CASE known[c].id # req[r].id
        BY <2>1, <3>1, <4>2, <4>3 DEF DeleteInv, DeletionComplete, Target, Types, Credentials
      <4>4. CASE known[c].id = req[r].id
        <5>1. req[r].op = "delete"
          BY <4>2, <4>4 DEF RequestInv, Target, Types, Credentials
        <5>2. QED
          BY <4>2, <4>4, <5>1 DEF DeleteInv, Doomed, Deleting
      <4>5. QED
        BY <4>3, <4>4
    <3>4. QED
      BY <3>2, <3>3
  <2>3. QED
    BY <2>1, <2>2 DEF DeleteInv, Doomed, OneObject, DeletionComplete, Deleting
<1>11. CASE Starts
  <2>1. /\ ~running /\ running' /\ cache' = stored /\ stored # Torn
        /\ UNCHANGED <<stored, known, conn, req, late>>
    BY <1>11 DEF Starts, NewCachedProvider
  <2>2. QED
    BY <2>1 DEF DeleteInv, Doomed, OneObject, StoredComplete, DeletionComplete
<1>12. CASE Repairs
  <2>1. late' = Clients /\ ~running /\ UNCHANGED <<running, known, conn, req>>
    BY <1>12 DEF Repairs
  <2>2. \A s \in Connections : conn[s].pc \in {"none", "done"}
    BY <2>1 DEF StoppedInv
  <2>3. QED
    BY <2>1, <2>2 DEF DeleteInv, Doomed, OneObject, StoredComplete, DeletionComplete
<1>13. QED
  BY <1>1, <1>2, <1>3, <1>4, <1>5, <1>6, <1>7, <1>8, <1>9, <1>10, <1>11, <1>12,
     StartsClientDelete, TerminatesDelete, SavesFoundDelete, ForceDeletesDelete DEF Next

LEMMA CacheInit == Init => CacheInv /\ DeleteInv
<1> SUFFICES ASSUME Init PROVE CacheInv /\ DeleteInv
  OBVIOUS
<1>1. /\ \A r \in Requests : req[r].pc = "idle"
      /\ \A s \in Connections : conn[s].pc = "none"
      /\ \A c \in Clients : known[c].id = None
      /\ \A a \in AuthIds : kept[a] = None
      /\ running /\ stored = cache
  BY DEF Init, NoRequest, NoConn, Unknown
<1>2. QED
  BY <1>1 DEF CacheInv, WriteInv, Writing, StoredKept, KeptCredentials, CacheIsStored,
              DeleteInv, Doomed, Deleting, OneObject, StoredComplete, DeletionComplete

AuthInv == ShapeInv /\ CacheInv /\ DeleteInv

LEMMA AuthInvariant == Spec => []AuthInv
<1>1. Init => AuthInv
  BY ShapeInit, CacheInit DEF AuthInv
<1>2. AuthInv /\ [Next]_vars => AuthInv'
  BY ShapeStep, CacheStep, DeleteStep DEF AuthInv
<1>3. QED
  BY <1>1, <1>2, PTL DEF Spec

\* Credentials whose creation was acknowledged are those clients are checked against until a
\* deletion takes the lock: no failing statement, half-written file or restart of the server
\* loses them without the administrator being told by a file that cannot be parsed.
THEOREM CredentialsAreKept == Spec => []KeptCredentials
<1>1. AuthInv => KeptCredentials
  BY DEF AuthInv, CacheInv
<1>2. QED
  BY <1>1, AuthInvariant, PTL

\* Whenever nobody holds the lock of CachedProvider, the cache is what the provider has, or a
\* write of the file failed half-way: a restart changes nobody's access.
THEOREM CacheAgreesWithProvider == Spec => []CacheIsStored
<1>1. AuthInv => CacheIsStored
  BY DEF AuthInv, CacheInv
<1>2. QED
  BY <1>1, AuthInvariant, PTL

\* A deletion of credentials leaves no client behind in the repository but those that were
\* registered while it, or an earlier connection of theirs, was still under way, and those that
\* SetACL, SetUpdatesStatus or StartClientTunnels saved as they had found them before.
THEOREM DeletionsAreComplete == Spec => []DeletionComplete
<1>1. AuthInv => DeletionComplete
  BY DEF AuthInv, DeleteInv
<1>2. QED
  BY <1>1, AuthInvariant, PTL
=============================================================================
