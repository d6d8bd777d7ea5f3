----------------------- MODULE ClientRegistry_proofs -----------------------
(***************************************************************************)
(* The registry for every number of clients, sessions and requests.        *)
(* TypeOK and ConnectedHasHandler hold with every operation of the API,    *)
(* failing statements and restarts allowed; LiveListed without API         *)
(* operations; AuthIdExclusive and TableMatchesMap without API operations  *)
(* and with a table that does not fail.  (Operations of the API really     *)
(* break these three, a failing statement the last two: see the README.)   *)
(* Then the lookup of the clients of a request, over JobRequests.          *)
(***************************************************************************)
EXTENDS MCRequests, FiniteSetTheorems, SequenceTheorems, TLAPS

(***************************************************************************)
(* What TypeOK needs to be inductive: no goroutine and no map entry holds a *)
(* pointer to an object that was never allocated.                           *)
(***************************************************************************)
Allocated ==
    /\ \A id \in ClientIds : mem[id] # NoClient => client[mem[id]] # NoClient
    /\ \A t \in Threads : step[t] # "none" =>
                            target[t] # NoClient /\ client[target[t]] # NoClient
    /\ \A s \in Sessions : phase[s] \in {"starting", "up", "closing", "done"} =>
                            client[s] # NoClient
    /\ \A s \in Sessions : step[s] # "none" => phase[s] \in {"starting", "closing"}

TypeInv == TypeOK /\ Allocated

Phases == {"idle", "starting", "up", "closing", "done", "refused", "dead"}
Allocating == {"starting", "up", "closing", "done"}

LEMMA ClientNotNil == NoClient \notin Sessions /\ NoClient \notin ClientIds /\ NoClient \notin Requests
  BY RegistryAssumption

\* Every action of the registry's goroutines keeps TypeOK and Allocated.
LEMMA TypeStep == TypeInv /\ [Next]_vars => TypeInv'
<1> SUFFICES ASSUME TypeInv, [Next]_vars PROVE TypeInv'
  OBVIOUS
<1> USE RegistryAssumption, NilAssumption DEF TypeInv, TypeOK, Allocated, Objects, Threads, Waiting, Row
<1>1. ASSUME NEW t \in Threads, SaveDb(t) PROVE TypeInv'
  BY <1>1 DEF SaveDb, Enter, ToRow
<1>2. ASSUME NEW t \in Threads, SaveMem(t) PROVE TypeInv'
  <2>1. mu' \in Threads \cup {NoClient}
    BY <1>2 DEF SaveMem, AfterWrite
  <2>2. phase' \in [Sessions -> Phases]
    BY <1>2 DEF SaveMem, AfterWrite, Phases
  <2>3. \A s \in Sessions : phase'[s] \in Allocating => client'[s] # NoClient
    BY <1>2 DEF SaveMem, AfterWrite, Allocating
  <2>4. \A s \in Sessions : step'[s] # "none" => phase'[s] \in {"starting", "closing"}
    BY <1>2 DEF SaveMem, AfterWrite, Enter
  <2>5. QED
    BY <1>2, <2>1, <2>2, <2>3, <2>4 DEF SaveMem, Enter, Phases, Allocating
<1>3. ASSUME NEW t \in Threads, DeleteDb(t) PROVE TypeInv'
  BY <1>3 DEF DeleteDb, Enter
<1>4. ASSUME NEW t \in Threads, DeleteMem(t) PROVE TypeInv'
  <2>1. mu' \in Threads \cup {NoClient}
    BY <1>4 DEF DeleteMem, AfterWrite
  <2>2. phase' \in [Sessions -> Phases]
    BY <1>4 DEF DeleteMem, AfterWrite, Phases
  <2>3. \A s \in Sessions : phase'[s] \in Allocating => client'[s] # NoClient
    BY <1>4 DEF DeleteMem, AfterWrite, Allocating
  <2>4. \A s \in Sessions : step'[s] # "none" => phase'[s] \in {"starting", "closing"}
    BY <1>4 DEF DeleteMem, AfterWrite, Enter
  <2>5. QED
    BY <1>4, <2>1, <2>2, <2>3, <2>4 DEF DeleteMem, Enter, Phases, Allocating
<1>5. ASSUME NEW t \in Threads, DbError(t) PROVE TypeInv'
  <2>1. mu' \in Threads \cup {NoClient}
    BY <1>5 DEF DbError, AfterWrite
  <2>2. phase' \in [Sessions -> Phases]
    BY <1>5 DEF DbError, AfterWrite, Phases
  <2>3. \A s \in Sessions : phase'[s] \in Allocating => client'[s] # NoClient
    BY <1>5 DEF DbError, AfterWrite, Allocating
  <2>4. \A s \in Sessions : step'[s] # "none" => phase'[s] \in {"starting", "closing"}
    BY <1>5 DEF DbError, AfterWrite, Enter
  <2>5. QED
    BY <1>5, <2>1, <2>2, <2>3, <2>4 DEF DbError, Enter, Phases, Allocating
<1>6. ASSUME NEW s \in Sessions, NEW id \in ClientIds, NEW auth \in AuthIds, StartClient(s, id, auth)
      PROVE TypeInv'
  <2>1. NewClient(id, auth) \in Client
    BY DEF NewClient, Client, GetByID, Disconnections
  <2>2. NewClient(id, auth) # NoClient
    BY <2>1
  <2>3. QED
    BY <1>6, <2>1, <2>2 DEF StartClient, Enter
<1>7. ASSUME NEW s \in Sessions, StartClientFails(s) PROVE TypeInv'
  BY <1>7 DEF StartClientFails
<1>8. ASSUME NEW s \in Sessions, ConnectionLost(s) PROVE TypeInv'
  BY <1>8 DEF ConnectionLost
<1>9. ASSUME NEW s \in Sessions, Terminate(s) PROVE TypeInv'
  <2>1. client[s] \in Client /\ client' \in [Objects -> Client \cup {NoClient}]
    BY <1>9 DEF Terminate, Client, Disconnections
  <2>2. \A o \in Objects : client[o] # NoClient => client'[o] # NoClient
    <3>1. client'[s] \in Client
      BY <1>9, <2>1, SMTT(30) DEF Terminate, Client, Disconnections
    <3>2. QED
      BY <1>9, <3>1 DEF Terminate
  <2>3. QED
    BY <1>9, <2>1, <2>2 DEF Terminate, Enter
<1>10. ASSUME NEW r \in Requests, NEW id \in ClientIds, ForceDeleteLookup(r, id) PROVE TypeInv'
  BY <1>10 DEF ForceDeleteLookup, Enter, GetByID
<1>11. ASSUME NEW r \in Requests, ForceDelete(r) PROVE TypeInv'
  BY <1>11 DEF ForceDelete, Enter
<1>12. ASSUME NEW r \in Requests, NEW id \in ClientIds, DeleteOffline(r, id) PROVE TypeInv'
  BY <1>12 DEF DeleteOffline, Enter, GetByID
<1>13. ASSUME NEW r \in Requests, NEW id \in ClientIds, NEW v \in Values, SetACL(r, id, v)
       PROVE TypeInv'
  BY <1>13 DEF SetACL, Enter, GetByID, Client
<1>14. ASSUME NEW r \in Requests, NEW s \in Sessions, NEW v \in Values, SetUpdatesStatus(r, s, v)
       PROVE TypeInv'
  BY <1>14 DEF SetUpdatesStatus, Enter, GetByID, Client
<1>15. ASSUME NEW r \in Requests, NEW id \in ClientIds, StartTunnelsLookup(r, id) PROVE TypeInv'
  BY <1>15 DEF StartTunnelsLookup, Enter, GetActiveByID
<1>16. ASSUME NEW r \in Requests, StartTunnels(r) PROVE TypeInv'
  BY <1>16 DEF StartTunnels, Enter
<1>17. CASE CleanupDb
  BY <1>17 DEF CleanupDb
<1>18. CASE CleanupMem
  BY <1>18 DEF CleanupMem
<1>19. CASE Tick
  BY <1>19 DEF Tick
<1>20. CASE Restart
  <2>1. ASSUME NEW id \in Loaded PROVE MarkDisconnected(db[id]) \in Client
    BY DEF Loaded, MarkDisconnected, Client, Disconnections
  <2>2. client' \in [Objects -> Client \cup {NoClient}] /\ db' \in [ClientIds -> Row \cup {NoClient}]
    BY <1>20, <2>1 DEF Restart
  <2>3. mem' \in [ClientIds -> Objects \cup {NoClient}]
    BY <1>20 DEF Restart
  <2>4. \A id \in ClientIds : mem'[id] # NoClient => client'[mem'[id]] # NoClient
    BY <1>20, <2>1 DEF Restart
  <2>5. phase' \in [Sessions -> Phases]
    BY <1>20 DEF Restart, Phases
  <2>6. conn' \in [Sessions -> {"none", "open", "closed"}]
    BY <1>20 DEF Restart
  <2>7. /\ step' \in [Threads -> {"none", "saveDb", "saveMem", "deleteDb", "deleteMem"} \cup Waiting]
        /\ target' \in [Threads -> Objects \cup {NoClient}]
    BY <1>20 DEF Restart
  <2>8. mu' \in Threads \cup {NoClient} /\ now' \in Nat /\ restarts' \in Nat
    BY <1>20 DEF Restart
  <2>9a. cleaning' \in BOOLEAN
    BY <1>20 DEF Restart
  <2>9. /\ \A t \in Threads : step'[t] = "none"
        /\ \A s \in Sessions : phase'[s] \in {"idle", "dead"}
    BY <1>20 DEF Restart
  <2>10. QED
    BY <2>2, <2>3, <2>4, <2>5, <2>6, <2>7, <2>8, <2>9, <2>9a DEF Phases
<1>21. CASE UNCHANGED vars
  BY <1>21 DEF vars
<1>22. QED
  BY <1>1, <1>2, <1>3, <1>4, <1>5, <1>6, <1>7, <1>8, <1>9, <1>10, <1>11, <1>12, <1>13, <1>14,
     <1>15, <1>16, <1>17, <1>18, <1>19, <1>20, <1>21
     DEF Next, RepositoryWrite, Connect, Request

\* The initial state satisfies TypeInv.
LEMMA TypeInit == Init => TypeInv
<1> SUFFICES ASSUME Init PROVE TypeInv
  OBVIOUS
<1>1. client \in [Objects -> Client \cup {NoClient}] /\ mem \in [ClientIds -> Objects \cup {NoClient}]
  BY DEF Init
<1>2. db \in [ClientIds -> Row \cup {NoClient}] /\ target \in [Threads -> Objects \cup {NoClient}]
  BY DEF Init
<1>3. /\ phase \in [Sessions -> Phases]
      /\ conn \in [Sessions -> {"none", "open", "closed"}]
      /\ step \in [Threads -> {"none", "saveDb", "saveMem", "deleteDb", "deleteMem"} \cup Waiting]
  BY DEF Init, Phases
<1>4. mu \in Threads \cup {NoClient} /\ cleaning \in BOOLEAN /\ now \in Nat /\ restarts \in Nat
  BY DEF Init
<1>5. Allocated
  BY DEF Init, Allocated, Threads
<1>6. QED
  BY <1>1, <1>2, <1>3, <1>4, <1>5 DEF TypeInv, TypeOK, Phases

\* The registry's state keeps its type, whatever the API, the clients and the database do.
THEOREM TypeCorrect == Spec => []TypeOK
<1>1. TypeInv => TypeOK
  BY DEF TypeInv
<1>2. QED
  BY <1>1, TypeInit, TypeStep, PTL DEF Spec

-----------------------------------------------------------------------------
(***************************************************************************)
(* Why a client shown as connected has a handler.  With keep_lost_clients  *)
(* set, Terminate marks the object before it decides whether to save it,   *)
(* so an object whose handler has finished is marked (HandlerMarks), also  *)
(* when a request that looked it up earlier puts it back into the map.  An *)
(* object whose handler has not published it yet, or never will, is known  *)
(* to nobody else (Unpublished), and an object loaded from the table at    *)
(* start-up is marked already (StoredMarked).                              *)
(***************************************************************************)
StoredMarked ==
    \A id \in ClientIds : client[id] # NoClient => client[id].disc # Connected

HandlerMarks ==
    \A s \in Sessions : phase[s] \in {"closing", "done"} => client[s].disc # Connected

Unpublished ==
    \A s \in Sessions : phase[s] \in {"idle", "starting", "refused", "dead"} =>
        /\ \A id \in ClientIds : mem[id] # s
        /\ \A r \in Requests : target[r] # s

OwnTarget == \A s \in Sessions : step[s] # "none" => target[s] = s

HandlerInv == StoredMarked /\ HandlerMarks /\ Unpublished /\ OwnTarget

LEMMA HandlerInit == Init => HandlerInv
  BY RegistryAssumption
     DEF Init, HandlerInv, StoredMarked, HandlerMarks, Unpublished, OwnTarget, Objects, Threads

\* With keep_lost_clients set, every action keeps HandlerInv.
LEMMA HandlerStep ==
    ASSUME KeepLostClients > 0, TypeInv, HandlerInv, [Next]_vars
    PROVE  HandlerInv'
<1> USE RegistryAssumption, NilAssumption
        DEF TypeInv, TypeOK, Allocated, Objects, Threads, Waiting, Row,
            HandlerInv, StoredMarked, HandlerMarks, Unpublished, OwnTarget
<1>1. ASSUME NEW t \in Threads, SaveDb(t) PROVE HandlerInv'
  BY <1>1 DEF SaveDb, Enter
<1>2. ASSUME NEW t \in Threads, SaveMem(t) PROVE HandlerInv'
  BY <1>2 DEF SaveMem, Enter, AfterWrite
<1>3. ASSUME NEW t \in Threads, DeleteDb(t) PROVE HandlerInv'
  BY <1>3 DEF DeleteDb, Enter
<1>4. ASSUME NEW t \in Threads, DeleteMem(t) PROVE HandlerInv'
  BY <1>4 DEF DeleteMem, Enter, AfterWrite
<1>5. ASSUME NEW t \in Threads, DbError(t) PROVE HandlerInv'
  BY <1>5 DEF DbError, Enter, AfterWrite
<1>6. ASSUME NEW s \in Sessions, NEW id \in ClientIds, NEW auth \in AuthIds, StartClient(s, id, auth)
      PROVE HandlerInv'
  BY <1>6 DEF StartClient, Enter
<1>7. ASSUME NEW s \in Sessions, StartClientFails(s) PROVE HandlerInv'
  BY <1>7 DEF StartClientFails
<1>8. ASSUME NEW s \in Sessions, ConnectionLost(s) PROVE HandlerInv'
  BY <1>8 DEF ConnectionLost
<1>9. ASSUME NEW s \in Sessions, Terminate(s) PROVE HandlerInv'
  <2>1. client' = [client EXCEPT ![s].disc = now] /\ client[s] \in Client
    BY <1>9 DEF Terminate
  <2>2. client'[s].disc # Connected
    BY <2>1 DEF Client, Connected
  <2>3. QED
    BY <1>9, <2>1, <2>2 DEF Terminate, Enter
<1>10. ASSUME NEW r \in Requests, NEW id \in ClientIds, ForceDeleteLookup(r, id) PROVE HandlerInv'
  BY <1>10 DEF ForceDeleteLookup, Enter, GetByID
<1>11. ASSUME NEW r \in Requests, ForceDelete(r) PROVE HandlerInv'
  BY <1>11 DEF ForceDelete, Enter
<1>12. ASSUME NEW r \in Requests, NEW id \in ClientIds, DeleteOffline(r, id) PROVE HandlerInv'
  BY <1>12 DEF DeleteOffline, Enter, GetByID
<1>13. ASSUME NEW r \in Requests, NEW id \in ClientIds, NEW v \in Values, SetACL(r, id, v)
       PROVE HandlerInv'
  <2>1. mem[id] # NoClient /\ client[mem[id]] \in Client
    BY <1>13 DEF SetACL, GetByID
  <2>2. \A o \in Objects : client[o] # NoClient => client'[o].disc = client[o].disc
    BY <1>13, <2>1 DEF SetACL, Client
  <2>3. \A o \in Objects : client'[o] # NoClient => client[o] # NoClient
    BY <1>13, <2>1 DEF SetACL
  <2>4. QED
    BY <1>13, <2>1, <2>2, <2>3 DEF SetACL, Enter
<1>14. ASSUME NEW r \in Requests, NEW s \in Sessions, NEW v \in Values, SetUpdatesStatus(r, s, v)
       PROVE HandlerInv'
  <2> DEFINE id == client[s].id
  <2>1. id \in ClientIds /\ mem[id] # NoClient /\ client[mem[id]] \in Client
    BY <1>14 DEF SetUpdatesStatus, GetByID, Client
  <2>2. \A o \in Objects : client[o] # NoClient => client'[o].disc = client[o].disc
    BY <1>14, <2>1 DEF SetUpdatesStatus, Client
  <2>3. \A o \in Objects : client'[o] # NoClient => client[o] # NoClient
    BY <1>14, <2>1 DEF SetUpdatesStatus
  <2>4. QED
    BY <1>14, <2>1, <2>2, <2>3 DEF SetUpdatesStatus, Enter
<1>15. ASSUME NEW r \in Requests, NEW id \in ClientIds, StartTunnelsLookup(r, id) PROVE HandlerInv'
  BY <1>15 DEF StartTunnelsLookup, Enter, GetActiveByID
<1>16. ASSUME NEW r \in Requests, StartTunnels(r) PROVE HandlerInv'
  BY <1>16 DEF StartTunnels, Enter
<1>17. CASE CleanupDb
  BY <1>17 DEF CleanupDb
<1>18. CASE CleanupMem
  BY <1>18 DEF CleanupMem
<1>19. CASE Tick
  BY <1>19 DEF Tick
<1>20. CASE Restart
  <2>1. ASSUME NEW id \in Loaded PROVE MarkDisconnected(db[id]).disc # Connected
    BY DEF Loaded, MarkDisconnected, Client, Connected
  <2>2. StoredMarked'
    BY <1>20, <2>1 DEF Restart
  <2>3. \A s \in Sessions : phase'[s] \notin {"closing", "done"}
    BY <1>20 DEF Restart
  <2>4. \A id \in ClientIds : mem'[id] \notin Sessions
    BY <1>20 DEF Restart
  <2>5. \A t \in Threads : step'[t] = "none" /\ target'[t] = NoClient
    BY <1>20 DEF Restart
  <2>6. QED
    BY <2>2, <2>3, <2>4, <2>5
<1>21. CASE UNCHANGED vars
  BY <1>21 DEF vars
<1>22. QED
  BY <1>1, <1>2, <1>3, <1>4, <1>5, <1>6, <1>7, <1>8, <1>9, <1>10, <1>11, <1>12, <1>13, <1>14,
     <1>15, <1>16, <1>17, <1>18, <1>19, <1>20, <1>21
     DEF Next, RepositoryWrite, Connect, Request

\* With keep_lost_clients set, a client the registry shows as connected always has a handler
\* left to terminate it: no interleaving of API requests, status updates, reconnections,
\* failing statements and restarts leaves an id refused as "already in use" for ever.
THEOREM HandlerForConnected ==
    ASSUME KeepLostClients > 0
    PROVE  Spec => []ConnectedHasHandler
<1>1. Init => TypeInv /\ HandlerInv
  BY TypeInit, HandlerInit
<1>2. TypeInv /\ HandlerInv /\ [Next]_vars => (TypeInv /\ HandlerInv)'
  BY TypeStep, HandlerStep
<1>3. TypeInv /\ HandlerInv => ConnectedHasHandler
  BY RegistryAssumption
     DEF TypeInv, TypeOK, Allocated, HandlerInv, StoredMarked, HandlerMarks, Unpublished,
         ConnectedHasHandler, Objects
<1>4. QED
  BY <1>1, <1>2, <1>3, PTL DEF Spec
-----------------------------------------------------------------------------
(***************************************************************************)
(* The registry without API requests: connections, the cleanup task and    *)
(* restarts.  Only the holder of ClientService.mu is between the writes of *)
(* a Save or Delete, and it writes its own object (WriterHoldsLock); its   *)
(* client id is that of no other accepted connection (WriterAlone).        *)
(***************************************************************************)
RequestsIdle == \A r \in Requests : step[r] = "none"

WriterHoldsLock ==
    \A s \in Sessions : step[s] # "none" =>
        /\ mu = s /\ target[s] = s
        /\ step[s] \in {"saveDb", "saveMem"} \/ (phase[s] = "closing" /\ step[s] \notin Waiting)

AcceptedConnected ==
    \A s \in Sessions : phase[s] \in {"starting", "up"} => client[s].disc = Connected

WriterAlone ==
    \A s, t \in Sessions : phase[s] = "up" /\ step[t] # "none" => client[s].id # client[t].id

LiveInv == RequestsIdle /\ WriterHoldsLock /\ AcceptedConnected /\ WriterAlone /\ LiveListed

(***************************************************************************)
(* With keep_lost_clients set and a table that does not fail, row and map  *)
(* entry of a client agree also while the cleanup task is between table    *)
(* and map (Agrees), unless its handler is saving it: then the row is what *)
(* is being saved (SavedRow), or the connected client it was (OldRow).     *)
(* The credentials of the client being saved are nobody else's             *)
(* (WriterExclusive).                                                      *)
(***************************************************************************)
Agrees(id) ==
    IF GetByID(id) # NoClient THEN db[id] = client[mem[id]]
    ELSE db[id] = NoClient \/ RowExpired(db[id])

Moving(s) == step[s] = "saveMem" \/ (step[s] # "none" /\ phase[s] = "closing")

RowsAgree ==
    \A id \in ClientIds : (\A s \in Sessions : Moving(s) => client[s].id # id) => Agrees(id)

SavedRow ==
    \A s \in Sessions : step[s] = "saveMem" =>
        \/ db[client[s].id] = client[s]
        \/ db[client[s].id] = NoClient /\ RowExpired(client[s])

OldRow ==
    \A s \in Sessions : step[s] = "saveDb" /\ phase[s] = "closing" =>
        db[client[s].id] = [client[s] EXCEPT !.disc = Connected]

OnlySaves == \A s \in Sessions : step[s] \in {"none", "saveDb", "saveMem"}

WriterExclusive ==
    ~AuthMultiuseCreds =>
        \A s \in Sessions, id \in ClientIds :
            step[s] # "none" /\ id # client[s].id /\ GetByID(id) # NoClient
            => client[mem[id]].auth # client[s].auth

\* A map entry and a row are filed under their client id.
KeysMatch ==
    \A id \in ClientIds :
        /\ mem[id] # NoClient => client[mem[id]].id = id
        /\ db[id] # NoClient => db[id].id = id

TableInv ==
    OnlySaves /\ RowsAgree /\ SavedRow /\ OldRow /\ WriterExclusive /\ AuthIdExclusive /\ KeysMatch

\* Without API operations only sessions, the cleanup task, the clock and restarts take steps.
HandlerStepOf(s) == RepositoryWrite(s) \/ Connect(s) \/ ConnectionLost(s) \/ Terminate(s)

LEMMA NoApiStep ==
    ASSUME ApiOps = {}, RequestsIdle, [Next]_vars
    PROVE  \/ \E s \in Sessions : HandlerStepOf(s)
           \/ CleanupDb \/ CleanupMem \/ Tick \/ Restart \/ UNCHANGED vars
<1>1. ASSUME NEW r \in Requests, RepositoryWrite(r) PROVE FALSE
  BY <1>1 DEF RepositoryWrite, SaveDb, SaveMem, DeleteDb, DeleteMem, DbError, RequestsIdle
<1>2. ASSUME NEW r \in Requests, Request(r) PROVE FALSE
  BY <1>2 DEF Request, Idle, ForceDeleteLookup, DeleteOffline, StartTunnelsLookup, SetACL, SetUpdatesStatus,
              ForceDelete, StartTunnels, RequestsIdle
<1>3. QED
  BY <1>1, <1>2 DEF Next, Threads, HandlerStepOf

LEMMA LiveInit == Init => LiveInv
  BY RegistryAssumption
     DEF Init, LiveInv, RequestsIdle, WriterHoldsLock, AcceptedConnected, WriterAlone, LiveListed, Threads

\* A connected client is not obsolete, so GetByID finds it.
LEMMA ConnectedVisible ==
    ASSUME NEW id \in ClientIds, mem[id] # NoClient, client[mem[id]].disc = Connected
    PROVE  GetByID(id) = mem[id]
  BY DEF GetByID, Obsolete

\* Without API operations every step keeps LiveInv.
LEMMA LiveStep ==
    ASSUME ApiOps = {}, TypeInv, LiveInv, [Next]_vars
    PROVE  LiveInv'
<1> USE RegistryAssumption, NilAssumption DEF TypeInv, TypeOK, Allocated, Objects, Threads, Waiting
<1> USE DEF LiveInv, RequestsIdle, WriterHoldsLock, AcceptedConnected, WriterAlone, LiveListed
<1>1. ASSUME NEW t \in Sessions, SaveDb(t) PROVE LiveInv'
  BY <1>1 DEF SaveDb, Enter
<1>2. ASSUME NEW t \in Sessions, SaveMem(t) PROVE LiveInv'
  <2>1. target[t] = t /\ client[t] \in Client /\ phase[t] \in {"starting", "closing"}
    BY <1>2 DEF SaveMem
  <2>2. client[t].id \in ClientIds
    BY <2>1 DEF Client
  <2>3. QED
    BY <1>2, <2>1, <2>2 DEF SaveMem, Enter, AfterWrite
<1>3. ASSUME NEW t \in Sessions, DeleteDb(t) PROVE LiveInv'
  BY <1>3 DEF DeleteDb, Enter
<1>4. ASSUME NEW t \in Sessions, DeleteMem(t) PROVE LiveInv'
  <2>1. target[t] = t /\ client[t] \in Client /\ phase[t] \in {"starting", "closing"}
    BY <1>4 DEF DeleteMem
  <2>3. QED
    BY <1>4, <2>1 DEF DeleteMem, Enter, AfterWrite
<1>5. ASSUME NEW t \in Sessions, DbError(t) PROVE LiveInv'
  BY <1>5 DEF DbError, Enter, AfterWrite
<1>6. ASSUME NEW s \in Sessions, NEW id \in ClientIds, NEW auth \in AuthIds, StartClient(s, id, auth)
      PROVE LiveInv'
  <2>1. \A t \in Sessions : step[t] = "none"
    BY <1>6 DEF StartClient
  <2>2. ASSUME NEW t \in Sessions, phase[t] = "up", client[t].id = id PROVE FALSE
    <3>1. mem[id] = t /\ t # NoClient /\ client[t].disc = Connected
      BY <2>2
    <3>2. GetByID(id) = t
      BY <3>1, ConnectedVisible
    <3>3. QED
      BY <1>6, <3>1, <3>2 DEF StartClient, Refused
  <2>3. NewClient(id, auth).disc = Connected /\ NewClient(id, auth).id = id
    BY DEF NewClient
  <2>4. QED
    BY <1>6, <2>1, <2>2, <2>3 DEF StartClient, Enter
<1>7. ASSUME NEW s \in Sessions, StartClientFails(s) PROVE LiveInv'
  BY <1>7 DEF StartClientFails
<1>8. ASSUME NEW s \in Sessions, ConnectionLost(s) PROVE LiveInv'
  BY <1>8 DEF ConnectionLost
<1>9. ASSUME NEW s \in Sessions, Terminate(s) PROVE LiveInv'
  <2>1. \A t \in Sessions : step[t] = "none"
    BY <1>9 DEF Terminate
  <2>2. client[s] \in Client
    BY <1>9 DEF Terminate
  <2>3. \A o \in Objects : client'[o] # NoClient /\ client[o] # NoClient => client'[o].id = client[o].id
    BY <1>9, <2>2 DEF Terminate, Client
  <2>4. \A o \in Sessions : o # s => client'[o] = client[o]
    BY <1>9 DEF Terminate
  <2>5. client'[s].id = client[s].id
    BY <1>9, <2>2 DEF Terminate, Client
  <2>6. phase' = [phase EXCEPT ![s] = phase'[s]] /\ phase'[s] \in {"closing", "done"}
    BY <1>9 DEF Terminate
  <2>7. UNCHANGED mem /\ \A t \in Threads : t # s => step'[t] = step[t]
    BY <1>9 DEF Terminate, Enter
  <2>8. step'[s] # "none" =>
          /\ mu' = s /\ target'[s] = s
          /\ step'[s] \in {"saveDb", "saveMem"} \/ (phase'[s] = "closing" /\ step'[s] \notin Waiting)
    BY <1>9, <2>1 DEF Terminate, Enter
  <2>9. \A t \in Sessions : t # s /\ phase[t] = "up" => client[t].id # client[s].id
    BY <1>9 DEF Terminate
  <2>10. QED
    BY <2>1, <2>4, <2>5, <2>6, <2>7, <2>8, <2>9
<1>17. CASE CleanupDb
  BY <1>17 DEF CleanupDb
<1>18. CASE CleanupMem
  <2>1. \A s \in Sessions : phase[s] = "up" => client[s].id \in ClientIds
    BY DEF Client
  <2>2. QED
    BY <1>18, <2>1 DEF CleanupMem, Obsolete
<1>19. CASE Tick
  BY <1>19 DEF Tick
<1>20. CASE Restart
  <2>1. /\ \A s \in Sessions : phase'[s] \in {"idle", "dead"}
        /\ \A t \in Threads : step'[t] = "none"
    BY <1>20 DEF Restart
  <2>2. QED
    BY <2>1
<1>21. CASE UNCHANGED vars
  BY <1>21 DEF vars
<1>22. QED
  BY <1>1, <1>2, <1>3, <1>4, <1>5, <1>6, <1>7, <1>8, <1>9, <1>17, <1>18, <1>19, <1>20, <1>21, NoApiStep
     DEF HandlerStepOf, RepositoryWrite, Connect

\* Without API operations an accepted connection is the one the map lists for its client id,
\* whatever keep_lost_clients is and however statements on the table fail: the mutex alone
\* keeps the map in step with the connections.
THEOREM AcceptedIsListed ==
    ASSUME ApiOps = {}
    PROVE  Spec => []LiveListed
<1>1. Init => TypeInv /\ LiveInv
  BY TypeInit, LiveInit
<1>2. TypeInv /\ LiveInv /\ [Next]_vars => (TypeInv /\ LiveInv)'
  BY TypeStep, LiveStep
<1>3. TypeInv /\ LiveInv => LiveListed
  BY DEF LiveInv
<1>4. QED
  BY <1>1, <1>2, <1>3, PTL DEF Spec

LEMMA TableInit == Init => TableInv
  BY RegistryAssumption
     DEF Init, TableInv, OnlySaves, RowsAgree, Agrees, Moving, SavedRow, OldRow, WriterExclusive, KeysMatch,
         AuthIdExclusive, GetByID, Threads

\* With keep_lost_clients set the map and the table judge the age of a client alike.
LEMMA SameExpiry ==
    ASSUME KeepLostClients > 0, NEW c
    PROVE  Obsolete(c) <=> RowExpired(c)
  BY DEF Obsolete, RowExpired

\* At most one handler is between the writes of a Save.
LEMMA OneWriter ==
    ASSUME WriterHoldsLock, NEW s \in Sessions, NEW t \in Sessions, step[s] # "none", step[t] # "none"
    PROVE  s = t
  BY DEF WriterHoldsLock

\* An object in the map, and an accepted connection's, is a client.
LEMMA ListedIsClient ==
    ASSUME TypeInv, NEW id \in ClientIds, mem[id] # NoClient
    PROVE  mem[id] \in Objects /\ client[mem[id]] \in Client
  BY RegistryAssumption DEF TypeInv, TypeOK, Allocated

LEMMA WriterIsClient ==
    ASSUME TypeInv, NEW s \in Sessions, step[s] # "none" \/ phase[s] = "up"
    PROVE  s \in Objects /\ client[s] \in Client /\ client[s].id \in ClientIds
<1>1. s \in Objects /\ client[s] \in Client
  BY DEF TypeInv, TypeOK, Allocated, Objects
<1>2. QED
  BY <1>1 DEF Client

\* The handler's write of the row.
LEMMA SaveDbTable ==
    ASSUME TypeInv, WriterHoldsLock, TableInv, NEW t \in Sessions, SaveDb(t)
    PROVE  TableInv'
<1> USE DEF TableInv
<1> DEFINE id0 == client[t].id
<1>1. target[t] = t /\ step[t] = "saveDb" /\ id0 \in ClientIds /\ client[t] \in Client
  BY WriterIsClient DEF SaveDb, WriterHoldsLock
<1>2. /\ db' = [db EXCEPT ![id0] = client[t]]
      /\ step' = [step EXCEPT ![t] = "saveMem"]
      /\ UNCHANGED <<client, mem, phase, now>>
  BY <1>1 DEF SaveDb, Enter, ToRow
<1>3. \A s \in Sessions : s # t => step[s] = "none"
  BY <1>1, OneWriter
<1>4. /\ step'[t] = "saveMem"
      /\ \A s \in Sessions : s # t => step'[s] = "none"
      /\ db'[id0] = client[t]
      /\ \A id \in ClientIds : id # id0 => db'[id] = db[id]
  BY <1>1, <1>2, <1>3 DEF TypeInv, TypeOK, Threads
<1>5. OnlySaves' /\ SavedRow' /\ OldRow'
  BY <1>2, <1>4 DEF OnlySaves, SavedRow, OldRow
<1>6. RowsAgree'
  <2> SUFFICES ASSUME NEW id \in ClientIds, id # id0 PROVE Agrees(id)'
    BY <1>2, <1>4 DEF RowsAgree, Moving
  <2>1. \A s \in Sessions : Moving(s) => client[s].id # id
    BY <1>3 DEF Moving
  <2>2. Agrees(id)
    BY <2>1 DEF RowsAgree
  <2>3. QED
    BY <1>2, <1>4, <2>2 DEF Agrees, GetByID, Obsolete, RowExpired
<1>7. WriterExclusive' /\ AuthIdExclusive'
  BY <1>1, <1>2, <1>3, <1>4 DEF WriterExclusive, AuthIdExclusive, GetByID, Obsolete
<1>8. KeysMatch'
  BY <1>1, <1>2, <1>4 DEF KeysMatch
<1>9. QED
  BY <1>5, <1>6, <1>7, <1>8

\* The handler's write of the map.
LEMMA SaveMemTable ==
    ASSUME KeepLostClients > 0, TypeInv, WriterHoldsLock, TableInv, NEW t \in Sessions, SaveMem(t)
    PROVE  TableInv'
<1> USE RegistryAssumption DEF TableInv
<1> DEFINE id0 == client[t].id
<1>1. target[t] = t /\ step[t] = "saveMem" /\ id0 \in ClientIds /\ client[t] \in Client
  BY WriterIsClient DEF SaveMem, WriterHoldsLock
<1>2. /\ mem' = [mem EXCEPT ![id0] = t]
      /\ step' = [step EXCEPT ![t] = "none"]
      /\ UNCHANGED <<client, db, now>>
  BY <1>1 DEF SaveMem, Enter
<1>3. \A s \in Sessions : s # t => step[s] = "none"
  BY <1>1, OneWriter
<1>4. /\ \A s \in Sessions : step'[s] = "none"
      /\ mem'[id0] = t /\ t # NoClient
      /\ \A id \in ClientIds : id # id0 => mem'[id] = mem[id]
  BY <1>1, <1>2, <1>3 DEF TypeInv, TypeOK, Threads
<1>5. OnlySaves' /\ SavedRow' /\ OldRow' /\ WriterExclusive'
  BY <1>4 DEF OnlySaves, SavedRow, OldRow, WriterExclusive
<1>6. RowsAgree'
  <2> SUFFICES ASSUME NEW id \in ClientIds PROVE Agrees(id)'
    BY DEF RowsAgree
  <2>1. CASE id = id0
    <3>1. \/ db'[id] = client'[t]
          \/ db'[id] = NoClient /\ RowExpired(client[t])
      BY <1>1, <1>2, <2>1 DEF SavedRow
    <3>2. QED
      BY <1>2, <1>4, <2>1, <3>1 DEF Agrees, GetByID, Obsolete, RowExpired
  <2>2. CASE id # id0
    <3>1. \A s \in Sessions : Moving(s) => client[s].id # id
      BY <1>3, <2>2 DEF Moving
    <3>2. Agrees(id)
      BY <3>1 DEF RowsAgree
    <3>3. QED
      BY <1>2, <1>4, <2>2, <3>2 DEF Agrees, GetByID, Obsolete, RowExpired
  <2>3. QED
    BY <2>1, <2>2
<1>7. AuthIdExclusive'
  <2> SUFFICES ASSUME ~AuthMultiuseCreds, NEW id1 \in ClientIds, NEW id2 \in ClientIds, id1 # id2,
                      GetByID(id1)' # NoClient, GetByID(id2)' # NoClient
               PROVE  client[mem'[id1]].auth # client[mem'[id2]].auth
    BY <1>2 DEF AuthIdExclusive
  <2>1. \A id \in ClientIds : id # id0 => GetByID(id)' = GetByID(id)
    BY <1>2, <1>4 DEF GetByID, Obsolete
  <2>2. CASE id1 # id0 /\ id2 # id0
    BY <1>4, <2>1, <2>2 DEF AuthIdExclusive
  <2>3. CASE id1 = id0
    BY <1>1, <1>4, <2>1, <2>3 DEF WriterExclusive
  <2>4. CASE id2 = id0
    BY <1>1, <1>4, <2>1, <2>4 DEF WriterExclusive
  <2>5. QED
    BY <2>2, <2>3, <2>4
<1>8. KeysMatch'
  BY <1>1, <1>2, <1>4 DEF KeysMatch
<1>9. QED
  BY <1>5, <1>6, <1>7, <1>8

\* StartClient: the new object is in no map entry, so nothing that is visible changes, and it
\* is only started when nobody visible has its credentials.
LEMMA StartTable ==
    ASSUME TypeInv, Unpublished, WriterHoldsLock, TableInv,
           NEW s \in Sessions, NEW id \in ClientIds, NEW auth \in AuthIds, StartClient(s, id, auth)
    PROVE  TableInv'
<1> USE RegistryAssumption DEF TableInv
<1>1. \A t \in Sessions : step[t] = "none"
  BY DEF StartClient, WriterHoldsLock
<1>2. /\ client' = [client EXCEPT ![s] = NewClient(id, auth)]
      /\ step' = [step EXCEPT ![s] = "saveDb"]
      /\ phase' = [phase EXCEPT ![s] = "starting"]
      /\ UNCHANGED <<mem, db, now>>
  BY DEF StartClient, Enter
<1>3. /\ step'[s] = "saveDb" /\ phase'[s] = "starting"
      /\ \A t \in Sessions : t # s => step'[t] = "none"
      /\ client'[s].id = id /\ client'[s].auth = auth
      /\ \A o \in Objects : o # s => client'[o] = client[o]
  BY <1>1, <1>2 DEF TypeInv, TypeOK, Threads, Objects, NewClient
<1>4. \A i \in ClientIds : mem[i] # NoClient => client'[mem[i]] = client[mem[i]]
  BY <1>3, ListedIsClient DEF StartClient, Unpublished
<1>5. \A i \in ClientIds : GetByID(i)' = GetByID(i)
  BY <1>2, <1>4 DEF GetByID, Obsolete
<1>6. OnlySaves' /\ SavedRow' /\ OldRow'
  BY <1>3 DEF OnlySaves, SavedRow, OldRow
<1>7. RowsAgree'
  <2> SUFFICES ASSUME NEW i \in ClientIds PROVE Agrees(i)'
    BY DEF RowsAgree
  <2>1. Agrees(i)
    BY <1>1 DEF RowsAgree, Moving
  <2>2. mem[i] = NoClient => GetByID(i) = NoClient
    BY DEF GetByID
  <2>3. QED
    BY <1>2, <1>4, <1>5, <2>1, <2>2 DEF Agrees, RowExpired
<1>8. \A i \in ClientIds : GetByID(i) # NoClient => mem[i] # NoClient /\ client'[mem'[i]] = client[mem[i]]
  BY <1>2, <1>4 DEF GetByID
<1>9. AuthIdExclusive'
  BY <1>5, <1>8 DEF AuthIdExclusive
<1>10. WriterExclusive'
  <2> SUFFICES ASSUME ~AuthMultiuseCreds, NEW i \in ClientIds, i # id, GetByID(i) # NoClient
               PROVE  client[mem[i]].auth # auth
    BY <1>3, <1>5, <1>8 DEF WriterExclusive
  <2>1. ~isClientAuthIDInUse(auth, id)
    BY DEF StartClient, Refused
  <2>2. QED
    BY <2>1 DEF isClientAuthIDInUse, GetAllByClientAuthID
<1>11. KeysMatch'
  BY <1>2, <1>4 DEF KeysMatch
<1>12. QED
  BY <1>6, <1>7, <1>9, <1>10, <1>11

\* Terminate: the client is listed and connected, so its row is the one it was saved with.
LEMMA TerminateTable ==
    ASSUME KeepLostClients > 0, TypeInv, LiveInv, TableInv, NEW s \in Sessions, Terminate(s)
    PROVE  TableInv'
<1> USE RegistryAssumption DEF TableInv
<1> DEFINE id0 == client[s].id
<1>1. \A t \in Sessions : step[t] = "none"
  BY DEF Terminate, LiveInv, WriterHoldsLock
<1>2. /\ phase[s] = "up" /\ client[s] \in Client /\ id0 \in ClientIds /\ s \in Objects
      /\ s # NoClient /\ mem[id0] = s /\ client[s].disc = Connected
  BY WriterIsClient DEF Terminate, LiveInv, LiveListed, AcceptedConnected
<1>3. GetByID(id0) = s
  BY <1>2, ConnectedVisible
<1>4. /\ client' = [client EXCEPT ![s].disc = now]
      /\ step' = [step EXCEPT ![s] = "saveDb"]
      /\ phase' = [phase EXCEPT ![s] = "closing"]
      /\ UNCHANGED <<mem, db, now>>
  BY <1>2, <1>3 DEF Terminate, Enter
<1>5. /\ step'[s] = "saveDb" /\ phase'[s] = "closing"
      /\ \A t \in Sessions : t # s => step'[t] = "none"
      /\ \A o \in Objects : o # s => client'[o] = client[o]
      /\ client'[s] = [client[s] EXCEPT !.disc = now]
  BY <1>1, <1>2, <1>4 DEF TypeInv, TypeOK, Threads, Objects
<1>6. client'[s].id = id0 /\ client'[s].auth = client[s].auth
  BY <1>2, <1>5 DEF Client
<1>7. \A i \in ClientIds : i # id0 /\ mem[i] # NoClient => client'[mem[i]] = client[mem[i]]
  BY <1>5, ListedIsClient DEF KeysMatch
<1>8. \A i \in ClientIds : i # id0 => GetByID(i)' = GetByID(i)
  BY <1>4, <1>7 DEF GetByID, Obsolete
<1>9. OnlySaves' /\ SavedRow'
  BY <1>5 DEF OnlySaves, SavedRow
<1>10. OldRow'
  <2>1. Agrees(id0)
    BY <1>1, <1>2 DEF RowsAgree, Moving
  <2>2. db[id0] = client[s]
    BY <1>2, <1>3, <2>1 DEF Agrees
  <2>3. [client'[s] EXCEPT !.disc = Connected] = client[s]
    BY <1>2, <1>5 DEF Client
  <2>4. QED
    BY <1>4, <1>5, <1>6, <2>2, <2>3 DEF OldRow
<1>11. RowsAgree'
  <2> SUFFICES ASSUME NEW i \in ClientIds, i # id0 PROVE Agrees(i)'
    BY <1>5, <1>6 DEF RowsAgree, Moving
  <2>1. Agrees(i)
    BY <1>1 DEF RowsAgree, Moving
  <2>2. mem[i] = NoClient => GetByID(i) = NoClient
    BY DEF GetByID
  <2>3. QED
    BY <1>4, <1>7, <1>8, <2>1, <2>2 DEF Agrees, RowExpired
<1>12. \A i \in ClientIds : GetByID(i) # NoClient => mem[i] # NoClient
  BY DEF GetByID
<1>13. AuthIdExclusive' /\ WriterExclusive'
  <2>1. \A i \in ClientIds : GetByID(i)' # NoClient =>
            GetByID(i) # NoClient /\ client'[mem'[i]].auth = client[mem[i]].auth
    BY <1>2, <1>3, <1>4, <1>6, <1>7, <1>8, <1>12
  <2>2. AuthIdExclusive'
    BY <2>1 DEF AuthIdExclusive
  <2>3. WriterExclusive'
    <3> SUFFICES ASSUME ~AuthMultiuseCreds, NEW i \in ClientIds, i # id0, GetByID(i)' # NoClient
                 PROVE  client'[mem'[i]].auth # client'[s].auth
      BY <1>5, <1>6 DEF WriterExclusive
    <3>1. client[mem[i]].auth # client[mem[id0]].auth
      BY <1>2, <1>3, <2>1 DEF AuthIdExclusive
    <3>2. QED
      BY <1>2, <1>6, <2>1, <3>1
  <2>4. QED
    BY <2>2, <2>3
<1>14. KeysMatch'
  BY <1>2, <1>4, <1>6, <1>7 DEF KeysMatch
<1>15. QED
  BY <1>9, <1>10, <1>11, <1>13, <1>14

\* A tick hides clients and expires rows, and never the reverse.
LEMMA TickTable ==
    ASSUME KeepLostClients > 0, TypeInv, TableInv, Tick
    PROVE  TableInv'
<1> USE RegistryAssumption DEF TableInv
<1>1. now \in Nat /\ now' = now + 1 /\ UNCHANGED <<client, mem, db, phase, step>>
  BY DEF Tick, TypeInv, TypeOK
<1>2. \A c \in Client : RowExpired(c) => RowExpired(c)'
  BY <1>1 DEF RowExpired, Client, Disconnections, Connected
<1>3. \A id \in ClientIds : GetByID(id)' # NoClient => GetByID(id) # NoClient
  BY <1>1, <1>2, ListedIsClient, SameExpiry DEF GetByID, Obsolete, RowExpired
<1>4. OnlySaves' /\ OldRow' /\ KeysMatch'
  BY <1>1 DEF OnlySaves, OldRow, KeysMatch
<1>5. SavedRow'
  BY <1>1, <1>2, WriterIsClient DEF SavedRow
<1>6. AuthIdExclusive' /\ WriterExclusive'
  BY <1>1, <1>3 DEF AuthIdExclusive, WriterExclusive
<1>7. RowsAgree'
  <2> SUFFICES ASSUME NEW id \in ClientIds, Agrees(id) PROVE Agrees(id)'
    BY <1>1 DEF RowsAgree, Moving
  <2>1. CASE GetByID(id) = NoClient
    <3>1. db[id] # NoClient => db[id] \in Client
      BY DEF TypeInv, TypeOK, Row
    <3>2. QED
      BY <1>1, <1>2, <1>3, <2>1, <3>1 DEF Agrees
  <2>2. CASE GetByID(id) # NoClient
    <3>1. mem[id] # NoClient /\ db[id] = client[mem[id]]
      BY <2>2 DEF Agrees, GetByID
    <3>2. GetByID(id)' = NoClient => RowExpired(client[mem[id]])'
      BY <1>1, <3>1 DEF GetByID, Obsolete, RowExpired
    <3>3. QED
      BY <1>1, <3>1, <3>2 DEF Agrees
  <2>3. QED
    BY <2>1, <2>2
<1>8. QED
  BY <1>4, <1>5, <1>6, <1>7

\* The cleanup task removes from table and map what is hidden anyway.
LEMMA CleanupTable ==
    ASSUME KeepLostClients > 0, TypeInv, TableInv, CleanupDb \/ CleanupMem
    PROVE  TableInv'
<1> USE RegistryAssumption DEF TableInv
<1>1. CASE CleanupDb
  <2>1. /\ UNCHANGED <<client, mem, phase, step, now>>
        /\ \A id \in ClientIds :
            db'[id] = IF db[id] # NoClient /\ RowExpired(db[id]) THEN NoClient ELSE db[id]
    BY <1>1 DEF CleanupDb
  <2>2. OnlySaves' /\ AuthIdExclusive' /\ WriterExclusive'
    BY <2>1 DEF OnlySaves, AuthIdExclusive, WriterExclusive, GetByID, Obsolete
  <2>3. KeysMatch'
    BY <2>1 DEF KeysMatch
  <2>4. SavedRow'
    BY <2>1, WriterIsClient DEF SavedRow, RowExpired
  <2>5. OldRow'
    <3> SUFFICES ASSUME NEW s \in Sessions, step[s] = "saveDb", phase[s] = "closing"
                 PROVE  db'[client[s].id] = db[client[s].id]
      BY <2>1 DEF OldRow
    <3>1. client[s] \in Client /\ client[s].id \in ClientIds
      BY WriterIsClient
    <3>2. db[client[s].id].disc = Connected
      BY <3>1 DEF OldRow, Client
    <3>3. QED
      BY <2>1, <3>1, <3>2 DEF RowExpired
  <2>6. RowsAgree'
    <3> SUFFICES ASSUME NEW id \in ClientIds, Agrees(id) PROVE Agrees(id)'
      BY <2>1 DEF RowsAgree, Moving
    <3>1. CASE GetByID(id) = NoClient
      BY <2>1, <3>1 DEF Agrees, GetByID, Obsolete, RowExpired
    <3>2. CASE GetByID(id) # NoClient
      BY <2>1, <3>2 DEF Agrees, GetByID, Obsolete, RowExpired
    <3>3. QED
      BY <3>1, <3>2
  <2>7. QED
    BY <2>2, <2>3, <2>4, <2>5, <2>6
<1>2. CASE CleanupMem
  <2>1. /\ UNCHANGED <<client, db, phase, step, now>>
        /\ \A id \in ClientIds :
            mem'[id] = IF mem[id] # NoClient /\ Obsolete(client[mem[id]]) THEN NoClient ELSE mem[id]
    BY <1>2 DEF CleanupMem
  <2>2. \A id \in ClientIds :
            /\ GetByID(id)' = GetByID(id)
            /\ GetByID(id) # NoClient => mem'[id] = mem[id]
            /\ mem'[id] # NoClient => mem'[id] = mem[id]
    BY <2>1 DEF GetByID, Obsolete
  <2>3. OnlySaves' /\ SavedRow' /\ OldRow' /\ KeysMatch'
    BY <2>1, <2>2 DEF OnlySaves, SavedRow, OldRow, KeysMatch, RowExpired
  <2>4. AuthIdExclusive' /\ WriterExclusive'
    BY <2>1, <2>2 DEF AuthIdExclusive, WriterExclusive
  <2>5. RowsAgree'
    BY <2>1, <2>2 DEF RowsAgree, Moving, Agrees, RowExpired
  <2>6. QED
    BY <2>3, <2>4, <2>5
<1>3. QED
  BY <1>1, <1>2

\* A restart loads the rows that are not expired: each is a client the map showed, or the one
\* whose handler was cut off between its two writes.
LEMMA RestartTable ==
    ASSUME KeepLostClients > 0, TypeInv, WriterHoldsLock, TableInv, Restart
    PROVE  TableInv'
<1> USE RegistryAssumption DEF TableInv
<1>1. \A t \in Sessions : step'[t] = "none"
  BY DEF Restart, Threads
<1>2. OnlySaves' /\ SavedRow' /\ OldRow' /\ WriterExclusive'
  BY <1>1 DEF OnlySaves, SavedRow, OldRow, WriterExclusive
<1>3. ASSUME NEW id \in ClientIds
      PROVE  /\ id \in Loaded => /\ mem'[id] = id /\ db'[id] = MarkDisconnected(db[id])
                                 /\ client'[id] = MarkDisconnected(db[id])
             /\ id \notin Loaded => mem'[id] = NoClient /\ db'[id] = db[id]
  BY DEF Restart, Objects
<1>4. ASSUME NEW id \in Loaded
      PROVE  /\ id \in ClientIds /\ db[id] \in Client
             /\ MarkDisconnected(db[id]).id = db[id].id
             /\ MarkDisconnected(db[id]).auth = db[id].auth
             /\ ~RowExpired(MarkDisconnected(db[id]))
             /\ now' = now
  <2>1. db[id] \in Client /\ ~RowExpired(db[id]) /\ now' = now /\ now \in Nat
    BY DEF Loaded, TypeInv, TypeOK, Row, Restart
  <2>2. QED
    BY <2>1 DEF Loaded, MarkDisconnected, Client, RowExpired, Connected
<1>5. KeysMatch'
  BY <1>3, <1>4 DEF KeysMatch, Loaded
<1>6. RowsAgree'
  <2> SUFFICES ASSUME NEW id \in ClientIds PROVE Agrees(id)'
    BY DEF RowsAgree
  <2>1. CASE id \in Loaded
    <3>1. ~RowExpired(client'[id]) /\ now' = now
      BY <1>3, <1>4, <2>1
    <3>2. GetByID(id)' = id
      BY <1>3, <2>1, <3>1 DEF GetByID, Obsolete, RowExpired
    <3>3. QED
      BY <1>3, <2>1, <3>2 DEF Agrees
  <2>2. CASE id \notin Loaded
    BY <1>3, <2>2 DEF Agrees, GetByID, Loaded, RowExpired, Restart
  <2>3. QED
    BY <2>1, <2>2
<1>7. AuthIdExclusive'
  <2> SUFFICES ASSUME ~AuthMultiuseCreds, NEW id1 \in Loaded, NEW id2 \in Loaded, id1 # id2
               PROVE  db[id1].auth # db[id2].auth
    <3>1. \A id \in ClientIds : GetByID(id)' # NoClient => id \in Loaded
      BY <1>3 DEF GetByID
    <3>2. \A id \in Loaded : client'[mem'[id]].auth = db[id].auth
      BY <1>3, <1>4
    <3>3. QED
      BY <3>1, <3>2 DEF AuthIdExclusive
  <2>1. ASSUME NEW id \in Loaded, \A s \in Sessions : Moving(s) => client[s].id # id
        PROVE  GetByID(id) # NoClient /\ db[id] = client[mem[id]]
    <3>1. Agrees(id)
      BY <1>4, <2>1 DEF RowsAgree
    <3>2. QED
      BY <3>1 DEF Agrees, Loaded
  <2>2. ASSUME NEW s \in Sessions, Moving(s), client[s].id \in Loaded
        PROVE  step[s] # "none" /\ db[client[s].id].auth = client[s].auth
    <3>1. step[s] # "none" /\ client[s] \in Client
      BY <2>2, WriterIsClient DEF Moving
    <3>2. CASE step[s] = "saveMem"
      BY <2>2, <3>1, <3>2 DEF SavedRow, Loaded
    <3>3. CASE step[s] # "saveMem"
      <4>1. step[s] = "saveDb" /\ phase[s] = "closing"
        BY <2>2, <3>1, <3>3 DEF Moving, OnlySaves
      <4>2. db[client[s].id] = [client[s] EXCEPT !.disc = Connected]
        BY <4>1 DEF OldRow
      <4>3. QED
        BY <3>1, <4>2 DEF Client
    <3>4. QED
      BY <3>2, <3>3
  <2>3. ASSUME NEW i \in Loaded, NEW j \in Loaded, i # j, NEW s \in Sessions, Moving(s), client[s].id = i
        PROVE  db[i].auth # db[j].auth
    <3>1. \A t \in Sessions : Moving(t) => client[t].id # j
      BY <2>3, OneWriter DEF Moving
    <3>2. GetByID(j) # NoClient /\ db[j] = client[mem[j]]
      BY <2>1, <3>1
    <3>3. step[s] # "none" /\ db[i].auth = client[s].auth
      BY <2>2, <2>3
    <3>4. QED
      BY <1>4, <2>3, <3>2, <3>3 DEF WriterExclusive
  <2>4. QED
    BY <1>4, <2>1, <2>3 DEF AuthIdExclusive
<1>8. QED
  BY <1>2, <1>5, <1>6, <1>7

\* With keep_lost_clients set, no failing statement and no API operation, every step keeps TableInv.
LEMMA TableStep ==
    ASSUME KeepLostClients > 0, ~DbMayFail, ApiOps = {}, TypeInv, HandlerInv, LiveInv, TableInv, [Next]_vars
    PROVE  TableInv'
<1>1. ASSUME NEW t \in Sessions, RepositoryWrite(t) PROVE TableInv'
  BY <1>1, SaveDbTable, SaveMemTable
     DEF RepositoryWrite, DeleteDb, DeleteMem, DbError, TableInv, OnlySaves, LiveInv
<1>2. ASSUME NEW s \in Sessions, StartClientFails(s) \/ ConnectionLost(s) PROVE TableInv'
  <2>1. /\ UNCHANGED <<client, mem, db, step, now>>
        /\ \A t \in Sessions : phase'[t] = phase[t] \/ (phase[t] = "idle" /\ phase'[t] = "refused")
    BY <1>2 DEF StartClientFails, ConnectionLost, TypeInv, TypeOK
  <2>2. OnlySaves' /\ SavedRow' /\ OldRow' /\ WriterExclusive' /\ AuthIdExclusive' /\ KeysMatch'
    BY <2>1 DEF TableInv, OnlySaves, SavedRow, OldRow, WriterExclusive, AuthIdExclusive, KeysMatch,
                GetByID, Obsolete, RowExpired
  <2>3. \A t \in Sessions : Moving(t)' <=> Moving(t)
    BY <2>1 DEF Moving
  <2>4. \A id \in ClientIds : Agrees(id)' <=> Agrees(id)
    BY <2>1 DEF Agrees, GetByID, Obsolete, RowExpired
  <2>5. RowsAgree'
    BY <2>1, <2>3, <2>4 DEF TableInv, RowsAgree
  <2>6. QED
    BY <2>2, <2>5 DEF TableInv
<1>3. ASSUME NEW s \in Sessions, Connect(s) PROVE TableInv'
  BY <1>2, <1>3, StartTable DEF Connect, HandlerInv, LiveInv
<1>4. CASE UNCHANGED vars
  BY <1>4 DEF vars, TableInv, OnlySaves, SavedRow, OldRow, WriterExclusive, AuthIdExclusive, KeysMatch,
              GetByID, Obsolete, RowExpired, RowsAgree, Agrees, Moving
<1>5. QED
  BY <1>1, <1>2, <1>3, <1>4, NoApiStep, TerminateTable, TickTable, CleanupTable, RestartTable
     DEF HandlerStepOf, LiveInv

\* Everything the registry keeps, without API operations and without failing statements.
RegistryInv == TypeInv /\ HandlerInv /\ LiveInv /\ TableInv

LEMMA RegistryInvariant ==
    ASSUME KeepLostClients > 0, ~DbMayFail, ApiOps = {}
    PROVE  Spec => []RegistryInv
<1>1. Init => RegistryInv
  BY TypeInit, HandlerInit, LiveInit, TableInit DEF RegistryInv
<1>2. RegistryInv /\ [Next]_vars => RegistryInv'
  BY TypeStep, HandlerStep, LiveStep, TableStep DEF RegistryInv
<1>3. QED
  BY <1>1, <1>2, PTL DEF Spec

\* Without auth_multiuse_creds no two clients that are connected, or were so within
\* keep_lost_clients, share credentials: neither a reconnection under another client id, nor the
\* cleanup task between table and map, nor a crash between the two writes of a Save and the
\* restart after it lets a second one in.
THEOREM CredentialsExclusive ==
    ASSUME KeepLostClients > 0, ~DbMayFail, ApiOps = {}
    PROVE  Spec => []AuthIdExclusive
<1>1. RegistryInv => AuthIdExclusive
  BY DEF RegistryInv, TableInv
<1>2. QED
  BY <1>1, RegistryInvariant, PTL

\* Whenever no handler and no cleanup is half-way, a client that is not obsolete has exactly
\* its row in the table and no other row would be loaded: a restart loses and revives nobody.
THEOREM TableAndMapAgree ==
    ASSUME KeepLostClients > 0, ~DbMayFail, ApiOps = {}
    PROVE  Spec => []TableMatchesMap
<1>1. RegistryInv => TableMatchesMap
  BY DEF RegistryInv, TableInv, RowsAgree, Agrees, Moving, TableMatchesMap, Quiescent, ToRow, Threads
<1>2. QED
  BY <1>1, RegistryInvariant, PTL

-----------------------------------------------------------------------------
(* The clients of a request (JobRequests).                                 *)

Lookups(found) ==
    [pc : {"idle", "access", "active", "groups", "ids", "check", "send"},
     api : {None, "single", "rest", "websocket"}, ids : Seq(Clients),
     groups : SUBSET GroupIds, left : SUBSET GroupIds, found : {found}, asked : Seq(J!Objects)]

LookupTypes ==
    /\ connections \in [Clients -> 0 .. MaxConnections]
    /\ DOMAIN allowed = J!Objects
    /\ up \subseteq Clients
    /\ members \in [GroupIds -> (SUBSET Clients) \cup {None}]
    /\ req \in Lookups(req.found)

\* What is remembered of a request under way is at least what is so now.
Remembered ==
    req.pc # "idle" => J!Accessible \subseteq could /\ J!InGroup \subseteq entered /\ stayed \subseteq J!Active

\* An object the user has access to now is of a client it could have had access to.
Could(o) == J!CheckClientsAccess({o}) => o[1] \in could

\* A request to one client.
SingleInv ==
    req.pc \in {"access", "active"} =>
        /\ Len(req.ids) = 1 /\ req.groups = {} /\ req.found = {}
        /\ req.pc = "active" => req.ids[1] \in could

\* While the groups are read: who was found was in one, and who stayed in one is found or will be.
GroupsInv ==
    req.pc = "groups" =>
        /\ req.found \subseteq Clients /\ req.asked = <<>>
        /\ req.left \subseteq req.groups
        /\ \A c \in req.found : \E g \in req.groups : <<c, g>> \in entered
        /\ \A c \in Clients, g \in req.groups : <<c, g>> \in stayed => g \in req.left \/ c \in req.found

\* Then the active ones are objects, one of each client.
FoundInv ==
    req.pc \in {"ids", "check", "send"} =>
        /\ req.found \subseteq J!Objects
        /\ \A o, p \in req.found : o[1] = p[1] => o = p
        /\ \A o \in req.found : \E g \in req.groups : <<o[1], g>> \in entered
        /\ \A c \in Clients, g \in req.groups : <<c, g>> \in stayed => \E o \in req.found : o[1] = c
        /\ req.pc = "ids" => \A o \in req.found : Could(o)

\* The clients that are named come first, in their order.
NamedInv ==
    req.pc \in {"ids", "check", "send"} =>
        /\ req.pc = "ids" => Len(req.asked) <= Len(req.ids)
        /\ req.pc # "ids" => Len(req.asked) >= Len(req.ids)
        /\ \A i \in DOMAIN req.asked :
              /\ i <= Len(req.ids) => req.asked[i][1] = req.ids[i]
              /\ req.pc # "send" => Could(req.asked[i])
              /\ req.pc = "send" => req.asked[i][1] \in could

\* The others follow, each once.
OthersInv ==
    req.pc \in {"check", "send"} =>
        /\ \A i \in DOMAIN req.asked : i > Len(req.ids) =>
              req.asked[i] \in req.found /\ ~J!Contains(req.ids, req.asked[i][1])
        /\ \A i, j \in DOMAIN req.asked : i > Len(req.ids) /\ j > Len(req.ids) /\ req.asked[i] = req.asked[j] => i = j
        /\ \A o \in req.found : ~J!Contains(req.ids, o[1]) => \E i \in DOMAIN req.asked : req.asked[i] = o

LookupInv == LookupTypes /\ Remembered /\ SingleInv /\ GroupsInv /\ FoundInv /\ NamedInv /\ OthersInv

LEMMA SameCardinality == ASSUME NEW S PROVE J!Cardinality(S) = Cardinality(S)
  BY Zenon DEF J!Cardinality, Cardinality

LEMMA NoRequestType ==
  J!NoRequest \in Lookups(J!NoRequest.found) /\ J!NoRequest.pc = "idle"
  BY DEF J!NoRequest, Lookups

\* Without a request there is nothing to show but types.
LEMMA IdleInv == ASSUME LookupTypes, req.pc = "idle" PROVE LookupInv
  BY DEF LookupInv, Remembered, SingleInv, GroupsInv, FoundInv, NamedInv, OthersInv

LEMMA LookupInit == J!Init => LookupInv
<1> SUFFICES ASSUME J!Init PROVE LookupInv
  OBVIOUS
<1>1. LookupTypes /\ req.pc = "idle"
  BY NoRequestType, LookupAssumption DEF J!Init, LookupTypes, Lookups
<1> QED
  BY <1>1, IdleInv

\* How a step under way changes what is remembered.
LEMMA RememberedGrows ==
  ASSUME LookupInv, J!Remembers, req.pc # "idle", req'.pc # "idle"
  PROVE  /\ could \subseteq could' /\ stayed' \subseteq stayed
         /\ req'.groups # {} => entered \subseteq entered'
         /\ Remembered'
<1>1. could' = could \cup J!Accessible' /\ stayed' = stayed \cap J!Active'
  BY DEF J!Remembers
<1>2. entered' = IF req'.groups = {} THEN {} ELSE entered \cup J!InGroup'
  BY DEF J!Remembers
<1>3. req'.groups = {} => J!InGroup' = {}
  BY DEF J!InGroup
<1> QED
  BY <1>1, <1>2, <1>3 DEF Remembered

\* Access that an object gains is access to the client.
ListsChange ==
    \/ allowed' = allowed
    \/ \E c \in Clients : \E gs : allowed' = [allowed EXCEPT ![J!Object(c)] = gs] /\ connections' = connections

LEMMA CouldStays ==
  ASSUME LookupInv, J!Remembers, req.pc # "idle", req'.pc # "idle", user' = user, ListsChange,
         NEW o \in J!Objects, Could(o)
  PROVE  Could(o)'
<1>1. could \subseteq could' /\ J!Accessible' \subseteq could'
  BY RememberedGrows DEF Remembered
<1>2. CASE allowed' = allowed
  BY <1>1, <1>2 DEF Could, J!CheckClientsAccess, J!HasAccess
<1>3. ASSUME NEW c \in Clients, NEW gs, allowed' = [allowed EXCEPT ![J!Object(c)] = gs], connections' = connections
      PROVE  Could(o)'
  <2>1. CASE o = J!Object(c)
    <3>1. o = J!Object(c)' /\ o[1] = c
      BY <1>3, <2>1 DEF J!Object
    <3> QED
      BY <1>1, <3>1 DEF Could, J!Accessible
  <2>2. CASE o # J!Object(c)
    <3>1. allowed'[o] = allowed[o]
      BY <1>3, <2>2 DEF LookupInv, LookupTypes, Lookups
    <3> QED
      BY <1>1, <3>1 DEF Could, J!CheckClientsAccess, J!HasAccess
  <2> QED
    BY <2>1, <2>2
<1> QED
  BY <1>2, <1>3 DEF ListsChange

LEMMA IdleStep == ASSUME LookupTypes', req'.pc = "idle" PROVE LookupInv'
  BY DEF LookupInv, Remembered, SingleInv, GroupsInv, FoundInv, NamedInv, OthersInv

\* Clients come and go, access lists and groups change.
LEMMA EnvironmentStep == ASSUME LookupInv, J!Environment, J!Remembers PROVE LookupInv'
<1>1. UNCHANGED <<req, user>> /\ ListsChange
  BY DEF ListsChange, J!Environment, J!Connects, J!Disconnects, J!SetACL, J!ChangesGroup
<1>2. LookupTypes'
  <2> USE LookupAssumption DEF LookupInv, LookupTypes, Lookups
  <2>0. DOMAIN allowed' = J!Objects
    BY <1>1 DEF ListsChange
  <2>1. ASSUME NEW c \in Clients, J!Connects(c) PROVE LookupTypes'
    <3>1. /\ connections' = [connections EXCEPT ![c] = connections[c] + 1] /\ connections[c] < MaxConnections
          /\ up' = up \cup {c} /\ members' = members
      BY <2>1 DEF J!Connects
    <3>2. connections' \in [Clients -> 0 .. MaxConnections]
      BY <2>1, <3>1
    <3> QED
      BY <1>1, <2>0, <2>1, <3>1, <3>2
  <2>2. ASSUME NEW c \in Clients, J!Disconnects(c) \/ J!SetACL(c) PROVE LookupTypes'
    BY <1>1, <2>0, <2>2 DEF J!Disconnects, J!SetACL
  <2>3. ASSUME NEW g \in GroupIds, J!ChangesGroup(g) PROVE LookupTypes'
    BY <1>1, <2>0, <2>3 DEF J!ChangesGroup
  <2> QED
    BY <2>1, <2>2, <2>3 DEF J!Environment
<1>3. CASE req.pc = "idle"
  BY <1>1, <1>2, <1>3, IdleStep
<1>4. CASE req.pc # "idle"
  <2>1. /\ could \subseteq could' /\ stayed' \subseteq stayed /\ Remembered'
        /\ req.groups # {} => entered \subseteq entered'
    BY <1>1, <1>4, RememberedGrows
  <2>2. \A o \in J!Objects : Could(o) => Could(o)'
    BY <1>1, <1>4, CouldStays
  <2>3. SingleInv'
    BY <1>1, <2>1 DEF LookupInv, SingleInv
  <2>4. GroupsInv'
    BY <1>1, <2>1 DEF LookupInv, GroupsInv
  <2>5. FoundInv'
    BY <1>1, <2>1, <2>2 DEF LookupInv, FoundInv
  <2>6. NamedInv'
    <3>1. \A i \in DOMAIN req.asked : req.asked[i] \in J!Objects
      BY DEF LookupInv, LookupTypes, Lookups
    <3> QED
      BY <1>1, <2>1, <2>2, <3>1 DEF LookupInv, NamedInv
  <2>7. OthersInv'
    BY <1>1 DEF LookupInv, OthersInv
  <2> QED
    BY <1>2, <2>1, <2>3, <2>4, <2>5, <2>6, <2>7 DEF LookupInv
<1> QED
  BY <1>3, <1>4

\* The handler answers.
LEMMA EndStep == ASSUME LookupInv, J!Ends PROVE LookupInv'
<1>1. LookupTypes' /\ req'.pc = "idle"
  BY NoRequestType DEF J!Ends, J!world, LookupInv, LookupTypes, Lookups
<1> QED
  BY <1>1, IdleStep

\* A request comes.
LEMMA ArriveStep ==
  ASSUME LookupInv, J!Remembers, NEW api \in {"single", "rest", "websocket"}, NEW pc \in {"access", "groups"},
         NEW ids \in Seq(Clients), NEW gs \in SUBSET GroupIds, J!Arrives(api, pc, ids, gs),
         pc = "access" => Len(ids) = 1 /\ gs = {}
  PROVE  LookupInv'
<1>1. req' = [pc |-> pc, api |-> api, ids |-> ids, groups |-> gs, left |-> gs, found |-> {}, asked |-> <<>>]
  BY DEF J!Arrives, J!NoRequest
<1>2. LookupTypes'
  <2>1. req' \in Lookups(req'.found)
    BY <1>1 DEF Lookups
  <2> QED
    BY <2>1 DEF J!Arrives, J!world, LookupInv, LookupTypes
<1>3. could' = could \cup J!Accessible' /\ stayed' = J!Active'
  BY <1>1 DEF J!Remembers, J!Arrives
<1>4. entered' = IF req'.groups = {} THEN {} ELSE entered \cup J!InGroup'
  BY DEF J!Remembers
<1>5. req'.groups = {} => J!InGroup' = {}
  BY DEF J!InGroup
<1>6. Remembered'
  BY <1>3, <1>4, <1>5 DEF Remembered
<1>7. SingleInv' /\ GroupsInv'
  BY <1>1 DEF SingleInv, GroupsInv
<1>8. FoundInv' /\ NamedInv' /\ OthersInv'
  BY <1>1 DEF FoundInv, NamedInv, OthersInv
<1> QED
  BY <1>2, <1>6, <1>7, <1>8 DEF LookupInv

\* The request to one client.
LEMMA SingleStep == ASSUME LookupInv, J!Remembers, J!ChecksClient \/ J!FindsActive PROVE LookupInv'
<1>0. /\ Len(req.ids) = 1 /\ req.groups = {} /\ req.found = {} /\ req.pc \in {"access", "active"}
      /\ req.pc = "active" => req.ids[1] \in could
  BY DEF LookupInv, SingleInv, J!ChecksClient, J!FindsActive
<1>1. req.ids[1] \in Clients
  BY <1>0 DEF LookupInv, LookupTypes, Lookups
<1>2. CASE J!Ends
  BY <1>2, EndStep
<1>3. CASE J!ChecksClient /\ ~J!Ends
  <2>1. /\ req' = [req EXCEPT !.pc = "active"] /\ req.pc = "access"
        /\ UNCHANGED J!world /\ J!CheckClientAccess(req.ids[1])
    BY <1>3 DEF J!ChecksClient, J!Goes
  <2>2. LookupTypes'
    BY <2>1 DEF LookupInv, LookupTypes, Lookups, J!world
  <2>3. req.ids[1] \in could /\ could \subseteq could' /\ Remembered'
    <3>1. req.ids[1] \in J!Accessible
      BY <1>1, <2>1 DEF J!Accessible, J!CheckClientAccess
    <3>2. req'.pc = "active"
      BY <2>1 DEF LookupInv, LookupTypes, Lookups
    <3> QED
      BY <2>1, <3>1, <3>2, RememberedGrows DEF LookupInv, Remembered
  <2>4. /\ req'.pc = "active" /\ req'.ids = req.ids /\ req'.groups = req.groups /\ req'.found = req.found
    BY <2>1 DEF LookupInv, LookupTypes, Lookups
  <2>5. SingleInv' /\ GroupsInv' /\ FoundInv' /\ NamedInv' /\ OthersInv'
    BY <1>0, <2>3, <2>4 DEF SingleInv, GroupsInv, FoundInv, NamedInv, OthersInv
  <2> QED
    BY <2>2, <2>3, <2>5 DEF LookupInv
<1>4. CASE J!FindsActive /\ ~J!Ends
  <2>0. PICK o : o = J!Object(req.ids[1])
    OBVIOUS
  <2>1. req' = [req EXCEPT !.pc = "send", !.asked = <<o>>] /\ req.pc = "active" /\ UNCHANGED J!world
    BY <1>4, <2>0 DEF J!FindsActive
  <2>2. o \in J!Objects /\ o[1] = req.ids[1]
    BY <1>1, <2>0 DEF J!Object, J!Objects, LookupInv, LookupTypes, Lookups
  <2>3. /\ req'.pc = "send" /\ req'.ids = req.ids /\ req'.groups = req.groups /\ req'.found = req.found
        /\ req'.asked = <<o>>
    BY <2>1 DEF LookupInv, LookupTypes, Lookups
  <2>4. LookupTypes'
    <3>1. <<o>> \in Seq(J!Objects)
      BY <2>2
    <3>2. req' \in Lookups(req'.found)
      BY <2>1, <3>1 DEF LookupInv, LookupTypes, Lookups
    <3> QED
      BY <2>1, <3>2 DEF LookupInv, LookupTypes, J!world
  <2>5. could \subseteq could' /\ Remembered'
    BY <2>1, <2>3, RememberedGrows
  <2>6. SingleInv' /\ GroupsInv' /\ FoundInv'
    BY <1>0, <2>3 DEF SingleInv, GroupsInv, FoundInv
  <2>7. NamedInv' /\ OthersInv'
    <3>1. Len(<<o>>) = 1 /\ DOMAIN <<o>> = {1} /\ <<o>>[1] = o
      OBVIOUS
    <3>2. NamedInv'
      <4>1. \A i \in DOMAIN req'.asked : i = 1 /\ req'.asked[i] = o
        BY <2>3, <3>1
      <4>2. o[1] \in could' /\ o[1] = req'.ids[1]
        <5>1. o[1] \in could
          BY <1>0, <2>1, <2>2
        <5> QED
          BY <2>2, <2>3, <2>5, <5>1
      <4>3. Len(req'.asked) >= Len(req'.ids)
        <5>1. Len(req'.asked) = 1 /\ Len(req'.ids) = 1
          BY <1>0, <2>3, <3>1, Zenon
        <5> QED
          BY <5>1
      <4> QED
        BY <2>3, <4>1, <4>2, <4>3 DEF NamedInv
    <3>3. OthersInv'
      <4>1. \A i \in DOMAIN req'.asked : ~(i > Len(req'.ids))
        BY <1>0, <2>3, <3>1
      <4>2. req'.found = {}
        BY <1>0, <2>3
      <4> QED
        BY <4>1, <4>2 DEF OthersInv
    <3> QED
      BY <3>2, <3>3
  <2> QED
    BY <2>4, <2>5, <2>6, <2>7 DEF LookupInv
<1> QED
  BY <1>2, <1>3, <1>4

\* getOrderedClients reads a group, and then who of them is active.
LEMMA GroupStep == ASSUME LookupInv, J!Remembers, J!GetsGroup \/ J!GetActiveByGroups PROVE LookupInv'
<1>0. /\ req.pc = "groups" /\ req.found \subseteq Clients /\ req.asked = <<>> /\ req.left \subseteq req.groups
      /\ \A c \in req.found : \E g \in req.groups : <<c, g>> \in entered
      /\ \A c \in Clients, g \in req.groups : <<c, g>> \in stayed => g \in req.left \/ c \in req.found
  BY DEF LookupInv, GroupsInv, J!GetsGroup, J!GetActiveByGroups
<1>1. CASE J!Ends
  BY <1>1, EndStep
<1>2. ASSUME NEW g \in req.left, members[g] # None, UNCHANGED J!world,
             req' = [req EXCEPT !.left = req.left \ {g}, !.found = req.found \cup members[g]]
      PROVE  LookupInv'
  <2>1. /\ req'.pc = "groups" /\ req'.ids = req.ids /\ req'.groups = req.groups /\ req'.asked = req.asked
        /\ req'.left = req.left \ {g} /\ req'.found = req.found \cup members[g]
    BY <1>0, <1>2 DEF LookupInv, LookupTypes, Lookups
  <2>2. LookupTypes'
    BY <1>2 DEF LookupInv, LookupTypes, Lookups, J!world
  <2>3. /\ stayed' \subseteq stayed /\ (req.groups # {} => entered \subseteq entered') /\ Remembered'
    BY <1>0, <2>1, RememberedGrows
  <2>4. members[g] \subseteq Clients /\ members' = members
    BY <1>2 DEF LookupInv, LookupTypes, Lookups, J!world
  <2>5. \A c \in members[g] : <<c, g>> \in entered'
    <3>1. \A c \in members[g] : <<c, g>> \in J!InGroup'
      BY <1>0, <1>2, <2>1, <2>4 DEF J!InGroup
    <3> QED
      BY <2>1, <2>3, <3>1 DEF Remembered
  <2>6. \A c \in Clients : <<c, g>> \in stayed' => c \in members[g]
    <3>1. stayed' \subseteq J!Active'
      BY <2>1, <2>3 DEF Remembered
    <3> QED
      BY <2>4, <3>1 DEF J!Active, J!InGroup
  <2>7. GroupsInv'
    <3>1. req'.found \subseteq Clients /\ req'.asked = <<>> /\ req'.left \subseteq req'.groups
      BY <1>0, <2>1, <2>4
    <3>2. \A c \in req'.found : \E h \in req'.groups : <<c, h>> \in entered'
      BY <1>0, <2>1, <2>3, <2>5
    <3>3. \A c \in Clients, h \in req'.groups : <<c, h>> \in stayed' => h \in req'.left \/ c \in req'.found
      BY <1>0, <2>1, <2>3, <2>6
    <3> QED
      BY <3>1, <3>2, <3>3 DEF GroupsInv
  <2>8. SingleInv' /\ FoundInv' /\ NamedInv' /\ OthersInv'
    BY <2>1 DEF SingleInv, FoundInv, NamedInv, OthersInv
  <2> QED
    BY <2>2, <2>3, <2>7, <2>8 DEF LookupInv
<1>3. ASSUME req.left = {}, UNCHANGED J!world,
             req' = [req EXCEPT !.pc = "ids", !.found = {J!Object(c) : c \in req.found \cap up}]
      PROVE  LookupInv'
  <2>1. /\ req'.pc = "ids" /\ req'.ids = req.ids /\ req'.groups = req.groups /\ req'.asked = <<>>
        /\ req'.found = {J!Object(c) : c \in req.found \cap up}
    BY <1>0, <1>3 DEF LookupInv, LookupTypes, Lookups
  <2>2. LookupTypes'
    BY <1>3 DEF LookupInv, LookupTypes, Lookups, J!world
  <2>3. /\ stayed' \subseteq stayed /\ (req.groups # {} => entered \subseteq entered') /\ Remembered'
    BY <1>0, <2>1, RememberedGrows
  <2>4. /\ \A c \in Clients : J!Object(c) \in J!Objects /\ J!Object(c)[1] = c /\ Could(J!Object(c))'
        /\ \A o \in req'.found : \E c \in req.found \cap up : o = J!Object(c) /\ o[1] = c
        /\ \A c \in req.found \cap up : J!Object(c) \in req'.found
    <3>1. \A c \in Clients : J!Object(c) \in J!Objects /\ J!Object(c)[1] = c
      BY DEF J!Object, J!Objects, LookupInv, LookupTypes, Lookups
    <3>2. J!Accessible' \subseteq could'
      BY <2>1, <2>3 DEF Remembered
    <3>3. \A c \in Clients : J!Object(c)' = J!Object(c)
      BY <1>3 DEF J!Object, J!world
    <3>4. \A c \in Clients : Could(J!Object(c))'
      BY <3>1, <3>2, <3>3 DEF Could, J!Accessible
    <3> QED
      BY <1>0, <2>1, <3>1, <3>4
  <2>5. \A c \in Clients, g \in req.groups : <<c, g>> \in stayed' => c \in req.found \cap up
    <3>1. stayed \subseteq J!Active
      BY <1>0 DEF LookupInv, Remembered
    <3> QED
      BY <1>0, <1>3, <2>3, <3>1 DEF J!Active
  <2>6. FoundInv'
    <3>1. req'.found \subseteq J!Objects /\ \A o, p \in req'.found : o[1] = p[1] => o = p
      BY <1>0, <2>4
    <3>2. \A o \in req'.found : \E g \in req'.groups : <<o[1], g>> \in entered'
      BY <1>0, <2>1, <2>3, <2>4
    <3>3. \A c \in Clients, g \in req'.groups : <<c, g>> \in stayed' => \E o \in req'.found : o[1] = c
      BY <2>1, <2>4, <2>5
    <3>4. \A o \in req'.found : Could(o)'
      <4> TAKE o \in req'.found
      <4>1. PICK c \in Clients : o = J!Object(c)
        BY <1>0, <2>4
      <4>2. J!Object(c)' = J!Object(c)
        BY <1>3 DEF J!Object, J!world
      <4> QED
        BY <2>4, <4>1, <4>2 DEF Could
    <3> QED
      BY <2>2, <3>1, <3>2, <3>3, <3>4 DEF FoundInv
  <2>7. SingleInv' /\ GroupsInv' /\ NamedInv' /\ OthersInv'
    <3>1. Len(req.ids) \in Nat /\ Len(<<>>) = 0 /\ DOMAIN <<>> = {}
      BY DEF LookupInv, LookupTypes, Lookups
    <3> QED
      BY <2>1, <3>1 DEF SingleInv, GroupsInv, NamedInv, OthersInv
  <2> QED
    BY <2>2, <2>3, <2>6, <2>7 DEF LookupInv
<1> QED
  BY <1>1, <1>2, <1>3 DEF J!GetsGroup, J!GetActiveByGroups

\* The named clients are looked up one by one.
LEMMA ClientStep == ASSUME LookupInv, J!Remembers, J!GetsClient PROVE LookupInv'
<1>0. /\ req.pc = "ids" /\ Len(req.asked) < Len(req.ids)
      /\ req.ids \in Seq(Clients) /\ req.asked \in Seq(J!Objects)
  BY DEF LookupInv, LookupTypes, Lookups, J!GetsClient
<1>1. PICK n \in Nat, c \in Clients, o \in J!Objects :
         n = Len(req.asked) /\ c = req.ids[n + 1] /\ o = J!Object(c)
  <2>1. Len(req.asked) \in Nat /\ req.ids[Len(req.asked) + 1] \in Clients
    BY <1>0, LenProperties, ElementOfSeq
  <2>2. \A c \in Clients : J!Object(c) \in J!Objects
    BY DEF J!Object, J!Objects, LookupInv, LookupTypes, Lookups
  <2> QED
    BY <2>1, <2>2
<1>2. CASE J!Ends
  BY <1>2, EndStep
<1>3. CASE ~J!Ends
  <2>1. req' = [req EXCEPT !.asked = Append(req.asked, o)] /\ UNCHANGED J!world
    BY <1>1, <1>3 DEF J!GetsClient
  <2>2. o \in J!Objects /\ o[1] = c
    BY <1>1 DEF J!Object, J!Objects, LookupInv, LookupTypes, Lookups
  <2>3. J!Object(c)' = o
    BY <1>1, <2>1 DEF J!Object, J!world
  <2>5. /\ Append(req.asked, o) \in Seq(J!Objects) /\ Len(Append(req.asked, o)) = n + 1
        /\ DOMAIN Append(req.asked, o) = 1 .. n + 1 /\ DOMAIN req.asked = 1 .. n
        /\ \A i \in 1 .. n : Append(req.asked, o)[i] = req.asked[i]
        /\ Append(req.asked, o)[n + 1] = o
    <3>1. Append(req.asked, o) \in Seq(J!Objects) /\ Len(Append(req.asked, o)) = n + 1
      BY <1>0, <1>1, <2>2, AppendProperties
    <3>2. DOMAIN Append(req.asked, o) = 1 .. n + 1 /\ DOMAIN req.asked = 1 .. n
      BY <1>0, <1>1, <3>1, LenProperties
    <3> QED
      BY <1>0, <1>1, <2>2, <3>1, <3>2, AppendProperties
  <2>6. /\ req'.pc = "ids" /\ req'.ids = req.ids /\ req'.groups = req.groups /\ req'.found = req.found
        /\ req'.asked = Append(req.asked, o)
    BY <1>0, <2>1 DEF LookupInv, LookupTypes, Lookups
  <2>7. LookupTypes'
    <3>1. req' \in Lookups(req'.found)
      BY <2>1, <2>5 DEF LookupInv, LookupTypes, Lookups
    <3> QED
      BY <2>1, <3>1 DEF LookupInv, LookupTypes, J!world
  <2>8. /\ could \subseteq could' /\ stayed' \subseteq stayed /\ Remembered'
        /\ req.groups # {} => entered \subseteq entered'
    BY <1>0, <2>6, RememberedGrows
  <2>9. \A p \in J!Objects : Could(p) => Could(p)'
    <3>1. user' = user /\ allowed' = allowed
      BY <2>1 DEF J!world
    <3> QED
      BY <1>0, <2>6, <3>1, CouldStays DEF ListsChange
  <2>10. Could(o)'
    <3>1. J!Accessible' \subseteq could'
      BY <2>6, <2>8 DEF Remembered
    <3>2. J!CheckClientsAccess({o})' => c \in J!Accessible'
      BY <1>1, <2>3 DEF J!Accessible
    <3> QED
      BY <2>2, <3>1, <3>2 DEF Could
  <2>11. FoundInv'
    BY <1>0, <2>6, <2>8, <2>9 DEF LookupInv, FoundInv
  <2>12. NamedInv'
    <3>1. Len(req'.asked) <= Len(req'.ids)
      BY <1>0, <1>1, <2>5, <2>6, LenProperties
    <3>2. ASSUME NEW i \in DOMAIN req'.asked
          PROVE  (i <= Len(req'.ids) => req'.asked[i][1] = req'.ids[i]) /\ Could(req.asked[i])'
      <4>1. CASE i = n + 1
        BY <1>1, <2>2, <2>5, <2>6, <2>10, <4>1 DEF Could
      <4>2. CASE i # n + 1
        <5>1. i \in DOMAIN req.asked /\ req'.asked[i] = req.asked[i] /\ req.asked[i] \in J!Objects
          BY <1>0, <1>1, <2>5, <2>6, <3>2, <4>2, ElementOfSeq
        <5>2. Could(req.asked[i]) /\ (i <= Len(req.ids) => req.asked[i][1] = req.ids[i])
          BY <1>0, <5>1 DEF LookupInv, NamedInv
        <5> QED
          BY <2>6, <2>9, <5>1, <5>2 DEF Could
      <4> QED
        BY <4>1, <4>2
    <3> QED
      BY <2>6, <3>1, <3>2 DEF NamedInv
  <2>13. SingleInv' /\ GroupsInv' /\ OthersInv'
    BY <2>6 DEF SingleInv, GroupsInv, OthersInv
  <2> QED
    BY <2>7, <2>8, <2>11, <2>12, <2>13 DEF LookupInv
<1> QED
  BY <1>2, <1>3

\* A sequence that holds each element of a finite set once.
LEMMA EachOnce ==
  ASSUME NEW S, IsFiniteSet(S), NEW s \in J!SetToSeqs(S)
  PROVE  /\ s \in Seq(S)
         /\ \A i, j \in DOMAIN s : s[i] = s[j] => i = j
         /\ \A x \in S : \E i \in DOMAIN s : s[i] = x
<1> DEFINE n == Cardinality(S)
<1>1. n \in Nat /\ J!Cardinality(S) = n
  BY FS_CardinalityType, SameCardinality
<1>2. s \in [1 .. n -> S] /\ \A i, j \in 1 .. n : i # j => s[i] # s[j]
  BY <1>1 DEF J!SetToSeqs
<1>3. s \in Injection(1 .. n, S)
  BY <1>2 DEF Injection, IsInjective
<1>4. Cardinality(1 .. n) = Cardinality(S)
  BY <1>1, FS_Interval
<1>5. s \in Surjection(1 .. n, S)
  BY <1>3, <1>4, FS_Injection
<1>6. \A x \in S : \E i \in 1 .. n : s[i] = x
  BY <1>5 DEF Surjection
<1> QED
  BY <1>1, <1>2, <1>6

\* There are no more objects of clients than clients.
LEMMA FiniteObjects ==
  ASSUME NEW S, S \subseteq J!Objects, \A o, p \in S : o[1] = p[1] => o = p
  PROVE  IsFiniteSet(S)
<1> DEFINE f == [o \in S |-> o[1]]
<1>1. f \in Injection(S, Clients)
  BY DEF Injection, IsInjective, J!Objects
<1> QED
  BY <1>1, FS_Injection, LookupAssumption

\* The clients of the groups follow.
LEMMA OrderStep == ASSUME LookupInv, J!Remembers, J!OrdersClients PROVE LookupInv'
<1>0. /\ req.pc = "ids" /\ Len(req.asked) = Len(req.ids)
      /\ req.ids \in Seq(Clients) /\ req.asked \in Seq(J!Objects)
  BY DEF LookupInv, LookupTypes, Lookups, J!OrdersClients
<1>1. CASE J!Ends
  BY <1>1, EndStep
<1>2. CASE ~J!Ends
  <2>1. PICK S : S = {o \in req.found : ~J!Contains(req.ids, o[1])}
    OBVIOUS
  <2>2. PICK s \in J!SetToSeqs(S) : req' = [req EXCEPT !.pc = "check", !.asked = req.asked \o s]
    BY <1>2, <2>1 DEF J!OrdersClients
  <2>3. UNCHANGED J!world
    BY <1>2 DEF J!OrdersClients
  <2>4. /\ S \subseteq J!Objects /\ \A o, p \in S : o[1] = p[1] => o = p
        /\ \A o \in S : Could(o) /\ o \in req.found /\ ~J!Contains(req.ids, o[1])
    BY <1>0, <2>1 DEF LookupInv, FoundInv
  <2>5. /\ s \in Seq(S)
        /\ \A i, j \in DOMAIN s : s[i] = s[j] => i = j
        /\ \A x \in S : \E i \in DOMAIN s : s[i] = x
    BY <2>4, FiniteObjects, EachOnce
  <2>6. PICK n \in Nat, m \in Nat : n = Len(req.asked) /\ m = Len(s)
    BY <1>0, <2>5, LenProperties
  <2>7. PICK a : a = req.asked \o s
    OBVIOUS
  <2>8. /\ a \in Seq(J!Objects) /\ Len(a) = n + m /\ DOMAIN a = 1 .. n + m /\ DOMAIN s = 1 .. m
        /\ \A i \in 1 .. n : a[i] = req.asked[i] /\ i \in DOMAIN req.asked
        /\ \A i \in DOMAIN a : i > n => i - n \in DOMAIN s /\ a[i] = s[i - n] /\ a[i] \in S
        /\ \A i \in DOMAIN s : n + i \in DOMAIN a /\ a[n + i] = s[i]
    <3>1. s \in Seq(J!Objects)
      BY <2>4, <2>5, SeqDef
    <3>2. /\ a \in Seq(J!Objects) /\ Len(a) = n + m
          /\ \A i \in 1 .. n + m : a[i] = IF i <= n THEN req.asked[i] ELSE s[i - n]
      <4>1. /\ req.asked \o s \in Seq(J!Objects)
            /\ Len(req.asked \o s) = Len(req.asked) + Len(s)
            /\ \A i \in 1 .. Len(req.asked) + Len(s) :
                  (req.asked \o s)[i] = IF i <= Len(req.asked) THEN req.asked[i] ELSE s[i - Len(req.asked)]
        BY <1>0, <3>1, ConcatProperties, Zenon
      <4> QED
        BY <2>6, <2>7, <4>1, Zenon
    <3>3. DOMAIN a = 1 .. n + m /\ DOMAIN s = 1 .. m /\ DOMAIN req.asked = 1 .. n
      BY <1>0, <2>5, <2>6, <3>2, LenProperties
    <3>4. \A i \in 1 .. m : s[i] \in S
      BY <2>5, <2>6, ElementOfSeq
    <3>5. \A i \in 1 .. n : a[i] = req.asked[i] /\ i \in DOMAIN req.asked
      BY <2>6, <3>2, <3>3
    <3>6. ASSUME NEW i \in DOMAIN a, i > n PROVE i - n \in DOMAIN s /\ a[i] = s[i - n] /\ a[i] \in S
      <4>1. i \in 1 .. n + m /\ i - n \in 1 .. m /\ ~(i <= n)
        BY <2>6, <3>3, <3>6
      <4> QED
        BY <3>2, <3>3, <3>4, <4>1, Zenon
    <3>7. ASSUME NEW i \in DOMAIN s PROVE n + i \in DOMAIN a /\ a[n + i] = s[i]
      <4>1. n + i \in 1 .. n + m /\ ~(n + i <= n) /\ (n + i) - n = i
        BY <2>6, <3>3, <3>7
      <4>2. a[n + i] = s[(n + i) - n]
        BY <3>2, <4>1, Zenon
      <4> QED
        BY <3>3, <4>1, <4>2, Zenon
    <3> QED
      BY <3>2, <3>3, <3>5, <3>6, <3>7
  <2>9. /\ req'.pc = "check" /\ req'.ids = req.ids /\ req'.groups = req.groups /\ req'.found = req.found
        /\ req'.asked = a
    BY <1>0, <2>2, <2>7 DEF LookupInv, LookupTypes, Lookups
  <2>10. LookupTypes'
    <3>1. req' \in Lookups(req'.found)
      BY <2>2, <2>7, <2>8 DEF LookupInv, LookupTypes, Lookups
    <3> QED
      BY <2>3, <3>1 DEF LookupInv, LookupTypes, J!world
  <2>11. /\ could \subseteq could' /\ stayed' \subseteq stayed /\ Remembered'
         /\ req.groups # {} => entered \subseteq entered'
    BY <1>0, <2>9, RememberedGrows
  <2>12. \A p \in J!Objects : Could(p) => Could(p)'
    <3>1. user' = user /\ allowed' = allowed
      BY <2>3 DEF J!world
    <3> QED
      BY <1>0, <2>9, <3>1, CouldStays DEF ListsChange
  <2>13. FoundInv'
    BY <1>0, <2>9, <2>11 DEF LookupInv, FoundInv
  <2>14. NamedInv'
    <3>1. Len(req'.asked) >= Len(req'.ids)
      BY <1>0, <2>6, <2>8, <2>9
    <3>2. ASSUME NEW i \in DOMAIN a PROVE (i <= n => a[i][1] = req.ids[i]) /\ Could(a[i])'
      <4>1. CASE i > n
        BY <2>4, <2>8, <2>12, <3>2, <4>1
      <4>2. CASE ~(i > n)
        <5>1. i \in 1 .. n
          BY <2>6, <2>8, <3>2, <4>2
        <5>2. i \in DOMAIN req.asked /\ a[i] = req.asked[i] /\ i <= Len(req.ids)
          BY <1>0, <2>6, <2>8, <5>1
        <5>3. Could(a[i]) /\ a[i][1] = req.ids[i] /\ a[i] \in J!Objects
          BY <1>0, <2>8, <3>2, <5>2, ElementOfSeq DEF LookupInv, NamedInv
        <5> QED
          BY <2>12, <5>3
      <4> QED
        BY <4>1, <4>2
    <3>3. \A i \in DOMAIN a : Could(a[i])' = Could(req.asked[i])'
      BY <2>9 DEF Could
    <3> QED
      BY <1>0, <2>6, <2>9, <3>1, <3>2, <3>3 DEF NamedInv
  <2>15. OthersInv'
    <3>1. \A i \in DOMAIN a : i > n => a[i] \in req.found /\ ~J!Contains(req.ids, a[i][1])
      BY <2>4, <2>8
    <3>2. ASSUME NEW i \in DOMAIN a, NEW j \in DOMAIN a, i > n, j > n, a[i] = a[j] PROVE i = j
      <4>1. i - n = j - n
        BY <2>5, <2>8, <3>2
      <4> QED
        BY <2>6, <2>8, <3>2, <4>1
    <3>3. \A o \in req.found : ~J!Contains(req.ids, o[1]) => \E i \in DOMAIN a : a[i] = o
      BY <2>1, <2>5, <2>8
    <3>4. n = Len(req'.ids)
      BY <1>0, <2>6, <2>9
    <3> QED
      BY <2>9, <3>1, <3>2, <3>3, <3>4 DEF OthersInv
  <2>16. SingleInv' /\ GroupsInv'
    BY <2>9 DEF SingleInv, GroupsInv
  <2> QED
    BY <2>10, <2>11, <2>13, <2>14, <2>15, <2>16 DEF LookupInv
<1> QED
  BY <1>1, <1>2

\* The user's access to those that were found.
LEMMA CheckStep == ASSUME LookupInv, J!Remembers, J!ChecksAccess PROVE LookupInv'
<1>1. CASE J!Ends
  BY <1>1, EndStep
<1>2. CASE ~J!Ends
  <2>1. /\ req.pc = "check" /\ req' = [req EXCEPT !.pc = "send"] /\ UNCHANGED J!world
        /\ J!CheckClientsAccess(J!Range(req.asked))
    BY <1>2 DEF J!ChecksAccess, J!Goes
  <2>2. /\ req'.pc = "send" /\ req'.ids = req.ids /\ req'.groups = req.groups /\ req'.found = req.found
        /\ req'.asked = req.asked
    BY <2>1 DEF LookupInv, LookupTypes, Lookups
  <2>3. LookupTypes'
    BY <2>1 DEF LookupInv, LookupTypes, Lookups, J!world
  <2>4. /\ could \subseteq could' /\ stayed' \subseteq stayed /\ Remembered'
        /\ req.groups # {} => entered \subseteq entered'
    BY <2>1, <2>2, RememberedGrows
  <2>5. \A i \in DOMAIN req.asked : req.asked[i][1] \in could'
    <3> TAKE i \in DOMAIN req.asked
    <3>1. req.asked[i] \in J!Range(req.asked)
      BY DEF J!Range
    <3>2. J!CheckClientsAccess({req.asked[i]})
      BY <2>1, <3>1 DEF J!CheckClientsAccess
    <3> QED
      BY <2>1, <2>4, <3>2 DEF LookupInv, NamedInv, Could
  <2>6. FoundInv'
    BY <2>1, <2>2, <2>4 DEF LookupInv, FoundInv
  <2>7. NamedInv'
    BY <2>1, <2>2, <2>5 DEF LookupInv, NamedInv
  <2>8. OthersInv'
    BY <2>1, <2>2 DEF LookupInv, OthersInv
  <2>9. SingleInv' /\ GroupsInv'
    BY <2>2 DEF SingleInv, GroupsInv
  <2> QED
    BY <2>3, <2>4, <2>6, <2>7, <2>8, <2>9 DEF LookupInv
<1> QED
  BY <1>1, <1>2

LEMMA LookupStep == LookupInv /\ (J!Next \/ UNCHANGED lookup) => LookupInv'
<1> SUFFICES ASSUME LookupInv, J!Next \/ UNCHANGED lookup PROVE LookupInv'
  OBVIOUS
<1>1. CASE UNCHANGED lookup
  BY <1>1 DEF lookup, LookupInv, LookupTypes, Remembered, SingleInv, GroupsInv, FoundInv, NamedInv, OthersInv,
     Could, J!Accessible, J!Active, J!InGroup, J!CheckClientsAccess, J!HasAccess, J!Object
<1>2. ASSUME J!Environment, J!Remembers PROVE LookupInv'
  BY <1>2, EnvironmentStep
<1>3. ASSUME J!Remembers, J!ArrivesForOne PROVE LookupInv'
  <2>1. PICK c \in Clients : J!Arrives("single", "access", <<c>>, {})
    BY <1>3 DEF J!ArrivesForOne
  <2>2. PICK ids : ids = <<c>>
    OBVIOUS
  <2>3. ids \in Seq(Clients) /\ Len(ids) = 1
    BY <2>2
  <2>4. J!Arrives("single", "access", ids, {}) /\ {} \in SUBSET GroupIds
    BY <2>1, <2>2
  <2> QED
    BY <1>3, <2>3, <2>4, ArriveStep
<1>4. ASSUME J!Remembers, NEW api \in {"rest", "websocket"}, J!ArrivesForMany(api) PROVE LookupInv'
  <2>1. PICK n \in 0 .. MaxIds : \E i \in [1 .. n -> Clients], gs \in SUBSET GroupIds : J!Arrives(api, "groups", i, gs)
    BY <1>4 DEF J!ArrivesForMany
  <2>2. PICK i \in [1 .. n -> Clients], gs \in SUBSET GroupIds : J!Arrives(api, "groups", i, gs)
    BY <2>1
  <2>3. i \in Seq(Clients)
    BY SeqDef
  <2> QED
    BY <1>4, <2>2, <2>3, ArriveStep
<1>5. ASSUME J!Sends PROVE LookupInv'
  BY <1>5, EndStep DEF J!Sends
<1> QED
  BY <1>1, <1>2, <1>3, <1>4, <1>5, SingleStep, GroupStep, ClientStep, OrderStep, CheckStep
     DEF J!Next, J!Request, J!handlePostCommand, J!handleExecuteScript, J!handlePostMultiClientCommand,
         J!handlePostMultiClientScript, J!handleCommandsWS, J!handleScriptsWS

\* When the jobs go out the clients are as the property says.
LEMMA LookupAsked == LookupInv => AskedClients
<1> SUFFICES ASSUME LookupInv, req.pc = "send", NEW c \in Clients PROVE
      LET asked == [i \in DOMAIN req.asked |-> req.asked[i][1]]
      IN  /\ J!Contains(asked, c) => c \in could
          /\ J!Contains(req.ids, c) => J!Times(c, asked) = J!Times(c, req.ids)
          /\ ~J!Contains(req.ids, c) => J!Times(c, asked) <= 1
          /\ J!Contains(asked, c) => J!Contains(req.ids, c) \/ \E g \in req.groups : <<c, g>> \in entered
          /\ (\E g \in req.groups : <<c, g>> \in stayed) => J!Contains(asked, c)
  BY DEF AskedClients, J!AskedClients
<1> DEFINE asked == [i \in DOMAIN req.asked |-> req.asked[i][1]]
<1>0. req.ids \in Seq(Clients) /\ req.asked \in Seq(J!Objects)
  BY DEF LookupInv, LookupTypes, Lookups
<1>1. PICK n \in Nat, m \in Nat : n = Len(req.ids) /\ m = Len(req.asked) /\ n <= m
  BY <1>0, LenProperties DEF LookupInv, NamedInv
<1>2. DOMAIN req.ids = 1 .. n /\ DOMAIN req.asked = 1 .. m
  BY <1>0, <1>1, LenProperties
<1>3. DOMAIN asked = 1 .. m /\ \A i \in 1 .. m : asked[i] = req.asked[i][1]
  BY <1>2
<1>4. \A i \in 1 .. m : (i <= n => asked[i] = req.ids[i]) /\ asked[i] \in could
  BY <1>1, <1>2, <1>3 DEF LookupInv, NamedInv
<1>5. \A i \in 1 .. m : i > n => req.asked[i] \in req.found /\ ~J!Contains(req.ids, asked[i])
  BY <1>1, <1>2, <1>3 DEF LookupInv, OthersInv
<1>6. \A i, j \in 1 .. m : i > n /\ j > n /\ req.asked[i] = req.asked[j] => i = j
  BY <1>1, <1>2 DEF LookupInv, OthersInv
<1>7. /\ \A o, p \in req.found : o[1] = p[1] => o = p
      /\ \A o \in req.found : \E g \in req.groups : <<o[1], g>> \in entered
      /\ \A g \in req.groups : <<c, g>> \in stayed => \E o \in req.found : o[1] = c
  BY DEF LookupInv, FoundInv
<1>8. \A o \in req.found : ~J!Contains(req.ids, o[1]) => \E i \in 1 .. m : req.asked[i] = o
  BY <1>2 DEF LookupInv, OthersInv
<1>9. J!Contains(req.ids, c) <=> \E i \in 1 .. n : req.ids[i] = c
  BY <1>1 DEF J!Contains
<1>10. J!Contains(asked, c) <=> \E i \in 1 .. m : asked[i] = c
  <2>1. Len(asked) = m
    <3>1. asked \in [1 .. m -> Clients]
      BY <1>0, <1>2 DEF J!Objects
    <3> QED
      BY <3>1, SeqDef, LenProperties
  <2> QED
    BY <2>1 DEF J!Contains
<1> HIDE DEF asked
<1>11. J!Contains(asked, c) => c \in could
  BY <1>4, <1>10
<1>12. J!Contains(req.ids, c) => J!Times(c, asked) = J!Times(c, req.ids)
  <2> SUFFICES ASSUME J!Contains(req.ids, c) PROVE J!Times(c, asked) = J!Times(c, req.ids)
    OBVIOUS
  <2>1. \A i \in 1 .. m : asked[i] = c => i \in 1 .. n
    BY <1>1, <1>5
  <2>2. {i \in DOMAIN asked : asked[i] = c} = {i \in DOMAIN req.ids : req.ids[i] = c}
    BY <1>1, <1>2, <1>3, <1>4, <2>1
  <2> QED
    BY <2>2 DEF J!Times
<1>13. ~J!Contains(req.ids, c) => J!Times(c, asked) <= 1
  <2> SUFFICES ASSUME ~J!Contains(req.ids, c) PROVE J!Times(c, asked) <= 1
    OBVIOUS
  <2> DEFINE T == {i \in DOMAIN asked : asked[i] = c}
  <2>1. \A i \in T : i \in 1 .. m /\ i > n
    BY <1>1, <1>3, <1>4, <1>9
  <2>2. \A i, j \in T : i = j
    <3> TAKE i, j \in T
    <3>1. req.asked[i] = req.asked[j]
      BY <1>3, <1>5, <1>7, <2>1
    <3> QED
      BY <1>6, <2>1, <3>1
  <2>3. Cardinality(T) <= 1
    <3>1. CASE T = {}
      BY <3>1, FS_EmptySet
    <3>2. CASE T # {}
      <4>1. PICK i \in T : T = {i}
        BY <2>2, <3>2
      <4>2. Cardinality({i}) = 1
        BY FS_Singleton
      <4> QED
        BY <4>1, <4>2
    <3> QED
      BY <3>1, <3>2
  <2>4. J!Times(c, asked) = Cardinality(T)
    BY SameCardinality DEF J!Times
  <2> QED
    BY <2>3, <2>4
<1>14. J!Contains(asked, c) => J!Contains(req.ids, c) \/ \E g \in req.groups : <<c, g>> \in entered
  <2> SUFFICES ASSUME NEW i \in 1 .. m, asked[i] = c, ~J!Contains(req.ids, c)
               PROVE  \E g \in req.groups : <<c, g>> \in entered
    BY <1>10
  <2>1. i > n
    BY <1>1, <1>4, <1>9
  <2> QED
    BY <1>3, <1>5, <1>7, <2>1
<1>15. (\E g \in req.groups : <<c, g>> \in stayed) => J!Contains(asked, c)
  <2> SUFFICES ASSUME NEW g \in req.groups, <<c, g>> \in stayed PROVE \E i \in 1 .. m : asked[i] = c
    BY <1>10
  <2>1. CASE J!Contains(req.ids, c)
    BY <1>1, <1>4, <1>9, <2>1
  <2>2. CASE ~J!Contains(req.ids, c)
    BY <1>3, <1>7, <1>8, <2>2
  <2> QED
    BY <2>1, <2>2
<1> QED
  BY <1>11, <1>12, <1>13, <1>14, <1>15 DEF asked

\* A request goes to the clients it was asked for and the user had access to (getOrderedClients,
\* CheckClientsAccess, wrapClientAccessMiddleware), whatever clients, access lists and groups do
\* between its lookups.
THEOREM RequestsAskWhoTheyMay == RequestsSpec => []AskedClients
<1>1. RequestsInit => LookupInv
  BY LookupInit DEF RequestsInit
<1>2. LookupInv /\ [RequestsNext]_<<vars, lookup, part>> => LookupInv'
  BY LookupStep DEF RequestsNext
<1> QED
  BY <1>1, <1>2, LookupAsked, PTL DEF RequestsSpec
=============================================================================
