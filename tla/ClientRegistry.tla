--------------------------- MODULE ClientRegistry ---------------------------
(***************************************************************************)
(* The server's registry of rport clients: the in-memory map of            *)
(* clients.ClientRepository, the clients table behind it, and the          *)
(* operations of ClientService that change them.                           *)
(*                                                                         *)
(* A client is a Go object shared by pointer: the map, the connection      *)
(* handler and every API request that looked it up hold the same object,   *)
(* so an object named o here may be mutated after it left the map.  The    *)
(* mutex ClientService.mu serialises StartClient, Terminate, ForceDelete   *)
(* and StartClientTunnels.  DeleteOffline, SetACL, SetUpdatesStatus and    *)
(* the cleanup task do not take it.  Save and Delete write the table       *)
(* first and the map afterwards, as two steps.                             *)
(***************************************************************************)
EXTENDS Integers, FiniteSets

CONSTANTS
    ClientIds,          \* client ids
    AuthIds,            \* client auth ids (the ssh user names)
    Sessions,           \* accepted websocket connections; each allocates one client object
    Requests,           \* goroutines of the API and of client requests
    Values,             \* values of AllowedUserGroups and of UpdatesStatus
    NoValue,            \* their zero value
    NoClient,           \* nil
    KeepLostClients,    \* keep_lost_clients in clock ticks; 0 disables it (nil in the code)
    AuthMultiuseCreds,  \* auth_multiuse_creds
    ApiOps,             \* the operations that Requests may perform
    DbMayFail,          \* whether a statement on the clients table may fail
    MaxTime,            \* bound on the clock
    MaxRestarts         \* bound on server restarts

AllOps == {"ForceDelete", "DeleteOffline", "SetACL", "SetUpdatesStatus", "StartTunnels"}

ASSUME RegistryAssumption ==
    /\ NoValue \in Values
    /\ Sessions \cap Requests = {}
    /\ Sessions \cap ClientIds = {}
    /\ NoClient \notin Sessions \cup ClientIds \cup Requests
    /\ KeepLostClients \in Nat
    /\ AuthMultiuseCreds \in BOOLEAN
    /\ DbMayFail \in BOOLEAN
    /\ ApiOps \subseteq AllOps
    /\ MaxTime \in Nat
    /\ MaxRestarts \in Nat

VARIABLES
    client,    \* the heap of client objects
    mem,       \* ClientRepository.clients
    db,        \* the clients table
    phase,     \* where the handler of a session (handleWebsocket) is
    conn,      \* the ssh connection of a session
    step,      \* the repository write a goroutine is about to make
    target,    \* the client object it makes it for
    mu,        \* holder of ClientService.mu, or NoClient
    cleaning,  \* whether the cleanup task is between its table and its map pass
    now,       \* the clock
    restarts   \* restarts so far

vars == <<client, mem, db, phase, conn, step, target, mu, cleaning, now, restarts>>

(***************************************************************************)
(* GetInitState gives every row it loads an object of its own: it is named *)
(* by the row's client id.                                                 *)
(***************************************************************************)
Objects == Sessions \cup ClientIds
Threads == Sessions \cup Requests

\* DisconnectedAt: Connected (nil in the code) or the time of disconnection.
Connected == -1
Disconnections == {Connected} \cup Nat

\* The fields of clients.Client the registry's behaviour depends on.
Client == [id : ClientIds, auth : AuthIds, disc : Disconnections,
           acl : Values, upd : Values]

ASSUME NilAssumption == NoClient \notin Client

\* A row of the clients table carries the same fields.
ToRow(o) == client[o]

Row == Client

\* Mutant of Obsolete: a client that is still connected counts as disconnected long ago.
ObsoleteConnected(c) == KeepLostClients > 0 /\ c.disc + KeepLostClients < now

\* Client.Obsolete: a disconnected client older than KeepLostClients, never when that is nil.
Obsolete(c) ==
    /\ KeepLostClients > 0
    /\ c.disc # Connected
    /\ c.disc + KeepLostClients < now

\* Mutant of RowExpired: <= for <.
RowExpiredEarly(r) == r.disc # Connected /\ r.disc + KeepLostClients <= now

\* The same test as the provider's SQL makes it, where a disabled KeepLostClients counts as 0.
RowExpired(r) ==
    /\ r.disc # Connected
    /\ r.disc + KeepLostClients < now

\* ClientRepository.GetByID: obsolete clients are hidden.
GetByID(id) ==
    IF mem[id] # NoClient /\ ~Obsolete(client[mem[id]]) THEN mem[id] ELSE NoClient

\* ClientRepository.GetActiveByID
GetActiveByID(id) ==
    IF mem[id] # NoClient /\ client[mem[id]].disc = Connected THEN mem[id] ELSE NoClient

\* ClientRepository.GetAllByClientAuthID, as the ids of the clients returned.
GetAllByClientAuthID(auth) ==
    {id \in ClientIds : GetByID(id) # NoClient /\ client[mem[id]].auth = auth}

\* Mutant of isClientAuthIDInUse: lost clients no longer reserve their auth id.
isClientAuthIDInUseByActive(auth, id) ==
    {i \in GetAllByClientAuthID(auth) : client[mem[i]].disc = Connected} \ {id} # {}

\* ClientService.isClientAuthIDInUse
isClientAuthIDInUse(auth, id) == GetAllByClientAuthID(auth) \ {id} # {}

-----------------------------------------------------------------------------
Init ==
    /\ client = [o \in Objects |-> NoClient]
    /\ mem = [id \in ClientIds |-> NoClient]
    /\ db = [id \in ClientIds |-> NoClient]
    /\ phase = [s \in Sessions |-> "idle"]
    /\ conn = [s \in Sessions |-> "none"]
    /\ step = [t \in Threads |-> "none"]
    /\ target = [t \in Threads |-> NoClient]
    /\ mu = NoClient
    /\ cleaning = FALSE
    /\ now = 0
    /\ restarts = 0

-----------------------------------------------------------------------------
(* ClientRepository.Save and Delete, for whichever goroutine t calls them. *)

\* t goes on to the write next for object o.
Enter(t, next, o) ==
    /\ step' = [step EXCEPT ![t] = next]
    /\ target' = [target EXCEPT ![t] = o]

\* Mutant of AfterWrite: the mutex is not released on the error path.
AfterWriteLeavesLocked(t, ok) ==
    /\ mu' = IF mu = t /\ ok THEN NoClient ELSE mu
    /\ phase' = IF t \notin Sessions THEN phase
                ELSE [phase EXCEPT ![t] =
                        IF phase[t] = "starting" THEN (IF ok THEN "up" ELSE "refused")
                        ELSE "done"]

\* t's operation returns: deferred unlock, and the handler's next phase.
AfterWrite(t, ok) ==
    /\ mu' = IF mu = t THEN NoClient ELSE mu
    /\ phase' = IF t \notin Sessions THEN phase
                ELSE [phase EXCEPT ![t] =
                        IF phase[t] = "starting" THEN (IF ok THEN "up" ELSE "refused")
                        ELSE "done"]

SaveDb(t) ==
    /\ step[t] = "saveDb"
    /\ db' = [db EXCEPT ![client[target[t]].id] = ToRow(target[t])]
    /\ Enter(t, "saveMem", target[t])
    /\ UNCHANGED <<client, mem, phase, conn, mu, cleaning, now, restarts>>

SaveMem(t) ==
    /\ step[t] = "saveMem"
    /\ mem' = [mem EXCEPT ![client[target[t]].id] = target[t]]
    /\ Enter(t, "none", NoClient)
    /\ AfterWrite(t, TRUE)
    /\ UNCHANGED <<client, db, conn, cleaning, now, restarts>>

DeleteDb(t) ==
    /\ step[t] = "deleteDb"
    /\ db' = [db EXCEPT ![client[target[t]].id] = NoClient]
    /\ Enter(t, "deleteMem", target[t])
    /\ UNCHANGED <<client, mem, phase, conn, mu, cleaning, now, restarts>>

DeleteMem(t) ==
    /\ step[t] = "deleteMem"
    /\ mem' = [mem EXCEPT ![client[target[t]].id] = NoClient]
    /\ Enter(t, "none", NoClient)
    /\ AfterWrite(t, TRUE)
    /\ UNCHANGED <<client, db, conn, cleaning, now, restarts>>

\* The statement of Save or Delete fails: the map is left alone and the error returned.
DbError(t) ==
    /\ DbMayFail
    /\ step[t] \in {"saveDb", "deleteDb"}
    /\ Enter(t, "none", NoClient)
    /\ AfterWrite(t, FALSE)
    /\ UNCHANGED <<client, mem, db, conn, cleaning, now, restarts>>

-----------------------------------------------------------------------------
(* handleWebsocket: StartClient, the wait for the connection to end, Terminate. *)

\* The conditions under which StartClient turns the client away.
Refused(id, auth) ==
    \/ GetByID(id) # NoClient /\ client[mem[id]].disc = Connected
    \/ ~AuthMultiuseCreds /\ isClientAuthIDInUse(auth, id)

\* The new object: nothing of the old one but its UpdatesStatus is carried over.
NewClient(id, auth) ==
    [id |-> id, auth |-> auth, disc |-> Connected, acl |-> NoValue,
     upd |-> IF GetByID(id) = NoClient THEN NoValue ELSE client[mem[id]].upd]

\* ClientService.StartClient up to repo.Save; the mutex stays held until Save returns.
StartClient(s, id, auth) ==
    /\ phase[s] = "idle"
    /\ mu = NoClient
    /\ ~Refused(id, auth)
    /\ mu' = s
    /\ client' = [client EXCEPT ![s] = NewClient(id, auth)]
    /\ phase' = [phase EXCEPT ![s] = "starting"]
    /\ conn' = [conn EXCEPT ![s] = "open"]
    /\ Enter(s, "saveDb", s)
    /\ UNCHANGED <<mem, db, cleaning, now, restarts>>

\* Turned away: Refused, or a tunnel cannot be started, whatever the registry holds.
StartClientFails(s) ==
    /\ phase[s] = "idle"
    /\ mu = NoClient
    /\ phase' = [phase EXCEPT ![s] = "refused"]
    /\ UNCHANGED <<client, mem, db, conn, step, target, mu, cleaning, now, restarts>>

\* The peer or the network ends the connection.
ConnectionLost(s) ==
    /\ conn[s] = "open"
    /\ conn' = [conn EXCEPT ![s] = "closed"]
    /\ UNCHANGED <<client, mem, db, phase, step, target, mu, cleaning, now, restarts>>

\* Mutant of Terminate: DisconnectedAt is only set once the client is known to be in the map.
TerminateMarksLate(s) ==
    /\ phase[s] = "up"
    /\ conn[s] = "closed"
    /\ mu = NoClient
    /\ IF GetByID(client[s].id) = NoClient
       THEN /\ phase' = [phase EXCEPT ![s] = "done"]
            /\ UNCHANGED <<client, step, target, mu>>
       ELSE /\ client' = [client EXCEPT ![s].disc = now]
            /\ Enter(s, "saveDb", s)
            /\ mu' = s
            /\ phase' = [phase EXCEPT ![s] = "closing"]
    /\ UNCHANGED <<mem, db, conn, cleaning, now, restarts>>

\* DisconnectedAt is set on the shared object, also when nothing is saved afterwards.
Terminate(s) ==
    /\ phase[s] = "up"
    /\ conn[s] = "closed"
    /\ mu = NoClient
    /\ IF KeepLostClients = 0
       THEN /\ Enter(s, "deleteDb", s)
            /\ mu' = s
            /\ phase' = [phase EXCEPT ![s] = "closing"]
            /\ UNCHANGED client
       ELSE /\ client' = [client EXCEPT ![s].disc = now]
            /\ IF GetByID(client[s].id) = NoClient
               THEN /\ phase' = [phase EXCEPT ![s] = "done"]
                    /\ UNCHANGED <<step, target, mu>>
               ELSE /\ Enter(s, "saveDb", s)
                    /\ mu' = s
                    /\ phase' = [phase EXCEPT ![s] = "closing"]
    /\ UNCHANGED <<mem, db, conn, cleaning, now, restarts>>

-----------------------------------------------------------------------------
(* Requests: each looks a client up and then acts on the object it found. *)

\* A request that has looked its client up and waits for ClientService.mu.
Waiting == {"forceDelete", "startTunnels"}

Idle(r, op) == step[r] = "none" /\ op \in ApiOps

\* handleDeleteClientAuth lists the clients of an auth id before it deletes them one by one.
ForceDeleteLookup(r, id) ==
    /\ Idle(r, "ForceDelete")
    /\ GetByID(id) # NoClient
    /\ Enter(r, "forceDelete", mem[id])
    /\ UNCHANGED <<client, mem, db, phase, conn, mu, cleaning, now, restarts>>

\* An active client is closed first; closing one that is already down may fail.
ForceDelete(r) ==
    LET o == target[r] IN
    /\ step[r] = "forceDelete"
    /\ mu = NoClient
    /\ \/ /\ client[o].disc = Connected /\ conn[o] = "closed"
          /\ Enter(r, "none", NoClient)
          /\ UNCHANGED <<conn, mu>>
       \/ /\ Enter(r, "deleteDb", o)
          /\ conn' = IF client[o].disc = Connected
                     THEN [conn EXCEPT ![o] = "closed"] ELSE conn
          /\ mu' = r
    /\ UNCHANGED <<client, mem, db, phase, cleaning, now, restarts>>

DeleteOffline(r, id) ==
    /\ Idle(r, "DeleteOffline")
    /\ GetByID(id) # NoClient
    /\ client[mem[id]].disc # Connected
    /\ Enter(r, "deleteDb", mem[id])
    /\ UNCHANGED <<client, mem, db, phase, conn, mu, cleaning, now, restarts>>

SetACL(r, id, v) ==
    /\ Idle(r, "SetACL")
    /\ GetByID(id) # NoClient
    /\ client' = [client EXCEPT ![mem[id]].acl = v]
    /\ Enter(r, "saveDb", mem[id])
    /\ UNCHANGED <<mem, db, phase, conn, mu, cleaning, now, restarts>>

\* handleSSHRequests of an accepted session; it may still be busy after the connection ended.
SetUpdatesStatus(r, s, v) ==
    LET id == client[s].id IN
    /\ Idle(r, "SetUpdatesStatus")
    /\ phase[s] \in {"up", "closing", "done"}
    /\ GetByID(id) # NoClient
    /\ client' = [client EXCEPT ![mem[id]].upd = v]
    /\ Enter(r, "saveDb", mem[id])
    /\ UNCHANGED <<mem, db, phase, conn, mu, cleaning, now, restarts>>

\* handlePutClientTunnel looks the active client up, then StartClientTunnels saves it.
StartTunnelsLookup(r, id) ==
    /\ Idle(r, "StartTunnels")
    /\ GetActiveByID(id) # NoClient
    /\ Enter(r, "startTunnels", mem[id])
    /\ UNCHANGED <<client, mem, db, phase, conn, mu, cleaning, now, restarts>>

StartTunnels(r) ==
    /\ step[r] = "startTunnels"
    /\ mu = NoClient
    /\ mu' = r
    /\ Enter(r, "saveDb", target[r])
    /\ UNCHANGED <<client, mem, db, phase, conn, cleaning, now, restarts>>

-----------------------------------------------------------------------------
(* The cleanup task, the clock, and a server crash followed by a restart. *)

CleanupDb ==
    /\ ~cleaning
    /\ db' = [id \in ClientIds |->
                IF db[id] # NoClient /\ RowExpired(db[id]) THEN NoClient ELSE db[id]]
    /\ cleaning' = TRUE
    /\ UNCHANGED <<client, mem, phase, conn, step, target, mu, now, restarts>>

CleanupMem ==
    /\ cleaning
    /\ mem' = [id \in ClientIds |->
                IF mem[id] # NoClient /\ Obsolete(client[mem[id]]) THEN NoClient ELSE mem[id]]
    /\ cleaning' = FALSE
    /\ UNCHANGED <<client, db, phase, conn, step, target, mu, now, restarts>>

Tick ==
    /\ now < MaxTime
    /\ now' = now + 1
    /\ UNCHANGED <<client, mem, db, phase, conn, step, target, mu, cleaning, restarts>>

\* SqliteProvider.GetAll: rows too old are not loaded (they stay in the table).
Loaded == {id \in ClientIds : db[id] # NoClient /\ ~RowExpired(db[id])}

\* GetInitState marks a row that was left connected as disconnected now, and saves it.
MarkDisconnected(r) == IF r.disc = Connected THEN [r EXCEPT !.disc = now] ELSE r

Restart ==
    /\ restarts < MaxRestarts
    /\ restarts' = restarts + 1
    /\ db' = [id \in ClientIds |-> IF id \in Loaded THEN MarkDisconnected(db[id]) ELSE db[id]]
    /\ client' = [o \in Objects |->
                    IF o \in Loaded THEN MarkDisconnected(db[o]) ELSE NoClient]
    /\ mem' = [id \in ClientIds |-> IF id \in Loaded THEN id ELSE NoClient]
    /\ phase' = [s \in Sessions |-> IF phase[s] = "idle" THEN "idle" ELSE "dead"]
    /\ conn' = [s \in Sessions |-> IF conn[s] = "none" THEN "none" ELSE "closed"]
    /\ step' = [t \in Threads |-> "none"]
    /\ target' = [t \in Threads |-> NoClient]
    /\ mu' = NoClient
    /\ cleaning' = FALSE
    /\ UNCHANGED now

-----------------------------------------------------------------------------
RepositoryWrite(t) ==
    SaveDb(t) \/ SaveMem(t) \/ DeleteDb(t) \/ DeleteMem(t) \/ DbError(t)

Connect(s) ==
    \/ \E id \in ClientIds, auth \in AuthIds : StartClient(s, id, auth)
    \/ StartClientFails(s)

Request(r) ==
    \/ \E id \in ClientIds :
        \/ ForceDeleteLookup(r, id)
        \/ DeleteOffline(r, id)
        \/ StartTunnelsLookup(r, id)
        \/ \E v \in Values : SetACL(r, id, v)
    \/ \E s \in Sessions, v \in Values : SetUpdatesStatus(r, s, v)
    \/ ForceDelete(r)
    \/ StartTunnels(r)

Next ==
    \/ \E t \in Threads : RepositoryWrite(t)
    \/ \E s \in Sessions : Connect(s) \/ ConnectionLost(s) \/ Terminate(s)
    \/ \E r \in Requests : Request(r)
    \/ CleanupDb
    \/ CleanupMem
    \/ Tick
    \/ Restart

Spec == Init /\ [][Next]_vars

(***************************************************************************)
(* Goroutines that hold or wait for ClientService.mu keep running, and Go's *)
(* mutex does not starve a waiter.                                          *)
(***************************************************************************)
Fairness ==
    /\ \A t \in Threads : WF_vars(RepositoryWrite(t))
    /\ \A s \in Sessions : SF_vars(Terminate(s))
    /\ \A r \in Requests : SF_vars(ForceDelete(r) \/ StartTunnels(r))

FairSpec == Spec /\ Fairness
-----------------------------------------------------------------------------
(* Properties *)

\* The variables hold values of their types (state kept by client_service.go and cr.go).
TypeOK ==
    /\ client \in [Objects -> Client \cup {NoClient}]
    /\ mem \in [ClientIds -> Objects \cup {NoClient}]
    /\ db \in [ClientIds -> Row \cup {NoClient}]
    /\ phase \in [Sessions -> {"idle", "starting", "up", "closing", "done", "refused", "dead"}]
    /\ conn \in [Sessions -> {"none", "open", "closed"}]
    /\ step \in [Threads -> {"none", "saveDb", "saveMem", "deleteDb", "deleteMem"} \cup Waiting]
    /\ target \in [Threads -> Objects \cup {NoClient}]
    /\ mu \in Threads \cup {NoClient}
    /\ cleaning \in BOOLEAN
    /\ now \in Nat
    /\ restarts \in Nat

\* A client the registry shows as connected is served by a handler that has not finished, so
\* somebody is left to terminate it and its id cannot stay refused as "already in use" for ever.
ConnectedHasHandler ==
    \A id \in ClientIds :
        mem[id] # NoClient /\ client[mem[id]].disc = Connected =>
            /\ mem[id] \in Sessions
            /\ phase[mem[id]] \in {"up", "closing"}

\* A connection that was accepted and not yet terminated is the one the registry lists for its
\* id: the API reaches every connected client (StartClient, Terminate, the cleanup task).
LiveListed ==
    \A s \in Sessions : phase[s] = "up" => mem[client[s].id] = s

\* "a client is rejected if another client with the same id is connected": no two open
\* connections that were accepted have the same client id (StartClient).
OneConnectionPerId ==
    \A s1, s2 \in Sessions :
        /\ s1 # s2
        /\ phase[s1] = "up" /\ phase[s2] = "up"
        /\ conn[s1] = "open" /\ conn[s2] = "open"
        => client[s1].id # client[s2].id

\* Without auth_multiuse_creds, no two clients that are connected or were so within
\* keep_lost_clients have the same client auth id (StartClient, isClientAuthIDInUse).
AuthIdExclusive ==
    ~AuthMultiuseCreds =>
        \A id1, id2 \in ClientIds :
            /\ id1 # id2
            /\ GetByID(id1) # NoClient /\ GetByID(id2) # NoClient
            => client[mem[id1]].auth # client[mem[id2]].auth

\* Between operations the table and the map agree on every client that is not obsolete, so
\* that a restart loses nothing (Save, Delete, DeleteObsolete).
Quiescent == ~cleaning /\ \A t \in Threads : step[t] = "none"

TableMatchesMap ==
    Quiescent =>
        \A id \in ClientIds :
            IF GetByID(id) # NoClient THEN db[id] = ToRow(mem[id])
            ELSE db[id] = NoClient \/ RowExpired(db[id])

\* "Do not save if client doesn't exist in repo - it was force deleted": no step of a handler
\* puts its client back into the map after another goroutine took it out (Terminate).
ForceDeletedStaysDeleted ==
    [][\A id \in ClientIds :
        /\ mem'[id] \in Sessions
        /\ mem'[id] # mem[id]
        => phase[mem'[id]] = "starting"]_vars

\* keep_lost_clients is "a duration to keep info about active and disconnected clients": once
\* the cleanup task has run, the map holds nobody disconnected for longer (DeleteObsolete).
CleanupForgetsLost ==
    [][cleaning /\ ~cleaning' /\ restarts' = restarts =>
        \A id \in ClientIds : mem'[id] # NoClient => ~RowExpired(client[mem'[id]])]_vars

\* A connection that ended is eventually no longer shown as connected (handleWebsocket).
EndedIsDisconnected ==
    \A s \in Sessions :
        phase[s] = "up" /\ conn[s] = "closed"
            ~> ~\E id \in ClientIds : mem[id] = s /\ client[s].disc = Connected

=============================================================================
