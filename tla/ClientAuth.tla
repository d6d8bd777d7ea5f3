----------------------------- MODULE ClientAuth -----------------------------
(***************************************************************************)
(* Client credentials: clientsauth.CachedProvider over a file or a         *)
(* database table, or the single pair of the configuration; the API that   *)
(* adds and deletes them; and the connections that authenticate with them. *)
(*                                                                         *)
(* CachedProvider.mu is held around the calls of the provider behind it.   *)
(* The registry of clients is the one of ClientRegistry, reduced to who is *)
(* known under which credentials: StartClient, ForceDelete and Terminate   *)
(* hold ClientService.mu and are one step each, and lost clients are kept. *)
(* SetACL, SetUpdatesStatus and the PUT of a tunnel look a client up and   *)
(* save what they found later, whatever has become of it.  Clients that    *)
(* leave the registry by themselves (DeleteOffline, the cleanup) do not    *)
(* matter here.                                                            *)
(* The server is the only one that writes the credentials while auth_write *)
(* is on.                                                                  *)
(***************************************************************************)
EXTENDS Integers, FiniteSets

CONSTANTS
    AuthIds,        \* ids of credentials
    Passwords,
    Clients,        \* client ids
    Connections,    \* accepted websockets: each makes one client object
    Requests,       \* API requests that may be under way at once
    MaxFailedLogin, \* 0 when addresses are not banned
    MaxRestarts,    \* bound on restarts of the server
    MaxBusy,        \* bound on the requests and other operations under way at once
    Torn,           \* a file that cannot be parsed
    None

ASSUME ClientAuthAssumption ==
    /\ None \notin AuthIds \cup Passwords \cup Clients \cup Connections \cup Requests
    /\ MaxFailedLogin \in Nat /\ MaxRestarts \in Nat /\ MaxBusy \in Nat
    /\ Torn \notin [AuthIds -> Passwords \cup {None}]

VARIABLES
    source,    \* where the credentials are: "file", "database" or "static"
    multiuse,  \* auth_multiuse_creds
    running,   \* whether the server is
    restarts,
    stored,    \* the file, the table or the configuration
    cache,     \* CachedProvider.clients
    mu,        \* the request that holds CachedProvider.mu for writing
    req,       \* the API requests
    known,     \* the clients of the repository, with the object that is in it
    conn,      \* the connections
    held,      \* objects that operations on a client have looked up and may save
    banned,    \* bannedClientAuths
    attempts,  \* bannedIPs of the address the clients come from
    banTime,   \* whether that address is banned
    kept,      \* for the properties: credentials whose creation was acknowledged
    late       \* and clients registered or saved while a deletion or a termination was under way

vars == <<source, multiuse, running, restarts, stored, cache, mu, req, known, conn, held, banned, attempts, banTime, kept, late>>
config == <<source, multiuse>>
server == <<running, restarts>>
bans == <<banned, attempts, banTime>>

Credentials == [AuthIds -> Passwords \cup {None}]
NoRequest == [pc |-> "idle", op |-> None, id |-> None, pass |-> None, force |-> FALSE, found |-> {}, pairs |-> None]
NoConn == [pc |-> "none", id |-> None, client |-> None]
Unknown == [id |-> None, object |-> None]

Init ==
    /\ source \in {"file", "database", "static"}
    /\ multiuse \in BOOLEAN
    /\ running = TRUE
    /\ restarts = 0
    /\ stored \in {c \in Credentials : source = "static" => \E a \in AuthIds : \A b \in AuthIds : c[b] # None <=> b = a}
    /\ cache = stored
    /\ mu = None
    /\ req = [r \in Requests |-> NoRequest]
    /\ known = [c \in Clients |-> Unknown]
    /\ conn = [s \in Connections |-> NoConn]
    /\ held = {}
    /\ banned = {}
    /\ attempts = 0
    /\ banTime = FALSE
    /\ kept = [a \in AuthIds |-> None]
    /\ late = {}

Goes(r, pc) == req' = [req EXCEPT ![r].pc = pc]
Ends(r) == req' = [req EXCEPT ![r] = NoRequest]

\* One more request or operation may come in.
Arrives == Cardinality(held) + Cardinality({r \in Requests : req[r].pc # "idle"}) < MaxBusy

\* IsWriteable
Writeable == source # "static"

-----------------------------------------------------------------------------
(* The provider, for the request that holds the lock.                      *)

\* CachedProvider.Add and Delete take the lock; nothing else is waited for
\* under it.  Add returns at once for credentials that are there.
Locks(r) ==
    /\ req[r].pc = "lock" /\ mu = None
    /\ \/ req[r].op = "add" /\ cache[req[r].id] # None /\ Ends(r) /\ mu' = mu
       \/ ~(req[r].op = "add" /\ cache[req[r].id] # None) /\ Goes(r, "write") /\ mu' = r
    /\ kept' = IF req[r].op = "delete" THEN [kept EXCEPT ![req[r].id] = None] ELSE kept
    /\ UNCHANGED <<config, server, stored, cache, known, conn, bans, late, held>>

\* The content of the provider after the request: credentials that are there
\* are not replaced.
Written(r) ==
    IF req[r].op = "delete" THEN [stored EXCEPT ![req[r].id] = None]
    ELSE [stored EXCEPT ![req[r].id] = IF @ = None THEN req[r].pass ELSE @]

\* DatabaseProvider.Add and Delete
WritesTable(r) ==
    /\ req[r].pc = "write" /\ source = "database"
    /\ stored' = Written(r)
    /\ Goes(r, "cache")
    /\ UNCHANGED <<config, server, cache, mu, known, conn, bans, kept, late, held>>

\* FileProvider.Add and Delete: the file is loaded, and truncated by save.
LoadsFile(r) ==
    /\ req[r].pc = "write" /\ source = "file" /\ stored # Torn
    /\ \/ req[r].op = "add" /\ stored[req[r].id] # None /\ Goes(r, "cache") /\ UNCHANGED stored
       \/ /\ req[r].op = "delete" \/ stored[req[r].id] = None
          /\ req' = [req EXCEPT ![r].pc = "encode", ![r].pairs = Written(r)]
          /\ stored' = Torn
    /\ UNCHANGED <<config, server, cache, mu, known, conn, bans, kept, late, held>>

\* FileProvider.save: the encoder fills the truncated file.
Encodes(r) ==
    /\ req[r].pc = "encode"
    /\ stored' = req[r].pairs
    /\ req' = [req EXCEPT ![r].pc = "cache", ![r].pairs = None]
    /\ UNCHANGED <<config, server, cache, mu, known, conn, bans, kept, late, held>>

\* A mutant of ReturnsError: the provider's error is dropped.
ReturnsErrorDropped(r) ==
    /\ req[r].pc \in {"write", "encode"}
    /\ cache' = [cache EXCEPT ![req[r].id] = IF req[r].op = "add" THEN req[r].pass ELSE None]
    /\ kept' = [kept EXCEPT ![req[r].id] = IF req[r].op = "add" THEN req[r].pass ELSE None]
    /\ mu' = None
    /\ Ends(r)
    /\ UNCHANGED <<config, server, stored, known, conn, bans, late, held>>

\* The provider returns an error: the statement fails, the file cannot be
\* parsed or opened, or the encoder stops half-way.
ReturnsError(r) ==
    /\ req[r].pc \in {"write", "encode"}
    /\ mu' = None
    /\ Ends(r)
    /\ UNCHANGED <<config, server, stored, cache, known, conn, bans, kept, late, held>>

\* A mutant of Caches: a deletion leaves the credentials in the cache.
CachesAdded(r) ==
    /\ req[r].pc = "cache"
    /\ cache' = IF req[r].op = "add" THEN [cache EXCEPT ![req[r].id] = req[r].pass] ELSE cache
    /\ kept' = [kept EXCEPT ![req[r].id] = IF req[r].op = "add" THEN req[r].pass ELSE None]
    /\ mu' = None
    /\ Ends(r)
    /\ UNCHANGED <<config, server, stored, known, conn, bans, late, held>>

\* CachedProvider.Add and Delete, after the provider's.
Caches(r) ==
    /\ req[r].pc = "cache"
    /\ cache' = [cache EXCEPT ![req[r].id] = IF req[r].op = "add" THEN req[r].pass ELSE None]
    /\ kept' = [kept EXCEPT ![req[r].id] = IF req[r].op = "add" THEN req[r].pass ELSE None]
    /\ mu' = None
    /\ Ends(r)
    /\ UNCHANGED <<config, server, stored, known, conn, bans, late, held>>

-----------------------------------------------------------------------------
(* The API.                                                                *)

\* handlePostClientsAuth
handlePostClientsAuth(r) ==
    /\ running /\ req[r].pc = "idle" /\ Arrives /\ Writeable
    /\ \E a \in AuthIds, p \in Passwords :
        req' = [req EXCEPT ![r] = [NoRequest EXCEPT !.pc = "lock", !.op = "add", !.id = a, !.pass = p]]
    /\ UNCHANGED <<config, server, stored, cache, mu, known, conn, bans, kept, late, held>>

\* handleDeleteClientAuth, up to Get: credentials that are not there end it.
handleDeleteClientAuth(r) ==
    /\ running /\ req[r].pc = "idle" /\ Arrives /\ Writeable /\ mu = None
    /\ \E a \in AuthIds, force \in BOOLEAN :
        /\ cache[a] # None
        /\ req' = [req EXCEPT ![r] = [NoRequest EXCEPT !.pc = "lookup", !.op = "delete", !.id = a, !.force = force]]
    /\ UNCHANGED <<config, server, stored, cache, mu, known, conn, bans, kept, late, held>>

\* GetAllByClientAuthID: the clients' objects.
BoundClients(a) == {<<c, known[c].object>> : c \in {d \in Clients : known[d].id = a}}

\* A mutant of LooksUp: bound clients do not stop a deletion without force.
LooksUpOnly(r) ==
    /\ req[r].pc = "lookup"
    /\ req' = [req EXCEPT ![r].pc = "force", ![r].found = IF req[r].force THEN BoundClients(req[r].id) ELSE {}]
    /\ UNCHANGED <<config, server, stored, cache, mu, known, conn, bans, kept, late, held>>

\* handleDeleteClientAuth: without force, bound clients end it.
LooksUp(r) ==
    /\ req[r].pc = "lookup"
    /\ \/ ~req[r].force /\ BoundClients(req[r].id) # {} /\ Ends(r)
       \/ (req[r].force \/ BoundClients(req[r].id) = {})
            /\ req' = [req EXCEPT ![r].pc = "force", ![r].found = BoundClients(req[r].id)]
    /\ UNCHANGED <<config, server, stored, cache, mu, known, conn, bans, kept, late, held>>

\* ForceDelete of one client: the connection of an object that is not marked
\* disconnected is closed, and whatever the repository has under the client's id
\* is deleted.  The closing of a connection that has ended already, or the
\* deletion from the table, may fail, which ends the request.
ForceDeletes(r) ==
    /\ req[r].pc = "force" /\ req[r].found # {}
    /\ \/ \E x \in req[r].found :
            LET c == x[1]
                s == x[2]
            IN /\ known' = [known EXCEPT ![c] = Unknown]
               /\ conn' = IF s # None /\ conn[s].pc = "up" THEN [conn EXCEPT ![s].pc = "closed"] ELSE conn
               /\ req' = [req EXCEPT ![r].found = @ \ {x}]
       \/ Ends(r) /\ UNCHANGED <<known, conn>>
    /\ UNCHANGED <<config, server, stored, cache, mu, bans, kept, late, held>>

\* All are deleted: the credentials follow.
ForceDeleted(r) ==
    /\ req[r].pc = "force" /\ req[r].found = {}
    /\ Goes(r, "lock")
    /\ UNCHANGED <<config, server, stored, cache, mu, known, conn, bans, kept, late, held>>

-----------------------------------------------------------------------------
(* Connections.                                                            *)

\* authUser, as the ssh handshake of connection s calls it, behind
\* RejectBannedIPs.
Authenticates(s) ==
    /\ running /\ conn[s].pc = "none" /\ ~banTime
    /\ source = "static" \/ mu = None
    /\ \E a \in AuthIds \ banned, p \in Passwords, c \in Clients :
        \/ /\ cache[a] = p
           /\ conn' = [conn EXCEPT ![s] = [pc |-> "start", id |-> a, client |-> c]]
           /\ attempts' = 0
           /\ UNCHANGED <<banned, banTime>>
        \/ /\ cache[a] # p
           /\ conn' = [conn EXCEPT ![s].pc = "done"]
           /\ banned' = banned \cup {a}
           /\ attempts' = IF MaxFailedLogin = 0 \/ attempts + 1 = MaxFailedLogin THEN 0 ELSE attempts + 1
           /\ banTime' = (MaxFailedLogin > 0 /\ attempts + 1 = MaxFailedLogin)
    /\ UNCHANGED <<config, server, stored, cache, mu, req, known, kept, late, held>>

\* A ban ends.
BanEnds ==
    /\ banned # {} \/ banTime
    /\ \/ \E a \in banned : banned' = banned \ {a} /\ UNCHANGED banTime
       \/ banTime /\ banTime' = FALSE /\ UNCHANGED banned
    /\ UNCHANGED <<config, server, stored, cache, mu, req, known, conn, attempts, kept, late, held>>

\* The object of connection s is not marked disconnected.
Active(s) == s # None /\ conn[s].pc \in {"up", "closed"}

isClientAuthIDInUse(a, client) == \E c \in Clients \ {client} : known[c].id = a

\* StartClient refuses a client that is connected, and, unless credentials are
\* for multiple use, credentials that another client has.
Refused(s) ==
    \/ Active(known[conn[s].client].object)
    \/ ~multiuse /\ isClientAuthIDInUse(conn[s].id, conn[s].client)

\* A deletion of the credentials that has looked the clients up, or is over, or an
\* earlier connection of this client that is not terminated yet.
ComesLate(s) ==
    \/ cache[conn[s].id] = None
    \/ \E r \in Requests : req[r].op = "delete" /\ req[r].id = conn[s].id /\ req[r].pc # "lookup"
    \/ \E x \in Connections \ {s} : Active(x) /\ conn[x].client = conn[s].client

\* handleWebsocket with StartClient; the connection request may not come, or
\* not be acceptable, and the client may not be saved.
StartsClient(s) ==
    /\ conn[s].pc = "start"
    /\ \/ /\ ~Refused(s)
          /\ known' = [known EXCEPT ![conn[s].client] = [id |-> conn[s].id, object |-> s]]
          /\ conn' = [conn EXCEPT ![s].pc = "up"]
          /\ late' = IF ComesLate(s) THEN late \cup {conn[s].client} ELSE late \ {conn[s].client}
       \/ /\ conn' = [conn EXCEPT ![s].pc = "done"]
          /\ UNCHANGED <<known, late>>
    /\ UNCHANGED <<config, server, stored, cache, mu, req, bans, kept, held>>

\* The connection is lost.
Closes(s) ==
    /\ conn[s].pc = "up"
    /\ conn' = [conn EXCEPT ![s].pc = "closed"]
    /\ UNCHANGED <<config, server, stored, cache, mu, req, known, bans, kept, late, held>>

\* Terminate: a client that was deleted meanwhile is not saved.
Terminates(s) ==
    /\ conn[s].pc = "closed"
    /\ conn' = [conn EXCEPT ![s].pc = "done"]
    /\ LET c == conn[s].client
       IN known' = [known EXCEPT ![c] = IF known[c].id = None THEN Unknown ELSE [id |-> conn[s].id, object |-> s]]
    /\ UNCHANGED <<config, server, stored, cache, mu, req, bans, kept, late, held>>

\* SetACL, SetUpdatesStatus or handlePutClientTunnel looks the client up.
FindsClient(c) ==
    /\ running /\ known[c].id # None /\ Arrives
    /\ held' = held \cup {<<c, known[c]>>}
    /\ UNCHANGED <<config, server, stored, cache, mu, req, known, conn, bans, kept, late>>

\* It saves the object it found, or does not get that far.
SavesFound(x) ==
    /\ x \in held
    /\ held' = held \ {x}
    /\ \/ /\ known' = [known EXCEPT ![x[1]] = x[2]]
          /\ late' = IF known[x[1]] = x[2] THEN late ELSE late \cup {x[1]}
       \/ UNCHANGED <<known, late>>
    /\ UNCHANGED <<config, server, stored, cache, mu, req, conn, bans, kept>>

-----------------------------------------------------------------------------
(* Restarts.                                                               *)

\* The server stops at any moment.
Stops ==
    /\ running /\ restarts < MaxRestarts
    /\ running' = FALSE
    /\ restarts' = restarts + 1
    /\ mu' = None
    /\ req' = [r \in Requests |-> NoRequest]
    /\ conn' = [s \in Connections |-> IF conn[s].pc = "none" THEN NoConn ELSE [conn[s] EXCEPT !.pc = "done"]]
    /\ held' = {}
    /\ banned' = {} /\ attempts' = 0 /\ banTime' = FALSE
    /\ UNCHANGED <<config, stored, cache, known, kept, late>>

\* NewCachedProvider: a file that cannot be parsed is an error.
NewCachedProvider == stored # Torn /\ cache' = stored

\* getClientProvider; its errors keep the server from starting.
Starts ==
    /\ ~running
    /\ NewCachedProvider
    /\ running' = TRUE
    /\ UNCHANGED <<config, restarts, stored, mu, req, known, conn, bans, kept, late, held>>

\* The administrator writes the file anew.
Repairs ==
    /\ ~running /\ stored = Torn
    /\ stored' \in Credentials
    /\ kept' = stored'
    /\ late' = Clients
    /\ UNCHANGED <<config, server, cache, mu, req, known, conn, bans, held>>

Next ==
    \/ \E r \in Requests :
        \/ handlePostClientsAuth(r) \/ handleDeleteClientAuth(r) \/ LooksUp(r) \/ ForceDeletes(r) \/ ForceDeleted(r)
        \/ Locks(r) \/ WritesTable(r) \/ LoadsFile(r) \/ Encodes(r) \/ ReturnsError(r) \/ Caches(r)
    \/ \E s \in Connections : Authenticates(s) \/ StartsClient(s) \/ Closes(s) \/ Terminates(s)
    \/ \E c \in Clients : FindsClient(c)
    \/ \E x \in held : SavesFound(x)
    \/ BanEnds \/ Stops \/ Starts \/ Repairs

Spec == Init /\ [][Next]_vars

-----------------------------------------------------------------------------
(* Properties.                                                             *)

\* Credentials whose creation was acknowledged are those the clients are checked
\* against until a deletion gets to them, over the errors of other requests and
\* restarts at any step.
KeptCredentials ==
    running => \A a \in AuthIds : kept[a] # None => cache[a] = kept[a]

\* What the server checks against is what it would read at the next start, when
\* no write is under way, unless a write of the file did not come to its end.
CacheIsStored == running /\ mu = None => stored = cache \/ (stored = Torn /\ source = "file")

\* A deletion of credentials leaves no client behind that the repository knew
\* under them: but for those that were registered after the deletion had looked
\* the clients up, before an earlier connection of theirs was terminated, or
\* before the file was written anew by hand, and those that an operation saved
\* which had looked them up before they were deleted or registered anew.
DeletionComplete ==
    running => \A c \in Clients : known[c].id # None /\ cache[known[c].id] = None => c \in late
=============================================================================
