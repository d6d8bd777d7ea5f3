# A verification project for rport

rport lets machines behind a firewall (the *clients*) keep an SSH-over-websocket connection to a
server (`rportd`), which opens TCP tunnels through these connections, runs commands on the clients
and is operated over a REST and websocket API. The modules in this directory model the parts of it
whose correctness depends on the order in which goroutines, connections, API requests, database
statements and crashes follow each other. TLC checks the models on small instances; TLAPS proves the
statements that matter most for all values of the constants. `PROJECT.json` maps every definition
to the lines it models, and lists runs, mutants, findings, hazards and theorems.

## 1. The system

| component | state | operations | interacts with |
|---|---|---|---|
| client registry (`server/client_service.go`, `server/clients/*.go`) | map of client objects, the clients table, `ClientService.mu` | StartClient, Terminate, ForceDelete, DeleteOffline, SetACL, SetUpdatesStatus, StartClientTunnels, cleanup task, load at start | connection handlers, API requests; client objects are shared by pointer |
| tunnel opening and ports (`client_service.go`, `client_listener.go`, `ports/`) | `Client.Tunnels`, lock of the client, port pool, listeners of the host, the row of the client | connection with its remotes, PUT and DELETE of tunnels, re-establishing after a reconnect, restart | registry, operating system |
| a tunnel (`clients/tunnel.go`, `clients/client.go`) | listener, connections, counter, wait group, `stopFn`, context, idle goroutine | accept, pipe, terminate, auto-close | client lock, API |
| commands and jobs (`server/api.go`, `client/exec.go`, `client_listener.go`, `share/ws`) | job rows, `jobsDoneChannel`, UI web socket, on the client `runCmdMutex` and `curCmdPID` | single commands, multi-client jobs, results, timeouts | SSH connection, jobs table, UI |
| connection loop of the client (`client/client.go`, `client/updates/updates.go`) | connection, retries, `switchbackChan`, updates status | connect, request, keep-alive, switch back to the main server, report the updates status, close | servers |
| vault (`server/vault`) | database file, status row, values, password in memory | init, unlock, lock, store, get, delete | API, SQLite |
| API authentication (`server/api_listener.go`, `bearer_auth.go`, `2fa_auth.go`, `share/security`, the login handlers of `server/api.go`) | sessions, bans of names and of addresses, verification codes | login, verify-2fa, logout, every request with basic auth or a bearer token | users |
| API users (`server/api/users`) | a file with a cache in front and `FileAdapter.mtx`, or two tables | add, change, rename, delete, reload on SIGUSR1 | authentication, administrator |
| client credentials (`server/clientsauth`) | a file or a table with a cache in front, `CachedProvider.mu` | add, delete (with or without the clients), authentication of a connection, start | registry, bans |
| script and command library (`server/script`, `server/api/command`) | a table each | create, update, delete | API, SQLite |
| client groups and access (`server/cgroups`, `server/clients/client.go`) | a table of groups; the allowed user groups of a client | create, update, delete, listing with the clients that match | registry, API |
| listing, parsing, configuration, messages, package managers, system information | none | | |

What makes the modelled ones hard: objects are shared by pointer and mutated after they left the map; a
save writes the table and then the map; some operations take the mutex of the service and some do
not; connections end while they are being used; results come late, or over another connection than
the command; the server restarts with a table that says "connected"; goroutines that wait on
channels somebody else has to read; a lookup and the write it justifies are two database calls; a
request is checked once and runs on while what it was checked against changes. These are the entries under `hazards`, each at its line.

What makes each component correct:

* registry: at most one connection per client id and per credential (unless they may be shared); a
  client shown as connected has a handler that will mark it disconnected; an open connection is in
  the map; table and map agree whenever nobody is writing;
* tunnel opening: a listed tunnel has its listener unless it is about to leave the list, the table has the tunnels that a restart must
  bring back, a reconnecting client gets its tunnels again, those who hold a lock
  never wait for each other in a circle;
* tunnel: a tunnel off the list serves nobody any more, a DELETE comes back, an auto-closed tunnel
  leaves the list;
* jobs: a job goes to the clients it names and to those of its groups, all of which the user may use;
  commands of a sequential job do not overlap, nothing runs after a failure with
  abort_on_error, a final result is not overwritten, every client is asked, the socket is closed
  after the last result and not before;
* connection loop: the retry limit holds, the client is served again after a fault, it switches
  back and never cuts a connection to the main server doing so, the status is reported;
* vault: it works with one password only, values can be read with it, keys are unique;
* users: every request changes one user on the latest content of the file, the cache follows the
  file, every request is answered; in a database, a user has the groups it was given;
* authentication: whoever is served as a user has shown what the configuration asks of that user, a
  logout and a ban hold, failed attempts lead to a ban;
* client credentials: what was acknowledged stays until it is deleted, the cache is what the next
  start reads, a deletion leaves no client behind;
* library: names are unique, a deleted entry does not come back, an entry stays its creator's;
* groups: every user sees the clients that the patterns of a group denote and that the user may use.

## 2. The modules

There is one module per component, an `MC` module that gives TLC its functions, sequences and
symmetries, and `_proofs` modules that extend TLAPS and the component's
module, or the module that composes several: `ClientRegistry_proofs` also has the proofs of
JobRequests, `Tables_proofs` those of Vault, Library, UserDatabase and ClientGroups, and
`Tunnels_proofs` those of ClientTunnels and, over an instance `T`, of Tunnel.

### ClientRegistry

A client object is named by the session (connection) that allocates it, or by its client id when it
is loaded from the table. `client` is the heap, `mem` the map, `db` the table, `step`/`target` the
repository write a goroutine is about to make, `mu` the mutex. The writes `SaveDb`, `SaveMem`,
`DeleteDb`, `DeleteMem` are steps of their own, as table and map are written one after the other
and any other goroutine may come in between. `StartClient`, `Terminate`, `ForceDelete`,
`DeleteOffline`, `SetACL`, `SetUpdatesStatus`, `StartTunnels` are the operations of ClientService;
those that take `mu` hold it until their last write. `CleanupDb` and `CleanupMem` are the task,
`Restart` is a crash followed by `GetInitState`. Tunnels are left to the next module: here a PUT is
a save of the client.

### ClientTunnels

The tunnels of one client id. A step opens one remote, because ports are bound and freed by others
meanwhile: listeners of an ended session close on their own (`CloseListener`), another program may
bind a port (`OtherProgram`). `GetTunnelsToReestablish` is the two-pass matching of
`client_listener.go`: `Pass` is one loop over the new remotes, which marks the first old tunnel that
fits and is not marked yet (`Fitting`, `Mark`; 0 stands for the nil that ends the function), `Left` the
loop that collects the old tunnels nobody asked for; both are recursive functions over the positions
of the lists. `PutCheck`, `PutLock`, `PutStart` are
the three parts of `handlePutClientTunnel`: the check without a lock, the lock of the client, the
mutex of the service. A DELETE (`DeleteTunnel`) locks the client and cancels the tunnel, waits for
its listener (`CloseListener`) with the lock held, and then takes the tunnel off the list
(`DeleteDone`); a tunnel with an idle timeout is cancelled without a lock (`TunnelIdles`) and leaves
the list through a second goroutine (`RemoveAutoClosed`). `stopped` holds the tunnels in between. A
remote is a local port (or none) and a target that stands for host, port and ACL; the connections
of a tunnel, for which the end of its listener waits, are in `Tunnel`.

### Tunnel

One tunnel after `Tunnel.Start`: the listener goroutine, one goroutine per connection, the idle
goroutine, DELETE requests. `Terminate` is run by two kinds of goroutines and its statements
(`TermCheckStop`, `TermCallStop`, `TermWait`, `TermClear`) are separate steps, as `stopFn` is not
synchronised.

### MultiJob

One multi-client job and single commands to the same clients. `call` is the server side of a
command (`createAndRunJob`, `handleExecuteCommand`), `exec` the client side (`HandleRunCmdRequest`
and the goroutine that observes the process), `results` the results in flight, with the connection
they were sent over. Runner, calls, executors, connections (`Break`, `Reconnect`), the database and
the UI socket interleave freely; the server may restart, the user may close the socket.

### JobRequests

What comes before the execution: one request for a command or a script, to one client
(`handlePostCommand`, `handleExecuteScript`) or to several clients and groups over REST
(`handlePostMultiClientCommand`, `handlePostMultiClientScript`) or the websocket (`handleCommandsWS`,
`handleScriptsWS`). A request to one client is checked by the middleware (`ChecksClient`) and looks
its client up afterwards (`FindsActive`). A request to many reads its groups (`GetsGroup`), then the
active clients (`GetActiveByGroups`), then the clients it names (`GetsClient`), puts them in order
(`OrdersClients`) and checks the objects it has found (`ChecksAccess`). Each lookup is a step, and in
between clients connect again as new objects, and access lists and groups change. `could`, `entered`
and `stayed` are history for `AskedClients`. A SetACL that overlaps with a
reconnect and the deletion of clients are left to `ClientRegistry`, the matching of a group to
`ClientGroups`. `MCRequests` checks it beside the registry (`part`), whose connecting, disconnecting
and reconnecting clients are what it abstracts.

### ConnectionLoop

The client's loop, at the granularity of its waits: dialling, sending the connection request, being
served. The goroutines that try the main server while the client is on the fallback server are
`watch`; `chan` is `switchbackChan`. Servers go up and down, connections break, and the server gives
up a connection nobody uses (`ServerTimesOut`). The goroutines of `Updates` report over the
connection of the moment.

### Vault

`file`, `status`, `values`, `nextId` are the database, `opened` and `pass` the memory of the
manager. Every database call is a step. A value is kept as its key, its group and the password it
is encrypted with: this is what the cipher is abstracted to. The requests of administrators and of
users overlap freely, Inits with each other as well, because `Manager.Init` takes no lock between its
check and its writes. `overlapped`, `replaced` and the field `vault` of a user's request are history
for `StoredReadable`: which Inits were past their check when another one wrote the status, which
passwords they replaced, and during which requests the vault was locked.

### Users and UserMap

`UserMap` is the abstract specification: a map of users, changed one user at a time on its latest
content; a write that does not finish leaves a part of the changed map, or nothing that can be
parsed (`Lose`), and the file may be edited by hand (`Edit`). `Users` is the file provider:
a request checks names against `cache` without a lock (`Check`, `CheckNew`), takes the mutex and
reads the file (`ReadUsers`), writes it (`SaveUsers`, `SaveFails`) and loads the cache (`ReadBack`,
`LoadCache`). The goroutine of the reload (`ReloadReads`, `ReloadLoads`) does not take the mutex.
A user is a function of fields, of which `Update` ignores `two_fa_send_to`, as the code does.
The cache is loaded only if the saved file can be read (`ReadFails`) and parsed: `Trim` is what
`strings.TrimSpace` makes of a name, and `parseUsers` refuses a name that is blank, or there twice,
after that, which neither the service nor the provider has looked for. `stale` says why the cache may
be behind the file: somebody was told of an error, or a reload was overtaken.
`Pieces` is what `parseUsers` makes of a file that was not written to its end: because it takes the
end of the file for the end of the list, a shorter list, or an empty file, is read without an error.
`Users` implements `UserMap` with `users <- file` (`FileIsUserMap`).

### ApiAuth

A request is a record in `req` with its stage (`pc`), address, name, secret and token. Every call of
the session repository, of the code service and of a ban list is a step, because each of their locks
covers one call only: `ChecksBan`, `Authenticates`, `Finds`, `ChecksExpiry`, `Extends`, `Writes`,
`Saves` for the session, `Validates` for a code, then `Succeeds`, `Fails`, `Refuses` and `AddBan` for
what the ban lists learn, `Sends` and `StoresCode` for the second factor, `Creates` and `Deletes` for
a login and a logout. `expiresAt` is written apart from `listed`, since `APISession` is shared by
pointer and not locked. `parseTokenLifetime` keeps the wrap-around of the 64 bit product with a
width of its own (`Half`). `sent`, `shown` and `failures` are history for the properties: the codes sent
to a user, what requests in a user's name have shown, and how often an address failed since it
succeeded or its ban ended. Whether a code, a password or an API token is
right is a comparison with what it is the secret of; bcrypt and JWT signatures are taken to work.

### ClientAuth

`CachedProvider` over the three providers. `mu` is its lock, held from `Locks` to `Caches` or
`ReturnsError`; the file is truncated in one step (`LoadsFile`) and filled in the next (`Encodes`),
so that a crash or a failing encoder leaves a file that cannot be parsed (`Torn`). The deletion of
credentials looks the clients up, deletes them one by one and the credentials last (`LooksUp`,
`ForceDeletes`, `ForceDeleted`). The registry is reduced to who is known under which credentials and
by which client object; connections authenticate, register, are lost and are terminated, and SetACL,
SetUpdatesStatus and StartClientTunnels save the object they looked up earlier (`FindsClient`,
`SavesFound`; `held` are those under way). `Repairs`
is the administrator who replaces a file the server does not start from. `kept` and `late` are
history for the properties.

### Library, UserDatabase and ClientGroups

`Library` is one of the two libraries (`kind`), which do the same but for two columns that only
commands have. Each database call is a step: the lookup by id, the lookup by name, the write, which
the unique index on the name may refuse. `UserDatabase` is the
service over the database provider: the lookups of the service are steps, the transaction that
follows is one. `ClientGroups` is the table of groups with single-statement operations, and the
matching of clients as operators: `matches` is the loop of `Param.matches` over the parts of a
pattern, given as recursive functions over the characters and the parts, and `GroupsListed` compares what is listed with a definition of what a pattern with `*`
denotes. `MCTables` composes the three with `Vault`: the parts share nothing, so a behaviour is one
of one part (`part`).

### What is abstracted everywhere

Names, payloads, outputs, texts of errors and the log; time (a clock of a few ticks where
`keep_lost_clients` or a session needs it, otherwise a timer may fire at any moment); whether a
request is let in, which is the subject of `ApiAuth` alone. SSH, SQLite and the operating system are external and
modelled by how the code uses them.

## 3. The runs

| run | instance | shows |
|---|---|---|
| `registry_locked` | 2 ids, 2 credentials, 3 sessions, clock to 3, 1 restart, no API requests; a request for a job with 2 clients, up to 2 named, 1 group, 3 connections in all, an administrator or a user of one group | `LiveListed`, `AuthIdExclusive`, `TableMatchesMap` hold for connections, cleanup and restarts: the mutex is enough for them; `AskedClients` |
| `registry_all_operations` | 1 id, 2 sessions, one API request of any kind, failing statements, 1 restart | `ConnectedHasHandler` and, with fairness, `EndedIsDisconnected` survive every operation |
| `client_tunnels` | 2 sessions, 2 PUT requests for a random port, DELETEs, one of two targets with an idle timeout, ports 1 and 2 allowed and 3 not, one fault (a port taken by a program, a failing save or a restart) | `TunnelsListen`, `TunnelsSaved`, `RestoresTunnels`, `LockHoldersProceed` |
| `tunnel_termination` | 2 connections, a gentle and a forced DELETE, idle timeout, client may disconnect | `RemovedIsQuiet`, `DeleteReturns`, `AutoClosedIsRemoved` |
| `jobs_faults` | 2 clients, a sequential job on both, a single command on one, 1 broken connection, failing statements, 1 restart | `AbortStops`, `Sequential`, `RunningHasPid`, `ResultIsFinal`, `OnlyLateResultsPanic` |
| `jobs_websocket` | the same over the websocket API without broken connections | `ServedAfterAll`, `AllClientsAsked` |
| `loop_connections` | 2 switchback goroutines, 2 retries, 1 fault | `RetriesBounded`, `SwitchbackKeepsMain`, `ServedAgain`, `SwitchesBackAlone`, `StatusReported` |
| `loop_stuck_on_fallback` | the same | `SwitchesBack` is violated (finding) |
| `users_file` | 2 names and one of them with blanks around it, 2 requests (add, rename, delete), 1 edit by hand, 1 failing write or restart, signals at any time | `FileIsUserMap` (refinement), `CacheFollowsFile`, `RequestsAnswered` |
| `api_auth` | 1 user, 1 address, 2 requests at once, 1 token, 1 code, clock to 3, ban after 2 attempts, second factor on or off | `ServedProved`, `LogoutHolds`, `GuessesLimited` |
| `client_auth` | 1 id with or without its password, 2 clients, 3 connections, 2 API requests on credentials or clients at once, file, table or configuration, 1 restart at any step | `KeptCredentials`, `CacheIsStored`, `DeletionComplete` |
| `tables` | vault: 2 passwords, 2 administrators and 2 users of whom 2 have a request under way at once, 2 keys, 2 ids, failing calls, restarts; libraries: 2 requests, 3 ids, 2 names, 2 authors; users: 2 requests, 2 names, 2 groups; groups: every pattern of up to 4 characters against every name of up to 4 | `StoredReadable`, `OneValuePerKey`; `NamesUnique`, `EntriesKept`; `GroupsAsGiven`; `GroupsListed` |

Why the bounds are enough to be interesting. Two sessions of one id are what a reconnect is; the
third in the registry allows a connection to be accepted while the first two still fight over the
id. One restart separates what is in memory from what was stored, and the state after it already
contains everything a second one would find. Two DELETE requests, one of them forced,
the idle goroutine and two connections make every race in `Terminate`. Two positions make a job
sequential, with a single command on the same client for the mutex. Three connections of two clients
let one of them connect again between two steps of a request that also finds the other. Two switchback goroutines are
the current and a late one. Two requests at once, with any number after each other, make every
overlap of a check and the write that depends on it in the authentication, the credentials and the
tables; three connections of two clients are an old connection, a new one of the same client, and
another client with the same credentials. One user is enough for the order of the steps in `api_auth`;
that the secrets of one user never serve another is what the theorem adds. Two requests of the vault at once are two Inits, an Init and a Store, a Lock
and a Store, or two Stores. Every action and every disjunct of the next-state relations is taken by
some passing run, and every property has a mutant of a mapped definition that violates it.

`CHECK_DEADLOCK FALSE` is set where the system may stop: a job that is done, a client that gave up,
a tunnel that is closed, connections that are used up, a clock at its bound with both requests
refused.

The types (`TypeOK`) are not invariants of a run: where a proof needs them they are proved.

### Fairness

Only goroutines that are able to go on are assumed to go on (weak fairness): repository writes, the
steps of a runner, a call, an executor, a connection goroutine, `Terminate`, the client's loop. A
strong fairness assumption is made for the goroutines that wait for `ClientService.mu`
(`Terminate`, `ForceDelete`, `StartTunnels`) or for `FileAdapter.mtx` (`ReadUsers`): Go's mutex
hands itself to a waiter that has starved for a millisecond. Of the environment it is assumed that clients reconnect (their loop does, see
`ServedAgain`) and that a server that is down comes up; a result in flight arrives or is lost.
Nothing is assumed of users, timers, peers, programs of the host or the API.

## 4. Statements the code does not satisfy

One is a run of its own, with the line of the repository it contradicts:

* `loop_stuck_on_fallback`: a late switchback goroutine leaves its connection in the channel, the
  next one blocks on it for ever.

Others are stated in the modules and not checked by a run; adding the definition to a cfg of its
module, with the constants named here, gives the counterexample (those of Tunnel need a line
in `MCTunnel` such as `RemovedIsQuiet` has there):

* MultiJob, with broken connections: the result of a command whose request failed on the server is
  sent on a channel that was closed in the meantime, and the process ends (`panicked`).
  `OnlyLateResultsPanic` says that nothing else leads there.
* `NoPanic` (Tunnel): a DELETE and the idle goroutine both terminate a tunnel; one calls the `stopFn`
  that the other has just unset.
* `OneConnectionPerId` (ClientRegistry, three sessions and one DeleteOffline): DeleteOffline works
  without the mutex; it can delete a client that has just reconnected, and a second connection with
  the id is accepted, although `rportd.example.conf` says that it is rejected.
* `ForceDeletedStaysDeleted`, `CleanupForgetsLost` (ClientRegistry, all operations): a handler or a
  SetACL that holds the object saves it again after it was deleted; with `KeepLostClients = 0` the
  SQL of the cleanup and `Obsolete` disagree on what 0 means, so that clients loaded at a restart
  are never forgotten and `ConnectedHasHandler` and `AuthIdExclusive` fail with SetACL,
  SetUpdatesStatus or StartTunnels as well. Each API operation alone also breaks `LiveListed` and
  `OneConnectionPerId`, and DeleteOffline, SetACL and SetUpdatesStatus break `TableMatchesMap`:
  that is why `registry_locked` has none of them. With `DbMayFail`, a failed save leaves the row and
  the map entry of a client different, so that `TableMatchesMap` and, after a restart,
  `AuthIdExclusive` fail too.
* `OneTunnelPerTarget` (ClientTunnels, with `RemoteLists = {<<>>}`): two PUT requests for one target
  both pass the check that is made before the client is locked. In the same module: a DELETE is not
  saved, so a crash brings the tunnel back; a random port may be a port that a later remote of the
  same request specifies, and the connection is refused until the client tries again; a quick
  reconnect finds the port of the old listener still bound; when a tunnel the client itself asked
  for was deleted over the API, the reconnect counts as "not covered" and no tunnel of the API is
  restored. Between the end of its listener and its removal a tunnel is listed that accepts no
  connection; `TunnelsListen` names the tunnels it concerns (`stopped`).
* `OnlyIdleTerminated` (Tunnel, with `ForceOf` FALSE for every request): a DELETE without force cuts a
  connection that is accepted and not counted yet. After the idle goroutine has returned,
  connection goroutines stay blocked on its channel, as a TODO in the code says.
* A script that comes over REST for several clients is sent as a command: `enrichScriptInput` sets
  `IsScript` in the request, `handlePostMultiClientScript` does not copy it into the `MultiJob`, as the
  websocket handler does. JobRequests leaves out what is executed. It does show that a client that
  connects again has an empty access list (`Connects`): `StartClient` carries only `UpdatesStatus` over
  from the old object.
* `SingleNeverWaits` (MultiJob): a single command sent while another one starts waits for the mutex
  and is not refused. Without abort_on_error `Sequential` fails, since a failed request does not
  mean that the command was not started; with broken connections `AllClientsAsked` fails, since a
  lost result is waited for without a timeout, and `ServedAfterAll` fails.
* Vault: a Store since whose check the vault was locked encrypts with the empty password. Of two Inits
  that both pass the check the second replaces the status of the first: values stored in between, and
  those stored as long as the first one's password stays in memory, can be read by nobody who unlocks
  the vault later. `StoredReadable` allows exactly these two. The UPDATE of a value that was deleted meanwhile is answered
  with success.
* `CacheAlwaysFollowsFile` (Users): a reload that has read the file before a request saves it, and
  loads the cache after that request did, leaves the old users in the cache until the next change.
  `CacheFollowsFile` names exactly this and errors, after which the cache is not loaded: failing writes
  and readings, and a file that was written and cannot be parsed, because a user was given a name that
  is blank or taken once it is trimmed. Such a file also keeps the server from starting.
* ApiAuth: a request that found its session before a logout saves it again, with a new lifetime, which
  is why `LogoutHolds` waits for such requests; of two overlapping logins the code that is sent first
  may be stored last; two extensions at once may leave the shorter lifetime; a `token-lifetime` beyond
  the range of a duration wraps around and may be accepted instead of refused; a code stays valid
  until it expires although it was used; a success of a request let in before lifts the ban of its
  address.
* ClientAuth: a client that registers after a deletion has looked the clients up stays without
  credentials, and the termination of an old connection may overwrite a newer registration, also one
  under other credentials (`late`); SetACL, SetUpdatesStatus and StartClientTunnels bring a deleted
  client back when they had looked it up before (`SavesFound`);
  a write of the file that fails after the truncation leaves a file the server does not start from;
  `CachedProvider.Add` does not look at whether the provider added anything, which matters only if
  something else edits the file.
* Library, UserDatabase, ClientGroups: the update of an entry deleted meanwhile is answered with
  success; the answer of a script's update names the updating user as the creator, while the row keeps
  the creator; an update whose user is gone since the lookup inserts group rows that the next user of
  that name has (`GroupsAsGiven` excludes exactly these); a PUT recreates a deleted client group.
* ClientRegistry: `CountActive` takes the read lock of the repository twice, which blocks for ever when
  a writer comes between the two; the model takes that lock in one step.
* ConnectionLoop: the keep-alive goroutine may use a connection that was unset after the check
  (`KeepAlivePanics`); a client closed while it dials stays connected; a refused connection is
  closed only if the server's message contains a text that it never sends.

## 5. The proofs

| module | theorems | argument |
|---|---|---|
| `ClientRegistry_proofs` | `TypeCorrect`, `HandlerForConnected`, `AcceptedIsListed`, `CredentialsExclusive`, `TableAndMapAgree`, `RequestsAskWhoTheyMay` | `TypeInv` is `TypeOK` with: no goroutine, map entry or row refers to an object that was not allocated. `HandlerInv` says that an object in the map or about to be stored whose handler is finished is marked disconnected, that a handler past its connection has marked its object, that an object not yet published belongs to its own starting handler, and that a handler only writes its own object. Needs `KeepLostClients # 0`: with 0 the statement is false. `LiveInv` says what the mutex gives without API operations: who writes holds it, and no accepted connection has the id of the client being written. `TableInv` follows a row through a save: it agrees with the map entry, unless the handler of this client is saving it, and then it is what is being saved or the connected client it was; the credentials of the client being saved are nobody else's. `LookupInv` is described below. |
| `MultiJob_proofs` | `TypeCorrect`, `AbortIsFinal`, `CommandsDoNotOverlap`, `PidOfRunning`, `ResultsAreFinal`, `PanicOnlyWhenLate`, `AllShownWhenServed`, `CalmCommandsDoNotOverlap` | `SeqInv` divides the positions of the loop: those behind it are finished with success (`Past`), those ahead untouched (`Future`), the current one is where the runner is (`Body`), and a result on its way to the runner is the current one's (`OwnResult`). Needs a sequential job with abort_on_error. `ExecInv`: between taking and releasing `runCmdMutex` a command is its owner, the PID is that of the observed command, and every result in flight is final; under every fault. `LateInv`, under every fault as well: as long as no result has come of a command whose request had failed, the one result on its way to the runner is that of the position the loop waits for, and every other position is `Settled`, so that the channel is closed with nobody about to send. `CalmInv`, for jobs whose connections do not break: every client stays on its first connection, so that a call fails only because the client refused, a result is on its way once, of a sequential job only the current position is active, and the count of writes left to the UI is the number of clients not shown. |
| `Tunnels_proofs` | `ListsAreListened`, `TunnelsAreSaved`, `TunnelsTyped`, `ReconnectRestores`; `RemovedTunnelIsQuiet`, `UnsetMeansStopped`, `ConnectionsAreCounted`, `TunnelTyped` | ClientTunnels: `LockInv` says at which steps a request holds the lock of a client or the mutex (`LocksInOrder`), whose session the holder of the mutex works on, and that a PUT brings one remote. `ListenInv` says of every session that its listeners, its list and its stopped tunnels fit each other (`Fits`), that a session not begun has none, and that no port is bound twice; it rests on the types and on no two listed tunnels being equal (`Listening`), since a DELETE finds the tunnel it stopped in a list that PUTs have changed meanwhile; what `GetTunnelsToReestablish` returns plays no part there. `SavedInv` names the one tunnel that is open and not yet saved. `TypeInv` adds to `TypeOK` that the object loaded from the table is disconnected and that a request past its check has a session and a remote. `ReconnectRestores` is described below. Tunnel: "cancelled, listener closed, wait group at zero" is stable; `StopInv` ties it to how far each `Terminate` and the idle goroutine are. `CountInv`: `connCount` is the cardinality of the set of counted connections, which is finite although the connections need not be; only hence is it a natural number. |
| `ConnectionLoop_proofs` | `RetryLimitKept`, `OneSwitchbackAtATime`, `MainIsNotCut`, `TypeCorrect` | `RetryInv` relates the counter of the back-off to the attempts since the client was last served; `WatcherInv` says that a switchback goroutine that is not cancelled is the one of this iteration, and that this iteration is on the fallback server; the types rest on it, because a switchback goroutine changes the connection only if it is that of its iteration. |
| `Tables_proofs` | `TypeCorrect`, `MasterPassword`, `KeysAndIds`; `LibraryEntries`; `GroupsBelongToUsers`; `MatchesIsDenotes`, `GroupsShowMatches` | Vault: `PassInv`: the provider is open whenever the file exists, an Init past its check runs on a database without a status or has seen another Init write it (`overlapped`), so that the passwords of the inits (`MasterPasswords`) are only added to; the passwords in memory, about to be set, and of the values are among them, and a request under way in a locked vault has been overtaken by a Lock. `ValuesInv`: unique keys, and ids below the next one. Library: `LibraryInv`: names are unique and rows are under UUIDs that were generated, so that an insert, whose UUID is new, never brings a deleted row back. UserDatabase: `GroupsAsGiven` is inductive with the types. ClientGroups: described below. |
| `ClientAuth_proofs` | `CredentialsAreKept`, `CacheAgreesWithProvider`, `DeletionsAreComplete` | `LockInv`: the lock is held exactly while a request writes. `CacheInv`: what its holder has written is the cache with its own change (`WriteInv`), and a server that stopped left nothing acknowledged out of a provider that can be read (`StoredKept`). `DeleteInv`: a deletion that has looked the clients up has every client of its credentials in its list, or that client came late (`Doomed`), and a client that did not come late has one connection, the one the repository knows (`OneObject`). |
| `Users_proofs` | `FileImplementsMap`, `CacheIsCurrent`, `TypeCorrect` | `LockInv`: the mutex is held exactly from the reading to the loading, and what its holder has read is still the file, so that what it writes (`WrittenIsChange`) is a change of one user on the latest content, and a piece of it a loss of `UserMap`. `CacheInv`: the cache is behind only between a write and its load, or while a reload is asked for, or when `stale`, which an error or an overtaken reload sets and a load without error resets. |
| `ApiAuth_proofs` | `TypeCorrect`, `Authenticated`, `LoggedOut`, `GuessesAreLimited` | `Inv` is `TypeOK` with: every session's owner has proved who it is (`SessionsProved`), every stored code was sent to its user (`CodesSent`), and what a request has passed so far is backed by what was shown in its name (`Grounded`: a request past a session check carries a token of its user, one that is about to be given a session is entitled to it). What was shown only grows. `LoggedOut` follows from the types, step by step. `GuessInv`: while an address is not banned the list counts at least what failed since a success or the end of a ban, and stays below the limit; during a ban each further failure uses up a request that was under way (`Limited`). |

The assumptions on constants are the named ASSUMEs of the modules; TLC evaluates them in the runs.
The bounds of the runs (clock, restarts, faults, ids) are constants too, so the theorems hold for
every bound.

What a request asks whom (`RequestsAskWhoTheyMay`) is a statement about four lookups at different
times. `LookupInv` says for each stage what is known of what was found: while groups are read,
everyone found was in a group of the request, and everyone who stayed in one is found or will be
(`GroupsInv`); then there is one object of each client (`FoundInv`); the named clients come first in
their order (`NamedInv`) and the others follow once each (`OthersInv`). The objects are checked at
the end, against lists that may have changed since they were looked up, or that of an object that has
been replaced. Hence `Could`: if the user has access to an object now, then it could have had access
to its client since the request came, because an access list is set on the client's object of that
moment. That the others are each asked once rests on counting: a sequence as long as a finite set,
without repetitions, has all its elements (`EachOnce`); this is why `Clients` is assumed finite.

What a returning client gets (`ReconnectRestores`) is a statement about two greedy loops: whenever
the new remotes can be given old tunnels of their own, each one that fits it, the loops find such a
choice, and then every old tunnel is in the result once. No two tunnels of a list, or of the row, are
equal (`Distinct`, because `StartTunnel` refuses a remote that is on the list). The induction over the
new remotes says that those not yet looked at still have old tunnels of their own (`Can`) and that
those looked at have marked one each (`Did`). `Can` is kept by an exchange: for a remote with a local
port only one tunnel fits, so its own is the one that is marked; for one without, all that fit have
the same target, so the remote whose tunnel was taken gets the other one. A second induction, over the
old tunnels, says what the last loop collects (`LeftOf`). The result is then in bijection with the old
list (`Restored`), and the numbers of `RestoresTunnels` follow by counting.

What a group shows (`GroupsShowMatches`) rests on `MatchesIsDenotes`: the loop of `Param.matches`
finds, for every pattern and every name, what a pattern with `*` denotes. The loop takes the first
occurrence of each part. That loses nothing: the earliest end leaves the most room, so before the last
part the ends that are possible are all the places from the loop's offset on. The first part has to
begin the name and the last one to end it, and both are steps of their own. The induction is over the
parts, and over the characters where a pattern is cut and a part is searched.

These two are inductions over data. The induction theorems of the library take an operator as a
parameter, which the installed provers cannot instantiate, so the modules state theirs with a set:
`LeastNat` and `NatInd` follow from `WFMin` and `NatLessThanWellFounded`, and a recursive function over
`0 .. n` is known by its first value and its steps (`Follows`, `Recursion`, `RecursionType`). The lemmas
are in both modules, since the components they are about declare the same names and cannot be extended
together.

The hypotheses of the theorems are those without which the statements are false, as section 4 shows:
no API operations, as each of them breaks `LiveListed`, and `KeepLostClients # 0` for
`HandlerForConnected`, `CredentialsExclusive` and `TableAndMapAgree`; a table that does not fail for
the last two, as a failed save leaves a row that is not the map entry's; no broken connections
(`MaxBreaks = 0`) for `AllShownWhenServed` and, without abort_on_error, `CalmCommandsDoNotOverlap`;
bans with a duration (`BanTime > 0`) for `GuessesAreLimited`, as the server makes no ban list without one. `PidOfRunning`, `ResultsAreFinal` and the theorems of `Tunnels_proofs`,
`Tables_proofs` and `ClientAuth_proofs` have none.

What the proofs changed in the models: the attempt to prove `DeletionComplete` showed that with two
credentials it did not hold as it was written, because a client with two connections under way may be
brought back under other credentials by the termination of the older one; `ComesLate` names this
case now. In `ClientTunnels` the mutex of the service is a record with a session or `NoJob`, and in
`JobRequests` the bound on connections also bounds those of each client. The loops of
`GetTunnelsToReestablish` and of `Param.matches` were folds and are recursive functions, which can be
reasoned about; TLC compared them with the folds on all small lists and patterns.

Only model-checked: the liveness properties (`EndedIsDisconnected`, `DeleteReturns`,
`AutoClosedIsRemoved`, `AllClientsAsked`, `ServedAgain`, `SwitchesBackAlone`, `StatusReported`,
`RequestsAnswered`) and `LockHoldersProceed`, because the prover does not handle fairness and ENABLED. Every other property of a
passing run is stated by a theorem. `OneSwitchback` of ConnectionLoop, `StoppedWhenUnset` and `CountIsExact` of Tunnel, `UnlockedWithMaster` and `IdsAreFresh`
of Vault and the type invariants are no properties of a run and are only proved.

## 6. Not modelled, and why

`components` in `PROJECT.json` lists every part. Left out for good: configuration and command lines
(start-up only), generated migrations, the package managers, message services and system
information (calls of external programs without state), the wrappers around HTTP, websocket and SSH
(library code; connections are modelled where they are used), logging.

Small simplifications inside the modelled parts: the cleanup compares times in SQL cut to whole
seconds, so that a row may stay up to a second longer than `Obsolete` says, and the clock of
`ClientRegistry` has no parts of a tick; a job id that cannot be generated (`generateNewJobID`) is no
case of its own in `MultiJob`; a statement of the credentials table that took effect although the
driver returns an error is no case in `ClientAuth`; a vault database that two Inits open at once
keeps the connections of both, of which the first is never closed.

## 7. Plan

Done, in this order: ClientRegistry, MultiJob, Tunnel, ConnectionLoop, ClientTunnels, Vault, Users
with UserMap, ApiAuth, ClientAuth, Library, UserDatabase, ClientGroups, JobRequests, with the proofs above. Next,
in this order:

1. The database provider of the users as a second implementation of `UserMap`, as far as it is one.
2. An abstract specification of the registry (a set of connected ids) and the refinement from
   `ClientRegistry` without API operations.
3. Pure code as operators with a reference definition: `DecodeRemote` over tokens, port ranges,
   tunnel ACLs, idle timeouts, filters and sorting, the capacity buffer of outputs, the choice of an
   interpreter.
