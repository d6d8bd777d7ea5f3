--------------------------- MODULE ClientTunnels ----------------------------
(***************************************************************************)
(* How the tunnels of one client id are opened: by the client's connection *)
(* (StartClient, which adds the tunnels of the previous connection) and by *)
(* PUT requests, on local ports that the port distributor hands out; how   *)
(* their ports become free again; and what of them the clients table       *)
(* holds when the server restarts.  A client object belongs to a session,  *)
(* a run of handleWebsocket; object 0 is the one loaded from the table.    *)
(*                                                                         *)
(* ClientService.mu is held over startClientTunnels, but ports are bound   *)
(* and freed meanwhile by others: the listeners of an ended session close  *)
(* on their own, and other programs of the host come and go.  So each      *)
(* remote of startClientTunnels is a step of its own.                      *)
(*                                                                         *)
(* A tunnel ends in steps as well: its context is cancelled, by a DELETE   *)
(* that holds the client's lock or by its idle timeout, which holds none;  *)
(* its listener closes; and only then it leaves the list.                  *)
(***************************************************************************)
EXTENDS Integers, Sequences, SequencesExt, FiniteSets

CONSTANTS
    Ports,        \* local ports of the server
    AllowedPorts, \* PortDistributor.allowedPorts
    Targets,      \* the remote side of a tunnel: host, port and ACL
    RemoteLists,  \* lists of remotes that a client may ask for
    PutRemotes,   \* remotes that PUT requests may ask for
    IdleTargets,  \* targets whose tunnels have an idle timeout
    Requests,     \* PUT requests
    KeepLostClients, \* whether keep_lost_clients is set
    MaxSessions, MaxFaults  \* bounds; a port taken, a failing write and a restart are faults

CONSTANTS NoPort, None

Remotes == [lport : Ports \cup {NoPort}, target : Targets, random : BOOLEAN]
Sessions == 1 .. MaxSessions
Objects == 0 .. MaxSessions
Listeners == [port : Ports, target : Targets, sess : Sessions]
Listener(s, t) == [port |-> t.lport, target |-> t.target, sess |-> s]

ASSUME ClientTunnelsAssumption ==
    /\ AllowedPorts \subseteq Ports
    /\ NoPort \notin Ports
    /\ None \notin Objects \cup Requests \cup Remotes
    /\ Requests \cap Remotes = {}
    /\ IdleTargets \subseteq Targets
    /\ RemoteLists \subseteq Seq(Remotes)
    /\ PutRemotes \subseteq Remotes
    /\ KeepLostClients \in BOOLEAN
    /\ MaxSessions \in Nat /\ MaxFaults \in Nat

VARIABLES
    phase,        \* where the session's goroutine is
    want,         \* ConnectionRequest.Remotes of a session
    tunnels,      \* Client.Tunnels of an object
    disconnected, \* whether DisconnectedAt of an object is set
    current,      \* the object in the repository's map, or None
    row,          \* the tunnels in the client's row of the table, or None
    listeners,    \* open listeners of tunnels
    foreign,      \* ports bound by other programs
    mu,           \* startClientTunnels under way, with ClientService.mu held, or NoJob
    lock,         \* holder of an object's lock: a PUT request, the tunnel a DELETE ends, or None
    stopped,      \* tunnels on an object's list whose own context is cancelled
    put,          \* the PUT requests
    faults        \* number of faults so far

vars == <<phase, want, tunnels, disconnected, current, row, listeners, foreign, mu, lock,
          stopped, put, faults>>
ports == <<listeners, foreign>>
repo == <<current, row>>

-----------------------------------------------------------------------------
(* Remotes and ports.                                                      *)

IsLocalSpecified(r) == r.lport # NoPort

\* Remote.Equals compares the strings, which leave LocalPortRandom out.
Equals(r, t) == r.lport = t.lport /\ r.target = t.target

\* FindTunnelByRemote
Has(s, r) == \E i \in DOMAIN tunnels[s] : Equals(tunnels[s][i], r)

\* ListBusyPorts
Busy == foreign \cup {l.port : l \in listeners}

\* A mutant of Mark: marks are not looked at.
MarkTwice(marked, fits) == marked \cup {IF fits = {} THEN 0 ELSE Min(fits)}

\* A remote marks the first old tunnel that fits it and is not marked; 0 is marked when it has none
\* and nil is returned.
Mark(marked, fits) == marked \cup {IF fits \ marked = {} THEN 0 ELSE Min(fits \ marked)}

\* Matches of the second pass: a remote without local port, an old tunnel on a random one.
RandomMatch(r, o) == o.random /\ r.target = o.target

\* What a re-established tunnel asks for.
Reopened(o) == IF o.random THEN [o EXCEPT !.lport = NoPort] ELSE o

\* The old tunnels that a remote may mark, in the pass it is looked at.
Fitting(r, old) == {i \in DOMAIN old : IF IsLocalSpecified(r) THEN Equals(r, old[i]) ELSE RandomMatch(r, old[i])}

\* One pass over the new remotes, which looks at some of them.
Pass(old, new, marked, looked) ==
    LET after[k \in 0 .. Len(new)] ==
            IF k = 0 THEN marked ELSE IF k \in looked THEN Mark(after[k - 1], Fitting(new[k], old)) ELSE after[k - 1]
    IN after[Len(new)]

\* The last loop: the old tunnels that are not marked.
Left(old, marked) ==
    LET res[i \in 0 .. Len(old)] ==
            IF i = 0 THEN <<>> ELSE IF i \in marked THEN res[i - 1] ELSE Append(res[i - 1], Reopened(old[i]))
    IN res[Len(old)]

GetTunnelsToReestablish(old, new) ==
    LET specified == {k \in DOMAIN new : IsLocalSpecified(new[k])}
        marked == Pass(old, new, Pass(old, new, {}, specified), DOMAIN new \ specified)
    IN  IF Len(new) > Len(old) \/ 0 \in marked THEN <<>> ELSE Left(old, marked)

-----------------------------------------------------------------------------
\* Nobody holds ClientService.mu.
NoJob == [put |-> None, sess |-> None, todo |-> <<>>, got |-> None, portsPool |-> {}]
Free == mu.sess = None

\* A request that holds no client and no remote: not begun, or answered.
Only(pc) == [pc |-> pc, sess |-> 0, remote |-> None]

Init ==
    /\ phase = [s \in Objects |-> IF s = 0 THEN "over" ELSE "none"]
    /\ want = [s \in Sessions |-> <<>>]
    /\ tunnels = [s \in Objects |-> <<>>]
    /\ disconnected = [s \in Objects |-> s = 0]
    /\ current = None
    /\ row = None
    /\ listeners = {}
    /\ foreign = {}
    /\ mu = NoJob
    /\ lock = [s \in Objects |-> None]
    /\ stopped = [s \in Objects |-> {}]
    /\ put = [q \in Requests |-> Only("idle")]
    /\ faults = 0

(* ClientService.startClientTunnels, with mu held by a session or a PUT request. *)

\* PortDistributor.Refresh: the ports pool that startClientTunnels begins with.
Refresh == AllowedPorts \ Busy

\* startClientTunnels for a session's own connection (q = None) or for a PUT request.
StartClientTunnels(q, s, remotes) ==
    mu' = [put |-> q, sess |-> s, todo |-> remotes, got |-> None, portsPool |-> Refresh]

\* The caller of startClientTunnels comes back with an error.  A connection that is refused ends
\* its context; what was opened so far closes with it, and the object is dropped.
StartFails(answer) ==
    /\ mu' = NoJob
    /\ \/ /\ mu.put = None
          /\ phase' = [phase EXCEPT ![mu.sess] = "refused"]
          /\ tunnels' = [tunnels EXCEPT ![mu.sess] = <<>>]
          /\ UNCHANGED <<lock, put>>
       \/ /\ mu.put # None
          /\ put' = [put EXCEPT ![mu.put] = answer]
          /\ lock' = [lock EXCEPT ![mu.sess] = None]
          /\ UNCHANGED <<phase, tunnels>>
    /\ UNCHANGED listeners

\* Client.StartTunnel; a random port has left the pool.
StartTunnel(r, pool) ==
    \/ /\ Has(mu.sess, r)
       /\ mu' = [mu EXCEPT !.todo = Tail(@), !.got = r, !.portsPool = pool]
       /\ UNCHANGED <<tunnels, listeners, phase, lock, put>>
    \/ /\ ~Has(mu.sess, r)
       /\ r.lport \in Busy
       /\ StartFails(Only("answered"))
    \/ /\ ~Has(mu.sess, r)
       /\ r.lport \notin Busy
       /\ listeners' = listeners \cup {Listener(mu.sess, r)}
       /\ tunnels' = [tunnels EXCEPT ![mu.sess] = Append(@, r)]
       /\ mu' = [mu EXCEPT !.todo = Tail(@), !.got = r, !.portsPool = pool]
       /\ UNCHANGED <<phase, lock, put>>

\* PortDistributor.GetRandomPort, and the port given to the remote.
OpenRandom(r) ==
    /\ ~IsLocalSpecified(r)
    /\ \/ mu.portsPool = {} /\ StartFails(Only("answered"))
       \/ \E p \in mu.portsPool :
             StartTunnel([lport |-> p, target |-> r.target, random |-> TRUE], mu.portsPool \ {p})

\* ClientService.checkLocalPort
OpenSpecified(r) ==
    /\ IsLocalSpecified(r)
    /\ \/ r.lport \notin AllowedPorts \cap mu.portsPool /\ StartFails(Only("answered"))
       \/ r.lport \in AllowedPorts \cap mu.portsPool /\ StartTunnel(r, mu.portsPool)

\* A mutant of OpenNext: StartTunnel locks the client.
OpenNextLocks ==
    /\ ~Free
    /\ mu.todo # <<>>
    /\ lock[mu.sess] = None
    /\ OpenRandom(Head(mu.todo)) \/ OpenSpecified(Head(mu.todo))
    /\ UNCHANGED <<want, disconnected, repo, foreign, stopped, faults>>

OpenNext ==
    /\ ~Free
    /\ mu.todo # <<>>
    /\ OpenRandom(Head(mu.todo)) \/ OpenSpecified(Head(mu.todo))
    /\ UNCHANGED <<want, disconnected, repo, foreign, stopped, faults>>

\* ClientRepository.Save: the table first, then the map.
Save(s) == row' = tunnels[s] /\ current' = s

\* A mutant of OpenedAll: a PUT request puts the client into the map and not into the table.
OpenedAllUnsaved ==
    /\ ~Free
    /\ mu.todo = <<>>
    /\ current' = mu.sess
    /\ row' = IF mu.put = None THEN tunnels[mu.sess] ELSE row
    /\ mu' = NoJob
    /\ phase' = IF mu.put = None THEN [phase EXCEPT ![mu.sess] = "live"] ELSE phase
    /\ put' = IF mu.put = None THEN put ELSE [put EXCEPT ![mu.put] = Only("answered")]
    /\ lock' = IF mu.put = None THEN lock ELSE [lock EXCEPT ![mu.sess] = None]
    /\ UNCHANGED <<want, tunnels, disconnected, ports, stopped, faults>>

\* All remotes are open: StartClient or StartClientTunnels saves the client and answers.
OpenedAll ==
    /\ ~Free
    /\ mu.todo = <<>>
    /\ Save(mu.sess)
    /\ mu' = NoJob
    /\ \/ /\ mu.put = None
          /\ phase' = [phase EXCEPT ![mu.sess] = "live"]
          /\ UNCHANGED <<lock, put>>
       \/ /\ mu.put # None
          /\ put' = [put EXCEPT ![mu.put] = Only("answered")]
          /\ lock' = [lock EXCEPT ![mu.sess] = None]
          /\ UNCHANGED phase
    /\ UNCHANGED <<want, tunnels, disconnected, ports, stopped, faults>>

\* The same with a table that cannot be written.
SaveFails ==
    /\ ~Free
    /\ mu.todo = <<>>
    /\ faults < MaxFaults
    /\ faults' = faults + 1
    /\ StartFails([pc |-> "unsaved", sess |-> mu.sess, remote |-> mu.got])
    /\ UNCHANGED <<want, disconnected, repo, foreign, stopped>>

-----------------------------------------------------------------------------
(* Connections of the client.                                              *)

\* A connection request comes in.
Connect(s) ==
    /\ phase[s] = "none"
    /\ phase[s - 1] # "none"
    /\ \E new \in RemoteLists : want' = [want EXCEPT ![s] = new]
    /\ phase' = [phase EXCEPT ![s] = "starting"]
    /\ UNCHANGED <<tunnels, disconnected, repo, ports, mu, lock, stopped, put, faults>>

\* StartClient up to startClientTunnels.
StartClient(s) ==
    /\ phase[s] = "starting"
    /\ Free
    /\ \/ /\ current # None
          /\ ~disconnected[current]
          /\ phase' = [phase EXCEPT ![s] = "refused"]
          /\ UNCHANGED mu
       \/ /\ current # None => disconnected[current]
          /\ StartClientTunnels(None, s,
                IF current = None THEN want[s]
                ELSE want[s] \o GetTunnelsToReestablish(tunnels[current], want[s]))
          /\ UNCHANGED phase
    /\ want' = [want EXCEPT ![s] = <<>>]
    /\ UNCHANGED <<tunnels, disconnected, repo, listeners, foreign, lock, stopped, put, faults>>

\* The SSH connection breaks.
ConnectionLost(s) ==
    /\ phase[s] = "live"
    /\ phase' = [phase EXCEPT ![s] = "lost"]
    /\ UNCHANGED <<want, tunnels, disconnected, repo, ports, mu, lock, stopped, put, faults>>

\* ClientService.Terminate, and the deferred cancel of the session's context.
Terminate(s) ==
    /\ phase[s] = "lost"
    /\ Free
    /\ phase' = [phase EXCEPT ![s] = "over"]
    /\ \/ /\ ~KeepLostClients
          /\ row' = None /\ current' = None
          /\ UNCHANGED disconnected
       \/ /\ KeepLostClients
          /\ disconnected' = [disconnected EXCEPT ![s] = TRUE]
          /\ IF current = None THEN UNCHANGED repo ELSE Save(s)
    /\ UNCHANGED <<want, tunnels, ports, mu, lock, stopped, put, faults>>

\* Sessions whose context is cancelled.
Cancelled == {"refused", "over"}

\* The listener of a tunnel closes once the session's context, or its own, is cancelled.
CloseListener(l) ==
    /\ l \in listeners
    /\ phase[l.sess] \in Cancelled \/ \E t \in stopped[l.sess] : l = Listener(l.sess, t)
    /\ listeners' = listeners \ {l}
    /\ UNCHANGED <<phase, want, tunnels, disconnected, repo, foreign, mu, lock, stopped, put, faults>>

-----------------------------------------------------------------------------
(* Requests of the API.                                                    *)

\* handlePutClientTunnel, first part: the client and its tunnels are looked up without a lock, the
\* client is asked whether something listens on the remote port (unless check_port=0).
PutCheck(q) ==
    /\ put[q].pc = "idle"
    /\ current # None
    /\ ~disconnected[current]
    /\ \E r \in PutRemotes :
          LET exists == \E i \in DOMAIN tunnels[current] : tunnels[current][i].target = r.target
          IN  \/ ~exists /\ put' = [put EXCEPT ![q] = [pc |-> "checked", sess |-> current, remote |-> r]]
              \/ put' = [put EXCEPT ![q] = Only("answered")]
    /\ UNCHANGED <<phase, want, tunnels, disconnected, repo, ports, mu, lock, stopped, faults>>

\* The client is locked, and a specified local port has to be free.
PutLock(q) ==
    LET r == put[q].remote
    IN  /\ put[q].pc = "checked"
        /\ lock[put[q].sess] = None
        /\ \/ /\ IsLocalSpecified(r)
              /\ r.lport \in Busy
              /\ put' = [put EXCEPT ![q] = Only("answered")]
              /\ UNCHANGED lock
           \/ /\ IsLocalSpecified(r) => r.lport \notin Busy
              /\ put' = [put EXCEPT ![q].pc = "locked"]
              /\ lock' = [lock EXCEPT ![put[q].sess] = q]
        /\ UNCHANGED <<phase, want, tunnels, disconnected, repo, ports, mu, stopped, faults>>

\* StartClientTunnels takes mu.
PutStart(q) ==
    /\ put[q].pc = "locked"
    /\ Free
    /\ put' = [put EXCEPT ![q].pc = "starting"]
    /\ StartClientTunnels(q, put[q].sess, <<put[q].remote>>)
    /\ UNCHANGED <<phase, want, tunnels, disconnected, repo, listeners, foreign, lock, stopped, faults>>

\* removeTunnelByID
RemoveTunnel(s, i) ==
    /\ tunnels' = [tunnels EXCEPT ![s] = RemoveAt(@, i)]
    /\ stopped' = [stopped EXCEPT ![s] = @ \ {tunnels[s][i]}]

\* A mutant of DeleteTunnel: the tunnel leaves the list at once, and is not stopped.
DeleteTunnelFirst(s, i) ==
    /\ phase[s] \in {"live", "lost", "over"}
    /\ lock[s] = None
    /\ i \in DOMAIN tunnels[s]
    /\ RemoveTunnel(s, i)
    /\ UNCHANGED <<phase, want, disconnected, repo, ports, mu, lock, put, faults>>

\* handleDeleteClientTunnel on an object that some GetActiveByID returned: the client is locked,
\* the tunnel found and its context cancelled (see Tunnel).
DeleteTunnel(s, i) ==
    /\ phase[s] \in {"live", "lost", "over"}
    /\ lock[s] = None
    /\ i \in DOMAIN tunnels[s]
    /\ lock' = [lock EXCEPT ![s] = tunnels[s][i]]
    /\ stopped' = [stopped EXCEPT ![s] = @ \cup {tunnels[s][i]}]
    /\ UNCHANGED <<phase, want, tunnels, disconnected, repo, ports, mu, put, faults>>

\* Its listener has closed and its connections have ended: it leaves the list.  Nothing is saved.
DeleteDone(s, i) ==
    /\ i \in DOMAIN tunnels[s]
    /\ lock[s] = tunnels[s][i]
    /\ Listener(s, tunnels[s][i]) \notin listeners
    /\ RemoveTunnel(s, i)
    /\ lock' = [lock EXCEPT ![s] = None]
    /\ UNCHANGED <<phase, want, disconnected, repo, ports, mu, put, faults>>

\* A tunnel was idle for long enough: the goroutine of getAutoCloseChan terminates it, without the
\* lock of the client.  The timeout is of minutes, and no client takes so long to start; when the
\* session's context ends the goroutine does.
TunnelIdles(s, i) ==
    /\ phase[s] \in {"live", "lost"}
    /\ i \in DOMAIN tunnels[s]
    /\ tunnels[s][i].target \in IdleTargets
    /\ stopped' = [stopped EXCEPT ![s] = @ \cup {tunnels[s][i]}]
    /\ UNCHANGED <<phase, want, tunnels, disconnected, repo, ports, mu, lock, put, faults>>

\* The goroutine of StartTunnel takes it off the list, with the lock.
RemoveAutoClosed(s, i) ==
    /\ i \in DOMAIN tunnels[s]
    /\ tunnels[s][i] \in stopped[s]
    /\ lock[s] = None
    /\ Listener(s, tunnels[s][i]) \notin listeners
    /\ RemoveTunnel(s, i)
    /\ UNCHANGED <<phase, want, disconnected, repo, ports, mu, lock, put, faults>>

-----------------------------------------------------------------------------
(* The host.                                                               *)

\* Another program binds a port that tunnels may use, or gives it back.
OtherProgram(p) ==
    /\ \/ /\ p \notin Busy
          /\ faults < MaxFaults
          /\ foreign' = foreign \cup {p}
          /\ faults' = faults + 1
       \/ /\ p \in foreign
          /\ foreign' = foreign \ {p}
          /\ UNCHANGED faults
    /\ UNCHANGED <<phase, want, tunnels, disconnected, repo, listeners, mu, lock, stopped, put>>

\* The server process ends at any point and comes up with what the table holds.
Restart ==
    /\ faults < MaxFaults
    /\ faults' = faults + 1
    /\ phase' = [s \in Objects |-> IF phase[s] = "none" THEN "none" ELSE "over"]
    /\ tunnels' = [s \in Objects |-> IF s = 0 /\ row # None THEN row ELSE <<>>]
    /\ disconnected' = [s \in Objects |-> s = 0]
    /\ current' = IF row = None THEN None ELSE 0
    /\ listeners' = {}
    /\ mu' = NoJob
    /\ lock' = [s \in Objects |-> None]
    /\ stopped' = [s \in Objects |-> {}]
    /\ put' = [q \in Requests |-> IF put[q].pc \in {"idle", "unsaved"} THEN put[q]
                                  ELSE Only("answered")]
    /\ UNCHANGED <<want, row, foreign>>

Next ==
    \/ OpenNext \/ OpenedAll \/ SaveFails \/ Restart
    \/ \E s \in Sessions :
          \/ Connect(s) \/ StartClient(s) \/ ConnectionLost(s) \/ Terminate(s)
          \/ \E i \in DOMAIN tunnels[s] :
                DeleteTunnel(s, i) \/ DeleteDone(s, i) \/ TunnelIdles(s, i) \/ RemoveAutoClosed(s, i)
    \/ \E l \in listeners : CloseListener(l)
    \/ \E q \in Requests : PutCheck(q) \/ PutLock(q) \/ PutStart(q)
    \/ \E p \in AllowedPorts : OtherProgram(p)

Spec == Init /\ [][Next]_vars

-----------------------------------------------------------------------------
Jobs == [put : Requests \cup {None}, sess : Sessions, todo : Seq(Remotes),
         got : Remotes \cup {None}, portsPool : SUBSET AllowedPorts]

\* Types; tunnels are only on allowed ports, wherever they are kept.
TypeOK ==
    LET Opened == {r \in Remotes : r.lport \in AllowedPorts}
    IN  /\ phase \in [Objects -> {"none", "starting", "live", "lost"} \cup Cancelled]
        /\ want \in [Sessions -> Seq(Remotes)]
        /\ tunnels \in [Objects -> Seq(Opened)]
        /\ disconnected \in [Objects -> BOOLEAN]
        /\ current \in Objects \cup {None}
        /\ row = None \/ row \in Seq(Opened)
        /\ listeners \subseteq Listeners
        /\ foreign \subseteq Ports
        /\ mu = NoJob \/ mu \in Jobs
        /\ lock \in [Objects -> Requests \cup Opened \cup {None}]
        /\ stopped \in [Objects -> SUBSET Opened]
        /\ put \in [Requests -> [pc : {"idle", "checked", "locked", "starting", "answered", "unsaved"},
                                 sess : Objects, remote : Remotes \cup {None}]]
        /\ faults \in 0 .. MaxFaults

\* As long as a session's context lives, its client has no open listener but those of the tunnels
\* on its list, which holds none twice, and every tunnel on it listens unless it is being ended, by
\* a DELETE or its idle timeout: so a tunnel that left the list has freed its port, one whose port
\* another has taken is going to leave it, and no port has two listeners.  StartTunnel, its duplicate
\* check, TerminateTunnel and the auto-close keep it so, whichever requests and connections
\* interleave.
TunnelsListen ==
    /\ \A k, l \in listeners : k.port = l.port => k = l
    /\ \A l \in listeners : l.port \notin foreign
    /\ \A s \in Sessions : phase[s] \in {"starting", "live", "lost"} =>
          /\ \A l \in listeners : l.sess = s => \E t \in ToSet(tunnels[s]) : l = Listener(s, t)
          /\ \A t \in ToSet(tunnels[s]) : Listener(s, t) \in listeners \/ t \in stopped[s]
          /\ \A i, j \in DOMAIN tunnels[s] : Equals(tunnels[s][i], tunnels[s][j]) => i = j

\* A tunnel on the list of the client in the map is in its row of the table, so that a crash of the
\* server loses none, except for the one being opened and one whose request was answered with an
\* error because the row could not be written.
TunnelsSaved ==
    current # None => \A t \in ToSet(tunnels[current]) :
        \/ t \in ToSet(row)
        \/ mu.sess = current /\ mu.got = t
        \/ \E q \in Requests :
              put[q].pc = "unsaved" /\ put[q].sess = current /\ put[q].remote = t

\* Whether each new remote has an old tunnel of its own: the same one, or for a remote without a
\* local port one to the same target on a random port.
Covers(old, new) ==
    \E f \in [DOMAIN new -> DOMAIN old] :
        /\ \A i, j \in DOMAIN new : f[i] = f[j] => i = j
        /\ \A i \in DOMAIN new : IF IsLocalSpecified(new[i]) THEN Equals(new[i], old[f[i]])
                                  ELSE RandomMatch(new[i], old[f[i]])

\* A client that reconnects asking for nothing but tunnels it had gets all tunnels it had, those of
\* the API too; a remote that named a random port of before may keep it.  A client that asks for
\* anything else gets what it asks for and no more.
RestoresTunnels ==
    [][\A s \in Sessions : Free /\ mu'.put = None /\ mu'.sess = s /\ current # None =>
          LET old == tunnels[current]
          IN  IF Covers(old, want[s])
              THEN /\ Len(mu'.todo) = Len(old)
                   /\ \A t \in Targets : Cardinality({i \in DOMAIN old : old[i].target = t})
                                         = Cardinality({i \in DOMAIN mu'.todo : mu'.todo[i].target = t})
                   /\ \A o \in ToSet(old) : ~o.random => \E r \in ToSet(mu'.todo) : Equals(o, r)
              ELSE mu'.todo = want[s]]_vars

\* Nobody waits for ever: who holds ClientService.mu can take its next step, and who holds the lock
\* of a client can, or waits for a holder of mu, or for a listener that is about to close.  So
\* requests, connections and deletions never wait for each other in a circle, and no error path
\* leaves a lock behind (handlePutClientTunnel, handleDeleteClientTunnel, startClientTunnels).
LockHoldersProceed ==
    /\ ~Free => ENABLED (OpenNext \/ OpenedAll)
    /\ \A s \in Objects : lock[s] # None =>
          IF lock[s] \in Requests
          THEN ENABLED PutStart(lock[s]) \/ (~Free /\ put[lock[s]].pc \in {"locked", "starting"})
          ELSE \E i \in DOMAIN tunnels[s] :
                  ENABLED DeleteDone(s, i) \/ (lock[s] = tunnels[s][i] /\ ENABLED CloseListener(Listener(s, lock[s])))

\* handlePutClientTunnel refuses a second tunnel to a target with the same ACL.  The code checks
\* before it locks, so this is not an invariant.
OneTunnelPerTarget ==
    \A s \in Sessions : \A i, j \in DOMAIN tunnels[s] :
        tunnels[s][i].target = tunnels[s][j].target => i = j
=============================================================================
