------------------------------- MODULE Tunnel -------------------------------
(***************************************************************************)
(* One tunnel of a connected client, from Tunnel.Start on: the listener    *)
(* goroutine, a goroutine per TCP connection, the goroutine that watches   *)
(* the idle timeout, the API requests that delete the tunnel, and the      *)
(* goroutine of Client.StartTunnel that takes an auto-closed tunnel off    *)
(* the client's list.                                                      *)
(*                                                                         *)
(* Tunnel.Terminate is run by the idle goroutine and by API requests; only *)
(* the latter hold the client's lock.  It reads and writes stopFn without  *)
(* synchronisation, so its statements are steps of their own.              *)
(***************************************************************************)
EXTENDS Integers, FiniteSets

CONSTANTS
    Conns,        \* TCP connections to the tunnel's local port
    Requests,     \* DELETE requests for the tunnel
    ForceOf,      \* the force parameter of each request
    IdleTimeout   \* whether IdleTimeoutMinutes > 0

CONSTANT Idle     \* the idle goroutine
Terminators == Requests \cup {Idle}

VARIABLES
    conn,       \* where the goroutine of a connection is
    cut,        \* connections that were piping when the context ended
    connCount,  \* Tunnel.connCount
    acceptor,   \* the listen goroutine
    listener,   \* the TCP listener
    cancelled,  \* the tunnel's context
    clientGone, \* the client's context, of which it is a child
    stopFn,     \* whether Tunnel.stopFn is set
    term,       \* progress of Tunnel.Terminate
    idle,       \* the goroutine of getAutoCloseChan
    api,        \* the DELETE requests
    lock,       \* holder of the client's lock
    listed,     \* whether the client's list has the tunnel
    panicked    \* the server process died of a panic (what follows is of no interest)

vars == <<conn, cut, connCount, acceptor, listener, cancelled, clientGone, stopFn, term, idle,
          api, lock, listed, panicked>>
context == <<cancelled, clientGone>>

\* Connections whose goroutine has not called wg.Done yet.
InWaitGroup == {"accepted", "counted", "piping", "closing", "uncounted"}

\* Whether Tunnel.wg is at zero.
WaitGroupDone == acceptor = "done" /\ \A c \in Conns : conn[c] \notin InWaitGroup

Init ==
    /\ conn = [c \in Conns |-> "none"]
    /\ cut = {}
    /\ connCount = 0
    /\ acceptor = "accepting"
    /\ listener = "open"
    /\ cancelled = FALSE
    /\ clientGone = FALSE
    /\ stopFn = TRUE
    /\ term = [x \in Terminators |-> "no"]
    /\ idle = IF IdleTimeout THEN "waiting" ELSE "none"
    /\ api = [r \in Requests |-> "none"]
    /\ lock = Idle
    /\ listed = TRUE
    /\ panicked = FALSE

\* Nobody holds the client's lock (the idle goroutine never does).
Unlocked == lock = Idle

-----------------------------------------------------------------------------
(* Tunnel.listen and Tunnel.accept *)

\* A connection the ACL admits; one it does not is closed at once and changes nothing.
Accept(c) ==
    /\ conn[c] = "none"
    /\ acceptor = "accepting"
    /\ listener = "open"
    /\ conn' = [conn EXCEPT ![c] = "accepted"]
    /\ UNCHANGED <<cut, connCount, acceptor, listener, context, stopFn, term, idle, api, lock,
                   listed, panicked>>

\* Accept returns an error, because the listener is closed or for any other reason.
AcceptFails ==
    /\ acceptor = "accepting"
    /\ acceptor' = "done"
    /\ UNCHANGED <<conn, cut, connCount, listener, context, stopFn, term, idle, api, lock,
                   listed, panicked>>

\* The goroutine that closes the listener when the context ends.
CloseListener ==
    /\ cancelled
    /\ listener = "open"
    /\ listener' = "closed"
    /\ UNCHANGED <<conn, cut, connCount, acceptor, context, stopFn, term, idle, api, lock,
                   listed, panicked>>

CountConn(c) ==
    /\ conn[c] = "accepted"
    /\ conn' = [conn EXCEPT ![c] = "counted"]
    /\ connCount' = connCount + 1
    /\ UNCHANGED <<cut, acceptor, listener, context, stopFn, term, idle, api, lock, listed,
                   panicked>>

\* The channel to the client is opened, or cannot be.
OpenChannel(c) ==
    /\ conn[c] = "counted"
    /\ \E next \in {"piping", "closing"} : conn' = [conn EXCEPT ![c] = next]
    /\ UNCHANGED <<cut, connCount, acceptor, listener, context, stopFn, term, idle, api, lock,
                   listed, panicked>>

\* One end closes the connection.
PeerCloses(c) ==
    /\ conn[c] = "piping"
    /\ conn' = [conn EXCEPT ![c] = "closing"]
    /\ UNCHANGED <<cut, connCount, acceptor, listener, context, stopFn, term, idle, api, lock,
                   listed, panicked>>

\* The goroutine linked to the context closes it.
ContextCloses(c) ==
    /\ conn[c] = "piping"
    /\ cancelled
    /\ conn' = [conn EXCEPT ![c] = "closing"]
    /\ cut' = cut \cup {c}
    /\ UNCHANGED <<connCount, acceptor, listener, context, stopFn, term, idle, api, lock, listed,
                   panicked>>

UncountConn(c) ==
    /\ conn[c] = "closing"
    /\ conn' = [conn EXCEPT ![c] = "uncounted"]
    /\ connCount' = connCount - 1
    /\ UNCHANGED <<cut, acceptor, listener, context, stopFn, term, idle, api, lock, listed,
                   panicked>>

\* Mutant of ConnDone: the connection is reported before wg.Done.
ConnDoneNotifiesFirst(c) ==
    /\ conn[c] = "uncounted"
    /\ IdleTimeout => idle = "waiting"
    /\ conn' = [conn EXCEPT ![c] = "gone"]
    /\ UNCHANGED <<cut, connCount, acceptor, listener, context, stopFn, term, idle, api, lock,
                   listed, panicked>>

\* wg.Done, and then the goroutine reports to the idle goroutine if there is one.
ConnDone(c) ==
    /\ conn[c] = "uncounted"
    /\ conn' = [conn EXCEPT ![c] = IF IdleTimeout THEN "notifying" ELSE "gone"]
    /\ UNCHANGED <<cut, connCount, acceptor, listener, context, stopFn, term, idle, api, lock,
                   listed, panicked>>

-----------------------------------------------------------------------------
(* getAutoCloseChan *)

\* Activity restarts the idle timer.
IdleNotified(c) ==
    /\ idle = "waiting"
    /\ conn[c] = "notifying"
    /\ conn' = [conn EXCEPT ![c] = "gone"]
    /\ UNCHANGED <<cut, connCount, acceptor, listener, context, stopFn, term, idle, api, lock,
                   listed, panicked>>

\* The timeout passes and no connection is counted: Terminate(true).
IdleFires ==
    /\ idle = "waiting"
    /\ connCount = 0
    /\ idle' = "terminating"
    /\ term' = [term EXCEPT ![Idle] = "checkStop"]
    /\ UNCHANGED <<conn, cut, connCount, acceptor, listener, context, stopFn, api, lock, listed,
                   panicked>>

IdleContextDone ==
    /\ idle = "waiting"
    /\ cancelled
    /\ idle' = "returned"
    /\ UNCHANGED <<conn, cut, connCount, acceptor, listener, context, stopFn, term, api, lock,
                   listed, panicked>>

\* Mutant of IdleCloses: autoCloseChan is not closed.
IdleClosesNothing ==
    /\ idle = "terminating"
    /\ term[Idle] = "returned"
    /\ idle' = "returned"
    /\ UNCHANGED <<conn, cut, connCount, acceptor, listener, context, stopFn, term, api, lock,
                   listed, panicked>>

\* Terminate has returned: close(autoCloseChan).
IdleCloses ==
    /\ idle = "terminating"
    /\ term[Idle] = "returned"
    /\ idle' = "autoClosed"
    /\ UNCHANGED <<conn, cut, connCount, acceptor, listener, context, stopFn, term, api, lock,
                   listed, panicked>>

\* The goroutine of StartTunnel; when the client is gone as well it may just return.
RemoveAutoClosed ==
    /\ idle = "autoClosed"
    /\ idle' = "returned"
    /\ \/ Unlocked /\ listed' = FALSE
       \/ clientGone /\ UNCHANGED listed
    /\ UNCHANGED <<conn, cut, connCount, acceptor, listener, context, stopFn, term, api, lock,
                   panicked>>

-----------------------------------------------------------------------------
(* Tunnel.Terminate after the check of connCount *)

TermStep(x, next) == term' = [term EXCEPT ![x] = next]

TermCheckStop(x) ==
    /\ term[x] = "checkStop"
    /\ TermStep(x, IF stopFn THEN "callStop" ELSE "returned")
    /\ UNCHANGED <<conn, cut, connCount, acceptor, listener, context, stopFn, idle, api, lock,
                   listed, panicked>>

\* The function may have become nil since the check: calling it panics.
TermCallStop(x) ==
    /\ term[x] = "callStop"
    /\ IF stopFn THEN TermStep(x, "waiting") /\ cancelled' = TRUE /\ UNCHANGED panicked
                 ELSE panicked' = TRUE /\ UNCHANGED <<term, cancelled>>
    /\ UNCHANGED <<conn, cut, connCount, acceptor, listener, clientGone, stopFn, idle, api, lock,
                   listed>>

\* Mutant of TermWait: it does not wait for the connections.
TermWaitForListener(x) ==
    /\ term[x] = "waiting"
    /\ acceptor = "done"
    /\ TermStep(x, "clear")
    /\ UNCHANGED <<conn, cut, connCount, acceptor, listener, context, stopFn, idle, api, lock,
                   listed, panicked>>

TermWait(x) ==
    /\ term[x] = "waiting"
    /\ WaitGroupDone
    /\ TermStep(x, "clear")
    /\ UNCHANGED <<conn, cut, connCount, acceptor, listener, context, stopFn, idle, api, lock,
                   listed, panicked>>

TermClear(x) ==
    /\ term[x] = "clear"
    /\ stopFn' = FALSE
    /\ TermStep(x, "returned")
    /\ UNCHANGED <<conn, cut, connCount, acceptor, listener, context, idle, api, lock, listed,
                   panicked>>

-----------------------------------------------------------------------------
(* handleDeleteClientTunnel *)

\* The client is active, its lock is taken, the tunnel is looked up; without force it must
\* have no counted connection.
DeleteRequest(r) ==
    /\ api[r] = "none"
    /\ ~clientGone
    /\ Unlocked
    /\ IF listed /\ (ForceOf[r] \/ connCount = 0)
       THEN /\ api' = [api EXCEPT ![r] = "terminating"]
            /\ lock' = r
            /\ TermStep(r, "checkStop")
       ELSE /\ api' = [api EXCEPT ![r] = "refused"]
            /\ UNCHANGED <<lock, term>>
    /\ UNCHANGED <<conn, cut, connCount, acceptor, listener, context, stopFn, idle, listed,
                   panicked>>

\* removeTunnelByID and the deferred unlock.
DeleteDone(r) ==
    /\ api[r] = "terminating"
    /\ term[r] = "returned"
    /\ api' = [api EXCEPT ![r] = "deleted"]
    /\ listed' = FALSE
    /\ lock' = Idle
    /\ UNCHANGED <<conn, cut, connCount, acceptor, listener, context, stopFn, term, idle,
                   panicked>>

\* The client disconnects: handleWebsocket cancels its context.
ClientDisconnects ==
    /\ ~clientGone
    /\ clientGone' = TRUE
    /\ cancelled' = TRUE
    /\ UNCHANGED <<conn, cut, connCount, acceptor, listener, stopFn, term, idle, api, lock,
                   listed, panicked>>

-----------------------------------------------------------------------------
ConnStep(c) ==
    \/ CountConn(c) \/ OpenChannel(c) \/ ContextCloses(c) \/ UncountConn(c) \/ ConnDone(c)

Terminate(x) == TermCheckStop(x) \/ TermCallStop(x) \/ TermWait(x) \/ TermClear(x)

IdleStep == IdleContextDone \/ IdleCloses \/ RemoveAutoClosed

Next ==
    \/ \E c \in Conns : Accept(c) \/ PeerCloses(c) \/ IdleNotified(c) \/ ConnStep(c)
    \/ AcceptFails \/ CloseListener \/ IdleFires \/ IdleStep \/ ClientDisconnects
    \/ \E x \in Terminators : Terminate(x)
    \/ \E r \in Requests : DeleteRequest(r) \/ DeleteDone(r)

Spec == Init /\ [][Next]_vars

(***************************************************************************)
(* Goroutines that can run do run, a closed listener ends Accept, and      *)
(* opening a channel ends one way or the other.  Connections need not end  *)
(* by themselves and the idle timer need not fire.                         *)
(***************************************************************************)
Fairness ==
    /\ \A c \in Conns : WF_vars(ConnStep(c))
    /\ WF_vars(CloseListener)
    /\ WF_vars(listener = "closed" /\ AcceptFails)
    /\ WF_vars(IdleStep)
    /\ \A x \in Terminators : WF_vars(Terminate(x))
    /\ \A r \in Requests : WF_vars(DeleteDone(r))

FairSpec == Spec /\ Fairness
-----------------------------------------------------------------------------
(* Properties *)

\* The variables hold values of their types (Tunnel, Client.lock, Client.Tunnels).
TypeOK ==
    /\ conn \in [Conns -> InWaitGroup \cup {"none", "notifying", "gone"}]
    /\ cut \subseteq Conns
    /\ connCount \in Nat
    /\ acceptor \in {"accepting", "done"}
    /\ listener \in {"open", "closed"}
    /\ cancelled \in BOOLEAN /\ clientGone \in BOOLEAN
    /\ stopFn \in BOOLEAN
    /\ term \in [Terminators -> {"no", "checkStop", "callStop", "waiting", "clear", "returned"}]
    /\ idle \in {"none", "waiting", "terminating", "autoClosed", "returned"}
    /\ api \in [Requests -> {"none", "terminating", "refused", "deleted"}]
    /\ lock \in Terminators
    /\ listed \in BOOLEAN
    /\ panicked \in BOOLEAN

\* A tunnel that left the client's list is quiet: its context has ended, nothing accepts
\* connections any more and no connection of it is still served.  "204" is the truth.
RemovedIsQuiet ==
    ~listed => cancelled /\ WaitGroupDone

\* stopFn is only unset when the tunnel has stopped, so a Terminate that finds it nil and
\* returns at once does not leave a live tunnel behind.
StoppedWhenUnset ==
    ~stopFn => cancelled /\ WaitGroupDone

\* The connections between the two additions of their goroutines to connCount.
Counted == {c \in Conns : conn[c] \in {"counted", "piping", "closing"}}

\* A DELETE without force and the idle goroutine decide by connCount: however the goroutines
\* of the connections interleave, it is the number of them that have been counted.
CountIsExact == connCount = Cardinality(Counted)

\* A DELETE request that began to terminate the tunnel returns and gives the client's lock
\* back, although it waits for every connection while the idle goroutine may terminate the
\* tunnel at the same time.
DeleteReturns ==
    \A r \in Requests : api[r] = "terminating" ~> api[r] = "deleted" \/ panicked

\* "in case tunnel auto-closed due to inactivity - run background task to remove the tunnel
\* from the list": the idle goroutine's termination ends with the tunnel off the list, unless the client is gone.
AutoClosedIsRemoved ==
    idle = "terminating" ~> ~listed \/ clientGone \/ panicked

\* "make next steps thread-safe": terminating the tunnel from a request and from the idle
\* goroutine at the same time does not call a stopFn that the other one has unset.
NoPanic == ~panicked

\* "specified tunnel is still active: it has active connections" is refused, and "if it reaches
\* the timeout and there are no active connections - terminate the tunnel": unless a request
\* forces it or the client is gone, no connection is cut.
OnlyIdleTerminated ==
    cut # {} => clientGone \/ \E r \in Requests : ForceOf[r] /\ api[r] \notin {"none", "refused"}
=============================================================================
