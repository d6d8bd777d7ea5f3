--------------------------- MODULE ConnectionLoop ---------------------------
(***************************************************************************)
(* The rport client's side of its connection: connectionLoop with its      *)
(* retries, the goroutines that switch back from a fallback server to the  *)
(* main one, the keep-alive loop, Close, and the goroutines of Updates     *)
(* that report the updates status over the connection of the moment.       *)
(*                                                                         *)
(* Every error satisfies the type assertion err.(retryableError), because  *)
(* retryableError is an interface type: the loop only ends when it gives   *)
(* up or the client is closed.  Servers and the network are external.      *)
(***************************************************************************)
EXTENDS Integers, FiniteSets

CONSTANTS
    Watchers,       \* switchback goroutines that may exist at a time
    None,           \* nil
    MaxRetryCount,  \* negative: unlimited
    MaxFaults       \* bound on outages, broken connections and refusals

Servers == {"main", "fallback"}
Connections == [server : Servers, alive : BOOLEAN]

ASSUME ConnectionLoopAssumption ==
    /\ MaxRetryCount \in Int
    /\ MaxFaults \in Nat
    /\ None \notin Watchers \cup Connections \cup {"live", "dead"}

VARIABLES
    pc,         \* where connectionLoop is
    conn,       \* its local sshConn
    connerr,    \* whether its connerr is set
    attempt,    \* the counter of its Backoff
    tries,      \* attempts to connect since the client was last served (history)
    chan,       \* switchbackChan, a channel of capacity 1
    watcher,    \* the switchback goroutine of this iteration
    watch,      \* where each switchback goroutine is
    cancelled,  \* the contexts of the switchback goroutines that were cancelled
    sshConn,    \* whether Client.sshConn is set
    running,    \* Client.running
    keepAlive,  \* the keep-alive loop
    updates,    \* Updates: the status, and whether its latest value was sent over conn
    senders,    \* whether a goroutine is about to run sendUpdates
    up,         \* the servers that can be reached
    faults

loop == <<pc, conn, connerr, attempt, tries, sshConn>>
switchback == <<chan, watcher, watch, cancelled>>
reporting == <<updates, senders>>
environment == <<up, faults>>
vars == <<loop, switchback, running, keepAlive, reporting, environment>>

Init ==
    /\ pc = "top"
    /\ conn = None
    /\ connerr = FALSE
    /\ attempt = 0
    /\ tries = 0
    /\ chan = None
    /\ watcher = None
    /\ watch = [w \in Watchers |-> "free"]
    /\ cancelled = {}
    /\ sshConn = FALSE
    /\ running = TRUE
    /\ keepAlive = "sleeping"
    /\ updates = [status |-> FALSE, sent |-> FALSE]
    /\ senders = FALSE
    /\ up \in SUBSET Servers
    /\ faults = 0

-----------------------------------------------------------------------------
(* connectionLoop *)

\* Counters only matter when the retries are limited.
Count(n) == IF MaxRetryCount < 0 THEN n ELSE n + 1

\* The loop's condition fails, or it gives up after an error: close(c.runningc).
GivesUp == MaxRetryCount >= 0 /\ attempt >= MaxRetryCount

Stop ==
    /\ pc = "top"
    /\ ~running \/ (connerr /\ GivesUp)
    /\ pc' = "stopped"
    /\ UNCHANGED <<conn, connerr, attempt, tries, sshConn, switchback, running, keepAlive,
                   reporting, environment>>

\* Mutant of Backoff: the attempts are not counted.
BackoffForgets ==
    /\ pc = "top"
    /\ running /\ connerr /\ ~GivesUp
    /\ connerr' = FALSE
    /\ pc' = "select"
    /\ UNCHANGED <<conn, attempt, tries, sshConn, switchback, running, keepAlive,
                   reporting, environment>>

\* The loop sleeps until its next attempt.
Backoff ==
    /\ pc = "top"
    /\ running /\ connerr /\ ~GivesUp
    /\ attempt' = Count(attempt)
    /\ connerr' = FALSE
    /\ pc' = "select"
    /\ UNCHANGED <<conn, tries, sshConn, switchback, running, keepAlive, reporting,
                   environment>>

NoBackoff ==
    /\ pc = "top"
    /\ running /\ ~connerr
    /\ pc' = "select"
    /\ UNCHANGED <<conn, connerr, attempt, tries, sshConn, switchback, running, keepAlive,
                   reporting, environment>>

\* A switchback goroutine left a connection to the main server.
TakeSwitchback ==
    /\ pc = "select" /\ chan # None
    /\ conn' = [server |-> "main", alive |-> chan = "live"]
    /\ chan' = None
    /\ tries' = Count(tries)
    /\ pc' = "request"
    /\ UNCHANGED <<connerr, attempt, sshConn, watcher, watch, cancelled, running, keepAlive,
                   reporting, environment>>

\* Mutant of Connect: once there was a switchback goroutine the loop waits for its connection.
ConnectWaits ==
    /\ pc = "select" /\ chan = None
    /\ cancelled = {}
    /\ tries' = Count(tries)
    /\ pc' = "dialMain"
    /\ UNCHANGED <<conn, connerr, attempt, sshConn, switchback, running, keepAlive, reporting,
                   environment>>

\* connectToMainOrFallback begins with the main server.
Connect ==
    /\ pc = "select" /\ chan = None
    /\ tries' = Count(tries)
    /\ pc' = "dialMain"
    /\ UNCHANGED <<conn, connerr, attempt, sshConn, switchback, running, keepAlive,
                   reporting, environment>>

Dial(server) ==
    IF server \in up THEN conn' = [server |-> server, alive |-> TRUE] ELSE conn' = None

DialMain ==
    /\ pc = "dialMain"
    /\ Dial("main")
    /\ pc' = IF "main" \in up THEN "request" ELSE "dialFallback"
    /\ UNCHANGED <<connerr, attempt, tries, sshConn, switchback, running, keepAlive,
                   reporting, environment>>

\* With a fallback connection the switchback goroutine of this iteration starts.
DialFallback ==
    /\ pc = "dialFallback"
    /\ Dial("fallback")
    /\ IF "fallback" \in up
       THEN /\ \E w \in Watchers :
                 /\ watch[w] = "free"
                 /\ watch' = [watch EXCEPT ![w] = "waiting"]
                 /\ watcher' = w
                 /\ cancelled' = cancelled \ {w}
            /\ pc' = "request"
            /\ UNCHANGED connerr
       ELSE /\ connerr' = TRUE
            /\ pc' = "top"
            /\ UNCHANGED <<watch, watcher, cancelled>>
    /\ UNCHANGED <<attempt, tries, sshConn, chan, running, keepAlive, reporting,
                   environment>>

\* cancelSwitchback(), and the loop forgets the connection.
EndIteration ==
    /\ cancelled' = IF watcher = None THEN cancelled ELSE cancelled \cup {watcher}
    /\ watcher' = None
    /\ conn' = None
    /\ pc' = "top"
    /\ UNCHANGED <<watch, chan>>

\* Mutant of RequestAccepted: setting the connection sends nothing.
RequestAcceptedSilently ==
    /\ pc = "request" /\ conn.alive
    /\ attempt' = 0
    /\ tries' = 0
    /\ sshConn' = TRUE
    /\ updates' = [updates EXCEPT !.sent = FALSE]
    /\ pc' = "served"
    /\ UNCHANGED <<conn, connerr, switchback, running, keepAlive, senders, environment>>

\* The server accepts the connection request: the client is served, and SetConn reports.
RequestAccepted ==
    /\ pc = "request" /\ conn.alive
    /\ attempt' = 0
    /\ tries' = 0
    /\ sshConn' = TRUE
    /\ updates' = [updates EXCEPT !.sent = FALSE]
    /\ senders' = TRUE
    /\ pc' = "served"
    /\ UNCHANGED <<conn, connerr, switchback, running, keepAlive, environment>>

\* It is lost or the server refuses it.  The server's refusals do not read "client is already
\* connected:", so the connection is not closed.
RequestFails ==
    /\ pc = "request"
    /\ \/ ~conn.alive /\ UNCHANGED faults
       \/ conn.alive /\ faults < MaxFaults /\ faults' = faults + 1
    /\ connerr' = TRUE
    /\ EndIteration
    /\ UNCHANGED <<attempt, tries, sshConn, running, keepAlive, reporting, up>>

\* Connection.Wait returns, with an error or with one that is ignored.
Disconnected ==
    /\ pc = "served" /\ ~conn.alive
    /\ sshConn' = FALSE
    /\ connerr' \in BOOLEAN
    /\ EndIteration
    /\ UNCHANGED <<attempt, tries, running, keepAlive, reporting, environment>>

\* Client.Close: "manually stops the client".
Close ==
    /\ running /\ pc # "dead"
    /\ running' = FALSE
    /\ conn' = IF sshConn THEN [conn EXCEPT !.alive = FALSE] ELSE conn
    /\ UNCHANGED <<pc, connerr, attempt, tries, sshConn, switchback, keepAlive,
                   reporting, environment>>

-----------------------------------------------------------------------------
(* The switchback goroutines *)

\* The interval has passed.
SwitchbackFires(w) ==
    /\ watch[w] = "waiting"
    /\ watch' = [watch EXCEPT ![w] = "dialing"]
    /\ UNCHANGED <<loop, chan, watcher, cancelled, running, keepAlive, reporting,
                   environment>>

SwitchbackDone(w) ==
    /\ watch[w] = "waiting" /\ w \in cancelled
    /\ watch' = [watch EXCEPT ![w] = "free"]
    /\ UNCHANGED <<loop, chan, watcher, cancelled, running, keepAlive, reporting,
                   environment>>

\* Mutant of SwitchbackDials: a failure ends the goroutine.
SwitchbackDialsOnce(w) ==
    /\ watch[w] = "dialing"
    /\ watch' = [watch EXCEPT ![w] = IF "main" \in up THEN "sending" ELSE "free"]
    /\ UNCHANGED <<loop, chan, watcher, cancelled, running, keepAlive, reporting, environment>>

SwitchbackDials(w) ==
    /\ watch[w] = "dialing"
    /\ watch' = [watch EXCEPT ![w] = IF "main" \in up THEN "sending" ELSE "waiting"]
    /\ UNCHANGED <<loop, chan, watcher, cancelled, running, keepAlive, reporting,
                   environment>>

\* switchbackChan <- switchbackConn: blocks while the channel is full, whether or not the
\* context was cancelled meanwhile.  The connection may have ended since it was dialled.
SwitchbackSends(w) ==
    /\ watch[w] = "sending"
    /\ chan = None
    /\ chan' \in {"dead"} \cup {c \in {"live"} : "main" \in up}
    /\ watch' = [watch EXCEPT ![w] = "closing"]
    /\ UNCHANGED <<loop, watcher, cancelled, running, keepAlive, reporting,
                   environment>>

\* Mutant of SwitchbackCloses: it closes Client.sshConn.
SwitchbackClosesCurrent(w) ==
    /\ watch[w] = "closing"
    /\ watch' = [watch EXCEPT ![w] = "free"]
    /\ conn' = IF sshConn THEN [conn EXCEPT !.alive = FALSE] ELSE conn
    /\ UNCHANGED <<pc, connerr, attempt, tries, sshConn, chan, watcher, cancelled, running,
                   keepAlive, reporting, environment>>

\* It closes the connection of the iteration that started it, and returns.
SwitchbackCloses(w) ==
    /\ watch[w] = "closing"
    /\ watch' = [watch EXCEPT ![w] = "free"]
    /\ conn' = IF w = watcher THEN [conn EXCEPT !.alive = FALSE] ELSE conn
    /\ UNCHANGED <<pc, connerr, attempt, tries, sshConn, chan, watcher, cancelled, running,
                   keepAlive, reporting, environment>>

-----------------------------------------------------------------------------
(* keepAliveLoop and Updates *)

KeepAliveChecks ==
    /\ keepAlive = "sleeping" /\ running
    /\ sshConn
    /\ keepAlive' = "pinging"
    /\ UNCHANGED <<loop, switchback, running, reporting, environment>>

KeepAlivePings ==
    /\ keepAlive = "pinging"
    /\ keepAlive' = "sleeping"
    /\ UNCHANGED <<loop, switchback, running, reporting, environment>>

\* Client.sshConn may have become nil since the check; a data race, so either value may be used,
\* and a nil one ends the client process with all its goroutines.
KeepAlivePanics ==
    /\ keepAlive = "pinging"
    /\ ~sshConn /\ pc # "stopped"
    /\ pc' = "dead"
    /\ conn' = None /\ chan' = None /\ watcher' = None /\ cancelled' = {}
    /\ watch' = [w \in Watchers |-> "free"]
    /\ senders' = FALSE
    /\ keepAlive' = "sleeping"
    /\ UNCHANGED <<connerr, attempt, tries, sshConn, running, updates, environment>>

\* refreshStatus: a new status, and a goroutine that sends it.
RefreshStatus ==
    /\ pc # "dead"
    /\ updates' = [status |-> TRUE, sent |-> FALSE]
    /\ senders' = TRUE
    /\ UNCHANGED <<loop, switchback, running, keepAlive, environment>>

\* sendUpdates, under mtx: whatever status and connection there are by then.
SendUpdates ==
    /\ senders
    /\ senders' = FALSE
    /\ updates' = [updates EXCEPT !.sent = @ \/ (sshConn /\ updates.status)]
    /\ UNCHANGED <<loop, switchback, running, keepAlive, environment>>

-----------------------------------------------------------------------------
(* Servers and network *)

ServerUp(s) ==
    /\ s \notin up
    /\ up' = up \cup {s}
    /\ UNCHANGED <<loop, switchback, running, keepAlive, reporting, faults>>

\* Its connections end with it.
ServerDown(s) ==
    /\ s \in up
    /\ faults < MaxFaults
    /\ faults' = faults + 1
    /\ up' = up \ {s}
    /\ conn' = IF conn # None /\ conn.server = s THEN [conn EXCEPT !.alive = FALSE] ELSE conn
    /\ chan' = IF chan # None /\ s = "main" THEN "dead" ELSE chan
    /\ UNCHANGED <<pc, connerr, attempt, tries, sshConn, watcher, watch, cancelled, running,
                   keepAlive, reporting>>

Break ==
    /\ conn # None /\ conn.alive
    /\ faults < MaxFaults
    /\ faults' = faults + 1
    /\ conn' = [conn EXCEPT !.alive = FALSE]
    /\ UNCHANGED <<pc, connerr, attempt, tries, sshConn, switchback, running, keepAlive,
                   reporting, up>>

\* handleWebsocket closes a connection that sends no request for 10 seconds.
ServerTimesOut ==
    /\ chan = "live"
    /\ chan' = "dead"
    /\ UNCHANGED <<loop, watcher, watch, cancelled, running, keepAlive, reporting,
                   environment>>

-----------------------------------------------------------------------------
Loop ==
    \/ Stop \/ Backoff \/ NoBackoff \/ TakeSwitchback \/ Connect \/ DialMain \/ DialFallback
    \/ RequestAccepted \/ RequestFails \/ Disconnected

Switchback(w) ==
    \/ SwitchbackFires(w) \/ SwitchbackDone(w) \/ SwitchbackDials(w) \/ SwitchbackSends(w)
    \/ SwitchbackCloses(w)

Next ==
    \/ Loop
    \/ \E w \in Watchers : Switchback(w)
    \/ Close
    \/ KeepAliveChecks \/ KeepAlivePings \/ KeepAlivePanics \/ RefreshStatus \/ SendUpdates
    \/ \E s \in Servers : ServerUp(s) \/ ServerDown(s)
    \/ Break \/ ServerTimesOut

Spec == Init /\ [][Next]_vars

(***************************************************************************)
(* Goroutines that can run do run, dials and requests end, the switchback  *)
(* interval passes, and a server that is down comes back.                  *)
(***************************************************************************)
Fairness ==
    /\ WF_vars(Loop)
    /\ \A w \in Watchers : WF_vars(Switchback(w))
    /\ WF_vars(SendUpdates)
    /\ \A s \in Servers : WF_vars(ServerUp(s))

FairSpec == Spec /\ Fairness
-----------------------------------------------------------------------------
(* Properties *)

\* The variables hold values of their types (connectionLoop, Client, Updates).
TypeOK ==
    /\ pc \in {"top", "select", "dialMain", "dialFallback", "request", "served", "stopped",
               "dead"}
    /\ conn \in Connections \cup {None}
    /\ (conn # None) = (pc \in {"request", "served"})
    /\ connerr \in BOOLEAN
    /\ attempt \in Nat /\ tries \in Nat
    /\ chan \in {None, "live", "dead"}
    /\ watcher \in Watchers \cup {None}
    /\ watch \in [Watchers -> {"free", "waiting", "dialing", "sending", "closing"}]
    /\ cancelled \subseteq Watchers
    /\ sshConn = (pc = "served")
    /\ running \in BOOLEAN
    /\ keepAlive \in {"sleeping", "pinging"}
    /\ updates \in [status : BOOLEAN, sent : BOOLEAN]
    /\ senders \in BOOLEAN
    /\ up \subseteq Servers
    /\ faults \in Nat

Over == ~running \/ pc = "dead"

\* "Maximum number of times to retry before exiting": the client never exits by itself before
\* it has retried max_retry_count times since it was last served, and never tries more than
\* once beyond that, although connections come from three places (connectionLoop).
RetriesBounded ==
    MaxRetryCount >= 0 =>
        /\ tries <= MaxRetryCount + 1
        /\ pc = "stopped" /\ running => tries >= MaxRetryCount

\* A switchback goroutine never ends a connection to the main server, although the loop may
\* have reached the main server by itself while the goroutine was connecting.
SwitchbackKeepsMain ==
    [][\A w \in Watchers :
        SwitchbackCloses(w) /\ conn # None /\ conn.server = "main" => conn' = conn]_vars

\* At most one switchback goroutine is not on its way out: a cancelled one does not dial again.
OneSwitchback ==
    \A w \in Watchers : watch[w] # "free" /\ w \notin cancelled => w = watcher

\* The client is served again and again, whatever connections it loses, unless it gives up.
ServedAgain ==
    []<>(pc = "served" \/ pc = "stopped" \/ Over)

\* "if connected to a fallback server, try every interval to switch back to the main server":
\* the client does not stay on the fallback server for ever when the main server is back.
SwitchesBack ==
    pc = "served" /\ conn.server = "fallback" ~> pc # "served" \/ conn.server = "main" \/ Over

\* What is left of it: the client leaves the fallback server as long as no goroutine of an
\* earlier connection is still about and the channel is empty.
SwitchesBackAlone ==
    /\ pc = "served" /\ conn.server = "fallback"
    /\ chan = None
    /\ \A w \in Watchers \ {watcher} : watch[w] = "free"
    ~> pc # "served" \/ conn.server = "main" \/ Over

\* "it's called both after status is refreshed or conn set": the latest status reaches the
\* server over the connection of the moment, also when it was found before the connection.
StatusReported ==
    pc = "served" /\ updates.status ~> pc # "served" \/ updates.sent \/ Over
=============================================================================
