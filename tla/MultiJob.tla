------------------------------ MODULE MultiJob ------------------------------
(***************************************************************************)
(* Remote commands.  The server runs one multi-client job (REST or         *)
(* websocket API, sequential or concurrent) while single-client commands   *)
(* are sent to the same clients.  Each command is a run_cmd request over   *)
(* the client's ssh connection; the rport client starts it under           *)
(* runCmdMutex, observes it and later sends cmd_result over whichever      *)
(* connection it has then.  The server saves the result and hands it to    *)
(* the runner of the multi-client job through an unbuffered channel that   *)
(* jobsDoneChannel holds.                                                  *)
(*                                                                         *)
(* golang.org/x/crypto/ssh is external: a request that wants a reply has   *)
(* the connection for itself until the reply comes or the connection ends. *)
(***************************************************************************)
EXTENDS Integers, FiniteSets

CONSTANTS
    Clients,
    N,             \* how many clients the multi-client job has
    Singles,       \* single-client commands
    JobClient,     \* the client of each job
    None,          \* nil
    Concurrent,    \* execute_concurrently
    AbortOnErr,    \* abort_on_error
    ViaWebSocket,  \* started over the websocket API
    DbMayFail,     \* whether a statement on the jobs table may fail
    MaxBreaks,     \* bound on broken connections
    MaxRestarts    \* bound on server restarts

Positions == 1 .. N
Jobs == Positions \cup Singles
Status == {"running", "successful", "failed", "unknown"}

ASSUME MultiJobAssumption ==
    /\ N \in Nat
    /\ Positions \cap Singles = {}
    /\ JobClient \in [Jobs -> Clients]
    /\ None \notin Jobs /\ None \notin Status
    /\ Concurrent \in BOOLEAN /\ AbortOnErr \in BOOLEAN /\ ViaWebSocket \in BOOLEAN
    /\ DbMayFail \in BOOLEAN
    /\ MaxBreaks \in Nat /\ MaxRestarts \in Nat

VARIABLES
    pc,          \* where executeMultiClientJob (or handleCommandsExecutionWS) is
    cur,         \* the position of its loop
    call,        \* createAndRunJob or handleExecuteCommand of each job
    via,         \* the connection a single command was sent over
    exec,        \* what the client does for each job
    outcome,     \* the status the client reports
    runCmdMutex, \* holder of Client.runCmdMutex on each client
    curCmdPID,   \* whose process Client.curCmdPID names
    up,          \* whether the client is connected
    epoch,       \* number of its current or last connection
    results,     \* cmd_result requests in flight
    db,          \* the status column of the jobs table
    listed,      \* whether jobsDoneChannel holds the channel of the job
    closed,      \* whether that channel is closed
    sending,     \* goroutines about to send a result on the channel
    ui,          \* the UI web socket
    uiListed,    \* whether uiJobWebSockets holds it
    writesLeft,  \* its writesBeforeClose
    shown,       \* jobs whose final state was written to it
    panicked,    \* the server process died of a panic
    breaks, restarts

runner == <<pc, cur, listed, closed>>
executor == <<exec, outcome, runCmdMutex, curCmdPID>>
network == <<up, epoch, breaks>>
socket == <<ui, uiListed, writesLeft, shown>>
faults == <<panicked, restarts>>
vars == <<runner, call, via, executor, network, results, db, sending, socket, faults>>

Results == [job : Jobs, conn : Nat]

\* A multi-client job holds the client objects, and so the connections, it began with.
Conn(j) == IF j \in Positions THEN 1 ELSE via[j]

Alive(j) == up[JobClient[j]] /\ epoch[JobClient[j]] = Conn(j)

-----------------------------------------------------------------------------
\* Clients are connected; the multi-client job was validated and saved, its channel and its
\* web socket are registered.
Init ==
    /\ pc = "loop"
    /\ cur = 1
    /\ call = [j \in Jobs |-> "none"]
    /\ via = [j \in Singles |-> 0]
    /\ exec = [j \in Jobs |-> "none"]
    /\ outcome = [j \in Jobs |-> None]
    /\ runCmdMutex = [c \in Clients |-> None]
    /\ curCmdPID = [c \in Clients |-> None]
    /\ up = [c \in Clients |-> TRUE]
    /\ epoch = [c \in Clients |-> 1]
    /\ results = {}
    /\ db = [j \in Jobs |-> None]
    /\ listed = ~Concurrent
    /\ closed = FALSE
    /\ sending = {}
    /\ ui = IF ViaWebSocket THEN "open" ELSE "none"
    /\ uiListed = ViaWebSocket
    /\ writesLeft = N
    /\ shown = {}
    /\ panicked = FALSE
    /\ breaks = 0
    /\ restarts = 0

-----------------------------------------------------------------------------
(* The web socket of the UI. *)

\* Mutant of WriteToUI: the connection is closed one write early.
WriteToUIClosesEarly(j, thenClose) ==
    /\ writesLeft' = writesLeft - 1
    /\ ui' = IF ui # "open" THEN ui
             ELSE IF writesLeft = 2 THEN "served"
             ELSE IF thenClose THEN "closed" ELSE "open"
    /\ shown' = IF ui = "open" THEN shown \cup {j} ELSE shown

\* ConcurrentWebSocket.WriteJSON and WriteMessage with the deferred dec; the caller may close
\* the connection afterwards.
WriteToUI(j, thenClose) ==
    /\ writesLeft' = writesLeft - 1
    /\ ui' = IF ui # "open" THEN ui
             ELSE IF writesLeft = 1 THEN "served"
             ELSE IF thenClose THEN "closed" ELSE "open"
    /\ shown' = IF ui = "open" THEN shown \cup {j} ELSE shown

\* The user closes the page.
UserLeaves ==
    /\ ui = "open"
    /\ ui' = "closed"
    /\ UNCHANGED <<runner, call, via, executor, network, results, db, sending,
                   uiListed, writesLeft, shown, faults>>

-----------------------------------------------------------------------------
(* The runner of the multi-client job. *)

\* The loop starts the command of the next client.
Dispatch ==
    /\ pc = "loop" /\ cur <= N
    /\ call' = [call EXCEPT ![cur] = "spawned"]
    /\ IF Concurrent THEN cur' = cur + 1 /\ pc' = "loop"
                     ELSE cur' = cur /\ pc' = "call"
    /\ UNCHANGED <<listed, closed, via, executor, network, results, db, sending, socket, faults>>

LoopEnds ==
    /\ pc = "loop" /\ cur > N
    /\ pc' = IF ViaWebSocket THEN "reading" ELSE "returning"
    /\ UNCHANGED <<cur, listed, closed, call, via, executor, network, results, db, sending,
                   socket, faults>>

\* uiConnTS.ReadMessage returns once the socket is closed by either side.
ReadReturns ==
    /\ pc = "reading" /\ ui # "open"
    /\ pc' = "returning"
    /\ UNCHANGED <<cur, listed, closed, call, via, executor, network, results, db, sending,
                   socket, faults>>

\* The deferred functions: close(curJobDoneChannel), then Del and uiJobWebSockets.Delete.
CloseChannel ==
    /\ pc = "returning"
    /\ closed' = ~Concurrent
    /\ pc' = "closed"
    /\ UNCHANGED <<cur, listed, call, via, executor, network, results, db, sending, socket,
                   faults>>

DelChannel ==
    /\ pc = "closed"
    /\ listed' = FALSE
    /\ uiListed' = FALSE
    /\ pc' = "done"
    /\ UNCHANGED <<cur, closed, call, via, executor, network, results, db, sending,
                   ui, writesLeft, shown, faults>>

\* Mutant of NextClient: a failure is ignored.
NextClientIgnoresFailure(failed) ==
    /\ cur' = cur + 1 /\ pc' = "loop"

\* What the loop does when the command of client cur is over.
NextClient(failed) ==
    IF failed /\ AbortOnErr THEN cur' = cur /\ pc' = "returning"
                            ELSE cur' = cur + 1 /\ pc' = "loop"

\* Mutant of AfterCall: the loop does not wait for the result.
AfterCallDoesNotWait(ok) == NextClient(~ok)

\* The command was started or could not be: wait for its result, or go on at once.
AfterCall(ok) ==
    IF ok THEN cur' = cur /\ pc' = "wait" ELSE NextClient(TRUE)

-----------------------------------------------------------------------------
(* createAndRunJob, createAndRunJobWS and handleExecuteCommand. *)

\* handleExecuteCommand finds the active client of a single command.
StartSingle(s) ==
    /\ call[s] = "none"
    /\ up[JobClient[s]]
    /\ call' = [call EXCEPT ![s] = "spawned"]
    /\ via' = [via EXCEPT ![s] = epoch[JobClient[s]]]
    /\ UNCHANGED <<runner, executor, network, results, db, sending, socket, faults>>

\* The request is sent once the connection has no other one outstanding.
SendRequest(j) ==
    /\ call[j] = "spawned"
    /\ Alive(j)
    /\ \A k \in Jobs : call[k] = "sent" /\ JobClient[k] = JobClient[j] => Conn(k) # Conn(j)
    /\ call' = [call EXCEPT ![j] = "sent"]
    /\ exec' = [exec EXCEPT ![j] = "sent"]
    /\ UNCHANGED <<runner, via, outcome, runCmdMutex, curCmdPID, network, results, db, sending,
                   socket, faults>>

\* The client's answer arrives.
Reply(j) ==
    /\ call[j] = "sent"
    /\ Alive(j)
    /\ exec[j] \notin {"sent", "waiting", "locked", "gone"}
    /\ call' = [call EXCEPT ![j] = IF exec[j] = "rejected" THEN "err" ELSE "ok"]
    /\ UNCHANGED <<runner, via, executor, network, results, db, sending, socket, faults>>

\* SendRequest returns an error because the connection is gone, whatever the client did.
RequestFails(j) ==
    /\ call[j] \in {"spawned", "sent"}
    /\ ~Alive(j)
    /\ call' = [call EXCEPT ![j] = "err"]
    /\ UNCHANGED <<runner, via, executor, network, results, db, sending, socket, faults>>

\* Mutant of CreateJob: the row is replaced like SaveJob does.
CreateJobReplaces(j, status) == db' = [db EXCEPT ![j] = status]

\* SqliteProvider.CreateJob: an existing row is left alone.
CreateJob(j, status) ==
    db' = IF db[j] = None THEN [db EXCEPT ![j] = status] ELSE db

\* The rest of createAndRunJob: a failed job goes to the UI, the job is saved, an error of the
\* table is only logged, and the loop goes on.
RecordMulti(j) ==
    /\ j \in Positions
    /\ call[j] \in {"ok", "err"}
    /\ call' = [call EXCEPT ![j] = IF call[j] = "ok" THEN "created" ELSE "failed"]
    /\ \/ CreateJob(j, IF call[j] = "ok" THEN "running" ELSE "failed")
       \/ DbMayFail /\ UNCHANGED db
    /\ IF Concurrent THEN UNCHANGED <<pc, cur>>
       ELSE AfterCall(call[j] = "ok")
    /\ IF call[j] = "err" /\ ViaWebSocket
       THEN WriteToUI(j, AbortOnErr /\ ~Concurrent)
       ELSE UNCHANGED <<ui, writesLeft, shown>>
    /\ UNCHANGED <<listed, closed, via, executor, network, results, sending, uiListed, faults>>

\* The rest of handleExecuteCommand: a failed command is not saved.
RecordSingle(s) ==
    /\ s \in Singles
    /\ call[s] \in {"ok", "err"}
    /\ call' = [call EXCEPT ![s] = IF call[s] = "ok" THEN "created" ELSE "failed"]
    /\ \/ call[s] = "ok" /\ CreateJob(s, "running")
       \/ (call[s] = "err" \/ DbMayFail) /\ UNCHANGED db
    /\ UNCHANGED <<runner, via, executor, network, results, sending, socket, faults>>

-----------------------------------------------------------------------------
(* HandleRunCmdRequest on the client. *)

SetExec(j, e) == exec' = [exec EXCEPT ![j] = e]

\* The server's side of every action of the client.
ServerUnchanged ==
    UNCHANGED <<runner, call, via, db, sending, socket, faults>>

\* A single command is only accepted when no command is observed.
AcceptRequest(j) ==
    /\ exec[j] = "sent"
    /\ j \in Singles => curCmdPID[JobClient[j]] = None
    /\ SetExec(j, "waiting")
    /\ UNCHANGED <<outcome, runCmdMutex, curCmdPID, network, results>>
    /\ ServerUnchanged

\* Commands or scripts are disabled, the job is malformed, or another command is observed.
RefuseRequest(j) ==
    /\ exec[j] = "sent"
    /\ SetExec(j, "rejected")
    /\ UNCHANGED <<outcome, runCmdMutex, curCmdPID, network, results>>
    /\ ServerUnchanged

\* The connection ended before the client read the request.
RequestLost(j) ==
    /\ exec[j] = "sent"
    /\ ~Alive(j)
    /\ SetExec(j, "gone")
    /\ UNCHANGED <<outcome, runCmdMutex, curCmdPID, network, results>>
    /\ ServerUnchanged

LockRunCmd(j) ==
    LET c == JobClient[j] IN
    /\ exec[j] = "waiting"
    /\ runCmdMutex[c] = None
    /\ runCmdMutex' = [runCmdMutex EXCEPT ![c] = j]
    /\ SetExec(j, "locked")
    /\ UNCHANGED <<outcome, curCmdPID, network, results>>
    /\ ServerUnchanged

StartCommand(j) ==
    /\ exec[j] = "locked"
    /\ curCmdPID' = [curCmdPID EXCEPT ![JobClient[j]] = j]
    /\ SetExec(j, "running")
    /\ UNCHANGED <<outcome, runCmdMutex, network, results>>
    /\ ServerUnchanged

\* Wrong interpreter, command not allowed, no script file, or the process does not start.
StartFails(j) ==
    /\ exec[j] = "locked"
    /\ runCmdMutex' = [runCmdMutex EXCEPT ![JobClient[j]] = None]
    /\ SetExec(j, "rejected")
    /\ UNCHANGED <<outcome, curCmdPID, network, results>>
    /\ ServerUnchanged

\* The process ends, or the timeout comes first and the status is "unknown".
CommandEnds(j, status) ==
    /\ exec[j] = "running"
    /\ outcome' = [outcome EXCEPT ![j] = status]
    /\ SetExec(j, "ended")
    /\ UNCHANGED <<runCmdMutex, curCmdPID, network, results>>
    /\ ServerUnchanged

\* Mutant of StopObserving: the mutex is released before the PID is unset.
StopObservingUnlocksFirst(j) ==
    LET c == JobClient[j] IN
    /\ \/ /\ exec[j] = "ended"
          /\ runCmdMutex' = [runCmdMutex EXCEPT ![c] = None]
          /\ SetExec(j, "unset")
          /\ UNCHANGED curCmdPID
       \/ /\ exec[j] = "unset"
          /\ curCmdPID' = [curCmdPID EXCEPT ![c] = None]
          /\ SetExec(j, "finished")
          /\ UNCHANGED runCmdMutex
    /\ UNCHANGED <<outcome, network, results>>
    /\ ServerUnchanged

\* The PID is unset, then the mutex released.
StopObserving(j) ==
    LET c == JobClient[j] IN
    /\ \/ /\ exec[j] = "ended"
          /\ curCmdPID' = [curCmdPID EXCEPT ![c] = None]
          /\ SetExec(j, "unset")
          /\ UNCHANGED runCmdMutex
       \/ /\ exec[j] = "unset"
          /\ runCmdMutex' = [runCmdMutex EXCEPT ![c] = None]
          /\ SetExec(j, "finished")
          /\ UNCHANGED curCmdPID
    /\ UNCHANGED <<outcome, network, results>>
    /\ ServerUnchanged

\* The result goes out over the connection the client has by now; it is not kept or repeated.
SendResult(j) ==
    LET c == JobClient[j] IN
    /\ exec[j] = "finished"
    /\ SetExec(j, "reported")
    /\ results' = IF up[c] THEN results \cup {[job |-> j, conn |-> epoch[c]]} ELSE results
    /\ UNCHANGED <<outcome, runCmdMutex, curCmdPID, network>>
    /\ ServerUnchanged

\* Without a connection Client.sshConn is nil: the client process dies of the call and is
\* started again by its service manager; nothing of its commands is known any more.
ClientPanics(j) ==
    LET c == JobClient[j] IN
    /\ exec[j] = "finished"
    /\ ~up[c]
    /\ exec' = [k \in Jobs |->
                  IF JobClient[k] = c /\ exec[k] \notin {"none", "rejected", "reported"}
                  THEN "gone" ELSE exec[k]]
    /\ runCmdMutex' = [runCmdMutex EXCEPT ![c] = None]
    /\ curCmdPID' = [curCmdPID EXCEPT ![c] = None]
    /\ UNCHANGED <<outcome, network, results>>
    /\ ServerUnchanged

-----------------------------------------------------------------------------
(* The server's handleSSHRequests. *)

\* Mutant of DoneChannel: the runner is not told of a failed command.
DoneChannelSkipsFailed(j) == IF j \in Positions /\ listed /\ outcome[j] # "failed" THEN {j} ELSE {}

\* jobsDoneChannel.Get and the goroutine that will send the result.
DoneChannel(j) == IF j \in Positions /\ listed THEN {j} ELSE {}

\* cmd_result: written to the UI, saved (SaveJob replaces the row), handed to the runner.  When
\* the table fails, the runner is not told.
CmdResult(r) ==
    LET j == r.job IN
    /\ r \in results
    /\ results' = results \ {r}
    /\ \/ /\ db' = [db EXCEPT ![j] = outcome[j]]
          /\ sending' = sending \cup DoneChannel(j)
       \/ /\ DbMayFail
          /\ UNCHANGED <<db, sending>>
    /\ IF j \in Positions /\ uiListed THEN WriteToUI(j, FALSE)
       ELSE UNCHANGED <<ui, writesLeft, shown>>
    /\ UNCHANGED <<runner, call, via, executor, network, uiListed, faults>>

ResultLost(r) ==
    /\ r \in results
    /\ ~up[JobClient[r.job]] \/ epoch[JobClient[r.job]] # r.conn
    /\ results' = results \ {r}
    /\ UNCHANGED <<runner, call, via, executor, network, db, sending, socket, faults>>

\* The runner waits for a result and takes the first that is sent on its channel.
ReceiveResult(j) ==
    /\ pc = "wait"
    /\ j \in sending
    /\ sending' = sending \ {j}
    /\ NextClient(outcome[j] = "failed")
    /\ ui' = IF outcome[j] = "failed" /\ AbortOnErr /\ ui = "open" THEN "closed" ELSE ui
    /\ UNCHANGED <<listed, closed, call, via, executor, network, results, db,
                   uiListed, writesLeft, shown, faults>>

-----------------------------------------------------------------------------
(* Faults. *)

\* Everything the server process holds in memory is gone, and so are its connections.
ServerDies ==
    /\ pc' = "dead"
    /\ call' = [j \in Jobs |->
                  IF call[j] \in {"spawned", "sent", "ok", "err"} THEN "lost" ELSE call[j]]
    /\ listed' = FALSE
    /\ sending' = {}
    /\ results' = {}
    /\ up' = [c \in Clients |-> FALSE]
    /\ ui' = IF ui = "open" THEN "closed" ELSE ui
    /\ uiListed' = FALSE
    /\ UNCHANGED <<cur, closed, via, executor, epoch, breaks, db, writesLeft, shown>>

Restart ==
    /\ restarts < MaxRestarts
    /\ restarts' = restarts + 1
    /\ ServerDies
    /\ UNCHANGED panicked

\* The goroutine sends on a channel that is closed.
SendOnClosed(j) ==
    /\ j \in sending
    /\ closed
    /\ panicked' = TRUE
    /\ ServerDies
    /\ UNCHANGED restarts

Break(c) ==
    /\ up[c]
    /\ breaks < MaxBreaks
    /\ breaks' = breaks + 1
    /\ up' = [up EXCEPT ![c] = FALSE]
    /\ UNCHANGED <<epoch, executor, results>>
    /\ ServerUnchanged

Reconnect(c) ==
    /\ ~up[c]
    /\ up' = [up EXCEPT ![c] = TRUE]
    /\ epoch' = [epoch EXCEPT ![c] = @ + 1]
    /\ UNCHANGED <<breaks, executor, results>>
    /\ ServerUnchanged

-----------------------------------------------------------------------------
Runner ==
    \/ Dispatch \/ LoopEnds \/ ReadReturns \/ CloseChannel \/ DelChannel
    \/ \E j \in Jobs : ReceiveResult(j)

Call(j) ==
    \/ SendRequest(j) \/ Reply(j) \/ RequestFails(j) \/ RecordMulti(j) \/ RecordSingle(j)

Execute(j) ==
    \/ AcceptRequest(j) \/ RefuseRequest(j) \/ RequestLost(j) \/ LockRunCmd(j) \/ StartCommand(j)
    \/ StartFails(j) \/ StopObserving(j) \/ SendResult(j) \/ ClientPanics(j)
    \/ \E status \in Status \ {"running"} : CommandEnds(j, status)

Next ==
    \/ Runner
    \/ \E j \in Jobs : Call(j) \/ Execute(j) \/ SendOnClosed(j)
    \/ \E s \in Singles : StartSingle(s)
    \/ \E r \in results : CmdResult(r) \/ ResultLost(r)
    \/ \E c \in Clients : Break(c) \/ Reconnect(c)
    \/ UserLeaves
    \/ Restart

Spec == Init /\ [][Next]_vars

(***************************************************************************)
(* Goroutines keep running, requests and results that are sent arrive while *)
(* the connection lasts, every command ends or times out, and the client    *)
(* connects again.                                                          *)
(***************************************************************************)
Fairness ==
    /\ WF_vars(Runner)
    /\ \A j \in Jobs : WF_vars(Call(j)) /\ WF_vars(Execute(j))
    /\ \A j \in Jobs : WF_vars(\E r \in results : r.job = j /\ (CmdResult(r) \/ ResultLost(r)))
    /\ \A c \in Clients : WF_vars(Reconnect(c))

FairSpec == Spec /\ Fairness
-----------------------------------------------------------------------------
(* Properties *)

\* The variables hold values of their types (runner, jobs table, client executor).
TypeOK ==
    /\ pc \in {"loop", "call", "wait", "reading", "returning", "closed", "done", "dead"}
    /\ cur \in Nat \ {0}
    /\ call \in [Jobs -> {"none", "spawned", "sent", "ok", "err", "created", "failed", "lost"}]
    /\ via \in [Singles -> Nat]
    /\ exec \in [Jobs -> {"none", "sent", "rejected", "waiting", "locked", "running", "ended",
                          "unset", "finished", "reported", "gone"}]
    /\ outcome \in [Jobs -> Status \cup {None}]
    /\ runCmdMutex \in [Clients -> Jobs \cup {None}]
    /\ curCmdPID \in [Clients -> Jobs \cup {None}]
    /\ up \in [Clients -> BOOLEAN]
    /\ epoch \in [Clients -> Nat]
    /\ results \subseteq Results
    /\ db \in [Jobs -> Status \cup {None}]
    /\ listed \in BOOLEAN /\ closed \in BOOLEAN
    /\ sending \subseteq Positions
    /\ ui \in {"none", "open", "served", "closed"}
    /\ uiListed \in BOOLEAN
    /\ writesLeft \in Int
    /\ shown \subseteq Jobs
    /\ panicked \in BOOLEAN
    /\ breaks \in Nat /\ restarts \in Nat

\* "By default, if the execution fails on some client, the entire cycle is aborted": after a
\* client that failed, by its result or because it could not be asked, no client of the job is
\* asked to run the command, also when connections break and the server restarts.
AbortStops ==
    AbortOnErr /\ ~Concurrent =>
        \A i, k \in Positions :
            i < k /\ (call[i] = "failed" \/ outcome[i] = "failed") => call[k] = "none"

\* "By default, commands are not executed concurrently": no two clients of the job execute its
\* command at the same time (executeMultiClientJob waits for the result of each).
Sequential ==
    ~Concurrent =>
        \A i, k \in Positions : exec[i] = "running" /\ exec[k] = "running" => i = k

\* A finished job never goes back to running, and what the client reported is never replaced:
\* a result that is saved before CreateJob of the same job survives it.
Finished(status) == status \notin {None, "running"}

ResultIsFinal ==
    [][\A j \in Jobs :
        /\ Finished(db[j]) => Finished(db'[j])
        /\ exec[j] = "reported" /\ db[j] = outcome[j] => db'[j] = outcome[j]]_vars

\* The PID that makes the client refuse a second command names the command being executed:
\* unsetting it at the end of one command never hides the next one (HandleRunCmdRequest).
RunningHasPid ==
    \A j \in Jobs : exec[j] = "running" => curCmdPID[JobClient[j]] = j

\* "do not accept a new request when the previous is not finished yet, except multi-client
\* job": a single command never waits for another command of the client.
SingleNeverWaits ==
    \A s \in Singles : exec[s] = "waiting" => curCmdPID[JobClient[s]] = None

\* A result came for a command whose request the server had recorded as failed.
Late == \E j \in Positions : call[j] = "failed" /\ exec[j] = "reported"

\* A goroutine that hands over a result sends on the runner's channel without knowing whether it
\* is closed, which would end the server process.  Whatever connections break, requests and
\* results get lost and the table fails: that happens only after the client executed a command
\* whose request had failed on the server, never to a job whose requests were all answered.
OnlyLateResultsPanic == panicked => Late

\* When the server closes the UI's web socket because all writes are done, the final state of
\* every job of the multi-client job has been written to it (SetWritesBeforeClose, dec).  For
\* connections that do not break (MaxBreaks = 0).
ServedAfterAll == ui = "served" => Positions \subseteq shown

\* "Disabling abort_on_error executes the command on all clients regardless there is an error
\* or not": unless the server restarts, every client is asked in the end.  For connections that
\* do not break (MaxBreaks = 0): a result that is lost leaves the loop waiting.
AllClientsAsked ==
    <>(pc = "dead" \/ \A j \in Positions : call[j] \in {"created", "failed"})
=============================================================================
