--------------------------- MODULE MultiJob_proofs ---------------------------
(***************************************************************************)
(* MultiJob for every number of clients.  Under every fault: the type      *)
(* invariant, what the client's PID names, and that a saved result is      *)
(* final; for a sequential job with abort_on_error also that no two of its *)
(* commands overlap and that a failure is its last command; for every kind *)
(* of job that only the result of a command whose request had failed makes *)
(* the server send on a closed channel.  As long as no connection breaks,  *)
(* for every kind of job: nothing shown twice or left out on the web       *)
(* socket, no overlap.                                                     *)
(*                                                                         *)
(* The argument for a sequential job: every job before position cur has    *)
(* reported a result that is not a failure and was taken by the runner,    *)
(* every job after it is untouched, and a result on its way or in a        *)
(* sending goroutine can only be the one of cur, and there is only one.    *)
(***************************************************************************)
EXTENDS MultiJob, FiniteSetTheorems, TLAPS

\* Jobs before cur are over and did not fail.
Past ==
    \A k \in Positions : k < cur =>
        call[k] = "created" /\ exec[k] = "reported" /\ outcome[k] # "failed"

\* Jobs after cur, and cur itself before Dispatch, are untouched.
Future ==
    /\ \A k \in Positions : k > cur => call[k] = "none"
    /\ \A k \in Jobs : call[k] \in {"none", "spawned"} => exec[k] = "none"
    /\ pc = "loop" => \A k \in Positions : k = cur => call[k] = "none"

\* The runner is in the loop body only for a position, and waits only for a created job.
Body ==
    /\ pc \in {"call", "wait"} => cur \in Positions
    /\ pc = "wait" => call[cur] = "created"

\* A multi-client result that is on its way or being handed over is the one of cur, just once.
OwnResult ==
    /\ \A r \in results : r.job \in Positions => r.job = cur /\ exec[r.job] = "reported"
    /\ \A r1, r2 \in results : r1.job = r2.job => r1 = r2
    /\ \A r \in results : exec[r.job] = "reported"
    /\ \A j \in sending : j = cur /\ exec[j] = "reported"
    /\ \A j \in sending : \A r \in results : r.job # j

SeqInv == TypeOK /\ Past /\ Future /\ Body /\ OwnResult

-----------------------------------------------------------------------------
\* Every step of the runner, the calls, the client executors and the faults keeps the types.
LEMMA TypeStep == TypeOK /\ [Next]_vars => TypeOK'
<1> SUFFICES ASSUME TypeOK, [Next]_vars PROVE TypeOK'
  OBVIOUS
<1> USE MultiJobAssumption
<1> USE DEF ServerUnchanged, SetExec, runner, executor, network, socket, faults, Results, Jobs
<1>1. CASE Dispatch
  <2>1. call' \in [Jobs -> {"none", "spawned", "sent", "ok", "err", "created", "failed", "lost"}]
    BY <1>1 DEF TypeOK, Dispatch
  <2>2. cur' \in Nat \ {0} /\ pc' \in {"loop", "call"}
    BY <1>1 DEF TypeOK, Dispatch
  <2>3. QED
    BY <1>1, <2>1, <2>2 DEF TypeOK, Dispatch
<1>2. CASE LoopEnds
  BY <1>2 DEF TypeOK, LoopEnds
<1>3. CASE ReadReturns
  BY <1>3 DEF TypeOK, ReadReturns
<1>4. CASE CloseChannel
  BY <1>4 DEF TypeOK, CloseChannel
<1>5. CASE DelChannel
  BY <1>5 DEF TypeOK, DelChannel
<1>6. ASSUME NEW j \in Jobs, ReceiveResult(j)
      PROVE  TypeOK'
  BY <1>6 DEF TypeOK, ReceiveResult, NextClient
<1>7. ASSUME NEW j \in Jobs, SendRequest(j)
      PROVE  TypeOK'
  BY <1>7 DEF TypeOK, SendRequest
<1>8. ASSUME NEW j \in Jobs, Reply(j)
      PROVE  TypeOK'
  BY <1>8 DEF TypeOK, Reply
<1>9. ASSUME NEW j \in Jobs, RequestFails(j)
      PROVE  TypeOK'
  BY <1>9 DEF TypeOK, RequestFails
<1>10. ASSUME NEW j \in Jobs, RecordMulti(j)
      PROVE  TypeOK'
  <2>1. call' \in [Jobs -> {"none", "spawned", "sent", "ok", "err", "created", "failed", "lost"}]
    BY <1>10 DEF TypeOK, RecordMulti
  <2>2. db' \in [Jobs -> Status \cup {None}]
    BY <1>10 DEF TypeOK, RecordMulti, CreateJob, Status
  <2>3. cur' \in Nat \ {0} /\ pc' \in {"loop", "call", "wait", "reading", "returning", "closed", "done", "dead"}
    BY <1>10 DEF TypeOK, RecordMulti, AfterCall, NextClient
  <2>4. ui' \in {"none", "open", "served", "closed"} /\ writesLeft' \in Int /\ shown' \subseteq Jobs
    BY <1>10 DEF TypeOK, RecordMulti, WriteToUI
  <2>5. QED
    BY <1>10, <2>1, <2>2, <2>3, <2>4 DEF TypeOK, RecordMulti
<1>11. ASSUME NEW j \in Jobs, RecordSingle(j)
      PROVE  TypeOK'
  <2>1. db' \in [Jobs -> Status \cup {None}]
    BY <1>11 DEF TypeOK, RecordSingle, CreateJob, Status
  <2>2. QED
    BY <1>11, <2>1 DEF TypeOK, RecordSingle
<1>12. ASSUME NEW j \in Jobs, AcceptRequest(j)
      PROVE  TypeOK'
  BY <1>12 DEF TypeOK, AcceptRequest
<1>13. ASSUME NEW j \in Jobs, RefuseRequest(j)
      PROVE  TypeOK'
  BY <1>13 DEF TypeOK, RefuseRequest
<1>14. ASSUME NEW j \in Jobs, RequestLost(j)
      PROVE  TypeOK'
  BY <1>14 DEF TypeOK, RequestLost
<1>15. ASSUME NEW j \in Jobs, LockRunCmd(j)
      PROVE  TypeOK'
  BY <1>15 DEF TypeOK, LockRunCmd
<1>16. ASSUME NEW j \in Jobs, StartCommand(j)
      PROVE  TypeOK'
  BY <1>16 DEF TypeOK, StartCommand
<1>17. ASSUME NEW j \in Jobs, StartFails(j)
      PROVE  TypeOK'
  BY <1>17 DEF TypeOK, StartFails
<1>18. ASSUME NEW j \in Jobs, StopObserving(j)
      PROVE  TypeOK'
  BY <1>18 DEF TypeOK, StopObserving
<1>19. ASSUME NEW j \in Jobs, SendResult(j)
      PROVE  TypeOK'
  BY <1>19 DEF TypeOK, SendResult
<1>20. ASSUME NEW j \in Jobs, ClientPanics(j)
      PROVE  TypeOK'
  BY <1>20 DEF TypeOK, ClientPanics
<1>21. ASSUME NEW j \in Jobs, SendOnClosed(j)
      PROVE  TypeOK'
  BY <1>21 DEF TypeOK, SendOnClosed, ServerDies
<1>22. ASSUME NEW j \in Jobs, NEW status \in Status \ {"running"}, CommandEnds(j, status)
      PROVE  TypeOK'
  BY <1>22 DEF TypeOK, CommandEnds
<1>23. ASSUME NEW s \in Singles, StartSingle(s)
      PROVE  TypeOK'
  BY <1>23 DEF TypeOK, StartSingle
<1>24. ASSUME NEW r \in results, CmdResult(r)
      PROVE  TypeOK'
  BY <1>24 DEF TypeOK, CmdResult, DoneChannel, WriteToUI
<1>25. ASSUME NEW r \in results, ResultLost(r)
      PROVE  TypeOK'
  BY <1>25 DEF TypeOK, ResultLost
<1>26. ASSUME NEW c \in Clients, Break(c)
      PROVE  TypeOK'
  BY <1>26 DEF TypeOK, Break
<1>27. ASSUME NEW c \in Clients, Reconnect(c)
      PROVE  TypeOK'
  BY <1>27 DEF TypeOK, Reconnect
<1>28. CASE UserLeaves
  BY <1>28 DEF TypeOK, UserLeaves
<1>29. CASE Restart
  <2>1. call' \in [Jobs -> {"none", "spawned", "sent", "ok", "err", "created", "failed", "lost"}]
    BY <1>29 DEF TypeOK, Restart, ServerDies
  <2>2. up' \in [Clients -> BOOLEAN]
    BY <1>29 DEF Restart, ServerDies
  <2>3. /\ UNCHANGED <<cur, closed, via, executor, epoch, breaks, db, writesLeft, shown>>
        /\ UNCHANGED panicked /\ restarts' \in Nat
    BY <1>29 DEF TypeOK, Restart, ServerDies
  <2>4. /\ pc' = "dead" /\ listed' = FALSE /\ uiListed' = FALSE
        /\ sending' = {} /\ results' = {}
        /\ ui' \in {"none", "open", "served", "closed"}
    BY <1>29 DEF TypeOK, Restart, ServerDies
  <2>5. QED
    BY <2>1, <2>2, <2>3, <2>4 DEF TypeOK
<1>30. CASE UNCHANGED vars
  BY <1>30 DEF TypeOK, vars
<1>31. QED
  BY <1>1, <1>2, <1>3, <1>4, <1>5, <1>6, <1>7, <1>8, <1>9, <1>10, <1>11, <1>12, <1>13, <1>14, <1>15,
     <1>16, <1>17, <1>18, <1>19, <1>20, <1>21, <1>22, <1>23, <1>24, <1>25, <1>26, <1>27, <1>28,
     <1>29, <1>30 DEF Next, Runner, Call, Execute

\* The initial state has the types.
LEMMA InitType == Init => TypeOK
<1> SUFFICES ASSUME Init PROVE TypeOK
  OBVIOUS
<1>1. listed \in BOOLEAN /\ uiListed \in BOOLEAN /\ closed \in BOOLEAN /\ panicked \in BOOLEAN
  BY MultiJobAssumption DEF Init
<1>2. up \in [Clients -> BOOLEAN] /\ epoch \in [Clients -> Nat] /\ via \in [Singles -> Nat]
  BY DEF Init
<1>3. ui \in {"none", "open", "served", "closed"} /\ writesLeft \in Int
  BY MultiJobAssumption DEF Init
<1>4. QED
  BY <1>1, <1>2, <1>3 DEF Init, TypeOK

\* The type invariant of MultiJob, for every number of clients, jobs and faults.
THEOREM TypeCorrect == Spec => []TypeOK
  BY InitType, TypeStep, PTL DEF Spec

\* With abort_on_error a step of the sequential job, of single commands or of a fault keeps the
\* order of jobs around cur.
LEMMA SeqStep ==
    ASSUME AbortOnErr, ~Concurrent, SeqInv, [Next]_vars
    PROVE  SeqInv'
<1> USE MultiJobAssumption
<1> USE DEF ServerUnchanged, SetExec, runner, executor, network, socket, faults, Results, Jobs,
            SeqInv, TypeOK, Positions, Past, Future, Body, OwnResult
<1>1. ASSUME Dispatch
      PROVE  (Past /\ Future /\ Body /\ OwnResult)'
  <2>1. Past'
    BY <1>1 DEF Dispatch
  <2>2. Future'
    BY <1>1 DEF Dispatch
  <2>3. Body'
    BY <1>1 DEF Dispatch
  <2>4. OwnResult'
    BY <1>1 DEF Dispatch
  <2>5. QED
    BY <2>1, <2>2, <2>3, <2>4
<1>2. ASSUME LoopEnds
      PROVE  (Past /\ Future /\ Body /\ OwnResult)'
  BY <1>2 DEF LoopEnds
<1>3. ASSUME ReadReturns
      PROVE  (Past /\ Future /\ Body /\ OwnResult)'
  BY <1>3 DEF ReadReturns
<1>4. ASSUME CloseChannel
      PROVE  (Past /\ Future /\ Body /\ OwnResult)'
  BY <1>4 DEF CloseChannel
<1>5. ASSUME DelChannel
      PROVE  (Past /\ Future /\ Body /\ OwnResult)'
  BY <1>5 DEF DelChannel
<1>6. ASSUME NEW j \in Jobs, ReceiveResult(j)
      PROVE  (Past /\ Future /\ Body /\ OwnResult)'
  BY <1>6 DEF ReceiveResult, NextClient
<1>7. ASSUME NEW j \in Jobs, SendRequest(j)
      PROVE  (Past /\ Future /\ Body /\ OwnResult)'
  <2>1. Past'
    BY <1>7 DEF SendRequest
  <2>2. Future'
    BY <1>7 DEF SendRequest
  <2>3. Body'
    BY <1>7 DEF SendRequest
  <2>4. OwnResult'
    BY <1>7 DEF SendRequest
  <2>5. QED
    BY <2>1, <2>2, <2>3, <2>4
<1>8. ASSUME NEW j \in Jobs, Reply(j)
      PROVE  (Past /\ Future /\ Body /\ OwnResult)'
  BY <1>8 DEF Reply
<1>9. ASSUME NEW j \in Jobs, RequestFails(j)
      PROVE  (Past /\ Future /\ Body /\ OwnResult)'
  BY <1>9 DEF RequestFails
<1>10. ASSUME NEW j \in Jobs, RecordMulti(j)
      PROVE  (Past /\ Future /\ Body /\ OwnResult)'
  BY <1>10 DEF RecordMulti, AfterCall, NextClient
<1>11. ASSUME NEW j \in Jobs, RecordSingle(j)
      PROVE  (Past /\ Future /\ Body /\ OwnResult)'
  BY <1>11 DEF RecordSingle
<1>12. ASSUME NEW j \in Jobs, AcceptRequest(j)
      PROVE  (Past /\ Future /\ Body /\ OwnResult)'
  BY <1>12 DEF AcceptRequest
<1>13. ASSUME NEW j \in Jobs, RefuseRequest(j)
      PROVE  (Past /\ Future /\ Body /\ OwnResult)'
  BY <1>13 DEF RefuseRequest
<1>14. ASSUME NEW j \in Jobs, RequestLost(j)
      PROVE  (Past /\ Future /\ Body /\ OwnResult)'
  BY <1>14 DEF RequestLost
<1>15. ASSUME NEW j \in Jobs, LockRunCmd(j)
      PROVE  (Past /\ Future /\ Body /\ OwnResult)'
  BY <1>15 DEF LockRunCmd
<1>16. ASSUME NEW j \in Jobs, StartCommand(j)
      PROVE  (Past /\ Future /\ Body /\ OwnResult)'
  BY <1>16 DEF StartCommand
<1>17. ASSUME NEW j \in Jobs, StartFails(j)
      PROVE  (Past /\ Future /\ Body /\ OwnResult)'
  BY <1>17 DEF StartFails
<1>18. ASSUME NEW j \in Jobs, StopObserving(j)
      PROVE  (Past /\ Future /\ Body /\ OwnResult)'
  <2>1. Past'
    BY <1>18, ZenonT(60) DEF StopObserving
  <2>2. Future'
    BY <1>18 DEF StopObserving
  <2>3. Body'
    BY <1>18 DEF StopObserving
  <2>0. /\ exec[j] # "reported" /\ exec' = [exec EXCEPT ![j] = exec'[j]]
        /\ UNCHANGED <<results, sending, cur>>
    BY <1>18 DEF StopObserving
  <2>4. OwnResult'
    BY <2>0
  <2>5. QED
    BY <2>1, <2>2, <2>3, <2>4
<1>19. ASSUME NEW j \in Jobs, SendResult(j)
      PROVE  (Past /\ Future /\ Body /\ OwnResult)'
  BY <1>19 DEF SendResult
<1>20. ASSUME NEW j \in Jobs, ClientPanics(j)
      PROVE  (Past /\ Future /\ Body /\ OwnResult)'
  BY <1>20 DEF ClientPanics
<1>21. ASSUME NEW j \in Jobs, SendOnClosed(j)
      PROVE  (Past /\ Future /\ Body /\ OwnResult)'
  BY <1>21 DEF SendOnClosed, ServerDies
<1>22. ASSUME NEW j \in Jobs, NEW status \in Status \ {"running"}, CommandEnds(j, status)
      PROVE  (Past /\ Future /\ Body /\ OwnResult)'
  BY <1>22 DEF CommandEnds
<1>23. ASSUME NEW s \in Singles, StartSingle(s)
      PROVE  (Past /\ Future /\ Body /\ OwnResult)'
  BY <1>23 DEF StartSingle
<1>24. ASSUME NEW r \in results, CmdResult(r)
      PROVE  (Past /\ Future /\ Body /\ OwnResult)'
  <2>1. Past'
    BY <1>24 DEF CmdResult, DoneChannel
  <2>2. Future'
    BY <1>24 DEF CmdResult, DoneChannel
  <2>3. Body'
    BY <1>24 DEF CmdResult, DoneChannel
  <2>4. OwnResult'
    <3>1. /\ results' = results \ {r} /\ UNCHANGED <<exec, cur>>
          /\ sending' \subseteq sending \cup ({r.job} \cap Positions)
      BY <1>24 DEF CmdResult, DoneChannel
    <3>2. QED
      BY <3>1
  <2>5. QED
    BY <2>1, <2>2, <2>3, <2>4
<1>25. ASSUME NEW r \in results, ResultLost(r)
      PROVE  (Past /\ Future /\ Body /\ OwnResult)'
  BY <1>25 DEF ResultLost
<1>26. ASSUME NEW c \in Clients, Break(c)
      PROVE  (Past /\ Future /\ Body /\ OwnResult)'
  BY <1>26 DEF Break
<1>27. ASSUME NEW c \in Clients, Reconnect(c)
      PROVE  (Past /\ Future /\ Body /\ OwnResult)'
  BY <1>27 DEF Reconnect
<1>28. ASSUME UserLeaves
      PROVE  (Past /\ Future /\ Body /\ OwnResult)'
  BY <1>28 DEF UserLeaves
<1>29. ASSUME Restart
      PROVE  (Past /\ Future /\ Body /\ OwnResult)'
  <2>1. Past'
    BY <1>29 DEF Restart, ServerDies
  <2>2. Future'
    BY <1>29 DEF Restart, ServerDies
  <2>3. Body'
    BY <1>29 DEF Restart, ServerDies
  <2>4. OwnResult'
    BY <1>29 DEF Restart, ServerDies
  <2>5. QED
    BY <2>1, <2>2, <2>3, <2>4
<1>30. ASSUME UNCHANGED vars
      PROVE  (Past /\ Future /\ Body /\ OwnResult)'
  BY <1>30 DEF vars
<1>31. QED
  BY <1>1, <1>2, <1>3, <1>4, <1>5, <1>6, <1>7, <1>8, <1>9, <1>10, <1>11, <1>12, <1>13, <1>14, <1>15,
     <1>16, <1>17, <1>18, <1>19, <1>20, <1>21, <1>22, <1>23, <1>24, <1>25, <1>26, <1>27, <1>28,
     <1>29, <1>30, TypeStep DEF Next, Runner, Call, Execute, SeqInv

\* With abort_on_error, "the entire cycle is aborted" at the first failure, for every number of
\* clients and under every fault (executeMultiClientJob).
THEOREM AbortIsFinal ==
    ASSUME AbortOnErr, ~Concurrent
    PROVE  Spec => []AbortStops
<1>1. Init => SeqInv
  <2>1. Init => TypeOK
    BY InitType
  <2>2. QED
    BY <2>1, MultiJobAssumption DEF Init, SeqInv, Past, Future, Body, OwnResult, Positions, Jobs
<1>2. SeqInv => AbortStops
  BY MultiJobAssumption DEF SeqInv, TypeOK, Past, Future, AbortStops, Positions, Jobs
<1>3. QED
  BY <1>1, <1>2, SeqStep, PTL DEF Spec

\* With abort_on_error, the commands of a sequential job never overlap, for every number of
\* clients and under every fault (executeMultiClientJob, HandleRunCmdRequest).
THEOREM CommandsDoNotOverlap ==
    ASSUME AbortOnErr, ~Concurrent
    PROVE  Spec => []Sequential
<1>1. Init => SeqInv
  <2>1. Init => TypeOK
    BY InitType
  <2>2. QED
    BY <2>1, MultiJobAssumption DEF Init, SeqInv, Past, Future, Body, OwnResult, Positions, Jobs
<1>2. SeqInv => Sequential
  BY MultiJobAssumption DEF SeqInv, TypeOK, Past, Future, Sequential, Positions, Jobs
<1>3. QED
  BY <1>1, <1>2, SeqStep, PTL DEF Spec

-----------------------------------------------------------------------------
(***************************************************************************)
(* The client's side, under every fault.  The holder of runCmdMutex is the *)
(* one command between its start and its end, and the PID is its own       *)
(* (PidInv); a command that ended, and a result on its way, has a final    *)
(* status (OutcomeInv).                                                    *)
(***************************************************************************)
Locked == {"locked", "running", "ended", "unset"}
Observed == {"running", "ended"}
Ended == {"ended", "unset", "finished", "reported"}

PidInv ==
    \A j \in Jobs :
        /\ exec[j] \in Locked => runCmdMutex[JobClient[j]] = j
        /\ exec[j] \in Observed => curCmdPID[JobClient[j]] = j

OutcomeInv ==
    /\ \A j \in Jobs : exec[j] \in Ended => Finished(outcome[j])
    /\ \A r \in results : Finished(outcome[r.job])

ExecInv == TypeOK /\ PidInv /\ OutcomeInv

(***************************************************************************)
(* As long as no connection breaks, sequential or concurrent, with or      *)
(* without abort_on_error, and also across a restart: until the server     *)
(* dies every client stays on its first connection (OneConnection), so     *)
(* that a call fails only because the client refused it (OnlyRefused).     *)
(* Nobody is asked twice (Future) and a result is on its way or being      *)
(* handed over just once (ResultOnce).  Of the positions of a sequential   *)
(* job only cur is active, and only while the loop waits for it            *)
(* (OnlyCurrent); after that the channel may be closed (ChannelInv).       *)
(***************************************************************************)
InCall == {"spawned", "sent", "ok", "err"}
Executing == {"sent", "waiting", "locked", "running", "ended", "unset", "finished"}

OneConnection ==
    /\ breaks = 0
    /\ pc # "dead" => \A c \in Clients : up[c] /\ epoch[c] = 1

OnlyRefused ==
    pc # "dead" => \A j \in Positions : call[j] = "err" => exec[j] = "rejected"

ResultOnce ==
    /\ \A r \in results : exec[r.job] = "reported"
    /\ \A r1, r2 \in results : r1.job = r2.job => r1 = r2
    /\ \A j \in sending : exec[j] = "reported" /\ \A r \in results : r.job # j

Active(j) ==
    \/ call[j] \in InCall
    \/ exec[j] \in Executing
    \/ j \in sending
    \/ \E r \in results : r.job = j

OnlyCurrent ==
    ~Concurrent =>
        /\ \A j \in Positions : Active(j) => j = cur /\ pc \in {"call", "wait", "dead"}
        /\ pc = "wait" => cur \in Positions /\ call[cur] = "created"

ChannelInv ==
    /\ closed => pc \in {"closed", "done", "dead"}
    /\ Concurrent => ~listed /\ ~closed /\ sending = {}
    /\ pc = "dead" =>
        /\ ~listed /\ ~uiListed /\ ui # "open" /\ sending = {}
        /\ \A j \in Positions : call[j] \notin InCall
    /\ ~panicked

\* A position was written to the UI's web socket at most once, and the count of writes left is
\* right as long as the socket is open.
ShownOnce ==
    /\ shown \subseteq Positions
    /\ \A j \in shown :
        \/ exec[j] = "rejected" /\ call[j] = "failed"
        \/ exec[j] = "reported" /\ \A r \in results : r.job # j
    /\ ui = "open" => writesLeft = N - Cardinality(shown)
    /\ ui = "served" => Positions \subseteq shown

InOrder ==
    OneConnection /\ OnlyRefused /\ Future /\ ResultOnce /\ OnlyCurrent /\ ChannelInv

CalmInv == TypeOK /\ InOrder /\ ShownOnce

\* Every step of the clients and of the server keeps PidInv and OutcomeInv.
LEMMA ExecStep ==
    ASSUME ExecInv, [Next]_vars
    PROVE  (PidInv /\ OutcomeInv)'
<1> USE MultiJobAssumption
<1> USE DEF ServerUnchanged, SetExec, runner, executor, network, socket, faults, Results,
            ExecInv, TypeOK, PidInv, OutcomeInv, Finished, Status, Locked, Observed, Ended
<1>1. CASE Dispatch
  BY <1>1 DEF Dispatch
<1>2. CASE LoopEnds
  BY <1>2 DEF LoopEnds
<1>3. CASE ReadReturns
  BY <1>3 DEF ReadReturns
<1>4. CASE CloseChannel
  BY <1>4 DEF CloseChannel
<1>5. CASE DelChannel
  BY <1>5 DEF DelChannel
<1>6. ASSUME NEW j \in Jobs, ReceiveResult(j) PROVE (PidInv /\ OutcomeInv)'
  BY <1>6 DEF ReceiveResult, NextClient
<1>7. ASSUME NEW j \in Jobs, SendRequest(j) PROVE (PidInv /\ OutcomeInv)'
  BY <1>7 DEF SendRequest
<1>8. ASSUME NEW j \in Jobs, Reply(j) PROVE (PidInv /\ OutcomeInv)'
  BY <1>8 DEF Reply
<1>9. ASSUME NEW j \in Jobs, RequestFails(j) PROVE (PidInv /\ OutcomeInv)'
  BY <1>9 DEF RequestFails, Alive, Conn
<1>10. ASSUME NEW j \in Jobs, RecordMulti(j) PROVE (PidInv /\ OutcomeInv)'
  BY <1>10 DEF RecordMulti, AfterCall, NextClient
<1>11. ASSUME NEW j \in Jobs, RecordSingle(j) PROVE (PidInv /\ OutcomeInv)'
  BY <1>11 DEF RecordSingle
<1>12. ASSUME NEW j \in Jobs, AcceptRequest(j) PROVE (PidInv /\ OutcomeInv)'
  BY <1>12 DEF AcceptRequest
<1>13. ASSUME NEW j \in Jobs, RefuseRequest(j) PROVE (PidInv /\ OutcomeInv)'
  BY <1>13 DEF RefuseRequest
<1>14. ASSUME NEW j \in Jobs, RequestLost(j) PROVE (PidInv /\ OutcomeInv)'
  BY <1>14 DEF RequestLost
<1>15. ASSUME NEW j \in Jobs, LockRunCmd(j) PROVE (PidInv /\ OutcomeInv)'
  BY <1>15 DEF LockRunCmd
<1>16. ASSUME NEW j \in Jobs, StartCommand(j) PROVE (PidInv /\ OutcomeInv)'
  BY <1>16 DEF StartCommand
<1>17. ASSUME NEW j \in Jobs, StartFails(j) PROVE (PidInv /\ OutcomeInv)'
  BY <1>17 DEF StartFails
<1>18. ASSUME NEW j \in Jobs, StopObserving(j) PROVE (PidInv /\ OutcomeInv)'
  BY <1>18 DEF StopObserving
<1>19. ASSUME NEW j \in Jobs, SendResult(j) PROVE (PidInv /\ OutcomeInv)'
  BY <1>19 DEF SendResult
<1>20. ASSUME NEW j \in Jobs, ClientPanics(j) PROVE (PidInv /\ OutcomeInv)'
  BY <1>20 DEF ClientPanics
<1>21. ASSUME NEW j \in Jobs, SendOnClosed(j) PROVE (PidInv /\ OutcomeInv)'
  BY <1>21 DEF SendOnClosed, ServerDies
<1>22. ASSUME NEW j \in Jobs, NEW status \in Status \ {"running"}, CommandEnds(j, status)
       PROVE  (PidInv /\ OutcomeInv)'
  BY <1>22 DEF CommandEnds
<1>23. ASSUME NEW s \in Singles, StartSingle(s) PROVE (PidInv /\ OutcomeInv)'
  BY <1>23 DEF StartSingle
<1>24. ASSUME NEW r \in results, CmdResult(r) PROVE (PidInv /\ OutcomeInv)'
  BY <1>24 DEF CmdResult, DoneChannel
<1>25. ASSUME NEW r \in results, ResultLost(r) PROVE (PidInv /\ OutcomeInv)'
  BY <1>25 DEF ResultLost
<1>26. ASSUME NEW c \in Clients, Break(c) PROVE (PidInv /\ OutcomeInv)'
  BY <1>26 DEF Break
<1>27. ASSUME NEW c \in Clients, Reconnect(c) PROVE (PidInv /\ OutcomeInv)'
  BY <1>27 DEF Reconnect
<1>28. CASE UserLeaves
  BY <1>28 DEF UserLeaves
<1>29. CASE Restart
  BY <1>29 DEF Restart, ServerDies
<1>30. CASE UNCHANGED vars
  BY <1>30 DEF vars
<1>31. QED
  BY <1>1, <1>2, <1>3, <1>4, <1>5, <1>6, <1>7, <1>8, <1>9, <1>10, <1>11, <1>12, <1>13, <1>14, <1>15,
     <1>16, <1>17, <1>18, <1>19, <1>20, <1>21, <1>22, <1>23, <1>24, <1>25, <1>26, <1>27, <1>28,
     <1>29, <1>30
     DEF Next, Runner, Call, Execute

\* A step that sends nothing, and takes no reported command back, keeps ResultOnce.
LEMMA ResultFrame ==
    ASSUME TypeOK, ResultOnce, UNCHANGED <<results, sending>>,
           \A k \in Jobs : exec[k] = "reported" => exec'[k] = "reported"
    PROVE  ResultOnce'
  BY DEF ResultOnce, TypeOK, Results, Jobs

\* A step that touches the channel only where the runner listens keeps ChannelInv.
LEMMA ChannelFrame ==
    ASSUME ChannelInv, UNCHANGED <<pc, call, listed, closed, uiListed, panicked>>,
           ui' = "open" => ui = "open", ~listed => sending' = sending
    PROVE  ChannelInv'
  BY DEF ChannelInv

\* Nobody is told of a result when the job has no channel in jobsDoneChannel.
LEMMA QuietResult ==
    ASSUME NEW r \in results, CmdResult(r), ~listed
    PROVE  sending' = sending
<1>1. sending' = sending \cup {} \/ sending' = sending
  BY DEF CmdResult, DoneChannel
<1>2. QED
  BY <1>1

\* As long as no connection breaks, every step keeps the calls, the results and the channel in order.
LEMMA CalmStep ==
    ASSUME MaxBreaks = 0, CalmInv, [Next]_vars
    PROVE  InOrder'
<1> USE MultiJobAssumption
<1> USE DEF ServerUnchanged, SetExec, runner, executor, network, socket, faults, Results, Jobs, Positions,
            CalmInv, InOrder, TypeOK, OneConnection, OnlyRefused, Future, ResultOnce, OnlyCurrent,
            ChannelInv, Active, InCall, Executing
<1>1. CASE Dispatch
  <2>1. OneConnection'
    BY <1>1 DEF Dispatch
  <2>2. OnlyRefused'
    BY <1>1 DEF Dispatch
  <2>3. Future'
    BY <1>1 DEF Dispatch
  <2>4. ResultOnce'
    BY <1>1 DEF Dispatch
  <2>5. OnlyCurrent'
    BY <1>1 DEF Dispatch
  <2>6. ChannelInv'
    BY <1>1 DEF Dispatch
  <2>7. QED
    BY <2>1, <2>2, <2>3, <2>4, <2>5, <2>6
<1>2. CASE LoopEnds
  BY <1>2 DEF LoopEnds
<1>3. CASE ReadReturns
  BY <1>3 DEF ReadReturns
<1>4. CASE CloseChannel
  BY <1>4 DEF CloseChannel
<1>5. CASE DelChannel
  BY <1>5 DEF DelChannel
<1>6. ASSUME NEW j \in Jobs, ReceiveResult(j) PROVE InOrder'
  <2>1. OneConnection'
    BY <1>6 DEF ReceiveResult, NextClient
  <2>2. OnlyRefused'
    BY <1>6 DEF ReceiveResult, NextClient
  <2>3. Future'
    BY <1>6 DEF ReceiveResult, NextClient
  <2>4. ResultOnce'
    BY <1>6 DEF ReceiveResult, NextClient
  <2>5. OnlyCurrent'
    BY <1>6 DEF ReceiveResult, NextClient
  <2>6. ChannelInv'
    BY <1>6 DEF ReceiveResult, NextClient
  <2>7. QED
    BY <2>1, <2>2, <2>3, <2>4, <2>5, <2>6
<1>7. ASSUME NEW j \in Jobs, SendRequest(j) PROVE InOrder'
  <2>1. OneConnection'
    BY <1>7 DEF SendRequest
  <2>2. OnlyRefused'
    BY <1>7 DEF SendRequest
  <2>3. Future'
    BY <1>7 DEF SendRequest
  <2>4. ResultOnce'
    BY <1>7 DEF SendRequest
  <2>5. OnlyCurrent'
    BY <1>7 DEF SendRequest
  <2>6. ChannelInv'
    BY <1>7 DEF SendRequest
  <2>7. QED
    BY <2>1, <2>2, <2>3, <2>4, <2>5, <2>6
<1>8. ASSUME NEW j \in Jobs, Reply(j) PROVE InOrder'
  BY <1>8 DEF Reply
<1>9. ASSUME NEW j \in Jobs, RequestFails(j) PROVE InOrder'
  BY <1>9 DEF RequestFails, Alive, Conn
<1>10. ASSUME NEW j \in Jobs, RecordMulti(j) PROVE InOrder'
  <2>1. OneConnection'
    BY <1>10 DEF RecordMulti, AfterCall, NextClient
  <2>2. OnlyRefused'
    BY <1>10 DEF RecordMulti, AfterCall, NextClient
  <2>3. Future'
    BY <1>10 DEF RecordMulti, AfterCall, NextClient
  <2>4. ResultOnce'
    BY <1>10 DEF RecordMulti, AfterCall, NextClient
  <2>5. OnlyCurrent'
    BY <1>10 DEF RecordMulti, AfterCall, NextClient
  <2>6. ChannelInv'
    BY <1>10 DEF RecordMulti, AfterCall, NextClient
  <2>7. QED
    BY <2>1, <2>2, <2>3, <2>4, <2>5, <2>6
<1>11. ASSUME NEW j \in Jobs, RecordSingle(j) PROVE InOrder'
  BY <1>11 DEF RecordSingle
<1>12. ASSUME NEW j \in Jobs, AcceptRequest(j) PROVE InOrder'
  BY <1>12 DEF AcceptRequest
<1>13. ASSUME NEW j \in Jobs, RefuseRequest(j) PROVE InOrder'
  BY <1>13 DEF RefuseRequest
<1>14. ASSUME NEW j \in Jobs, RequestLost(j) PROVE InOrder'
  BY <1>14 DEF RequestLost
<1>15. ASSUME NEW j \in Jobs, LockRunCmd(j) PROVE InOrder'
  BY <1>15 DEF LockRunCmd
<1>16. ASSUME NEW j \in Jobs, StartCommand(j) PROVE InOrder'
  BY <1>16 DEF StartCommand
<1>17. ASSUME NEW j \in Jobs, StartFails(j) PROVE InOrder'
  BY <1>17 DEF StartFails
<1>18. ASSUME NEW j \in Jobs, StopObserving(j) PROVE InOrder'
  <2>1. OneConnection'
    BY <1>18 DEF StopObserving
  <2>2. OnlyRefused'
    BY <1>18 DEF StopObserving
  <2>3. Future'
    BY <1>18 DEF StopObserving
  <2>0. /\ exec[j] # "reported" /\ exec' = [exec EXCEPT ![j] = exec'[j]]
        /\ UNCHANGED <<results, sending>>
    BY <1>18 DEF StopObserving
  <2>0a. \A k \in Jobs : exec[k] = "reported" => exec'[k] = "reported"
    BY <2>0
  <2>4. ResultOnce'
    <3> HIDE DEF ResultOnce, TypeOK
    <3> QED
      BY <2>0, <2>0a, ResultFrame DEF CalmInv, InOrder
  <2>5. OnlyCurrent'
    BY <1>18 DEF StopObserving
  <2>6. ChannelInv'
    BY <1>18 DEF StopObserving
  <2>7. QED
    BY <2>1, <2>2, <2>3, <2>4, <2>5, <2>6
<1>19. ASSUME NEW j \in Jobs, SendResult(j) PROVE InOrder'
  <2>1. OneConnection'
    BY <1>19 DEF SendResult
  <2>2. OnlyRefused'
    BY <1>19 DEF SendResult
  <2>3. Future'
    BY <1>19 DEF SendResult
  <2>4. ResultOnce'
    BY <1>19 DEF SendResult
  <2>5. OnlyCurrent'
    BY <1>19 DEF SendResult
  <2>6. ChannelInv'
    BY <1>19 DEF SendResult
  <2>7. QED
    BY <2>1, <2>2, <2>3, <2>4, <2>5, <2>6
<1>20. ASSUME NEW j \in Jobs, ClientPanics(j) PROVE InOrder'
  <2>1. OneConnection'
    BY <1>20 DEF ClientPanics
  <2>2. OnlyRefused'
    BY <1>20 DEF ClientPanics
  <2>3. Future'
    BY <1>20 DEF ClientPanics
  <2>4. ResultOnce'
    BY <1>20 DEF ClientPanics
  <2>5. OnlyCurrent'
    BY <1>20 DEF ClientPanics
  <2>6. ChannelInv'
    BY <1>20 DEF ClientPanics
  <2>7. QED
    BY <2>1, <2>2, <2>3, <2>4, <2>5, <2>6
<1>21. ASSUME NEW j \in Jobs, SendOnClosed(j) PROVE InOrder'
  <2>1. OneConnection'
    BY <1>21 DEF SendOnClosed, ServerDies
  <2>2. OnlyRefused'
    BY <1>21 DEF SendOnClosed, ServerDies
  <2>3. Future'
    BY <1>21 DEF SendOnClosed, ServerDies
  <2>4. ResultOnce'
    BY <1>21 DEF SendOnClosed, ServerDies
  <2>5. OnlyCurrent'
    BY <1>21 DEF SendOnClosed, ServerDies
  <2>6. ChannelInv'
    BY <1>21 DEF SendOnClosed, ServerDies
  <2>7. QED
    BY <2>1, <2>2, <2>3, <2>4, <2>5, <2>6
<1>22. ASSUME NEW j \in Jobs, NEW status \in Status \ {"running"}, CommandEnds(j, status) PROVE InOrder'
  BY <1>22 DEF CommandEnds
<1>23. ASSUME NEW s \in Singles, StartSingle(s) PROVE InOrder'
  BY <1>23 DEF StartSingle
<1>24. ASSUME NEW r \in results, CmdResult(r) PROVE InOrder'
  <2>1. OneConnection'
    BY <1>24 DEF CmdResult, DoneChannel
  <2>2. OnlyRefused'
    BY <1>24 DEF CmdResult, DoneChannel
  <2>3. Future'
    BY <1>24 DEF CmdResult, DoneChannel
  <2>0. /\ results' = results \ {r} /\ UNCHANGED exec
        /\ sending' \subseteq sending \cup ({r.job} \cap Positions)
    BY <1>24 DEF CmdResult, DoneChannel
  <2>4. ResultOnce'
    BY <2>0
  <2>5. OnlyCurrent'
    BY <1>24 DEF CmdResult, DoneChannel
  <2>6. ChannelInv'
    <3>1. UNCHANGED <<pc, call, listed, closed, uiListed, panicked>> /\ (ui' = "open" => ui = "open")
      BY <1>24 DEF CmdResult, WriteToUI
    <3>2. ~listed => sending' = sending
      BY <1>24, QuietResult
    <3> HIDE DEF ChannelInv
    <3>3. QED
      BY <3>1, <3>2, ChannelFrame
  <2>7. QED
    BY <2>1, <2>2, <2>3, <2>4, <2>5, <2>6
<1>25. ASSUME NEW r \in results, ResultLost(r) PROVE InOrder'
  BY <1>25 DEF ResultLost
<1>26. ASSUME NEW c \in Clients, Break(c) PROVE InOrder'
  BY <1>26 DEF Break
<1>27. ASSUME NEW c \in Clients, Reconnect(c) PROVE InOrder'
  BY <1>27 DEF Reconnect
<1>28. CASE UserLeaves
  BY <1>28 DEF UserLeaves
<1>29. CASE Restart
  <2>1. OneConnection'
    BY <1>29 DEF Restart, ServerDies
  <2>2. OnlyRefused'
    BY <1>29 DEF Restart, ServerDies
  <2>3. Future'
    BY <1>29 DEF Restart, ServerDies
  <2>4. ResultOnce'
    BY <1>29 DEF Restart, ServerDies
  <2>5. OnlyCurrent'
    BY <1>29 DEF Restart, ServerDies
  <2>6. ChannelInv'
    BY <1>29 DEF Restart, ServerDies
  <2>7. QED
    BY <2>1, <2>2, <2>3, <2>4, <2>5, <2>6
<1>30. CASE UNCHANGED vars
  BY <1>30 DEF vars
<1>31. QED
  BY <1>1, <1>2, <1>3, <1>4, <1>5, <1>6, <1>7, <1>8, <1>9, <1>10, <1>11, <1>12, <1>13, <1>14, <1>15,
     <1>16, <1>17, <1>18, <1>19, <1>20, <1>21, <1>22, <1>23, <1>24, <1>25, <1>26, <1>27, <1>28,
     <1>29, <1>30
     DEF Next, Runner, Call, Execute

\* A write to the UI of a position that was not written yet keeps the count right, and the
\* socket is closed with the last one.
LEMMA WriteOnce ==
    ASSUME NEW j \in Positions, j \notin shown, shown \subseteq Positions,
           ui = "open" => writesLeft = N - Cardinality(shown),
           ui = "served" => Positions \subseteq shown,
           NEW close \in BOOLEAN, WriteToUI(j, close)
    PROVE  /\ shown' \subseteq shown \cup {j}
           /\ ui' = "open" => writesLeft' = N - Cardinality(shown')
           /\ ui' = "served" => Positions \subseteq shown'
<1>1. IsFiniteSet(Positions) /\ Cardinality(Positions) = N
  BY MultiJobAssumption, FS_Interval DEF Positions
<1>2. /\ IsFiniteSet(shown) /\ Cardinality(shown) \in Nat
      /\ Cardinality(shown \cup {j}) = Cardinality(shown) + 1
  BY <1>1, FS_Subset, FS_AddElement, FS_CardinalityType
<1>3. CASE ui = "open"
  <2>1. shown' = shown \cup {j} /\ writesLeft' = writesLeft - 1
    BY <1>3 DEF WriteToUI
  <2>2. writesLeft' = N - Cardinality(shown')
    BY <1>2, <1>3, <2>1, MultiJobAssumption
  <2>3. ASSUME ui' = "served" PROVE Positions \subseteq shown'
    <3>1. writesLeft = 1
      BY <1>3, <2>3 DEF WriteToUI
    <3>2. Cardinality(shown') = N
      BY <1>2, <1>3, <2>1, <3>1, MultiJobAssumption
    <3>3. shown' \subseteq Positions
      BY <2>1
    <3>4. QED
      BY <1>1, <3>2, <3>3, FS_Subset
  <2>4. QED
    BY <2>1, <2>2, <2>3
<1>4. CASE ui # "open"
  BY <1>4 DEF WriteToUI
<1>5. QED
  BY <1>3, <1>4

\* As long as no connection breaks, every step keeps ShownOnce.
LEMMA ShownStep ==
    ASSUME MaxBreaks = 0, CalmInv, [Next]_vars
    PROVE  ShownOnce'
<1> USE MultiJobAssumption
<1> USE DEF ServerUnchanged, SetExec, runner, executor, network, socket, faults, Results, Jobs, Positions,
            CalmInv, InOrder, TypeOK, OneConnection, OnlyRefused, Future, ResultOnce, OnlyCurrent,
            ChannelInv, InCall, Executing, ShownOnce
<1>1. CASE Dispatch
  BY <1>1 DEF Dispatch
<1>2. CASE LoopEnds
  BY <1>2 DEF LoopEnds
<1>3. CASE ReadReturns
  BY <1>3 DEF ReadReturns
<1>4. CASE CloseChannel
  BY <1>4 DEF CloseChannel
<1>5. CASE DelChannel
  BY <1>5 DEF DelChannel
<1>6. ASSUME NEW j \in Jobs, ReceiveResult(j) PROVE ShownOnce'
  BY <1>6 DEF ReceiveResult, NextClient
<1>7. ASSUME NEW j \in Jobs, SendRequest(j) PROVE ShownOnce'
  BY <1>7 DEF SendRequest
<1>8. ASSUME NEW j \in Jobs, Reply(j) PROVE ShownOnce'
  BY <1>8 DEF Reply
<1>9. ASSUME NEW j \in Jobs, RequestFails(j) PROVE ShownOnce'
  BY <1>9 DEF RequestFails, Alive, Conn
<1>10. ASSUME NEW j \in Jobs, RecordMulti(j) PROVE ShownOnce'
  <2>1. /\ j \in Positions /\ UNCHANGED <<exec, results>>
        /\ call' = [call EXCEPT ![j] = call'[j]] /\ call[j] \in {"ok", "err"}
        /\ call[j] = "err" => call'[j] = "failed"
    BY <1>10 DEF RecordMulti
  <2>2. CASE UNCHANGED <<ui, writesLeft, shown>>
    BY <2>1, <2>2
  <2>3. CASE call[j] = "err" /\ WriteToUI(j, AbortOnErr /\ ~Concurrent)
    <3>1. exec[j] = "rejected" /\ j \notin shown
      BY <2>1, <2>3
    <3>2. /\ shown' \subseteq shown \cup {j}
          /\ ui' = "open" => writesLeft' = N - Cardinality(shown')
          /\ ui' = "served" => Positions \subseteq shown'
      BY <2>1, <2>3, <3>1, WriteOnce
    <3>3. QED
      BY <2>1, <2>3, <3>1, <3>2
  <2>4. QED
    BY <1>10, <2>2, <2>3 DEF RecordMulti
<1>11. ASSUME NEW j \in Jobs, RecordSingle(j) PROVE ShownOnce'
  BY <1>11 DEF RecordSingle
<1>12. ASSUME NEW j \in Jobs, AcceptRequest(j) PROVE ShownOnce'
  BY <1>12 DEF AcceptRequest
<1>13. ASSUME NEW j \in Jobs, RefuseRequest(j) PROVE ShownOnce'
  BY <1>13 DEF RefuseRequest
<1>14. ASSUME NEW j \in Jobs, RequestLost(j) PROVE ShownOnce'
  BY <1>14 DEF RequestLost
<1>15. ASSUME NEW j \in Jobs, LockRunCmd(j) PROVE ShownOnce'
  BY <1>15 DEF LockRunCmd
<1>16. ASSUME NEW j \in Jobs, StartCommand(j) PROVE ShownOnce'
  BY <1>16 DEF StartCommand
<1>17. ASSUME NEW j \in Jobs, StartFails(j) PROVE ShownOnce'
  BY <1>17 DEF StartFails
<1>18. ASSUME NEW j \in Jobs, StopObserving(j) PROVE ShownOnce'
  BY <1>18 DEF StopObserving
<1>19. ASSUME NEW j \in Jobs, SendResult(j) PROVE ShownOnce'
  BY <1>19 DEF SendResult
<1>20. ASSUME NEW j \in Jobs, ClientPanics(j) PROVE ShownOnce'
  BY <1>20 DEF ClientPanics
<1>21. ASSUME NEW j \in Jobs, SendOnClosed(j) PROVE ShownOnce'
  BY <1>21 DEF SendOnClosed, ServerDies
<1>22. ASSUME NEW j \in Jobs, NEW status \in Status \ {"running"}, CommandEnds(j, status) PROVE ShownOnce'
  BY <1>22 DEF CommandEnds
<1>23. ASSUME NEW s \in Singles, StartSingle(s) PROVE ShownOnce'
  BY <1>23 DEF StartSingle
<1>24. ASSUME NEW r \in results, CmdResult(r) PROVE ShownOnce'
  <2>1. results' = results \ {r} /\ UNCHANGED <<exec, call>> /\ r.job \in Jobs
    BY <1>24 DEF CmdResult
  <2>2. CASE UNCHANGED <<ui, writesLeft, shown>>
    BY <2>1, <2>2
  <2>3. CASE r.job \in Positions /\ WriteToUI(r.job, FALSE)
    <3>1. exec[r.job] = "reported" /\ r.job \notin shown
      BY <2>1, <2>3
    <3>2. /\ shown' \subseteq shown \cup {r.job}
          /\ ui' = "open" => writesLeft' = N - Cardinality(shown')
          /\ ui' = "served" => Positions \subseteq shown'
      BY <2>3, <3>1, WriteOnce
    <3>3. \A q \in results' : q.job # r.job
      BY <2>1
    <3>4. QED
      BY <2>1, <2>3, <3>1, <3>2, <3>3
  <2>4. QED
    BY <1>24, <2>2, <2>3 DEF CmdResult
<1>25. ASSUME NEW r \in results, ResultLost(r) PROVE ShownOnce'
  BY <1>25 DEF ResultLost
<1>26. ASSUME NEW c \in Clients, Break(c) PROVE ShownOnce'
  BY <1>26 DEF Break
<1>27. ASSUME NEW c \in Clients, Reconnect(c) PROVE ShownOnce'
  BY <1>27 DEF Reconnect
<1>28. CASE UserLeaves
  BY <1>28 DEF UserLeaves
<1>29. CASE Restart
  BY <1>29 DEF Restart, ServerDies
<1>30. CASE UNCHANGED vars
  BY <1>30 DEF vars
<1>31. QED
  BY <1>1, <1>2, <1>3, <1>4, <1>5, <1>6, <1>7, <1>8, <1>9, <1>10, <1>11, <1>12, <1>13, <1>14, <1>15,
     <1>16, <1>17, <1>18, <1>19, <1>20, <1>21, <1>22, <1>23, <1>24, <1>25, <1>26, <1>27, <1>28,
     <1>29, <1>30
     DEF Next, Runner, Call, Execute

\* The PID the client keeps names the command that is being executed, for every number of
\* commands and clients, under broken connections, client crashes and restarts: unsetting it at
\* the end of one command never hides the next (HandleRunCmdRequest, runCmdMutex).
THEOREM PidOfRunning == Spec => []RunningHasPid
<1>1. Init => ExecInv
  BY InitType DEF ExecInv, Init, PidInv, OutcomeInv, Locked, Observed, Ended
<1>2. ExecInv /\ [Next]_vars => ExecInv'
  BY ExecStep, TypeStep DEF ExecInv
<1>3. ExecInv => RunningHasPid
  BY DEF ExecInv, PidInv, RunningHasPid, Observed
<1>4. QED
  BY <1>1, <1>2, <1>3, PTL DEF Spec

\* The status of a finished job never goes back to running, and a result that was saved is
\* never replaced, also when it overtakes the CreateJob of its own job (SaveJob, CreateJob).
THEOREM ResultsAreFinal == Spec => ResultIsFinal
<1> DEFINE Keeps == \A j \in Jobs :
               /\ Finished(db[j]) => Finished(db'[j])
               /\ exec[j] = "reported" /\ db[j] = outcome[j] => db'[j] = outcome[j]
<1>1. Init => ExecInv
  BY InitType DEF ExecInv, Init, PidInv, OutcomeInv, Locked, Observed, Ended
<1>2. ExecInv /\ [Next]_vars => ExecInv'
  BY ExecStep, TypeStep DEF ExecInv
<1>3. ASSUME ExecInv, Next PROVE Keeps
  <2> USE DEF ExecInv, TypeOK, OutcomeInv, Ended, Finished, Results
  <2>1. ASSUME NEW j \in Jobs, RecordMulti(j) \/ RecordSingle(j) PROVE Keeps
    <3>1. \A k \in Jobs : db[k] # None => db'[k] = db[k]
      BY <1>3, <2>1 DEF RecordMulti, RecordSingle, CreateJob
    <3>2. QED
      BY <1>3, <3>1
  <2>2. ASSUME NEW r \in results, CmdResult(r) PROVE Keeps
    <3>1. \A k \in Jobs : db'[k] = db[k] \/ (k = r.job /\ db'[k] = outcome[k])
      BY <1>3, <2>2 DEF CmdResult
    <3>2. QED
      BY <1>3, <3>1
  <2>3. \/ UNCHANGED db
        \/ \E j \in Jobs : RecordMulti(j) \/ RecordSingle(j)
        \/ \E r \in results : CmdResult(r)
    <3> USE DEF ServerUnchanged
    <3>1. Runner => UNCHANGED db
      BY DEF Runner, Dispatch, LoopEnds, ReadReturns, CloseChannel, DelChannel, ReceiveResult
    <3>2. \A j \in Jobs : SendRequest(j) \/ Reply(j) \/ RequestFails(j) \/ SendOnClosed(j) => UNCHANGED db
      BY DEF SendRequest, Reply, RequestFails, SendOnClosed, ServerDies
    <3>3. \A j \in Jobs : Execute(j) => UNCHANGED db
      BY DEF Execute, AcceptRequest, RefuseRequest, RequestLost, LockRunCmd, StartCommand, StartFails,
             StopObserving, SendResult, ClientPanics, CommandEnds
    <3>4. \A s \in Singles : StartSingle(s) => UNCHANGED db
      BY DEF StartSingle
    <3>5. \A r \in results : ResultLost(r) => UNCHANGED db
      BY DEF ResultLost
    <3>6. \A c \in Clients : Break(c) \/ Reconnect(c) => UNCHANGED db
      BY DEF Break, Reconnect
    <3>7. UserLeaves \/ Restart => UNCHANGED db
      BY DEF UserLeaves, Restart, ServerDies
    <3>8. QED
      BY <1>3, <3>1, <3>2, <3>3, <3>4, <3>5, <3>6, <3>7 DEF Next, Call
  <2>4. QED
    BY <2>1, <2>2, <2>3
<1>4. ExecInv /\ [Next]_vars => [Keeps]_vars
  BY <1>3
<1>5. QED
  BY <1>1, <1>2, <1>4, PTL DEF Spec, ResultIsFinal

-----------------------------------------------------------------------------
(***************************************************************************)
(* The channel of the runner, with every fault.  Until a result comes for  *)
(* a command whose request had failed, the only result on its way to the   *)
(* runner is that of position cur, while the loop is busy with it (Busy),  *)
(* and there is just one; every other position was not asked yet, could    *)
(* not be asked, or its result was taken (Settled).                        *)
(***************************************************************************)
Busy(k) == k = cur /\ pc \in {"call", "wait"}

Untold(k) == exec[k] = "reported" /\ k \notin sending /\ \A r \in results : r.job # k

Settled(k) ==
    \/ call[k] = "none"
    \/ call[k] = "failed"
    \/ call[k] = "created" /\ Untold(k)

InTurn ==
    /\ \A k \in Positions : Busy(k) \/ Settled(k)
    /\ \A k \in sending : Busy(k) /\ exec[k] = "reported" /\ \A r \in results : r.job # k

Reported ==
    /\ Future
    /\ \A r \in results : exec[r.job] = "reported"
    /\ \A r1, r2 \in results : r1.job = r2.job => r1 = r2

ClosedInv ==
    /\ closed => pc \in {"closed", "done", "dead"}
    /\ Concurrent \/ pc = "dead" => ~listed /\ sending = {}
    /\ ~Concurrent => \A k \in Positions : call[k] \in InCall => k = cur /\ pc = "call"
    /\ pc = "wait" => \A k \in Positions : k = cur => call[k] = "created"
    /\ ~Late => ~panicked
    /\ ~Late /\ ~Concurrent /\ pc # "dead" => InTurn

LateInv == TypeOK /\ Reported /\ ClosedInv

\* Every step keeps the results of the jobs apart: one for each, of a command that was reported.
LEMMA ReportedStep ==
    ASSUME LateInv, [Next]_vars
    PROVE  Reported'
<1> USE MultiJobAssumption
<1> USE DEF ServerUnchanged, SetExec, runner, executor, network, socket, faults, Results, Jobs, Positions,
            LateInv, TypeOK, Reported, Future
<1>1. CASE Dispatch
  BY <1>1 DEF Dispatch
<1>2. CASE LoopEnds
  BY <1>2 DEF LoopEnds
<1>3. CASE ReadReturns
  BY <1>3 DEF ReadReturns
<1>4. CASE CloseChannel
  BY <1>4 DEF CloseChannel
<1>5. CASE DelChannel
  BY <1>5 DEF DelChannel
<1>6. ASSUME NEW j \in Jobs, ReceiveResult(j) PROVE Reported'
  BY <1>6 DEF ReceiveResult, NextClient
<1>7. ASSUME NEW j \in Jobs, SendRequest(j) PROVE Reported'
  BY <1>7 DEF SendRequest
<1>8. ASSUME NEW j \in Jobs, Reply(j) PROVE Reported'
  BY <1>8 DEF Reply
<1>9. ASSUME NEW j \in Jobs, RequestFails(j) PROVE Reported'
  BY <1>9 DEF RequestFails
<1>10. ASSUME NEW j \in Jobs, RecordMulti(j) PROVE Reported'
  BY <1>10 DEF RecordMulti, AfterCall, NextClient
<1>11. ASSUME NEW j \in Jobs, RecordSingle(j) PROVE Reported'
  BY <1>11 DEF RecordSingle
<1>12. ASSUME NEW j \in Jobs, AcceptRequest(j) PROVE Reported'
  BY <1>12 DEF AcceptRequest
<1>13. ASSUME NEW j \in Jobs, RefuseRequest(j) PROVE Reported'
  BY <1>13 DEF RefuseRequest
<1>14. ASSUME NEW j \in Jobs, RequestLost(j) PROVE Reported'
  BY <1>14 DEF RequestLost
<1>15. ASSUME NEW j \in Jobs, LockRunCmd(j) PROVE Reported'
  BY <1>15 DEF LockRunCmd
<1>16. ASSUME NEW j \in Jobs, StartCommand(j) PROVE Reported'
  BY <1>16 DEF StartCommand
<1>17. ASSUME NEW j \in Jobs, StartFails(j) PROVE Reported'
  BY <1>17 DEF StartFails
<1>18. ASSUME NEW j \in Jobs, StopObserving(j) PROVE Reported'
  <2>1. \A k \in Jobs : exec'[k] = "reported" <=> exec[k] = "reported"
    BY <1>18 DEF StopObserving
  <2>2. \A k \in Jobs : exec'[k] = "none" <=> exec[k] = "none"
    BY <1>18 DEF StopObserving
  <2>3. UNCHANGED <<results, call, pc, cur>>
    BY <1>18 DEF StopObserving
  <2>4. Future'
    BY <2>2, <2>3
  <2>5. \A r \in results' : r \in results /\ r.job \in Jobs
    BY <2>3
  <2>6. (\A r \in results : exec[r.job] = "reported")'
    BY <2>1, <2>5
  <2>7. QED
    BY <2>3, <2>4, <2>6
<1>19. ASSUME NEW j \in Jobs, SendResult(j) PROVE Reported'
  BY <1>19 DEF SendResult
<1>20. ASSUME NEW j \in Jobs, ClientPanics(j) PROVE Reported'
  BY <1>20 DEF ClientPanics
<1>21. ASSUME NEW j \in Jobs, SendOnClosed(j) PROVE Reported'
  BY <1>21 DEF SendOnClosed, ServerDies
<1>22. ASSUME NEW j \in Jobs, NEW status \in Status \ {"running"}, CommandEnds(j, status)
       PROVE  Reported'
  BY <1>22 DEF CommandEnds
<1>23. ASSUME NEW s \in Singles, StartSingle(s) PROVE Reported'
  BY <1>23 DEF StartSingle
<1>24. ASSUME NEW r \in results, CmdResult(r) PROVE Reported'
  BY <1>24 DEF CmdResult, DoneChannel
<1>25. ASSUME NEW r \in results, ResultLost(r) PROVE Reported'
  BY <1>25 DEF ResultLost
<1>26. ASSUME NEW c \in Clients, Break(c) PROVE Reported'
  BY <1>26 DEF Break
<1>27. ASSUME NEW c \in Clients, Reconnect(c) PROVE Reported'
  BY <1>27 DEF Reconnect
<1>28. CASE UserLeaves
  BY <1>28 DEF UserLeaves
<1>29. CASE Restart
  BY <1>29 DEF Restart, ServerDies
<1>30. CASE UNCHANGED vars
  BY <1>30 DEF vars
<1>31. QED
  BY <1>1, <1>2, <1>3, <1>4, <1>5, <1>6, <1>7, <1>8, <1>9, <1>10, <1>11, <1>12, <1>13, <1>14, <1>15, <1>16, <1>17, <1>18, <1>19, <1>20, <1>21, <1>22, <1>23, <1>24, <1>25, <1>26, <1>27, <1>28, <1>29, <1>30
     DEF Next, Runner, Call, Execute

\* A command reported after its request failed stays that way.
LEMMA LateStays ==
    ASSUME LateInv, Late, [Next]_vars
    PROVE  Late'
<1> USE MultiJobAssumption
<1> USE DEF ServerUnchanged, SetExec, runner, executor, network, socket, faults, Jobs, Positions,
            TypeOK, Late, LateInv, Reported, Future
<1>1. CASE Dispatch
  BY <1>1 DEF Dispatch
<1>2. CASE LoopEnds
  BY <1>2 DEF LoopEnds
<1>3. CASE ReadReturns
  BY <1>3 DEF ReadReturns
<1>4. CASE CloseChannel
  BY <1>4 DEF CloseChannel
<1>5. CASE DelChannel
  BY <1>5 DEF DelChannel
<1>6. ASSUME NEW j \in Jobs, ReceiveResult(j) PROVE Late'
  BY <1>6 DEF ReceiveResult, NextClient
<1>7. ASSUME NEW j \in Jobs, SendRequest(j) PROVE Late'
  BY <1>7 DEF SendRequest
<1>8. ASSUME NEW j \in Jobs, Reply(j) PROVE Late'
  BY <1>8 DEF Reply
<1>9. ASSUME NEW j \in Jobs, RequestFails(j) PROVE Late'
  BY <1>9 DEF RequestFails
<1>10. ASSUME NEW j \in Jobs, RecordMulti(j) PROVE Late'
  BY <1>10 DEF RecordMulti, AfterCall, NextClient
<1>11. ASSUME NEW j \in Jobs, RecordSingle(j) PROVE Late'
  BY <1>11 DEF RecordSingle
<1>12. ASSUME NEW j \in Jobs, AcceptRequest(j) PROVE Late'
  BY <1>12 DEF AcceptRequest
<1>13. ASSUME NEW j \in Jobs, RefuseRequest(j) PROVE Late'
  BY <1>13 DEF RefuseRequest
<1>14. ASSUME NEW j \in Jobs, RequestLost(j) PROVE Late'
  BY <1>14 DEF RequestLost
<1>15. ASSUME NEW j \in Jobs, LockRunCmd(j) PROVE Late'
  BY <1>15 DEF LockRunCmd
<1>16. ASSUME NEW j \in Jobs, StartCommand(j) PROVE Late'
  BY <1>16 DEF StartCommand
<1>17. ASSUME NEW j \in Jobs, StartFails(j) PROVE Late'
  BY <1>17 DEF StartFails
<1>18. ASSUME NEW j \in Jobs, StopObserving(j) PROVE Late'
  BY <1>18 DEF StopObserving
<1>19. ASSUME NEW j \in Jobs, SendResult(j) PROVE Late'
  BY <1>19 DEF SendResult
<1>20. ASSUME NEW j \in Jobs, ClientPanics(j) PROVE Late'
  BY <1>20 DEF ClientPanics
<1>21. ASSUME NEW j \in Jobs, SendOnClosed(j) PROVE Late'
  BY <1>21 DEF SendOnClosed, ServerDies
<1>22. ASSUME NEW j \in Jobs, NEW status \in Status \ {"running"}, CommandEnds(j, status)
       PROVE  Late'
  BY <1>22 DEF CommandEnds
<1>23. ASSUME NEW s \in Singles, StartSingle(s) PROVE Late'
  BY <1>23 DEF StartSingle
<1>24. ASSUME NEW r \in results, CmdResult(r) PROVE Late'
  BY <1>24 DEF CmdResult, DoneChannel
<1>25. ASSUME NEW r \in results, ResultLost(r) PROVE Late'
  BY <1>25 DEF ResultLost
<1>26. ASSUME NEW c \in Clients, Break(c) PROVE Late'
  BY <1>26 DEF Break
<1>27. ASSUME NEW c \in Clients, Reconnect(c) PROVE Late'
  BY <1>27 DEF Reconnect
<1>28. CASE UserLeaves
  BY <1>28 DEF UserLeaves
<1>29. CASE Restart
  BY <1>29 DEF Restart, ServerDies
<1>30. CASE UNCHANGED vars
  BY <1>30 DEF vars
<1>31. QED
  BY <1>1, <1>2, <1>3, <1>4, <1>5, <1>6, <1>7, <1>8, <1>9, <1>10, <1>11, <1>12, <1>13, <1>14, <1>15, <1>16, <1>17, <1>18, <1>19, <1>20, <1>21, <1>22, <1>23, <1>24, <1>25, <1>26, <1>27, <1>28, <1>29, <1>30
     DEF Next, Runner, Call, Execute

\* Every step keeps ClosedInv.
LEMMA ClosedStep ==
    ASSUME LateInv, [Next]_vars
    PROVE  ClosedInv'
<1> USE MultiJobAssumption, LateStays
<1> USE DEF ServerUnchanged, SetExec, runner, executor, network, socket, faults, Results, Jobs, Positions,
            LateInv, TypeOK, Reported, Future, ClosedInv, InCall, InTurn, Busy, Untold, Settled, Late
<1>1. CASE Dispatch
  BY <1>1 DEF Dispatch
<1>2. CASE LoopEnds
  BY <1>2 DEF LoopEnds
<1>3. CASE ReadReturns
  BY <1>3 DEF ReadReturns
<1>4. CASE CloseChannel
  BY <1>4 DEF CloseChannel
<1>5. CASE DelChannel
  BY <1>5 DEF DelChannel
<1>6. ASSUME NEW j \in Jobs, ReceiveResult(j) PROVE ClosedInv'
  BY <1>6 DEF ReceiveResult, NextClient
<1>7. ASSUME NEW j \in Jobs, SendRequest(j) PROVE ClosedInv'
  BY <1>7 DEF SendRequest
<1>8. ASSUME NEW j \in Jobs, Reply(j) PROVE ClosedInv'
  BY <1>8 DEF Reply
<1>9. ASSUME NEW j \in Jobs, RequestFails(j) PROVE ClosedInv'
  BY <1>9 DEF RequestFails
<1>10. ASSUME NEW j \in Jobs, RecordMulti(j) PROVE ClosedInv'
  <2> USE <1>10 DEF RecordMulti, AfterCall, NextClient
  <2>1. UNCHANGED <<exec, results, sending, listed, closed, panicked>>
    OBVIOUS
  <2>2. CASE Concurrent
    <3>1. UNCHANGED <<pc, cur>>
      BY <2>2
    <3>2. QED
      BY <2>1, <2>2, <3>1
  <2>3. CASE ~Concurrent
    <3>1. j = cur /\ pc = "call"
      BY <2>3
    <3>2. QED
      BY <2>1, <2>3, <3>1
  <2>4. QED
    BY <2>2, <2>3
<1>11. ASSUME NEW j \in Jobs, RecordSingle(j) PROVE ClosedInv'
  BY <1>11 DEF RecordSingle
<1>12. ASSUME NEW j \in Jobs, AcceptRequest(j) PROVE ClosedInv'
  BY <1>12 DEF AcceptRequest
<1>13. ASSUME NEW j \in Jobs, RefuseRequest(j) PROVE ClosedInv'
  BY <1>13 DEF RefuseRequest
<1>14. ASSUME NEW j \in Jobs, RequestLost(j) PROVE ClosedInv'
  BY <1>14 DEF RequestLost
<1>15. ASSUME NEW j \in Jobs, LockRunCmd(j) PROVE ClosedInv'
  BY <1>15 DEF LockRunCmd
<1>16. ASSUME NEW j \in Jobs, StartCommand(j) PROVE ClosedInv'
  BY <1>16 DEF StartCommand
<1>17. ASSUME NEW j \in Jobs, StartFails(j) PROVE ClosedInv'
  BY <1>17 DEF StartFails
<1>18. ASSUME NEW j \in Jobs, StopObserving(j) PROVE ClosedInv'
  BY <1>18 DEF StopObserving
<1>19. ASSUME NEW j \in Jobs, SendResult(j) PROVE ClosedInv'
  BY <1>19 DEF SendResult
<1>20. ASSUME NEW j \in Jobs, ClientPanics(j) PROVE ClosedInv'
  BY <1>20 DEF ClientPanics
<1>21. ASSUME NEW j \in Jobs, SendOnClosed(j) PROVE ClosedInv'
  BY <1>21 DEF SendOnClosed, ServerDies
<1>22. ASSUME NEW j \in Jobs, NEW status \in Status \ {"running"}, CommandEnds(j, status)
       PROVE  ClosedInv'
  BY <1>22 DEF CommandEnds
<1>23. ASSUME NEW s \in Singles, StartSingle(s) PROVE ClosedInv'
  BY <1>23 DEF StartSingle
<1>24. ASSUME NEW r \in results, CmdResult(r) PROVE ClosedInv'
  <2>1. UNCHANGED <<pc, cur, call, exec, listed, closed, panicked>> /\ results' = results \ {r}
    BY <1>24 DEF CmdResult
  <2>2. sending' = sending \/ (sending' = sending \cup {r.job} /\ r.job \in Positions /\ listed)
    <3>1. sending' = sending \/ sending' = sending \cup DoneChannel(r.job)
      BY <1>24 DEF CmdResult
    <3>2. CASE r.job \in Positions /\ listed
      BY <3>1, <3>2 DEF DoneChannel
    <3>3. CASE ~(r.job \in Positions /\ listed)
      <4>1. DoneChannel(r.job) = {}
        BY <3>3, Zenon DEF DoneChannel
      <4>2. QED
        BY <3>1, <4>1
    <3>4. QED
      BY <3>2, <3>3
  <2>3. CASE sending' = sending
    BY <2>1, <2>3
  <2>4. CASE sending' = sending \cup {r.job} /\ r.job \in Positions /\ listed
    <3>1. pc # "dead" /\ ~Concurrent /\ r \in results /\ exec[r.job] = "reported"
      BY <1>24, <2>4
    <3>2. ~Late => Busy(r.job)
      BY <3>1, <2>4
    <3>3. \A q \in results' : q.job # r.job
      BY <2>1, <3>1
    <3>4. QED
      BY <2>1, <2>4, <3>1, <3>2, <3>3
  <2>5. QED
    BY <2>2, <2>3, <2>4
<1>25. ASSUME NEW r \in results, ResultLost(r) PROVE ClosedInv'
  BY <1>25 DEF ResultLost
<1>26. ASSUME NEW c \in Clients, Break(c) PROVE ClosedInv'
  BY <1>26 DEF Break
<1>27. ASSUME NEW c \in Clients, Reconnect(c) PROVE ClosedInv'
  BY <1>27 DEF Reconnect
<1>28. CASE UserLeaves
  BY <1>28 DEF UserLeaves
<1>29. CASE Restart
  BY <1>29 DEF Restart, ServerDies
<1>30. CASE UNCHANGED vars
  BY <1>30 DEF vars
<1>31. QED
  BY <1>1, <1>2, <1>3, <1>4, <1>5, <1>6, <1>7, <1>8, <1>9, <1>10, <1>11, <1>12, <1>13, <1>14, <1>15, <1>16, <1>17, <1>18, <1>19, <1>20, <1>21, <1>22, <1>23, <1>24, <1>25, <1>26, <1>27, <1>28, <1>29, <1>30
     DEF Next, Runner, Call, Execute

\* Under every fault, for every number of clients, sequential or concurrent, with or without
\* abort_on_error: the server dies of a send on the closed channel only after a client executed
\* a command whose request had failed on the server (createAndRunJob, saveCmdResult).
THEOREM PanicOnlyWhenLate == Spec => []OnlyLateResultsPanic
<1>1. Init => LateInv
  <2> SUFFICES ASSUME Init PROVE LateInv
    OBVIOUS
  <2>1. TypeOK
    BY InitType
  <2>2. Reported
    BY MultiJobAssumption DEF Init, Reported, Future, Positions, Jobs
  <2>3. ClosedInv
    BY MultiJobAssumption DEF Init, ClosedInv, InCall, InTurn, Busy, Settled, Positions, Jobs
  <2>4. QED
    BY <2>1, <2>2, <2>3 DEF LateInv
<1>2. LateInv /\ [Next]_vars => LateInv'
  BY TypeStep, ReportedStep, ClosedStep DEF LateInv
<1>3. LateInv => OnlyLateResultsPanic
  BY DEF LateInv, ClosedInv, OnlyLateResultsPanic
<1>4. QED
  BY <1>1, <1>2, <1>3, PTL DEF Spec

\* What holds of a multi-client job as long as no connection breaks.
LEMMA CalmInvariant ==
    ASSUME MaxBreaks = 0
    PROVE  Spec => []CalmInv
<1>1. Init => CalmInv
  <2> SUFFICES ASSUME Init PROVE CalmInv
    OBVIOUS
  <2>1. TypeOK
    BY InitType
  <2>2. OneConnection /\ OnlyRefused /\ Future /\ ResultOnce
    BY MultiJobAssumption DEF Init, OneConnection, OnlyRefused, Future, ResultOnce, Positions, Jobs
  <2>3. OnlyCurrent /\ ChannelInv
    BY MultiJobAssumption
       DEF Init, OnlyCurrent, ChannelInv, Active, InCall, Executing, Positions, Jobs
  <2>4. ShownOnce
    BY MultiJobAssumption, FS_EmptySet DEF Init, ShownOnce
  <2>5. QED
    BY <2>1, <2>2, <2>3, <2>4 DEF CalmInv, InOrder
<1>2. CalmInv /\ [Next]_vars => CalmInv'
  BY CalmStep, ShownStep, TypeStep DEF CalmInv
<1>3. QED
  BY <1>1, <1>2, PTL DEF Spec

\* As long as no connection breaks, the web socket that is closed because its writes are done
\* has shown the final state of every client of the job (SetWritesBeforeClose, dec).
THEOREM AllShownWhenServed ==
    ASSUME MaxBreaks = 0
    PROVE  Spec => []ServedAfterAll
<1>1. CalmInv => ServedAfterAll
  BY DEF CalmInv, ShownOnce, ServedAfterAll
<1>2. QED
  BY <1>1, CalmInvariant, PTL

\* As long as no connection breaks, the commands of a sequential job never overlap, whatever
\* abort_on_error says.
THEOREM CalmCommandsDoNotOverlap ==
    ASSUME MaxBreaks = 0
    PROVE  Spec => []Sequential
<1>1. CalmInv => Sequential
  BY DEF CalmInv, InOrder, OnlyCurrent, Active, Executing, Sequential
<1>2. QED
  BY <1>1, CalmInvariant, PTL
=============================================================================
