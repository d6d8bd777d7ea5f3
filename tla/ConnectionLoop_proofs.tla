----------------------- MODULE ConnectionLoop_proofs -----------------------
(***************************************************************************)
(* Proofs about ConnectionLoop, for every retry limit, every number of     *)
(* switchback goroutines and any number of faults.                         *)
(***************************************************************************)
EXTENDS ConnectionLoop, TLAPS

Limited == MaxRetryCount >= 0

\* How the attempts since the client was last served follow the counter of the backoff: a loss
\* with an error is retried after a backoff, one without an error is not, so the two differ by one.
RetryInv ==
    /\ attempt \in Nat /\ tries \in Nat
    /\ Limited => attempt <= MaxRetryCount
    /\ connerr \in BOOLEAN /\ running \in BOOLEAN
    /\ pc \in {"top", "select", "dialMain", "dialFallback", "request", "served", "stopped", "dead"}
    /\ pc = "top" /\ ~connerr => tries = 0 /\ attempt = 0
    /\ pc = "top" /\ connerr => tries = attempt \/ tries = attempt + 1
    /\ pc = "select" => tries = attempt \/ tries = attempt - 1
    /\ pc \in {"dialMain", "dialFallback", "request"} => tries = attempt \/ tries = attempt + 1
    /\ pc = "served" => tries = 0 /\ attempt = 0
    /\ pc \in {"stopped", "dead"} => tries <= attempt + 1
    /\ pc = "stopped" /\ running => Limited /\ attempt >= MaxRetryCount /\ tries >= attempt

\* The variables RetryInv is about, and what the goroutines leave alone.
retryVars == <<pc, connerr, attempt, tries, running>>

\* RetryInv with unlimited retries: nothing is counted.
LimitedRetryInv == Limited => RetryInv
-----------------------------------------------------------------------------
LEMMA RetryInit == Init => LimitedRetryInv
<1> SUFFICES ASSUME Init, Limited PROVE RetryInv
  BY DEF LimitedRetryInv
<1>1. pc = "top" /\ ~connerr /\ attempt = 0 /\ tries = 0
  BY DEF Init
<1>2. connerr \in BOOLEAN /\ running \in BOOLEAN
  BY DEF Init
<1>3. QED
  BY <1>1, <1>2, ConnectionLoopAssumption DEF RetryInv, Limited

\* Every step keeps the relation between attempts and the counter.
LEMMA RetryStep == ASSUME Limited, RetryInv, [Next]_vars PROVE RetryInv'
<1> USE ConnectionLoopAssumption DEF Limited
<1>0. ASSUME UNCHANGED retryVars PROVE RetryInv'
  BY <1>0 DEF retryVars, RetryInv
<1>1. CASE Stop
  BY <1>1 DEF Stop, GivesUp, RetryInv
<1>2. CASE Backoff
  <2>1. /\ pc = "top" /\ connerr /\ attempt < MaxRetryCount
        /\ pc' = "select" /\ ~connerr' /\ attempt' = attempt + 1
        /\ UNCHANGED <<tries, running>>
    BY <1>2 DEF Backoff, GivesUp, Count, RetryInv
  <2>2. connerr' \in BOOLEAN /\ running' \in BOOLEAN
    BY <1>2 DEF Backoff, RetryInv
  <2>3. QED
    BY <2>1, <2>2 DEF RetryInv
<1>3. CASE NoBackoff
  BY <1>3 DEF NoBackoff, RetryInv
<1>4. CASE TakeSwitchback \/ Connect
  BY <1>4 DEF TakeSwitchback, Connect, Count, RetryInv
<1>5. CASE DialMain
  BY <1>5 DEF DialMain, RetryInv
<1>6. CASE DialFallback
  <2>1. /\ UNCHANGED <<attempt, tries, running>>
        /\ pc = "dialFallback"
        /\ \/ pc' = "request" /\ connerr' = connerr
           \/ pc' = "top" /\ connerr' = TRUE
    BY <1>6 DEF DialFallback
  <2>2. QED
    BY <2>1 DEF RetryInv
<1>7. CASE RequestAccepted
  BY <1>7 DEF RequestAccepted, RetryInv
<1>8. CASE RequestFails
  <2>1. pc = "request" /\ pc' = "top" /\ connerr' = TRUE /\ UNCHANGED <<attempt, tries, running>>
    BY <1>8 DEF RequestFails, EndIteration
  <2>2. QED
    BY <2>1 DEF RetryInv
<1>9. CASE Disconnected
  <2>1. pc = "served" /\ pc' = "top" /\ connerr' \in BOOLEAN /\ UNCHANGED <<attempt, tries, running>>
    BY <1>9 DEF Disconnected, EndIteration
  <2>2. QED
    BY <2>1 DEF RetryInv
<1>10. CASE Close
  <2>1. running' = FALSE /\ UNCHANGED <<pc, connerr, attempt, tries>>
    BY <1>10 DEF Close
  <2>2. QED
    BY <2>1 DEF RetryInv
<1>11. CASE KeepAlivePanics
  <2>1. pc # "stopped" /\ pc' = "dead" /\ UNCHANGED <<connerr, attempt, tries, running>>
    BY <1>11 DEF KeepAlivePanics
  <2>2. QED
    BY <2>1 DEF RetryInv
<1>12. ASSUME NEW w \in Watchers, Switchback(w) PROVE RetryInv'
  <2>1. UNCHANGED retryVars
    BY <1>12 DEF Switchback, SwitchbackFires, SwitchbackDone, SwitchbackDials, SwitchbackSends,
                 SwitchbackCloses, loop, retryVars
  <2>2. QED
    BY <2>1, <1>0
<1>13. CASE KeepAliveChecks \/ KeepAlivePings \/ RefreshStatus \/ SendUpdates \/ Break
            \/ ServerTimesOut \/ (\E s \in Servers : ServerUp(s) \/ ServerDown(s)) \/ UNCHANGED vars
  <2>1. UNCHANGED retryVars
    BY <1>13 DEF KeepAliveChecks, KeepAlivePings, RefreshStatus, SendUpdates, Break,
                 ServerTimesOut, ServerUp, ServerDown, loop, vars, retryVars
  <2>2. QED
    BY <2>1, <1>0
<1>14. QED
  BY <1>1, <1>2, <1>3, <1>4, <1>5, <1>6, <1>7, <1>8, <1>9, <1>10, <1>11, <1>12, <1>13
     DEF Next, Loop

\* The client does not exit before it has retried max_retry_count times since it was last served,
\* and does not try more than once beyond that.
THEOREM RetryLimitKept == Spec => []RetriesBounded
<1>1. LimitedRetryInv /\ [Next]_vars => LimitedRetryInv'
  BY RetryStep DEF LimitedRetryInv, Limited
<1>2. LimitedRetryInv => RetriesBounded
  <2> SUFFICES ASSUME Limited, RetryInv
               PROVE  /\ tries <= MaxRetryCount + 1
                      /\ pc = "stopped" /\ running => tries >= MaxRetryCount
    BY DEF LimitedRetryInv, Limited, RetriesBounded
  <2>1. QED
    BY ConnectionLoopAssumption DEF RetryInv, Limited
<1>3. QED
  BY RetryInit, <1>1, <1>2, PTL DEF Spec
-----------------------------------------------------------------------------
\* While an iteration has a switchback goroutine its connection is one to the fallback server,
\* and every other goroutine has been cancelled.
WatcherInv ==
    /\ watch \in [Watchers -> {"free", "waiting", "dialing", "sending", "closing"}]
    /\ watcher \in Watchers \cup {None}
    /\ pc \in {"dialMain", "dialFallback", "select", "top"} => watcher = None
    /\ watcher # None => conn # None /\ conn.server = "fallback" /\ conn \in Connections
    /\ conn \in Connections \cup {None}
    /\ pc \in {"request", "served"} => conn # None
    /\ sshConn => pc = "served"
    /\ OneSwitchback

LEMMA WatcherInit == Init => WatcherInv
  BY DEF Init, WatcherInv, OneSwitchback

\* Every step keeps it.
LEMMA WatcherStep == ASSUME WatcherInv, [Next]_vars PROVE WatcherInv'
<1> USE ConnectionLoopAssumption DEF WatcherInv, OneSwitchback
<1>1. CASE Stop \/ Backoff \/ NoBackoff \/ Connect \/ RequestAccepted
  BY <1>1 DEF Stop, Backoff, NoBackoff, Connect, RequestAccepted, switchback
<1>2. CASE TakeSwitchback
  <2>1. [server |-> "main", alive |-> chan = "live"] \in Connections
    BY DEF Connections, Servers
  <2>2. /\ watcher = None /\ ~sshConn /\ UNCHANGED <<watch, watcher, cancelled, sshConn>>
        /\ pc' = "request" /\ conn' = [server |-> "main", alive |-> chan = "live"]
    BY <1>2 DEF TakeSwitchback
  <2>3. QED
    BY <2>1, <2>2
<1>3. CASE DialMain
  <2>1. [server |-> "main", alive |-> TRUE] \in Connections
    BY DEF Connections, Servers
  <2>2. \/ pc' = "request" /\ conn' = [server |-> "main", alive |-> TRUE]
        \/ pc' = "dialFallback" /\ conn' = None
    BY <1>3 DEF DialMain, Dial
  <2>3. watcher = None /\ ~sshConn /\ UNCHANGED <<watch, watcher, cancelled, sshConn>>
    BY <1>3 DEF DialMain, switchback
  <2>4. QED
    BY <2>1, <2>2, <2>3
<1>4. CASE DialFallback
  <2>1. pc = "dialFallback" /\ watcher = None /\ ~sshConn /\ UNCHANGED sshConn
    BY <1>4 DEF DialFallback
  <2>2. CASE "fallback" \in up
    <3>1. PICK w \in Watchers :
            /\ watch[w] = "free"
            /\ watch' = [watch EXCEPT ![w] = "waiting"]
            /\ watcher' = w
            /\ cancelled' = cancelled \ {w}
      BY <1>4, <2>2 DEF DialFallback
    <3>2. pc' = "request" /\ conn' = [server |-> "fallback", alive |-> TRUE]
      BY <1>4, <2>2 DEF DialFallback, Dial
    <3>3. [server |-> "fallback", alive |-> TRUE] \in Connections
      BY DEF Connections, Servers
    <3>4. QED
      BY <2>1, <3>1, <3>2, <3>3
  <2>3. CASE "fallback" \notin up
    <3>1. pc' = "top" /\ conn' = None /\ UNCHANGED <<watch, watcher, cancelled>>
      BY <1>4, <2>3 DEF DialFallback, Dial
    <3>2. QED
      BY <2>1, <3>1
  <2>4. QED
    BY <2>2, <2>3
<1>5. CASE RequestFails \/ Disconnected
  BY <1>5 DEF RequestFails, Disconnected, EndIteration
<1>6. CASE Close
  BY <1>6 DEF Close, switchback, Connections
<1>7. CASE KeepAlivePanics
  BY <1>7 DEF KeepAlivePanics
<1>8. ASSUME NEW w \in Watchers, Switchback(w) PROVE WatcherInv'
  <2>1. CASE SwitchbackFires(w) \/ SwitchbackDone(w) \/ SwitchbackDials(w) \/ SwitchbackSends(w)
    BY <2>1 DEF SwitchbackFires, SwitchbackDone, SwitchbackDials, SwitchbackSends, loop
  <2>2. CASE SwitchbackCloses(w)
    BY <2>2 DEF SwitchbackCloses, Connections
  <2>3. QED
    BY <1>8, <2>1, <2>2 DEF Switchback
<1>9. CASE KeepAliveChecks \/ KeepAlivePings \/ RefreshStatus \/ SendUpdates
           \/ ServerTimesOut \/ (\E s \in Servers : ServerUp(s)) \/ UNCHANGED vars
  BY <1>9 DEF KeepAliveChecks, KeepAlivePings, RefreshStatus, SendUpdates, ServerTimesOut,
              ServerUp, loop, switchback, vars
<1>10. CASE Break \/ (\E s \in Servers : ServerDown(s))
  <2>1. UNCHANGED <<pc, watch, watcher, cancelled, sshConn>>
    BY <1>10 DEF Break, ServerDown, switchback
  <2>2. conn' = conn \/ (conn # None /\ conn' = [conn EXCEPT !.alive = FALSE])
    BY <1>10 DEF Break, ServerDown
  <2>3. conn \in Connections =>
          /\ [conn EXCEPT !.alive = FALSE] \in Connections
          /\ [conn EXCEPT !.alive = FALSE].server = conn.server
    BY DEF Connections
  <2>4. QED
    BY <2>1, <2>2, <2>3
<1>11. QED
  BY <1>1, <1>2, <1>3, <1>4, <1>5, <1>6, <1>7, <1>8, <1>9, <1>10 DEF Next, Loop

\* At most one switchback goroutine has not been told to end.
THEOREM OneSwitchbackAtATime == Spec => []OneSwitchback
<1>1. WatcherInv /\ [Next]_vars => WatcherInv'
  BY WatcherStep
<1>2. WatcherInv => OneSwitchback
  BY DEF WatcherInv
<1>3. QED
  BY WatcherInit, <1>1, <1>2, PTL DEF Spec

\* No switchback goroutine ends a connection to the main server, however late it is.
THEOREM MainIsNotCut == Spec => SwitchbackKeepsMain
<1>1. WatcherInv /\ [Next]_vars => WatcherInv'
  BY WatcherStep
<1>2. WatcherInv /\ [Next]_vars =>
        [\A w \in Watchers :
           SwitchbackCloses(w) /\ conn # None /\ conn.server = "main" => conn' = conn]_vars
  BY ConnectionLoopAssumption DEF WatcherInv, SwitchbackCloses
<1>3. QED
  BY WatcherInit, <1>1, <1>2, PTL DEF Spec, SwitchbackKeepsMain
-----------------------------------------------------------------------------
(* Types.  They need WatcherInv: SwitchbackCloses changes conn if it is that of its iteration. *)

pcs == {"top", "select", "dialMain", "dialFallback", "request", "served", "stopped", "dead"}

\* What TypeOK says of the loop, and what it says of everything else.
LoopTyped ==
    /\ pc \in pcs
    /\ conn \in Connections \cup {None}
    /\ conn # None <=> pc \in {"request", "served"}
    /\ connerr \in BOOLEAN
    /\ attempt \in Nat /\ tries \in Nat
    /\ sshConn \in BOOLEAN /\ (sshConn <=> pc = "served")

RestTyped ==
    /\ chan \in {None, "live", "dead"}
    /\ watcher \in Watchers \cup {None}
    /\ watch \in [Watchers -> {"free", "waiting", "dialing", "sending", "closing"}]
    /\ cancelled \subseteq Watchers
    /\ running \in BOOLEAN
    /\ keepAlive \in {"sleeping", "pinging"}
    /\ updates \in [status : BOOLEAN, sent : BOOLEAN]
    /\ senders \in BOOLEAN
    /\ up \subseteq Servers
    /\ faults \in Nat

LEMMA TypeParts == LoopTyped /\ RestTyped => TypeOK
<1> SUFFICES ASSUME LoopTyped, RestTyped PROVE TypeOK
  OBVIOUS
<1>1. (conn # None) = (pc \in {"request", "served"})
  BY DEF LoopTyped
<1>2. sshConn = (pc = "served")
  BY DEF LoopTyped
<1>3. QED
  BY <1>1, <1>2 DEF TypeOK, LoopTyped, RestTyped, pcs

LEMMA Counted == ASSUME NEW n \in Nat PROVE Count(n) \in Nat
  BY DEF Count

LEMMA Dropped ==
    ASSUME NEW c \in Connections
    PROVE  [c EXCEPT !.alive = FALSE] \in Connections
  BY DEF Connections

LEMMA Dialled ==
    ASSUME NEW s \in Servers, NEW alive \in BOOLEAN
    PROVE  [server |-> s, alive |-> alive] \in Connections /\ [server |-> s, alive |-> alive] # None
  BY ConnectionLoopAssumption DEF Connections

LEMMA LoopStep == ASSUME LoopTyped, WatcherInv, [Next]_vars PROVE LoopTyped'
<1> USE ConnectionLoopAssumption DEF LoopTyped, pcs
<1>0. ASSUME UNCHANGED loop PROVE LoopTyped'
  BY <1>0 DEF loop
<1>1. CASE Stop \/ Backoff \/ NoBackoff \/ Connect
  <2>1. /\ pc \in {"top", "select"} /\ pc' \in {"stopped", "select", "dialMain"}
        /\ UNCHANGED <<conn, sshConn>>
        /\ attempt' \in {attempt, Count(attempt)} /\ tries' \in {tries, Count(tries)}
    BY <1>1 DEF Stop, Backoff, NoBackoff, Connect
  <2>2. connerr' \in BOOLEAN
    BY <1>1 DEF Stop, Backoff, NoBackoff, Connect
  <2>3. QED
    BY <2>1, <2>2, Counted
<1>2. CASE TakeSwitchback
  <2>1. conn' \in Connections /\ conn' # None
    BY <1>2, Dialled DEF TakeSwitchback, Servers
  <2>2. QED
    BY <1>2, <2>1 DEF TakeSwitchback, Count
<1>3. CASE DialMain
  <2>1. IF "main" \in up THEN conn' \in Connections /\ conn' # None ELSE conn' = None
    BY <1>3, Dialled DEF DialMain, Dial, Servers
  <2>2. QED
    BY <1>3, <2>1 DEF DialMain
<1>4. CASE DialFallback
  <2>1. IF "fallback" \in up THEN conn' \in Connections /\ conn' # None ELSE conn' = None
    BY <1>4, Dialled DEF DialFallback, Dial, Servers
  <2>2. /\ pc = "dialFallback" /\ UNCHANGED <<attempt, tries, sshConn>>
        /\ IF "fallback" \in up THEN pc' = "request" /\ UNCHANGED connerr
                                ELSE pc' = "top" /\ connerr' = TRUE
    BY <1>4 DEF DialFallback
  <2>3. QED
    BY <2>1, <2>2
<1>5. CASE RequestAccepted
  BY <1>5 DEF RequestAccepted
<1>6. CASE RequestFails \/ Disconnected
  <2>1. /\ pc \in {"request", "served"} /\ pc' = "top" /\ conn' = None
        /\ connerr' \in BOOLEAN /\ UNCHANGED <<attempt, tries>>
    BY <1>6 DEF RequestFails, Disconnected, EndIteration
  <2>2. sshConn' = FALSE
    BY <1>6 DEF RequestFails, Disconnected
  <2>3. QED
    BY <2>1, <2>2
<1>7. CASE KeepAlivePanics
  BY <1>7 DEF KeepAlivePanics
<1>8. ASSUME UNCHANGED <<pc, connerr, attempt, tries, sshConn>>,
             conn' = conn \/ (conn # None /\ conn' = [conn EXCEPT !.alive = FALSE])
      PROVE  LoopTyped'
  <2>1. conn # None => conn' \in Connections /\ conn' # None
    BY <1>8, Dropped
  <2>2. conn = None => conn' = None
    BY <1>8
  <2>3. QED
    BY <1>8, <2>1, <2>2
<1>9. CASE Close
  BY <1>8, <1>9 DEF Close
<1>10. ASSUME NEW w \in Watchers, Switchback(w) PROVE LoopTyped'
  <2>1. CASE SwitchbackCloses(w)
    BY <1>8, <2>1 DEF SwitchbackCloses, WatcherInv
  <2>2. CASE ~SwitchbackCloses(w)
    BY <1>0, <1>10, <2>2 DEF Switchback, SwitchbackFires, SwitchbackDone, SwitchbackDials, SwitchbackSends
  <2>3. QED
    BY <2>1, <2>2
<1>11. CASE Break \/ (\E s \in Servers : ServerDown(s))
  BY <1>8, <1>11 DEF Break, ServerDown
<1>12. CASE KeepAliveChecks \/ KeepAlivePings \/ RefreshStatus \/ SendUpdates
            \/ ServerTimesOut \/ (\E s \in Servers : ServerUp(s)) \/ UNCHANGED vars
  BY <1>0, <1>12 DEF KeepAliveChecks, KeepAlivePings, RefreshStatus, SendUpdates, ServerTimesOut, ServerUp, vars
<1>13. QED
  BY <1>1, <1>2, <1>3, <1>4, <1>5, <1>6, <1>7, <1>9, <1>10, <1>11, <1>12 DEF Next, Loop

LEMMA RestStep == ASSUME RestTyped, [Next]_vars PROVE RestTyped'
<1> USE DEF RestTyped
<1>1. CASE Stop \/ Backoff \/ NoBackoff \/ Connect \/ DialMain
  BY <1>1 DEF Stop, Backoff, NoBackoff, Connect, DialMain, switchback, reporting, environment
<1>2. CASE TakeSwitchback
  BY <1>2 DEF TakeSwitchback, reporting, environment
<1>3. CASE DialFallback
  BY <1>3 DEF DialFallback, reporting, environment
<1>4. CASE RequestAccepted
  BY <1>4 DEF RequestAccepted, switchback, environment
<1>5. CASE RequestFails \/ Disconnected
  BY <1>5 DEF RequestFails, Disconnected, EndIteration, reporting, environment
<1>6. CASE Close \/ KeepAliveChecks \/ KeepAlivePings
  BY <1>6 DEF Close, KeepAliveChecks, KeepAlivePings, switchback, reporting, environment
<1>7. CASE KeepAlivePanics
  BY <1>7 DEF KeepAlivePanics, environment
<1>8. CASE RefreshStatus
  BY <1>8 DEF RefreshStatus, switchback, environment
<1>9. CASE SendUpdates
  <2>1. updates' \in [status : BOOLEAN, sent : BOOLEAN]
    <3>1. updates' = [updates EXCEPT !.sent = updates.sent \/ (sshConn /\ updates.status)]
      BY <1>9 DEF SendUpdates
    <3>2. (updates.sent \/ (sshConn /\ updates.status)) \in BOOLEAN
      OBVIOUS
    <3>3. ASSUME NEW b \in BOOLEAN PROVE [updates EXCEPT !.sent = b] \in [status : BOOLEAN, sent : BOOLEAN]
      OBVIOUS
    <3>4. QED
      BY <3>1, <3>2, <3>3
  <2>2. QED
    BY <1>9, <2>1 DEF SendUpdates, switchback, environment
<1>10. ASSUME NEW w \in Watchers, Switchback(w) PROVE RestTyped'
  BY <1>10 DEF Switchback, SwitchbackFires, SwitchbackDone, SwitchbackDials, SwitchbackSends,
               SwitchbackCloses, reporting, environment
<1>11. CASE Break \/ ServerTimesOut \/ UNCHANGED vars
  BY <1>11 DEF Break, ServerTimesOut, switchback, reporting, environment, vars
<1>12. ASSUME NEW s \in Servers, ServerUp(s) \/ ServerDown(s) PROVE RestTyped'
  BY <1>12 DEF ServerUp, ServerDown, switchback, reporting
<1>13. QED
  BY <1>1, <1>2, <1>3, <1>4, <1>5, <1>6, <1>7, <1>8, <1>9, <1>10, <1>11, <1>12 DEF Next, Loop

\* Every variable keeps its type; in particular the loop has a connection exactly while it sends
\* its request or is served, and Client.sshConn is set exactly while it is served.
THEOREM TypeCorrect == Spec => []TypeOK
<1>1. Init => LoopTyped /\ RestTyped
  <2> SUFFICES ASSUME Init PROVE LoopTyped /\ RestTyped
    OBVIOUS
  <2>1. pc = "top" /\ conn = None /\ attempt = 0 /\ tries = 0
    BY DEF Init
  <2>2. connerr = FALSE /\ sshConn = FALSE /\ running = TRUE /\ senders = FALSE
    BY DEF Init
  <2>3. LoopTyped
    BY <2>1, <2>2 DEF LoopTyped, pcs
  <2>4. updates \in [status : BOOLEAN, sent : BOOLEAN]
    BY DEF Init
  <2>5. /\ chan = None /\ watcher = None /\ watch = [w \in Watchers |-> "free"] /\ cancelled = {}
        /\ keepAlive = "sleeping" /\ up \subseteq Servers /\ faults = 0
    BY DEF Init
  <2>6. RestTyped
    BY <2>2, <2>4, <2>5 DEF RestTyped
  <2>7. QED
    BY <2>3, <2>6
<1>2. LoopTyped /\ RestTyped /\ WatcherInv /\ [Next]_vars => (LoopTyped /\ RestTyped /\ WatcherInv)'
  BY LoopStep, RestStep, WatcherStep
<1>3. QED
  BY <1>1, <1>2, WatcherInit, TypeParts, PTL DEF Spec
=============================================================================
