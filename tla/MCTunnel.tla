------------------------------ MODULE MCTunnel ------------------------------
(***************************************************************************)
(* Instances of Tunnel, with names that differ from those of ClientTunnels *)
(* so that the proofs about both are in one module.                        *)
(***************************************************************************)
EXTENDS TLC

CONSTANTS
    Conns, ForceOf, IdleTimeout, Idle,
    DeleteRequests,  \* for the tunnel
    r1               \* the one that is not forced

ASSUME TunnelAssumption ==
    /\ ForceOf \in [DeleteRequests -> BOOLEAN]
    /\ IdleTimeout \in BOOLEAN
    /\ Idle \notin DeleteRequests

VARIABLES
    conn, cut, connCount, acceptor, listener, cancelled, clientGone, stopFn, term, idle, api,
    clientLock, listed, panicked

T == INSTANCE Tunnel WITH Requests <- DeleteRequests, lock <- clientLock

TunnelSpec == T!FairSpec

MCForceOf == [r \in DeleteRequests |-> r # r1]

\* A tunnel off the client's list is quiet (Terminate, handleDeleteClientTunnel).
RemovedIsQuiet == T!RemovedIsQuiet

\* A DELETE that terminates the tunnel returns (handleDeleteClientTunnel).
DeleteReturns == T!DeleteReturns

\* The tunnel that was closed because nobody used it leaves the list (getAutoCloseChan, StartTunnel).
AutoClosedIsRemoved == T!AutoClosedIsRemoved
=============================================================================
