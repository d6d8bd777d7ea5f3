----------------------------- MODULE MCRequests -----------------------------
(***************************************************************************)
(* The registry without API requests, and the lookup of clients for a job  *)
(* over its abstraction in JobRequests: clients that connect, disconnect   *)
(* and connect again as a new object.  A behaviour is one of one of them.  *)
(***************************************************************************)
EXTENDS MCClientRegistry

CONSTANTS Clients, GroupIds, MaxConnections, MaxIds, None  \* of the lookup

ASSUME LookupAssumption == IsFiniteSet(Clients) /\ MaxConnections \in Nat

VARIABLES
    part, connections, up, allowed, members, user, req, could, entered, stayed

lookup == <<connections, up, allowed, members, user, req, could, entered, stayed>>

\* A user without a group is as one whose group is on no list.
JobUsers == {[admin |-> TRUE, groups |-> {}], [admin |-> FALSE, groups |-> {"some"}]}

J == INSTANCE JobRequests WITH UserGroups <- {"some"}, Users <- JobUsers, conn <- connections

RequestsInit ==
    /\ part \in {"registry", "lookup"}
    /\ Init /\ J!Init
    /\ part = "registry" => user.admin

RequestsNext ==
    \/ part = "registry" /\ Next /\ UNCHANGED <<lookup, part>>
    \/ part = "lookup" /\ J!Next /\ UNCHANGED <<vars, part>>

RequestsSpec == RequestsInit /\ [][RequestsNext]_<<vars, lookup, part>>

RequestsSymmetry == Symmetry \cup Permutations(Clients)

\* A job goes to the clients it was asked for and the user had access to (getOrderedClients,
\* CheckClientsAccess, wrapClientAccessMiddleware).
AskedClients == J!AskedClients
=============================================================================
