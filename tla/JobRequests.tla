---------------------------- MODULE JobRequests -----------------------------
(***************************************************************************)
(* Who is asked: one request for a command or a script, to one client or   *)
(* to several and to groups of clients, over the REST or the websocket     *)
(* API, while clients come and go and access lists and groups change.      *)
(* What is executed is left out; how it is sent to the clients that were   *)
(* found, and what becomes of it, is the subject of MultiJob.              *)
(*                                                                         *)
(* A client object is <<client id, number of its connection>>: a client    *)
(* that connects again has a new one.  The clients that satisfy the        *)
(* parameters of a group are given with the group, see ClientGroups.  The  *)
(* user keeps its groups during the request, see Users.  A client that was *)
(* deleted is not found, as one that disconnected is not; and SetACL finds *)
(* and saves its client in one step: ClientRegistry has these apart.       *)
(***************************************************************************)
EXTENDS Integers, Sequences, SequencesExt, FiniteSets, Functions

CONSTANTS
    Clients,        \* client ids
    GroupIds,       \* client groups
    UserGroups,
    Users,          \* the users: whether an administrator, and their groups
    MaxConnections, \* bound on the connections
    MaxIds,         \* bound on the length of client_ids
    None

VARIABLES
    conn,    \* how often each client connected: its object in the repository
    up,      \* clients that are not marked disconnected
    allowed, \* AllowedUserGroups of each object
    members, \* the clients that satisfy each client group, None where there is no group
    user,    \* whether the user is an administrator, and its groups
    req,     \* the request
    could,   \* for the properties: clients the user had access to since it came,
    entered, \* who was in a group of the request at some time until the check,
    stayed   \* and who was so, and active, all along

vars == <<conn, up, allowed, members, user, req, could, entered, stayed>>
world == <<conn, up, allowed, members, user>>

Objects == Clients \X (0 .. MaxConnections)
Object(c) == <<c, conn[c]>>

NoRequest == [pc |-> "idle", api |-> None, ids |-> <<>>, groups |-> {}, left |-> {}, found |-> {}, asked |-> <<>>]

Init ==
    /\ conn = [c \in Clients |-> 0]
    /\ up = {}
    /\ allowed = [o \in Objects |-> {}]
    /\ members = [g \in GroupIds |-> None]
    /\ user \in Users
    /\ req = NoRequest
    /\ could = {} /\ entered = {} /\ stayed = {}

-----------------------------------------------------------------------------
(* Clients, access lists and groups.                                       *)

\* StartClient: the new object has no access list.
Connects(c) ==
    /\ c \notin up
    /\ conn[c] < MaxConnections /\ FoldFunction(+, 0, conn) < MaxConnections
    /\ conn' = [conn EXCEPT ![c] = @ + 1]
    /\ up' = up \cup {c}
    /\ UNCHANGED <<allowed, members, user, req>>

\* Terminate
Disconnects(c) ==
    /\ c \in up
    /\ up' = up \ {c}
    /\ UNCHANGED <<conn, allowed, members, user, req>>

\* handlePostClientACL
SetACL(c) ==
    /\ conn[c] > 0
    /\ \E gs \in SUBSET UserGroups : allowed' = [allowed EXCEPT ![Object(c)] = gs]
    /\ UNCHANGED <<conn, up, members, user, req>>

\* A group is created, replaced or deleted.
ChangesGroup(g) ==
    /\ \E cs \in (SUBSET Clients) \cup {None} : members' = [members EXCEPT ![g] = cs]
    /\ UNCHANGED <<conn, up, allowed, user, req>>

-----------------------------------------------------------------------------
(* The request.                                                            *)

Goes(pc) == req' = [req EXCEPT !.pc = pc] /\ UNCHANGED world

\* The answer of the handler: an error, or the jobs go out.
Ends == req' = NoRequest /\ UNCHANGED world

Arrives(api, pc, ids, groups) ==
    /\ req.pc = "idle"
    /\ req' = [NoRequest EXCEPT !.pc = pc, !.api = api, !.ids = ids, !.groups = groups, !.left = groups]
    /\ UNCHANGED world

\* A request to one client, behind wrapClientAccessMiddleware.
ArrivesForOne == \E c \in Clients : Arrives("single", "access", <<c>>, {})
handlePostCommand == ArrivesForOne
handleExecuteScript == ArrivesForOne

\* A request to several clients, whose command, interpreter and encoding are in order.
ArrivesForMany(api) ==
    \E n \in 0 .. MaxIds : \E ids \in [1 .. n -> Clients], groups \in SUBSET GroupIds :
        Arrives(api, "groups", ids, groups)
handlePostMultiClientCommand == ArrivesForMany("rest")
handlePostMultiClientScript == ArrivesForMany("rest")
handleCommandsWS == ArrivesForMany("websocket")
handleScriptsWS == ArrivesForMany("websocket")

\* Client.HasAccess
HasAccess(o) == user.groups \cap allowed[o] # {}

\* CheckClientsAccess
CheckClientsAccess(os) == user.admin \/ \A o \in os : HasAccess(o)

\* CheckClientAccess: the client need not be connected.
CheckClientAccess(c) == conn[c] > 0 /\ CheckClientsAccess({Object(c)})

\* wrapClientAccessMiddleware
ChecksClient ==
    /\ req.pc = "access"
    /\ \/ CheckClientAccess(req.ids[1]) /\ Goes("active")
       \/ ~CheckClientAccess(req.ids[1]) /\ Ends

\* GetActiveByID of handleExecuteCommand.
FindsActive ==
    /\ req.pc = "active"
    /\ \/ req.ids[1] \notin up /\ Ends
       \/ /\ req.ids[1] \in up
          /\ req' = [req EXCEPT !.pc = "send", !.asked = <<Object(req.ids[1])>>]
          /\ UNCHANGED world

\* getOrderedClients: the groups are read one by one,
GetsGroup ==
    /\ req.pc = "groups" /\ req.left # {}
    /\ \E g \in req.left :
        \/ members[g] = None /\ Ends
        \/ /\ members[g] # None
           /\ req' = [req EXCEPT !.left = @ \ {g}, !.found = @ \cup members[g]]
           /\ UNCHANGED world

\* then the active clients that belong to one of them,
GetActiveByGroups ==
    /\ req.pc = "groups" /\ req.left = {}
    /\ req' = [req EXCEPT !.pc = "ids", !.found = {Object(c) : c \in @ \cap up}]
    /\ UNCHANGED world

\* then the clients that are named, each of which has to be active.
GetsClient ==
    LET c == req.ids[Len(req.asked) + 1]
    IN /\ req.pc = "ids" /\ Len(req.asked) < Len(req.ids)
       /\ \/ c \notin up /\ Ends
          \/ /\ c \in up
             /\ req' = [req EXCEPT !.asked = Append(@, Object(c))]
             /\ UNCHANGED world

\* What the handlers ask for: two clients by name, or one over the websocket, or
\* a group with a client.
Enough == req.found # {} \/ Len(req.ids) >= IF req.api = "rest" THEN 2 ELSE 1

\* The end of getOrderedClients: the clients of the groups that are not named
\* follow.
OrdersClients ==
    /\ req.pc = "ids" /\ Len(req.asked) = Len(req.ids)
    /\ \/ ~Enough /\ Ends
       \/ /\ Enough
          /\ \E s \in SetToSeqs({o \in req.found : ~Contains(req.ids, o[1])}) :
                req' = [req EXCEPT !.pc = "check", !.asked = @ \o s]
          /\ UNCHANGED world

\* A mutant of ChecksAccess: only the clients that are named are checked.
ChecksAccessOfNamed ==
    /\ req.pc = "check"
    /\ \/ CheckClientsAccess({Object(c) : c \in Range(req.ids)}) /\ Goes("send")
       \/ ~CheckClientsAccess({Object(c) : c \in Range(req.ids)}) /\ Ends

\* CheckClientsAccess of the clients that were found.
ChecksAccess ==
    /\ req.pc = "check"
    /\ \/ CheckClientsAccess(Range(req.asked)) /\ Goes("send")
       \/ ~CheckClientsAccess(Range(req.asked)) /\ Ends

\* SaveMultiJob, which may fail, and executeMultiClientJob: see MultiJob.  One client,
\* over REST or over the websocket, is sent its job at once.
Sends == req.pc = "send" /\ Ends

-----------------------------------------------------------------------------

Environment ==
    \/ \E c \in Clients : Connects(c) \/ Disconnects(c) \/ SetACL(c)
    \/ \E g \in GroupIds : ChangesGroup(g)

Request ==
    \/ handlePostCommand \/ handleExecuteScript
    \/ handlePostMultiClientCommand \/ handlePostMultiClientScript \/ handleCommandsWS \/ handleScriptsWS
    \/ ChecksClient \/ FindsActive \/ GetsGroup \/ GetActiveByGroups \/ GetsClient \/ OrdersClients
    \/ ChecksAccess \/ Sends

\* The history of a request.
Accessible == {c \in Clients : CheckClientsAccess({Object(c)})}
InGroup == {x \in Clients \X req.groups : members[x[2]] # None /\ x[1] \in members[x[2]]}
Active == {x \in InGroup : x[1] \in up}

Remembers ==
    /\ could' = IF req'.pc = "idle" THEN {} ELSE could \cup Accessible'
    /\ entered' = IF req'.groups = {} THEN {} ELSE entered \cup InGroup'
    /\ stayed' = IF req.pc = "idle" THEN Active' ELSE stayed \cap Active'

Next == (Environment \/ Request) /\ Remembers

Spec == Init /\ [][Next]_vars

-----------------------------------------------------------------------------
(* Properties.                                                             *)

Times(c, s) == Cardinality({i \in DOMAIN s : s[i] = c})

\* The clients a request goes to.  Each is one the user had access to at some time since
\* the request came, however clients reconnect and access lists and groups change between
\* the check of one client and its lookup, and between the lookups of many and their check.
\* A client that is named is asked as often as it is named, any other at most once and only
\* if it was in a named group at some time since; and whoever was active and in a named
\* group all along is asked.
AskedClients ==
    LET asked == [i \in DOMAIN req.asked |-> req.asked[i][1]]
    IN req.pc = "send" =>
        \A c \in Clients :
            /\ Contains(asked, c) => c \in could
            /\ Contains(req.ids, c) => Times(c, asked) = Times(c, req.ids)
            /\ ~Contains(req.ids, c) => Times(c, asked) <= 1
            /\ Contains(asked, c) => Contains(req.ids, c) \/ \E g \in req.groups : <<c, g>> \in entered
            /\ (\E g \in req.groups : <<c, g>> \in stayed) => Contains(asked, c)
=============================================================================
