------------------------------ MODULE MCTables ------------------------------
(***************************************************************************)
(* An instance of the four parts that work on database tables with no lock *)
(* around their calls: the vault, the libraries, the users in a database   *)
(* and the client groups.  Each is in a database of its own and they share *)
(* nothing, so a behaviour that uses one of them is enough.                *)
(***************************************************************************)
EXTENDS Vault, Sequences, TLC

CONSTANTS
    u1, g1,                    \* the user who is in the group of the vault
    Uuids, Names, Authors,     \* of the libraries, and of the users in a database
    UserGroups, Keep, GroupIds,
    Requests,                  \* under way at once
    Params, Clients, ApiUsers, \* of the client groups
    MaxLength                  \* of a pattern and of what it is compared with

ASSUME ClientGroupsAssumption ==
    /\ \A p \in Params, a \in {"name", "tag"} : p[a] = None \/ p[a] \subseteq Seq(STRING)
    /\ \A c \in Clients : c.name \in Seq(STRING) /\ c.tag \subseteq Seq(STRING)

VARIABLES part, kind, table, uuids, entries, users, rows, changes, given, lost, groups

library == <<kind, table, uuids, entries>>
userTables == <<users, rows, changes, given, lost>>

MCGroupsOf == [u \in Users |-> IF u = u1 THEN {g1} ELSE {}]

L == INSTANCE Library WITH Ids <- Uuids, given <- uuids, req <- entries
D == INSTANCE UserDatabase WITH Groups <- UserGroups, req <- changes

Strings(letters) == UNION {[1 .. n -> letters] : n \in 0 .. MaxLength}

MCParams ==
    {[name |-> {s}, tag |-> None] : s \in Strings({"a", "b", "*"})}
        \cup {[name |-> None, tag |-> t] : t \in {{}, {<<"*", "b">>, <<"A", "a">>}, {<<"A", "*", "b", "*", "a", "b">>}}}
        \cup {[name |-> n, tag |-> t] : n \in {None, {}, {<<"a">>, <<"*", "*", "b">>}}, t \in {None, {<<>>}, {<<"a", "*">>}}}

Client(n, t, a) == [name |-> n, tag |-> t, allowed |-> a]
MCClients ==
    {Client(s, {}, {"some"}) : s \in Strings({"a", "b"}) \cup {<<"A">>, <<"b", "A">>, <<"a", "A", "a">>}}
        \cup {Client(<<"a">>, t, a) : t \in {{<<>>}, {<<"a", "b">>, <<"b">>}, {<<"a", "b", "a", "b">>, <<"A">>}}, a \in {{}, {"some", "others"}}}

MCUsers == {[groups |-> {"some"}], [groups |-> {"others"}], [groups |-> {}], [groups |-> {"Administrators", "none"}]}

G == INSTANCE ClientGroups WITH Users <- ApiUsers

TablesInit ==
    /\ part \in {"vault", "library", "users", "groups"}
    /\ Init /\ L!Init /\ D!Init /\ G!Init
    /\ part # "library" => kind = "script"
    /\ part # "users" => users = {}

TablesNext ==
    \/ part = "vault" /\ Next /\ UNCHANGED <<part, library, userTables, groups>>
    \/ part = "library" /\ L!Next /\ UNCHANGED <<vars, part, userTables, groups>>
    \/ part = "users" /\ D!Next /\ UNCHANGED <<vars, part, library, groups>>
    \/ part = "groups" /\ G!Next /\ UNCHANGED <<vars, part, library, userTables>>

TablesSpec == TablesInit /\ [][TablesNext]_<<vars, part, library, userTables, groups>>

TablesSymmetry == Permutations(Requests) \cup Permutations(Passwords) \cup Permutations(Keys) \cup Permutations(Names)

\* No two entries of a library have the same name (Manager.Create, Update).
NamesUnique == L!NamesUnique

\* An entry of a library is its creator's for good and a deleted one never comes back (Save, Delete).
EntriesKept == L!EntriesKept

\* A user has the groups it was given, and no group outlives its user, but for those of an Update
\* whose user was gone (UserDatabase).
GroupsAsGiven == D!GroupsAsGiven

\* Each user sees in a group the clients that its patterns denote and that it may use
\* (handleGetClientGroups, Param.matches).
GroupsListed == G!GroupsListed
=============================================================================
