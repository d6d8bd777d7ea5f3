---------------------------- MODULE UserDatabase ----------------------------
(***************************************************************************)
(* The API users in a database: users.APIService over UserDatabase, with a *)
(* table of users and a table of their groups.  Add, Update and Delete of  *)
(* the provider are transactions, which take place or do not; the lookups  *)
(* the service makes before are calls of their own.  Both tables have the  *)
(* unique index of the documentation.  Passwords, tokens and receivers of  *)
(* codes are columns of a user that nothing else depends on, and left out. *)
(***************************************************************************)

CONSTANTS
    Names,    \* user names
    Groups,   \* user groups
    Requests, \* requests that may be under way at once
    Keep,     \* no groups in an update: nil
    None

VARIABLES
    users,    \* the names in the table of users
    rows,     \* the table of groups, <<user name, group>>
    req,      \* the requests
    given,    \* for the properties: the groups each user was last given,
    lost      \* and the names whose rows an Update wrote when its user was gone

vars == <<users, rows, req, given, lost>>

NoRequest == [pc |-> "idle", op |-> None, name |-> None, new |-> None, groups |-> Keep]

Init ==
    /\ users \in SUBSET Names
    /\ rows = {}
    /\ req = [r \in Requests |-> NoRequest]
    /\ given = [n \in Names |-> {}]
    /\ lost = {}

Goes(r, pc) == req' = [req EXCEPT ![r].pc = pc]
Ends(r) == req' = [req EXCEPT ![r] = NoRequest]

Asked(r, op, n, m, gs) ==
    /\ req[r].pc = "idle"
    /\ req' = [req EXCEPT ![r] = [pc |-> "check", op |-> op, name |-> n, new |-> m, groups |-> gs]]
    /\ UNCHANGED <<users, rows, given, lost>>

\* Change without a name in the route, and with one; validate has accepted the data.
AskToAdd(r) == \E n \in Names, gs \in SUBSET Groups : Asked(r, "add", n, n, gs)
AskToUpdate(r) == \E n, m \in Names, gs \in (SUBSET Groups) \cup {Keep} : Asked(r, "update", n, m, gs)
AskToDelete(r) == \E n \in Names : Asked(r, "delete", n, n, Keep)

\* GetByUsername of addUser, updateUser and Delete.
Check(r) ==
    /\ req[r].pc = "check"
    /\ \/ (req[r].name \in users) = (req[r].op = "add") /\ Ends(r)
       \/ (req[r].name \in users) # (req[r].op = "add")
            /\ Goes(r, IF req[r].new # req[r].name THEN "checkNew" ELSE "call")
    /\ UNCHANGED <<users, rows, given, lost>>

\* The second GetByUsername of updateUser, for the new name.
CheckNew(r) ==
    /\ req[r].pc = "checkNew"
    /\ \/ req[r].new \in users /\ Ends(r)
       \/ req[r].new \notin users /\ Goes(r, "call")
    /\ UNCHANGED <<users, rows, given, lost>>

RowsOf(n) == {g \in Groups : <<n, g>> \in rows}
Without(n) == {x \in rows : x[1] # n}
With(n, gs) == {<<n, g>> : g \in gs}

\* UserDatabase.Add: the index refuses a name that is there, and a group the
\* name has already.
Add(r) ==
    LET n == req[r].name
    IN /\ req[r].pc = "call" /\ req[r].op = "add"
       /\ n \notin users /\ RowsOf(n) \cap req[r].groups = {}
       /\ users' = users \cup {n}
       /\ rows' = rows \cup With(n, req[r].groups)
       /\ given' = [given EXCEPT ![n] = req[r].groups]
       /\ Ends(r)
       /\ UNCHANGED lost

\* UPDATE of the groups table.
RenamedRows(n, m) == IF n = m THEN rows ELSE Without(n) \cup With(m, RowsOf(n))

\* The names whose rows nobody gave them, after an Update.
Astray(n, m, gs) ==
    CASE gs # Keep /\ n \in users -> lost \ {n, m}
      [] gs # Keep /\ n \notin users -> (lost \ {n}) \cup {m}
      [] gs = Keep -> IF n = m \/ {n, m} \cap lost = {} THEN lost ELSE (lost \ {n}) \cup {m}

\* UserDatabase.Update: a user that is gone meanwhile is no error.
Update(r) ==
    LET n == req[r].name
        m == req[r].new
        gs == req[r].groups
    IN /\ req[r].pc = "call" /\ req[r].op = "update"
       /\ n # m => ~(n \in users /\ m \in users) /\ RowsOf(n) \cap RowsOf(m) = {}
       /\ users' = IF n \in users THEN (users \ {n}) \cup {m} ELSE users
       /\ rows' = IF gs = Keep THEN RenamedRows(n, m)
                  ELSE {x \in RenamedRows(n, m) : x[1] # m} \cup With(m, gs)
       /\ given' = IF n \in users THEN [given EXCEPT ![n] = {}, ![m] = IF gs = Keep THEN given[n] ELSE gs] ELSE given
       /\ lost' = Astray(n, m, gs)
       /\ Ends(r)

\* A mutant of Delete: the groups stay.
DeleteUserOnly(r) ==
    /\ req[r].pc = "call" /\ req[r].op = "delete"
    /\ users' = users \ {req[r].name}
    /\ given' = [given EXCEPT ![req[r].name] = {}]
    /\ lost' = lost \ {req[r].name}
    /\ Ends(r)
    /\ UNCHANGED rows

\* UserDatabase.Delete
Delete(r) ==
    /\ req[r].pc = "call" /\ req[r].op = "delete"
    /\ users' = users \ {req[r].name}
    /\ rows' = Without(req[r].name)
    /\ given' = [given EXCEPT ![req[r].name] = {}]
    /\ lost' = lost \ {req[r].name}
    /\ Ends(r)

\* A call returns an error, and the transaction, if there is one, is rolled back.
Fails(r) ==
    /\ req[r].pc # "idle"
    /\ Ends(r)
    /\ UNCHANGED <<users, rows, given, lost>>

Next == \E r \in Requests :
    \/ AskToAdd(r) \/ AskToUpdate(r) \/ AskToDelete(r)
    \/ Check(r) \/ CheckNew(r) \/ Add(r) \/ Update(r) \/ Delete(r) \/ Fails(r)

Spec == Init /\ [][Next]_vars

-----------------------------------------------------------------------------
(* Properties.                                                             *)

\* A user has the groups of the last request that gave it some, under whatever
\* name it was known then, and nobody has a group without being a user: no
\* request leaves groups behind for the next user of a name.  The exception is a
\* name under which an Update wrote groups although its user had been deleted or
\* renamed since the lookup, until these groups are replaced or deleted.
GroupsAsGiven ==
    \A n \in Names \ lost : RowsOf(n) = IF n \in users THEN given[n] ELSE {}
=============================================================================
