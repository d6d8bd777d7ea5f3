------------------------------ MODULE Library -------------------------------
(***************************************************************************)
(* The script library and the command library: script.Manager and          *)
(* command.Manager over a table each.  A manager holds no lock and opens   *)
(* no transaction, so each of its database calls is a step.  The two are   *)
(* the same but for the columns updated_by and updated_at, which only      *)
(* commands have; what a script or a command says is left out.             *)
(***************************************************************************)

CONSTANTS
    Ids,      \* UUIDs
    Names,    \* names of entries
    Authors,  \* users of the API
    Requests, \* requests that may be under way at once
    None

VARIABLES
    kind,     \* "script" or "command"
    table,    \* the rows by id
    given,    \* the UUIDs that were generated
    req       \* the requests

vars == <<kind, table, given, req>>

NoRequest == [pc |-> "idle", op |-> None, id |-> None, name |-> None, by |-> None]

Init ==
    /\ kind \in {"script", "command"}
    /\ table = [i \in Ids |-> None]
    /\ given = {}
    /\ req = [r \in Requests |-> NoRequest]

Goes(r, pc) == req' = [req EXCEPT ![r].pc = pc]
Ends(r) == req' = [req EXCEPT ![r] = NoRequest]

\* Create; Validate has accepted the input.
Create(r) ==
    /\ req[r].pc = "idle"
    /\ \E n \in Names, u \in Authors :
        req' = [req EXCEPT ![r] = [NoRequest EXCEPT !.pc = "list", !.op = "create", !.name = n, !.by = u]]
    /\ UNCHANGED <<kind, table, given>>

\* Update; the id is what the client of the API says.
Update(r) ==
    /\ req[r].pc = "idle"
    /\ \E i \in Ids, n \in Names, u \in Authors :
        req' = [req EXCEPT ![r] = [pc |-> "get", op |-> "update", id |-> i, name |-> n, by |-> u]]
    /\ UNCHANGED <<kind, table, given>>

Delete(r) ==
    /\ req[r].pc = "idle"
    /\ \E i \in Ids : req' = [req EXCEPT ![r] = [NoRequest EXCEPT !.pc = "get", !.op = "delete", !.id = i]]
    /\ UNCHANGED <<kind, table, given>>

\* GetByID of Update and Delete.
GetsByID(r) ==
    /\ req[r].pc = "get"
    /\ \/ table[req[r].id] = None /\ Ends(r)
       \/ table[req[r].id] # None /\ Goes(r, IF req[r].op = "update" THEN "list" ELSE "write")
    /\ UNCHANGED <<kind, table, given>>

\* The rows of that name, but for the entry's own.
Others(i, n) == {j \in Ids \ {i} : table[j] # None /\ table[j].name = n}

\* List by the name, in Create and Update.
ListsByName(r) ==
    /\ req[r].pc = "list"
    /\ \/ Others(req[r].id, req[r].name) # {} /\ Ends(r)
       \/ Others(req[r].id, req[r].name) = {} /\ Goes(r, "write")
    /\ UNCHANGED <<kind, table, given>>

\* A mutant of IndexAdmits: there is no such index.
IndexAdmitsAll(i, n) == TRUE

\* The unique index on the name.
IndexAdmits(i, n) == Others(i, n) = {}

\* Save without an id, under a new UUID.
Inserts(r) ==
    /\ req[r].pc = "write" /\ req[r].op = "create"
    /\ \E i \in Ids \ given :
        /\ given' = given \cup {i}
        /\ table' = IF IndexAdmits(i, req[r].name)
                    THEN [table EXCEPT ![i] = [name |-> req[r].name, createdBy |-> req[r].by,
                                               updatedBy |-> IF kind = "command" THEN req[r].by ELSE None]]
                    ELSE table
    /\ Ends(r)
    /\ UNCHANGED kind

\* A mutant of Updates: the row is written whether it is there or not.
UpdatesOrInserts(r) ==
    /\ req[r].pc = "write" /\ req[r].op = "update"
    /\ IndexAdmits(req[r].id, req[r].name)
    /\ table' = [table EXCEPT ![req[r].id] = [name |-> req[r].name, createdBy |-> req[r].by, updatedBy |-> None]]
    /\ Ends(r)
    /\ UNCHANGED <<kind, given>>

\* Save with an id: what was deleted meanwhile is not there to be updated, which
\* is no error.
Updates(r) ==
    /\ req[r].pc = "write" /\ req[r].op = "update"
    /\ LET i == req[r].id
       IN table' = IF table[i] # None /\ IndexAdmits(i, req[r].name)
                   THEN [table EXCEPT ![i] = [@ EXCEPT !.name = req[r].name,
                                                       !.updatedBy = IF kind = "command" THEN req[r].by ELSE None]]
                   ELSE table
    /\ Ends(r)
    /\ UNCHANGED <<kind, given>>

\* Delete of the provider; no row is an error.
Deletes(r) ==
    /\ req[r].pc = "write" /\ req[r].op = "delete"
    /\ table' = [table EXCEPT ![req[r].id] = None]
    /\ Ends(r)
    /\ UNCHANGED <<kind, given>>

\* A database call returns an error.
Fails(r) ==
    /\ req[r].pc # "idle"
    /\ Ends(r)
    /\ UNCHANGED <<kind, table, given>>

Next == \E r \in Requests :
    \/ Create(r) \/ Update(r) \/ Delete(r)
    \/ GetsByID(r) \/ ListsByName(r) \/ Inserts(r) \/ Updates(r) \/ Deletes(r) \/ Fails(r)

Spec == Init /\ [][Next]_vars

-----------------------------------------------------------------------------
(* Properties.                                                             *)

\* No two entries have the same name, although Create and Update look a name up
\* and write several calls later, while others create, rename and delete.
NamesUnique ==
    \A i, j \in Ids : table[i] # None /\ table[j] # None /\ table[i].name = table[j].name => i = j

\* An entry is its creator's for good and a deleted entry never comes back,
\* whatever an Update that found it before the deletion still writes.
EntriesKept ==
    [][\A i \in Ids :
          /\ table[i] # None /\ table'[i] # None => table'[i].createdBy = table[i].createdBy
          /\ i \in given /\ table[i] = None => table'[i] = None]_vars
=============================================================================
