------------------------------- MODULE Vault --------------------------------
(***************************************************************************)
(* The vault: vault.Manager with its SQLite database and the factory that  *)
(* creates the database on init.  Administrators initialize, unlock and    *)
(* lock it; users store, read and delete values.                           *)
(*                                                                         *)
(* No operation of the manager is atomic: passLock and providerLock cover  *)
(* single reads and writes, so every database call is a step of its own.   *)
(* A value is reduced to its key, its required group and the password it   *)
(* is encrypted with, a password to its identity.                          *)
(***************************************************************************)
EXTENDS Integers, FiniteSets

CONSTANTS
    Passwords, \* passwords of a length that ValidatePass accepts
    Admins,    \* a request of each administrator is under way at a time
    Users,     \* and one of each user
    Keys,      \* pairs of a key and a client id
    Groups,    \* user groups
    GroupsOf,  \* the groups of each user
    MaxId,     \* bound on the ids of values
    MaxBusy    \* bound on the requests that are under way at once

CONSTANTS
    Empty,     \* the empty password, of a locked vault
    NoGroup,   \* the required group is the empty string
    None

Ids == 1 .. MaxId
Values == [id : Ids, key : Keys, group : Groups \cup {NoGroup}, pass : Passwords \cup {Empty}]

ASSUME VaultAssumption ==
    /\ Empty \notin Passwords
    /\ NoGroup \notin Groups
    /\ None \notin Passwords \cup Values \cup {Empty, "store"}
    /\ GroupsOf \in [Users -> SUBSET Groups]
    /\ MaxId \in Nat

VARIABLES
    file,    \* whether the database file exists
    status,  \* the password that enc_check in the status table is encrypted with, or None
    values,  \* the rows of the values table
    nextId,  \* the next id of an inserted row
    opened,  \* whether the factory has the initialized provider
    pass,    \* Manager.pass
    admin,   \* the administrators' requests
    req      \* the users' requests

\* Variables that the code does not have.
VARIABLES
    overlapped, \* administrators whose Init is past its check when another Init writes the status
    replaced    \* passwords whose status such an Init has replaced

vars == <<file, status, values, nextId, opened, pass, admin, req, overlapped, replaced>>
database == <<file, status, values, nextId>>
memory == <<opened, pass>>
history == <<overlapped, replaced>>

\* An administrator's or a user's request that is not under way.
IdleAdmin == [pc |-> "idle", pass |-> Empty]
IdleUser ==
    [pc |-> "idle", op |-> None, id |-> 0, key |-> None, group |-> None, found |-> 0, row |-> None,
     vault |-> "unlocked"]

Init ==
    /\ file = FALSE
    /\ status = None
    /\ values = {}
    /\ nextId = 1
    /\ opened = FALSE
    /\ pass = Empty
    /\ admin = [a \in Admins |-> IdleAdmin]
    /\ req = [u \in Users |-> IdleUser]
    /\ overlapped = {}
    /\ replaced = {}

\* isDatabaseInitialized
Initialized == opened /\ status # None

\* Manager.IsLocked
IsLocked == pass = Empty

\* PassMatch: enc_check can be decrypted with the password.
PassMatch(p) == p # Empty /\ p = status

-----------------------------------------------------------------------------
(* The administrators.                                                     *)

Busy == {a \in Admins : admin[a].pc # "idle"} \cup {u \in Users : req[u].pc # "idle"}

\* A further request comes in.
Arrives == Cardinality(Busy) < MaxBusy

AdminGoesTo(a, pc) == admin' = [admin EXCEPT ![a].pc = pc]
AdminEnds(a) == admin' = [admin EXCEPT ![a] = IdleAdmin]

\* A mutant of InitChecks: an initialized vault can be initialized again.
InitChecksNothing(a, p) ==
    /\ admin[a].pc = "idle" /\ Arrives
    /\ admin' = [admin EXCEPT ![a] = [pc |-> "create", pass |-> p]]
    /\ UNCHANGED <<database, memory, req, history>>

\* Manager.Init, from the check of the status on.
InitChecks(a, p) ==
    /\ admin[a].pc = "idle" /\ Arrives
    /\ ~Initialized
    /\ admin' = [admin EXCEPT ![a] = [pc |-> "create", pass |-> p]]
    /\ UNCHANGED <<database, memory, req, history>>

\* dbFactory.Init
InitCreates(a) ==
    /\ admin[a].pc = "create"
    /\ file' = TRUE
    /\ opened' = TRUE
    /\ AdminGoesTo(a, "setStatus")
    /\ UNCHANGED <<status, values, nextId, pass, req, history>>

\* SetStatus, with a check value that GetEncRandValue encrypts with the new password: an INSERT, or
\* an UPDATE of the row that another Init has written.
InitSetsStatus(a) ==
    /\ admin[a].pc = "setStatus"
    /\ status' = admin[a].pass
    /\ AdminGoesTo(a, "setPass")
    /\ overlapped' = {b \in Admins \ {a} : admin[b].pc \in {"create", "setStatus"}}
    /\ replaced' = IF a \in overlapped THEN (replaced \cup {status}) \ {None} ELSE replaced
    /\ UNCHANGED <<file, values, nextId, memory, req>>

\* The last step of Manager.Init and of Manager.UnLock.
SetPass(a) ==
    /\ admin[a].pc = "setPass"
    /\ pass' = admin[a].pass
    /\ AdminEnds(a)
    /\ UNCHANGED <<database, opened, req, history>>

\* Manager.UnLock: first whether the vault is locked, then the password.
UnLockChecks(a, p) ==
    /\ admin[a].pc = "idle" /\ Arrives
    /\ IsLocked
    /\ admin' = [admin EXCEPT ![a] = [pc |-> "match", pass |-> p]]
    /\ UNCHANGED <<database, memory, req, history>>

UnLockMatches(a) ==
    /\ admin[a].pc = "match"
    /\ IF Initialized /\ PassMatch(admin[a].pass) THEN AdminGoesTo(a, "setPass") ELSE AdminEnds(a)
    /\ UNCHANGED <<database, memory, req, history>>

\* Manager.Lock: first whether the vault is unlocked, then the status.
LockChecks(a) ==
    /\ admin[a].pc = "idle" /\ Arrives
    /\ ~IsLocked
    /\ Initialized
    /\ admin' = [admin EXCEPT ![a] = [pc |-> "lock", pass |-> Empty]]
    /\ UNCHANGED <<database, memory, req, history>>

\* The users' requests that are under way when the vault is locked.
Overtaken(r) == [u \in Users |-> IF r[u].pc = "idle" THEN r[u] ELSE [r[u] EXCEPT !.vault = "locked"]]

LockClears(a) ==
    /\ admin[a].pc = "lock"
    /\ pass' = Empty
    /\ AdminEnds(a)
    /\ req' = Overtaken(req)
    /\ UNCHANGED <<database, opened, history>>

\* A call of the database or of the builder fails and the request is answered with an error.
AdminFails(a) ==
    /\ admin[a].pc \in {"create", "setStatus", "match"}
    /\ AdminEnds(a)
    /\ overlapped' = overlapped \ {a}
    /\ UNCHANGED <<database, memory, req, replaced>>

-----------------------------------------------------------------------------
(* The users.                                                              *)

Goes(u, pc) == req' = [req EXCEPT ![u].pc = pc]
Ends(u) == req' = [req EXCEPT ![u] = IdleUser]
Row(id) == {v \in values : v.id = id}

\* checkGroupAccess
checkGroupAccess(u, v) == v.group = NoGroup \/ v.group \in GroupsOf[u]

\* A request with its parameters.
Asked(op, id, key, group) ==
    [pc |-> "asked", op |-> op, id |-> id, key |-> key, group |-> group, found |-> 0, row |-> None,
     vault |-> "unlocked"]

\* A request comes in and finds the vault unlocked (checkUnlockedAndInitialized, first half):
\* Store with existingID 0 or an id, GetOne and Delete with an id.
Ask(u) ==
    /\ req[u].pc = "idle" /\ Arrives
    /\ ~IsLocked
    /\ \/ \E id \in 0 .. MaxId, k \in Keys, g \in Groups \cup {NoGroup} :
             req' = [req EXCEPT ![u] = Asked("store", id, k, g)]
       \/ \E id \in Ids, op \in {"get", "delete"} :
             req' = [req EXCEPT ![u] = Asked(op, id, None, None)]
    /\ UNCHANGED <<database, memory, admin, history>>

\* checkUnlockedAndInitialized, second half.
ChecksInitialized(u) ==
    /\ req[u].pc = "asked"
    /\ \/ ~Initialized /\ Ends(u)
       \/ Initialized /\ req[u].op = "store" /\ Goes(u, "find")
       \/ Initialized /\ req[u].op # "store" /\ Goes(u, "read")
    /\ UNCHANGED <<database, memory, admin, history>>

\* FindByKeyAndClientID; a new value is refused when the key exists.
FindByKey(u) ==
    LET same == {v \in values : v.key = req[u].key}
    IN  /\ req[u].pc = "find"
        /\ \/ /\ req[u].id = 0
              /\ IF same = {} THEN Goes(u, "write") ELSE Ends(u)
           \/ /\ req[u].id # 0
              /\ \/ same = {} /\ Goes(u, "read")
                 \/ \E v \in same : req' = [req EXCEPT ![u].pc = "read", ![u].found = v.id]
        /\ UNCHANGED <<database, memory, admin, history>>

\* GetByID, checkGroupAccess and, in Store, the comparison with what FindByKeyAndClientID found.
GetByID(u) ==
    /\ req[u].pc = "read"
    /\ \/ Row(req[u].id) = {} /\ Ends(u)
       \/ \E v \in Row(req[u].id) :
             IF ~checkGroupAccess(u, v) \/ req[u].found \notin {0, v.id} THEN Ends(u)
             ELSE req' = [req EXCEPT ![u].pc = IF req[u].op = "get" THEN "decrypt" ELSE "write",
                                     ![u].row = IF req[u].op = "get" THEN v ELSE None]
    /\ UNCHANGED <<database, memory, admin, history>>

\* The row that a Store writes, encrypted under passLock with the password of the moment.
Encrypted(u, id) == [id |-> id, key |-> req[u].key, group |-> req[u].group, pass |-> pass]

\* A mutant of IndexAdmits: the index is not unique.
IndexAdmitsAll(v) == v \in Values

\* Whether the unique index on key and client id admits the row.
IndexAdmits(v) == \A w \in values : w.key = v.key => w.id = v.id

\* SqliteProvider.Save: an INSERT, or an UPDATE that may find no row.
Stores(u) ==
    /\ req[u].pc = "write"
    /\ req[u].op = "store"
    /\ \/ /\ req[u].id = 0
          /\ nextId <= MaxId
          /\ IF IndexAdmits(Encrypted(u, nextId))
             THEN /\ values' = values \cup {Encrypted(u, nextId)}
                  /\ nextId' = nextId + 1
             ELSE UNCHANGED <<values, nextId>>
       \/ /\ req[u].id # 0
          /\ values' = IF Row(req[u].id) # {} /\ IndexAdmits(Encrypted(u, req[u].id))
                       THEN (values \ Row(req[u].id)) \cup {Encrypted(u, req[u].id)}
                       ELSE values
          /\ UNCHANGED nextId
    /\ Ends(u)
    /\ UNCHANGED <<file, status, memory, admin, history>>

\* SqliteProvider.Delete
Deletes(u) ==
    /\ req[u].pc = "write"
    /\ req[u].op = "delete"
    /\ values' = values \ Row(req[u].id)
    /\ Ends(u)
    /\ UNCHANGED <<file, status, nextId, memory, admin, history>>

\* GetOne decrypts what it has read, or fails to.
Decrypts(u) ==
    /\ req[u].pc = "decrypt"
    /\ Ends(u)
    /\ UNCHANGED <<database, memory, admin, history>>

\* The server restarts: the database is opened if its file exists, the password is forgotten.
Restart ==
    /\ opened' = file
    /\ pass' = Empty
    /\ admin' = [a \in Admins |-> IdleAdmin]
    /\ req' = [u \in Users |-> IdleUser]
    /\ overlapped' = {}
    /\ UNCHANGED <<database, replaced>>

AdminStep(a) ==
    \/ \E p \in Passwords : InitChecks(a, p) \/ UnLockChecks(a, p)
    \/ InitCreates(a) \/ InitSetsStatus(a) \/ SetPass(a) \/ UnLockMatches(a) \/ LockChecks(a)
    \/ LockClears(a) \/ AdminFails(a)

UserStep(u) ==
    \/ Ask(u) \/ ChecksInitialized(u) \/ FindByKey(u) \/ GetByID(u) \/ Stores(u) \/ Deletes(u)
    \/ Decrypts(u)

Next == (\E a \in Admins : AdminStep(a)) \/ (\E u \in Users : UserStep(u)) \/ Restart

Spec == Init /\ [][Next]_vars

-----------------------------------------------------------------------------
AdminRequests == [pc : {"idle", "create", "setStatus", "setPass", "match", "lock"},
                  pass : Passwords \cup {Empty}]
UserRequests == [pc : {"idle", "asked", "find", "read", "write", "decrypt"},
                 op : {None, "store", "get", "delete"}, id : 0 .. MaxId,
                 key : Keys \cup {None}, group : Groups \cup {NoGroup, None},
                 found : 0 .. MaxId, row : Values \cup {None}, vault : {"unlocked", "locked"}]

\* Types; what is about to be written is a full value.
TypeOK ==
    /\ file \in BOOLEAN
    /\ status \in Passwords \cup {None}
    /\ values \subseteq Values
    /\ nextId \in 1 .. MaxId + 1
    /\ opened \in BOOLEAN
    /\ pass \in Passwords \cup {Empty}
    /\ admin \in [Admins -> AdminRequests]
    /\ req \in [Users -> UserRequests]
    /\ \A u \in Users : req[u].op = "store" => req[u].key \in Keys /\ req[u].group \in Groups \cup {NoGroup}
    /\ overlapped \subseteq Admins
    /\ replaced \subseteq Passwords

\* The passwords that the vault has been initialized with: one, unless Inits overlap.
MasterPasswords == ({status} \cup replaced) \ {None}

\* The password in memory is one that the database was initialized with, through failing and
\* interrupted inits, restarts and unlocks with any password: an unlocked vault works with a
\* password that a later unlock refuses only if an Init, past its check, has replaced the status of
\* another.
UnlockedWithMaster == pass # Empty => opened /\ pass \in MasterPasswords

\* Whoever unlocks the vault can read all of it: values are encrypted with the password of the
\* status.  There are two exceptions.  Inits that overlap leave values of a password whose status was
\* replaced by the other's; an Init that begins later never does.  And a Store encrypts with the empty
\* password when the vault was locked since its check; one that comes to a locked vault never does.
StoredReadable ==
    /\ \A v \in values : v.pass \in MasterPasswords \cup {Empty}
    /\ \A u \in Users : req[u].row # None => req[u].row.pass \in MasterPasswords \cup {Empty}
    /\ IsLocked => \A u \in Users : req[u].pc # "idle" => req[u].vault = "locked"

\* A key of a client has one value and an id one row, although Store looks the key up long before
\* it writes, and other requests store, rename and delete in between.
OneValuePerKey ==
    \A v, w \in values : v.key = w.key \/ v.id = w.id => v = w

\* An id that Store has given out stands for that value only: rows that are deleted do not hand
\* their id to a new value, under requests that still hold it.
IdsAreFresh == [][\A v \in values' : v.id >= nextId \/ \E w \in values : w.id = v.id]_vars
=============================================================================
