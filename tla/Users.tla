------------------------------- MODULE Users --------------------------------
(***************************************************************************)
(* The API users, kept in a file: users.APIService, which checks a request *)
(* against the cache, the FileAdapter, which reads the file, changes and   *)
(* saves it and loads the cache again under its mutex, the reload on       *)
(* SIGUSR1, which takes no mutex, and the FileManager, whose own lock      *)
(* makes one reading or one writing of the file a step.                    *)
(*                                                                         *)
(* The file can be edited by hand, but not while a request changes it.  A  *)
(* write truncates the file first, so that one that fails, or is cut short *)
(* by the end of the server, leaves a piece of what it should have been.   *)
(* The variable file is what parseUsers makes of the file: it trims names  *)
(* and refuses a blank name and one that is there twice, which the service *)
(* and the provider do not look for.                                       *)
(***************************************************************************)
EXTENDS Integers

CONSTANTS
    Names,     \* user names
    Trim,      \* what strings.TrimSpace leaves of each, None when it is blank
    Fields,    \* the fields of a user; two_fa_send_to is one of them
    Values,    \* values of a field
    Requests,  \* requests that change users
    Asked,     \* what they may ask for
    Drafts,    \* what an administrator may write to the file by hand
    NoUser, Torn, Keep, None,
    MaxEdits, MaxFaults  \* bounds on edits by hand, and on failing writes and restarts

SendTo == "two_fa_send_to"
User == [Fields -> Values]
Contents == [Names -> User \cup {NoUser}]
Changes == [Fields -> Values \cup {Keep}]

\* A request: to add a user, to change it, and possibly its name, or to delete it.
Asks == [op : {"add", "update", "delete"}, name : Names, new : Names, change : Changes]

ASSUME UsersAssumption ==
    /\ SendTo \in Fields
    /\ Trim \in [Names -> Names \cup {None}]
    /\ Asked \subseteq Asks
    /\ Drafts \subseteq {c \in Contents : \A n \in Names : c[n] # NoUser => Trim[n] = n}
    /\ NoUser \notin User
    /\ Torn \notin Contents
    /\ Keep \notin Values
    /\ None \notin Requests \cup Names
    /\ MaxEdits \in Nat /\ MaxFaults \in Nat

VARIABLES
    file,     \* the users file
    cache,    \* UserCache.byUsername
    mtx,      \* holder of FileAdapter.mtx, or None
    req,      \* where each request is
    asked,    \* what it asks for
    read,     \* what it has read from the file
    reload,   \* the goroutine of FileAdapter.reload
    reading,  \* what that has read
    signal,   \* whether its channel, of capacity 1, holds a signal
    stale,    \* why the cache was left behind: "no", "error" or "overtaken" (history)
    edits, faults

request == <<req, asked, read>>
reloader == <<reload, reading, signal>>
vars == <<file, cache, mtx, request, reloader, stale, edits, faults>>

Init ==
    /\ file \in Drafts
    /\ cache = file
    /\ mtx = None
    /\ req = [r \in Requests |-> "idle"]
    /\ asked = [r \in Requests |-> None]
    /\ read = [r \in Requests |-> None]
    /\ reload = "idle"
    /\ reading = None
    /\ signal = FALSE
    /\ stale = "no"
    /\ edits = 0
    /\ faults = 0

-----------------------------------------------------------------------------
(* APIService: what is checked before the provider is called               *)

\* APIService.validate
Valid(a) ==
    CASE a.op = "add"    -> a.new = a.name /\ \A f \in Fields : a.change[f] # Keep
      [] a.op = "update" -> a.new # a.name \/ \E f \in Fields : a.change[f] # Keep
      [] a.op = "delete" -> a.new = a.name /\ \A f \in Fields : a.change[f] = Keep

\* handleChangeUser, handleDeleteUser, handleChangeMe and the handlers of tokens.
Ask(r) ==
    /\ req[r] = "idle"
    /\ \E a \in Asked : Valid(a) /\ asked' = [asked EXCEPT ![r] = a]
    /\ req' = [req EXCEPT ![r] = "check"]
    /\ UNCHANGED <<file, cache, mtx, read, reloader, stale, edits, faults>>

\* The answer, whatever it is; the mutex is released if it is held.
Answer(r) ==
    /\ req' = [req EXCEPT ![r] = "idle"]
    /\ asked' = [asked EXCEPT ![r] = None]
    /\ read' = [read EXCEPT ![r] = None]
    /\ mtx' = IF mtx = r THEN None ELSE mtx

\* The name must be free in the content c to be added, and must be there otherwise.
Known(a, c) == (c[a.name] = NoUser) = (a.op = "add")

\* A new name must be free in c.
Free(a, c) == a.new = a.name \/ c[a.new] = NoUser

\* GetByUsername of addUser, updateUser and Delete.
Check(r) ==
    /\ req[r] = "check"
    /\ IF Known(asked[r], cache)
       THEN req' = [req EXCEPT ![r] = IF asked[r].op = "update" THEN "checkNew" ELSE "call"]
            /\ UNCHANGED <<mtx, asked, read>>
       ELSE Answer(r)
    /\ UNCHANGED <<file, cache, reloader, stale, edits, faults>>

\* The second GetByUsername of updateUser, for the new name.
CheckNew(r) ==
    /\ req[r] = "checkNew"
    /\ IF Free(asked[r], cache)
       THEN req' = [req EXCEPT ![r] = "call"] /\ UNCHANGED <<mtx, asked, read>>
       ELSE Answer(r)
    /\ UNCHANGED <<file, cache, reloader, stale, edits, faults>>

-----------------------------------------------------------------------------
(* FileAdapter: Add, Update and Delete                                     *)

\* A mutant of ReadUsers: the mutex is taken for the write only.
ReadUsersUnlocked(r) ==
    /\ req[r] = "call"
    /\ file # Torn
    /\ Known(asked[r], file) /\ Free(asked[r], file)
    /\ req' = [req EXCEPT ![r] = "save"]
    /\ read' = [read EXCEPT ![r] = file]
    /\ UNCHANGED <<file, cache, mtx, asked, reloader, stale, edits, faults>>

\* The mutex is taken, the file read and the checks are made again on what it says.
ReadUsers(r) ==
    /\ req[r] = "call"
    /\ mtx = None
    /\ IF file # Torn /\ Known(asked[r], file) /\ Free(asked[r], file)
       THEN /\ mtx' = r
            /\ req' = [req EXCEPT ![r] = "save"]
            /\ read' = [read EXCEPT ![r] = file]
            /\ asked' = asked
       ELSE Answer(r)
    /\ UNCHANGED <<file, cache, reloader, stale, edits, faults>>

\* The fields of u after Update, which does not look at two_fa_send_to.
Updated(u, change) ==
    [f \in Fields |-> IF f = SendTo \/ change[f] = Keep THEN u[f] ELSE change[f]]

\* The user a request writes, and the others in the content c.
Changed(a, c) == IF a.op = "add" THEN a.change ELSE Updated(c[a.name], a.change)
Others(a, c) == IF a.op = "add" THEN c ELSE [c EXCEPT ![a.name] = NoUser]

\* What parseUsers makes of what is written: the content c after the request a.
Written(a, c) ==
    CASE a.op = "delete"          -> Others(a, c)
      [] a.op # "delete" /\ (Trim[a.new] = None \/ Others(a, c)[Trim[a.new]] # NoUser) -> Torn
      [] OTHER                    -> [Others(a, c) EXCEPT ![Trim[a.new]] = Changed(a, c)]

Part(c, s) == [n \in Names |-> IF n \in s THEN c[n] ELSE NoUser]

\* What a write that does not finish leaves: a file that cannot be parsed, or some of the users,
\* as parseUsers takes the end of the file for the end of the list.
Pieces(a, c) ==
    {Torn} \cup {Part(Others(a, c), s) : s \in SUBSET Names}
           \cup {Part([Others(a, c) EXCEPT ![Trim[a.new]] = Changed(a, c)], s) :
                     s \in IF a.op = "delete" \/ Trim[a.new] = None THEN {} ELSE SUBSET Names}

\* SaveUsersToFile
SaveUsers(r) ==
    /\ req[r] = "save"
    /\ file' = Written(asked[r], read[r])
    /\ req' = [req EXCEPT ![r] = "load"]
    /\ UNCHANGED <<cache, mtx, asked, read, reloader, stale, edits, faults>>

\* A mutant of SaveFails: the error is returned with the mutex held.
SaveFailsLocked(r) ==
    /\ req[r] = "save"
    /\ faults < MaxFaults /\ faults' = faults + 1
    /\ file' = file
    /\ req' = [req EXCEPT ![r] = "idle"]
    /\ UNCHANGED <<cache, mtx, asked, read, reloader, stale, edits>>

\* The file cannot be opened, or not be written to the end.  The cache is not loaded again.
SaveFails(r) ==
    /\ req[r] = "save"
    /\ faults < MaxFaults /\ faults' = faults + 1
    /\ file' \in {file} \cup Pieces(asked[r], read[r])
    /\ stale' = IF file' # file THEN "error" ELSE stale
    /\ Answer(r)
    /\ UNCHANGED <<cache, reloader, edits>>

\* The reading of load, after the write.  A file that cannot be parsed is an error of the request,
\* and the cache stays what it was.
ReadBack(r) ==
    /\ req[r] = "load"
    /\ IF file = Torn
       THEN Answer(r) /\ stale' = "error"
       ELSE /\ req' = [req EXCEPT ![r] = "cache"]
            /\ read' = [read EXCEPT ![r] = file]
            /\ UNCHANGED <<mtx, asked, stale>>
    /\ UNCHANGED <<file, cache, reloader, edits, faults>>

\* The file cannot be opened or read, before the change or by the load after it.
ReadFails(r) ==
    /\ faults < MaxFaults /\ faults' = faults + 1
    /\ \/ req[r] = "call" /\ mtx = None /\ stale' = stale
       \/ req[r] = "load" /\ stale' = "error"
    /\ Answer(r)
    /\ UNCHANGED <<file, cache, reloader, edits>>

\* A mutant of LoadCache: the cache is left to the next reload.
LoadNothing(r) ==
    /\ req[r] = "cache"
    /\ Answer(r)
    /\ UNCHANGED <<file, cache, reloader, stale, edits, faults>>

\* UserCache.Load of load, and the return.
LoadCache(r) ==
    /\ req[r] = "cache"
    /\ cache' = read[r]
    /\ stale' = "no"
    /\ Answer(r)
    /\ UNCHANGED <<file, reloader, edits, faults>>

-----------------------------------------------------------------------------
(* FileAdapter.reload                                                      *)

Signal ==
    /\ ~signal
    /\ signal' = TRUE
    /\ UNCHANGED <<file, cache, mtx, request, reload, reading, stale, edits, faults>>

\* load of the reload: the reading, without the mutex; an error is only logged.
ReloadReads ==
    /\ reload = "idle" /\ signal
    /\ signal' = FALSE
    /\ IF file = Torn THEN stale' = "error" /\ UNCHANGED <<reload, reading>>
       ELSE reload' = "read" /\ reading' = file /\ stale' = stale
    /\ UNCHANGED <<file, cache, mtx, request, edits, faults>>

ReloadFails ==
    /\ reload = "idle" /\ signal
    /\ faults < MaxFaults /\ faults' = faults + 1
    /\ signal' = FALSE
    /\ stale' = "error"
    /\ UNCHANGED <<file, cache, mtx, request, reload, reading, edits>>

ReloadLoads ==
    /\ reload = "read"
    /\ cache' = reading
    /\ stale' = IF reading = file THEN "no" ELSE "overtaken"
    /\ reload' = "idle"
    /\ reading' = None
    /\ UNCHANGED <<file, mtx, request, signal, edits, faults>>

-----------------------------------------------------------------------------
(* The file and the server                                                 *)

\* The file is edited by hand, and the server told so, as the documentation says.
EditFile ==
    /\ mtx = None
    /\ edits < MaxEdits /\ edits' = edits + 1
    /\ file' \in Drafts
    /\ signal' = TRUE
    /\ UNCHANGED <<cache, mtx, request, reload, reading, stale, faults>>

\* What the end of the server leaves of the file; the write of a request may be cut short.
LeftByCrash ==
    {file} \cup UNION {Pieces(asked[r], read[r]) : r \in {q \in Requests : req[q] = "save"}}

\* The server ends, and starts again with NewFileAdapter, which needs a file that can be parsed
\* (otherwise nothing happens any more).
Restart ==
    /\ faults < MaxFaults /\ faults' = faults + 1
    /\ file' \in LeftByCrash \ {Torn}
    /\ cache' = file'
    /\ mtx' = None
    /\ req' = [r \in Requests |-> "idle"]
    /\ asked' = [r \in Requests |-> None]
    /\ read' = [r \in Requests |-> None]
    /\ reload' = "idle"
    /\ reading' = None
    /\ signal' = FALSE
    /\ stale' = "no"
    /\ edits' = edits

-----------------------------------------------------------------------------
Step(r) ==
    \/ Check(r) \/ CheckNew(r)
    \/ ReadUsers(r) \/ SaveUsers(r) \/ SaveFails(r) \/ ReadBack(r) \/ ReadFails(r) \/ LoadCache(r)

Reload == ReloadReads \/ ReloadFails \/ ReloadLoads

Next ==
    \/ \E r \in Requests : Ask(r) \/ Step(r)
    \/ Signal \/ Reload
    \/ EditFile \/ Restart

Spec == Init /\ [][Next]_vars

(***************************************************************************)
(* A request that is under way goes on, and a mutex that becomes free      *)
(* again and again is given to each that waits, as sync.Mutex does; the    *)
(* reload goes on when it has a signal.                                    *)
(***************************************************************************)
Fairness ==
    /\ \A r \in Requests : WF_vars(Step(r)) /\ SF_vars(ReadUsers(r))
    /\ WF_vars(Reload)

FairSpec == Spec /\ Fairness
-----------------------------------------------------------------------------
(* Properties *)

Holding == {"save", "load", "cache"}

\* The variables hold values of their types (FileAdapter, UserCache, the requests).
TypeOK ==
    /\ file \in Contents \cup {Torn}
    /\ cache \in Contents
    /\ mtx \in Requests \cup {None}
    /\ req \in [Requests -> {"idle", "check", "checkNew", "call"} \cup Holding]
    /\ asked \in [Requests -> Asks \cup {None}]
    /\ read \in [Requests -> Contents \cup {None}]
    /\ reload \in {"idle", "read"}
    /\ reading \in Contents \cup {None}
    /\ signal \in BOOLEAN /\ stale \in {"no", "error", "overtaken"}
    /\ edits \in 0 .. MaxEdits /\ faults \in 0 .. MaxFaults

Map == INSTANCE UserMap WITH users <- file

\* The file is a map that every request changes by one user, on its latest content: no request
\* undoes the change of another, whatever was checked against the cache before (read, change and
\* save of FileAdapter under mtx).  A write that does not finish, or that cannot be read back,
\* loses users, but invents none.
FileIsUserMap == Map!Spec

\* When no request and no reload is under way the cache is what the file says.  It is left behind
\* in two cases only: who changed or read the file last was told of an error (a write that did
\* not finish, a file that load cannot read or parse), or a reload, which takes no mutex, loaded
\* what it had read before a request changed the file.  The next load without an error ends both.
CacheFollowsFile ==
    mtx = None /\ reload = "idle" /\ ~signal => cache = file \/ stale \in {"error", "overtaken"}

\* Every request is answered, although others fail, and it gets the mutex.
RequestsAnswered == \A r \in Requests : req[r] # "idle" ~> req[r] = "idle"

\* The cache follows the file whenever nothing is under way and nothing has failed.  A reload that reads the file before
\* a request saves it and loads the cache after that request leaves the old users in the cache
\* until the next change, so this is not an invariant.
CacheAlwaysFollowsFile ==
    mtx = None /\ reload = "idle" /\ ~signal /\ faults = 0 => cache = file
=============================================================================
