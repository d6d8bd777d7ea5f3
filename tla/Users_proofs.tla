---------------------------- MODULE Users_proofs ----------------------------
(***************************************************************************)
(* The users file implements a map of users, and the cache follows it, for *)
(* any number of users, requests, edits, faults and reloads.               *)
(***************************************************************************)
EXTENDS Users, TLAPS

\* What a request under way asks for has passed APIService.validate.
AskedInv == \A r \in Requests : req[r] # "idle" => asked[r] \in Asks /\ Valid(asked[r])

\* The mutex is held from the reading of the file to the loading of the cache, and the file does
\* not change meanwhile: what is about to be written is made from its latest content.
LockInv ==
    \A r \in Requests :
        /\ mtx = r <=> req[r] \in Holding
        /\ req[r] = "save" => read[r] = file /\ file # Torn /\ Known(asked[r], file) /\ Free(asked[r], file)
        /\ req[r] = "cache" => read[r] = file /\ file # Torn

\* The cache can only be behind the file between the write of a request and its load, or when a
\* reload has been asked for or is under way, or was overtaken, or somebody was told of an error.
\* A file that cannot be parsed is an error of the request that has written it, once it loads it.
CacheInv ==
    /\ file = Torn /\ (\A r \in Requests : req[r] # "load") => stale # "no"
    /\ (\A r \in Requests : req[r] \notin {"load", "cache"}) /\ reload = "idle" /\ ~signal
           => cache = file \/ stale # "no"

ReloadInv == reload = "read" => reading \in Contents

Inv == TypeOK /\ AskedInv /\ LockInv /\ ReloadInv /\ CacheInv
-----------------------------------------------------------------------------

\* A user n is added as u to the content c, changed to u and named m, or deleted: d is the result.
ChangeOf(c, d, n, m, u) ==
    \/ c[n] = NoUser /\ d = [c EXCEPT ![n] = u]
    \/ /\ c[n] # NoUser
       /\ m = n \/ c[m] = NoUser
       /\ d = [x \in Names |-> IF x = m THEN u ELSE IF x = n THEN NoUser ELSE c[x]]
    \/ c[n] # NoUser /\ d = [c EXCEPT ![n] = NoUser]

OneChange(c, d) == \E n, m \in Names, u \in User : ChangeOf(c, d, n, m, u)

\* The user that a request adds or changes is one, and the others are users of the content.
LEMMA ChangedType ==
    ASSUME NEW a \in Asks, NEW c \in Contents, Valid(a), Known(a, c)
    PROVE  /\ Changed(a, c) \in User
           /\ Others(a, c) \in Contents
           /\ a.op # "add" => c[a.name] # NoUser
           /\ a.op = "add" => c[a.name] = NoUser /\ a.new = a.name
           /\ \A x \in Names : Others(a, c)[x] = IF a.op # "add" /\ x = a.name THEN NoUser ELSE c[x]
<1>0. a.op \in {"add", "update", "delete"} /\ a.name \in Names /\ a.new \in Names /\ a.change \in Changes
  BY DEF Asks
<1>1. CASE a.op = "add"
  <2>1. a.change \in User
    BY <1>0, <1>1 DEF Valid, Changes, User
  <2> QED
    BY <1>0, <1>1, <2>1 DEF Changed, Others, Known, Valid
<1>2. CASE a.op # "add"
  <2>1. c[a.name] # NoUser
    BY <1>2 DEF Known
  <2>2. c[a.name] \in User
    BY <1>0, <2>1 DEF Contents
  <2>3. Updated(c[a.name], a.change) \in User
    BY <1>0, <2>2 DEF Updated, User, Changes
  <2>4. Others(a, c) = [c EXCEPT ![a.name] = NoUser] /\ Changed(a, c) = Updated(c[a.name], a.change)
    BY <1>2 DEF Others, Changed
  <2> QED
    BY <1>0, <1>2, <2>1, <2>3, <2>4 DEF Contents
<1> QED
  BY <1>1, <1>2

\* What a request writes (Add, Update, Delete of FileAdapter) cannot be read back, or is the
\* content it has read with the change of one user, as UserMap has it.
LEMMA WrittenIsChange ==
    ASSUME NEW a \in Asks, NEW c \in Contents, Valid(a), Known(a, c), Free(a, c)
    PROVE  \/ Written(a, c) = Torn
           \/ Written(a, c) \in Contents /\ OneChange(c, Written(a, c))
<1> DEFINE o == Others(a, c)
           u == Changed(a, c)
           m == Trim[a.new]
<1>0. a.op \in {"add", "update", "delete"} /\ a.name \in Names /\ a.new \in Names
  BY DEF Asks
<1>1. /\ u \in User /\ o \in Contents
      /\ a.op # "add" => c[a.name] # NoUser
      /\ a.op = "add" => c[a.name] = NoUser /\ a.new = a.name
      /\ \A x \in Names : o[x] = IF a.op # "add" /\ x = a.name THEN NoUser ELSE c[x]
  BY ChangedType
<1>2. CASE a.op = "delete"
  <2>1. Written(a, c) = o
    BY <1>2 DEF Written
  <2>2. o = [c EXCEPT ![a.name] = NoUser]
    BY <1>2 DEF Others
  <2>3. ChangeOf(c, o, a.name, a.name, u)
    BY <1>1, <1>2, <2>2 DEF ChangeOf
  <2> QED
    BY <1>0, <1>1, <2>1, <2>3 DEF OneChange
<1>3. CASE a.op # "delete" /\ (m = None \/ o[m] # NoUser)
  <2>1. Written(a, c) = Torn
    BY <1>3 DEF Written
  <2> QED
    BY <2>1
<1>4. CASE a.op # "delete" /\ ~(m = None \/ o[m] # NoUser)
  <2>1. Written(a, c) = [o EXCEPT ![m] = u]
    BY <1>4 DEF Written
  <2>2. m \in Names
    BY <1>0, <1>4, UsersAssumption
  <2> HIDE DEF o, u, m
  <2>3. [o EXCEPT ![m] = u] \in Contents
    BY <1>1, <2>2 DEF Contents
  <2>4. CASE a.op = "add"
    <3>1. o = c
      BY <2>4 DEF o, Others
    <3>2. ChangeOf(c, [o EXCEPT ![m] = u], m, m, u)
      BY <1>4, <3>1 DEF ChangeOf
    <3> QED
      BY <1>1, <2>1, <2>2, <2>3, <3>2 DEF OneChange
  <2>5. CASE a.op # "add"
    <3>1. m = a.name \/ c[m] = NoUser
      BY <1>1, <1>4, <2>2, <2>5
    <3>2. [o EXCEPT ![m] = u] = [x \in Names |-> IF x = m THEN u ELSE IF x = a.name THEN NoUser ELSE c[x]]
      BY <1>1, <2>2, <2>5 DEF Contents
    <3>3. ChangeOf(c, [o EXCEPT ![m] = u], a.name, m, u)
      BY <1>1, <2>5, <3>1, <3>2 DEF ChangeOf
    <3> QED
      BY <1>0, <1>1, <2>1, <2>2, <2>3, <3>3 DEF OneChange
  <2> QED
    BY <2>4, <2>5
<1> QED
  BY <1>2, <1>3, <1>4

\* What the users in s are after the user n of the content c was removed and m set to u, and that
\* d is such a remainder of c or cannot be parsed, as UserMap has it.
Remains(c, n, m, u, s) ==
    [x \in Names |-> IF x \notin s THEN NoUser ELSE IF x = m THEN u ELSE IF x = n THEN NoUser ELSE c[x]]

IsRemainder(c, d) == \E n, m \in Names, u \in User, s \in SUBSET Names : d \in {Torn, Remains(c, n, m, u, s)}

\* A piece of what a request writes cannot be parsed, or has some users of the content, without
\* the one that the request removes, and with the one that it adds.
LEMMA PiecesOf ==
    ASSUME NEW a \in Asks, NEW c \in Contents, Valid(a), Known(a, c), NEW d \in Pieces(a, c)
    PROVE  /\ d \in Contents \cup {Torn}
           /\ IsRemainder(c, d)
<1> DEFINE o == Others(a, c)
           u == Changed(a, c)
           m == Trim[a.new]
<1>0. a.op \in {"add", "update", "delete"} /\ a.name \in Names /\ a.new \in Names
  BY DEF Asks
<1>1. /\ u \in User /\ o \in Contents
      /\ a.op = "add" => c[a.name] = NoUser
      /\ \A x \in Names : o[x] = IF a.op # "add" /\ x = a.name THEN NoUser ELSE c[x]
  BY ChangedType
<1>2. \A x \in Names : o[x] = IF x = a.name THEN NoUser ELSE c[x]
  BY <1>1
<1>3. \/ d = Torn
      \/ \E s \in SUBSET Names : d = Part(o, s)
      \/ m # None /\ \E s \in SUBSET Names : d = Part([o EXCEPT ![m] = u], s)
  BY DEF Pieces
<1> HIDE DEF o, u, m
<1>4. CASE d = Torn
  <2>1. {} \in SUBSET Names
    OBVIOUS
  <2>2. IsRemainder(c, d)
    BY <1>0, <1>1, <1>4, <2>1 DEF IsRemainder
  <2> QED
    BY <1>4, <2>2
<1>5. ASSUME NEW s \in SUBSET Names, d = Part(o, s) PROVE d \in Contents /\ IsRemainder(c, d)
  <2>1. d \in Contents /\ d = Remains(c, a.name, a.name, u, s \ {a.name})
    BY <1>0, <1>1, <1>2, <1>5 DEF Part, Contents, Remains
  <2>2. s \ {a.name} \in SUBSET Names
    OBVIOUS
  <2> QED
    BY <1>0, <1>1, <2>1, <2>2 DEF IsRemainder
<1>6. ASSUME NEW s \in SUBSET Names, m # None, d = Part([o EXCEPT ![m] = u], s)
      PROVE  d \in Contents /\ IsRemainder(c, d)
  <2>1. m \in Names
    BY <1>0, <1>6, UsersAssumption DEF m
  <2>2. d \in Contents /\ d = Remains(c, a.name, m, u, s)
    BY <1>0, <1>1, <1>2, <1>6, <2>1 DEF Part, Contents, Remains
  <2> QED
    BY <1>0, <1>1, <2>1, <2>2 DEF IsRemainder
<1> QED
  BY <1>3, <1>4, <1>5, <1>6

\* What a request that saves has read and asks for, so that WrittenIsChange applies.
LEMMA SavingFacts ==
    ASSUME Inv, NEW r \in Requests, req[r] = "save"
    PROVE  /\ asked[r] \in Asks /\ Valid(asked[r])
           /\ read[r] = file /\ file # Torn /\ file \in Contents
           /\ Known(asked[r], file) /\ Free(asked[r], file)
           /\ Written(asked[r], read[r]) \in Contents \cup {Torn}
           /\ Written(asked[r], read[r]) # Torn => OneChange(file, Written(asked[r], read[r]))
<1>1. asked[r] \in Asks /\ Valid(asked[r])
  BY DEF Inv, AskedInv
<1>2. read[r] = file /\ file # Torn /\ Known(asked[r], file) /\ Free(asked[r], file)
  BY DEF Inv, LockInv
<1>3. file \in Contents
  BY <1>2 DEF Inv, TypeOK
<1> QED
  BY <1>1, <1>2, <1>3, WrittenIsChange

\* The users file begins with its types right and nobody at work (NewFileAdapter).
LEMMA InitInv == Init => Inv
<1> SUFFICES ASSUME Init PROVE Inv
  OBVIOUS
<1>1. TypeOK
  <2>1. file \in Contents /\ cache \in Contents
    BY UsersAssumption DEF Init
  <2>2. signal \in BOOLEAN
    BY Zenon DEF Init
  <2>3. edits \in 0 .. MaxEdits /\ faults \in 0 .. MaxFaults
    BY UsersAssumption DEF Init
  <2> QED
    BY <2>1, <2>2, <2>3 DEF Init, TypeOK
<1>2. AskedInv
  BY DEF Init, AskedInv
<1>3. LockInv
  BY UsersAssumption DEF Init, LockInv, Holding
<1>4. ReloadInv /\ CacheInv
  BY UsersAssumption DEF Init, ReloadInv, CacheInv
<1> QED
  BY <1>1, <1>2, <1>3, <1>4 DEF Inv

\* An answered request holds nothing, and nobody else is touched.
LEMMA AnswerInv ==
    ASSUME Inv, NEW r \in Requests, Answer(r), file' = file \/ req[r] = "save"
    PROVE  /\ req' \in [Requests -> {"idle", "check", "checkNew", "call"} \cup Holding]
           /\ asked' \in [Requests -> Asks \cup {None}]
           /\ read' \in [Requests -> Contents \cup {None}]
           /\ mtx' \in Requests \cup {None}
           /\ AskedInv'
           /\ LockInv'
<1>1. /\ req' = [req EXCEPT ![r] = "idle"]
      /\ asked' = [asked EXCEPT ![r] = None]
      /\ read' = [read EXCEPT ![r] = None]
      /\ mtx' = IF mtx = r THEN None ELSE mtx
  BY DEF Answer
<1>2. /\ req \in [Requests -> {"idle", "check", "checkNew", "call"} \cup Holding]
      /\ asked \in [Requests -> Asks \cup {None}]
      /\ read \in [Requests -> Contents \cup {None}]
      /\ mtx \in Requests \cup {None}
  BY DEF Inv, TypeOK
<1>3. AskedInv'
  BY <1>1, <1>2 DEF Inv, AskedInv
<1>4. LockInv'
  <2> SUFFICES ASSUME NEW q \in Requests
               PROVE  /\ mtx' = q <=> req'[q] \in Holding
                      /\ req'[q] = "save" => read'[q] = file' /\ file' # Torn /\ Known(asked'[q], file') /\ Free(asked'[q], file')
                      /\ req'[q] = "cache" => read'[q] = file' /\ file' # Torn
    BY DEF LockInv
  <2>1. CASE q = r
    BY <1>1, <1>2, <2>1, UsersAssumption DEF Holding
  <2>2. CASE q # r
    <3>1. req'[q] = req[q] /\ read'[q] = read[q] /\ asked'[q] = asked[q]
      BY <1>1, <1>2, <2>2
    <3>2. mtx' = q <=> mtx = q
      BY <1>1, <2>2, UsersAssumption
    <3>3. req[q] \in Holding => file' = file
      BY <2>2 DEF Inv, LockInv, Holding
    <3> QED
      BY <3>1, <3>2, <3>3 DEF Inv, LockInv, Holding
  <2> QED
    BY <2>1, <2>2
<1> QED
  BY <1>1, <1>2, <1>3, <1>4

\* A step of a request that keeps the file and the mutex and moves to a state that needs neither.
LEMMA GoesOn ==
    ASSUME Inv, NEW r \in Requests, NEW pc \in {"checkNew", "call"}, req[r] \in {"check", "checkNew"},
           req' = [req EXCEPT ![r] = pc], UNCHANGED <<file, mtx, asked, read>>
    PROVE  /\ req' \in [Requests -> {"idle", "check", "checkNew", "call"} \cup Holding]
           /\ AskedInv'
           /\ LockInv'
<1>1. req \in [Requests -> {"idle", "check", "checkNew", "call"} \cup Holding]
  BY DEF Inv, TypeOK
<1>2. \A q \in Requests : q # r => req'[q] = req[q]
  BY <1>1
<1>3. req'[r] = pc
  BY <1>1
<1>4. AskedInv'
  BY <1>2, <1>3 DEF Inv, AskedInv
<1>5. LockInv'
  BY <1>2, <1>3 DEF Inv, LockInv, Holding, Known, Free
<1> QED
  BY <1>1, <1>4, <1>5

\* Every step of the requests, of the reload and of the environment keeps the invariant.
LEMMA NextInv == Inv /\ [Next]_vars => Inv'
<1> SUFFICES ASSUME Inv, [Next]_vars PROVE Inv'
  OBVIOUS
<1> USE UsersAssumption
<1>t. TypeOK /\ AskedInv /\ LockInv /\ ReloadInv /\ CacheInv
  BY DEF Inv
<1>1. ASSUME NEW r \in Requests, Ask(r) PROVE Inv'
  <2>1. PICK a \in Asked : Valid(a) /\ asked' = [asked EXCEPT ![r] = a]
    BY <1>1 DEF Ask
  <2>2. a \in Asks
    BY <2>1
  <2>3. /\ req[r] = "idle" /\ req' = [req EXCEPT ![r] = "check"]
        /\ UNCHANGED <<file, cache, mtx, read, reload, reading, signal, stale, edits, faults>>
    BY <1>1 DEF Ask, reloader
  <2>4. TypeOK'
    BY <1>t, <2>1, <2>2, <2>3 DEF TypeOK
  <2>5. AskedInv'
    BY <1>t, <2>1, <2>2, <2>3 DEF TypeOK, AskedInv
  <2>6. LockInv'
    <3>1. \A q \in Requests : q # r => req'[q] = req[q] /\ asked'[q] = asked[q]
      BY <1>t, <2>1, <2>3 DEF TypeOK
    <3>2. req'[r] = "check"
      BY <1>t, <2>3 DEF TypeOK
    <3> QED
      BY <1>t, <2>3, <3>1, <3>2 DEF LockInv, Holding
  <2>7. ReloadInv' /\ CacheInv'
    BY <1>t, <2>3 DEF TypeOK, ReloadInv, CacheInv
  <2> QED
    BY <2>4, <2>5, <2>6, <2>7 DEF Inv
<1>2. ASSUME NEW r \in Requests, Check(r) \/ CheckNew(r) PROVE Inv'
  <2>1. /\ req[r] \in {"check", "checkNew"}
        /\ UNCHANGED <<file, cache, reload, reading, signal, stale, edits, faults>>
    BY <1>2 DEF Check, CheckNew, reloader
  <2>2. \/ Answer(r)
        \/ UNCHANGED <<mtx, asked, read>> /\ req' = [req EXCEPT ![r] = "checkNew"]
        \/ UNCHANGED <<mtx, asked, read>> /\ req' = [req EXCEPT ![r] = "call"]
    BY <1>2 DEF Check, CheckNew
  <2>3. ReloadInv'
    BY <1>t, <2>1 DEF ReloadInv
  <2>4. \A q \in Requests : /\ req'[q] \notin {"load", "cache"} => req[q] \notin {"load", "cache"}
                            /\ req'[q] # "load" => req[q] # "load"
    BY <1>t, <2>1, <2>2 DEF TypeOK, Answer
  <2>5. CacheInv'
    BY <1>t, <2>1, <2>4 DEF CacheInv
  <2>6. CASE Answer(r)
    BY <1>t, <2>1, <2>3, <2>5, <2>6, AnswerInv DEF Inv, TypeOK
  <2>7. CASE UNCHANGED <<mtx, asked, read>> /\ req' = [req EXCEPT ![r] = "checkNew"]
    BY <1>t, <2>1, <2>3, <2>5, <2>7, GoesOn DEF Inv, TypeOK
  <2>8. CASE UNCHANGED <<mtx, asked, read>> /\ req' = [req EXCEPT ![r] = "call"]
    BY <1>t, <2>1, <2>3, <2>5, <2>8, GoesOn DEF Inv, TypeOK
  <2> QED
    BY <2>2, <2>6, <2>7, <2>8
<1>3. ASSUME NEW r \in Requests, ReadUsers(r) PROVE Inv'
  <2>1. /\ req[r] = "call" /\ mtx = None
        /\ UNCHANGED <<file, cache, reload, reading, signal, stale, edits, faults>>
    BY <1>3 DEF ReadUsers, reloader
  <2>2. ReloadInv'
    BY <1>t, <2>1 DEF ReloadInv
  <2>3. CASE Answer(r)
    <3>1. \A q \in Requests : /\ req'[q] \notin {"load", "cache"} => req[q] \notin {"load", "cache"}
                              /\ req'[q] # "load" => req[q] # "load"
      BY <1>t, <2>1, <2>3 DEF TypeOK, Answer
    <3>2. CacheInv'
      BY <1>t, <2>1, <3>1 DEF CacheInv
    <3> QED
      BY <1>t, <2>1, <2>2, <2>3, <3>2, AnswerInv DEF Inv, TypeOK
  <2>4. CASE /\ file # Torn /\ Known(asked[r], file) /\ Free(asked[r], file)
             /\ mtx' = r
             /\ req' = [req EXCEPT ![r] = "save"]
             /\ read' = [read EXCEPT ![r] = file]
             /\ asked' = asked
    <3>1. TypeOK'
      BY <1>t, <2>1, <2>4 DEF TypeOK, Holding
    <3>2. \A q \in Requests : q # r => req'[q] = req[q] /\ read'[q] = read[q]
      BY <1>t, <2>4 DEF TypeOK
    <3>3. req'[r] = "save" /\ read'[r] = file
      BY <1>t, <2>4 DEF TypeOK
    <3>4. AskedInv'
      BY <1>t, <2>1, <2>4, <3>2, <3>3 DEF AskedInv
    <3>5. LockInv'
      BY <1>t, <2>1, <2>4, <3>2, <3>3 DEF LockInv, Holding
    <3>6. CacheInv'
      BY <1>t, <2>1, <2>4, <3>2, <3>3 DEF CacheInv
    <3> QED
      BY <2>2, <3>1, <3>4, <3>5, <3>6 DEF Inv
  <2> QED
    BY <1>3, <2>3, <2>4 DEF ReadUsers
<1>4. ASSUME NEW r \in Requests, SaveUsers(r) PROVE Inv'
  <2>1. /\ req[r] = "save" /\ req' = [req EXCEPT ![r] = "load"]
        /\ file' = Written(asked[r], read[r])
        /\ UNCHANGED <<cache, mtx, asked, read, reload, reading, signal, stale, edits, faults>>
    BY <1>4 DEF SaveUsers, reloader
  <2>2. asked[r] \in Asks /\ Valid(asked[r])
    BY <1>t, <2>1 DEF AskedInv
  <2>3. mtx = r /\ read[r] = file /\ file # Torn /\ Known(asked[r], file) /\ Free(asked[r], file)
    BY <1>t, <2>1 DEF LockInv, Holding
  <2>5. file' \in Contents \cup {Torn}
    BY <2>1, SavingFacts
  <2>7. TypeOK'
    BY <1>t, <2>1, <2>5 DEF TypeOK, Holding
  <2>8. \A q \in Requests : q # r => req'[q] = req[q] /\ req[q] \notin Holding
    BY <1>t, <2>1, <2>3 DEF TypeOK, LockInv
  <2>9. req'[r] = "load"
    BY <1>t, <2>1 DEF TypeOK
  <2>10. AskedInv'
    BY <1>t, <2>1, <2>8, <2>9 DEF AskedInv
  <2>11. LockInv'
    BY <1>t, <2>1, <2>3, <2>8, <2>9 DEF LockInv, Holding
  <2>12. ReloadInv' /\ CacheInv'
    BY <1>t, <2>1, <2>9 DEF ReloadInv, CacheInv
  <2> QED
    BY <2>7, <2>10, <2>11, <2>12 DEF Inv
<1>5. ASSUME NEW r \in Requests, SaveFails(r) PROVE Inv'
  <2>1. /\ req[r] = "save" /\ Answer(r)
        /\ file' = file \/ file' \in Pieces(asked[r], read[r])
        /\ faults < MaxFaults /\ faults' = faults + 1
        /\ UNCHANGED <<cache, reload, reading, signal, edits>>
    BY <1>5 DEF SaveFails, reloader
  <2>2. stale' = IF file' # file THEN "error" ELSE stale
    BY <1>5 DEF SaveFails
  <2>3. stale' \in {"no", "error", "overtaken"} /\ file # Torn
    BY <1>t, <2>1, <2>2, SavingFacts DEF TypeOK
  <2>4. file' \in Contents \cup {Torn}
    BY <1>t, <2>1, SavingFacts, PiecesOf DEF TypeOK
  <2>5. \A q \in Requests : req'[q] \notin {"load", "cache"} => req[q] \notin {"load", "cache"}
    BY <1>t, <2>1 DEF TypeOK, Answer
  <2>6. ReloadInv'
    BY <1>t, <2>1 DEF ReloadInv
  <2>7. CacheInv'
    BY <1>t, <2>1, <2>2, <2>3, <2>5 DEF CacheInv
  <2>8. faults' \in 0 .. MaxFaults
    BY <1>t, <2>1 DEF TypeOK
  <2> QED
    BY <1>t, <2>1, <2>3, <2>4, <2>6, <2>7, <2>8, AnswerInv DEF Inv, TypeOK
<1>6. ASSUME NEW r \in Requests, ReadBack(r) \/ ReadFails(r) PROVE Inv'
  <2>1. UNCHANGED <<file, cache, reload, reading, signal, edits>>
    BY <1>6 DEF ReadBack, ReadFails, reloader
  <2>2. ReloadInv'
    BY <1>t, <2>1 DEF ReloadInv
  <2>3. faults' \in 0 .. MaxFaults
    BY <1>t, <1>6 DEF TypeOK, ReadBack, ReadFails
  <2>4. CASE /\ req[r] = "load" /\ file # Torn
             /\ req' = [req EXCEPT ![r] = "cache"]
             /\ read' = [read EXCEPT ![r] = file]
             /\ UNCHANGED <<mtx, asked, stale>>
    <3>1. mtx = r
      BY <1>t, <2>4 DEF LockInv, Holding
    <3>2. TypeOK'
      BY <1>t, <2>1, <2>3, <2>4 DEF TypeOK, Holding
    <3>3. \A q \in Requests : q # r => req'[q] = req[q] /\ read'[q] = read[q] /\ req[q] \notin Holding
      BY <1>t, <2>4, <3>1 DEF TypeOK, LockInv
    <3>4. req'[r] = "cache" /\ read'[r] = file
      BY <1>t, <2>4 DEF TypeOK
    <3>5. AskedInv'
      BY <1>t, <2>4, <3>3, <3>4 DEF AskedInv
    <3>6. LockInv'
      BY <1>t, <2>1, <2>4, <3>1, <3>3, <3>4 DEF LockInv, Holding
    <3>7. CacheInv'
      BY <2>1, <2>4, <3>4 DEF CacheInv
    <3> QED
      BY <2>2, <3>2, <3>5, <3>6, <3>7 DEF Inv
  <2>5. CASE Answer(r) /\ req[r] = "load" /\ stale' = "error"
    <3>1. CacheInv'
      BY <2>5 DEF CacheInv
    <3> QED
      BY <1>t, <2>1, <2>2, <2>3, <2>5, <3>1, AnswerInv DEF Inv, TypeOK
  <2>6. CASE Answer(r) /\ req[r] = "call" /\ stale' = stale
    <3>1. \A q \in Requests : /\ req'[q] \notin {"load", "cache"} => req[q] \notin {"load", "cache"}
                              /\ req'[q] # "load" => req[q] # "load"
      BY <1>t, <2>6 DEF TypeOK, Answer
    <3>2. CacheInv'
      BY <1>t, <2>1, <2>6, <3>1 DEF CacheInv
    <3> QED
      BY <1>t, <2>1, <2>2, <2>3, <2>6, <3>2, AnswerInv DEF Inv, TypeOK
  <2> QED
    BY <1>6, <2>4, <2>5, <2>6 DEF ReadBack, ReadFails
<1>7. ASSUME NEW r \in Requests, LoadCache(r) PROVE Inv'
  <2>1. /\ req[r] = "cache" /\ Answer(r)
        /\ cache' = read[r] /\ stale' = "no"
        /\ UNCHANGED <<file, reload, reading, signal, edits, faults>>
    BY <1>7 DEF LoadCache, reloader
  <2>2. read[r] = file /\ file # Torn
    BY <1>t, <2>1 DEF LockInv
  <2>3. cache' = file /\ cache' \in Contents
    BY <1>t, <2>1, <2>2 DEF TypeOK
  <2>4. ReloadInv' /\ CacheInv'
    BY <1>t, <2>1, <2>2, <2>3 DEF ReloadInv, CacheInv
  <2> QED
    BY <1>t, <2>1, <2>3, <2>4, AnswerInv DEF Inv, TypeOK
<1>8. ASSUME Signal PROVE Inv'
  <2>1. signal' = TRUE /\ UNCHANGED <<file, cache, mtx, req, asked, read, reload, reading, stale, edits, faults>>
    BY <1>8 DEF Signal, request
  <2>2. TypeOK'
    BY <1>t, <2>1 DEF TypeOK
  <2>3. AskedInv' /\ LockInv' /\ ReloadInv' /\ CacheInv'
    BY <1>t, <2>1 DEF AskedInv, LockInv, ReloadInv, CacheInv
  <2> QED
    BY <2>2, <2>3 DEF Inv
<1>9. ASSUME ReloadReads \/ ReloadFails PROVE Inv'
  <2>1. /\ reload = "idle" /\ signal' = FALSE
        /\ UNCHANGED <<file, cache, mtx, req, asked, read, edits>>
    BY <1>9 DEF ReloadReads, ReloadFails, request
  <2>2. \/ stale' = "error" /\ reload' = reload /\ reading' = reading
        \/ file # Torn /\ reload' = "read" /\ reading' = file /\ stale' = stale
    BY <1>9 DEF ReloadReads, ReloadFails
  <2>3. faults' \in 0 .. MaxFaults
    BY <1>t, <1>9 DEF TypeOK, ReloadReads, ReloadFails
  <2>4. TypeOK'
    BY <1>t, <2>1, <2>2, <2>3 DEF TypeOK
  <2>5. AskedInv' /\ LockInv'
    BY <1>t, <2>1 DEF AskedInv, LockInv
  <2>6. ReloadInv' /\ CacheInv'
    BY <1>t, <2>1, <2>2 DEF TypeOK, ReloadInv, CacheInv
  <2> QED
    BY <2>4, <2>5, <2>6 DEF Inv
<1>10. ASSUME ReloadLoads PROVE Inv'
  <2>1. /\ reload = "read" /\ cache' = reading /\ reload' = "idle" /\ reading' = None
        /\ UNCHANGED <<file, mtx, req, asked, read, signal, edits, faults>>
    BY <1>10 DEF ReloadLoads, request
  <2>2. stale' = IF reading = file THEN "no" ELSE "overtaken"
    BY <1>10 DEF ReloadLoads
  <2>3. stale' \in {"no", "error", "overtaken"} /\ signal' \in BOOLEAN
    BY <1>t, <2>1, <2>2 DEF TypeOK
  <2>4. reading \in Contents
    BY <1>t, <2>1 DEF ReloadInv
  <2>5. TypeOK'
    BY <1>t, <2>1, <2>3, <2>4 DEF TypeOK
  <2>6. AskedInv' /\ LockInv' /\ ReloadInv'
    BY <1>t, <2>1 DEF AskedInv, LockInv, ReloadInv
  <2>7. CacheInv'
    BY <2>1, <2>2, <2>4 DEF CacheInv
  <2> QED
    BY <2>5, <2>6, <2>7 DEF Inv
<1>11. ASSUME EditFile PROVE Inv'
  <2>1. /\ mtx = None /\ file' \in Drafts /\ signal' = TRUE
        /\ edits < MaxEdits /\ edits' = edits + 1
        /\ UNCHANGED <<cache, mtx, req, asked, read, reload, reading, stale, faults>>
    BY <1>11 DEF EditFile, request
  <2>2. file' \in Contents
    BY <2>1
  <2>3. \A r \in Requests : req[r] \notin Holding
    BY <1>t, <2>1 DEF LockInv
  <2>4. edits' \in 0 .. MaxEdits
    BY <1>t, <2>1 DEF TypeOK
  <2>5. TypeOK'
    BY <1>t, <2>1, <2>2, <2>4 DEF TypeOK
  <2>6. AskedInv'
    BY <1>t, <2>1 DEF AskedInv
  <2>7. LockInv'
    BY <2>1, <2>3 DEF LockInv, Holding
  <2>8. ReloadInv' /\ CacheInv'
    BY <1>t, <2>1 DEF ReloadInv, CacheInv
  <2> QED
    BY <2>5, <2>6, <2>7, <2>8 DEF Inv
<1>12. ASSUME Restart PROVE Inv'
  <2>1. /\ file' \in LeftByCrash /\ file' # Torn /\ cache' = file' /\ mtx' = None
        /\ req' = [r \in Requests |-> "idle"]
        /\ asked' = [r \in Requests |-> None]
        /\ read' = [r \in Requests |-> None]
        /\ reload' = "idle" /\ reading' = None /\ signal' = FALSE /\ stale' = "no"
        /\ faults < MaxFaults /\ faults' = faults + 1
        /\ edits' = edits
    BY <1>12 DEF Restart
  <2>2. faults' \in 0 .. MaxFaults
    BY <1>t, <2>1 DEF TypeOK
  <2>3. file' \in Contents
    <3>1. CASE file' = file
      BY <1>t, <2>1, <3>1 DEF TypeOK
    <3>2. ASSUME NEW r \in Requests, req[r] = "save", file' \in Pieces(asked[r], read[r])
          PROVE  file' \in Contents
      BY <2>1, <3>2, SavingFacts, PiecesOf
    <3> QED
      BY <2>1, <3>1, <3>2 DEF LeftByCrash
  <2>4. TypeOK'
    BY <1>t, <2>1, <2>2, <2>3 DEF TypeOK
  <2>5. AskedInv' /\ LockInv' /\ ReloadInv' /\ CacheInv'
    BY <2>1 DEF AskedInv, LockInv, ReloadInv, CacheInv, Holding
  <2> QED
    BY <2>4, <2>5 DEF Inv
<1>13. CASE UNCHANGED vars
  BY <1>t, <1>13 DEF Inv, TypeOK, AskedInv, LockInv, ReloadInv, CacheInv, vars, request, reloader
<1> QED
  BY <1>1, <1>2, <1>3, <1>4, <1>5, <1>6, <1>7, <1>8, <1>9, <1>10, <1>11, <1>12, <1>13
  DEF Next, Step, Reload
-----------------------------------------------------------------------------

\* The types of FileAdapter, UserCache and the requests.
THEOREM TypeCorrect == Spec => []TypeOK
<1>1. Inv => TypeOK
  BY DEF Inv
<1> QED
  BY InitInv, NextInv, <1>1, PTL DEF Spec

\* The cache is what the file says when nobody is at work, unless whoever changed or read the file
\* last was told of an error, or a reload was overtaken (load of FileAdapter after every write, with
\* its error returns, and the reload on SIGUSR1).
THEOREM CacheIsCurrent == Spec => []CacheFollowsFile
<1>1. Inv => CacheFollowsFile
  <2> SUFFICES ASSUME Inv, mtx = None, reload = "idle", ~signal
               PROVE  cache = file \/ stale \in {"error", "overtaken"}
    BY DEF CacheFollowsFile
  <2>1. \A r \in Requests : req[r] \notin {"load", "cache"}
    BY UsersAssumption DEF Inv, LockInv, Holding
  <2>2. cache = file \/ stale # "no"
    BY <2>1 DEF Inv, CacheInv
  <2> QED
    BY <2>2 DEF Inv, TypeOK
<1> QED
  BY InitInv, NextInv, <1>1, PTL DEF Spec

\* A change of one user, as UserMap states it.
LEMMA ChangeIsMapChange ==
    ASSUME NEW d, file # Torn, OneChange(file, d)
    PROVE  Map!ChangedTo(d)
<1>1. PICK n \in Names, m \in Names, u \in User : ChangeOf(file, d, n, m, u)
  BY DEF OneChange
<1>2. u \in Map!User
  BY DEF Map!User, User
<1>3. Map!Add(n, u, d) \/ Map!Update(n, m, u, d) \/ Map!Delete(n, d)
  BY <1>1 DEF ChangeOf, Map!Add, Map!Update, Map!Delete
<1> QED
  BY <1>2, <1>3 DEF Map!ChangedTo

\* A write that does not finish, or cannot be read back, is a loss of the map.
LEMMA PieceIsLoss ==
    ASSUME Inv, NEW r \in Requests, req[r] = "save", edits' = edits, file' # file,
           file' \in Pieces(asked[r], read[r])
    PROVE  Map!Lose
<1>1. IsRemainder(file, file')
  BY SavingFacts, PiecesOf
<1>2. PICK n \in Names, m \in Names, u \in User, s \in SUBSET Names :
        file' \in {Torn, Remains(file, n, m, u, s)}
  BY <1>1 DEF IsRemainder
<1>3. u \in Map!User
  BY DEF Map!User, User
<1>4. file # Torn
  BY SavingFacts
<1> QED
  BY <1>2, <1>3, <1>4 DEF Map!Lose, Remains

\* Every step is a step of the map of users, or changes nothing of it.
LEMMA StepIsMapStep == Inv /\ [Next]_vars => [Map!Next]_<<file, edits>>
<1> SUFFICES ASSUME Inv, [Next]_vars PROVE [Map!Next]_<<file, edits>>
  OBVIOUS
<1>1. ASSUME NEW r \in Requests, SaveUsers(r) PROVE Map!Next
  <2>1. req[r] = "save" /\ file' = Written(asked[r], read[r]) /\ edits' = edits
    BY <1>1 DEF SaveUsers
  <2>2. CASE file' # Torn
    <3>1. Map!ChangedTo(file')
      BY <2>1, <2>2, SavingFacts, ChangeIsMapChange
    <3> QED
      BY <2>1, <3>1 DEF Map!Next, Map!Change
  <2>3. CASE file' = Torn
    <3>1. file' \in Pieces(asked[r], read[r]) /\ file' # file
      BY <2>1, <2>3, SavingFacts DEF Pieces
    <3> QED
      BY <2>1, <3>1, PieceIsLoss DEF Map!Next
  <2> QED
    BY <2>2, <2>3
<1>2. ASSUME EditFile PROVE Map!Next
  <2>1. file' \in Drafts /\ edits' = edits + 1
    BY <1>2 DEF EditFile
  <2>2. file' \in Map!Contents
    BY <2>1, UsersAssumption DEF Map!Contents, Map!User, Contents, User
  <2> QED
    BY <2>1, <2>2 DEF Map!Next, Map!Edit
<1>3. ASSUME NEW r \in Requests, Ask(r) \/ Check(r) \/ CheckNew(r) \/ ReadUsers(r)
                                    \/ ReadBack(r) \/ ReadFails(r) \/ LoadCache(r)
      PROVE  file' = file /\ edits' = edits
  BY <1>3 DEF Ask, Check, CheckNew, ReadUsers, ReadBack, ReadFails, LoadCache
<1>4. ASSUME NEW r \in Requests, SaveFails(r)
      PROVE  Map!Next \/ (file' = file /\ edits' = edits)
  <2>1. req[r] = "save" /\ edits' = edits /\ (file' = file \/ file' \in Pieces(asked[r], read[r]))
    BY <1>4 DEF SaveFails
  <2> QED
    BY <2>1, PieceIsLoss DEF Map!Next
<1>5. ASSUME Signal \/ ReloadReads \/ ReloadFails \/ ReloadLoads \/ UNCHANGED vars
      PROVE  file' = file /\ edits' = edits
  BY <1>5 DEF Signal, ReloadReads, ReloadFails, ReloadLoads, vars
<1>6. ASSUME Restart PROVE Map!Next \/ (file' = file /\ edits' = edits)
  <2>1. file' \in LeftByCrash /\ edits' = edits
    BY <1>6 DEF Restart
  <2>2. ASSUME NEW r \in Requests, req[r] = "save", file' \in Pieces(asked[r], read[r]), file' # file
        PROVE  Map!Next
    BY <2>1, <2>2, PieceIsLoss DEF Map!Next
  <2> QED
    BY <2>1, <2>2 DEF LeftByCrash
<1> QED
  BY <1>1, <1>2, <1>3, <1>4, <1>5, <1>6 DEF Next, Step, Reload

\* The file provider implements the map of users: whatever requests interleave, each saves the
\* change of one user on the latest content (Add, Update, Delete of FileAdapter).
THEOREM FileImplementsMap == Spec => FileIsUserMap
<1>1. Init => Map!Init
  BY UsersAssumption DEF Init, Map!Init, Map!Contents, Map!User, Contents, User
<1> QED
  BY InitInv, NextInv, StepIsMapStep, <1>1, PTL DEF Spec, FileIsUserMap, Map!Spec
=============================================================================
