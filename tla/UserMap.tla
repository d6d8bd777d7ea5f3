------------------------------ MODULE UserMap -------------------------------
(***************************************************************************)
(* What users.Provider promises: a map of users that requests change one   *)
(* user at a time, each change made on the latest content.  The only ways  *)
(* to lose something are a write that does not finish or that cannot be    *)
(* read back, and an edit of the file by hand.                             *)
(***************************************************************************)
EXTENDS Integers

CONSTANTS
    Names,   \* user names
    Fields,  \* what is kept of a user
    Values,  \* the values of a field
    NoUser,  \* no user of that name
    Torn     \* a file that cannot be parsed

User == [Fields -> Values]
Contents == [Names -> User \cup {NoUser}]

VARIABLES
    users,   \* the stored users
    edits    \* how often the file was edited by hand

Init == users \in Contents /\ edits = 0

\* The content d is the present one with one user more, changed and possibly renamed, or less.
Add(n, u, d) ==
    /\ users[n] = NoUser
    /\ d = [users EXCEPT ![n] = u]

Update(n, m, u, d) ==
    /\ users[n] # NoUser
    /\ m = n \/ users[m] = NoUser
    /\ d = [x \in Names |-> IF x = m THEN u ELSE IF x = n THEN NoUser ELSE users[x]]

Delete(n, d) ==
    /\ users[n] # NoUser
    /\ d = [users EXCEPT ![n] = NoUser]

ChangedTo(d) ==
    /\ users # Torn
    /\ \E n, m \in Names, u \in User : Add(n, u, d) \/ Update(n, m, u, d) \/ Delete(n, d)

Change == ChangedTo(users') /\ edits' = edits

\* The change of one user whose write does not finish, or that leaves a file that cannot be read.
Lose ==
    /\ users # Torn /\ users' # users
    /\ \E n, m \in Names, u \in User, s \in SUBSET Names :
        users' \in {Torn, [x \in Names |-> IF x \notin s THEN NoUser
                                          ELSE IF x = m THEN u
                                          ELSE IF x = n THEN NoUser ELSE users[x]]}
    /\ edits' = edits

Edit == users' \in Contents /\ edits' = edits + 1

Next == Change \/ Lose \/ Edit

Spec == Init /\ [][Next]_<<users, edits>>
=============================================================================
