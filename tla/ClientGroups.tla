---------------------------- MODULE ClientGroups ----------------------------
(***************************************************************************)
(* Client groups: the table of groups, written by single statements, the   *)
(* matching of clients against the parameters of a group, and the access   *)
(* of users to clients.  Strings are sequences of characters; of the       *)
(* thirteen parameters two are kept, "name" for those of which a client    *)
(* has one value and "tag" for those of which it has any number.           *)
(***************************************************************************)
EXTENDS Integers, Sequences, SequencesExt, FiniteSetsExt

CONSTANTS
    GroupIds,
    Params,   \* what a group may ask for: [{"name", "tag"} -> a set of patterns, or None]
    Clients,  \* [name : a string, tag : a set of strings, allowed : AllowedUserGroups]
    Users,    \* [groups : its user groups]
    None

Administrators == "Administrators"

VARIABLE groups \* the table: the Params of each group, None where there is none

Init == groups = [g \in GroupIds |-> None]

\* handlePostClientGroups: the primary key refuses a group that is there.
handlePostClientGroups(g) ==
    /\ groups[g] = None
    /\ \E p \in Params : groups' = [groups EXCEPT ![g] = p]

\* handlePutClientGroup: INSERT OR REPLACE.
handlePutClientGroup(g) == \E p \in Params : groups' = [groups EXCEPT ![g] = p]

handleDeleteClientGroup(g) == groups' = [groups EXCEPT ![g] = None]

Next == \E g \in GroupIds : handlePostClientGroups(g) \/ handlePutClientGroup(g) \/ handleDeleteClientGroup(g)

Spec == Init /\ [][Next]_groups

-----------------------------------------------------------------------------
(* Matching.                                                               *)

ToLower(s) == [i \in 1 .. Len(s) |-> IF s[i] = "A" THEN "a" ELSE s[i]]

\* strings.Split at the stars: where the parts end, one after the other, and the parts.
Cuts(s) ==
    LET cut[k \in 0 .. Len(s) + 1] ==
            IF k = 0 THEN 0 ELSE Min({i \in cut[k - 1] + 1 .. Len(s) : s[i] = "*"} \cup {Len(s) + 1})
    IN cut

Parts(s) ==
    LET cut == Cuts(s)
    IN [k \in 1 .. Min({n \in 1 .. Len(s) + 1 : cut[n] = Len(s) + 1}) |-> SubSeq(s, cut[k - 1] + 1, cut[k] - 1)]

\* strings.Index of a part in what follows the first at characters of v, counted from the
\* beginning of v; -1 if it is not there.
Index(v, at, part) ==
    LET found == {i \in at .. Len(v) - Len(part) : SubSeq(v, i + 1, i + Len(part)) = part}
    IN IF found = {} THEN -1 ELSE Min(found)

\* One round of the loop over the parts: how many characters of v are gone after it, -1 once a
\* part was not found.
Round(v, at, part) ==
    LET i == IF at = -1 THEN -1 ELSE Index(v, at, part)
    IN IF i = -1 THEN -1 ELSE i + Len(part)

Gone(v, parts) ==
    LET gone[k \in 0 .. Len(parts)] == IF k = 0 THEN 0 ELSE Round(v, gone[k - 1], parts[k])
    IN gone

\* A mutant of matches: the parts may overlap.
matchesOverlapping(param, value) ==
    LET s == ToLower(param)
        v == ToLower(value)
        parts == Parts(s)
    IN IF Len(parts) > 1
       THEN IsPrefix(parts[1], v) /\ IsSuffix(Last(parts), v) /\ \A k \in 1 .. Len(parts) : Index(v, 0, parts[k]) # -1
       ELSE s = v

\* Param.matches: with a star, the first part begins the value, the last ends
\* it, and all follow one another.
matches(param, value) ==
    LET s == ToLower(param)
        v == ToLower(value)
        parts == Parts(s)
    IN IF Len(parts) > 1
       THEN IsPrefix(parts[1], v) /\ IsSuffix(Last(parts), v) /\ Gone(v, parts)[Len(parts)] # -1
       ELSE s = v

\* ParamValues.MatchesOneOf
MatchesOneOf(p, values) ==
    IF p = None \/ (p = {} /\ values = {}) THEN TRUE ELSE \E param \in p, v \in values : matches(param, v)

HasNoParams(p) == \A a \in {"name", "tag"} : p[a] = None

\* Client.BelongsTo
BelongsTo(c, p) == ~HasNoParams(p) /\ MatchesOneOf(p["name"], {c.name}) /\ MatchesOneOf(p["tag"], c.tag)

-----------------------------------------------------------------------------
(* Access.                                                                 *)

\* Client.HasAccess
HasAccess(c, userGroups) == \E g \in userGroups : g = Administrators \/ g \in c.allowed

IsAdmin(u) == Administrators \in u.groups

\* CheckClientsAccess
CheckClientsAccess(cs, u) == IsAdmin(u) \/ \A c \in cs : HasAccess(c, u.groups)

\* PopulateGroupsWithUserClients, over GetUserClients
ClientIDs(g, u) == {c \in Clients : CheckClientsAccess({c}, u) /\ BelongsTo(c, groups[g])}

\* handleGetClientGroups, with filterEmptyGroups: <<group, client>> and the groups.
Listed(u) ==
    LET all == {g \in GroupIds : groups[g] # None}
        ids == [g \in all |-> ClientIDs(g, u)]
    IN [g \in {x \in all : IsAdmin(u) \/ ids[x] # {}} |-> ids[g]]

-----------------------------------------------------------------------------
(* Properties.                                                             *)

\* The lengths of the beginnings of v that the first i characters of a pattern denote: a star
\* stands for any string, a letter for itself in either case.
Ends(p, v) ==
    LET ends[i \in 0 .. Len(p)] ==
            IF i = 0 THEN {0}
            ELSE IF p[i] = "*" THEN {j \in 0 .. Len(v) : \E k \in ends[i - 1] : k <= j}
            ELSE {j \in 1 .. Len(v) : j - 1 \in ends[i - 1] /\ ToLower(<<p[i]>>) = ToLower(<<v[j]>>)}
    IN ends

\* A pattern denotes a string.
Denotes(p, v) == Len(v) \in Ends(p, v)[Len(p)]

\* A client satisfies one parameter of a group.
Satisfies(values, p) == p = None \/ (p = {} /\ values = {}) \/ \E x \in p, v \in values : Denotes(x, v)

\* What the API lists: each user sees in a group exactly the clients that satisfy
\* every parameter of it, a star standing for any string, and that the user may
\* use; and a group in which it sees none only as an administrator.  So the
\* comparison by parts in Param.matches is the one of patterns, for parts that
\* overlap, repeat or are empty.
GroupsListed ==
    \A u \in Users :
        LET allowed == {c \in Clients : Administrators \in u.groups \/ u.groups \cap c.allowed # {}}
            has(c, p) == Satisfies({c.name}, p["name"]) /\ Satisfies(c.tag, p["tag"]) /\ (p["name"] # None \/ p["tag"] # None)
            seen == [g \in {x \in GroupIds : groups[x] # None} |-> {c \in allowed : has(c, groups[g])}]
            hidden == {g \in DOMAIN seen : seen[g] = {} /\ Administrators \notin u.groups}
        IN Listed(u) = [g \in DOMAIN seen \ hidden |-> seen[g]]
=============================================================================
