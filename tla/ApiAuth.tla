------------------------------ MODULE ApiAuth -------------------------------
(***************************************************************************)
(* Authentication of API requests: basic auth, sessions (bearer tokens),   *)
(* logins with and without a second factor, logouts, and the two ban       *)
(* lists.  Every request passes RejectBannedIPs first; a route of the      *)
(* router proper goes through wrapWithAuthMiddleware, a websocket through  *)
(* wsAuth, and login, logout and verify-2fa check for themselves.          *)
(*                                                                         *)
(* Each lock of the session repository, of the code service and of the ban *)
(* lists covers one call, so each call is a step.  APISession.ExpiresAt is *)
(* read and written without a lock.  Time is a counter; a secret is        *)
(* reduced to what it is the secret of.                                    *)
(***************************************************************************)
EXTENDS Integers, FiniteSets

CONSTANTS
    Users,    \* the names of the user service
    Strange,  \* user names it does not know
    Slots,    \* requests that may be under way at once
    Addrs,    \* addresses requests come from
    Tokens,   \* JWTs the server can give out: each has an id of its own
    Codes,    \* codes of the second factor
    Seconds,  \* values of the query parameter token-lifetime
    MaxTime,  \* bound on the clock
    MaxExpiry \* bound on the expiry of a session that is used again

CONSTANTS
    Second,          \* time.Second
    DefaultLifetime, \* defaultTokenLifetime
    MaxLifetime,     \* maxTokenLifetime
    Half,            \* 2^63: a time.Duration is at least -Half and less than Half
    UserLoginWait,
    BanTime,
    TokenTTL,
    MaxFailedLogin,  \* 0 when addresses are not banned
    NoName,          \* the empty user name
    None

Names == Users \cup Strange \cup {NoName}

ASSUME ApiAuthAssumption ==
    /\ NoName \notin Users \cup Strange
    /\ Users \cap Strange = {}
    /\ IsFiniteSet(Slots)
    /\ None \notin Tokens \cup Names \cup Codes \cup Addrs
    /\ Seconds \subseteq Int
    /\ MaxTime \in Nat /\ MaxExpiry \in Nat
    /\ Second \in Nat \ {0} /\ DefaultLifetime \in Nat \ {0} /\ MaxLifetime \in Nat \ {0} /\ Half \in Nat \ {0}
    /\ UserLoginWait \in Nat /\ BanTime \in Nat /\ TokenTTL \in Nat /\ MaxFailedLogin \in Nat

VARIABLES
    now,
    twoFA,       \* config.API.IsTwoFAOn()
    listed,      \* the tokens APISessionRepository.sessions maps to their session
    owner,       \* the user name in a token, None until it is made
    expiresAt,   \* APISession.ExpiresAt of a token's session
    codes,       \* TwoFAService.tokensByUser
    bannedUsers, \* when the ban of a name ends, 0 without one
    badAttempts, \* MaxBadAttemptsBanList: visitor.badAttempts
    banTime,     \* and visitor.banTime, 0 for nil
    req,         \* the requests
    failures,    \* for the properties: the attempts of an address that failed since it
                 \* succeeded or a ban of it ended,
    sent,        \* the codes sent to each user,
    shown        \* and what requests in a user's name have shown of that user

vars == <<now, twoFA, listed, owner, expiresAt, codes, bannedUsers, badAttempts, banTime, req, failures, sent, shown>>
sessions == <<listed, owner, expiresAt>>
bans == <<bannedUsers, badAttempts, banTime, failures>>
history == <<sent, shown>>

Secrets == {"password", "apiToken", "other"}
Facts == {"password", "apiToken", "code"}
NoCode == [code |-> None, expiry |-> 0]
NoRequest == [pc |-> "idle", kind |-> None, addr |-> None, name |-> NoName, secret |-> None, token |-> None, until |-> 0]

Init ==
    /\ now = 1
    /\ twoFA \in BOOLEAN
    /\ listed = {}
    /\ owner = [t \in Tokens |-> None]
    /\ expiresAt = [t \in Tokens |-> 0]
    /\ codes = [u \in Users |-> NoCode]
    /\ bannedUsers = [n \in Names |-> 0]
    /\ badAttempts = [a \in Addrs |-> 0]
    /\ banTime = [a \in Addrs |-> 0]
    /\ req = [r \in Slots |-> NoRequest]
    /\ failures = [a \in Addrs |-> 0]
    /\ sent = [u \in Users |-> {}]
    /\ shown = [u \in Users |-> {}]

Goes(r, pc) == req' = [req EXCEPT ![r].pc = pc]
Ends(r) == req' = [req EXCEPT ![r] = NoRequest]

\* What is left to do depends on the address and the name only.
Concludes(r, pc, n) == req' = [req EXCEPT ![r] = [NoRequest EXCEPT !.pc = pc, !.addr = req[r].addr, !.name = n]]

-----------------------------------------------------------------------------
(* Ban lists.                                                              *)

\* BanList.IsBanned
IsBanned(n) == bannedUsers[n] > now

\* MaxBadAttemptsBanList.IsBanned
IsBannedIP(a) == banTime[a] > now

\* A mutant of AddBadAttempt: the count is not reset with the ban.
AddBadAttemptKeepsCount(a) ==
    LET attempts == badAttempts[a] + 1
    IN /\ badAttempts' = [badAttempts EXCEPT ![a] = attempts]
       /\ banTime' = [banTime EXCEPT ![a] = IF attempts = MaxFailedLogin THEN now + BanTime ELSE @]

\* MaxBadAttemptsBanList.AddBadAttempt
AddBadAttempt(a) ==
    LET attempts == badAttempts[a] + 1
    IN /\ badAttempts' = [badAttempts EXCEPT ![a] = IF attempts = MaxFailedLogin THEN 0 ELSE attempts]
       /\ banTime' = [banTime EXCEPT ![a] = IF attempts = MaxFailedLogin THEN now + BanTime ELSE @]

\* MaxBadAttemptsBanList.AddSuccessAttempt
AddSuccessAttempt(a) ==
    /\ badAttempts' = [badAttempts EXCEPT ![a] = 0]
    /\ banTime' = [banTime EXCEPT ![a] = 0]

\* handleBannedIPs
handleBannedIPs(a, authorized) ==
    \/ MaxFailedLogin = 0 /\ UNCHANGED <<badAttempts, banTime, failures>>
    \/ MaxFailedLogin > 0 /\ authorized /\ AddSuccessAttempt(a) /\ failures' = [failures EXCEPT ![a] = 0]
    \/ MaxFailedLogin > 0 /\ ~authorized /\ AddBadAttempt(a) /\ failures' = [failures EXCEPT ![a] = @ + 1]

-----------------------------------------------------------------------------
(* The start of a request.                                                 *)

\* RejectBannedIPs
Admit(r, a) == req[r].pc = "idle" /\ ~IsBannedIP(a)

Arrives(r, a, kind, pc, n, s, t) ==
    /\ Admit(r, a)
    /\ req' = [req EXCEPT ![r] = [pc |-> pc, kind |-> kind, addr |-> a, name |-> n, secret |-> s, token |-> t, until |-> 0]]
    /\ UNCHANGED <<now, twoFA, sessions, codes, bans, history>>

\* A login, or a request with basic auth: a name with the user's password,
\* with the API token the user has, or with neither.
ArrivesWithName(r, a) ==
    \/ \E kind \in {"basic", "login"}, n \in Users \cup Strange, s \in Secrets : Arrives(r, a, kind, "banned", n, s, None)
    \/ Arrives(r, a, "login", "banned", NoName, "other", None)

\* A request or a websocket with a bearer token, or a logout.
ArrivesWithToken(r, a) ==
    \E kind \in {"bearer", "logout"}, t \in Tokens :
        /\ owner[t] # None /\ expiresAt[t] <= MaxExpiry
        /\ Arrives(r, a, kind, "banned", owner[t], None, t)

\* verify-2fa; without the second factor it is refused.
ArrivesWithCode(r, a) ==
    \E n \in Names, c \in Codes : Arrives(r, a, "verify", IF twoFA THEN "banned" ELSE "refused", n, c, None)

\* No authorization where the router asks for it, or basic auth with no name.
ArrivesBare(r, a) == Arrives(r, a, "bare", "banned", NoName, None, None)

\* A bearer token that is not of this server: no ban is looked up for it,
\* and a logout or a websocket without a token, a login without a name and
\* a body that cannot be parsed only count for the address.
ArrivesMalformed(r, a) ==
    \/ Arrives(r, a, "bearer", "failed", NoName, None, None)
    \/ Arrives(r, a, "malformed", "refused", NoName, None, None)

\* What the check after the ban's is.
AfterBanCheck(r) ==
    CASE req[r].kind \in {"bearer", "logout"} -> "find"
      [] req[r].kind = "verify" -> "validate"
      [] req[r].kind = "bare" -> "failed"
      [] req[r].kind = "login" /\ req[r].name = NoName -> "idle"
      [] OTHER -> "credentials"

\* IsBanned at the start of handleBasicAuth, handleLogin, validateBearerToken,
\* parseAndValidate2FATokenRequest and at the end of lookupUser.  Too many
\* requests ends the request, but for verify-2fa, which counts it.
ChecksBan(r) ==
    /\ req[r].pc = "banned"
    /\ \/ IsBanned(req[r].name) /\ req[r].kind = "verify" /\ Concludes(r, "refused", NoName)
       \/ IsBanned(req[r].name) /\ req[r].kind # "verify" /\ Ends(r)
       \/ ~IsBanned(req[r].name) /\ AfterBanCheck(r) = "idle" /\ Ends(r)
       \/ ~IsBanned(req[r].name) /\ AfterBanCheck(r) # "idle" /\ Goes(r, AfterBanCheck(r))
    /\ UNCHANGED <<now, twoFA, sessions, codes, bans, history>>

-----------------------------------------------------------------------------
(* Credentials.                                                            *)

\* A mutant of SecretSuffices: basic auth takes the password with 2FA on.
SecretSufficesAlways(kind, s) == s = "password" \/ (kind = "basic" /\ s = "apiToken")

\* validateCredentials takes the password; handleBasicAuth takes the password
\* when there is no second factor, and the API token.
SecretSuffices(kind, s) ==
    \/ s = "password" /\ (kind = "login" \/ ~twoFA)
    \/ s = "apiToken" /\ kind = "basic"

\* A request in the name n had the password, the API token or the code of n.
Shows(n, fact) ==
    /\ shown' = [u \in Users |-> IF u = n THEN shown[u] \cup ({fact} \cap Facts) ELSE shown[u]]
    /\ UNCHANGED sent

\* GetByUsername and verifyPassword, in both.
Authenticates(r) ==
    /\ req[r].pc = "credentials"
    /\ \/ req[r].name \in Users /\ SecretSuffices(req[r].kind, req[r].secret) /\ Goes(r, "authorized")
       \/ ~(req[r].name \in Users /\ SecretSuffices(req[r].kind, req[r].secret)) /\ Concludes(r, "failed", req[r].name)
       \/ Ends(r) \* the user service fails
    /\ Shows(req[r].name, req[r].secret)
    /\ UNCHANGED <<now, twoFA, sessions, codes, bans>>

\* A mutant of Finds: a session is used while it has not expired.
FindsUnlisted(r) ==
    /\ req[r].pc = "find"
    /\ Goes(r, "expiry")
    /\ UNCHANGED <<now, twoFA, sessions, codes, bans, history>>

\* FindOne of validateBearerToken.
Finds(r) ==
    /\ req[r].pc = "find"
    /\ \/ req[r].token \in listed /\ Goes(r, "expiry")
       \/ req[r].token \notin listed /\ Concludes(r, "failed", NoName)
    /\ UNCHANGED <<now, twoFA, sessions, codes, bans, history>>

\* ExpiresAt.After(time.Now()), at the end of validateBearerToken
Valid(r) == expiresAt[req[r].token] > now

ChecksExpiry(r) ==
    /\ req[r].pc = "expiry"
    /\ \/ ~Valid(r) /\ Concludes(r, "failed", req[r].name)
       \/ Valid(r) /\ Goes(r, IF req[r].kind = "logout" THEN "authorized" ELSE "extend")
    /\ UNCHANGED <<now, twoFA, sessions, codes, bans, history>>

\* increaseSessionLifetime: the new expiry is computed from the session's,
Extends(r) ==
    /\ req[r].pc = "extend"
    /\ req' = [req EXCEPT ![r].pc = "write",
                          ![r].until = DefaultLifetime + IF now > expiresAt[req[r].token] THEN now ELSE expiresAt[req[r].token]]
    /\ UNCHANGED <<now, twoFA, sessions, codes, bans, history>>

\* then written to the session,
Writes(r) ==
    /\ req[r].pc = "write"
    /\ expiresAt' = [expiresAt EXCEPT ![req[r].token] = req[r].until]
    /\ Goes(r, "save")
    /\ UNCHANGED <<now, twoFA, listed, owner, codes, bans, history>>

\* and the session is saved, be it still in the repository or not.
Saves(r) ==
    /\ req[r].pc = "save"
    /\ listed' = listed \cup {req[r].token}
    /\ Goes(r, "authorized")
    /\ UNCHANGED <<now, twoFA, owner, expiresAt, codes, bans, history>>

\* ValidateToken: the stored code, not expired.  It is not taken away.
ValidateToken(n, c) == n \in Users /\ codes[n].code = c /\ now <= codes[n].expiry

\* parseAndValidate2FATokenRequest, after the ban check.
Validates(r) ==
    /\ req[r].pc = "validate"
    /\ \/ ValidateToken(req[r].name, req[r].secret) /\ Concludes(r, "create", req[r].name)
       \/ ~ValidateToken(req[r].name, req[r].secret) /\ Concludes(r, "refused", NoName)
    /\ Shows(req[r].name, IF req[r].name \in Users /\ req[r].secret \in sent[req[r].name] THEN "code" ELSE "other")
    /\ UNCHANGED <<now, twoFA, sessions, codes, bans>>

-----------------------------------------------------------------------------
(* What follows from the check.                                            *)

\* handleBannedIPs with a success, and what the handler goes on with.
Proceeds(r) ==
    CASE req[r].kind = "login" -> Concludes(r, IF twoFA THEN "send" ELSE "create", req[r].name)
      [] req[r].kind = "logout" -> Goes(r, "delete")
      [] OTHER -> Concludes(r, "served", req[r].name)

Succeeds(r) ==
    /\ req[r].pc = "authorized"
    /\ handleBannedIPs(req[r].addr, TRUE)
    /\ Proceeds(r)
    /\ UNCHANGED <<now, twoFA, sessions, codes, bannedUsers, history>>

\* handleBannedIPs with a failure, before the name is banned.
Fails(r) ==
    /\ req[r].pc = "failed"
    /\ handleBannedIPs(req[r].addr, FALSE)
    /\ Concludes(r, "ban", req[r].name)
    /\ UNCHANGED <<now, twoFA, sessions, codes, bannedUsers, history>>

\* BanList.Add
AddBan(r) ==
    /\ req[r].pc = "ban"
    /\ bannedUsers' = [bannedUsers EXCEPT ![req[r].name] = now + UserLoginWait]
    /\ Ends(r)
    /\ UNCHANGED <<now, twoFA, sessions, codes, badAttempts, banTime, failures, history>>

\* A failure that counts for the address only.
Refuses(r) ==
    /\ req[r].pc = "refused"
    /\ handleBannedIPs(req[r].addr, FALSE)
    /\ Ends(r)
    /\ UNCHANGED <<now, twoFA, sessions, codes, bannedUsers, history>>

\* The request runs as the user it was authorized for.
Finishes(r) ==
    /\ req[r].pc = "served"
    /\ Ends(r)
    /\ UNCHANGED <<now, twoFA, sessions, codes, bans, history>>

\* SendToken, up to MsgSrv.Send; the user may have no address, the message
\* may not be sent in time.
Sends(r) ==
    /\ req[r].pc = "send"
    /\ \/ \E c \in Codes :
            /\ req' = [req EXCEPT ![r].pc = "store", ![r].secret = c]
            /\ sent' = [sent EXCEPT ![req[r].name] = @ \cup {c}]
       \/ Ends(r) /\ UNCHANGED sent
    /\ UNCHANGED <<now, twoFA, sessions, codes, bans, shown>>

\* SendToken: the code that was sent is the user's.
StoresCode(r) ==
    /\ req[r].pc = "store"
    /\ codes' = [codes EXCEPT ![req[r].name] = [code |-> req[r].secret, expiry |-> now + TokenTTL]]
    /\ Ends(r)
    /\ UNCHANGED <<now, twoFA, sessions, bans, history>>

\* parseTokenLifetime: the product wraps around; 0 where it refuses.
Wrapped(d) == ((d + Half) % (2 * Half)) - Half
parseTokenLifetime(s) ==
    LET result == Wrapped(s * Second)
    IN IF result > MaxLifetime THEN 0 ELSE IF result <= 0 THEN DefaultLifetime ELSE result

\* createAuthToken: the id of a new JWT is a random number.
createAuthToken(t, lifetime, n) ==
    /\ owner[t] = None
    /\ owner' = [owner EXCEPT ![t] = n]
    /\ expiresAt' = [expiresAt EXCEPT ![t] = now + lifetime]
    /\ listed' = listed \cup {t}

\* sendJWTToken
Creates(r) ==
    /\ req[r].pc = "create"
    /\ \/ \E t \in Tokens, s \in Seconds :
            /\ parseTokenLifetime(s) > 0
            /\ createAuthToken(t, parseTokenLifetime(s), req[r].name)
       \/ UNCHANGED sessions \* the lifetime is refused, or signing fails
    /\ Ends(r)
    /\ UNCHANGED <<now, twoFA, codes, bans, history>>

\* handleDeleteLogout
Deletes(r) ==
    /\ req[r].pc = "delete"
    /\ listed' = listed \ {req[r].token}
    /\ Ends(r)
    /\ UNCHANGED <<now, twoFA, owner, expiresAt, codes, bans, history>>

Tick ==
    /\ now < MaxTime
    /\ now' = now + 1
    /\ failures' = [a \in Addrs |-> IF banTime[a] = now + 1 THEN 0 ELSE failures[a]]
    /\ UNCHANGED <<twoFA, sessions, codes, bannedUsers, badAttempts, banTime, req, history>>

Begins(r) == \E a \in Addrs :
    \/ ArrivesWithName(r, a) \/ ArrivesWithToken(r, a) \/ ArrivesWithCode(r, a)
    \/ ArrivesBare(r, a) \/ ArrivesMalformed(r, a)

Continues(r) ==
    \/ ChecksBan(r) \/ Authenticates(r) \/ Finds(r) \/ ChecksExpiry(r) \/ Extends(r) \/ Writes(r) \/ Saves(r)
    \/ Validates(r) \/ Succeeds(r) \/ Fails(r) \/ AddBan(r) \/ Refuses(r) \/ Finishes(r)
    \/ Sends(r) \/ StoresCode(r) \/ Creates(r) \/ Deletes(r)

Next == Tick \/ \E r \in Slots : Begins(r) \/ Continues(r)

Spec == Init /\ [][Next]_vars

-----------------------------------------------------------------------------
(* Properties.                                                             *)

Pcs == {"idle", "banned", "credentials", "find", "expiry", "extend", "write", "save", "validate", "authorized",
        "failed", "refused", "ban", "served", "send", "store", "create", "delete"}
Kinds == {"basic", "login", "bearer", "logout", "verify", "bare", "malformed", None}
Requests == [pc : Pcs, kind : Kinds, addr : Addrs \cup {None}, name : Names,
             secret : Secrets \cup Codes \cup {None}, token : Tokens \cup {None}, until : Nat]

\* The types of the sessions, codes, bans and requests.
TypeOK ==
    /\ now \in Nat
    /\ twoFA \in BOOLEAN
    /\ listed \subseteq Tokens
    /\ owner \in [Tokens -> Users \cup {None}]
    /\ expiresAt \in [Tokens -> Nat]
    /\ codes \in [Users -> [code : Codes \cup {None}, expiry : Nat]]
    /\ bannedUsers \in [Names -> Nat]
    /\ badAttempts \in [Addrs -> Nat]
    /\ banTime \in [Addrs -> Nat]
    /\ req \in [Slots -> Requests]
    /\ failures \in [Addrs -> Nat]
    /\ sent \in [Users -> SUBSET Codes]
    /\ shown \in [Users -> SUBSET Facts]

\* What a user has to have shown, one way or the other.
Proved(u) ==
    \/ "apiToken" \in shown[u]
    \/ "password" \in shown[u] /\ (twoFA => "code" \in shown[u])

\* Whoever is served as a user has been authenticated as that user, at some time
\* and over some sequence of requests: with the API token, or with the password
\* and, when the second factor is on, a code that was sent to this user.  A
\* session, a code or a login of one user never serves another.
ServedProved == \A r \in Slots : req[r].pc = "served" => Proved(req[r].name)

\* A request that has found the session and may still save it.
Holds(r, t) == req[r].token = t /\ req[r].pc \in {"expiry", "extend", "write", "save"}

\* A session that was logged out stays so: once no request is between finding it
\* and saving it (increaseSessionLifetime saves what a logout has deleted), it is
\* never again in the repository nor found by a request.
LogoutHolds ==
    [][\A t \in Tokens :
          owner[t] # None /\ t \notin listed /\ (\A r \in Slots : ~Holds(r, t))
              => t \notin listed' /\ \A r \in Slots : ~Holds(r, t)']_vars

\* A request of an address whose failure may still be counted.
Pending(a) == {r \in Slots : req[r].addr = a /\ req[r].pc # "ban"}

\* "bans visitors by their keys after N failed consecutive attempts for Z period": since an
\* address succeeded or its last ban ended it has failed less than N times while it is not
\* banned, and otherwise beyond that only with requests that were under way when the ban began.
\* The N-th failure bans it again and again (AddBadAttempt compares with = and resets the
\* count), whatever requests were let in before a ban and fail during or after it.
GuessesLimited ==
    \A a \in Addrs : MaxFailedLogin > 0 =>
        /\ ~IsBannedIP(a) => failures[a] < MaxFailedLogin
        /\ failures[a] + Cardinality(Pending(a)) < MaxFailedLogin + Cardinality(Slots)
=============================================================================
