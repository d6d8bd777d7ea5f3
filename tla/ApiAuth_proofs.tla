--------------------------- MODULE ApiAuth_proofs ---------------------------
(***************************************************************************)
(* Proofs about ApiAuth, for any users, tokens, codes, lifetimes and any   *)
(* number of requests under way.  ServedProved is not inductive: what a    *)
(* request may still be served for is spread over the sessions, the stored *)
(* codes and the requests.  Grounds says what each of these stands for.    *)
(***************************************************************************)
EXTENDS ApiAuth, FiniteSetTheorems, TLAPS

\* A request between the arrival of a token and the end of its use has a token
\* of the server, and the name that is in the token.
Bearing(r) ==
    req[r].pc \in {"find", "expiry", "extend", "write", "save"} \/ (req[r].pc = "banned" /\ req[r].kind \in {"bearer", "logout"})
        => /\ req[r].kind \in {"bearer", "logout"}
           /\ req[r].token \in Tokens
           /\ owner[req[r].token] # None
           /\ req[r].name = owner[req[r].token]

\* A request with a code is only looked at with the second factor on.
Verifying(r) ==
    req[r].pc = "validate" \/ (req[r].pc = "banned" /\ req[r].kind = "verify") => twoFA /\ req[r].secret \in Codes

\* What has been shown by the time a request is where it is.
Entitled(r) ==
    /\ req[r].pc \in {"authorized", "served", "create", "send", "store"} => req[r].name \in Users
    /\ req[r].pc = "authorized" /\ req[r].kind = "login" => "password" \in shown[req[r].name]
    /\ req[r].pc = "authorized" /\ req[r].kind \notin {"login", "logout"} => Proved(req[r].name)
    /\ req[r].pc \in {"served", "create"} => Proved(req[r].name)
    /\ req[r].pc \in {"send", "store"} => "password" \in shown[req[r].name]
    /\ req[r].pc = "store" => req[r].secret \in sent[req[r].name]

Grounded(r) == Bearing(r) /\ Verifying(r) /\ Entitled(r)
SessionsProved == \A t \in Tokens : owner[t] # None => Proved(owner[t])
CodesSent == \A u \in Users : codes[u].code # None => codes[u].code \in sent[u] /\ "password" \in shown[u]

\* The inductive invariant.
Inv ==
    /\ TypeOK
    /\ \A r \in Slots : Grounded(r)
    /\ SessionsProved
    /\ CodesSent

-----------------------------------------------------------------------------
(* Steps of a request keep the type of the requests.                       *)

LEMMA GoesType ==
    ASSUME req \in [Slots -> Requests], NEW r \in Slots, NEW pc \in Pcs, Goes(r, pc)
    PROVE  req' \in [Slots -> Requests]
BY DEF Goes, Requests

LEMMA NoRequestType == NoRequest \in Requests
BY DEF NoRequest, Requests, Pcs, Kinds, Names, Secrets

LEMMA EndsType ==
    ASSUME req \in [Slots -> Requests], NEW r \in Slots, Ends(r)
    PROVE  req' \in [Slots -> Requests]
BY NoRequestType DEF Ends

LEMMA ConcludesType ==
    ASSUME req \in [Slots -> Requests], NEW r \in Slots, NEW pc \in Pcs, NEW n \in Names, Concludes(r, pc, n)
    PROVE  req' \in [Slots -> Requests]
BY DEF Concludes, Requests, NoRequest, Kinds, Secrets

\* A lifetime that is not refused is a positive duration, also where the product
\* has wrapped around.
LEMMA LifetimeType ==
    ASSUME NEW s \in Seconds
    PROVE  parseTokenLifetime(s) \in Nat
<1>1. s \in Int /\ Second \in Int /\ Half \in Nat /\ Half > 0 /\ DefaultLifetime \in Nat
  BY ApiAuthAssumption
<1>2. s * Second \in Int
  BY <1>1
<1>3. ASSUME NEW d \in Int PROVE Wrapped(d) \in Int
  BY <1>1 DEF Wrapped
<1> QED
  BY <1>1, <1>2, <1>3 DEF parseTokenLifetime

\* The names, the addresses and the secrets of a request have their types.
LEMMA RequestType ==
    ASSUME TypeOK, NEW r \in Slots
    PROVE  /\ req[r].name \in Names /\ req[r].addr \in Addrs \cup {None} /\ req[r].until \in Nat
           /\ req[r].secret \in Secrets \cup Codes \cup {None} /\ req[r].token \in Tokens \cup {None}
           /\ req[r].pc \in Pcs /\ req[r].kind \in Kinds
BY DEF TypeOK, Requests

-----------------------------------------------------------------------------
(* The types of what an action changes.                                    *)

LEMMA BansType ==
    ASSUME TypeOK, NEW a \in Addrs \cup {None}, NEW ok \in BOOLEAN, handleBannedIPs(a, ok)
    PROVE  badAttempts' \in [Addrs -> Nat] /\ banTime' \in [Addrs -> Nat] /\ failures' \in [Addrs -> Nat]
BY ApiAuthAssumption DEF TypeOK, handleBannedIPs, AddSuccessAttempt, AddBadAttempt

LEMMA ShowsType ==
    ASSUME TypeOK, NEW n, NEW f, Shows(n, f)
    PROVE  /\ shown' \in [Users -> SUBSET Facts]
           /\ \A u \in Users : shown[u] \subseteq shown'[u]
           /\ n \in Users /\ f \in Facts => f \in shown'[n]
           /\ sent' = sent
BY DEF TypeOK, Shows

-----------------------------------------------------------------------------
(* What a step leaves of the grounds of others.                            *)

\* Tokens keep their names, and what was sent and shown is not forgotten.
Grows ==
    /\ twoFA' = twoFA
    /\ \A t \in Tokens : owner[t] # None => owner'[t] = owner[t]
    /\ \A u \in Users : shown[u] \subseteq shown'[u] /\ sent[u] \subseteq sent'[u]

LEMMA ProvedGrows ==
    ASSUME Grows, NEW u \in Users, Proved(u)
    PROVE  Proved(u)'
BY DEF Grows, Proved

\* A request that does not move keeps its grounds.
LEMMA OthersGrounded ==
    ASSUME Grows, NEW q \in Slots, Grounded(q), req'[q] = req[q]
    PROVE  Grounded(q)'
<1>1. Bearing(q)'
  BY DEF Grounded, Bearing, Grows
<1>2. Verifying(q)'
  BY DEF Grounded, Verifying, Grows
<1>3. ASSUME req[q].pc \in {"authorized", "served", "create", "send", "store"}
      PROVE  req[q].name \in Users
  BY <1>3 DEF Grounded, Entitled
<1>4. Proved(req[q].name) /\ req[q].name \in Users => Proved(req[q].name)'
  BY ProvedGrows DEF Proved, Grows
<1>5. Entitled(q)'
  BY <1>3, <1>4 DEF Grounded, Entitled, Grows, Proved
<1> QED
  BY <1>1, <1>2, <1>5 DEF Grounded

\* A request that has just begun to fail, or has ended, needs no grounds.
LEMMA NoneNeeded ==
    ASSUME NEW r \in Slots, req'[r].pc \in {"idle", "failed", "refused", "ban", "credentials", "delete"}
    PROVE  Grounded(r)'
BY DEF Grounded, Bearing, Verifying, Entitled

\* What the steps write.
LEMMA GoesWrites ==
    ASSUME TypeOK, NEW r \in Slots, NEW pc, Goes(r, pc)
    PROVE  /\ req'[r].pc = pc /\ req'[r].kind = req[r].kind /\ req'[r].name = req[r].name
           /\ req'[r].secret = req[r].secret /\ req'[r].token = req[r].token /\ req'[r].addr = req[r].addr
           /\ \A q \in Slots \ {r} : req'[q] = req[q]
BY DEF Goes, TypeOK, Requests

LEMMA EndsWrites ==
    ASSUME TypeOK, NEW r \in Slots, Ends(r)
    PROVE  /\ req'[r].pc = "idle" /\ req'[r].addr = None /\ req'[r].token = None
           /\ \A q \in Slots \ {r} : req'[q] = req[q]
BY DEF Ends, TypeOK, NoRequest

LEMMA ConcludesWrites ==
    ASSUME TypeOK, NEW r \in Slots, NEW pc, NEW n, Concludes(r, pc, n)
    PROVE  /\ req'[r].pc = pc /\ req'[r].name = n /\ req'[r].addr = req[r].addr
           /\ req'[r].kind = None /\ req'[r].token = None
           /\ \A q \in Slots \ {r} : req'[q] = req[q]
BY DEF Concludes, TypeOK, NoRequest

-----------------------------------------------------------------------------
(* The steps.                                                              *)

\* What each step of request r is shown to do.
Kept(r) ==
    /\ TypeOK'
    /\ Grows
    /\ Grounded(r)'
    /\ \A q \in Slots \ {r} : req'[q] = req[q]

LEMMA KeptIsEnough ==
    ASSUME Inv, NEW r \in Slots, Kept(r), SessionsProved', CodesSent'
    PROVE  Inv'
<1>1. ASSUME NEW q \in Slots PROVE Grounded(q)'
  BY OthersGrounded DEF Inv, Kept
<1> QED
  BY <1>1 DEF Inv, Kept

\* Sessions and codes that are left alone keep their grounds.
LEMMA SessionsStay ==
    ASSUME Inv, Grows, owner' = owner
    PROVE  SessionsProved'
<1> SUFFICES ASSUME NEW t \in Tokens, owner[t] # None PROVE Proved(owner[t])'
  BY DEF SessionsProved, Proved
<1>1. owner[t] \in Users /\ Proved(owner[t])
  BY DEF Inv, SessionsProved, TypeOK
<1> QED
  BY <1>1, ProvedGrows DEF Proved

LEMMA CodesStay ==
    ASSUME Inv, Grows, codes' = codes
    PROVE  CodesSent'
BY DEF Inv, CodesSent, Grows

LEMMA QuietGrows ==
    ASSUME UNCHANGED <<twoFA, sessions, history>>
    PROVE  Grows
BY DEF sessions, history, Grows

LEMMA ArrivesKeeps ==
    ASSUME Inv, NEW r \in Slots, NEW a \in Addrs, NEW kind \in Kinds, NEW pc \in {"banned", "failed", "refused"}, NEW n \in Names,
           NEW s \in Secrets \cup Codes \cup {None}, NEW t \in Tokens \cup {None}, Arrives(r, a, kind, pc, n, s, t),
           pc = "banned" /\ kind \in {"bearer", "logout"} => t \in Tokens /\ owner[t] # None /\ n = owner[t],
           pc = "banned" /\ kind = "verify" => twoFA /\ s \in Codes
    PROVE  Inv'
<1>1. /\ req'[r] = [pc |-> pc, kind |-> kind, addr |-> a, name |-> n, secret |-> s, token |-> t, until |-> 0]
      /\ \A q \in Slots \ {r} : req'[q] = req[q]
      /\ req' \in [Slots -> Requests]
  BY DEF Arrives, Inv, TypeOK, Requests, Pcs
<1>2. Grows /\ owner' = owner /\ codes' = codes /\ twoFA' = twoFA
  BY QuietGrows DEF Arrives, sessions
<1>3. TypeOK'
  BY <1>1 DEF Arrives, Inv, TypeOK, sessions, bans, history
<1>4. Grounded(r)'
  BY <1>1, <1>2 DEF Grounded, Bearing, Verifying, Entitled
<1>5. Kept(r)
  BY <1>1, <1>2, <1>3, <1>4 DEF Kept
<1> QED
  BY <1>2, <1>5, KeptIsEnough, SessionsStay, CodesStay

LEMMA BeginsKeeps ==
    ASSUME Inv, NEW r \in Slots, Begins(r)
    PROVE  Inv'
<1>1. PICK a \in Addrs :
        ArrivesWithName(r, a) \/ ArrivesWithToken(r, a) \/ ArrivesWithCode(r, a) \/ ArrivesBare(r, a) \/ ArrivesMalformed(r, a)
  BY DEF Begins
<1>2. CASE ArrivesWithName(r, a)
  <2>1. CASE Arrives(r, a, "login", "banned", NoName, "other", None)
    BY <2>1, ArrivesKeeps DEF Kinds, Names, Secrets
  <2>2. CASE \E kind \in {"basic", "login"}, n \in Users \cup Strange, s \in Secrets : Arrives(r, a, kind, "banned", n, s, None)
    BY <2>2, ArrivesKeeps DEF Kinds, Names
  <2> QED
    BY <1>2, <2>1, <2>2 DEF ArrivesWithName
<1>3. CASE ArrivesWithToken(r, a)
  <2>1. PICK kind \in {"bearer", "logout"}, t \in Tokens : owner[t] # None /\ Arrives(r, a, kind, "banned", owner[t], None, t)
    BY <1>3 DEF ArrivesWithToken
  <2>2. owner[t] \in Names
    BY <2>1 DEF Inv, TypeOK, Names
  <2> QED
    BY <2>1, <2>2, ArrivesKeeps DEF Kinds
<1>4. CASE ArrivesWithCode(r, a)
  <2>1. PICK n \in Names, c \in Codes : Arrives(r, a, "verify", IF twoFA THEN "banned" ELSE "refused", n, c, None)
    BY <1>4 DEF ArrivesWithCode
  <2>2. CASE twoFA
    BY <2>1, <2>2, ArrivesKeeps DEF Kinds
  <2>3. CASE ~twoFA
    BY <2>1, <2>3, ArrivesKeeps DEF Kinds
  <2> QED
    BY <2>2, <2>3
<1>5. CASE ArrivesBare(r, a)
  BY <1>5, ArrivesKeeps DEF ArrivesBare, Kinds, Names
<1>6. CASE ArrivesMalformed(r, a)
  BY <1>6, ArrivesKeeps DEF ArrivesMalformed, Kinds, Names
<1> QED
  BY <1>1, <1>2, <1>3, <1>4, <1>5, <1>6

\* A step that changes only the request.
LEMMA QuietKeeps ==
    ASSUME Inv, NEW r \in Slots, UNCHANGED <<now, twoFA, sessions, codes, bans, history>>,
           req' \in [Slots -> Requests], \A q \in Slots \ {r} : req'[q] = req[q], Grounded(r)'
    PROVE  Inv'
<1>1. Grows /\ owner' = owner /\ codes' = codes
  BY QuietGrows DEF sessions
<1>2. TypeOK'
  BY DEF Inv, TypeOK, sessions, bans, history
<1> QED
  BY <1>1, <1>2, KeptIsEnough, SessionsStay, CodesStay DEF Kept

\* A step that changes the request and the bans.
LEMMA BanKeeps ==
    ASSUME Inv, NEW r \in Slots, UNCHANGED <<now, twoFA, sessions, codes, history>>,
           bannedUsers' \in [Names -> Nat], badAttempts' \in [Addrs -> Nat], banTime' \in [Addrs -> Nat],
           failures' \in [Addrs -> Nat],
           req' \in [Slots -> Requests], \A q \in Slots \ {r} : req'[q] = req[q], Grounded(r)'
    PROVE  Inv'
<1>1. Grows /\ owner' = owner /\ codes' = codes
  BY QuietGrows DEF sessions
<1>2. TypeOK'
  BY DEF Inv, TypeOK, sessions, history
<1> QED
  BY <1>1, <1>2, KeptIsEnough, SessionsStay, CodesStay DEF Kept

LEMMA ChecksBanKeeps ==
    ASSUME Inv, NEW r \in Slots, ChecksBan(r)
    PROVE  Inv'
<1> DEFINE quiet == UNCHANGED <<now, twoFA, sessions, codes, bans, history>>
<1>1. quiet /\ TypeOK /\ Grounded(r) /\ req[r].pc = "banned" /\ req \in [Slots -> Requests]
  BY DEF ChecksBan, Inv, TypeOK
<1>2. CASE Ends(r)
  BY <1>1, <1>2, EndsWrites, EndsType, NoneNeeded, QuietKeeps
<1>3. CASE Concludes(r, "refused", NoName)
  <2>1. req' \in [Slots -> Requests]
    BY <1>1, <1>3, ConcludesType DEF Pcs, Names
  <2> QED
    BY <1>1, <1>3, <2>1, ConcludesWrites, NoneNeeded, QuietKeeps
<1>4. CASE Goes(r, AfterBanCheck(r)) /\ AfterBanCheck(r) # "idle"
  <2>1. AfterBanCheck(r) \in {"find", "validate", "failed", "credentials"}
    BY <1>4 DEF AfterBanCheck
  <2>2. req' \in [Slots -> Requests] /\ req'[r].pc = AfterBanCheck(r)
    BY <1>1, <1>4, <2>1, GoesType, GoesWrites DEF Pcs
  <2>3. AfterBanCheck(r) = "find" => req[r].kind \in {"bearer", "logout"}
    BY DEF AfterBanCheck
  <2>4. AfterBanCheck(r) = "validate" => req[r].kind = "verify"
    BY DEF AfterBanCheck
  <2>5. Grounded(r)'
    BY <1>1, <1>4, <2>1, <2>2, <2>3, <2>4, GoesWrites DEF Grounded, Bearing, Verifying, Entitled, sessions
  <2> QED
    BY <1>1, <1>4, <2>2, <2>5, GoesWrites, QuietKeeps
<1> QED
  BY <1>2, <1>3, <1>4 DEF ChecksBan

LEMMA AuthenticatesKeeps ==
    ASSUME Inv, NEW r \in Slots, Authenticates(r)
    PROVE  Inv'
<1>1. TypeOK /\ Grounded(r) /\ req[r].pc = "credentials" /\ req \in [Slots -> Requests] /\ req[r].name \in Names
  BY RequestType DEF Authenticates, Inv, TypeOK
<1>2. Shows(req[r].name, req[r].secret) /\ UNCHANGED <<now, twoFA, sessions, codes, bans>>
  BY DEF Authenticates
<1>3. /\ shown' \in [Users -> SUBSET Facts]
      /\ \A u \in Users : shown[u] \subseteq shown'[u]
      /\ req[r].name \in Users /\ req[r].secret \in Facts => req[r].secret \in shown'[req[r].name]
      /\ sent' = sent
  BY <1>1, <1>2, ShowsType
<1>4. Grows /\ owner' = owner /\ codes' = codes
  BY <1>2, <1>3 DEF Grows, sessions
<1>5. req' \in [Slots -> Requests] => TypeOK'
  BY <1>1, <1>2, <1>3 DEF TypeOK, sessions, bans
<1>6. CASE Ends(r)
  BY <1>1, <1>4, <1>5, <1>6, EndsWrites, EndsType, NoneNeeded, KeptIsEnough, SessionsStay, CodesStay DEF Kept
<1>7. CASE Concludes(r, "failed", req[r].name)
  <2>1. req' \in [Slots -> Requests]
    BY <1>1, <1>7, ConcludesType DEF Pcs
  <2> QED
    BY <1>1, <1>4, <1>5, <1>7, <2>1, ConcludesWrites, NoneNeeded, KeptIsEnough, SessionsStay, CodesStay DEF Kept
<1>8. CASE req[r].name \in Users /\ SecretSuffices(req[r].kind, req[r].secret) /\ Goes(r, "authorized")
  <2>1. req' \in [Slots -> Requests]
    BY <1>1, <1>8, GoesType DEF Pcs
  <2>2. req[r].secret \in Facts /\ req[r].secret \in shown'[req[r].name]
    BY <1>3, <1>8 DEF SecretSuffices, Facts
  <2>3. req[r].kind = "login" => "password" \in shown'[req[r].name]
    BY <1>8, <2>2 DEF SecretSuffices
  <2>4. req[r].kind # "login" => Proved(req[r].name)'
    BY <1>2, <1>8, <2>2, GoesWrites, <1>1 DEF SecretSuffices, Proved
  <2>5. Grounded(r)'
    BY <1>1, <1>8, <2>3, <2>4, GoesWrites DEF Grounded, Bearing, Verifying, Entitled, Proved
  <2> QED
    BY <1>1, <1>4, <1>5, <1>8, <2>1, <2>5, GoesWrites, KeptIsEnough, SessionsStay, CodesStay DEF Kept
<1> QED
  BY <1>6, <1>7, <1>8 DEF Authenticates

LEMMA TokenStepsKeep ==
    ASSUME Inv, NEW r \in Slots, Finds(r) \/ ChecksExpiry(r) \/ Extends(r) \/ Writes(r) \/ Saves(r)
    PROVE  Inv'
<1>1. TypeOK /\ Grounded(r) /\ req \in [Slots -> Requests] /\ req[r].name \in Names /\ req[r].until \in Nat
  BY RequestType DEF Inv, TypeOK
<1>2. /\ req[r].pc \in {"find", "expiry", "extend", "write", "save"}
      /\ req[r].token \in Tokens /\ owner[req[r].token] # None /\ req[r].name = owner[req[r].token]
      /\ req[r].name \in Users /\ req[r].kind \in {"bearer", "logout"}
  BY <1>1 DEF Finds, ChecksExpiry, Extends, Writes, Saves, Grounded, Bearing, TypeOK
<1>3. Proved(req[r].name)
  BY <1>2 DEF Inv, SessionsProved
<1>4. ASSUME NEW pc \in {"expiry", "extend", "save"}, Goes(r, pc), owner' = owner
      PROVE  /\ req' \in [Slots -> Requests] /\ Grounded(r)'
             /\ \A q \in Slots \ {r} : req'[q] = req[q]
  <2>1. req' \in [Slots -> Requests]
    BY <1>1, <1>4, GoesType DEF Pcs
  <2>2. Grounded(r)'
    BY <1>1, <1>2, <1>4, GoesWrites DEF Grounded, Bearing, Verifying, Entitled
  <2> QED
    BY <1>1, <1>4, <2>1, <2>2, GoesWrites
<1>5. ASSUME Goes(r, "authorized"), Grows
      PROVE  /\ req' \in [Slots -> Requests] /\ Grounded(r)'
             /\ \A q \in Slots \ {r} : req'[q] = req[q]
  <2>1. req' \in [Slots -> Requests]
    BY <1>1, <1>5, GoesType DEF Pcs
  <2>2. Proved(req[r].name)'
    BY <1>1, <1>2, <1>3, <1>5, ProvedGrows, GoesWrites DEF Proved
  <2>3. Grounded(r)'
    BY <1>1, <1>2, <1>5, <2>2, GoesWrites DEF Grounded, Bearing, Verifying, Entitled, Proved
  <2> QED
    BY <1>1, <1>5, <2>1, <2>3, GoesWrites
<1>6. ASSUME NEW n \in Names, Concludes(r, "failed", n)
      PROVE  /\ req' \in [Slots -> Requests] /\ Grounded(r)'
             /\ \A q \in Slots \ {r} : req'[q] = req[q]
  <2>1. req' \in [Slots -> Requests]
    BY <1>1, <1>6, ConcludesType DEF Pcs
  <2> QED
    BY <1>1, <1>6, <2>1, ConcludesWrites, NoneNeeded
<1>7. CASE Finds(r)
  <2>1. owner' = owner /\ UNCHANGED <<now, twoFA, sessions, codes, bans, history>>
    BY <1>7 DEF Finds, sessions
  <2>2. CASE Goes(r, "expiry")
    BY <1>4, <2>1, <2>2, QuietKeeps
  <2>3. CASE Concludes(r, "failed", NoName)
    BY <1>6, <2>1, <2>3, QuietKeeps DEF Names
  <2> QED
    BY <1>7, <2>2, <2>3 DEF Finds
<1>8. CASE ChecksExpiry(r)
  <2>1. owner' = owner /\ UNCHANGED <<now, twoFA, sessions, codes, bans, history>>
    BY <1>8 DEF ChecksExpiry, sessions
  <2>2. CASE Concludes(r, "failed", req[r].name)
    BY <1>1, <1>6, <2>1, <2>2, QuietKeeps
  <2>3. CASE Goes(r, "authorized")
    BY <1>5, <2>1, <2>3, QuietGrows, QuietKeeps
  <2>4. CASE Goes(r, "extend")
    BY <1>4, <2>1, <2>4, QuietKeeps
  <2> QED
    BY <1>8, <2>2, <2>3, <2>4 DEF ChecksExpiry
<1>9. CASE Extends(r)
  <2>1. owner' = owner /\ UNCHANGED <<now, twoFA, sessions, codes, bans, history>>
    BY <1>9 DEF Extends, sessions
  <2> DEFINE e == DefaultLifetime + IF now > expiresAt[req[r].token] THEN now ELSE expiresAt[req[r].token]
  <2>0. e \in Nat
    BY <1>1, <1>2, ApiAuthAssumption DEF TypeOK
  <2>2. req' = [req EXCEPT ![r].pc = "write", ![r].until = e]
    BY <1>9 DEF Extends
  <2> HIDE DEF e
  <2>3. req' \in [Slots -> Requests]
    <3>1. req[r] \in Requests
      BY <1>1
    <3>2. [req[r] EXCEPT !.pc = "write", !.until = e] \in Requests
      BY <2>0, <3>1 DEF Requests, Pcs
    <3>3. req' = [req EXCEPT ![r] = [req[r] EXCEPT !.pc = "write", !.until = e]]
      BY <1>1, <2>2
    <3> QED
      BY <1>1, <3>2, <3>3
  <2>4. /\ req'[r].pc = "write" /\ req'[r].token = req[r].token /\ req'[r].name = req[r].name /\ req'[r].kind = req[r].kind
        /\ \A q \in Slots \ {r} : req'[q] = req[q]
    BY <1>1, <2>2 DEF Requests
  <2>5. Grounded(r)'
    BY <1>2, <2>1, <2>4 DEF Grounded, Bearing, Verifying, Entitled
  <2> QED
    BY <2>1, <2>3, <2>4, <2>5, QuietKeeps
<1>10. CASE Writes(r)
  <2>1. /\ owner' = owner /\ codes' = codes /\ Goes(r, "save") /\ UNCHANGED <<now, twoFA, listed, codes, bans, history>>
        /\ expiresAt' \in [Tokens -> Nat]
    BY <1>1, <1>2, <1>10 DEF Writes, TypeOK
  <2>2. Grows
    BY <2>1 DEF Grows, history
  <2>3. TypeOK'
    BY <1>1, <1>4, <2>1 DEF TypeOK, bans, history
  <2> QED
    BY <1>4, <2>1, <2>2, <2>3, KeptIsEnough, SessionsStay, CodesStay DEF Kept
<1>11. CASE Saves(r)
  <2>1. /\ owner' = owner /\ codes' = codes /\ Goes(r, "authorized") /\ UNCHANGED <<now, twoFA, expiresAt, bans, history>>
        /\ listed' \subseteq Tokens
    BY <1>1, <1>2, <1>11 DEF Saves, TypeOK
  <2>2. Grows
    BY <2>1 DEF Grows, history
  <2>3. TypeOK'
    BY <1>1, <1>5, <2>1, <2>2 DEF TypeOK, bans, history
  <2> QED
    BY <1>5, <2>1, <2>2, <2>3, KeptIsEnough, SessionsStay, CodesStay DEF Kept
<1> QED
  BY <1>7, <1>8, <1>9, <1>10, <1>11

LEMMA ValidatesKeeps ==
    ASSUME Inv, NEW r \in Slots, Validates(r)
    PROVE  Inv'
<1>1. /\ TypeOK /\ Grounded(r) /\ req \in [Slots -> Requests] /\ req[r].name \in Names
      /\ req[r].pc = "validate" /\ twoFA /\ req[r].secret \in Codes
  BY RequestType DEF Validates, Inv, TypeOK, Grounded, Verifying
<1> DEFINE fact == IF req[r].name \in Users /\ req[r].secret \in sent[req[r].name] THEN "code" ELSE "other"
<1>2. Shows(req[r].name, fact) /\ UNCHANGED <<now, twoFA, sessions, codes, bans>>
  BY DEF Validates
<1>3. /\ shown' \in [Users -> SUBSET Facts]
      /\ \A u \in Users : shown[u] \subseteq shown'[u]
      /\ req[r].name \in Users /\ fact \in Facts => fact \in shown'[req[r].name]
      /\ sent' = sent
  BY <1>1, <1>2, ShowsType
<1>4. Grows /\ owner' = owner /\ codes' = codes
  BY <1>2, <1>3 DEF Grows, sessions
<1>5. req' \in [Slots -> Requests] => TypeOK'
  BY <1>1, <1>2, <1>3 DEF TypeOK, sessions, bans
<1>6. CASE Concludes(r, "refused", NoName)
  <2>1. req' \in [Slots -> Requests]
    BY <1>1, <1>6, ConcludesType DEF Pcs, Names
  <2> QED
    BY <1>1, <1>4, <1>5, <1>6, <2>1, ConcludesWrites, NoneNeeded, KeptIsEnough, SessionsStay, CodesStay DEF Kept
<1>7. CASE ValidateToken(req[r].name, req[r].secret) /\ Concludes(r, "create", req[r].name)
  <2>1. req' \in [Slots -> Requests]
    BY <1>1, <1>7, ConcludesType DEF Pcs
  <2>2. req[r].name \in Users /\ req[r].secret \in sent[req[r].name] /\ "password" \in shown[req[r].name]
    BY <1>1, <1>7, ApiAuthAssumption DEF ValidateToken, Inv, CodesSent
  <2>3. "code" \in shown'[req[r].name] /\ "password" \in shown'[req[r].name]
    BY <1>3, <2>2 DEF Facts
  <2>4. Proved(req[r].name)'
    BY <1>1, <1>7, <2>3, ConcludesWrites DEF Proved
  <2>5. Grounded(r)'
    BY <1>1, <1>7, <2>2, <2>4, ConcludesWrites DEF Grounded, Bearing, Verifying, Entitled, Proved
  <2> QED
    BY <1>1, <1>4, <1>5, <1>7, <2>1, <2>5, ConcludesWrites, KeptIsEnough, SessionsStay, CodesStay DEF Kept
<1> QED
  BY <1>6, <1>7 DEF Validates

LEMMA AnswersKeep ==
    ASSUME Inv, NEW r \in Slots, Succeeds(r) \/ Fails(r) \/ AddBan(r) \/ Refuses(r) \/ Finishes(r)
    PROVE  Inv'
<1>1. /\ TypeOK /\ Grounded(r) /\ req \in [Slots -> Requests] /\ req[r].name \in Names /\ req[r].addr \in Addrs \cup {None}
      /\ badAttempts \in [Addrs -> Nat] /\ banTime \in [Addrs -> Nat] /\ bannedUsers \in [Names -> Nat]
  BY RequestType DEF Inv, TypeOK
<1>2. CASE Succeeds(r)
  <2>1. /\ req[r].pc = "authorized" /\ Proceeds(r) /\ UNCHANGED <<now, twoFA, sessions, codes, bannedUsers, history>>
        /\ handleBannedIPs(req[r].addr, TRUE)
    BY <1>2 DEF Succeeds
  <2>2. /\ badAttempts' \in [Addrs -> Nat] /\ banTime' \in [Addrs -> Nat] /\ bannedUsers' \in [Names -> Nat]
        /\ failures' \in [Addrs -> Nat]
    BY <1>1, <2>1, BansType
  <2>3. req[r].name \in Users /\ (req[r].kind = "login" => "password" \in shown[req[r].name])
        /\ (req[r].kind \notin {"login", "logout"} => Proved(req[r].name))
    BY <1>1, <2>1 DEF Grounded, Entitled
  <2>4. CASE req[r].kind = "login"
    <3>1. Concludes(r, IF twoFA THEN "send" ELSE "create", req[r].name)
      BY <2>1, <2>4 DEF Proceeds
    <3>2. (IF twoFA THEN "send" ELSE "create") \in {"send", "create"}
      OBVIOUS
    <3>3. req' \in [Slots -> Requests]
      BY <1>1, <3>1, <3>2, ConcludesType DEF Pcs
    <3>4. "password" \in shown'[req[r].name] /\ (~twoFA => Proved(req[r].name)')
      BY <1>1, <2>1, <2>3, <2>4, <3>1, ConcludesWrites DEF Proved, history
    <3>5. Grounded(r)'
      BY <1>1, <2>3, <3>1, <3>2, <3>4, ConcludesWrites DEF Grounded, Bearing, Verifying, Entitled, Proved
    <3> QED
      BY <1>1, <2>1, <2>2, <3>1, <3>3, <3>5, ConcludesWrites, BanKeeps
  <2>5. CASE req[r].kind = "logout"
    <3>1. Goes(r, "delete")
      BY <2>1, <2>5 DEF Proceeds
    <3>2. req' \in [Slots -> Requests]
      BY <1>1, <3>1, GoesType DEF Pcs
    <3> QED
      BY <1>1, <2>1, <2>2, <3>1, <3>2, GoesWrites, NoneNeeded, BanKeeps
  <2>6. CASE req[r].kind \notin {"login", "logout"}
    <3>1. Concludes(r, "served", req[r].name)
      BY <2>1, <2>6 DEF Proceeds
    <3>2. req' \in [Slots -> Requests]
      BY <1>1, <3>1, ConcludesType DEF Pcs
    <3>3. Proved(req[r].name)'
      BY <1>1, <2>1, <2>3, <2>6, <3>1, ConcludesWrites DEF Proved, history
    <3>4. Grounded(r)'
      BY <1>1, <2>3, <3>1, <3>3, ConcludesWrites DEF Grounded, Bearing, Verifying, Entitled, Proved
    <3> QED
      BY <1>1, <2>1, <2>2, <3>1, <3>2, <3>4, ConcludesWrites, BanKeeps
  <2> QED
    BY <2>4, <2>5, <2>6
<1>3. CASE Fails(r)
  <2>1. Concludes(r, "ban", req[r].name) /\ UNCHANGED <<now, twoFA, sessions, codes, bannedUsers, history>>
    BY <1>3 DEF Fails
  <2>2. /\ badAttempts' \in [Addrs -> Nat] /\ banTime' \in [Addrs -> Nat] /\ bannedUsers' \in [Names -> Nat]
        /\ failures' \in [Addrs -> Nat]
    BY <1>1, <1>3, BansType DEF Fails
  <2>3. req' \in [Slots -> Requests]
    BY <1>1, <2>1, ConcludesType DEF Pcs
  <2> QED
    BY <1>1, <2>1, <2>2, <2>3, ConcludesWrites, NoneNeeded, BanKeeps
<1>4. CASE AddBan(r)
  <2>1. Ends(r) /\ UNCHANGED <<now, twoFA, sessions, codes, badAttempts, banTime, failures, history>>
    BY <1>4 DEF AddBan
  <2>2. /\ badAttempts' \in [Addrs -> Nat] /\ banTime' \in [Addrs -> Nat] /\ bannedUsers' \in [Names -> Nat]
        /\ failures' \in [Addrs -> Nat]
    BY <1>1, <1>4, ApiAuthAssumption DEF AddBan, TypeOK
  <2> QED
    BY <1>1, <2>1, <2>2, EndsWrites, EndsType, NoneNeeded, BanKeeps
<1>5. CASE Refuses(r)
  <2>1. Ends(r) /\ UNCHANGED <<now, twoFA, sessions, codes, bannedUsers, history>>
    BY <1>5 DEF Refuses
  <2>2. /\ badAttempts' \in [Addrs -> Nat] /\ banTime' \in [Addrs -> Nat] /\ bannedUsers' \in [Names -> Nat]
        /\ failures' \in [Addrs -> Nat]
    BY <1>1, <1>5, BansType DEF Refuses
  <2> QED
    BY <1>1, <2>1, <2>2, EndsWrites, EndsType, NoneNeeded, BanKeeps
<1>6. CASE Finishes(r)
  BY <1>1, <1>6, EndsWrites, EndsType, NoneNeeded, QuietKeeps DEF Finishes
<1> QED
  BY <1>2, <1>3, <1>4, <1>5, <1>6

LEMMA SendsKeeps ==
    ASSUME Inv, NEW r \in Slots, Sends(r)
    PROVE  Inv'
<1>1. /\ TypeOK /\ Grounded(r) /\ req \in [Slots -> Requests] /\ req[r].pc = "send" /\ req[r].name \in Users
      /\ "password" \in shown[req[r].name]
  BY DEF Sends, Inv, TypeOK, Grounded, Entitled
<1>2. UNCHANGED <<now, twoFA, sessions, codes, bans, shown>>
  BY DEF Sends
<1>3. CASE Ends(r) /\ UNCHANGED sent
  BY <1>1, <1>2, <1>3, EndsWrites, EndsType, NoneNeeded, QuietKeeps DEF history
<1>4. ASSUME NEW c \in Codes, req' = [req EXCEPT ![r].pc = "store", ![r].secret = c],
             sent' = [sent EXCEPT ![req[r].name] = @ \cup {c}]
      PROVE  Inv'
  <2>1. req' \in [Slots -> Requests]
    <3>1. req[r] \in Requests
      BY <1>1
    <3>2. [req[r] EXCEPT !.pc = "store", !.secret = c] \in Requests
      BY <3>1 DEF Requests, Pcs
    <3>3. req' = [req EXCEPT ![r] = [req[r] EXCEPT !.pc = "store", !.secret = c]]
      BY <1>1, <1>4
    <3> QED
      BY <1>1, <3>2, <3>3
  <2>2. /\ req'[r].pc = "store" /\ req'[r].secret = c /\ req'[r].name = req[r].name
        /\ \A q \in Slots \ {r} : req'[q] = req[q]
    BY <1>1, <1>4 DEF Requests
  <2>3. /\ sent' \in [Users -> SUBSET Codes] /\ c \in sent'[req[r].name]
        /\ \A u \in Users : sent[u] \subseteq sent'[u]
    BY <1>1, <1>4 DEF TypeOK
  <2>4. Grows /\ owner' = owner /\ codes' = codes
    BY <1>2, <2>3 DEF Grows, sessions
  <2>5. TypeOK'
    BY <1>1, <1>2, <2>1, <2>3 DEF TypeOK, sessions, bans
  <2>6. Grounded(r)'
    BY <1>1, <1>2, <2>2, <2>3 DEF Grounded, Bearing, Verifying, Entitled
  <2> QED
    BY <2>2, <2>4, <2>5, <2>6, KeptIsEnough, SessionsStay, CodesStay DEF Kept
<1> QED
  BY <1>3, <1>4 DEF Sends

LEMMA StoresCodeKeeps ==
    ASSUME Inv, NEW r \in Slots, StoresCode(r)
    PROVE  Inv'
<1>1. /\ TypeOK /\ Grounded(r) /\ req \in [Slots -> Requests] /\ req[r].pc = "store" /\ req[r].name \in Users
      /\ "password" \in shown[req[r].name] /\ req[r].secret \in sent[req[r].name]
  BY DEF StoresCode, Inv, TypeOK, Grounded, Entitled
<1>2. Ends(r) /\ UNCHANGED <<now, twoFA, sessions, bans, history>>
  BY DEF StoresCode
<1>3. Grows /\ owner' = owner /\ sent' = sent /\ shown' = shown
  BY <1>2, QuietGrows DEF sessions, history
<1>4. codes' = [codes EXCEPT ![req[r].name] = [code |-> req[r].secret, expiry |-> now + TokenTTL]]
  BY DEF StoresCode
<1>5. codes' \in [Users -> [code : Codes \cup {None}, expiry : Nat]]
  BY <1>1, <1>4, ApiAuthAssumption DEF TypeOK
<1>6. CodesSent'
  BY <1>1, <1>3, <1>4 DEF CodesSent, Inv, TypeOK
<1>7. TypeOK'
  BY <1>1, <1>2, <1>5, EndsType DEF TypeOK, sessions, bans, history
<1> QED
  BY <1>1, <1>2, <1>3, <1>6, <1>7, EndsWrites, NoneNeeded, KeptIsEnough, SessionsStay DEF Kept

LEMMA CreatesKeeps ==
    ASSUME Inv, NEW r \in Slots, Creates(r)
    PROVE  Inv'
<1>1. /\ TypeOK /\ Grounded(r) /\ req \in [Slots -> Requests] /\ req[r].pc = "create" /\ req[r].name \in Users
      /\ Proved(req[r].name)
  BY DEF Creates, createAuthToken, Inv, TypeOK, Grounded, Entitled
<1>2. Ends(r) /\ UNCHANGED <<now, twoFA, codes, bans, history>>
  BY DEF Creates, createAuthToken
<1>3. CASE UNCHANGED sessions
  BY <1>1, <1>2, <1>3, EndsWrites, EndsType, NoneNeeded, QuietKeeps
<1>4. ASSUME NEW t \in Tokens, NEW s \in Seconds, owner[t] = None, owner' = [owner EXCEPT ![t] = req[r].name],
             expiresAt' = [expiresAt EXCEPT ![t] = now + parseTokenLifetime(s)], listed' = listed \cup {t}
      PROVE  Inv'
  <2>1. owner' \in [Tokens -> Users \cup {None}] /\ expiresAt' \in [Tokens -> Nat] /\ listed' \subseteq Tokens
    BY <1>1, <1>4, LifetimeType DEF TypeOK
  <2>2. Grows
    BY <1>1, <1>2, <1>4 DEF Grows, history, TypeOK
  <2>3. TypeOK'
    BY <1>1, <1>2, <2>1, EndsType DEF TypeOK, bans, history
  <2>4. \A u \in Users : Proved(u) => Proved(u)'
    BY <2>2, ProvedGrows
  <2>5. ASSUME NEW x \in Tokens, owner'[x] # None PROVE owner'[x] \in Users /\ Proved(owner'[x])
    BY <1>1, <1>4, <2>5 DEF TypeOK, Inv, SessionsProved
  <2>6. SessionsProved'
    BY <2>4, <2>5, <1>2 DEF SessionsProved, Proved, history
  <2> QED
    BY <1>1, <1>2, <2>2, <2>3, <2>6, EndsWrites, NoneNeeded, KeptIsEnough, CodesStay DEF Kept
<1> QED
  BY <1>3, <1>4 DEF Creates, createAuthToken

LEMMA DeletesKeeps ==
    ASSUME Inv, NEW r \in Slots, Deletes(r)
    PROVE  Inv'
<1>1. TypeOK /\ req \in [Slots -> Requests]
  BY DEF Inv, TypeOK
<1>2. /\ Ends(r) /\ UNCHANGED <<now, twoFA, owner, expiresAt, codes, bans, history>> /\ listed' \subseteq Tokens
  BY <1>1 DEF Deletes, TypeOK
<1>3. Grows
  BY <1>2 DEF Grows, history
<1>4. TypeOK'
  BY <1>1, <1>2, EndsType DEF TypeOK, bans, history
<1> QED
  BY <1>1, <1>2, <1>3, <1>4, EndsWrites, NoneNeeded, KeptIsEnough, SessionsStay, CodesStay DEF Kept

LEMMA InitInv == Init => Inv
<1> SUFFICES ASSUME Init PROVE Inv
  OBVIOUS
<1>1. req \in [Slots -> Requests]
  BY NoRequestType DEF Init
<1>2. TypeOK
  BY <1>1, ApiAuthAssumption DEF Init, TypeOK, NoCode
<1>3. ASSUME NEW r \in Slots PROVE Grounded(r)
  BY DEF Init, NoRequest, Grounded, Bearing, Verifying, Entitled
<1> QED
  BY <1>2, <1>3 DEF Init, Inv, SessionsProved, CodesSent, NoCode

LEMMA NextInv == Inv /\ [Next]_vars => Inv'
<1> SUFFICES ASSUME Inv, [Next]_vars PROVE Inv'
  OBVIOUS
<1>1. CASE UNCHANGED vars
  BY <1>1 DEF vars, Inv, TypeOK, Grounded, Bearing, Verifying, Entitled, SessionsProved, CodesSent, Proved
<1>2. CASE Tick
  <2>1. UNCHANGED <<twoFA, owner, codes, req, sent, shown>>
    BY <1>2 DEF Tick, sessions, history
  <2>2. TypeOK'
    BY <1>2 DEF Tick, sessions, history, Inv, TypeOK
  <2> QED
    BY <2>1, <2>2 DEF Inv, Grounded, Bearing, Verifying, Entitled, SessionsProved, CodesSent, Proved
<1>3. ASSUME NEW r \in Slots, Begins(r) PROVE Inv'
  BY <1>3, BeginsKeeps
<1>4. ASSUME NEW r \in Slots, Continues(r) PROVE Inv'
  BY <1>4, ChecksBanKeeps, AuthenticatesKeeps, TokenStepsKeep, ValidatesKeeps, AnswersKeep, SendsKeeps, StoresCodeKeeps,
     CreatesKeeps, DeletesKeeps DEF Continues
<1> QED
  BY <1>1, <1>2, <1>3, <1>4 DEF Next

\* Requests, sessions, codes, ban lists and attempts keep their types over any number of requests.
THEOREM TypeCorrect == Spec => []TypeOK
<1>1. Inv => TypeOK
  BY DEF Inv
<1> QED
  BY <1>1, InitInv, NextInv, PTL DEF Spec

\* Whoever is served has been authenticated, over any number of requests, users
\* and sessions: ServedProved (lookupUser, handleLogin, ValidateToken).
THEOREM Authenticated == Spec => []ServedProved
<1>1. Inv => ServedProved
  BY DEF Inv, Grounded, Entitled, ServedProved
<1> QED
  BY <1>1, InitInv, NextInv, PTL DEF Spec

-----------------------------------------------------------------------------
(* Logouts.                                                                *)

LEMMA StepLogout ==
    ASSUME Inv, [Next]_vars, NEW t \in Tokens, owner[t] # None, t \notin listed, \A q \in Slots : ~Holds(q, t)
    PROVE  t \notin listed' /\ \A q \in Slots : ~Holds(q, t)'
<1>0. TypeOK
  BY DEF Inv
<1>1. CASE UNCHANGED vars \/ Tick
  BY <1>1 DEF vars, Tick, sessions, Holds
<1>2. ASSUME NEW r \in Slots, Begins(r)
      PROVE  t \notin listed' /\ \A q \in Slots : ~Holds(q, t)'
  <2>1. /\ listed' = listed /\ req'[r].pc \in {"banned", "failed", "refused"}
        /\ \A q \in Slots \ {r} : req'[q] = req[q]
    BY <1>0, <1>2 DEF Begins, ArrivesWithName, ArrivesWithToken, ArrivesWithCode, ArrivesBare, ArrivesMalformed, Arrives,
       sessions, TypeOK
  <2> QED
    BY <2>1 DEF Holds
<1>3. ASSUME NEW r \in Slots, Continues(r)
      PROVE  t \notin listed' /\ \A q \in Slots : ~Holds(q, t)'
  <2>1. ASSUME NEW pc, Goes(r, pc), pc \in {"expiry", "extend", "write", "save"} => req[r].token # t
        PROVE  \A q \in Slots : ~Holds(q, t)'
    BY <1>0, <2>1, GoesWrites DEF Holds
  <2>2. ASSUME Ends(r) PROVE \A q \in Slots : ~Holds(q, t)'
    BY <1>0, <2>2, EndsWrites DEF Holds
  <2>3. ASSUME NEW pc \in {"failed", "refused", "ban", "create", "send", "served"}, NEW n, Concludes(r, pc, n)
        PROVE  \A q \in Slots : ~Holds(q, t)'
    BY <1>0, <2>3, ConcludesWrites DEF Holds
  <2>4. CASE ChecksBan(r)
    <3>1. AfterBanCheck(r) \in {"find", "validate", "failed", "idle", "credentials"}
      BY DEF AfterBanCheck
    <3> QED
      BY <2>1, <2>2, <2>3, <2>4, <3>1 DEF ChecksBan, sessions
  <2>5. CASE Authenticates(r)
    BY <2>1, <2>2, <2>3, <2>5 DEF Authenticates, sessions
  <2>6. CASE Finds(r)
    BY <2>1, <2>3, <2>6 DEF Finds, sessions
  <2>7. CASE ChecksExpiry(r)
    <3>1. req[r].token # t
      BY <2>7 DEF ChecksExpiry, Holds
    <3> QED
      BY <2>1, <2>3, <2>7, <3>1 DEF ChecksExpiry, sessions
  <2>8. CASE Extends(r)
    <3>1. req[r].token # t
      BY <2>8 DEF Extends, Holds
    <3>2. req'[r].token = req[r].token /\ \A q \in Slots \ {r} : req'[q] = req[q]
      BY <1>0, <2>8 DEF Extends, TypeOK, Requests
    <3> QED
      BY <2>8, <3>1, <3>2 DEF Extends, sessions, Holds
  <2>9. CASE Writes(r)
    <3>1. req[r].token # t
      BY <2>9 DEF Writes, Holds
    <3> QED
      BY <2>1, <2>9, <3>1 DEF Writes
  <2>10. CASE Saves(r)
    <3>1. req[r].token # t
      BY <2>10 DEF Saves, Holds
    <3> QED
      BY <2>1, <2>10, <3>1 DEF Saves
  <2>11. CASE Validates(r)
    BY <2>3, <2>11 DEF Validates, sessions
  <2>12. CASE Succeeds(r)
    BY <2>1, <2>3, <2>12 DEF Succeeds, Proceeds, sessions
  <2>13. CASE Fails(r) \/ AddBan(r) \/ Refuses(r) \/ Finishes(r)
    BY <2>2, <2>3, <2>13 DEF Fails, AddBan, Refuses, Finishes, sessions
  <2>14. CASE Sends(r)
    <3>1. CASE Ends(r)
      BY <2>2, <2>14, <3>1 DEF Sends, sessions
    <3>2. ASSUME NEW c \in Codes, req' = [req EXCEPT ![r].pc = "store", ![r].secret = c]
          PROVE  \A q \in Slots : ~Holds(q, t)'
      <4>1. req'[r].pc = "store" /\ \A q \in Slots \ {r} : req'[q] = req[q]
        BY <1>0, <3>2 DEF TypeOK, Requests
      <4> QED
        BY <4>1 DEF Holds
    <3> QED
      BY <2>14, <3>1, <3>2 DEF Sends, sessions
  <2>15. CASE StoresCode(r) \/ Deletes(r)
    BY <2>2, <2>15 DEF StoresCode, Deletes, sessions
  <2>16. CASE Creates(r)
    BY <2>2, <2>16 DEF Creates, createAuthToken, sessions
  <2> QED
    BY <1>3, <2>4, <2>5, <2>6, <2>7, <2>8, <2>9, <2>10, <2>11, <2>12, <2>13, <2>14, <2>15, <2>16 DEF Continues
<1> QED
  BY <1>1, <1>2, <1>3 DEF Next

\* A session that was logged out and that no request still holds stays logged
\* out: LogoutHolds (increaseSessionLifetime against handleDeleteLogout).
THEOREM LoggedOut == Spec => LogoutHolds
<1>1. Inv /\ [Next]_vars =>
        [\A t \in Tokens :
          owner[t] # None /\ t \notin listed /\ (\A r \in Slots : ~Holds(r, t))
              => t \notin listed' /\ \A r \in Slots : ~Holds(r, t)']_vars
  BY StepLogout
<1> QED
  BY <1>1, InitInv, NextInv, PTL DEF Spec, LogoutHolds

-----------------------------------------------------------------------------
(* Bans of addresses.                                                      *)

\* What is known of an address: the list counts no less than what failed since a success or the
\* end of a ban; during a ban only requests that were under way can still fail.
Limited(a) ==
    /\ badAttempts[a] < MaxFailedLogin
    /\ ~IsBannedIP(a) => failures[a] <= badAttempts[a]
    /\ IsBannedIP(a) => failures[a] + Cardinality(Pending(a)) < MaxFailedLogin + Cardinality(Slots)

GuessInv == MaxFailedLogin > 0 => \A a \in Addrs : Limited(a)

\* A request goes on for its address or is over; one that banned its name is over.
Leads(r) ==
    /\ \A q \in Slots \ {r} : req'[q] = req[q]
    /\ req'[r].addr = None \/ (req'[r].addr = req[r].addr /\ req[r].pc # "ban")

LEMMA PendingFinite ==
    ASSUME NEW a
    PROVE  /\ IsFiniteSet(Pending(a)) /\ Pending(a) \subseteq Slots
           /\ Cardinality(Pending(a)) \in Nat /\ Cardinality(Slots) \in Nat
           /\ Cardinality(Pending(a)) <= Cardinality(Slots)
           /\ Pending(a) # Slots => Cardinality(Pending(a)) < Cardinality(Slots)
<1>1. IsFiniteSet(Slots) /\ Pending(a) \subseteq Slots
  BY ApiAuthAssumption DEF Pending
<1>2. IsFiniteSet(Pending(a))
  BY <1>1, FS_Subset
<1>3. Cardinality(Pending(a)) \in Nat /\ Cardinality(Slots) \in Nat
  BY <1>1, <1>2, FS_CardinalityType
<1> QED
  BY <1>1, <1>2, <1>3, FS_Subset

\* A step of a request that counts nothing keeps the limits of every address it does not start
\* to use, and of one that is not banned.
LEMMA QuietLimited ==
    ASSUME TypeOK, MaxFailedLogin > 0, NEW a \in Addrs, Limited(a), UNCHANGED now,
           badAttempts'[a] = badAttempts[a], banTime'[a] = banTime[a], failures'[a] = failures[a],
           ~IsBannedIP(a) \/ Pending(a)' \subseteq Pending(a)
    PROVE  Limited(a)'
<1>1. IsBannedIP(a)' <=> IsBannedIP(a)
  BY DEF IsBannedIP
<1>2. CASE ~IsBannedIP(a)
  BY <1>1, <1>2 DEF Limited
<1>3. CASE IsBannedIP(a)
  <2>1. Pending(a)' \subseteq Pending(a)
    BY <1>3
  <2>2. Cardinality(Pending(a)') <= Cardinality(Pending(a)) /\ Cardinality(Pending(a)') \in Nat
    BY <2>1, PendingFinite, FS_Subset, FS_CardinalityType
  <2>3. failures[a] \in Nat /\ MaxFailedLogin \in Nat /\ Cardinality(Slots) \in Nat /\ Cardinality(Pending(a)) \in Nat
    BY PendingFinite, ApiAuthAssumption DEF TypeOK
  <2> QED
    BY <1>1, <1>3, <2>2, <2>3 DEF Limited
<1> QED
  BY <1>2, <1>3

\* A request that leads on starts no use of an address.
LEMMA LeadsShrinks ==
    ASSUME NEW r \in Slots, Leads(r), NEW a \in Addrs
    PROVE  Pending(a)' \subseteq Pending(a)
BY ApiAuthAssumption DEF Leads, Pending

\* A success lifts the ban and clears the counts of the address.
LEMMA SuccessLimited ==
    ASSUME TypeOK, MaxFailedLogin > 0, NEW r \in Slots, Leads(r), NEW a \in Addrs, Limited(a), UNCHANGED now,
           handleBannedIPs(req[r].addr, TRUE)
    PROVE  Limited(a)'
<1>1. AddSuccessAttempt(req[r].addr) /\ failures' = [failures EXCEPT ![req[r].addr] = 0]
  BY ApiAuthAssumption DEF handleBannedIPs
<1>2. CASE req[r].addr = a
  BY <1>1, <1>2, ApiAuthAssumption DEF AddSuccessAttempt, TypeOK, Limited, IsBannedIP
<1>3. CASE req[r].addr # a
  <2>1. badAttempts'[a] = badAttempts[a] /\ banTime'[a] = banTime[a] /\ failures'[a] = failures[a]
    BY <1>1, <1>3 DEF AddSuccessAttempt, TypeOK
  <2> QED
    BY <2>1, LeadsShrinks, QuietLimited
<1> QED
  BY <1>2, <1>3

\* A failure counts, bans the address when it is the N-th, and is the last of its request.
LEMMA FailureLimited ==
    ASSUME TypeOK, MaxFailedLogin > 0, BanTime > 0, NEW r \in Slots, Leads(r), NEW a \in Addrs, Limited(a), UNCHANGED now,
           handleBannedIPs(req[r].addr, FALSE), req[r].pc # "ban", req'[r].pc = "ban" \/ req'[r].addr = None
    PROVE  Limited(a)'
<1>1. AddBadAttempt(req[r].addr) /\ failures' = [failures EXCEPT ![req[r].addr] = @ + 1]
  BY ApiAuthAssumption DEF handleBannedIPs
<1>2. CASE req[r].addr # a
  <2>1. badAttempts'[a] = badAttempts[a] /\ banTime'[a] = banTime[a] /\ failures'[a] = failures[a]
    BY <1>1, <1>2 DEF AddBadAttempt, TypeOK
  <2> QED
    BY <2>1, LeadsShrinks, QuietLimited
<1>3. CASE req[r].addr = a
  <2> DEFINE n == Cardinality(Pending(a))
             m == Cardinality(Pending(a)')
             all == Cardinality(Slots)
  <2>1. Pending(a)' = Pending(a) \ {r} /\ r \in Pending(a)
    BY <1>3, ApiAuthAssumption DEF Leads, Pending
  <2>2. m = n - 1 /\ n \in Nat /\ m \in Nat /\ all \in Nat /\ n <= all
    <3>1. IsFiniteSet(Pending(a)) /\ n \in Nat /\ all \in Nat /\ n <= all
      BY PendingFinite
    <3>2. IsFiniteSet(Pending(a) \ {r}) /\ Cardinality(Pending(a) \ {r}) = n - 1
      BY <2>1, <3>1, FS_RemoveElement
    <3>3. m = n - 1
      BY <2>1, <3>2
    <3>4. m \in Nat
      BY <2>1, <3>2, FS_CardinalityType
    <3> QED
      BY <3>1, <3>3, <3>4
  <2>3. /\ failures'[a] = failures[a] + 1 /\ failures[a] \in Nat /\ badAttempts[a] \in Nat /\ banTime[a] \in Nat
        /\ now \in Nat /\ BanTime \in Nat /\ MaxFailedLogin \in Nat
    BY <1>1, <1>3, ApiAuthAssumption DEF TypeOK
  <2>4. \/ badAttempts[a] + 1 = MaxFailedLogin /\ badAttempts'[a] = 0 /\ banTime'[a] = now + BanTime
        \/ badAttempts[a] + 1 # MaxFailedLogin /\ badAttempts'[a] = badAttempts[a] + 1 /\ banTime'[a] = banTime[a]
    BY <1>1, <1>3 DEF AddBadAttempt, TypeOK
  <2>5. badAttempts[a] < MaxFailedLogin /\ (banTime[a] <= now => failures[a] <= badAttempts[a])
        /\ (banTime[a] > now => failures[a] + n < MaxFailedLogin + all)
    BY <2>3 DEF Limited, IsBannedIP
  <2> HIDE DEF n, m, all
  <2>6. badAttempts'[a] < MaxFailedLogin /\ (banTime'[a] <= now => failures'[a] <= badAttempts'[a])
    BY <2>3, <2>4, <2>5
  <2>7. banTime'[a] > now => failures'[a] + m < MaxFailedLogin + all
    BY <2>2, <2>3, <2>4, <2>5
  <2>8. ~IsBannedIP(a)' => banTime'[a] <= now
    BY <2>3, <2>4 DEF IsBannedIP
  <2>9. IsBannedIP(a)' => banTime'[a] > now
    BY DEF IsBannedIP
  <2> QED
    BY <2>6, <2>7, <2>8, <2>9 DEF Limited, m, all
<1> QED
  BY <1>2, <1>3

\* Every step of a request that is under way leads on.
LEMMA ContinuesLeads ==
    ASSUME Inv, NEW r \in Slots, Continues(r)
    PROVE  Leads(r)
<1>0. TypeOK /\ req \in [Slots -> Requests]
  BY DEF Inv, TypeOK
<1>1. ASSUME NEW pc, Goes(r, pc), req[r].pc # "ban" PROVE Leads(r)
  BY <1>0, <1>1, GoesWrites DEF Leads
<1>2. ASSUME Ends(r) PROVE Leads(r)
  BY <1>0, <1>2, EndsWrites DEF Leads
<1>3. ASSUME NEW pc, NEW n, Concludes(r, pc, n), req[r].pc # "ban" PROVE Leads(r)
  BY <1>0, <1>3, ConcludesWrites DEF Leads
<1>4. CASE Extends(r)
  BY <1>0, <1>4 DEF Extends, Requests, Leads
<1>5. CASE Sends(r)
  <2>1. ASSUME NEW c \in Codes, req' = [req EXCEPT ![r].pc = "store", ![r].secret = c], req[r].pc # "ban"
        PROVE  Leads(r)
    BY <1>0, <2>1 DEF Requests, Leads
  <2> QED
    BY <1>2, <1>5, <2>1 DEF Sends
<1>6. CASE ~(Extends(r) \/ Sends(r))
  BY <1>1, <1>2, <1>3, <1>6 DEF Continues, ChecksBan, Authenticates, Finds, ChecksExpiry, Writes, Saves, Validates,
     Succeeds, Proceeds, Fails, AddBan, Refuses, Finishes, StoresCode, Creates, createAuthToken, Deletes
<1> QED
  BY <1>4, <1>5, <1>6

\* Every step keeps the limits.
LEMMA GuessStep ==
    ASSUME BanTime > 0, Inv, GuessInv, [Next]_vars
    PROVE  GuessInv'
<1> SUFFICES ASSUME MaxFailedLogin > 0, NEW a \in Addrs PROVE Limited(a)'
  BY DEF GuessInv
<1>0. TypeOK /\ Limited(a)
  BY DEF Inv, GuessInv
<1>1. CASE UNCHANGED vars
  BY <1>0, <1>1 DEF vars, Limited, IsBannedIP, Pending
<1>2. CASE Tick
  <2>1. /\ now' = now + 1 /\ now \in Nat /\ banTime[a] \in Nat /\ badAttempts[a] \in Nat /\ banTime' = banTime
        /\ badAttempts' = badAttempts /\ failures'[a] = IF banTime[a] = now + 1 THEN 0 ELSE failures[a]
    BY <1>0, <1>2 DEF Tick, TypeOK
  <2>2. Pending(a)' = Pending(a)
    BY <1>2 DEF Tick, Pending
  <2>3. CASE banTime[a] <= now
    BY <1>0, <2>1, <2>3 DEF Limited, IsBannedIP
  <2>4. CASE banTime[a] = now + 1
    BY <1>0, <2>1, <2>4 DEF Limited, IsBannedIP
  <2>5. CASE banTime[a] > now + 1
    BY <1>0, <2>1, <2>2, <2>5 DEF Limited, IsBannedIP
  <2> QED
    BY <2>1, <2>3, <2>4, <2>5
<1>3. ASSUME NEW r \in Slots, Begins(r) PROVE Limited(a)'
  <2>1. PICK b \in Addrs : /\ ~IsBannedIP(b) /\ req'[r].addr = b /\ UNCHANGED <<now, badAttempts, banTime, failures>>
                           /\ \A q \in Slots \ {r} : req'[q] = req[q]
    BY <1>0, <1>3 DEF Begins, ArrivesWithName, ArrivesWithToken, ArrivesWithCode, ArrivesBare, ArrivesMalformed, Arrives,
       Admit, TypeOK, bans
  <2>2. a # b => Pending(a)' \subseteq Pending(a)
    BY <2>1 DEF Pending
  <2> QED
    BY <1>0, <2>1, <2>2, QuietLimited
<1>4. ASSUME NEW r \in Slots, Continues(r) PROVE Limited(a)'
  <2>1. Leads(r) /\ UNCHANGED now
    BY <1>4, ContinuesLeads DEF Continues, ChecksBan, Authenticates, Finds, ChecksExpiry, Extends, Writes, Saves, Validates,
       Succeeds, Fails, AddBan, Refuses, Finishes, Sends, StoresCode, Creates, Deletes
  <2>2. CASE Succeeds(r)
    BY <1>0, <2>1, <2>2, SuccessLimited DEF Succeeds
  <2>3. CASE Fails(r)
    <3>1. req'[r].pc = "ban" /\ req[r].pc # "ban" /\ handleBannedIPs(req[r].addr, FALSE)
      BY <1>0, <2>3, ConcludesWrites DEF Fails, TypeOK
    <3> QED
      BY <1>0, <2>1, <3>1, FailureLimited
  <2>4. CASE Refuses(r)
    <3>1. req'[r].addr = None /\ req[r].pc # "ban" /\ handleBannedIPs(req[r].addr, FALSE)
      BY <1>0, <2>4, EndsWrites DEF Refuses, TypeOK
    <3> QED
      BY <1>0, <2>1, <3>1, FailureLimited
  <2>5. CASE ~(Succeeds(r) \/ Fails(r) \/ Refuses(r))
    <3>1. UNCHANGED <<badAttempts, banTime, failures>>
      BY <1>4, <2>5 DEF Continues, ChecksBan, Authenticates, Finds, ChecksExpiry, Extends, Writes, Saves, Validates, AddBan,
         Finishes, Sends, StoresCode, Creates, createAuthToken, Deletes, bans
    <3> QED
      BY <1>0, <2>1, <3>1, LeadsShrinks, QuietLimited
  <2> QED
    BY <2>2, <2>3, <2>4, <2>5
<1> QED
  BY <1>1, <1>2, <1>3, <1>4 DEF Next

\* For any number of addresses and of requests under way, when bans have a duration: between a
\* success or the end of a ban and the next ban an address fails less than MaxFailedLogin times,
\* and beyond that only with requests that were under way: GuessesLimited (AddBadAttempt,
\* AddSuccessAttempt, RejectBannedIPs).
THEOREM GuessesAreLimited ==
    ASSUME BanTime > 0
    PROVE  Spec => []GuessesLimited
<1>1. Init => GuessInv
  <2> SUFFICES ASSUME Init, MaxFailedLogin > 0, NEW a \in Addrs PROVE Limited(a)
    BY DEF GuessInv
  <2> QED
    BY ApiAuthAssumption DEF Init, Limited, IsBannedIP
<1>2. Inv /\ GuessInv => GuessesLimited
  <2> SUFFICES ASSUME Inv, GuessInv, NEW a \in Addrs, MaxFailedLogin > 0
               PROVE  /\ ~IsBannedIP(a) => failures[a] < MaxFailedLogin
                      /\ failures[a] + Cardinality(Pending(a)) < MaxFailedLogin + Cardinality(Slots)
    BY DEF GuessesLimited
  <2>1. /\ failures[a] \in Nat /\ badAttempts[a] \in Nat /\ MaxFailedLogin \in Nat /\ Limited(a)
        /\ Cardinality(Pending(a)) \in Nat /\ Cardinality(Slots) \in Nat
        /\ Cardinality(Pending(a)) <= Cardinality(Slots)
    BY ApiAuthAssumption, PendingFinite DEF Inv, TypeOK, GuessInv
  <2> QED
    BY <2>1 DEF Limited
<1>3. Inv /\ GuessInv /\ [Next]_vars => GuessInv'
  BY GuessStep
<1> QED
  BY <1>1, <1>2, <1>3, InitInv, NextInv, PTL DEF Spec
=============================================================================
