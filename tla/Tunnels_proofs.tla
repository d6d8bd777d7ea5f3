--------------------------- MODULE Tunnels_proofs ---------------------------
(***************************************************************************)
(* Proofs about tunnels, for any number of sessions, requests, ports,      *)
(* remotes and connections: first about ClientTunnels, then about Tunnel.  *)
(* The second justifies two steps of the first: DeleteDone and             *)
(* RemoveAutoClosed take a tunnel off the list once its listener has       *)
(* closed, whatever its connections do, and a tunnel that left the list is *)
(* quiet.                                                                  *)
(*                                                                         *)
(* What GetTunnelsToReestablish selects is proved by induction over the    *)
(* new remotes and over the old tunnels, from types and from lists without *)
(* equal tunnels; the parts before it ask little more of the remotes than  *)
(* that they are neither requests nor None.                                *)
(***************************************************************************)
EXTENDS ClientTunnels, MCTunnel, WellFoundedInduction, FiniteSetTheorems, SequenceTheorems, TLAPS

Phases == {"none", "starting", "live", "lost", "refused", "over"}
PutSteps == {"idle", "checked", "locked", "starting", "answered", "unsaved"}

IsList(q) == \E S : q \in Seq(S)

\* The typing the argument needs.  Remotes, and the lists of them, may be anything.
Types ==
    /\ phase \in [Objects -> Phases]
    /\ phase[0] = "over"
    /\ DOMAIN lock = Objects
    /\ current \in Objects \cup {None}
    /\ DOMAIN put = Requests
    /\ \A q \in Requests : put[q] \in [pc : PutSteps, sess : Objects, remote : {put[q].remote}]
    /\ mu \in [put : Requests \cup {None}, sess : Objects \cup {None}, todo : {mu.todo},
               got : {mu.got}, portsPool : {mu.portsPool}]

\* An object whose StartClient succeeded, in this process or in an earlier one.
Lived(s) == phase[s] \in {"live", "lost", "over"}

\* Whoever holds ClientService.mu for a connection is starting its session; a PUT request brings one
\* remote.  The client in the map, and the one a request works on, have been started.
JobInv ==
    /\ ~Free /\ mu.put = None => phase[mu.sess] = "starting"
    /\ mu.put # None => ~Free /\ (mu.todo # <<>> => Tail(mu.todo) = <<>>)
    /\ current # None => Lived(current)
    /\ \A q \in Requests : put[q].pc \in {"checked", "locked", "starting"} => Lived(put[q].sess)

\* A request holds the lock of its client while it is between its checks and its answer, and
\* ClientService.mu in the second part of that.
LocksInOrder ==
    \A q \in Requests :
        /\ \A s \in Objects : lock[s] = q <=> put[q].pc \in {"locked", "starting"} /\ put[q].sess = s
        /\ put[q].pc = "starting" <=> mu.put = q
        /\ put[q].pc = "starting" => mu.sess = put[q].sess

\* The inductive invariant of the locks.
LockInv == Types /\ JobInv /\ LocksInOrder

Lists ==
    /\ DOMAIN tunnels = Objects
    /\ DOMAIN stopped = Objects
    /\ \A s \in Objects : IsList(tunnels[s])
    /\ row # None => IsList(row)

\* A session that has not begun has nothing open.
Unused == \A s \in Sessions :
    phase[s] = "none" => tunnels[s] = <<>> /\ stopped[s] = {} /\ \A l \in listeners : l.sess # s

\* No two tunnels on a list are equal.
NoTwins(q) == \A i, j \in DOMAIN q : Equals(q[i], q[j]) => i = j

\* What the types, and StartTunnel's look for an equal tunnel, say of the lists.
Tidy == \A s \in Objects :
    NoTwins(tunnels[s]) /\ \A i \in DOMAIN tunnels[s] : tunnels[s][i] \notin Requests \cup {None}

\* The listeners ls of session s are those of tunnels on the list t, and have one of each, but for
\* some in st, which are being ended.
Fits(ls, t, st, s) ==
    /\ \A l \in ls : l.sess = s => \E i \in DOMAIN t : l = Listener(s, t[i])
    /\ \A i \in DOMAIN t : Listener(s, t[i]) \in ls \/ t[i] \in st
    /\ \A x \in st : \E i \in DOMAIN t : x = t[i]

\* The inductive invariant of the listeners.
ListenInv ==
    /\ Lists /\ Unused
    /\ \A k, l \in listeners : k.port = l.port => k = l
    /\ \A l \in listeners : l.port \notin foreign
    /\ \A s \in Sessions : phase[s] \in {"starting", "live", "lost"} => Fits(listeners, tunnels[s], stopped[s], s)

\* The tunnel being opened is one that is open: the remotes of a PUT request are all done.
SavedInv ==
    current # None => \A t \in ToSet(tunnels[current]) :
        \/ t \in ToSet(row)
        \/ mu.sess = current /\ mu.todo = <<>> /\ mu.got = t
        \/ \E q \in Requests :
              put[q].pc = "unsaved" /\ put[q].sess = current /\ put[q].remote = t

-----------------------------------------------------------------------------
(* What a step of startClientTunnels does.                                 *)

Advances(r) == \E pool : mu' = [mu EXCEPT !.todo = Tail(@), !.got = r, !.portsPool = pool]

Skips(r) == Has(mu.sess, r) /\ Advances(r) /\ UNCHANGED <<tunnels, listeners, phase, lock, put>>

Opens(r) ==
    /\ r.lport \notin Busy
    /\ listeners' = listeners \cup {Listener(mu.sess, r)}
    /\ tunnels' = [tunnels EXCEPT ![mu.sess] = Append(@, r)]
    /\ Advances(r)
    /\ UNCHANGED <<phase, lock, put>>

LEMMA OpenCases ==
  ASSUME OpenNext
  PROVE  /\ ~Free /\ mu.todo # <<>> /\ UNCHANGED <<repo, foreign, stopped>>
         /\ StartFails(Only("answered")) \/ \E r : Skips(r) \/ Opens(r)
<1>1. ASSUME NEW r, NEW pool, StartTunnel(r, pool)
      PROVE  StartFails(Only("answered")) \/ Skips(r) \/ Opens(r)
  BY <1>1 DEF StartTunnel, Skips, Opens, Advances
<1>2. StartFails(Only("answered")) \/ \E r : Skips(r) \/ Opens(r)
  BY <1>1 DEF OpenNext, OpenRandom, OpenSpecified
<1> QED
  BY <1>2 DEF OpenNext

-----------------------------------------------------------------------------
(* Lists.                                                                  *)

LEMMA EmptyList == IsList(<<>>)
  BY DEF IsList

\* A list that grows by one.
LEMMA AppendList == ASSUME NEW q, IsList(q), NEW r
                    PROVE  /\ IsList(Append(q, r)) /\ DOMAIN Append(q, r) = 1 .. Len(q) + 1
                           /\ DOMAIN q = 1 .. Len(q) /\ Len(q) \in Nat
                           /\ \A i \in DOMAIN Append(q, r) : Append(q, r)[i] = IF i = Len(q) + 1 THEN r ELSE q[i]
<1> PICK S : q \in Seq(S)
  BY DEF IsList
<1>1. q \in Seq(S \cup {r}) /\ r \in S \cup {r}
  OBVIOUS
<1>2. Append(q, r) \in Seq(S \cup {r})
  BY <1>1
<1> QED
  BY <1>1, <1>2 DEF IsList

\* A list that loses one.
LEMMA RemoveList == ASSUME NEW q, IsList(q), NEW i \in DOMAIN q
                    PROVE  /\ IsList(RemoveAt(q, i)) /\ DOMAIN RemoveAt(q, i) = 1 .. Len(q) - 1
                           /\ DOMAIN q = 1 .. Len(q) /\ Len(q) \in Nat
                           /\ \A j \in DOMAIN RemoveAt(q, i) : RemoveAt(q, i)[j] = IF j < i THEN q[j] ELSE q[j + 1]
<1> PICK S : q \in Seq(S)
  BY DEF IsList
<1> DEFINE a == SubSeq(q, 1, i - 1)
           b == SubSeq(q, i + 1, Len(q))
<1>1. DOMAIN q = 1 .. Len(q) /\ Len(q) \in Nat /\ i \in 1 .. Len(q)
  OBVIOUS
<1>2. a \in Seq(S) /\ Len(a) = i - 1 /\ \A j \in 1 .. i - 1 : a[j] = q[j]
  <2>1. 1 \in 1 .. Len(q) + 1 /\ i - 1 \in 1 - 1 .. Len(q)
    BY <1>1
  <2>2. /\ SubSeq(q, 1, i - 1) \in Seq(S) /\ Len(SubSeq(q, 1, i - 1)) = IF 1 <= i - 1 THEN (i - 1) - 1 + 1 ELSE 0
        /\ \A j \in 1 .. (i - 1) - 1 + 1 : SubSeq(q, 1, i - 1)[j] = q[1 + j - 1]
    BY <2>1, SubSeqProperties
  <2> QED
    BY <1>1, <2>2
<1>3. b \in Seq(S) /\ Len(b) = Len(q) - i /\ \A j \in 1 .. Len(q) - i : b[j] = q[j + i]
  <2>1. i + 1 \in 1 .. Len(q) + 1 /\ Len(q) \in (i + 1) - 1 .. Len(q)
    BY <1>1
  <2>2. /\ SubSeq(q, i + 1, Len(q)) \in Seq(S)
        /\ Len(SubSeq(q, i + 1, Len(q))) = IF i + 1 <= Len(q) THEN Len(q) - (i + 1) + 1 ELSE 0
        /\ \A j \in 1 .. Len(q) - (i + 1) + 1 : SubSeq(q, i + 1, Len(q))[j] = q[(i + 1) + j - 1]
    BY <2>1, SubSeqProperties
  <2>3. Len(b) = Len(q) - i
    <3>1. CASE i = Len(q)
      BY <1>1, <2>2, <3>1
    <3>2. CASE i < Len(q)
      BY <1>1, <2>2, <3>2
    <3> QED
      BY <1>1, <3>1, <3>2
  <2>4. ASSUME NEW j \in 1 .. Len(q) - i PROVE b[j] = q[j + i]
    <3>1. j \in 1 .. Len(q) - (i + 1) + 1 /\ (i + 1) + j - 1 = j + i
      BY <1>1
    <3> QED
      BY <2>2, <3>1
  <2> QED
    BY <2>2, <2>3, <2>4
<1>4. RemoveAt(q, i) = a \o b
  BY Zenon DEF RemoveAt
<1> HIDE DEF a, b
<1>5. a \o b \in Seq(S) /\ Len(a \o b) = Len(q) - 1
  <2>1. a \o b \in Seq(S) /\ Len(a \o b) = Len(a) + Len(b)
    BY <1>2, <1>3, ConcatProperties
  <2> QED
    BY <1>1, <1>2, <1>3, <2>1
<1>6. ASSUME NEW j \in 1 .. Len(q) - 1
      PROVE  (a \o b)[j] = IF j < i THEN q[j] ELSE q[j + 1]
  <2>1. (a \o b)[j] = IF j <= Len(a) THEN a[j] ELSE b[j - Len(a)]
    BY <1>1, <1>2, <1>3, ConcatProperties
  <2>2. CASE j < i
    BY <1>1, <1>2, <2>1, <2>2
  <2>3. CASE j >= i
    <3>1. j - Len(a) \in 1 .. Len(q) - i /\ (j - Len(a)) + i = j + 1 /\ ~(j <= Len(a)) /\ ~(j < i)
      BY <1>1, <1>2, <2>3
    <3>2. b[j - Len(a)] = q[(j - Len(a)) + i]
      BY <1>3, <3>1
    <3> QED
      BY <2>1, <3>1, <3>2
  <2>4. j < i \/ j >= i
    BY <1>1
  <2> QED
    BY <2>2, <2>3, <2>4
<1>7. DOMAIN (a \o b) = 1 .. Len(q) - 1
  BY <1>5, LenProperties
<1> QED
  BY <1>1, <1>4, <1>5, <1>6, <1>7 DEF IsList

LEMMA RemoveSubset == ASSUME NEW q, IsList(q), NEW i \in DOMAIN q PROVE ToSet(RemoveAt(q, i)) \subseteq ToSet(q)
<1> DEFINE u == RemoveAt(q, i)
<1>1. /\ DOMAIN u = 1 .. Len(q) - 1 /\ DOMAIN q = 1 .. Len(q) /\ Len(q) \in Nat
      /\ \A j \in DOMAIN u : u[j] = IF j < i THEN q[j] ELSE q[j + 1]
  BY RemoveList
<1> HIDE DEF u
<1>2. ASSUME NEW j \in DOMAIN u PROVE \E k \in DOMAIN q : u[j] = q[k]
  BY <1>1
<1> QED
  BY <1>2 DEF ToSet, u

\* Only the session's own listeners matter.
LEMMA FitsOthers ==
  ASSUME NEW ls, NEW ms, NEW t, NEW st, NEW s, Fits(ls, t, st, s),
         \A l \in ls : l.sess = s => l \in ms, \A l \in ms : l.sess = s => l \in ls
  PROVE  Fits(ms, t, st, s)
  BY DEF Fits, Listener

\* StartTunnel keeps the listeners and the list together,
LEMMA FitsAppend ==
  ASSUME NEW ls, NEW t, NEW st, NEW s, Fits(ls, t, st, s), IsList(t), NEW r
  PROVE  Fits(ls \cup {Listener(s, r)}, Append(t, r), st, s)
<1>1. /\ DOMAIN Append(t, r) = 1 .. Len(t) + 1 /\ DOMAIN t = 1 .. Len(t) /\ Len(t) \in Nat
      /\ \A i \in DOMAIN Append(t, r) : Append(t, r)[i] = IF i = Len(t) + 1 THEN r ELSE t[i]
  BY AppendList
<1> DEFINE u == Append(t, r)
<1> HIDE DEF u
<1>2. /\ DOMAIN u = 1 .. Len(t) + 1 /\ DOMAIN t \subseteq DOMAIN u /\ Len(t) + 1 \in DOMAIN u
      /\ u[Len(t) + 1] = r /\ \A i \in DOMAIN t : u[i] = t[i]
      /\ \A i \in DOMAIN u : i = Len(t) + 1 \/ i \in DOMAIN t
  BY <1>1 DEF u
<1>3. Fits(ls \cup {Listener(s, r)}, u, st, s)
  BY <1>2, Zenon DEF Fits
<1> QED
  BY <1>3 DEF u

\* so does the end of a tunnel's context, and its listener's,
LEMMA FitsStop ==
  ASSUME NEW ls, NEW t, NEW st, NEW s, Fits(ls, t, st, s), NEW i \in DOMAIN t
  PROVE  Fits(ls, t, st \cup {t[i]}, s)
  BY DEF Fits

LEMMA FitsClose ==
  ASSUME NEW ls, NEW t, NEW st, NEW s, Fits(ls, t, st, s), NoTwins(t), NEW x \in st
  PROVE  Fits(ls \ {Listener(s, x)}, t, st, s)
<1>1. PICK k \in DOMAIN t : x = t[k]
  BY DEF Fits
<1>2. ASSUME NEW i \in DOMAIN t, Listener(s, t[i]) = Listener(s, x) PROVE t[i] \in st
  <2>1. t[i].lport = t[k].lport /\ t[i].target = t[k].target
    BY <1>1, <1>2 DEF Listener
  <2> QED
    BY <1>1, <2>1 DEF NoTwins, Equals
<1> QED
  BY <1>2 DEF Fits

\* and removeTunnelByID.
LEMMA FitsRemove ==
  ASSUME NEW ls, NEW t, NEW st, NEW s, Fits(ls, t, st, s), IsList(t), NoTwins(t), NEW i \in DOMAIN t,
         Listener(s, t[i]) \notin ls
  PROVE  Fits(ls, RemoveAt(t, i), st \ {t[i]}, s)
<1> DEFINE u == RemoveAt(t, i)
<1>1. /\ DOMAIN u = 1 .. Len(t) - 1 /\ DOMAIN t = 1 .. Len(t) /\ Len(t) \in Nat
      /\ \A j \in DOMAIN u : u[j] = IF j < i THEN t[j] ELSE t[j + 1]
  BY RemoveList
<1> HIDE DEF u
<1>2. ASSUME NEW j \in DOMAIN u
      PROVE  \E k \in DOMAIN t \ {i} : u[j] = t[k]
  BY <1>1
<1>3. ASSUME NEW k \in DOMAIN t, k # i PROVE \E j \in DOMAIN u : u[j] = t[k]
  <2>1. CASE k < i
    BY <1>1, <1>3, <2>1
  <2>2. CASE k > i
    <3>1. k - 1 \in DOMAIN u /\ ~(k - 1 < i) /\ (k - 1) + 1 = k
      BY <1>1, <1>3, <2>2
    <3> QED
      BY <1>1, <3>1
  <2> QED
    BY <1>1, <1>3, <2>1, <2>2
<1>4. ASSUME NEW k \in DOMAIN t, k # i PROVE t[k] # t[i]
  BY <1>4 DEF NoTwins, Equals
<1>5. ASSUME NEW j \in DOMAIN u PROVE Listener(s, u[j]) \in ls \/ u[j] \in st \ {t[i]}
  <2>1. PICK k \in DOMAIN t \ {i} : u[j] = t[k]
    BY <1>2
  <2>2. t[k] # t[i] /\ (Listener(s, t[k]) \in ls \/ t[k] \in st)
    BY <1>4 DEF Fits
  <2> QED
    BY <2>1, <2>2
<1>6. ASSUME NEW l \in ls, l.sess = s
      PROVE  \E j \in DOMAIN u : l = Listener(s, u[j])
  <2>1. PICK k \in DOMAIN t : l = Listener(s, t[k])
    BY <1>6 DEF Fits
  <2>2. k # i
    BY <2>1
  <2> QED
    BY <1>3, <2>1, <2>2
<1>7. ASSUME NEW x \in st \ {t[i]} PROVE \E j \in DOMAIN u : x = u[j]
  <2>1. PICK k \in DOMAIN t : x = t[k]
    BY DEF Fits
  <2> QED
    BY <1>3, <2>1
<1> QED
  BY <1>5, <1>6, <1>7 DEF Fits, u

USE ClientTunnelsAssumption DEF Objects, Sessions, Phases, PutSteps
-----------------------------------------------------------------------------
(* Locks.                                                                  *)

LEMMA LockInit == Init => LockInv
<1> SUFFICES ASSUME Init PROVE LockInv
  OBVIOUS
<1>1. Types
  BY DEF Init, Types, Only, NoJob
<1>2. JobInv
  BY DEF Init, JobInv, Only, NoJob, Free
<1>3. LocksInOrder
  BY DEF Init, LocksInOrder, Only, NoJob
<1> QED
  BY <1>1, <1>2, <1>3 DEF LockInv

\* The caller of startClientTunnels comes back: it held its locks, and holds none now.
LEMMA AnswerStep ==
  ASSUME LockInv, ~Free, mu' = NoJob,
         NEW p \in {"live", "refused"}, current' = current \/ (current' = mu.sess /\ p = "live"),
         NEW a \in [pc : {"answered", "unsaved"}, sess : Objects, remote : {mu.got, None}],
         \/ mu.put = None /\ phase' = [phase EXCEPT ![mu.sess] = p] /\ UNCHANGED <<lock, put>>
         \/ /\ mu.put # None
            /\ put' = [put EXCEPT ![mu.put] = a] /\ lock' = [lock EXCEPT ![mu.sess] = None]
            /\ UNCHANGED phase
  PROVE  LockInv'
<1> USE DEF LockInv
<1>1. CASE mu.put = None
  <2>1. phase' = [phase EXCEPT ![mu.sess] = p] /\ mu.sess \in Objects /\ phase[mu.sess] = "starting" /\ UNCHANGED <<lock, put>>
    BY <1>1 DEF Types, JobInv, Free
  <2>2. Types'
    BY <2>1 DEF Types, NoJob
  <2>3. JobInv'
    BY <1>1, <2>1 DEF Types, JobInv, NoJob, Free, Lived
  <2>4. LocksInOrder'
    BY <1>1, <2>1 DEF Types, LocksInOrder, NoJob
  <2> QED
    BY <2>2, <2>3, <2>4
<1>2. CASE mu.put # None
  <2>1. /\ put' = [put EXCEPT ![mu.put] = a] /\ lock' = [lock EXCEPT ![mu.sess] = None] /\ phase' = phase
        /\ mu.put \in Requests /\ mu.sess \in Objects
        /\ put[mu.put].pc = "starting" /\ put[mu.put].sess = mu.sess /\ lock[mu.sess] = mu.put
    BY <1>2 DEF Types, LocksInOrder, Free
  <2>0. a.pc \in {"answered", "unsaved"} /\ a \in [pc : PutSteps, sess : Objects, remote : {a.remote}]
    OBVIOUS
  <2>2. Types'
    BY <2>0, <2>1 DEF Types, NoJob
  <2>3. JobInv'
    BY <1>2, <2>0, <2>1 DEF Types, JobInv, NoJob, Free, Lived
  <2>4. LocksInOrder'
    BY <1>2, <2>0, <2>1 DEF Types, LocksInOrder, NoJob
  <2> QED
    BY <2>2, <2>3, <2>4
<1> QED
  BY <1>1, <1>2

LEMMA StartFailsStep == ASSUME LockInv, ~Free, current' = current,
                               StartFails(Only("answered")) \/ StartFails([pc |-> "unsaved", sess |-> mu.sess, remote |-> mu.got])
                        PROVE  LockInv'
<1> DEFINE Answers == [pc : {"answered", "unsaved"}, sess : Objects, remote : {mu.got, None}]
<1>1. Only("answered") \in Answers /\ [pc |-> "unsaved", sess |-> mu.sess, remote |-> mu.got] \in Answers
  BY DEF Only, LockInv, Types, Free
<1>2. ASSUME NEW a \in Answers, StartFails(a) PROVE LockInv'
  BY <1>2, AnswerStep DEF StartFails
<1> QED
  BY <1>1, <1>2

LEMMA AdvanceStep == ASSUME LockInv, ~Free, mu.todo # <<>>, NEW r, Advances(r), UNCHANGED <<phase, lock, put, current>>
                     PROVE  LockInv'
<1> USE DEF LockInv
<1>1. /\ mu'.put = mu.put /\ mu'.sess = mu.sess /\ mu'.todo = Tail(mu.todo)
      /\ mu' \in [put : Requests \cup {None}, sess : Objects \cup {None}, todo : {mu'.todo},
               got : {mu'.got}, portsPool : {mu'.portsPool}]
  BY DEF Advances, Types
<1>2. Types'
  BY <1>1 DEF Types
<1>3. JobInv'
  BY <1>1 DEF Types, JobInv, Free, Lived
<1>4. LocksInOrder'
  BY <1>1 DEF LocksInOrder
<1> QED
  BY <1>2, <1>3, <1>4

\* The sessions and their objects move on; requests keep their places.
LEMMA SessionStep ==
  ASSUME LockInv, phase' \in [Objects -> Phases], phase'[0] = "over", UNCHANGED <<mu, lock, put>>,
         current' \in Objects \cup {None}, current' # None => Lived(current)',
         \A s \in Objects : Lived(s) => Lived(s)',
         ~Free /\ mu.put = None => phase'[mu.sess] = "starting"
  PROVE  LockInv'
<1> USE DEF LockInv
<1>1. Types'
  BY DEF Types
<1>2. JobInv'
  BY DEF Types, JobInv, Free, Lived
<1>3. LocksInOrder'
  BY DEF LocksInOrder
<1> QED
  BY <1>1, <1>2, <1>3

\* startClientTunnels begins.
LEMMA BeginStep ==
  ASSUME LockInv, Free, NEW q \in Requests \cup {None}, NEW s \in Objects, NEW todo,
         StartClientTunnels(q, s, todo), UNCHANGED <<phase, current, lock>>,
         \/ q = None /\ phase[s] = "starting" /\ put' = put
         \/ /\ q # None /\ put[q].pc = "locked" /\ put[q].sess = s /\ Tail(todo) = <<>>
            /\ put' = [put EXCEPT ![q].pc = "starting"]
  PROVE  LockInv'
<1> USE DEF LockInv
<1>1. /\ mu'.put = q /\ mu'.sess = s /\ mu'.todo = todo
      /\ mu' \in [put : Requests \cup {None}, sess : Objects \cup {None}, todo : {mu'.todo},
               got : {mu'.got}, portsPool : {mu'.portsPool}]
  BY DEF StartClientTunnels
<1>2. CASE q = None
  <2>1. Types'
    BY <1>1, <1>2 DEF Types
  <2>2. JobInv'
    BY <1>1, <1>2 DEF Types, JobInv, Free, Lived
  <2>3. mu.put = None
    BY DEF Types, JobInv
  <2>4. LocksInOrder'
    BY <1>1, <1>2, <2>3 DEF LocksInOrder
  <2> QED
    BY <2>1, <2>2, <2>4
<1>3. CASE q # None
  <2> DEFINE n == [put[q] EXCEPT !.pc = "starting"]
  <2>1. put' = [put EXCEPT ![q] = n] /\ q \in Requests /\ put[q].pc = "locked" /\ put[q].sess = s /\ Tail(todo) = <<>>
    BY <1>3
  <2>2. /\ n.pc = "starting" /\ n.sess = s /\ n.remote = put[q].remote
        /\ n \in [pc : PutSteps, sess : Objects, remote : {n.remote}]
    BY <2>1 DEF Types
  <2> HIDE DEF n
  <2>3. mu.put = None
    BY DEF Types, JobInv
  <2>4. Types'
    BY <1>1, <2>1, <2>2 DEF Types
  <2>5. JobInv'
    BY <1>1, <1>3, <2>1, <2>2 DEF Types, JobInv, Free, Lived
  <2>6. LocksInOrder'
    BY <1>1, <1>3, <2>1, <2>2, <2>3 DEF Types, LocksInOrder
  <2> QED
    BY <2>4, <2>5, <2>6
<1> QED
  BY <1>2, <1>3

\* The steps of a PUT request before it takes ClientService.mu.
LEMMA PutStep == ASSUME LockInv, NEW q \in Requests, PutCheck(q) \/ PutLock(q) PROVE LockInv'
<1> USE DEF LockInv
<1>1. ASSUME NEW n, n \in [pc : {"checked", "answered"}, sess : Objects, remote : {n.remote}], put' = [put EXCEPT ![q] = n],
             n.pc = "checked" => Lived(n.sess), put[q].pc \in {"idle", "checked"},
             UNCHANGED <<phase, lock, current, mu>>
      PROVE  LockInv'
  <2>1. n.pc \in {"checked", "answered"} /\ n.sess \in Objects /\ n \in [pc : PutSteps, sess : Objects, remote : {n.remote}]
    BY <1>1
  <2>2. Types'
    BY <1>1, <2>1 DEF Types
  <2>3. JobInv'
    BY <1>1, <2>1 DEF Types, JobInv, Free, Lived
  <2>4. LocksInOrder'
    BY <1>1, <2>1 DEF Types, LocksInOrder
  <2> QED
    BY <2>2, <2>3, <2>4
<1>2. /\ Only("answered") \in [pc : {"checked", "answered"}, sess : Objects, remote : {Only("answered").remote}]
      /\ Only("answered").pc = "answered"
  BY DEF Only
<1>3. CASE PutCheck(q)
  <2>1. CASE put' = [put EXCEPT ![q] = Only("answered")]
    BY <1>1, <1>2, <1>3, <2>1 DEF PutCheck, repo
  <2>2. CASE put' # [put EXCEPT ![q] = Only("answered")]
    <3>1. PICK r \in PutRemotes : put' = [put EXCEPT ![q] = [pc |-> "checked", sess |-> current, remote |-> r]]
      BY <1>3, <2>2 DEF PutCheck
    <3> DEFINE n == [pc |-> "checked", sess |-> current, remote |-> r]
    <3>2. n \in [pc : {"checked", "answered"}, sess : Objects, remote : {n.remote}] /\ n.sess = current /\ Lived(current)
      BY <1>3 DEF PutCheck, Types, JobInv
    <3>3. put[q].pc = "idle" /\ UNCHANGED <<phase, lock, current, mu>>
      BY <1>3 DEF PutCheck, repo
    <3> HIDE DEF n
    <3> QED
      BY <1>1, <3>1, <3>2, <3>3 DEF n
  <2> QED
    BY <2>1, <2>2
<1>4. CASE PutLock(q)
  <2>0. put[q].pc = "checked" /\ UNCHANGED <<phase, current, mu>> /\ lock[put[q].sess] = None
    BY <1>4 DEF PutLock, repo
  <2>1. CASE put' = [put EXCEPT ![q] = Only("answered")] /\ lock' = lock
    BY <1>1, <1>2, <2>0, <2>1
  <2>2. CASE put' = [put EXCEPT ![q].pc = "locked"] /\ lock' = [lock EXCEPT ![put[q].sess] = q]
    <3> DEFINE n == [put[q] EXCEPT !.pc = "locked"]
    <3>1. put' = [put EXCEPT ![q] = n] /\ lock' = [lock EXCEPT ![put[q].sess] = q] /\ put[q].sess \in Objects
      BY <2>2 DEF Types
    <3>2. /\ n.pc = "locked" /\ n.sess = put[q].sess
          /\ n \in [pc : PutSteps, sess : Objects, remote : {n.remote}]
      BY DEF Types
    <3> HIDE DEF n
    <3>3. Types'
      BY <2>0, <3>1, <3>2 DEF Types
    <3>4. JobInv'
      BY <2>0, <3>1, <3>2 DEF Types, JobInv, Free, Lived
    <3>5. LocksInOrder'
      BY <2>0, <3>1, <3>2 DEF Types, LocksInOrder
    <3> QED
      BY <3>3, <3>4, <3>5
  <2> QED
    BY <1>4, <2>1, <2>2 DEF PutLock
<1> QED
  BY <1>3, <1>4

LEMMA RestartStep == ASSUME LockInv, Restart PROVE LockInv'
<1> USE DEF LockInv
<1>1. ASSUME NEW q \in Requests
      PROVE  /\ put'[q] \in [pc : PutSteps, sess : Objects, remote : {put'[q].remote}]
             /\ put'[q].pc \in {"idle", "answered", "unsaved"}
  BY DEF Restart, Types, Only
<1>2. phase' = [s \in Objects |-> IF phase[s] = "none" THEN "none" ELSE "over"] /\ phase'[0] = "over"
  BY DEF Restart, Types
<1>3. /\ DOMAIN put' = Requests /\ mu' = NoJob /\ lock' = [s \in Objects |-> None] /\ current' \in {None, 0}
  BY DEF Restart
<1>4. Types'
  BY <1>1, <1>2, <1>3 DEF Types, NoJob
<1>5. JobInv'
  BY <1>1, <1>2, <1>3 DEF JobInv, NoJob, Free, Lived
<1>6. LocksInOrder'
  BY <1>1, <1>3 DEF LocksInOrder, NoJob
<1> QED
  BY <1>4, <1>5, <1>6

\* A DELETE takes the lock of a client that no request holds, or gives it back.
LEMMA TakenByDelete ==
  ASSUME LockInv, NEW s \in Objects, lock[s] \notin Requests, UNCHANGED <<phase, current, mu, put>>,
         NEW h, h \notin Requests, lock' = [lock EXCEPT ![s] = h]
  PROVE  LockInv'
<1>1. Types'
  BY DEF LockInv, Types
<1>2. JobInv'
  BY DEF LockInv, JobInv, Free, Lived
<1>3. LocksInOrder'
  BY DEF LockInv, Types, LocksInOrder
<1> QED
  BY <1>1, <1>2, <1>3 DEF LockInv

\* Every step keeps the locks in order.
LEMMA LockStep == LockInv /\ Tidy /\ [Next]_vars => LockInv'
<1> SUFFICES ASSUME LockInv, Tidy, [Next]_vars PROVE LockInv'
  OBVIOUS
<1>0. phase \in [Objects -> Phases] /\ phase[0] = "over" /\ current \in Objects \cup {None} /\ JobInv
  BY DEF LockInv, Types
<1>1. CASE OpenNext
  <2>1. ~Free /\ mu.todo # <<>> /\ current' = current
    BY <1>1, OpenCases DEF repo
  <2>2. CASE StartFails(Only("answered"))
    BY <2>1, <2>2, StartFailsStep
  <2>3. CASE \E r : Skips(r) \/ Opens(r)
    BY <2>1, <2>3, AdvanceStep DEF Skips, Opens
  <2> QED
    BY <1>1, <2>2, <2>3, OpenCases
<1>2. CASE OpenedAll
  <2>1. Only("answered") \in [pc : {"answered", "unsaved"}, sess : Objects, remote : {mu.got, None}]
    BY DEF Only
  <2> QED
    BY <1>2, <2>1, AnswerStep DEF OpenedAll, Save
<1>3. CASE SaveFails
  BY <1>3, StartFailsStep DEF SaveFails, repo
<1>4. CASE Restart
  BY <1>4, RestartStep
<1>5. ASSUME NEW s \in Sessions, Connect(s) PROVE LockInv'
  BY <1>0, <1>5, SessionStep DEF Connect, repo, Lived, JobInv
<1>6. ASSUME NEW s \in Sessions, StartClient(s) PROVE LockInv'
  <2>1. phase[s] = "starting" /\ Free /\ UNCHANGED <<current, lock, put>>
    BY <1>6 DEF StartClient, repo
  <2>2. CASE phase' = [phase EXCEPT ![s] = "refused"] /\ UNCHANGED mu
    BY <1>0, <2>1, <2>2, SessionStep DEF Lived, JobInv
  <2>3. CASE (\E todo : StartClientTunnels(None, s, todo)) /\ UNCHANGED phase
    BY <2>1, <2>3, BeginStep
  <2> QED
    BY <1>6, <2>2, <2>3 DEF StartClient
<1>7. ASSUME NEW s \in Sessions, ConnectionLost(s) PROVE LockInv'
  BY <1>0, <1>7, SessionStep DEF ConnectionLost, repo, Lived, JobInv
<1>8. ASSUME NEW s \in Sessions, Terminate(s) PROVE LockInv'
  <2>1. /\ phase[s] = "lost" /\ Free /\ phase' = [phase EXCEPT ![s] = "over"]
        /\ UNCHANGED <<mu, lock, put>> /\ current' \in {current, s, None}
    BY <1>8 DEF Terminate, Save, repo
  <2> QED
    BY <1>0, <2>1, SessionStep DEF Lived, JobInv
<1>9. ASSUME NEW q \in Requests, PutStart(q) PROVE LockInv'
  <2>1. Tail(<<put[q].remote>>) = <<>>
    OBVIOUS
  <2>2. put[q].sess \in Objects
    BY DEF LockInv, Types
  <2> QED
    BY <1>9, <2>1, <2>2, BeginStep DEF PutStart, repo
<1>10. ASSUME NEW q \in Requests, PutCheck(q) \/ PutLock(q) PROVE LockInv'
  BY <1>10, PutStep
<1>11. CASE UNCHANGED <<phase, current, mu, lock, put>>
  BY <1>0, <1>11, SessionStep DEF Lived, JobInv
<1>12. ASSUME NEW s \in Sessions, NEW i \in DOMAIN tunnels[s], DeleteTunnel(s, i) \/ DeleteDone(s, i) PROVE LockInv'
  <2>1. tunnels[s][i] \notin Requests \cup {None} /\ s \in Objects
    BY DEF Tidy
  <2>2. /\ lock[s] \notin Requests /\ UNCHANGED <<phase, current, mu, put>>
        /\ lock' = [lock EXCEPT ![s] = tunnels[s][i]] \/ lock' = [lock EXCEPT ![s] = None]
    BY <1>12, <2>1 DEF DeleteTunnel, DeleteDone, repo
  <2> QED
    BY <2>1, <2>2, TakenByDelete
<1>16. ASSUME NEW s \in Sessions, NEW i \in DOMAIN tunnels[s], TunnelIdles(s, i) \/ RemoveAutoClosed(s, i) PROVE LockInv'
  BY <1>11, <1>16 DEF TunnelIdles, RemoveAutoClosed, repo
<1>13. ASSUME NEW l, CloseListener(l) PROVE LockInv'
  BY <1>11, <1>13 DEF CloseListener, repo
<1>14. ASSUME NEW p, OtherProgram(p) PROVE LockInv'
  BY <1>11, <1>14 DEF OtherProgram, repo
<1>15. CASE UNCHANGED vars
  BY <1>11, <1>15 DEF vars
<1> QED
  BY <1>1, <1>2, <1>3, <1>4, <1>5, <1>6, <1>7, <1>8, <1>9, <1>10, <1>12, <1>13, <1>14, <1>15, <1>16 DEF Next

-----------------------------------------------------------------------------
(* Listeners.                                                              *)


LEMMA ListenInit == Init => ListenInv
<1> SUFFICES ASSUME Init PROVE ListenInv
  OBVIOUS
<1>1. Lists
  BY EmptyList DEF Init, Lists
<1> QED
  BY <1>1 DEF Init, ListenInv, Unused

\* Who holds ClientService.mu works on a session that has begun.
LEMMA HolderHasBegun == ASSUME LockInv, ~Free PROVE mu.sess \in Objects /\ phase[mu.sess] # "none"
<1>1. mu.sess \in Objects /\ mu.put \in Requests \cup {None}
  BY DEF LockInv, Types, Free
<1>2. CASE mu.put = None
  BY <1>1, <1>2 DEF LockInv, JobInv
<1>3. CASE mu.put # None
  <2>1. put[mu.put].pc = "starting" /\ mu.sess = put[mu.put].sess
    BY <1>1, <1>3 DEF LockInv, LocksInOrder
  <2> QED
    BY <1>1, <1>3, <2>1 DEF LockInv, JobInv, Lived
<1> QED
  BY <1>2, <1>3

\* Lists and listeners stay and sessions move on, of which none comes back.
LEMMA ListenFrame ==
  ASSUME LockInv, ListenInv, UNCHANGED <<tunnels, listeners, foreign, stopped>>,
         row' \in {row, None} \/ \E s \in Objects : row' = tunnels[s],
         \A s \in Sessions :
            /\ phase'[s] \in {"starting", "live", "lost"} => phase[s] \in {"none", "starting", "live", "lost"}
            /\ phase'[s] = "none" => phase[s] = "none"
  PROVE  ListenInv'
<1>1. Lists'
  BY DEF ListenInv, Lists
<1>2. Unused'
  BY DEF ListenInv, Unused
<1>3. ASSUME NEW s \in Sessions, phase'[s] \in {"starting", "live", "lost"} PROVE Fits(listeners, tunnels[s], stopped[s], s)
  <2>1. CASE phase[s] = "none"
    BY <2>1 DEF ListenInv, Unused, Fits
  <2>2. CASE phase[s] # "none"
    <3>1. phase[s] \in {"starting", "live", "lost"}
      BY <1>3, <2>2
    <3> QED
      BY <3>1 DEF ListenInv
  <2> QED
    BY <2>1, <2>2
<1> QED
  BY <1>1, <1>2, <1>3 DEF ListenInv

\* A tunnel is opened.
LEMMA ListenOpens ==
  ASSUME LockInv, ListenInv, ~Free, NEW r, Opens(r), UNCHANGED <<row, foreign, stopped>>
  PROVE  ListenInv'
<1> DEFINE m == mu.sess
           new == Listener(m, r)
<1>1. /\ m \in Objects /\ phase[m] # "none" /\ phase' = phase /\ foreign' = foreign /\ row' = row /\ stopped' = stopped
      /\ listeners' = listeners \cup {new} /\ tunnels' = [tunnels EXCEPT ![m] = Append(tunnels[m], r)]
  BY HolderHasBegun DEF Opens
<1>2. new.port = r.lport /\ new.sess = m /\ r.lport \notin foreign /\ \A l \in listeners : l.port # r.lport
  BY DEF Opens, Busy, Listener
<1>3. Lists'
  BY <1>1, AppendList DEF ListenInv, Lists
<1>4. Unused'
  BY <1>1, <1>2 DEF ListenInv, Unused, Lists
<1>5. ASSUME NEW s \in Sessions, phase[s] \in {"starting", "live", "lost"} PROVE Fits(listeners', tunnels'[s], stopped'[s], s)
  <2>1. Fits(listeners, tunnels[s], stopped[s], s) /\ DOMAIN tunnels = Objects /\ IsList(tunnels[s])
    BY <1>5 DEF ListenInv, Lists
  <2>2. CASE s = m
    <3>1. tunnels'[s] = Append(tunnels[s], r)
      BY <1>1, <2>1, <2>2
    <3>2. Fits(listeners \cup {Listener(s, r)}, Append(tunnels[s], r), stopped[s], s)
      BY <2>1, FitsAppend
    <3> QED
      BY <1>1, <2>2, <3>1, <3>2
  <2>3. CASE s # m
    <3>1. tunnels'[s] = tunnels[s]
      BY <1>1, <2>1, <2>3
    <3>2. \A l \in listeners' : l.sess = s => l \in listeners
      BY <1>1, <1>2, <2>3
    <3> QED
      BY <1>1, <2>1, <3>1, <3>2, FitsOthers
  <2> QED
    BY <2>2, <2>3
<1> HIDE DEF new
<1>6. /\ \A k, l \in listeners' : k.port = l.port => k = l
      /\ \A l \in listeners' : l.port \notin foreign'
  BY <1>1, <1>2 DEF ListenInv
<1> QED
  BY <1>1, <1>3, <1>4, <1>5, <1>6 DEF ListenInv

\* A connection is refused while its tunnels are opened, or a request fails.
LEMMA ListenFails ==
  ASSUME LockInv, ListenInv, ~Free, NEW a, StartFails(a), UNCHANGED <<row, foreign, stopped>>
  PROVE  ListenInv'
<1>1. CASE mu.put # None
  BY <1>1, ListenFrame DEF StartFails
<1>2. CASE mu.put = None
  <2>1. /\ mu.sess \in Objects /\ phase' = [phase EXCEPT ![mu.sess] = "refused"]
        /\ tunnels' = [tunnels EXCEPT ![mu.sess] = <<>>] /\ UNCHANGED <<listeners, foreign, row, stopped>>
        /\ phase \in [Objects -> Phases]
    BY <1>2, HolderHasBegun DEF StartFails, LockInv, Types
  <2>2. Lists'
    BY <2>1, EmptyList DEF ListenInv, Lists
  <2>3. Unused'
    BY <2>1 DEF ListenInv, Unused, Lists
  <2>4. ASSUME NEW s \in Sessions, phase'[s] \in {"starting", "live", "lost"} PROVE Fits(listeners, tunnels'[s], stopped[s], s)
    BY <2>1, <2>4 DEF ListenInv, Lists
  <2> QED
    BY <2>1, <2>2, <2>3, <2>4 DEF ListenInv
<1> QED
  BY <1>1, <1>2

\* The context of a tunnel ends.
LEMMA ListenStop ==
  ASSUME LockInv, ListenInv, NEW s \in Sessions, NEW i \in DOMAIN tunnels[s],
         DeleteTunnel(s, i) \/ TunnelIdles(s, i)
  PROVE  ListenInv'
<1>1. /\ UNCHANGED <<phase, tunnels, row, listeners, foreign>>
      /\ stopped' = [stopped EXCEPT ![s] = stopped[s] \cup {tunnels[s][i]}]
      /\ s \in Objects /\ DOMAIN stopped = Objects /\ phase[s] # "none"
  BY DEF DeleteTunnel, TunnelIdles, repo, ports, ListenInv, Lists
<1>2. Lists' /\ Unused'
  BY <1>1 DEF ListenInv, Lists, Unused
<1>3. ASSUME NEW x \in Sessions, phase[x] \in {"starting", "live", "lost"} PROVE Fits(listeners, tunnels[x], stopped'[x], x)
  <2>1. Fits(listeners, tunnels[x], stopped[x], x) /\ stopped'[x] = IF x = s THEN stopped[s] \cup {tunnels[s][i]} ELSE stopped[x]
    BY <1>1, <1>3 DEF ListenInv
  <2> QED
    BY <2>1, FitsStop
<1> QED
  BY <1>1, <1>2, <1>3 DEF ListenInv

\* A tunnel whose listener has closed leaves the list.
LEMMA ListenRemove ==
  ASSUME LockInv, Tidy, ListenInv, NEW s \in Sessions, NEW i \in DOMAIN tunnels[s],
         DeleteDone(s, i) \/ RemoveAutoClosed(s, i)
  PROVE  ListenInv'
<1>1. /\ UNCHANGED <<phase, row, listeners, foreign>> /\ Listener(s, tunnels[s][i]) \notin listeners
      /\ tunnels' = [tunnels EXCEPT ![s] = RemoveAt(tunnels[s], i)]
      /\ stopped' = [stopped EXCEPT ![s] = stopped[s] \ {tunnels[s][i]}]
  BY DEF DeleteDone, RemoveAutoClosed, RemoveTunnel, repo, ports
<1>2. /\ DOMAIN tunnels = Objects /\ DOMAIN stopped = Objects /\ s \in Objects
      /\ \A x \in Objects : IsList(tunnels[x]) /\ NoTwins(tunnels[x])
  BY DEF ListenInv, Lists, Tidy
<1>3. Lists'
  BY <1>1, <1>2, RemoveList DEF ListenInv, Lists
<1>4. Unused'
  <2>1. phase[s] # "none"
    BY DEF ListenInv, Unused
  <2> QED
    BY <1>1, <1>2, <2>1 DEF ListenInv, Unused
<1>5. ASSUME NEW x \in Sessions, phase[x] \in {"starting", "live", "lost"} PROVE Fits(listeners, tunnels'[x], stopped'[x], x)
  <2>1. Fits(listeners, tunnels[x], stopped[x], x)
    BY <1>5 DEF ListenInv
  <2>2. CASE x = s
    BY <1>1, <1>2, <2>1, <2>2, FitsRemove
  <2>3. CASE x # s
    BY <1>1, <1>2, <2>1, <2>3
  <2> QED
    BY <2>2, <2>3
<1> QED
  BY <1>1, <1>3, <1>4, <1>5 DEF ListenInv

LEMMA ListenClose == ASSUME LockInv, Tidy, ListenInv, NEW l \in listeners, CloseListener(l) PROVE ListenInv'
<1>1. /\ listeners' = listeners \ {l} /\ UNCHANGED <<phase, tunnels, row, foreign, stopped>>
      /\ phase[l.sess] \in {"refused", "over"} \/ \E t \in stopped[l.sess] : l = Listener(l.sess, t)
  BY DEF CloseListener, Cancelled, repo
<1>2. Lists' /\ Unused'
  BY <1>1 DEF ListenInv, Lists, Unused
<1>3. ASSUME NEW x \in Sessions, phase[x] \in {"starting", "live", "lost"} PROVE Fits(listeners', tunnels[x], stopped[x], x)
  <2>1. Fits(listeners, tunnels[x], stopped[x], x) /\ NoTwins(tunnels[x])
    BY <1>3 DEF ListenInv, Tidy
  <2>2. CASE l.sess # x
    BY <1>1, <2>1, <2>2, FitsOthers
  <2>3. CASE l.sess = x
    <3>1. PICK t \in stopped[x] : l = Listener(x, t)
      BY <1>1, <1>3, <2>3
    <3> QED
      BY <1>1, <2>1, <3>1, FitsClose
  <2> QED
    BY <2>2, <2>3
<1> QED
  BY <1>1, <1>2, <1>3 DEF ListenInv

LEMMA ListenRestart == ASSUME LockInv, ListenInv, Restart PROVE ListenInv'
<1>1. /\ phase' = [s \in Objects |-> IF phase[s] = "none" THEN "none" ELSE "over"]
      /\ tunnels' = [s \in Objects |-> IF s = 0 /\ row # None THEN row ELSE <<>>]
      /\ listeners' = {} /\ row' = row /\ stopped' = [s \in Objects |-> {}]
  BY DEF Restart
<1>2. Lists'
  BY <1>1, EmptyList DEF ListenInv, Lists
<1>3. Unused'
  BY <1>1 DEF Unused
<1>4. \A s \in Sessions : phase'[s] \notin {"starting", "live", "lost"}
  BY <1>1
<1> QED
  BY <1>1, <1>2, <1>3, <1>4 DEF ListenInv

\* Every step keeps lists and listeners together.
LEMMA ListenStep == LockInv /\ Tidy /\ ListenInv /\ [Next]_vars => ListenInv'
<1> SUFFICES ASSUME LockInv, Tidy, ListenInv, [Next]_vars PROVE ListenInv'
  OBVIOUS
<1>0. phase \in [Objects -> Phases]
  BY DEF LockInv, Types
<1>1. CASE OpenNext
  <2>1. ~Free /\ UNCHANGED <<row, foreign, stopped>>
    BY <1>1, OpenCases DEF repo
  <2>2. CASE StartFails(Only("answered"))
    BY <2>1, <2>2, ListenFails
  <2>3. ASSUME NEW r, Skips(r) PROVE ListenInv'
    BY <2>1, <2>3, ListenFrame DEF Skips
  <2>4. ASSUME NEW r, Opens(r) PROVE ListenInv'
    BY <2>1, <2>4, ListenOpens
  <2> QED
    BY <1>1, <2>2, <2>3, <2>4, OpenCases
<1>2. CASE OpenedAll
  <2>1. /\ mu.sess \in Objects /\ row' = tunnels[mu.sess] /\ UNCHANGED <<tunnels, listeners, foreign, stopped>>
        /\ \/ mu.put = None /\ phase' = [phase EXCEPT ![mu.sess] = "live"]
           \/ mu.put # None /\ phase' = phase
    BY <1>2, HolderHasBegun DEF OpenedAll, Save, ports
  <2>2. mu.put = None => phase[mu.sess] = "starting"
    BY <1>2 DEF OpenedAll, LockInv, JobInv
  <2> QED
    BY <1>0, <2>1, <2>2, ListenFrame
<1>3. CASE SaveFails
  BY <1>3, ListenFails DEF SaveFails, repo
<1>4. CASE Restart
  BY <1>4, ListenRestart
<1>5. ASSUME NEW s \in Sessions, Connect(s) PROVE ListenInv'
  BY <1>0, <1>5, ListenFrame DEF Connect, repo, ports
<1>6. ASSUME NEW s \in Sessions, StartClient(s) PROVE ListenInv'
  BY <1>0, <1>6, ListenFrame DEF StartClient, repo
<1>7. ASSUME NEW s \in Sessions, ConnectionLost(s) PROVE ListenInv'
  BY <1>0, <1>7, ListenFrame DEF ConnectionLost, repo, ports
<1>8. ASSUME NEW s \in Sessions, Terminate(s) PROVE ListenInv'
  <2>1. /\ phase' = [phase EXCEPT ![s] = "over"] /\ UNCHANGED <<tunnels, listeners, foreign, stopped>>
        /\ row' \in {row, None, tunnels[s]} /\ s \in Objects
    BY <1>8 DEF Terminate, Save, repo, ports
  <2> QED
    BY <1>0, <2>1, ListenFrame
<1>9. ASSUME NEW q \in Requests, PutCheck(q) \/ PutLock(q) \/ PutStart(q) PROVE ListenInv'
  BY <1>9, ListenFrame DEF PutCheck, PutLock, PutStart, repo, ports
<1>10. ASSUME NEW s \in Sessions, NEW i \in DOMAIN tunnels[s],
              DeleteTunnel(s, i) \/ DeleteDone(s, i) \/ TunnelIdles(s, i) \/ RemoveAutoClosed(s, i)
       PROVE  ListenInv'
  BY <1>10, ListenStop, ListenRemove
<1>11. ASSUME NEW l \in listeners, CloseListener(l) PROVE ListenInv'
  BY <1>11, ListenClose
<1>12. ASSUME NEW p, OtherProgram(p) PROVE ListenInv'
  <2>1. /\ UNCHANGED <<phase, tunnels, listeners, row, stopped>>
        /\ foreign' = foreign \ {p} \/ (foreign' = foreign \cup {p} /\ \A l \in listeners : l.port # p)
    BY <1>12 DEF OtherProgram, Busy, repo
  <2> QED
    BY <2>1 DEF ListenInv, Lists, Unused
<1>13. CASE UNCHANGED vars
  BY <1>13, ListenFrame DEF vars
<1> QED
  BY <1>1, <1>2, <1>3, <1>4, <1>5, <1>6, <1>7, <1>8, <1>9, <1>10, <1>11, <1>12, <1>13 DEF Next

-----------------------------------------------------------------------------
(* The table.                                                              *)

\* What of t on the list of the client in the map is in the table, or is known not to be.
Accounted(t) ==
    \/ t \in ToSet(row)
    \/ mu.sess = current /\ mu.todo = <<>> /\ mu.got = t
    \/ \E q \in Requests : put[q].pc = "unsaved" /\ put[q].sess = current /\ put[q].remote = t

\* The client in the map and its row stay, its list does not grow, and requests that were answered
\* stay answered.
LEMMA SavedFrame ==
  ASSUME LockInv, SavedInv, UNCHANGED <<current, row>>,
         current # None => ToSet(tunnels'[current]) \subseteq ToSet(tunnels[current]),
         mu' = mu \/ Free \/ mu.sess # current \/ mu.todo # <<>>,
         \A q \in Requests : put[q].pc = "unsaved" => put'[q] = put[q]
  PROVE  SavedInv'
<1> SUFFICES ASSUME current # None, NEW t \in ToSet(tunnels'[current]) PROVE Accounted(t)'
  BY DEF SavedInv, Accounted
<1>1. Accounted(t)
  BY DEF SavedInv, Accounted
<1>2. mu.sess = current /\ mu.todo = <<>> => mu' = mu
  BY DEF Free
<1> QED
  BY <1>1, <1>2 DEF Accounted

\* The client is saved.
LEMMA SavedSave == ASSUME NEW s, row' = tunnels[s], current' = s, tunnels' = tunnels PROVE SavedInv'
  BY DEF SavedInv

\* A request whose remotes are not all open: the client in the map has no other tunnel than before.
LEMMA SavedOpens ==
  ASSUME LockInv, ListenInv, SavedInv, ~Free, mu.todo # <<>>, NEW r, Skips(r) \/ Opens(r), UNCHANGED <<current, row>>
  PROVE  SavedInv'
<1>1. put' = put /\ mu'.sess = mu.sess /\ mu'.got = r /\ mu'.todo = Tail(mu.todo)
  BY DEF Skips, Opens, Advances, LockInv, Types
<1>2. CASE Skips(r) \/ mu.sess # current
  <2>1. current # None => tunnels'[current] = tunnels[current]
    BY <1>2 DEF Skips, Opens, ListenInv, Lists, LockInv, Types
  <2> QED
    BY <1>1, <2>1, SavedFrame
<1>3. CASE Opens(r) /\ mu.sess = current
  <2>1. mu.sess \in Objects /\ mu.put # None
    BY <1>3, HolderHasBegun DEF LockInv, JobInv, Free, Lived
  <2>2. mu'.todo = <<>>
    BY <1>1, <2>1 DEF LockInv, JobInv
  <2>3. tunnels'[current] = Append(tunnels[current], r) /\ IsList(tunnels[current])
    BY <1>3, <2>1 DEF Opens, ListenInv, Lists
  <2>4. ASSUME NEW t \in ToSet(tunnels'[current]) PROVE t = r \/ t \in ToSet(tunnels[current])
    <3>1. PICK i \in DOMAIN tunnels'[current] : t = tunnels'[current][i]
      BY <2>4 DEF ToSet
    <3>2. i \in 1 .. Len(tunnels[current]) + 1 /\ t = IF i = Len(tunnels[current]) + 1 THEN r ELSE tunnels[current][i]
      BY <2>3, <3>1, AppendList
    <3>3. DOMAIN tunnels[current] = 1 .. Len(tunnels[current]) /\ Len(tunnels[current]) \in Nat
      BY <2>3, AppendList
    <3> QED
      BY <3>2, <3>3 DEF ToSet
  <2> SUFFICES ASSUME current # None, NEW t \in ToSet(tunnels'[current]) PROVE Accounted(t)'
    BY DEF SavedInv, Accounted
  <2>5. CASE t = r
    BY <1>1, <1>3, <2>2, <2>5 DEF Accounted
  <2>6. CASE t \in ToSet(tunnels[current])
    <3>1. t \in ToSet(row) \/ \E q \in Requests : put[q].pc = "unsaved" /\ put[q].sess = current /\ put[q].remote = t
      BY <2>6 DEF SavedInv
    <3> QED
      BY <1>1, <3>1 DEF Accounted
  <2> QED
    BY <2>4, <2>5, <2>6
<1> QED
  BY <1>2, <1>3

\* startClientTunnels fails: the tunnel that was opened goes with the session, or is the one of a
\* request that was answered with an error.
LEMMA SavedFails ==
  ASSUME LockInv, ListenInv, SavedInv, ~Free, UNCHANGED <<current, row>>,
         \/ StartFails(Only("answered")) /\ mu.todo # <<>>
         \/ StartFails([pc |-> "unsaved", sess |-> mu.sess, remote |-> mu.got])
  PROVE  SavedInv'
<1>0. mu.sess \in Objects /\ mu.put \in Requests \cup {None} /\ DOMAIN put = Requests
  BY DEF LockInv, Types, Free
<1>1. CASE mu.put = None
  <2>1. mu.sess # current /\ put' = put /\ tunnels' = [tunnels EXCEPT ![mu.sess] = <<>>]
    BY <1>0, <1>1 DEF StartFails, LockInv, JobInv, Lived
  <2>2. current # None => tunnels'[current] = tunnels[current]
    BY <2>1 DEF ListenInv, Lists, LockInv, Types
  <2> QED
    BY <2>1, <2>2, SavedFrame
<1>2. CASE mu.put # None
  <2>0. tunnels' = tunnels /\ put[mu.put].pc = "starting" /\ mu.put \in Requests
    BY <1>0, <1>2 DEF StartFails, LockInv, LocksInOrder
  <2>1. CASE StartFails(Only("answered")) /\ mu.todo # <<>>
    <3>1. put' = [put EXCEPT ![mu.put] = Only("answered")]
      BY <1>2, <2>1 DEF StartFails
    <3> QED
      BY <1>0, <2>0, <2>1, <3>1, SavedFrame
  <2>2. CASE StartFails([pc |-> "unsaved", sess |-> mu.sess, remote |-> mu.got])
    <3>1. put' = [put EXCEPT ![mu.put] = [pc |-> "unsaved", sess |-> mu.sess, remote |-> mu.got]]
      BY <1>2, <2>2 DEF StartFails
    <3>2. \A q \in Requests : put[q].pc = "unsaved" => put'[q] = put[q]
      BY <1>0, <2>0, <3>1
    <3>3. put'[mu.put].pc = "unsaved" /\ put'[mu.put].sess = mu.sess /\ put'[mu.put].remote = mu.got
      BY <1>0, <2>0, <3>1
    <3> SUFFICES ASSUME current # None, NEW t \in ToSet(tunnels[current]) PROVE Accounted(t)'
      BY <2>0 DEF SavedInv, Accounted
    <3>4. Accounted(t)
      BY DEF SavedInv, Accounted
    <3> QED
      BY <2>0, <3>2, <3>3, <3>4 DEF Accounted
  <2> QED
    BY <2>1, <2>2
<1> QED
  BY <1>1, <1>2

\* Every step keeps what the table is known to hold.
LEMMA SavedStep == LockInv /\ ListenInv /\ SavedInv /\ [Next]_vars => SavedInv'
<1> SUFFICES ASSUME LockInv, ListenInv, SavedInv, [Next]_vars PROVE SavedInv'
  OBVIOUS
<1>0. DOMAIN put = Requests /\ DOMAIN tunnels = Objects /\ current \in Objects \cup {None}
  BY DEF LockInv, Types, ListenInv, Lists
<1>1. CASE OpenNext
  <2>1. ~Free /\ mu.todo # <<>> /\ UNCHANGED <<current, row>>
    BY <1>1, OpenCases DEF repo
  <2>2. CASE StartFails(Only("answered"))
    BY <2>1, <2>2, SavedFails
  <2>3. ASSUME NEW r, Skips(r) \/ Opens(r) PROVE SavedInv'
    BY <2>1, <2>3, SavedOpens
  <2> QED
    BY <1>1, <2>2, <2>3, OpenCases
<1>2. CASE OpenedAll
  BY <1>2, SavedSave DEF OpenedAll, Save
<1>3. CASE SaveFails
  BY <1>3, SavedFails DEF SaveFails, repo
<1>4. CASE Restart
  BY <1>4 DEF Restart, SavedInv
<1>5. ASSUME NEW s \in Sessions, Connect(s) \/ StartClient(s) \/ ConnectionLost(s) PROVE SavedInv'
  <2>1. UNCHANGED <<current, row, tunnels, put>> /\ (mu' = mu \/ Free)
    BY <1>5 DEF Connect, StartClient, ConnectionLost, repo
  <2> QED
    BY <2>1, SavedFrame
<1>6. ASSUME NEW s \in Sessions, Terminate(s) PROVE SavedInv'
  <2>1. CASE current' = None
    BY <2>1 DEF SavedInv
  <2>2. CASE row' = tunnels[s] /\ current' = s
    BY <1>6, <2>2, SavedSave DEF Terminate
  <2> QED
    BY <1>6, <2>1, <2>2 DEF Terminate, Save, repo
<1>7. ASSUME NEW q \in Requests, PutCheck(q) \/ PutLock(q) \/ PutStart(q) PROVE SavedInv'
  <2>1. UNCHANGED <<current, row, tunnels>> /\ (mu' = mu \/ Free) /\ put[q].pc # "unsaved" /\ \E n : put' = [put EXCEPT ![q] = n]
    BY <1>7 DEF PutCheck, PutLock, PutStart, repo
  <2>2. \A x \in Requests : put[x].pc = "unsaved" => put'[x] = put[x]
    BY <1>0, <2>1
  <2> QED
    BY <2>1, <2>2, SavedFrame
<1>8. ASSUME NEW s \in Sessions, NEW i \in DOMAIN tunnels[s], DeleteDone(s, i) \/ RemoveAutoClosed(s, i) PROVE SavedInv'
  <2>1. tunnels' = [tunnels EXCEPT ![s] = RemoveAt(tunnels[s], i)] /\ UNCHANGED <<current, row, mu, put>>
    BY <1>8 DEF DeleteDone, RemoveAutoClosed, RemoveTunnel, repo
  <2>2. ToSet(RemoveAt(tunnels[s], i)) \subseteq ToSet(tunnels[s])
    <3>1. IsList(tunnels[s])
      BY DEF ListenInv, Lists
    <3> QED
      BY <3>1, RemoveSubset
  <2>3. current # None => ToSet(tunnels'[current]) \subseteq ToSet(tunnels[current])
    BY <1>0, <2>1, <2>2
  <2> QED
    BY <2>1, <2>3, SavedFrame
<1>9. CASE UNCHANGED <<current, row, tunnels, mu, put>>
  BY <1>9, SavedFrame
<1>10. ASSUME NEW l, CloseListener(l) PROVE SavedInv'
  BY <1>9, <1>10 DEF CloseListener, repo
<1>11. ASSUME NEW p, OtherProgram(p) PROVE SavedInv'
  BY <1>9, <1>11 DEF OtherProgram, repo
<1>12. CASE UNCHANGED vars
  BY <1>9, <1>12 DEF vars
<1>13. ASSUME NEW s \in Sessions, NEW i \in DOMAIN tunnels[s], DeleteTunnel(s, i) \/ TunnelIdles(s, i) PROVE SavedInv'
  BY <1>9, <1>13 DEF DeleteTunnel, TunnelIdles, repo
<1> QED
  BY <1>1, <1>2, <1>3, <1>4, <1>5, <1>6, <1>7, <1>8, <1>10, <1>11, <1>12, <1>13 DEF Next

-----------------------------------------------------------------------------
(* Induction over natural numbers, for sets, and functions given by steps. *)

\* A set of natural numbers has a least element: the well-foundedness of the library, for sets.
LEMMA LeastNat ==
    ASSUME NEW W, W \subseteq Nat, W # {}
    PROVE  \E n \in W : \A m \in W : n <= m
<1>1. \E x \in W : \A y \in W : ~ (y < x)
  <2>1. IsWellFoundedOn(OpToRel(<,Nat), Nat)
    BY NatLessThanWellFounded
  <2>2. PICK x \in W : \A y \in W : ~ (<<y, x>> \in OpToRel(<,Nat))
    BY <2>1, WFMin
  <2>. QED BY <2>2, Zenon DEF OpToRel
<1>. QED BY <1>1

\* Induction, for a set of natural numbers.
LEMMA NatInd ==
    ASSUME NEW W, 0 \in W, \A n \in Nat : n \in W => n + 1 \in W
    PROVE  Nat \subseteq W
<1>. SUFFICES ASSUME ~ (Nat \subseteq W) PROVE FALSE
  OBVIOUS
<1>. DEFINE U == Nat \ W
<1>1. PICK n \in U : \A m \in U : n <= m
  <2>. U \subseteq Nat /\ U # {} OBVIOUS
  <2>. QED BY LeastNat
<1>2. n # 0 /\ n \in Nat /\ n - 1 \in Nat OBVIOUS
<1>3. n - 1 \in W BY <1>1, <1>2
<1>4. (n - 1) + 1 \in W BY <1>2, <1>3
<1>. QED BY <1>2, <1>4

\* Min of a set of natural numbers is its least element.
LEMMA LeastIsMin ==
    ASSUME NEW W, W \subseteq Nat, W # {}
    PROVE  Min(W) \in W /\ \A m \in W : Min(W) <= m
<1>1. \E x \in W : \A y \in W : x <= y BY LeastNat
<1>2. \E x : x \in W /\ \A y \in W : x <= y BY <1>1
<1>. QED BY <1>2, Zenon DEF Min

\* The function f on 0 .. N begins with b and goes on by the steps.
Follows(f, N, V, b, step) ==
    f \in [0 .. N -> V] /\ f[0] = b /\ \A k \in 1 .. N : f[k] = step[k][f[k - 1]]

\* There is one.
LEMMA Recursion ==
    ASSUME NEW N \in Nat, NEW V, NEW b \in V, NEW step \in [Nat -> [V -> V]]
    PROVE  \E f : Follows(f, N, V, b, step)
<1>. DEFINE W == {n \in Nat : \E f : Follows(f, n, V, b, step)}
<1>1. 0 \in W
  <2>. DEFINE f == [i \in 0 .. 0 |-> b]
  <2>1. Follows(f, 0, V, b, step) BY DEF Follows
  <2>. QED BY <2>1
<1>2. ASSUME NEW n \in Nat, n \in W PROVE n + 1 \in W
  <2>1. PICK f : Follows(f, n, V, b, step) BY <1>2
  <2>. USE DEF Follows
  <2>. DEFINE g == [i \in 0 .. n + 1 |-> IF i = n + 1 THEN step[n + 1][f[n]] ELSE f[i]]
  <2>2. g \in [0 .. n + 1 -> V]
    <3>1. f[n] \in V /\ step[n + 1] \in [V -> V] BY <2>1
    <3>2. step[n + 1][f[n]] \in V BY <3>1
    <3>. QED BY <3>2, <2>1
  <2>3. g[0] = b BY <2>1
  <2>4. ASSUME NEW k \in 1 .. n + 1 PROVE g[k] = step[k][g[k - 1]]
    <3>1. CASE k = n + 1
      <4>1. n \in 0 .. n + 1 /\ n # n + 1 /\ k - 1 = n /\ k \in 0 .. n + 1 BY <3>1
      <4>2. g[n] = f[n] /\ g[k] = step[n + 1][f[n]] BY <4>1, <3>1
      <4>. QED BY <4>1, <4>2, <3>1
    <3>2. CASE k # n + 1
      <4>1. k \in 1 .. n /\ g[k] = f[k] /\ g[k - 1] = f[k - 1] BY <3>2
      <4>. QED BY <4>1, <2>1
    <3>. QED BY <3>1, <3>2
  <2>. HIDE DEF g
  <2>5. Follows(g, n + 1, V, b, step) BY <2>2, <2>3, <2>4
  <2>. QED BY <2>5, SMTT(30)
<1>. HIDE DEF W
<1>3. Nat \subseteq W BY <1>1, <1>2, NatInd
<1>. QED BY <1>3 DEF W

\* The values of a function that is given by steps from V to V are in V.
LEMMA RecursionType ==
    ASSUME NEW N \in Nat, NEW V, NEW g, g[0] \in V,
           \A k \in 1 .. N : g[k - 1] \in V => g[k] \in V
    PROVE  \A k \in 0 .. N : g[k] \in V
<1>. DEFINE W == {k \in Nat : k <= N => g[k] \in V}
<1>1. 0 \in W OBVIOUS
<1>2. ASSUME NEW n \in Nat, n \in W PROVE n + 1 \in W
  <2>. SUFFICES ASSUME n + 1 <= N PROVE g[n + 1] \in V OBVIOUS
  <2>1. n + 1 \in 1 .. N /\ (n + 1) - 1 = n /\ n <= N OBVIOUS
  <2>2. g[n] \in V BY <2>1, <1>2
  <2>. QED BY <2>1, <2>2
<1>. HIDE DEF W
<1>3. Nat \subseteq W BY <1>1, <1>2, NatInd
<1>. QED BY <1>3 DEF W


-----------------------------------------------------------------------------
(* The tunnels to re-establish: an induction over the new remotes, then    *)
(* one over the old tunnels.                                               *)

\* The remotes of D, which are still to be looked at, have an old tunnel of their own each that is
\* not marked.
Can(old, new, marked, D) ==
    \E f \in [D -> DOMAIN old \ marked] :
        /\ \A i, j \in D : f[i] = f[j] => i = j
        /\ \A i \in D : f[i] \in Fitting(new[i], old)

\* The remotes of D, which were looked at, have marked an old tunnel each, and nobody else has.
Did(old, new, marked, D) ==
    \E h \in [D -> marked] :
        /\ \A i, j \in D : h[i] = h[j] => i = j
        /\ \A i \in D : h[i] \in Fitting(new[i], old)
        /\ \A m \in marked : \E i \in D : h[i] = m

\* What marking does.
LEMMA Marks ==
    ASSUME NEW N \in Nat, NEW marked \in SUBSET (0 .. N), NEW fits \in SUBSET (1 .. N)
    PROVE  /\ Mark(marked, fits) \in SUBSET (0 .. N)
           /\ \/ fits \ marked = {} /\ Mark(marked, fits) = marked \cup {0}
              \/ \E m \in fits \ marked : m # 0 /\ Mark(marked, fits) = marked \cup {m}
<1>1. CASE fits \ marked = {}
  BY <1>1 DEF Mark
<1>2. CASE fits \ marked # {}
  <2>1. PICK m : m = Min(fits \ marked) OBVIOUS
  <2>2. m \in fits \ marked
    <3>1. PICK S : S = fits \ marked OBVIOUS
    <3>2. S \subseteq Nat /\ S # {} BY <3>1, <1>2
    <3>3. Min(S) \in S BY <3>2, LeastIsMin
    <3>. QED BY <3>1, <3>3, <2>1
  <2>3. Mark(marked, fits) = marked \cup {m} BY <1>2, <2>1 DEF Mark
  <2>. QED BY <2>2, <2>3
<1>. QED BY <1>1, <1>2

\* Marking for a remote leaves the others their tunnels: one that wanted the marked tunnel takes
\* what this remote would have had.  With a local port only one tunnel fits; without, all that fit
\* have the same target.
LEMMA CanStep ==
    ASSUME NEW N \in Nat, NEW old, DOMAIN old = 1 .. N, NoTwins(old), NEW new,
           NEW marked \in SUBSET (0 .. N), 0 \notin marked, NEW D, NEW j \in D,
           IsLocalSpecified(new[j]) \/ \A i \in D : ~IsLocalSpecified(new[i]),
           Can(old, new, marked, D), NEW next, next = Mark(marked, Fitting(new[j], old))
    PROVE  0 \notin next /\ Can(old, new, next, D \ {j})
<1>1. PICK f \in [D -> DOMAIN old \ marked] :
        /\ \A i, k \in D : f[i] = f[k] => i = k
        /\ \A i \in D : f[i] \in Fitting(new[i], old)
  BY DEF Can
<1>2. f[j] \in Fitting(new[j], old) \ marked /\ Fitting(new[j], old) \in SUBSET (1 .. N)
  BY <1>1 DEF Fitting
<1>3. PICK m \in Fitting(new[j], old) \ marked : m # 0 /\ next = marked \cup {m}
  <2>1. PICK F : F = Fitting(new[j], old) OBVIOUS
  <2>. QED BY <1>2, <2>1, Marks, SMTT(30)
<1>4. 0 \notin next BY <1>3
<1>5. CASE \A i \in D \ {j} : f[i] # m
  <2>. DEFINE g == [i \in D \ {j} |-> f[i]]
  <2>1. g \in [D \ {j} -> DOMAIN old \ next] BY <1>1, <1>3, <1>5
  <2>2. \A i, k \in D \ {j} : g[i] = g[k] => i = k BY <1>1
  <2>3. \A i \in D \ {j} : g[i] \in Fitting(new[i], old) BY <1>1
  <2>. HIDE DEF g
  <2>. QED BY <2>1, <2>2, <2>3, <1>4 DEF Can
<1>6. CASE \E i \in D \ {j} : f[i] = m
  <2>1. PICK i \in D \ {j} : f[i] = m BY <1>6
  <2>2. m # f[j] BY <1>1, <2>1
  <2>3. ~IsLocalSpecified(new[j])
    <3>. SUFFICES ASSUME IsLocalSpecified(new[j]) PROVE FALSE OBVIOUS
    <3>1. m \in DOMAIN old /\ f[j] \in DOMAIN old /\ Equals(new[j], old[m]) /\ Equals(new[j], old[f[j]])
      BY <1>2, <1>3 DEF Fitting
    <3>2. Equals(old[m], old[f[j]]) BY <3>1 DEF Equals
    <3>. QED BY <3>1, <3>2, <2>2 DEF NoTwins
  <2>4. \A k \in D : ~IsLocalSpecified(new[k]) BY <2>3
  <2>5. f[j] \in Fitting(new[i], old)
    <3>1. f[i] \in Fitting(new[i], old) BY <1>1
    <3>2. RandomMatch(new[i], old[m]) BY <3>1, <2>1, <2>4 DEF Fitting
    <3>3. RandomMatch(new[j], old[m]) /\ RandomMatch(new[j], old[f[j]]) BY <1>2, <1>3, <2>3 DEF Fitting
    <3>4. RandomMatch(new[i], old[f[j]]) BY <3>2, <3>3 DEF RandomMatch
    <3>. QED BY <3>4, <2>4, <1>1 DEF Fitting
  <2>. DEFINE g == [k \in D \ {j} |-> IF k = i THEN f[j] ELSE f[k]]
  <2>6. g \in [D \ {j} -> DOMAIN old \ next] BY <1>1, <1>3, <2>1, <2>2
  <2>7. \A a, b \in D \ {j} : g[a] = g[b] => a = b BY <1>1
  <2>8. \A k \in D \ {j} : g[k] \in Fitting(new[k], old) BY <1>1, <2>5
  <2>. HIDE DEF g
  <2>. QED BY <2>6, <2>7, <2>8, <1>4 DEF Can
<1>. QED BY <1>5, <1>6

\* What was marked stays with the remotes that marked it.
LEMMA DidStep ==
    ASSUME NEW N \in Nat, NEW old, DOMAIN old = 1 .. N, NEW new,
           NEW marked \in SUBSET (0 .. N), NEW D, NEW j, j \notin D,
           Did(old, new, marked, D), NEW next, next = Mark(marked, Fitting(new[j], old)), 0 \notin next
    PROVE  Did(old, new, next, D \cup {j})
<1>1. PICK h \in [D -> marked] :
        /\ \A i, k \in D : h[i] = h[k] => i = k
        /\ \A i \in D : h[i] \in Fitting(new[i], old)
        /\ \A m \in marked : \E i \in D : h[i] = m
  BY DEF Did
<1>2. PICK m \in Fitting(new[j], old) \ marked : next = marked \cup {m}
  <2>1. PICK F : F = Fitting(new[j], old) OBVIOUS
  <2>2. F \in SUBSET (1 .. N) /\ next = Mark(marked, F) BY <2>1 DEF Fitting
  <2>3. next = marked \cup {0} \/ \E m \in F \ marked : next = marked \cup {m} BY <2>2, Marks
  <2>. QED BY <2>1, <2>3
<1>. DEFINE g == [i \in D \cup {j} |-> IF i = j THEN m ELSE h[i]]
<1>3. g \in [D \cup {j} -> next] BY <1>1, <1>2
<1>4. \A i, k \in D \cup {j} : g[i] = g[k] => i = k BY <1>1, <1>2
<1>5. \A i \in D \cup {j} : g[i] \in Fitting(new[i], old) BY <1>1, <1>2
<1>6. ASSUME NEW x \in next PROVE \E i \in D \cup {j} : g[i] = x
  <2>1. CASE x = m BY <2>1
  <2>2. CASE x \in marked
    <3>1. PICK i \in D : h[i] = x BY <1>1, <2>2
    <3>2. g[i] = x /\ i \in D \cup {j} BY <3>1
    <3>. QED BY <3>2
  <2>. QED BY <1>2, <2>1, <2>2
<1>. HIDE DEF g
<1>. QED BY <1>3, <1>4, <1>5, <1>6 DEF Did

\* One pass, round by round.
Look(old, r, m, k, S) == IF k \in S THEN Mark(m, Fitting(r, old)) ELSE m

PassOf(after, N, n, old, new, marked, S) ==
    /\ after \in [0 .. n -> SUBSET (0 .. N)]
    /\ after[0] = marked
    /\ \A k \in 1 .. n : after[k] = Look(old, new[k], after[k - 1], k, S)

\* One pass, from the marks before to the marks after it.
Passing(N, n, old, new, marked, S, next) ==
    /\ N \in Nat /\ DOMAIN old = 1 .. N /\ n \in Nat /\ Len(new) = n
    /\ marked \in SUBSET (0 .. N) /\ S \subseteq 1 .. n /\ next = Pass(old, new, marked, S)

LEMMA PassRuns ==
    ASSUME NEW N, NEW n, NEW old, NEW new, NEW marked, NEW S, NEW next, Passing(N, n, old, new, marked, S, next)
    PROVE  \E after : PassOf(after, N, n, old, new, marked, S) /\ next = after[n]
<1>0. /\ N \in Nat /\ DOMAIN old = 1 .. N /\ n \in Nat /\ Len(new) = n
      /\ marked \in SUBSET (0 .. N) /\ S \subseteq 1 .. n /\ next = Pass(old, new, marked, S)
  BY DEF Passing
<1>. USE <1>0
<1>. DEFINE V == SUBSET (0 .. N)
            After(k, m) == Look(old, new[k], m, k, S)
            step == [k \in Nat |-> [m \in V |-> After(k, m)]]
            Body(f) == [k \in 0 .. Len(new) |-> IF k = 0 THEN marked ELSE After(k, f[k - 1])]
<1>1. ASSUME NEW k, NEW m \in V PROVE After(k, m) \in V
  <2>1. PICK F : F = Fitting(new[k], old) OBVIOUS
  <2>2. F \in SUBSET (1 .. N) BY <2>1 DEF Fitting
  <2>3. Mark(m, F) \in V BY <2>2, Marks
  <2>. QED BY <2>1, <2>3 DEF Look
<1>. HIDE DEF V, After
<1>2. step \in [Nat -> [V -> V]] BY <1>1
<1>3. marked \in V BY DEF V
<1>4. PICK f : Follows(f, n, V, marked, step)
  <2>. HIDE DEF step
  <2>. QED BY <1>2, <1>3, Recursion
<1>5. f = Body(f)
  <2>0. f \in [0 .. n -> V] BY <1>4 DEF Follows
  <2>1. ASSUME NEW k \in 0 .. n PROVE f[k] = IF k = 0 THEN marked ELSE After(k, f[k - 1])
    <3>1. CASE k = 0 BY <3>1, <1>4 DEF Follows
    <3>2. CASE k # 0
      <4>1. k \in 1 .. n /\ k - 1 \in 0 .. n /\ k \in Nat BY <3>2
      <4>2. f[k - 1] \in V BY <4>1, <2>0
      <4>3. f[k] = step[k][f[k - 1]]
        <5>. HIDE DEF step
        <5>. QED BY <1>4, <4>1 DEF Follows
      <4>. QED BY <4>1, <4>2, <4>3, <3>2
    <3>. QED BY <3>1, <3>2
  <2>. QED BY <2>0, <2>1
<1>. DEFINE P(g) == g = Body(g)
<1>6. PICK c : c = CHOOSE g : P(g) OBVIOUS
<1>7. c = Body(c)
  <2>1. \E g : P(g) BY <1>5
  <2>2. P(CHOOSE g : P(g)) BY <2>1, Zenon
  <2>. QED BY <2>2, <1>6
<1>8. Pass(old, new, marked, S) = c[n]
  <2>1. Pass(old, new, marked, S) = (CHOOSE g : P(g))[Len(new)] BY Zenon DEF Pass, After, Look
  <2>. QED BY <2>1, <1>6
<1>9. c[0] = marked /\ DOMAIN c = 0 .. n /\ \A k \in 1 .. n : c[k] = After(k, c[k - 1]) BY <1>7
<1>10. \A k \in 0 .. n : c[k] \in V
  <2>1. c[0] \in V BY <1>9, <1>3
  <2>2. \A k \in 1 .. n : c[k - 1] \in V => c[k] \in V BY <1>9, <1>1
  <2>. QED BY <2>1, <2>2, RecursionType
<1>11. c \in [0 .. n -> V]
  <2>1. c = [k \in 0 .. n |-> c[k]] BY <1>7
  <2>. QED BY <2>1, <1>10
<1>. QED BY <1>8, <1>9, <1>11 DEF V, After, PassOf

\* All of them have a local port; none has.
Local(new, D) == \A j \in D : IsLocalSpecified(new[j])
Plain(new, D) == \A j \in D : ~IsLocalSpecified(new[j])

\* The remotes that the first k rounds of a pass look at.
Looked(S, k) == S \cap (1 .. k)

LEMMA LookedStep ==
    ASSUME NEW k \in Nat, NEW S
    PROVE  /\ Looked(S, 0) = {}
           /\ k + 1 \in S => Looked(S, k + 1) = Looked(S, k) \cup {k + 1}
           /\ k + 1 \notin S => Looked(S, k + 1) = Looked(S, k)
<1>1. 1 .. k + 1 = (1 .. k) \cup {k + 1} /\ 1 .. 0 = {} OBVIOUS
<1>. QED BY <1>1 DEF Looked

LEMMA PassType ==
    ASSUME NEW N, NEW n, NEW old, NEW new, NEW marked, NEW S, NEW next, Passing(N, n, old, new, marked, S, next)
    PROVE  next \in SUBSET (0 .. N)
<1>1. PICK after : PassOf(after, N, n, old, new, marked, S) /\ next = after[n]
  BY PassRuns
<1>. QED BY <1>1 DEF PassOf, Passing

\* A pass leaves the remotes their tunnels, if it looks at those with a local port or if only others
\* are left.
LEMMA PassCan ==
    ASSUME NEW N, NEW n, NEW old, NEW new, NEW marked, NEW S, NEW next, Passing(N, n, old, new, marked, S, next),
           NEW D, D \subseteq 1 .. n, S \subseteq D, NoTwins(old), 0 \notin marked,
           Plain(new, D) \/ Local(new, S), Can(old, new, marked, D)
    PROVE  0 \notin next /\ Can(old, new, next, D \ S)
<1>0. /\ N \in Nat /\ DOMAIN old = 1 .. N /\ n \in Nat /\ Len(new) = n
      /\ marked \in SUBSET (0 .. N) /\ S \subseteq 1 .. n /\ next = Pass(old, new, marked, S)
  BY DEF Passing
<1>1. PICK after : PassOf(after, N, n, old, new, marked, S) /\ next = after[n]
  BY PassRuns
<1>. USE <1>0
<1>. DEFINE Good(k) == 0 \notin after[k] /\ Can(old, new, after[k], D \ Looked(S, k))
            W == {k \in Nat : k <= n => Good(k)}
<1>2. 0 \in W
  <2>1. D \ Looked(S, 0) = D /\ after[0] = marked BY <1>1, LookedStep DEF PassOf
  <2>. QED BY <2>1
<1>3. ASSUME NEW k \in Nat, k \in W PROVE k + 1 \in W
  <2>. SUFFICES ASSUME k + 1 <= n PROVE Good(k + 1) OBVIOUS
  <2>1. k \in 0 .. n /\ k + 1 \in 1 .. n /\ (k + 1) - 1 = k OBVIOUS
  <2>2. Good(k) BY <2>1, <1>3
  <2>3. after[k + 1] = Look(old, new[k + 1], after[k], k + 1, S) /\ after[k] \in SUBSET (0 .. N)
    BY <2>1, <1>1 DEF PassOf
  <2>4. CASE k + 1 \notin S
    <3>1. after[k + 1] = after[k] BY <2>3, <2>4 DEF Look
    <3>2. Looked(S, k + 1) = Looked(S, k) BY <2>4, LookedStep
    <3>. QED BY <3>1, <3>2, <2>2
  <2>5. CASE k + 1 \in S
    <3>1. after[k + 1] = Mark(after[k], Fitting(new[k + 1], old)) BY <2>3, <2>5 DEF Look
    <3>2. PICK E : E = D \ Looked(S, k) OBVIOUS
    <3>3. k + 1 \in E /\ E \subseteq D
      <4>1. k + 1 \in D BY <2>1, <2>5 DEF Looked
      <4>2. k + 1 \notin Looked(S, k) BY DEF Looked
      <4>. QED BY <4>1, <4>2, <3>2
    <3>4. IsLocalSpecified(new[k + 1]) \/ \A i \in E : ~IsLocalSpecified(new[i]) BY <2>5, <3>3 DEF Plain, Local
    <3>5. D \ Looked(S, k + 1) = E \ {k + 1}
      BY <3>2, <2>5, LookedStep
    <3>6. 0 \notin after[k] /\ Can(old, new, after[k], E) BY <2>2, <3>2
    <3>7. 0 \notin after[k + 1] /\ Can(old, new, after[k + 1], E \ {k + 1})
      <4>. HIDE DEF Good, W
      <4>. QED BY <2>3, <3>1, <3>3, <3>4, <3>6, CanStep
    <3>. QED BY <3>5, <3>7
  <2>. QED BY <2>4, <2>5
<1>. HIDE DEF W
<1>4. Nat \subseteq W BY <1>2, <1>3, NatInd
<1>5. Good(n)
  <2>. HIDE DEF Good
  <2>. QED BY <1>4 DEF W
<1>7. Looked(S, n) = S BY DEF Looked
<1>. QED BY <1>1, <1>5, <1>7

\* A pass in which every remote found a tunnel marked one for each.
LEMMA PassDid ==
    ASSUME NEW N, NEW n, NEW old, NEW new, NEW marked, NEW S, NEW next, Passing(N, n, old, new, marked, S, next),
           NEW D, S \cap D = {}, 0 \notin next
    PROVE  /\ 0 \notin marked
           /\ Did(old, new, marked, D) => Did(old, new, next, D \cup S)
<1>0. /\ N \in Nat /\ DOMAIN old = 1 .. N /\ n \in Nat /\ Len(new) = n
      /\ marked \in SUBSET (0 .. N) /\ S \subseteq 1 .. n /\ next = Pass(old, new, marked, S)
  BY DEF Passing
<1>1. PICK after : PassOf(after, N, n, old, new, marked, S) /\ next = after[n]
  BY PassRuns
<1>. USE <1>0
<1>. DEFINE Good(k) == 0 \notin after[k] => 0 \notin marked /\ (Did(old, new, marked, D) => Did(old, new, after[k], D \cup Looked(S, k)))
            W == {k \in Nat : k <= n => Good(k)}
<1>2. 0 \in W
  <2>1. D \cup Looked(S, 0) = D /\ after[0] = marked BY <1>1, LookedStep DEF PassOf
  <2>. QED BY <2>1
<1>3. ASSUME NEW k \in Nat, k \in W PROVE k + 1 \in W
  <2>. SUFFICES ASSUME k + 1 <= n, 0 \notin after[k + 1] PROVE Good(k + 1) OBVIOUS
  <2>1. k \in 0 .. n /\ k + 1 \in 1 .. n /\ (k + 1) - 1 = k OBVIOUS
  <2>2. Good(k) BY <2>1, <1>3
  <2>3. after[k + 1] = Look(old, new[k + 1], after[k], k + 1, S) /\ after[k] \in SUBSET (0 .. N)
    BY <2>1, <1>1 DEF PassOf
  <2>4. CASE k + 1 \notin S
    <3>1. after[k + 1] = after[k] BY <2>3, <2>4 DEF Look
    <3>2. Looked(S, k + 1) = Looked(S, k) BY <2>4, LookedStep
    <3>. QED BY <3>1, <3>2, <2>2
  <2>5. CASE k + 1 \in S
    <3>1. after[k + 1] = Mark(after[k], Fitting(new[k + 1], old)) BY <2>3, <2>5 DEF Look
    <3>2. PICK E : E = D \cup Looked(S, k) OBVIOUS
    <3>3. k + 1 \notin E
      <4>1. k + 1 \notin D BY <2>1, <2>5 DEF Looked
      <4>2. k + 1 \notin Looked(S, k) BY DEF Looked
      <4>. QED BY <4>1, <4>2, <3>2
    <3>4. 0 \notin after[k] BY <3>1 DEF Mark
    <3>5. D \cup Looked(S, k + 1) = E \cup {k + 1}
      BY <3>2, <2>5, LookedStep
    <3>6. Did(old, new, after[k], E) => Did(old, new, after[k + 1], E \cup {k + 1})
      <4>. HIDE DEF Good, W
      <4>. QED BY <2>3, <3>1, <3>3, DidStep
    <3>. QED BY <2>2, <3>2, <3>4, <3>5, <3>6
  <2>. QED BY <2>4, <2>5
<1>. HIDE DEF W
<1>4. Nat \subseteq W BY <1>2, <1>3, NatInd
<1>5. Good(n)
  <2>. HIDE DEF Good
  <2>. QED BY <1>4 DEF W
<1>7. Looked(S, n) = S BY DEF Looked
<1>. QED BY <1>1, <1>5, <1>7

\* The tunnels that are not marked among the first k old ones, in a list of their own.
LeftOf(q, k, old, marked) ==
    \E b \in [1 .. Len(q) -> (1 .. k) \ marked] :
        /\ \A i, j \in 1 .. Len(q) : b[i] = b[j] => i = j
        /\ \A m \in (1 .. k) \ marked : \E i \in 1 .. Len(q) : b[i] = m
        /\ \A i \in 1 .. Len(q) : q[i] = Reopened(old[b[i]])

\* One round of the last loop.
Keep(old, marked, i, q) == IF i \in marked THEN q ELSE Append(q, Reopened(old[i]))

LEMMA LeftStep ==
    ASSUME NEW S, NEW q \in Seq(S), NEW k \in Nat, NEW old, Reopened(old[k + 1]) \in S, NEW marked,
           LeftOf(q, k, old, marked), NEW r, r = Keep(old, marked, k + 1, q)
    PROVE  LeftOf(r, k + 1, old, marked)
<1>1. 1 .. k + 1 = (1 .. k) \cup {k + 1} /\ k + 1 \notin 1 .. k OBVIOUS
<1>2. CASE k + 1 \in marked
  <2>1. (1 .. k + 1) \ marked = (1 .. k) \ marked BY <1>1, <1>2
  <2>2. r = q BY <1>2 DEF Keep
  <2>. QED BY <2>1, <2>2 DEF LeftOf
<1>3. CASE k + 1 \notin marked
  <2>1. PICK b \in [1 .. Len(q) -> (1 .. k) \ marked] :
          /\ \A i, j \in 1 .. Len(q) : b[i] = b[j] => i = j
          /\ \A m \in (1 .. k) \ marked : \E i \in 1 .. Len(q) : b[i] = m
          /\ \A i \in 1 .. Len(q) : q[i] = Reopened(old[b[i]])
    BY DEF LeftOf
  <2>2. PICK o : o = Reopened(old[k + 1]) OBVIOUS
  <2>3. r = Append(q, o) /\ o \in S BY <1>3, <2>2 DEF Keep
  <2>4. PICK l : l = Len(q) OBVIOUS
  <2>5. l \in Nat /\ Len(r) = l + 1 /\ r[l + 1] = o /\ \A i \in 1 .. l : r[i] = q[i]
    <3>1. Append(q, o) \in Seq(S) /\ Len(Append(q, o)) = Len(q) + 1 /\ Append(q, o)[Len(q) + 1] = o
          /\ \A i \in 1 .. Len(q) : Append(q, o)[i] = q[i]
      BY <2>3, AppendProperties
    <3>2. Len(q) \in Nat OBVIOUS
    <3>. QED BY <2>3, <2>4, <3>1, <3>2, Zenon
  <2>6. 1 .. l + 1 = (1 .. l) \cup {l + 1} /\ l + 1 \notin 1 .. l BY <2>5
  <2>. DEFINE g == [i \in 1 .. l + 1 |-> IF i = l + 1 THEN k + 1 ELSE b[i]]
  <2>7. g \in [1 .. l + 1 -> (1 .. k + 1) \ marked] BY <2>1, <2>4, <2>6, <1>1, <1>3
  <2>8. \A i, j \in 1 .. l + 1 : g[i] = g[j] => i = j BY <2>1, <2>4, <2>6, <1>1, SMTT(30)
  <2>9. ASSUME NEW m \in (1 .. k + 1) \ marked PROVE \E i \in 1 .. l + 1 : g[i] = m
    <3>1. CASE m = k + 1 BY <3>1, <2>6
    <3>2. CASE m # k + 1
      <4>1. PICK i \in 1 .. l : b[i] = m BY <3>2, <1>1, <2>1, <2>4
      <4>2. i \in 1 .. l + 1 /\ g[i] = m BY <4>1, <2>6
      <4>. QED BY <4>2
    <3>. QED BY <3>1, <3>2
  <2>10. ASSUME NEW i \in 1 .. l + 1 PROVE r[i] = Reopened(old[g[i]])
    <3>1. CASE i = l + 1 BY <3>1, <2>2, <2>5
    <3>2. CASE i # l + 1
      <4>1. i \in 1 .. l /\ g[i] = b[i] BY <3>2, <2>6
      <4>. QED BY <4>1, <2>1, <2>4, <2>5
    <3>. QED BY <3>1, <3>2
  <2>. HIDE DEF g
  <2>11. 1 .. Len(r) = 1 .. l + 1 BY <2>5
  <2>12. g \in [1 .. Len(r) -> (1 .. k + 1) \ marked] BY <2>7, <2>11
  <2>13. \A i, j \in 1 .. Len(r) : g[i] = g[j] => i = j BY <2>8, <2>11
  <2>14. \A m \in (1 .. k + 1) \ marked : \E i \in 1 .. Len(r) : g[i] = m BY <2>9, <2>11
  <2>15. \A i \in 1 .. Len(r) : r[i] = Reopened(old[g[i]]) BY <2>10, <2>11
  <2>. QED BY <2>12, <2>13, <2>14, <2>15 DEF LeftOf
<1>. QED BY <1>2, <1>3

\* The last loop returns each old tunnel that is not marked, once.
LEMMA LeftIs ==
    ASSUME NEW N \in Nat, NEW old, Len(old) = N, NEW marked
    PROVE  /\ LeftOf(Left(old, marked), N, old, marked)
           /\ Left(old, marked) \in Seq({Reopened(old[i]) : i \in 1 .. N})
<1>. DEFINE S == {Reopened(old[i]) : i \in 1 .. N}
            V == Seq(S)
            After(i, q) == Keep(old, marked, i, q)
            step == [i \in Nat |-> [q \in V |-> IF i \in 1 .. N THEN After(i, q) ELSE q]]
            Body(f) == [i \in 0 .. Len(old) |-> IF i = 0 THEN <<>> ELSE After(i, f[i - 1])]
<1>1. ASSUME NEW i \in 1 .. N, NEW q \in V PROVE After(i, q) \in V
  <2>1. Reopened(old[i]) \in S OBVIOUS
  <2>. HIDE DEF S
  <2>. QED BY <2>1 DEF Keep
<1>3. <<>> \in V OBVIOUS
<1>. HIDE DEF V, After
<1>2. step \in [Nat -> [V -> V]] BY <1>1
<1>4. PICK f : Follows(f, N, V, <<>>, step)
  <2>. HIDE DEF step
  <2>. QED BY <1>2, <1>3, Recursion
<1>5. f = Body(f)
  <2>0. f \in [0 .. N -> V] BY <1>4 DEF Follows
  <2>1. ASSUME NEW k \in 0 .. N PROVE f[k] = IF k = 0 THEN <<>> ELSE After(k, f[k - 1])
    <3>1. CASE k = 0 BY <3>1, <1>4 DEF Follows
    <3>2. CASE k # 0
      <4>1. k \in 1 .. N /\ k - 1 \in 0 .. N /\ k \in Nat BY <3>2
      <4>2. f[k - 1] \in V BY <4>1, <2>0
      <4>3. f[k] = step[k][f[k - 1]]
        <5>. HIDE DEF step
        <5>. QED BY <1>4, <4>1 DEF Follows
      <4>. QED BY <4>1, <4>2, <4>3, <3>2
    <3>. QED BY <3>1, <3>2
  <2>. QED BY <2>0, <2>1, Len(old) = N
<1>. DEFINE P(g) == g = Body(g)
<1>6. PICK c : c = CHOOSE g : P(g) OBVIOUS
<1>7. c = Body(c)
  <2>1. \E g : P(g) BY <1>5
  <2>2. P(CHOOSE g : P(g)) BY <2>1, Zenon
  <2>. QED BY <2>2, <1>6
<1>8. Left(old, marked) = c[N]
  <2>1. Left(old, marked) = (CHOOSE g : P(g))[Len(old)] BY Zenon DEF Left, After, Keep
  <2>. QED BY <2>1, <1>6, Len(old) = N
<1>9. c[0] = <<>> /\ \A k \in 1 .. N : c[k] = After(k, c[k - 1]) BY <1>7, Len(old) = N
<1>10. \A k \in 0 .. N : c[k] \in V
  <2>1. c[0] \in V BY <1>9, <1>3
  <2>2. \A k \in 1 .. N : c[k - 1] \in V => c[k] \in V BY <1>9, <1>1
  <2>. QED BY <2>1, <2>2, RecursionType
<1>. DEFINE W == {k \in Nat : k <= N => LeftOf(c[k], k, old, marked)}
<1>11. 0 \in W
  <2>1. 1 .. 0 = {} /\ Len(<<>>) = 0 OBVIOUS
  <2>. DEFINE b == [i \in 1 .. 0 |-> i]
  <2>2. b \in [1 .. Len(<<>>) -> (1 .. 0) \ marked] BY <2>1
  <2>3. LeftOf(<<>>, 0, old, marked) BY <2>1, <2>2 DEF LeftOf
  <2>. QED BY <2>3, <1>9
<1>12. ASSUME NEW k \in Nat, k \in W PROVE k + 1 \in W
  <2>. SUFFICES ASSUME k + 1 <= N PROVE LeftOf(c[k + 1], k + 1, old, marked) OBVIOUS
  <2>1. k \in 0 .. N /\ k + 1 \in 1 .. N /\ (k + 1) - 1 = k OBVIOUS
  <2>2. LeftOf(c[k], k, old, marked) BY <2>1, <1>12
  <2>3. c[k] \in Seq(S) BY <2>1, <1>10 DEF V
  <2>4. c[k + 1] = Keep(old, marked, k + 1, c[k]) BY <2>1, <1>9 DEF After
  <2>5. Reopened(old[k + 1]) \in S BY <2>1
  <2>. HIDE DEF S
  <2>. QED BY <2>2, <2>3, <2>4, <2>5, LeftStep
<1>. HIDE DEF W
<1>13. Nat \subseteq W BY <1>11, <1>12, NatInd
<1>14. LeftOf(c[N], N, old, marked) BY <1>13 DEF W
<1>. QED BY <1>8, <1>10, <1>14 DEF V

\* The list todo has the tunnels of old, each once.
Restored(todo, old) ==
    \E b \in [1 .. Len(todo) -> 1 .. Len(old)] :
        /\ \A i, j \in 1 .. Len(todo) : b[i] = b[j] => i = j
        /\ \A m \in 1 .. Len(old) : \E i \in 1 .. Len(todo) : b[i] = m
        /\ \A i \in 1 .. Len(todo) : todo[i].target = old[b[i]].target
        /\ \A i \in 1 .. Len(todo) : ~old[b[i]].random => Equals(old[b[i]], todo[i])

\* Reopened leaves the target, and a tunnel that is not on a random port as it is.
LEMMA ReopenedIs ==
    ASSUME NEW o, o \in [lport : {o.lport}, target : {o.target}, random : {o.random}]
    PROVE  Reopened(o).target = o.target /\ (~o.random => Equals(o, Reopened(o)))
  BY DEF Reopened, Equals

LEMMA FittingIs ==
    ASSUME NEW old, NEW r, NEW m \in Fitting(r, old)
    PROVE  /\ m \in DOMAIN old /\ r.target = old[m].target
           /\ ~old[m].random => Equals(old[m], r)
           /\ IF IsLocalSpecified(r) THEN Equals(r, old[m]) ELSE RandomMatch(r, old[m])
  BY DEF Fitting, Equals, RandomMatch, IsLocalSpecified

LEMMA IntervalSize == ASSUME NEW N \in Nat PROVE IsFiniteSet(1 .. N) /\ Cardinality(1 .. N) = N
<1>1. 1 \in Int /\ N \in Int OBVIOUS
<1>2. IsFiniteSet(1 .. N) /\ Cardinality(1 .. N) = IF 1 > N THEN 0 ELSE N - 1 + 1 BY <1>1, FS_Interval
<1>. QED BY <1>2

\* Both passes: over the remotes L with a local port, then over the others O.
Passes(N, n, old, new, E, D, L, O, A, M) ==
    /\ N \in Nat /\ n \in Nat /\ DOMAIN old = 1 .. N /\ Len(new) = n
    /\ (\A x : x \notin E) /\ D \subseteq 1 .. n /\ L \subseteq D /\ O \subseteq D
    /\ \A k \in D : (k \in L <=> IsLocalSpecified(new[k])) /\ (k \in O <=> k \notin L)
    /\ A = Pass(old, new, E, L) /\ M = Pass(old, new, A, O)

LEMMA BothPasses ==
    ASSUME NEW N, NEW n, NEW old, NEW new, NEW E, NEW D, NEW L, NEW O, NEW A, NEW M,
           Passes(N, n, old, new, E, D, L, O, A, M), NoTwins(old)
    PROVE  /\ Can(old, new, E, D) => 0 \notin M
           /\ 0 \notin M => M \in SUBSET (0 .. N) /\ Did(old, new, M, D)
<1>. USE DEF Passes
<1>1. L \cup O = D /\ O \cap L = {} /\ D \ L = O
  OBVIOUS
<1>2. Plain(new, O) /\ Local(new, L) /\ L \subseteq D /\ O \subseteq O
  BY DEF Plain, Local
<1>3. E \cup L = L /\ L \cap E = {} /\ L \subseteq 1 .. n /\ O \subseteq 1 .. n /\ E \in SUBSET (0 .. N) /\ 0 \notin E
  OBVIOUS
<1>4. Passing(N, n, old, new, E, L, A) BY <1>3 DEF Passing
<1>5. A \in SUBSET (0 .. N) BY <1>4, PassType
<1>6. Passing(N, n, old, new, A, O, M) BY <1>3, <1>5 DEF Passing
<1>7. M \in SUBSET (0 .. N) BY <1>6, PassType
<1>10. D \subseteq 1 .. n OBVIOUS
<1>. HIDE DEF Passes
<1>8. ASSUME Can(old, new, E, D) PROVE 0 \notin M
  <2>1. 0 \notin A /\ Can(old, new, A, D \ L)
    BY <1>2, <1>3, <1>4, <1>8, <1>10, PassCan
  <2>2. PICK F : F = O OBVIOUS
  <2>3. Can(old, new, A, F) /\ F \subseteq 1 .. n /\ O \subseteq F /\ (Plain(new, F) \/ Local(new, O)) BY <1>1, <1>2, <1>3, <2>1, <2>2
  <2>4. 0 \notin M /\ Can(old, new, M, F \ O) BY <1>6, <2>1, <2>3, PassCan
  <2>. QED BY <2>4
<1>. USE DEF Passes
<1>9. ASSUME 0 \notin M PROVE Did(old, new, M, D)
  <2>0. Did(old, new, E, E)
    <3>. DEFINE h == [i \in E |-> i]
    <3>1. h \in [E -> E] OBVIOUS
    <3>. QED BY <3>1 DEF Did
  <2>1. 0 \notin A /\ (Did(old, new, A, L) => Did(old, new, M, L \cup O))
    BY <1>1, <1>6, <1>9, PassDid
  <2>2. Did(old, new, E, E) => Did(old, new, A, E \cup L)
    BY <1>3, <1>4, <2>1, PassDid
  <2>. QED BY <2>0, <2>1, <2>2, <1>1, <1>3
<1>. QED BY <1>7, <1>8, <1>9

\* GetTunnelsToReestablish, with what startClientTunnels is given: the greedy choice of the two
\* passes succeeds exactly if each remote can have an old tunnel of its own.
LEMMA ReestablishIs ==
    ASSUME NEW R, NEW old \in Seq(R), NEW new \in Seq(R), NoTwins(old),
           \A o \in R : o \in [lport : {o.lport}, target : {o.target}, random : {o.random}],
           NEW todo, todo = new \o GetTunnelsToReestablish(old, new)
    PROVE  /\ Covers(old, new) => Restored(todo, old)
           /\ ~Covers(old, new) => todo = new
<1>1. PICK N, n : N = Len(old) /\ n = Len(new) OBVIOUS
<1>2. N \in Nat /\ n \in Nat /\ DOMAIN old = 1 .. N /\ DOMAIN new = 1 .. n BY <1>1
<1>0. PICK A, M, E, D, L, O : /\ E = {} /\ D = DOMAIN new /\ L = {k \in D : IsLocalSpecified(new[k])} /\ O = D \ L
                              /\ A = Pass(old, new, E, L) /\ M = Pass(old, new, A, O)
  OBVIOUS
<1>G. GetTunnelsToReestablish(old, new) = IF n > N \/ 0 \in M THEN <<>> ELSE Left(old, M)
  BY <1>0, <1>1, Zenon DEF GetTunnelsToReestablish
<1>3. E = {} /\ D = 1 .. n BY <1>0, <1>2
<1>P. (Can(old, new, E, D) => 0 \notin M) /\ (0 \notin M => M \in SUBSET (0 .. N) /\ Did(old, new, M, D))
  <2>1. (\A x : x \notin E) /\ D \subseteq 1 .. n /\ L \subseteq D /\ O \subseteq D
    BY <1>0, <1>3
  <2>2. \A k \in D : (k \in L <=> IsLocalSpecified(new[k])) /\ (k \in O <=> k \notin L)
    BY <1>0
  <2>3. Passes(N, n, old, new, E, D, L, O, A, M) BY <1>0, <1>1, <1>2, <2>1, <2>2, Zenon DEF Passes
  <2>. QED BY <2>3, BothPasses
<1>6. ASSUME Covers(old, new) PROVE n <= N /\ 0 \notin M
  <2>1. Can(old, new, E, D)
    <3>1. PICK f \in [D -> DOMAIN old] :
            /\ \A i, j \in D : f[i] = f[j] => i = j
            /\ \A i \in D : IF IsLocalSpecified(new[i]) THEN Equals(new[i], old[f[i]])
                            ELSE RandomMatch(new[i], old[f[i]])
      BY <1>2, <1>3, <1>6 DEF Covers
    <3>2. f \in [D -> DOMAIN old \ E] BY <1>3
    <3>3. \A i \in D : f[i] \in Fitting(new[i], old) BY <3>1 DEF Fitting
    <3>. QED BY <3>1, <3>2, <3>3 DEF Can
  <2>2. n <= N
    <3>1. PICK f \in [D -> DOMAIN old \ E] : \A i, j \in D : f[i] = f[j] => i = j BY <2>1 DEF Can
    <3>2. f \in Injection(1 .. n, 1 .. N) BY <3>1, <1>2, <1>3 DEF Injection, IsInjective
    <3>3. IsFiniteSet(1 .. N) /\ Cardinality(1 .. N) = N /\ Cardinality(1 .. n) = n
      BY <1>2, IntervalSize
    <3>4. Cardinality(1 .. n) <= Cardinality(1 .. N) BY <3>2, <3>3, FS_Injection
    <3>. QED BY <3>3, <3>4
  <2>. QED BY <2>1, <2>2, <1>P
<1>7. ASSUME 0 \notin M PROVE M \in SUBSET (0 .. N) /\ Did(old, new, M, D)
  BY <1>7, <1>P
<1>8. ASSUME Covers(old, new) PROVE Restored(todo, old)
  <2>1. n <= N /\ 0 \notin M BY <1>6, <1>8
  <2>2. PICK q : q = Left(old, M) OBVIOUS
  <2>3. todo = new \o q
    <3>1. GetTunnelsToReestablish(old, new) = Left(old, M) BY <2>1, <1>2, <1>G
    <3>. QED BY <3>1, <2>2
  <2>4. PICK S : S = {Reopened(old[i]) : i \in 1 .. N} OBVIOUS
  <2>5. LeftOf(q, N, old, M) /\ q \in Seq(S) BY <1>1, <1>2, <2>2, <2>4, LeftIs, ZenonT(60)
  <2>6. PICK l : l = Len(q) OBVIOUS
  <2>7. /\ l \in Nat /\ Len(todo) = n + l
        /\ \A i \in 1 .. n : todo[i] = new[i]
        /\ \A i \in 1 .. l : todo[n + i] = q[i]
    <3>1. new \in Seq(R \cup S) /\ q \in Seq(R \cup S) BY <2>5
    <3>. QED BY <3>1, <2>3, <2>6, <1>1, SMTT(30)
  <2>8. PICK h \in [D -> M] :
          /\ \A i, j \in D : h[i] = h[j] => i = j
          /\ \A i \in D : h[i] \in Fitting(new[i], old)
          /\ \A m \in M : \E i \in D : h[i] = m
    BY <2>1, <1>7 DEF Did
  <2>9. PICK c \in [1 .. l -> (1 .. N) \ M] :
          /\ \A i, j \in 1 .. l : c[i] = c[j] => i = j
          /\ \A m \in (1 .. N) \ M : \E i \in 1 .. l : c[i] = m
          /\ \A i \in 1 .. l : q[i] = Reopened(old[c[i]])
    BY <2>5, <2>6 DEF LeftOf
  <2>10. M \subseteq 1 .. N
    <3>1. 0 .. N = (1 .. N) \cup {0} BY <1>2
    <3>. QED BY <3>1, <2>1, <1>7
  <2>11. \A i \in 1 .. n + l : i \in 1 .. n \/ (i \notin 1 .. n /\ i - n \in 1 .. l /\ n + (i - n) = i) BY <1>2, <2>7
  <2>12. \A i \in 1 .. l : n + i \in 1 .. n + l /\ n + i \notin 1 .. n /\ (n + i) - n = i BY <1>2, <2>7
  <2>13. \A i \in 1 .. n : i \in 1 .. n + l BY <1>2, <2>7
  <2>14. \A i, j \in 1 .. n + l : i - n = j - n => i = j BY <1>2, <2>7
  <2>. DEFINE b == [i \in 1 .. n + l |-> IF i \in 1 .. n THEN h[i] ELSE c[i - n]]
  <2>15. ASSUME NEW i \in 1 .. n + l
         PROVE  \/ i \in 1 .. n /\ b[i] = h[i] /\ b[i] \in M
                \/ i \notin 1 .. n /\ i - n \in 1 .. l /\ n + (i - n) = i /\ b[i] = c[i - n] /\ b[i] \in (1 .. N) \ M
    <3>1. CASE i \in 1 .. n BY <3>1, <1>3, <2>8
    <3>2. CASE i \notin 1 .. n BY <3>2, <2>9, <2>11
    <3>. QED BY <3>1, <3>2
  <2>16. b \in [1 .. n + l -> 1 .. N] BY <2>15, <2>10
  <2>17. ASSUME NEW i \in 1 .. n + l, NEW j \in 1 .. n + l, b[i] = b[j] PROVE i = j
    <3>1. CASE i \in 1 .. n /\ j \in 1 .. n BY <3>1, <1>3, <2>8, <2>15, <2>17
    <3>2. CASE i \notin 1 .. n /\ j \notin 1 .. n
      <4>1. i - n \in 1 .. l /\ j - n \in 1 .. l /\ c[i - n] = c[j - n] BY <3>2, <2>15, <2>17
      <4>2. i - n = j - n BY <4>1, <2>9
      <4>. QED BY <4>2, <2>14
    <3>. QED BY <3>1, <3>2, <2>15, <2>17
  <2>18. ASSUME NEW m \in 1 .. N PROVE \E i \in 1 .. n + l : b[i] = m
    <3>1. CASE m \in M
      <4>1. PICK i \in D : h[i] = m BY <3>1, <2>8
      <4>2. i \in 1 .. n /\ i \in 1 .. n + l BY <4>1, <1>3, <2>13
      <4>. QED BY <4>1, <4>2
    <3>2. CASE m \notin M
      <4>1. PICK i \in 1 .. l : c[i] = m BY <3>2, <2>9
      <4>2. b[n + i] = m /\ n + i \in 1 .. n + l BY <4>1, <2>12
      <4>. QED BY <4>2
    <3>. QED BY <3>1, <3>2
  <2>19. ASSUME NEW i \in 1 .. n + l
         PROVE  todo[i].target = old[b[i]].target /\ (~old[b[i]].random => Equals(old[b[i]], todo[i]))
    <3>. HIDE DEF b
    <3>1. CASE i \in 1 .. n
      <4>1. todo[i] = new[i] /\ b[i] \in Fitting(new[i], old) BY <3>1, <1>3, <2>7, <2>8, <2>15
      <4>. QED BY <4>1, FittingIs
    <3>2. CASE i \notin 1 .. n
      <4>1. PICK k : k = i - n OBVIOUS
      <4>2. k \in 1 .. l /\ n + k = i /\ b[i] = c[k] BY <3>2, <4>1, <2>15
      <4>3. todo[i] = Reopened(old[b[i]]) /\ b[i] \in 1 .. N BY <4>2, <2>7, <2>9
      <4>4. PICK o : o = old[b[i]] OBVIOUS
      <4>5. o \in R BY <4>3, <4>4, <1>1, <1>2
      <4>. QED BY <4>3, <4>4, <4>5, ReopenedIs
    <3>. QED BY <3>1, <3>2
  <2>. HIDE DEF b
  <2>20. 1 .. Len(todo) = 1 .. n + l /\ 1 .. Len(old) = 1 .. N BY <1>1, <2>7
  <2>21. b \in [1 .. Len(todo) -> 1 .. Len(old)] BY <2>16, <2>20
  <2>22. \A i, j \in 1 .. Len(todo) : b[i] = b[j] => i = j BY <2>17, <2>20
  <2>23. \A m \in 1 .. Len(old) : \E i \in 1 .. Len(todo) : b[i] = m BY <2>18, <2>20
  <2>24. \A i \in 1 .. Len(todo) : todo[i].target = old[b[i]].target BY <2>19, <2>20
  <2>25. \A i \in 1 .. Len(todo) : ~old[b[i]].random => Equals(old[b[i]], todo[i]) BY <2>19, <2>20
  <2>. QED BY <2>21, <2>22, <2>23, <2>24, <2>25, Zenon DEF Restored
<1>9. ASSUME ~Covers(old, new) PROVE todo = new
  <2>1. 0 \in M
    <3>. SUFFICES ASSUME 0 \notin M PROVE FALSE OBVIOUS
    <3>1. PICK h \in [D -> M] :
            /\ \A i, j \in D : h[i] = h[j] => i = j
            /\ \A i \in D : h[i] \in Fitting(new[i], old)
      BY <1>7 DEF Did
    <3>2. h \in [DOMAIN new -> DOMAIN old] BY <3>1, <1>2, <1>3 DEF Fitting
    <3>3. \A i \in D : IF IsLocalSpecified(new[i]) THEN Equals(new[i], old[h[i]]) ELSE RandomMatch(new[i], old[h[i]])
      BY <3>1, FittingIs
    <3>. QED BY <3>1, <3>2, <3>3, <1>2, <1>3, <1>9 DEF Covers
  <2>2. GetTunnelsToReestablish(old, new) = <<>> BY <2>1, <1>G
  <2>. QED BY <2>2
<1>. QED BY <1>8, <1>9

\* As many tunnels, to the same targets, and those on a port of their own.
AllThere(todo, old) ==
    /\ Len(todo) = Len(old)
    /\ \A t : Cardinality({i \in DOMAIN old : old[i].target = t}) = Cardinality({i \in DOMAIN todo : todo[i].target = t})
    /\ \A o \in ToSet(old) : ~o.random => \E r \in ToSet(todo) : Equals(o, r)

LEMMA RestoredCounts ==
    ASSUME NEW todo, NEW old, NEW l \in Nat, NEW N \in Nat, Len(todo) = l, DOMAIN todo = 1 .. l,
           Len(old) = N, DOMAIN old = 1 .. N, Restored(todo, old)
    PROVE  AllThere(todo, old)
<1>1. PICK b \in [1 .. l -> 1 .. N] :
        /\ \A i, j \in 1 .. l : b[i] = b[j] => i = j
        /\ \A m \in 1 .. N : \E i \in 1 .. l : b[i] = m
        /\ \A i \in 1 .. l : todo[i].target = old[b[i]].target
        /\ \A i \in 1 .. l : ~old[b[i]].random => Equals(old[b[i]], todo[i])
  BY DEF Restored
<1>2. ASSUME NEW S \in SUBSET (1 .. l), NEW U \in SUBSET (1 .. N), \A i \in 1 .. l : i \in S <=> b[i] \in U
      PROVE  IsFiniteSet(S) /\ Cardinality(S) = Cardinality(U)
  <2>. DEFINE g == [i \in S |-> b[i]]
  <2>1. g \in [S -> U] BY <1>2, <1>1
  <2>2. \A i, j \in S : g[i] = g[j] => i = j BY <1>1
  <2>3. ASSUME NEW m \in U PROVE \E i \in S : g[i] = m
    <3>1. PICK i \in 1 .. l : b[i] = m BY <1>1
    <3>2. i \in S BY <3>1, <1>2
    <3>. QED BY <3>1, <3>2
  <2>. HIDE DEF g
  <2>4. g \in Bijection(S, U)
    <3>1. g \in Injection(S, U) BY <2>1, <2>2 DEF Injection, IsInjective
    <3>2. g \in Surjection(S, U) BY <2>1, <2>3 DEF Surjection
    <3>. QED BY <3>1, <3>2 DEF Bijection
  <2>5. ExistsBijection(S, U) BY <2>4 DEF ExistsBijection
  <2>6. IsFiniteSet(1 .. l) BY IntervalSize
  <2>7. IsFiniteSet(S) BY <2>6, FS_Subset
  <2>. QED BY <2>5, <2>7, FS_Bijection
<1>3. l = N
  <2>1. PICK S, U : S = 1 .. l /\ U = 1 .. N OBVIOUS
  <2>2. S \in SUBSET (1 .. l) /\ U \in SUBSET (1 .. N) /\ \A i \in 1 .. l : i \in S <=> b[i] \in U BY <2>1
  <2>3. Cardinality(S) = Cardinality(U) BY <2>2, <1>2
  <2>4. Cardinality(1 .. l) = l /\ Cardinality(1 .. N) = N BY IntervalSize
  <2>. QED BY <2>1, <2>3, <2>4
<1>4. ASSUME NEW t
      PROVE  Cardinality({i \in DOMAIN old : old[i].target = t}) = Cardinality({i \in DOMAIN todo : todo[i].target = t})
  <2>1. PICK S, U : S = {i \in 1 .. l : todo[i].target = t} /\ U = {i \in 1 .. N : old[i].target = t} OBVIOUS
  <2>2. S \in SUBSET (1 .. l) /\ U \in SUBSET (1 .. N) /\ \A i \in 1 .. l : i \in S <=> b[i] \in U BY <1>1, <2>1
  <2>3. Cardinality(S) = Cardinality(U) BY <2>2, <1>2
  <2>. QED BY <2>1, <2>3
<1>5. ASSUME NEW o \in ToSet(old), ~o.random PROVE \E r \in ToSet(todo) : Equals(o, r)
  <2>1. PICK m \in 1 .. N : old[m] = o BY DEF ToSet
  <2>2. PICK i \in 1 .. l : b[i] = m BY <1>1
  <2>3. Equals(o, todo[i]) BY <1>1, <1>5, <2>1, <2>2
  <2>4. todo[i] \in ToSet(todo) BY <2>2 DEF ToSet
  <2>. QED BY <2>3, <2>4
<1>. QED BY <1>3, <1>4, <1>5, Zenon DEF AllThere

-----------------------------------------------------------------------------
(* Types, and no two equal tunnels on a list.                              *)

OpenedRemotes == {r \in Remotes : r.lport \in AllowedPorts}

\* A request that has passed its checks has a client of a session and a remote.
Working == \A q \in Requests : put[q].pc \in {"checked", "locked", "starting"} => put[q].sess \in Sessions /\ put[q].remote \in Remotes

\* StartTunnel looks for an equal tunnel before it appends one; the table has what a client had.
Distinct == (\A s \in Objects : NoTwins(tunnels[s])) /\ (row # None => NoTwins(row))

TypeInv == TypeOK /\ disconnected[0] /\ Working

LEMMA Numbers == /\ MaxSessions \in Nat /\ MaxFaults \in Nat
                 /\ Sessions \subseteq Objects /\ 0 \in Objects /\ 0 \notin Sessions /\ None \notin Objects /\ None \notin Sessions
  BY ClientTunnelsAssumption DEF Sessions, Objects

LEMMA TypeInit == Init => TypeInv
<1>. SUFFICES ASSUME Init PROVE TypeInv OBVIOUS
<1>1. TypeOK BY Numbers DEF Init, TypeOK, Cancelled, Only, Sessions
<1>. QED BY <1>1, Numbers DEF Init, TypeInv, Working, Only

\* What startClientTunnels appends, and what it leaves.
Advance(r, pool) == mu' = [mu EXCEPT !.todo = Tail(@), !.got = r, !.portsPool = pool]

LEMMA OpenTyped ==
    ASSUME TypeInv, OpenNext
    PROVE  \/ StartFails(Only("answered"))
           \/ \E r \in OpenedRemotes, pool \in SUBSET AllowedPorts :
                 /\ Advance(r, pool) /\ UNCHANGED <<phase, lock, put>>
                 /\ \/ UNCHANGED <<tunnels, listeners>>
                    \/ /\ ~Has(mu.sess, r)
                       /\ tunnels' = [tunnels EXCEPT ![mu.sess] = Append(@, r)]
                       /\ listeners' = listeners \cup {Listener(mu.sess, r)}
<1>1. mu \in Jobs BY DEF OpenNext, TypeInv, TypeOK, Free, NoJob
<1>2. PICK h : h = Head(mu.todo) OBVIOUS
<1>3. h \in Remotes /\ mu.portsPool \subseteq AllowedPorts
  <2>1. mu.todo \in Seq(Remotes) /\ mu.todo # <<>> /\ mu.portsPool \subseteq AllowedPorts BY <1>1 DEF Jobs, OpenNext
  <2>. QED BY <2>1, <1>2
<1>4. ASSUME NEW r \in OpenedRemotes, NEW pool \in SUBSET AllowedPorts, StartTunnel(r, pool)
      PROVE  \/ StartFails(Only("answered"))
             \/ /\ Advance(r, pool) /\ UNCHANGED <<phase, lock, put>>
                /\ \/ UNCHANGED <<tunnels, listeners>>
                   \/ /\ ~Has(mu.sess, r)
                      /\ tunnels' = [tunnels EXCEPT ![mu.sess] = Append(@, r)]
                      /\ listeners' = listeners \cup {Listener(mu.sess, r)}
  BY <1>4 DEF StartTunnel, Advance
<1>5. CASE OpenRandom(h)
  <2>1. CASE StartFails(Only("answered")) BY <2>1
  <2>2. CASE \E p \in mu.portsPool : StartTunnel([lport |-> p, target |-> h.target, random |-> TRUE], mu.portsPool \ {p})
    <3>1. PICK p \in mu.portsPool : StartTunnel([lport |-> p, target |-> h.target, random |-> TRUE], mu.portsPool \ {p}) BY <2>2
    <3>2. PICK r, pool : r = [lport |-> p, target |-> h.target, random |-> TRUE] /\ pool = mu.portsPool \ {p} OBVIOUS
    <3>3. r \in OpenedRemotes /\ pool \in SUBSET AllowedPorts
      BY <1>3, <3>2, ClientTunnelsAssumption DEF OpenedRemotes, Remotes
    <3>4. StartTunnel(r, pool) BY <3>1, <3>2
    <3>. QED BY <3>3, <3>4, <1>4
  <2>. QED BY <1>5, <2>1, <2>2 DEF OpenRandom
<1>6. CASE OpenSpecified(h)
  <2>1. CASE StartFails(Only("answered")) BY <2>1
  <2>2. CASE h.lport \in AllowedPorts \cap mu.portsPool /\ StartTunnel(h, mu.portsPool)
    <3>1. h \in OpenedRemotes /\ mu.portsPool \in SUBSET AllowedPorts BY <1>3, <2>2 DEF OpenedRemotes
    <3>. QED BY <3>1, <2>2, <1>4
  <2>. QED BY <1>6, <2>1, <2>2 DEF OpenSpecified
<1>. QED BY <1>2, <1>5, <1>6 DEF OpenNext

Faults == 0 .. MaxFaults
PutStates == {"idle", "checked", "locked", "starting", "answered", "unsaved"}
PutRecords == [pc : PutStates, sess : Objects, remote : Remotes \cup {None}]

LEMMA TypeFails ==
    ASSUME TypeInv, ~Free, NEW answer \in PutRecords, answer.pc \in {"answered", "unsaved"}, StartFails(answer),
           UNCHANGED <<want, disconnected, repo, foreign, stopped>>, faults' \in Faults
    PROVE  TypeInv'
<1>1. mu \in Jobs BY DEF TypeInv, TypeOK, Free, NoJob
<1>2. mu.sess \in Objects /\ mu.put \in Requests \cup {None} BY <1>1, Numbers DEF Jobs
<1>3. /\ phase' \in [Objects -> {"none", "starting", "live", "lost"} \cup Cancelled]
      /\ tunnels' \in [Objects -> Seq(OpenedRemotes)] /\ lock' \in [Objects -> Requests \cup OpenedRemotes \cup {None}]
  <2>1. /\ phase \in [Objects -> {"none", "starting", "live", "lost"} \cup Cancelled]
        /\ tunnels \in [Objects -> Seq(OpenedRemotes)] /\ lock \in [Objects -> Requests \cup OpenedRemotes \cup {None}]
    BY DEF TypeInv, TypeOK, OpenedRemotes
  <2>2. phase' \in [Objects -> {"none", "starting", "live", "lost"} \cup Cancelled] BY <1>2, <2>1 DEF StartFails, Cancelled
  <2>3. tunnels' \in [Objects -> Seq(OpenedRemotes)]
    <3>1. <<>> \in Seq(OpenedRemotes) OBVIOUS
    <3>2. tunnels' = tunnels \/ tunnels' = [tunnels EXCEPT ![mu.sess] = <<>>] BY DEF StartFails
    <3>3. tunnels \in [Objects -> Seq(OpenedRemotes)] BY <2>1
    <3>. HIDE DEF OpenedRemotes
    <3>. QED BY <1>2, <3>1, <3>2, <3>3
  <2>4. lock' \in [Objects -> Requests \cup OpenedRemotes \cup {None}] BY <1>2, <2>1 DEF StartFails
  <2>. QED BY <2>2, <2>3, <2>4
<1>4. put' \in [Requests -> PutRecords] /\ Working'
  <2>1. put \in [Requests -> PutRecords] /\ Working BY DEF TypeInv, TypeOK, PutRecords, PutStates
  <2>. HIDE DEF PutRecords
  <2>2. CASE put' = put BY <2>1, <2>2 DEF Working
  <2>3. CASE mu.put # None /\ put' = [put EXCEPT ![mu.put] = answer]
    <3>1. mu.put \in Requests BY <2>3, <1>2
    <3>2. put' \in [Requests -> PutRecords] BY <2>1, <2>3, <3>1
    <3>3. \A q \in Requests : put'[q] = IF q = mu.put THEN answer ELSE put[q] BY <2>1, <2>3, <3>1
    <3>. QED BY <2>1, <3>2, <3>3 DEF Working
  <2>. QED BY <2>2, <2>3 DEF StartFails
<1>5. mu' = NoJob /\ listeners' = listeners BY DEF StartFails
<1>. QED BY <1>3, <1>4, <1>5 DEF TypeInv, TypeOK, OpenedRemotes, PutRecords, PutStates, Faults, repo

LEMMA TypeOpen == ASSUME TypeInv, OpenNext PROVE TypeInv'
<1>1. mu \in Jobs /\ mu.sess \in Sessions BY DEF OpenNext, TypeInv, TypeOK, Free, NoJob, Jobs
<1>2. CASE StartFails(Only("answered"))
  <2>1. PICK answer : answer = Only("answered") OBVIOUS
  <2>2. answer \in PutRecords /\ answer.pc \in {"answered", "unsaved"} BY <2>1, Numbers DEF Only, PutRecords, PutStates
  <2>3. faults' \in Faults BY DEF OpenNext, TypeInv, TypeOK, Faults
  <2>. QED BY <1>2, <2>1, <2>2, <2>3, TypeFails DEF OpenNext
<1>3. ASSUME NEW r \in OpenedRemotes, NEW pool \in SUBSET AllowedPorts,
             Advance(r, pool), UNCHANGED <<phase, lock, put>>,
             \/ UNCHANGED <<tunnels, listeners>>
             \/ /\ tunnels' = [tunnels EXCEPT ![mu.sess] = Append(@, r)]
                /\ listeners' = listeners \cup {Listener(mu.sess, r)}
      PROVE TypeInv'
  <2>1. mu' \in Jobs
    <3>1. mu.todo \in Seq(Remotes) /\ mu.todo # <<>> BY <1>1 DEF Jobs, OpenNext
    <3>2. PICK tl : tl = Tail(mu.todo) OBVIOUS
    <3>3. tl \in Seq(Remotes) BY <3>1, <3>2
    <3>4. r \in Remotes BY DEF OpenedRemotes
    <3>. QED BY <1>1, <1>3, <3>2, <3>3, <3>4 DEF Advance, Jobs
  <2>2. tunnels' \in [Objects -> Seq(OpenedRemotes)] /\ listeners' \subseteq Listeners
    <3>1. tunnels \in [Objects -> Seq(OpenedRemotes)] /\ listeners \subseteq Listeners BY DEF TypeInv, TypeOK, OpenedRemotes
    <3>2. CASE UNCHANGED <<tunnels, listeners>> BY <3>1, <3>2
    <3>3. CASE /\ tunnels' = [tunnels EXCEPT ![mu.sess] = Append(@, r)]
               /\ listeners' = listeners \cup {Listener(mu.sess, r)}
      <4>1. r.lport \in Ports BY ClientTunnelsAssumption DEF OpenedRemotes
      <4>2. mu.sess \in Objects BY <1>1, Numbers
      <4>3. r.target \in Targets BY DEF OpenedRemotes, Remotes
      <4>. QED BY <3>1, <3>3, <4>1, <4>2, <4>3, <1>1 DEF Listeners, Listener
    <3>. QED BY <1>3, <3>2, <3>3
  <2>. HIDE DEF Jobs
  <2>. QED BY <1>3, <2>1, <2>2 DEF TypeInv, TypeOK, OpenNext, Working, OpenedRemotes, repo
<1>. QED BY <1>2, <1>3, OpenTyped

LEMMA TypeOpened == ASSUME TypeInv, OpenedAll PROVE TypeInv'
<1>1. mu \in Jobs BY DEF OpenedAll, TypeInv, TypeOK, Free, NoJob
<1>2. mu.sess \in Objects /\ mu.put \in Requests \cup {None} BY <1>1, Numbers DEF Jobs
<1>3. /\ phase' \in [Objects -> {"none", "starting", "live", "lost"} \cup Cancelled]
      /\ row' \in Seq(OpenedRemotes) /\ current' \in Objects /\ lock' \in [Objects -> Requests \cup OpenedRemotes \cup {None}]
  BY <1>2 DEF TypeInv, TypeOK, OpenedAll, Save, Cancelled, OpenedRemotes
<1>4. put' \in [Requests -> PutRecords] /\ Working'
  <2>1. put \in [Requests -> PutRecords] /\ Working BY DEF TypeInv, TypeOK, PutRecords, PutStates
  <2>2. CASE put' = put BY <2>1, <2>2 DEF Working
  <2>3. CASE mu.put # None /\ put' = [put EXCEPT ![mu.put] = Only("answered")]
    <3>1. mu.put \in Requests BY <2>3, <1>2
    <3>0. Only("answered") \in PutRecords /\ Only("answered").pc = "answered" BY Numbers DEF Only, PutRecords, PutStates
    <3>. HIDE DEF PutRecords
    <3>2. put' \in [Requests -> PutRecords] BY <2>1, <2>3, <3>0, <3>1
    <3>3. \A q \in Requests : put'[q] = IF q = mu.put THEN Only("answered") ELSE put[q] BY <2>1, <2>3, <3>1
    <3>. QED BY <2>1, <3>0, <3>2, <3>3 DEF Working
  <2>. QED BY <2>2, <2>3 DEF OpenedAll
<1>. QED BY <1>3, <1>4 DEF TypeInv, TypeOK, OpenedAll, OpenedRemotes, PutRecords, PutStates, ports

LEMMA TypeSaveFails == ASSUME TypeInv, SaveFails PROVE TypeInv'
<1>1. mu \in Jobs BY DEF SaveFails, TypeInv, TypeOK, Free, NoJob
<1>2. PICK answer : answer = [pc |-> "unsaved", sess |-> mu.sess, remote |-> mu.got] OBVIOUS
<1>3. answer \in PutRecords /\ answer.pc \in {"answered", "unsaved"} BY <1>1, <1>2, Numbers DEF Jobs, PutRecords, PutStates
<1>4. faults' \in Faults
  <2>1. faults \in Faults /\ faults < MaxFaults /\ faults' = faults + 1
    BY DEF TypeInv, TypeOK, SaveFails, Faults
  <2>. QED BY <2>1, Numbers DEF Faults
<1>. QED BY <1>2, <1>3, <1>4, TypeFails DEF SaveFails

\* What StartClient gives to startClientTunnels.
LEMMA ReestablishType ==
    ASSUME NEW old \in Seq(Remotes), NEW new \in Seq(Remotes)
    PROVE  GetTunnelsToReestablish(old, new) \in Seq(Remotes)
<1>1. PICK S, m : /\ S = {Reopened(old[i]) : i \in 1 .. Len(old)}
                  /\ GetTunnelsToReestablish(old, new) = <<>> \/ GetTunnelsToReestablish(old, new) = Left(old, m)
  BY Zenon DEF GetTunnelsToReestablish
<1>2. Left(old, m) \in Seq(S) BY <1>1, LeftIs
<1>3. S \subseteq Remotes
  <2>1. \A i \in 1 .. Len(old) : old[i] \in Remotes OBVIOUS
  <2>2. \A o \in Remotes : Reopened(o) \in Remotes BY DEF Reopened, Remotes
  <2>. HIDE DEF Remotes
  <2>. QED BY <1>1, <2>1, <2>2
<1>4. \A q \in Seq(S) : q \in Seq(Remotes)
  <2>. HIDE DEF Remotes
  <2>. QED BY <1>3
<1>5. <<>> \in Seq(Remotes) OBVIOUS
<1>6. Left(old, m) \in Seq(Remotes) BY <1>2, <1>4
<1>. QED BY <1>1, <1>5, <1>6, Zenon

LEMMA TypeStart == ASSUME TypeInv, NEW s \in Sessions, StartClient(s) PROVE TypeInv'
<1>0. s \in Objects BY Numbers
<1>1. want' \in [Sessions -> Seq(Remotes)] BY DEF TypeInv, TypeOK, StartClient
<1>2. phase' \in [Objects -> {"none", "starting", "live", "lost"} \cup Cancelled]
  BY <1>0 DEF TypeInv, TypeOK, StartClient, Cancelled
<1>3. mu' = NoJob \/ mu' \in Jobs
  <2>1. CASE mu' = mu BY <2>1 DEF TypeInv, TypeOK
  <2>2. CASE mu' # mu
    <3>1. PICK todo : /\ todo = IF current = None THEN want[s] ELSE want[s] \o GetTunnelsToReestablish(tunnels[current], want[s])
                      /\ StartClientTunnels(None, s, todo)
      BY <2>2 DEF StartClient
    <3>2. want[s] \in Seq(Remotes) BY DEF TypeInv, TypeOK
    <3>3. todo \in Seq(Remotes)
      <4>1. CASE current = None BY <3>1, <3>2, <4>1
      <4>2. CASE current # None
        <5>0. tunnels[current] \in Seq(OpenedRemotes) BY <4>2 DEF TypeInv, TypeOK, OpenedRemotes
        <5>1. tunnels[current] \in Seq(Remotes)
          <6>1. OpenedRemotes \subseteq Remotes BY DEF OpenedRemotes
          <6>. HIDE DEF Remotes
          <6>. QED BY <5>0, <6>1
        <5>2. PICK g : g = GetTunnelsToReestablish(tunnels[current], want[s]) OBVIOUS
        <5>3. g \in Seq(Remotes) BY <5>1, <5>2, <3>2, ReestablishType
        <5>. QED BY <4>2, <3>1, <3>2, <5>2, <5>3
      <4>. QED BY <4>1, <4>2
    <3>. QED BY <3>1, <3>3 DEF StartClientTunnels, Jobs, Refresh
  <2>. QED BY <2>1, <2>2
<1>. HIDE DEF Jobs
<1>. QED BY <1>1, <1>2, <1>3 DEF TypeInv, TypeOK, StartClient, Working, repo

LEMMA TypeSession ==
    ASSUME TypeInv, NEW s \in Sessions, Connect(s) \/ ConnectionLost(s) \/ Terminate(s)
    PROVE  TypeInv'
<1>0. s \in Objects BY Numbers
<1>1. CASE Connect(s)
  BY <1>0, <1>1, ClientTunnelsAssumption DEF TypeInv, TypeOK, Connect, Working, repo, ports
<1>2. CASE ConnectionLost(s)
  BY <1>0, <1>2 DEF TypeInv, TypeOK, ConnectionLost, Working, repo, ports
<1>3. CASE Terminate(s)
  <2>1. /\ phase' \in [Objects -> {"none", "starting", "live", "lost"} \cup Cancelled]
        /\ disconnected' \in [Objects -> BOOLEAN] /\ disconnected'[0]
        /\ current' \in Objects \cup {None}
        /\ row' = None \/ row' \in Seq(OpenedRemotes)
    <3>1. /\ phase \in [Objects -> {"none", "starting", "live", "lost"} \cup Cancelled]
          /\ disconnected \in [Objects -> BOOLEAN] /\ disconnected[0]
          /\ current \in Objects \cup {None} /\ tunnels \in [Objects -> Seq(OpenedRemotes)]
          /\ row = None \/ row \in Seq(OpenedRemotes)
      BY DEF TypeInv, TypeOK, OpenedRemotes
    <3>2. phase' \in [Objects -> {"none", "starting", "live", "lost"} \cup Cancelled]
      BY <1>0, <1>3, <3>1 DEF Terminate, Cancelled
    <3>3. disconnected' \in [Objects -> BOOLEAN] /\ disconnected'[0]
      BY <1>0, <1>3, <3>1, Numbers DEF Terminate
    <3>4. tunnels[s] \in Seq(OpenedRemotes) BY <1>0, <3>1
    <3>5. /\ current' = None \/ current' = current \/ current' = s
          /\ row' = None \/ row' = row \/ row' = tunnels[s]
      BY <1>3 DEF Terminate, Save, repo
    <3>. QED BY <1>0, <3>1, <3>2, <3>3, <3>4, <3>5
  <2>. QED BY <1>3, <2>1 DEF TypeInv, TypeOK, Terminate, Working, OpenedRemotes, ports
<1>. QED BY <1>1, <1>2, <1>3

LEMMA TypePut ==
    ASSUME TypeInv, NEW q \in Requests, PutCheck(q) \/ PutLock(q) \/ PutStart(q)
    PROVE  TypeInv'
<1>0. put \in [Requests -> PutRecords] BY DEF TypeInv, TypeOK, PutRecords, PutStates
<1>1. CASE PutCheck(q)
  <2>1. PICK r, a :
          /\ r \in PutRemotes
          /\ a = [pc |-> "checked", sess |-> current, remote |-> r] \/ a = Only("answered")
          /\ put' = [put EXCEPT ![q] = a]
    BY <1>1 DEF PutCheck
  <2>2. current \in Sessions /\ current \in Objects
    BY <1>1, Numbers DEF PutCheck, TypeInv, TypeOK, Sessions, Objects
  <2>3. a \in PutRecords /\ (a.pc # "answered" => a.sess \in Sessions /\ a.remote \in Remotes)
    BY <2>1, <2>2, Numbers, ClientTunnelsAssumption DEF Only, PutRecords, PutStates
  <2>4. put' \in [Requests -> PutRecords] /\ \A x \in Requests : put'[x] = IF x = q THEN a ELSE put[x]
    <3>. HIDE DEF PutRecords
    <3>. QED BY <1>0, <2>1, <2>3
  <2>5. Working' BY <2>3, <2>4 DEF Working, TypeInv
  <2>. QED BY <1>1, <2>4, <2>5 DEF TypeInv, TypeOK, PutCheck, PutRecords, PutStates, repo, ports
<1>2. CASE PutLock(q)
  <2>0. put[q].sess \in Objects /\ put[q] \in PutRecords BY <1>0 DEF PutRecords
  <2>1. PICK a : put' = [put EXCEPT ![q] = a] /\ (a = Only("answered") \/ a = [put[q] EXCEPT !.pc = "locked"])
    BY <1>0, <1>2 DEF PutLock
  <2>2. put[q].sess \in Sessions /\ put[q].remote \in Remotes BY <1>2 DEF PutLock, TypeInv, Working
  <2>3. a \in PutRecords /\ (a.pc # "answered" => a.sess \in Sessions /\ a.remote \in Remotes)
    BY <2>0, <2>1, <2>2, Numbers DEF Only, PutRecords, PutStates
  <2>4. put' \in [Requests -> PutRecords] /\ \A x \in Requests : put'[x] = IF x = q THEN a ELSE put[x]
    <3>. HIDE DEF PutRecords
    <3>. QED BY <1>0, <2>1, <2>3
  <2>5. Working' BY <2>3, <2>4 DEF Working, TypeInv
  <2>6. lock' \in [Objects -> Requests \cup OpenedRemotes \cup {None}] 
    <3>1. lock \in [Objects -> Requests \cup OpenedRemotes \cup {None}] BY DEF TypeInv, TypeOK, OpenedRemotes
    <3>2. lock' = lock \/ lock' = [lock EXCEPT ![put[q].sess] = q] BY <1>2 DEF PutLock
    <3>. QED BY <2>0, <3>1, <3>2
  <2>. QED BY <1>2, <2>4, <2>5, <2>6 DEF TypeInv, TypeOK, PutLock, PutRecords, PutStates, OpenedRemotes, repo, ports
<1>3. CASE PutStart(q)
  <2>0. put[q].sess \in Objects /\ put[q] \in PutRecords BY <1>0 DEF PutRecords
  <2>1. PICK a : put' = [put EXCEPT ![q] = a] /\ a = [put[q] EXCEPT !.pc = "starting"]
    BY <1>0, <1>3 DEF PutStart
  <2>2. put[q].sess \in Sessions /\ put[q].remote \in Remotes BY <1>3 DEF PutStart, TypeInv, Working
  <2>3. a \in PutRecords /\ a.sess \in Sessions /\ a.remote \in Remotes
    BY <2>0, <2>1, <2>2, Numbers DEF PutRecords, PutStates
  <2>4. put' \in [Requests -> PutRecords] /\ \A x \in Requests : put'[x] = IF x = q THEN a ELSE put[x]
    <3>. HIDE DEF PutRecords
    <3>. QED BY <1>0, <2>1, <2>3
  <2>5. Working' BY <2>3, <2>4 DEF Working, TypeInv
  <2>6. mu' \in Jobs BY <1>3, <2>2 DEF PutStart, StartClientTunnels, Refresh, Jobs
  <2>. HIDE DEF Jobs
  <2>. QED BY <1>3, <2>4, <2>5, <2>6 DEF TypeInv, TypeOK, PutStart, PutRecords, PutStates, repo
<1>. QED BY <1>1, <1>2, <1>3

LEMMA RemoveType ==
    ASSUME NEW S, NEW q \in Seq(S), NEW i \in DOMAIN q
    PROVE  RemoveAt(q, i) \in Seq(S)
<1>1. IsList(q) BY DEF IsList
<1>2. PICK r, n : r = RemoveAt(q, i) /\ n = Len(q) OBVIOUS
<1>3. /\ IsList(r) /\ DOMAIN r = 1 .. n - 1 /\ DOMAIN q = 1 .. n /\ n \in Nat
      /\ \A j \in DOMAIN r : r[j] = IF j < i THEN q[j] ELSE q[j + 1]
  BY <1>1, <1>2, RemoveList
<1>4. ASSUME NEW j \in DOMAIN r PROVE r[j] \in S
  <2>1. j \in 1 .. n /\ j + 1 \in 1 .. n BY <1>3
  <2>2. q[j] \in S /\ q[j + 1] \in S BY <2>1, <1>2
  <2>. QED BY <1>3, <2>2
<1>5. PICK U : r \in Seq(U) BY <1>3 DEF IsList
<1>6. r \in [1 .. Len(r) -> S] /\ Len(r) \in Nat BY <1>4, <1>5
<1>. QED BY <1>2, <1>6

\* What a tunnel of a client's list may do.
TunnelStep(s, i) == DeleteTunnel(s, i) \/ DeleteDone(s, i) \/ TunnelIdles(s, i) \/ RemoveAutoClosed(s, i)

LEMMA TypeHost ==
    ASSUME TypeInv, \/ \E l \in listeners : CloseListener(l)
                    \/ \E p \in AllowedPorts : OtherProgram(p)
                    \/ \E s \in Sessions : \E i \in DOMAIN tunnels[s] : TunnelStep(s, i)
    PROVE  TypeInv'
<1>1. CASE \E l \in listeners : CloseListener(l)
  BY <1>1 DEF TypeInv, TypeOK, CloseListener, Working, repo
<1>2. ASSUME NEW p \in AllowedPorts, OtherProgram(p) PROVE TypeInv'
  <2>1. foreign' \subseteq Ports BY <1>2, ClientTunnelsAssumption DEF TypeInv, TypeOK, OtherProgram
  <2>2. faults' \in Faults BY <1>2, Numbers DEF TypeInv, TypeOK, OtherProgram, Faults
  <2>. QED BY <1>2, <2>1, <2>2 DEF TypeInv, TypeOK, OtherProgram, Working, Faults, repo
<1>3. ASSUME NEW s \in Sessions, NEW i \in DOMAIN tunnels[s], TunnelStep(s, i) PROVE TypeInv'
  <2>1. s \in Objects BY Numbers
  <2>2. /\ tunnels \in [Objects -> Seq(OpenedRemotes)] /\ stopped \in [Objects -> SUBSET OpenedRemotes]
        /\ lock \in [Objects -> Requests \cup OpenedRemotes \cup {None}]
    BY DEF TypeInv, TypeOK, OpenedRemotes
  <2>3. PICK t, r : t = tunnels[s][i] /\ r = RemoveAt(tunnels[s], i) OBVIOUS
  <2>4. r \in Seq(OpenedRemotes) /\ t \in OpenedRemotes
    <3>1. tunnels[s] \in Seq(OpenedRemotes) BY <2>1, <2>2
    <3>2. t \in OpenedRemotes
      <4>. HIDE DEF OpenedRemotes
      <4>. QED BY <2>3, <3>1
    <3>. QED BY <2>3, <3>1, <3>2, RemoveType
  <2>5. /\ tunnels' = tunnels \/ tunnels' = [tunnels EXCEPT ![s] = r]
        /\ stopped' = [stopped EXCEPT ![s] = stopped[s] \cup {t}] \/ stopped' = [stopped EXCEPT ![s] = stopped[s] \ {t}]
        /\ lock' = lock \/ lock' = [lock EXCEPT ![s] = t] \/ lock' = [lock EXCEPT ![s] = None]
    BY <1>3, <2>3 DEF TunnelStep, DeleteTunnel, DeleteDone, TunnelIdles, RemoveAutoClosed, RemoveTunnel
  <2>6. /\ tunnels' \in [Objects -> Seq(OpenedRemotes)] /\ stopped' \in [Objects -> SUBSET OpenedRemotes]
        /\ lock' \in [Objects -> Requests \cup OpenedRemotes \cup {None}]
    <3>. HIDE DEF OpenedRemotes
    <3>1. tunnels' \in [Objects -> Seq(OpenedRemotes)] BY <2>1, <2>2, <2>4, <2>5
    <3>2. stopped' \in [Objects -> SUBSET OpenedRemotes] BY <2>1, <2>2, <2>4, <2>5
    <3>3. lock' \in [Objects -> Requests \cup OpenedRemotes \cup {None}] BY <2>1, <2>2, <2>4, <2>5
    <3>. QED BY <3>1, <3>2, <3>3
  <2>7. UNCHANGED <<phase, want, disconnected, current, row, listeners, foreign, mu, put, faults>>
    BY <1>3 DEF TunnelStep, DeleteTunnel, DeleteDone, TunnelIdles, RemoveAutoClosed, repo, ports
  <2>. QED BY <2>6, <2>7 DEF TypeInv, TypeOK, Working, OpenedRemotes
<1>. QED BY <1>1, <1>2, <1>3

LEMMA TypeRestart == ASSUME TypeInv, Restart PROVE TypeInv'
<1>1. faults' \in Faults
  <2>1. faults \in Faults /\ faults < MaxFaults /\ faults' = faults + 1
    BY DEF TypeInv, TypeOK, Restart, Faults
  <2>. QED BY <2>1, Numbers DEF Faults
<1>2. put' \in [Requests -> PutRecords] /\ Working'
  <2>1. put \in [Requests -> PutRecords] BY DEF TypeInv, TypeOK, PutRecords, PutStates
  <2>2. Only("answered") \in PutRecords /\ Only("answered").pc = "answered" BY Numbers DEF Only, PutRecords, PutStates
  <2>3. \A q \in Requests : (put'[q] = put[q] /\ put[q].pc \in {"idle", "unsaved"}) \/ put'[q] = Only("answered")
    BY DEF Restart
  <2>4. put' = [q \in Requests |-> put'[q]] BY DEF Restart
  <2>. HIDE DEF PutRecords
  <2>5. put' \in [Requests -> PutRecords] BY <2>1, <2>2, <2>3, <2>4
  <2>. QED BY <2>2, <2>3, <2>5 DEF Working
<1>3. /\ phase' \in [Objects -> {"none", "starting", "live", "lost"} \cup Cancelled]
      /\ tunnels' \in [Objects -> Seq(OpenedRemotes)]
      /\ disconnected' \in [Objects -> BOOLEAN] /\ disconnected'[0]
      /\ current' \in Objects \cup {None}
      /\ lock' \in [Objects -> Requests \cup OpenedRemotes \cup {None}]
      /\ stopped' \in [Objects -> SUBSET OpenedRemotes]
  BY Numbers DEF TypeInv, TypeOK, Restart, Cancelled, OpenedRemotes
<1>. QED BY <1>1, <1>2, <1>3 DEF TypeInv, TypeOK, Restart, OpenedRemotes, PutRecords, PutStates, Faults

LEMMA TypeStep == TypeInv /\ [Next]_vars => TypeInv'
<1>. SUFFICES ASSUME TypeInv, [Next]_vars PROVE TypeInv' OBVIOUS
<1>1. CASE UNCHANGED vars BY <1>1 DEF vars, TypeInv, TypeOK, Working
<1>2. CASE OpenNext \/ OpenedAll \/ SaveFails \/ Restart BY <1>2, TypeOpen, TypeOpened, TypeSaveFails, TypeRestart
<1>3. CASE \E s \in Sessions : Connect(s) \/ StartClient(s) \/ ConnectionLost(s) \/ Terminate(s)
  BY <1>3, TypeSession, TypeStart
<1>4. CASE \E q \in Requests : PutCheck(q) \/ PutLock(q) \/ PutStart(q) BY <1>4, TypePut
<1>5. CASE \/ \E l \in listeners : CloseListener(l)
           \/ \E p \in AllowedPorts : OtherProgram(p)
           \/ \E s \in Sessions : \E i \in DOMAIN tunnels[s] : TunnelStep(s, i)
  BY <1>5, TypeHost
<1>. QED BY <1>1, <1>2, <1>3, <1>4, <1>5 DEF Next, TunnelStep

-----------------------------------------------------------------------------
\* An append of what is not there, and a removal.
LEMMA AppendDistinct ==
    ASSUME NEW q, IsList(q), NoTwins(q), NEW r, ~ \E i \in DOMAIN q : Equals(q[i], r)
    PROVE  NoTwins(Append(q, r))
<1>1. PICK p, n : p = Append(q, r) /\ n = Len(q) OBVIOUS
<1>2. /\ DOMAIN p = 1 .. n + 1 /\ DOMAIN q = 1 .. n /\ n \in Nat
      /\ \A i \in DOMAIN p : p[i] = IF i = n + 1 THEN r ELSE q[i]
  BY <1>1, AppendList
<1>3. \A i \in 1 .. n + 1 : i # n + 1 => i \in 1 .. n BY <1>2
<1>4. ASSUME NEW i \in DOMAIN p, NEW j \in DOMAIN p, Equals(p[i], p[j]) PROVE i = j
  BY <1>2, <1>3, <1>4 DEF NoTwins, Equals
<1>. QED BY <1>1, <1>4 DEF NoTwins

LEMMA RemoveDistinct ==
    ASSUME NEW q, IsList(q), NoTwins(q), NEW k \in DOMAIN q
    PROVE  NoTwins(RemoveAt(q, k))
<1>1. PICK p, n : p = RemoveAt(q, k) /\ n = Len(q) OBVIOUS
<1>2. /\ DOMAIN p = 1 .. n - 1 /\ DOMAIN q = 1 .. n /\ n \in Nat
      /\ \A i \in DOMAIN p : p[i] = IF i < k THEN q[i] ELSE q[i + 1]
  BY <1>1, RemoveList
<1>0. ASSUME NEW i \in DOMAIN p PROVE \E a \in 1 .. n : p[i] = q[a] /\ ((i < k /\ a = i) \/ (i >= k /\ a = i + 1))
  <2>1. i \in 1 .. n /\ i + 1 \in 1 .. n /\ k \in 1 .. n BY <1>2
  <2>2. CASE i < k BY <1>2, <2>1, <2>2
  <2>3. CASE i >= k
    <3>1. p[i] = q[i + 1] BY <1>2, <2>1, <2>3
    <3>. QED BY <2>1, <2>3, <3>1
  <2>. QED BY <2>1, <2>2, <2>3
<1>3. ASSUME NEW i \in DOMAIN p, NEW j \in DOMAIN p, Equals(p[i], p[j]) PROVE i = j
  <2>1. PICK a \in 1 .. n : p[i] = q[a] /\ ((i < k /\ a = i) \/ (i >= k /\ a = i + 1)) BY <1>0
  <2>4. PICK b \in 1 .. n : p[j] = q[b] /\ ((j < k /\ b = j) \/ (j >= k /\ b = j + 1)) BY <1>0
  <2>2. a = b BY <2>1, <2>4, <1>2, <1>3 DEF NoTwins
  <2>3. i \in 1 .. n - 1 /\ j \in 1 .. n - 1 /\ k \in 1 .. n BY <1>2
  <2>. QED BY <2>1, <2>2, <2>3, <2>4, <1>2
<1>. QED BY <1>1, <1>3 DEF NoTwins

LEMMA EmptyDistinct == NoTwins(<<>>)
  BY DEF NoTwins

LEMMA DistinctStep == TypeInv /\ Distinct /\ [Next]_vars => Distinct'
<1>. SUFFICES ASSUME TypeInv, Distinct, [Next]_vars PROVE Distinct' OBVIOUS
<1>0. tunnels \in [Objects -> Seq(OpenedRemotes)] BY DEF TypeInv, TypeOK, OpenedRemotes
<1>1. CASE UNCHANGED <<tunnels, row>> BY <1>1 DEF Distinct
<1>2. CASE OpenNext
  <2>1. row' = row /\ mu.sess \in Objects
    BY <1>2, Numbers DEF OpenNext, TypeInv, TypeOK, Free, NoJob, Jobs, repo
  <2>2. CASE StartFails(Only("answered"))
    <3>1. \A s \in Objects : tunnels'[s] = tunnels[s] \/ tunnels'[s] = <<>> BY <1>0, <2>1, <2>2 DEF StartFails
    <3>. QED BY <2>1, <3>1, EmptyDistinct DEF Distinct
  <2>3. CASE UNCHANGED tunnels BY <2>1, <2>3 DEF Distinct
  <2>4. ASSUME NEW r \in OpenedRemotes, ~Has(mu.sess, r), tunnels' = [tunnels EXCEPT ![mu.sess] = Append(@, r)]
        PROVE  Distinct'
    <3>1. PICK q, p : q = tunnels[mu.sess] /\ p = Append(q, r) OBVIOUS
    <3>2. IsList(q) /\ NoTwins(q) /\ ~ \E i \in DOMAIN q : Equals(q[i], r) BY <1>0, <2>1, <2>4, <3>1 DEF IsList, Distinct, Has
    <3>3. NoTwins(p) BY <3>1, <3>2, AppendDistinct
    <3>4. \A s \in Objects : tunnels'[s] = IF s = mu.sess THEN p ELSE tunnels[s] BY <1>0, <2>1, <2>4, <3>1
    <3>. QED BY <2>1, <3>3, <3>4 DEF Distinct
  <2>. QED BY <1>2, <2>2, <2>3, <2>4, OpenTyped
<1>3. CASE SaveFails
  <2>1. row' = row /\ mu.sess \in Objects
    BY <1>3, Numbers DEF SaveFails, TypeInv, TypeOK, Free, NoJob, Jobs, repo
  <2>2. \A s \in Objects : tunnels'[s] = tunnels[s] \/ tunnels'[s] = <<>> BY <1>0, <1>3, <2>1 DEF SaveFails, StartFails
  <2>. QED BY <2>1, <2>2, EmptyDistinct DEF Distinct
<1>4. CASE OpenedAll
  <2>1. mu.sess \in Objects /\ row' = tunnels[mu.sess] /\ tunnels' = tunnels
    BY <1>4, Numbers DEF OpenedAll, Save, TypeInv, TypeOK, Free, NoJob, Jobs
  <2>. QED BY <2>1 DEF Distinct
<1>5. ASSUME NEW s \in Sessions, Terminate(s) PROVE Distinct'
  <2>1. s \in Objects /\ tunnels' = tunnels /\ (row' = None \/ row' = row \/ row' = tunnels[s])
    BY <1>5, Numbers DEF Terminate, Save, repo
  <2>. QED BY <2>1 DEF Distinct
<1>6. ASSUME NEW s \in Sessions, NEW i \in DOMAIN tunnels[s], TunnelStep(s, i) PROVE Distinct'
  <2>0. CASE DeleteTunnel(s, i) \/ TunnelIdles(s, i) BY <1>1, <2>0 DEF DeleteTunnel, TunnelIdles, repo
  <2>6. CASE DeleteDone(s, i) \/ RemoveAutoClosed(s, i)
    <3>1. s \in Objects /\ row' = row /\ tunnels' = [tunnels EXCEPT ![s] = RemoveAt(tunnels[s], i)]
      BY <2>6, Numbers DEF DeleteDone, RemoveAutoClosed, RemoveTunnel, repo
    <3>2. PICK q, p : q = tunnels[s] /\ p = RemoveAt(q, i) OBVIOUS
    <3>3. IsList(q) /\ NoTwins(q) BY <1>0, <3>1, <3>2 DEF IsList, Distinct
    <3>4. NoTwins(p) BY <3>2, <3>3, RemoveDistinct
    <3>5. \A x \in Objects : tunnels'[x] = IF x = s THEN p ELSE tunnels[x] BY <1>0, <3>1, <3>2
    <3>. QED BY <3>1, <3>4, <3>5 DEF Distinct
  <2>. QED BY <1>6, <2>0, <2>6 DEF TunnelStep
<1>7. CASE Restart
  <2>1. row' = row /\ \A s \in Objects : tunnels'[s] = <<>> \/ (row # None /\ tunnels'[s] = row)
    <3>1. tunnels' = [s \in Objects |-> IF s = 0 /\ row # None THEN row ELSE <<>>] /\ row' = row BY <1>7 DEF Restart
    <3>2. PICK e : e = <<>> OBVIOUS
    <3>3. \A s \in Objects : tunnels'[s] = e \/ (row # None /\ tunnels'[s] = row) BY <3>1, <3>2, Zenon
    <3>. QED BY <3>1, <3>2, <3>3
  <2>. QED BY <2>1, EmptyDistinct DEF Distinct
<1>8. ASSUME NEW s \in Sessions, Connect(s) \/ StartClient(s) \/ ConnectionLost(s) PROVE Distinct'
  BY <1>1, <1>8 DEF Connect, StartClient, ConnectionLost, repo
<1>9. ASSUME \/ \E q \in Requests : PutCheck(q) \/ PutLock(q) \/ PutStart(q)
             \/ \E l \in listeners : CloseListener(l)
             \/ \E p \in AllowedPorts : OtherProgram(p)
      PROVE  Distinct'
  BY <1>1, <1>9 DEF PutCheck, PutLock, PutStart, CloseListener, OtherProgram, repo
<1>10. CASE UNCHANGED vars BY <1>1, <1>10 DEF vars
<1>. QED BY <1>2, <1>3, <1>4, <1>5, <1>6, <1>7, <1>8, <1>9, <1>10 DEF Next, TunnelStep

LEMMA DistinctInit == Init => Distinct
  BY EmptyDistinct DEF Init, Distinct

\* The variables have their types, and tunnels are only on allowed ports wherever they are kept: on
\* the lists, in the table and in what the passes of GetTunnelsToReestablish hand on
\* (ClientService.checkLocalPort, PortDistributor.GetRandomPort).
THEOREM TunnelsTyped == Spec => []TypeOK
<1>1. TypeInv => TypeOK BY DEF TypeInv
<1>. QED BY <1>1, TypeInit, TypeStep, PTL DEF Spec

\* What RestoresTunnels says of a step.
Restores ==
    \A s \in Sessions : Free /\ mu'.put = None /\ mu'.sess = s /\ current # None =>
        LET old == tunnels[current]
        IN  IF Covers(old, want[s])
            THEN /\ Len(mu'.todo) = Len(old)
                 /\ \A t \in Targets : Cardinality({i \in DOMAIN old : old[i].target = t})
                                       = Cardinality({i \in DOMAIN mu'.todo : mu'.todo[i].target = t})
                 /\ \A o \in ToSet(old) : ~o.random => \E r \in ToSet(mu'.todo) : Equals(o, r)
            ELSE mu'.todo = want[s]

LEMMA RestoresStep == TypeInv /\ Distinct /\ Next => Restores
<1>. SUFFICES ASSUME TypeInv, Distinct, Next, NEW s \in Sessions, Free, mu'.put = None, mu'.sess = s, current # None,
                     NEW old, old = tunnels[current], NEW new, new = want[s], NEW todo, todo = mu'.todo
              PROVE  /\ Covers(old, new) =>
                           /\ Len(todo) = Len(old)
                           /\ \A t \in Targets : Cardinality({i \in DOMAIN old : old[i].target = t})
                                                 = Cardinality({i \in DOMAIN todo : todo[i].target = t})
                           /\ \A o \in ToSet(old) : ~o.random => \E r \in ToSet(todo) : Equals(o, r)
                     /\ ~Covers(old, new) => todo = new
  BY DEF Restores
<1>1. mu.sess = None /\ s # None /\ mu' # mu /\ mu' # NoJob BY Numbers DEF Free, NoJob
<1>2. StartClient(s) /\ todo = new \o GetTunnelsToReestablish(old, new)
  <2>1. ~OpenNext /\ ~OpenedAll /\ ~SaveFails BY DEF OpenNext, OpenedAll, SaveFails
  <2>2. ~Restart BY <1>1 DEF Restart
  <2>3. \A x \in Sessions : ~Connect(x) /\ ~ConnectionLost(x) /\ ~Terminate(x) /\ \A i \in DOMAIN tunnels[x] : ~TunnelStep(x, i)
    BY <1>1 DEF Connect, ConnectionLost, Terminate, TunnelStep, DeleteTunnel, DeleteDone, TunnelIdles, RemoveAutoClosed
  <2>4. (\A l \in listeners : ~CloseListener(l)) /\ \A p \in AllowedPorts : ~OtherProgram(p)
    BY <1>1 DEF CloseListener, OtherProgram
  <2>5. \A q \in Requests : ~PutCheck(q) /\ ~PutLock(q) /\ ~PutStart(q)
    <3>1. \A q \in Requests : ~PutCheck(q) /\ ~PutLock(q) BY <1>1 DEF PutCheck, PutLock
    <3>2. \A q \in Requests : ~PutStart(q)
      BY ClientTunnelsAssumption DEF PutStart, StartClientTunnels
    <3>. QED BY <3>1, <3>2
  <2>6. PICK x \in Sessions : StartClient(x) BY <2>1, <2>2, <2>3, <2>4, <2>5 DEF Next, TunnelStep
  <2>7. StartClientTunnels(None, x, want[x] \o GetTunnelsToReestablish(tunnels[current], want[x]))
    BY <1>1, <2>6 DEF StartClient
  <2>8. mu'.sess = x /\ mu'.todo = want[x] \o GetTunnelsToReestablish(tunnels[current], want[x])
    <3>1. PICK g : g = want[x] \o GetTunnelsToReestablish(tunnels[current], want[x]) OBVIOUS
    <3>2. StartClientTunnels(None, x, g) BY <2>7, <3>1
    <3>3. mu' = [put |-> None, sess |-> x, todo |-> g, got |-> None, portsPool |-> Refresh] BY <3>2 DEF StartClientTunnels
    <3>4. mu'.sess = x /\ mu'.todo = g BY <3>3
    <3>. QED BY <3>1, <3>4, Zenon
  <2>. QED BY <2>6, <2>8
<1>3. old \in Seq(Remotes) /\ new \in Seq(Remotes) /\ NoTwins(old)
  <2>1. old \in Seq(OpenedRemotes) /\ new \in Seq(Remotes) /\ current \in Objects BY DEF TypeInv, TypeOK, OpenedRemotes
  <2>2. OpenedRemotes \subseteq Remotes BY DEF OpenedRemotes
  <2>3. old \in Seq(Remotes)
    <3>. HIDE DEF Remotes
    <3>. QED BY <2>1, <2>2
  <2>. QED BY <2>1, <2>3 DEF Distinct
<1>4. \A o \in Remotes : o \in [lport : {o.lport}, target : {o.target}, random : {o.random}] BY DEF Remotes
<1>5. todo \in Seq(Remotes)
  <2>1. PICK g : g = GetTunnelsToReestablish(old, new) OBVIOUS
  <2>2. g \in Seq(Remotes) BY <1>3, <2>1, ReestablishType
  <2>. HIDE DEF Remotes
  <2>. QED BY <1>2, <1>3, <2>1, <2>2
<1>. HIDE DEF Remotes
<1>6. (Covers(old, new) => Restored(todo, old)) /\ (~Covers(old, new) => todo = new)
  BY <1>2, <1>3, <1>4, ReestablishIs
<1>7. ASSUME Restored(todo, old)
      PROVE  /\ Len(todo) = Len(old)
             /\ \A t \in Targets : Cardinality({i \in DOMAIN old : old[i].target = t})
                                   = Cardinality({i \in DOMAIN todo : todo[i].target = t})
             /\ \A o \in ToSet(old) : ~o.random => \E r \in ToSet(todo) : Equals(o, r)
  <2>1. PICK l, N : l = Len(todo) /\ N = Len(old) OBVIOUS
  <2>2. l \in Nat /\ N \in Nat /\ DOMAIN todo = 1 .. l /\ DOMAIN old = 1 .. N BY <1>3, <1>5, <2>1
  <2>3. AllThere(todo, old) BY <1>7, <2>1, <2>2, RestoredCounts
  <2>. QED BY <2>3, Zenon DEF AllThere
<1>. QED BY <1>6, <1>7

\* A client that comes back asking for nothing but tunnels it had gets them all, and one that asks
\* for anything else gets what it asks for: for lists of any length, the greedy marking of
\* GetTunnelsToReestablish finds an old tunnel for each remote whenever there is such a choice.
THEOREM ReconnectRestores == Spec => RestoresTunnels
<1>1. TypeInv /\ Distinct /\ [Next]_vars => [Restores]_vars BY RestoresStep
<1>2. Spec => [][Restores]_vars
  BY <1>1, TypeInit, TypeStep, DistinctInit, DistinctStep, PTL DEF Spec
<1>. QED BY <1>2 DEF RestoresTunnels, Restores

-----------------------------------------------------------------------------
(* The listeners and the table, from all of the above.                     *)

LEMMA TypedIsTidy == ASSUME TypeInv, Distinct PROVE Tidy
<1>1. ASSUME NEW s \in Objects, NEW i \in DOMAIN tunnels[s] PROVE tunnels[s][i] \notin Requests \cup {None}
  <2>1. tunnels[s] \in Seq(OpenedRemotes) BY DEF TypeInv, TypeOK, OpenedRemotes
  <2>2. tunnels[s][i] \in OpenedRemotes
    <3>. HIDE DEF OpenedRemotes
    <3>. QED BY <2>1
  <2>3. tunnels[s][i] \in Remotes BY <2>2 DEF OpenedRemotes
  <2>. HIDE DEF Remotes
  <2>. QED BY <2>3, ClientTunnelsAssumption
<1>. QED BY <1>1 DEF Distinct, Tidy

\* The invariant of the listeners with all that it rests on.
Listening == TypeInv /\ Distinct /\ LockInv /\ ListenInv

LEMMA ListeningHolds == Spec => []Listening
<1>1. Init => Listening BY TypeInit, DistinctInit, LockInit, ListenInit DEF Listening
<1>2. Listening /\ [Next]_vars => Listening'
  BY TypedIsTidy, TypeStep, DistinctStep, LockStep, ListenStep DEF Listening
<1>. QED BY <1>1, <1>2, PTL DEF Spec

\* While its session lives, a client has no listener but those of the tunnels on its list, every
\* tunnel on it listens unless a DELETE or its idle timeout is ending it, none is on it twice and no
\* port has two listeners, for any lists of remotes, ports, sessions and requests
\* (Client.StartTunnel, TerminateTunnel, removeTunnelByID, the auto-close of a tunnel).
THEOREM ListsAreListened == Spec => []TunnelsListen
<1>1. Listening => TunnelsListen
  <2>. SUFFICES ASSUME Listening PROVE TunnelsListen OBVIOUS
  <2>1. ASSUME NEW s \in Sessions, phase[s] \in {"starting", "live", "lost"}
        PROVE  /\ \A l \in listeners : l.sess = s => \E t \in ToSet(tunnels[s]) : l = Listener(s, t)
               /\ \A t \in ToSet(tunnels[s]) : Listener(s, t) \in listeners \/ t \in stopped[s]
               /\ \A i, j \in DOMAIN tunnels[s] : Equals(tunnels[s][i], tunnels[s][j]) => i = j
    <3>1. Fits(listeners, tunnels[s], stopped[s], s) BY <2>1 DEF Listening, ListenInv
    <3>2. NoTwins(tunnels[s]) BY Numbers DEF Listening, Distinct
    <3>3. ToSet(tunnels[s]) = {tunnels[s][i] : i \in DOMAIN tunnels[s]} BY DEF ToSet
    <3>4. \A l \in listeners : l.sess = s => \E t \in ToSet(tunnels[s]) : l = Listener(s, t)
      BY <3>1, <3>3 DEF Fits
    <3>5. \A t \in ToSet(tunnels[s]) : Listener(s, t) \in listeners \/ t \in stopped[s]
      BY <3>1, <3>3 DEF Fits
    <3>. QED BY <3>2, <3>4, <3>5 DEF NoTwins
  <2>. QED BY <2>1 DEF Listening, ListenInv, TunnelsListen
<1>. QED BY <1>1, ListeningHolds, PTL

\* A tunnel of the client in the map is in its row of the table, but for the one being opened and
\* those of requests that were told that the row could not be written: whatever fails, and whenever
\* the server restarts (StartClientTunnels, ClientRepository.Save, Terminate).
THEOREM TunnelsAreSaved == Spec => []TunnelsSaved
<1>1. Init => SavedInv
  BY DEF Init, SavedInv
<1>2. SavedInv => TunnelsSaved
  BY DEF SavedInv, TunnelsSaved
<1>3. Listening /\ SavedInv /\ [Next]_vars => SavedInv'
  BY SavedStep DEF Listening
<1> QED
  BY <1>1, <1>2, <1>3, ListeningHolds, PTL DEF Spec

-----------------------------------------------------------------------------
(* One tunnel.  Both results rest on one fact: once a Terminate is past    *)
(* its wait, or stopFn is unset, the tunnel has stopped, and a stopped     *)
(* tunnel never starts again, because only the listener adds to the wait   *)
(* group.                                                                  *)

\* The typing the argument needs (the value of connCount does not matter here).
Shape ==
    /\ conn \in [Conns -> T!InWaitGroup \cup {"none", "notifying", "gone"}]
    /\ term \in [T!Terminators -> {"no", "checkStop", "callStop", "waiting", "clear", "returned"}]
    /\ cancelled \in BOOLEAN
    /\ stopFn \in BOOLEAN
    /\ listed \in BOOLEAN

\* The tunnel has stopped for good.
Stopped == cancelled /\ T!WaitGroupDone

\* A Terminate that called stopFn has ended the context; one that is past its wait, and one
\* that returned, leave a stopped tunnel.
TermInv ==
    \A x \in T!Terminators :
        /\ term[x] = "waiting" => cancelled
        /\ term[x] \in {"clear", "returned"} => Stopped

\* autoCloseChan is closed after the idle goroutine's Terminate only.
AutoCloseInv == idle = "autoClosed" => Stopped

StopInv == Shape /\ TermInv /\ AutoCloseInv /\ T!RemovedIsQuiet /\ T!StoppedWhenUnset
-----------------------------------------------------------------------------
\* The initial state satisfies the invariant.
LEMMA StopInit == T!Init => StopInv
  BY DEF T!Init, StopInv, Shape, TermInv, AutoCloseInv, T!RemovedIsQuiet, T!StoppedWhenUnset

\* Every step keeps the types of Shape.
LEMMA ShapeStep == ASSUME Shape, [T!Next]_T!vars PROVE Shape'
<1> USE DEF Shape, T!context, T!InWaitGroup
<1>1. ASSUME NEW c \in Conns, T!Accept(c) \/ T!PeerCloses(c) \/ T!IdleNotified(c) \/ T!ConnStep(c)
      PROVE  Shape'
  BY <1>1 DEF T!Accept, T!PeerCloses, T!IdleNotified, T!ConnStep, T!CountConn, T!OpenChannel, T!ContextCloses,
              T!UncountConn, T!ConnDone
<1>2. ASSUME T!AcceptFails \/ T!CloseListener \/ T!IdleFires \/ T!IdleStep \/ T!ClientDisconnects
      PROVE  Shape'
  BY <1>2 DEF T!AcceptFails, T!CloseListener, T!IdleFires, T!IdleStep, T!ClientDisconnects, T!IdleContextDone,
              T!IdleCloses, T!RemoveAutoClosed, T!Terminators
<1>3. ASSUME NEW x \in T!Terminators, T!Terminate(x) PROVE Shape'
  BY <1>3 DEF T!Terminate, T!TermStep, T!TermCheckStop, T!TermCallStop, T!TermWait, T!TermClear
<1>4. ASSUME NEW r \in DeleteRequests, T!DeleteRequest(r) \/ T!DeleteDone(r) PROVE Shape'
  BY <1>4 DEF T!DeleteRequest, T!DeleteDone, T!TermStep, T!Terminators
<1>5. CASE UNCHANGED T!vars
  BY <1>5 DEF T!vars
<1>6. QED
  BY <1>1, <1>2, <1>3, <1>4, <1>5 DEF T!Next

\* A stopped tunnel stays stopped: no step of a connection brings a goroutine back into the
\* wait group once the listen goroutine is done, and a context never becomes live again.
LEMMA StoppedIsStable == ASSUME Shape, [T!Next]_T!vars, Stopped PROVE Stopped'
<1> USE DEF Shape, T!context, T!InWaitGroup, Stopped, T!WaitGroupDone
<1>1. ASSUME NEW c \in Conns, T!Accept(c) \/ T!PeerCloses(c) \/ T!IdleNotified(c) \/ T!ConnStep(c)
      PROVE  Stopped'
  BY <1>1 DEF T!Accept, T!PeerCloses, T!IdleNotified, T!ConnStep, T!CountConn, T!OpenChannel, T!ContextCloses,
              T!UncountConn, T!ConnDone
<1>2. ASSUME T!AcceptFails \/ T!CloseListener \/ T!IdleFires \/ T!IdleStep \/ T!ClientDisconnects
      PROVE  Stopped'
  BY <1>2 DEF T!AcceptFails, T!CloseListener, T!IdleFires, T!IdleStep, T!ClientDisconnects, T!IdleContextDone,
              T!IdleCloses, T!RemoveAutoClosed
<1>3. ASSUME NEW x \in T!Terminators, T!Terminate(x) PROVE Stopped'
  BY <1>3 DEF T!Terminate, T!TermStep, T!TermCheckStop, T!TermCallStop, T!TermWait, T!TermClear
<1>4. ASSUME NEW r \in DeleteRequests, T!DeleteRequest(r) \/ T!DeleteDone(r) PROVE Stopped'
  BY <1>4 DEF T!DeleteRequest, T!DeleteDone
<1>5. CASE UNCHANGED T!vars
  BY <1>5 DEF T!vars
<1>6. QED
  BY <1>1, <1>2, <1>3, <1>4, <1>5 DEF T!Next

\* The context is never revived.
LEMMA CancelledIsStable == ASSUME Shape, [T!Next]_T!vars, cancelled PROVE cancelled'
<1> USE DEF Shape, T!context
<1>1. ASSUME NEW c \in Conns, T!Accept(c) \/ T!PeerCloses(c) \/ T!IdleNotified(c) \/ T!ConnStep(c)
      PROVE  cancelled'
  BY <1>1 DEF T!Accept, T!PeerCloses, T!IdleNotified, T!ConnStep, T!CountConn, T!OpenChannel, T!ContextCloses,
              T!UncountConn, T!ConnDone
<1>2. ASSUME T!AcceptFails \/ T!CloseListener \/ T!IdleFires \/ T!IdleStep \/ T!ClientDisconnects
      PROVE  cancelled'
  BY <1>2 DEF T!AcceptFails, T!CloseListener, T!IdleFires, T!IdleStep, T!ClientDisconnects, T!IdleContextDone,
              T!IdleCloses, T!RemoveAutoClosed
<1>3. ASSUME NEW x \in T!Terminators, T!Terminate(x) PROVE cancelled'
  BY <1>3 DEF T!Terminate, T!TermStep, T!TermCheckStop, T!TermCallStop, T!TermWait, T!TermClear
<1>4. ASSUME NEW r \in DeleteRequests, T!DeleteRequest(r) \/ T!DeleteDone(r) PROVE cancelled'
  BY <1>4 DEF T!DeleteRequest, T!DeleteDone
<1>5. CASE UNCHANGED T!vars
  BY <1>5 DEF T!vars
<1>6. QED
  BY <1>1, <1>2, <1>3, <1>4, <1>5 DEF T!Next

\* What a step of Terminate may do to its own progress, given the invariant.
LEMMA TerminateStep ==
    ASSUME StopInv, NEW x \in T!Terminators, T!Terminate(x)
    PROVE  /\ term' = [term EXCEPT ![x] = term'[x]]
           /\ term'[x] = "waiting" => cancelled'
           /\ term'[x] \in {"clear", "returned"} => Stopped
           /\ ~stopFn' => Stopped
           /\ UNCHANGED <<idle, listed>>
<1> USE DEF StopInv, Shape, TermInv, T!StoppedWhenUnset, Stopped, T!context
<1>1. CASE T!TermCheckStop(x)
  BY <1>1 DEF T!TermCheckStop, T!TermStep
<1>2. CASE T!TermCallStop(x)
  BY <1>2 DEF T!TermCallStop, T!TermStep
<1>3. CASE T!TermWait(x)
  BY <1>3 DEF T!TermWait, T!TermStep
<1>4. CASE T!TermClear(x)
  BY <1>4 DEF T!TermClear, T!TermStep
<1>5. QED
  BY <1>1, <1>2, <1>3, <1>4 DEF T!Terminate

\* Every step keeps the invariant.
LEMMA StopStep == ASSUME StopInv, [T!Next]_T!vars PROVE StopInv'
<1>1. Shape'
  BY ShapeStep DEF StopInv
<1>2. Stopped => Stopped'
  BY StoppedIsStable DEF StopInv
<1>3. cancelled => cancelled'
  BY CancelledIsStable DEF StopInv
<1> DEFINE Rest == TermInv /\ AutoCloseInv /\ T!RemovedIsQuiet /\ T!StoppedWhenUnset
<1> USE DEF TermInv, AutoCloseInv, T!RemovedIsQuiet, T!StoppedWhenUnset
<1>4. ASSUME UNCHANGED <<term, idle, listed, stopFn>> PROVE Rest'
  BY <1>2, <1>3, <1>4 DEF StopInv, Stopped
<1>5. ASSUME NEW c \in Conns, T!Accept(c) \/ T!PeerCloses(c) \/ T!IdleNotified(c) \/ T!ConnStep(c)
      PROVE  Rest'
  <2>1. UNCHANGED <<term, idle, listed, stopFn>>
    BY <1>5 DEF T!Accept, T!PeerCloses, T!IdleNotified, T!ConnStep, T!CountConn, T!OpenChannel, T!ContextCloses,
                T!UncountConn, T!ConnDone
  <2>2. QED
    BY <2>1, <1>4
<1>6. CASE T!AcceptFails \/ T!CloseListener \/ T!ClientDisconnects \/ UNCHANGED T!vars
  <2>1. UNCHANGED <<term, idle, listed, stopFn>>
    BY <1>6 DEF T!AcceptFails, T!CloseListener, T!ClientDisconnects, T!vars
  <2>2. QED
    BY <2>1, <1>1, <1>4 DEF StopInv
<1>7. ASSUME T!IdleFires \/ T!IdleContextDone PROVE Rest'
  <2>1. UNCHANGED <<listed, stopFn>> /\ idle' # "autoClosed"
    BY <1>7 DEF T!IdleFires, T!IdleContextDone
  <2>2. \A x \in T!Terminators : term'[x] = term[x] \/ term'[x] = "checkStop"
    BY <1>7 DEF T!IdleFires, T!IdleContextDone, StopInv, Shape, T!Terminators
  <2>3. QED
    BY <2>1, <2>2, <1>2, <1>3 DEF StopInv, Stopped
<1>8. ASSUME T!IdleCloses PROVE Rest'
  <2>1. Stopped /\ UNCHANGED <<term, listed, stopFn>>
    BY <1>8 DEF T!IdleCloses, StopInv, T!Terminators
  <2>2. QED
    BY <2>1, <1>2, <1>3 DEF StopInv, Stopped
<1>9. ASSUME T!RemoveAutoClosed PROVE Rest'
  <2>1. Stopped /\ UNCHANGED <<term, stopFn>> /\ idle' = "returned"
    BY <1>9 DEF T!RemoveAutoClosed, StopInv
  <2>2. QED
    BY <2>1, <1>2, <1>3 DEF StopInv, Stopped
<1>10. ASSUME NEW x \in T!Terminators, T!Terminate(x) PROVE Rest'
  <2>1. /\ term' = [term EXCEPT ![x] = term'[x]]
        /\ term'[x] = "waiting" => cancelled'
        /\ term'[x] \in {"clear", "returned"} => Stopped
        /\ ~stopFn' => Stopped
        /\ UNCHANGED <<idle, listed>>
    BY <1>10, TerminateStep
  <2>2. TermInv'
    <3> SUFFICES ASSUME NEW y \in T!Terminators
                 PROVE  /\ term'[y] = "waiting" => cancelled'
                        /\ term'[y] \in {"clear", "returned"} => Stopped'
      OBVIOUS
    <3>1. CASE y = x
      BY <3>1, <2>1, <1>2
    <3>2. CASE y # x
      <4>1. term'[y] = term[y]
        BY <3>2, <2>1 DEF StopInv, Shape
      <4>2. QED
        BY <4>1, <1>2, <1>3 DEF StopInv
    <3>3. QED
      BY <3>1, <3>2
  <2>3. (AutoCloseInv /\ T!RemovedIsQuiet /\ T!StoppedWhenUnset)'
    BY <2>1, <1>2 DEF StopInv, Stopped
  <2>4. QED
    BY <2>2, <2>3
<1>11. ASSUME NEW r \in DeleteRequests, T!DeleteRequest(r) PROVE Rest'
  <2>1. UNCHANGED <<idle, listed, stopFn>>
    BY <1>11 DEF T!DeleteRequest
  <2>2. \A x \in T!Terminators : term'[x] = term[x] \/ term'[x] = "checkStop"
    BY <1>11 DEF T!DeleteRequest, T!TermStep, StopInv, Shape, T!Terminators
  <2>3. QED
    BY <2>1, <2>2, <1>2, <1>3 DEF StopInv, Stopped
<1>12. ASSUME NEW r \in DeleteRequests, T!DeleteDone(r) PROVE Rest'
  <2>1. Stopped /\ UNCHANGED <<term, idle, stopFn>>
    BY <1>12 DEF T!DeleteDone, StopInv, T!Terminators
  <2>2. QED
    BY <2>1, <1>2, <1>3 DEF StopInv, Stopped
<1>13. QED
  BY <1>1, <1>5, <1>6, <1>7, <1>8, <1>9, <1>10, <1>11, <1>12 DEF T!Next, T!IdleStep, StopInv

\* A tunnel that left the client's list, through a DELETE request or the idle timeout, is quiet:
\* its context has ended, its listener is gone and none of its connections is still served.
THEOREM RemovedTunnelIsQuiet == T!Spec => []RemovedIsQuiet
<1>1. StopInv /\ [T!Next]_T!vars => StopInv'
  BY StopStep
<1>2. StopInv => RemovedIsQuiet
  BY DEF StopInv, RemovedIsQuiet
<1>3. QED
  BY StopInit, <1>1, <1>2, PTL DEF T!Spec

\* A Terminate that finds stopFn unset and returns at once finds a tunnel that has stopped.
THEOREM UnsetMeansStopped == T!Spec => []T!StoppedWhenUnset
<1>1. StopInv /\ [T!Next]_T!vars => StopInv'
  BY StopStep
<1>2. StopInv => T!StoppedWhenUnset
  BY DEF StopInv
<1>3. QED
  BY StopInit, <1>1, <1>2, PTL DEF T!Spec
-----------------------------------------------------------------------------
(* The counter of connections, and the types, which rest on it: only that  *)
(* it is exact says that it is never negative.                             *)

\* There is no bound on the connections, but only finitely many are counted at a time.
CountInv == IsFiniteSet(T!Counted) /\ T!CountIsExact

\* The instance has a copy of FiniteSets of its own.
LEMMA SameCardinality == \A S : T!Cardinality(S) = Cardinality(S)
  BY DEF T!Cardinality, Cardinality

LEMMA CountInit == T!Init => CountInv
<1> SUFFICES ASSUME T!Init PROVE CountInv
  OBVIOUS
<1>1. T!Counted = {} /\ connCount = 0
  BY DEF T!Init, T!Counted
<1>2. QED
  BY <1>1, FS_EmptySet, SameCardinality DEF CountInv, T!CountIsExact

LEMMA CountStep == ASSUME Shape, CountInv, [T!Next]_T!vars PROVE CountInv'
<1>0. ASSUME T!Counted' = T!Counted, connCount' = connCount PROVE CountInv'
  BY <1>0 DEF CountInv, T!CountIsExact
<1>1. ASSUME NEW c \in Conns, T!CountConn(c) PROVE CountInv'
  <2>1. T!Counted' = T!Counted \cup {c} /\ c \notin T!Counted /\ connCount' = connCount + 1
    BY <1>1 DEF T!CountConn, T!Counted, Shape
  <2>2. /\ IsFiniteSet(T!Counted \cup {c})
        /\ Cardinality(T!Counted \cup {c}) = Cardinality(T!Counted) + 1
    BY <2>1, FS_AddElement DEF CountInv
  <2>3. connCount = Cardinality(T!Counted) /\ Cardinality(T!Counted) \in Nat
    BY SameCardinality, FS_CardinalityType DEF CountInv, T!CountIsExact
  <2>4. IsFiniteSet(T!Counted)' /\ connCount' = Cardinality(T!Counted')
    BY <2>1, <2>2, <2>3
  <2>5. QED
    BY <2>4, SameCardinality DEF CountInv, T!CountIsExact
<1>2. ASSUME NEW c \in Conns, T!UncountConn(c) PROVE CountInv'
  <2>1. T!Counted' = T!Counted \ {c} /\ c \in T!Counted /\ connCount' = connCount - 1
    BY <1>2 DEF T!UncountConn, T!Counted, Shape
  <2>2. /\ IsFiniteSet(T!Counted \ {c})
        /\ Cardinality(T!Counted \ {c}) = Cardinality(T!Counted) - 1
    BY <2>1, FS_RemoveElement DEF CountInv
  <2>3. connCount = Cardinality(T!Counted) /\ Cardinality(T!Counted) \in Nat
    BY SameCardinality, FS_CardinalityType DEF CountInv, T!CountIsExact
  <2>4. IsFiniteSet(T!Counted)' /\ connCount' = Cardinality(T!Counted')
    BY <2>1, <2>2, <2>3
  <2>5. QED
    BY <2>4, SameCardinality DEF CountInv, T!CountIsExact
<1>3. ASSUME NEW c \in Conns,
             T!Accept(c) \/ T!PeerCloses(c) \/ T!IdleNotified(c) \/ T!OpenChannel(c) \/ T!ContextCloses(c)
               \/ T!ConnDone(c)
      PROVE  CountInv'
  <2>1. T!Counted' = T!Counted /\ connCount' = connCount
    BY <1>3 DEF T!Accept, T!PeerCloses, T!IdleNotified, T!OpenChannel, T!ContextCloses, T!ConnDone, T!Counted, Shape
  <2>2. QED
    BY <1>0, <2>1
<1>4. ASSUME UNCHANGED <<conn, connCount>> PROVE CountInv'
  BY <1>0, <1>4 DEF T!Counted
<1>5. CASE T!AcceptFails \/ T!CloseListener \/ T!IdleFires \/ T!IdleStep \/ T!ClientDisconnects \/ UNCHANGED T!vars
  BY <1>4, <1>5 DEF T!AcceptFails, T!CloseListener, T!IdleFires, T!IdleStep, T!ClientDisconnects,
                    T!IdleContextDone, T!IdleCloses, T!RemoveAutoClosed, T!vars
<1>6. ASSUME NEW x \in T!Terminators, T!Terminate(x) PROVE CountInv'
  BY <1>4, <1>6 DEF T!Terminate, T!TermCheckStop, T!TermCallStop, T!TermWait, T!TermClear
<1>7. ASSUME NEW r \in DeleteRequests, T!DeleteRequest(r) \/ T!DeleteDone(r) PROVE CountInv'
  BY <1>4, <1>7 DEF T!DeleteRequest, T!DeleteDone
<1>8. QED
  BY <1>1, <1>2, <1>3, <1>5, <1>6, <1>7 DEF T!Next, T!ConnStep

\* What a DELETE without force and the idle timeout decide by is the number of connections that
\* are being served at that moment, for any number of connections.
THEOREM ConnectionsAreCounted == T!Spec => []T!CountIsExact
<1>1. StopInv /\ CountInv /\ [T!Next]_T!vars => StopInv' /\ CountInv'
  BY StopStep, CountStep DEF StopInv
<1>2. CountInv => T!CountIsExact
  BY DEF CountInv
<1>3. QED
  BY StopInit, CountInit, <1>1, <1>2, PTL DEF T!Spec

\* The rest of the types: what Shape and the counter leave.
Remainder ==
    /\ cut \subseteq Conns
    /\ acceptor \in {"accepting", "done"}
    /\ listener \in {"open", "closed"}
    /\ clientGone \in BOOLEAN
    /\ idle \in {"none", "waiting", "terminating", "autoClosed", "returned"}
    /\ api \in [DeleteRequests -> {"none", "terminating", "refused", "deleted"}]
    /\ clientLock \in T!Terminators
    /\ panicked \in BOOLEAN

LEMMA RemainderInit == T!Init => Remainder
  BY DEF T!Init, Remainder, T!Terminators

LEMMA RemainderStep == ASSUME Remainder, [T!Next]_T!vars PROVE Remainder'
<1> USE DEF Remainder, T!context
<1>1. ASSUME NEW c \in Conns, T!Accept(c) \/ T!PeerCloses(c) \/ T!IdleNotified(c) \/ T!ConnStep(c)
      PROVE  Remainder'
  BY <1>1 DEF T!Accept, T!PeerCloses, T!IdleNotified, T!ConnStep, T!CountConn, T!OpenChannel, T!ContextCloses,
              T!UncountConn, T!ConnDone
<1>2. CASE T!AcceptFails \/ T!CloseListener \/ T!IdleFires \/ T!IdleStep \/ T!ClientDisconnects
  BY <1>2 DEF T!AcceptFails, T!CloseListener, T!IdleFires, T!IdleStep, T!ClientDisconnects, T!IdleContextDone,
              T!IdleCloses, T!RemoveAutoClosed
<1>3. ASSUME NEW x \in T!Terminators, T!Terminate(x) PROVE Remainder'
  BY <1>3 DEF T!Terminate, T!TermCheckStop, T!TermCallStop, T!TermWait, T!TermClear
<1>4. ASSUME NEW r \in DeleteRequests, T!DeleteRequest(r) \/ T!DeleteDone(r) PROVE Remainder'
  BY <1>4 DEF T!DeleteRequest, T!DeleteDone, T!Terminators
<1>5. CASE UNCHANGED T!vars
  BY <1>5 DEF T!vars
<1>6. QED
  BY <1>1, <1>2, <1>3, <1>4, <1>5 DEF T!Next

\* The variables of a tunnel keep their types; above all, its counter never falls below zero.
THEOREM TunnelTyped == T!Spec => []T!TypeOK
<1>1. StopInv /\ CountInv /\ Remainder /\ [T!Next]_T!vars => StopInv' /\ CountInv' /\ Remainder'
  BY StopStep, CountStep, RemainderStep DEF StopInv
<1>2. StopInv /\ CountInv /\ Remainder => T!TypeOK
  <2>1. CountInv => connCount \in Nat
    BY SameCardinality, FS_CardinalityType DEF CountInv, T!CountIsExact
  <2>2. QED
    BY <2>1 DEF StopInv, Shape, Remainder, T!TypeOK
<1>3. QED
  BY StopInit, CountInit, RemainderInit, <1>1, <1>2, PTL DEF T!Spec
=============================================================================
