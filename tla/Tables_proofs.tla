---------------------------- MODULE Tables_proofs ---------------------------
(***************************************************************************)
(* Proofs about the parts of MCTables: the vault, for any number of        *)
(* passwords, users, keys and ids, the libraries and the users in a        *)
(* database, for any number of requests, names, ids and groups, and the    *)
(* client groups, for patterns, names and tags of any length.              *)
(***************************************************************************)
EXTENDS MCTables, WellFoundedInduction, SequenceTheorems, TLAPS

(* Client groups: matching by parts is the matching of patterns.           *)

\* A set of natural numbers has a least element: the well-foundedness of the library, for sets.
LEMMA LeastNat ==
    ASSUME NEW T, T \subseteq Nat, T # {}
    PROVE  \E n \in T : \A m \in T : n <= m
<1>1. \E x \in T : \A y \in T : ~ (y < x)
  <2>1. IsWellFoundedOn(OpToRel(<,Nat), Nat)
    BY NatLessThanWellFounded
  <2>2. PICK x \in T : \A y \in T : ~ (<<y, x>> \in OpToRel(<,Nat))
    BY <2>1, WFMin
  <2>. QED BY <2>2, Zenon DEF OpToRel
<1>. QED BY <1>1

\* Induction, for a set of natural numbers.
LEMMA NatInd ==
    ASSUME NEW T, 0 \in T, \A n \in Nat : n \in T => n + 1 \in T
    PROVE  Nat \subseteq T
<1>. SUFFICES ASSUME ~ (Nat \subseteq T) PROVE FALSE
  OBVIOUS
<1>. DEFINE U == Nat \ T
<1>1. PICK n \in U : \A m \in U : n <= m
  <2>. U \subseteq Nat /\ U # {} OBVIOUS
  <2>. QED BY LeastNat
<1>2. n # 0 /\ n \in Nat /\ n - 1 \in Nat OBVIOUS
<1>3. n - 1 \in T BY <1>1, <1>2
<1>4. (n - 1) + 1 \in T BY <1>2, <1>3
<1>. QED BY <1>2, <1>4

\* Min of a set of natural numbers is its least element.
LEMMA LeastIsMin ==
    ASSUME NEW T, T \subseteq Nat, T # {}
    PROVE  G!Min(T) \in T /\ \A m \in T : G!Min(T) <= m
<1>1. \E x \in T : \A y \in T : x <= y BY LeastNat
<1>2. \E x : x \in T /\ \A y \in T : x <= y BY <1>1
<1>. QED BY <1>2, Zenon DEF G!Min

\* The function f on 0 .. N begins with b and goes on by the steps.
Follows(f, N, V, b, step) ==
    f \in [0 .. N -> V] /\ f[0] = b /\ \A k \in 1 .. N : f[k] = step[k][f[k - 1]]

\* There is one.
LEMMA Recursion ==
    ASSUME NEW N \in Nat, NEW V, NEW b \in V, NEW step \in [Nat -> [V -> V]]
    PROVE  \E f : Follows(f, N, V, b, step)
<1>. DEFINE T == {n \in Nat : \E f : Follows(f, n, V, b, step)}
<1>1. 0 \in T
  <2>. DEFINE f == [i \in 0 .. 0 |-> b]
  <2>1. Follows(f, 0, V, b, step) BY DEF Follows
  <2>. QED BY <2>1
<1>2. ASSUME NEW n \in Nat, n \in T PROVE n + 1 \in T
  <2>1. PICK f : Follows(f, n, V, b, step) BY <1>2
  <2>. USE DEF Follows
  <2>. DEFINE g == [i \in 0 .. n + 1 |-> IF i = n + 1 THEN step[n + 1][f[n]] ELSE f[i]]
  <2>2. g \in [0 .. n + 1 -> V]
    <3>1. f[n] \in V /\ step[n + 1] \in [V -> V] BY <2>1
    <3>2. step[n + 1][f[n]] \in V BY <3>1
    <3>. QED BY <3>2, <2>1
  <2>3. g[0] = b BY <2>1
  <2>4. ASSUME NEW k \in 1 .. n + 1 PROVE g[k] = step[k][g[k - 1]]
    <3>1. CASE k = n + 1
      <4>1. n \in 0 .. n + 1 /\ n # n + 1 /\ k - 1 = n /\ k \in 0 .. n + 1 BY <3>1
      <4>2. g[n] = f[n] /\ g[k] = step[n + 1][f[n]] BY <4>1, <3>1
      <4>. QED BY <4>1, <4>2, <3>1
    <3>2. CASE k # n + 1
      <4>1. k \in 1 .. n /\ g[k] = f[k] /\ g[k - 1] = f[k - 1] BY <3>2
      <4>. QED BY <4>1, <2>1
    <3>. QED BY <3>1, <3>2
  <2>. HIDE DEF g
  <2>5. Follows(g, n + 1, V, b, step) BY <2>2, <2>3, <2>4
  <2>. QED BY <2>5
<1>. HIDE DEF T
<1>3. Nat \subseteq T BY <1>1, <1>2, NatInd
<1>. QED BY <1>3 DEF T

\* The values of a function that is given by steps from V to V are in V.
LEMMA RecursionType ==
    ASSUME NEW N \in Nat, NEW V, NEW g, g[0] \in V,
           \A k \in 1 .. N : g[k - 1] \in V => g[k] \in V
    PROVE  \A k \in 0 .. N : g[k] \in V
<1>. DEFINE T == {k \in Nat : k <= N => g[k] \in V}
<1>1. 0 \in T OBVIOUS
<1>2. ASSUME NEW n \in Nat, n \in T PROVE n + 1 \in T
  <2>. SUFFICES ASSUME n + 1 <= N PROVE g[n + 1] \in V OBVIOUS
  <2>1. n + 1 \in 1 .. N /\ (n + 1) - 1 = n /\ n <= N OBVIOUS
  <2>2. g[n] \in V BY <2>1, <1>2
  <2>. QED BY <2>1, <2>2
<1>. HIDE DEF T
<1>3. Nat \subseteq T BY <1>1, <1>2, NatInd
<1>. QED BY <1>3 DEF T

\* The recursive definition of Cuts holds of it.
LEMMA CutsExist ==
    ASSUME NEW s, Len(s) \in Nat
    PROVE  /\ G!Cuts(s) \in [0 .. Len(s) + 1 -> 0 .. Len(s) + 1]
           /\ G!Cuts(s)[0] = 0
           /\ \A k \in 1 .. Len(s) + 1 : G!Cuts(s)[k] = G!Min({i \in G!Cuts(s)[k - 1] + 1 .. Len(s) : s[i] = "*"} \cup {Len(s) + 1})
<1>. DEFINE V == 0 .. Len(s) + 1
            Stars(c) == {i \in c + 1 .. Len(s) : s[i] = "*"} \cup {Len(s) + 1}
            step == [k \in Nat |-> [x \in V |-> G!Min(Stars(x))]]
            Body(f) == [k \in 0 .. Len(s) + 1 |-> IF k = 0 THEN 0 ELSE G!Min(Stars(f[k - 1]))]
<1>1. \A c \in V : G!Min(Stars(c)) \in V
  <2>. SUFFICES ASSUME NEW c \in V PROVE G!Min(Stars(c)) \in V OBVIOUS
  <2>1. Stars(c) \subseteq V /\ Stars(c) # {} /\ Stars(c) \subseteq Nat OBVIOUS
  <2>. HIDE DEF Stars
  <2>2. G!Min(Stars(c)) \in Stars(c) BY <2>1, LeastIsMin
  <2>. QED BY <2>1, <2>2
<1>2. step \in [Nat -> [V -> V]] BY <1>1
<1>3. 0 \in V /\ Len(s) + 1 \in Nat OBVIOUS
<1>. HIDE DEF V
<1>4. PICK f : Follows(f, Len(s) + 1, V, 0, step)
  <2>. HIDE DEF step
  <2>. QED BY <1>2, <1>3, Recursion
<1>5. f = Body(f)
  <2>0. f \in [0 .. Len(s) + 1 -> V] BY <1>4 DEF Follows
  <2>1. ASSUME NEW k \in 0 .. Len(s) + 1 PROVE f[k] = IF k = 0 THEN 0 ELSE G!Min(Stars(f[k - 1]))
    <3>1. CASE k = 0 BY <3>1, <1>4 DEF Follows
    <3>2. CASE k # 0
      <4>1. k \in 1 .. Len(s) + 1 /\ k - 1 \in 0 .. Len(s) + 1 /\ k \in Nat BY <3>2
      <4>2. f[k - 1] \in V BY <4>1, <2>0
      <4>3. f[k] = step[k][f[k - 1]]
        <5>. HIDE DEF step
        <5>. QED BY <1>4, <4>1 DEF Follows
      <4>. QED BY <4>1, <4>2, <4>3, <3>2
    <3>. QED BY <3>1, <3>2
  <2>. HIDE DEF Stars
  <2>. QED BY <2>0, <2>1
<1>6. G!Cuts(s) = Body(G!Cuts(s))
  <2>. DEFINE P(g) == g = Body(g)
  <2>1. \E g : P(g) BY <1>5
  <2>2. P(CHOOSE g : P(g)) BY <2>1, Zenon
  <2>3. G!Cuts(s) = CHOOSE g : P(g) BY Zenon DEF G!Cuts
  <2>. QED BY <2>2, <2>3
<1>7. PICK c : c = G!Cuts(s) OBVIOUS
<1>8. c = Body(c) BY <1>6, <1>7
<1>9. c[0] = 0 /\ DOMAIN c = 0 .. Len(s) + 1 /\ \A k \in 1 .. Len(s) + 1 : c[k] = G!Min(Stars(c[k - 1]))
  <2>. HIDE DEF Stars
  <2>. QED BY <1>8
<1>10. \A k \in 0 .. Len(s) + 1 : c[k] \in V
  BY <1>9, <1>1, <1>3, RecursionType
<1>11. c \in [0 .. Len(s) + 1 -> V]
  <2>1. c = [k \in 0 .. Len(s) + 1 |-> c[k]] BY <1>8
  <2>. QED BY <2>1, <1>10
<1>. QED BY <1>7, <1>9, <1>11 DEF V

\* Each cut is the next star, or the end.
LEMMA NextCut ==
    ASSUME NEW s, Len(s) \in Nat, NEW k \in 1 .. Len(s) + 1,
           NEW a, a = G!Cuts(s)[k - 1], NEW z, z = G!Cuts(s)[k]
    PROVE  /\ a \in 0 .. Len(s) + 1 /\ z \in 1 .. Len(s) + 1
           /\ z = Len(s) + 1 \/ (z > a /\ s[z] = "*")
           /\ \A i \in a + 1 .. z - 1 : s[i] # "*"
<1>. DEFINE stars == {i \in a + 1 .. Len(s) : s[i] = "*"} \cup {Len(s) + 1}
<1>1. a \in 0 .. Len(s) + 1 /\ z = G!Min(stars)
  <2>1. k - 1 \in 0 .. Len(s) + 1 OBVIOUS
  <2>. QED BY <2>1, CutsExist
<1>2. stars \subseteq Nat /\ stars # {} BY <1>1
<1>3. z \in stars /\ \A m \in stars : z <= m
  <2>. HIDE DEF stars
  <2>. QED BY <1>1, <1>2, LeastIsMin
<1>4. z \in 1 .. Len(s) + 1 /\ (z = Len(s) + 1 \/ (z > a /\ s[z] = "*")) BY <1>1, <1>3
<1>5. ASSUME NEW i \in a + 1 .. z - 1 PROVE s[i] # "*"
  <2>1. i \in a + 1 .. Len(s) /\ i < z BY <1>1, <1>4
  <2>. QED BY <1>3, <1>4, <2>1
<1>. QED BY <1>1, <1>4, <1>5

\* The parts of a string lie between its stars.
Split(s, c, n, parts) ==
    /\ n \in 1 .. Len(s) + 1
    /\ c \in [0 .. Len(s) + 1 -> 0 .. Len(s) + 1]
    /\ c[0] = 0 /\ c[n] = Len(s) + 1
    /\ \A k \in 1 .. n : c[k - 1] < c[k]
    /\ \A k \in 1 .. n - 1 : c[k] <= Len(s) /\ s[c[k]] = "*"
    /\ \A k \in 1 .. n : \A i \in c[k - 1] + 1 .. c[k] - 1 : s[i] # "*"
    /\ parts = [k \in 1 .. n |-> SubSeq(s, c[k - 1] + 1, c[k] - 1)]

\* The cuts and parts of a string split it.
LEMMA PartsSplit ==
    ASSUME NEW s, Len(s) \in Nat
    PROVE  \E n : Split(s, G!Cuts(s), n, G!Parts(s))
<1>1. PICK c, m : c = G!Cuts(s) /\ m = Len(s) OBVIOUS
<1>2. c \in [0 .. m + 1 -> 0 .. m + 1] /\ c[0] = 0 /\ m \in Nat BY <1>1, CutsExist
<1>3. ASSUME NEW k \in 1 .. m + 1
      PROVE  /\ c[k] = m + 1 \/ (c[k] > c[k - 1] /\ s[c[k]] = "*")
             /\ \A i \in c[k - 1] + 1 .. c[k] - 1 : s[i] # "*"
  BY <1>1, NextCut, SMTT(30)
<1>4. \A k \in 0 .. m + 1 : c[k] >= k
  <2>. DEFINE T == {k \in Nat : k <= m + 1 => c[k] >= k}
  <2>1. 0 \in T BY <1>2
  <2>2. ASSUME NEW k \in Nat, k \in T PROVE k + 1 \in T
    <3>. SUFFICES ASSUME k + 1 <= m + 1 PROVE c[k + 1] >= k + 1 OBVIOUS
    <3>1. k + 1 \in 1 .. m + 1 /\ (k + 1) - 1 = k /\ k \in 0 .. m + 1 BY <1>2
    <3>2. c[k + 1] = m + 1 \/ c[k + 1] > c[k] BY <1>3, <3>1
    <3>3. c[k] \in Int /\ c[k + 1] \in Int /\ c[k] >= k BY <1>2, <2>2, <3>1
    <3>. QED BY <1>2, <3>2, <3>3
  <2>. HIDE DEF T
  <2>3. Nat \subseteq T BY <2>1, <2>2, NatInd
  <2>. QED BY <2>3 DEF T
<1>5. PICK ends : ends = {n \in 1 .. m + 1 : c[n] = m + 1} OBVIOUS
<1>6. m + 1 \in ends
  <2>1. m + 1 \in 0 .. m + 1 BY <1>2
  <2>2. c[m + 1] >= m + 1 /\ c[m + 1] \in 0 .. m + 1 BY <1>2, <1>4, <2>1
  <2>. QED BY <1>2, <1>5, <2>2
<1>7. PICK n : n = G!Min(ends) OBVIOUS
<1>8. n \in ends /\ \A x \in ends : n <= x
  <2>1. ends \subseteq Nat /\ ends # {} BY <1>5, <1>6
  <2>. QED BY <1>7, <2>1, LeastIsMin
<1>9. n \in 1 .. m + 1 /\ c[n] = m + 1 /\ \A k \in 1 .. n - 1 : c[k] # m + 1
  BY <1>2, <1>5, <1>8
<1>10. \A k \in 1 .. n : c[k - 1] < c[k]
  <2>. SUFFICES ASSUME NEW k \in 1 .. n PROVE c[k - 1] < c[k] OBVIOUS
  <2>1. k \in 1 .. m + 1 /\ k \in 0 .. m + 1 /\ k - 1 \in 0 .. m + 1 BY <1>2, <1>9
  <2>2. c[k] = m + 1 \/ c[k] > c[k - 1] BY <1>3, <2>1
  <2>3. c[k - 1] \in 0 .. m + 1 /\ c[k] \in 0 .. m + 1 BY <1>2, <2>1
  <2>4. CASE k = 1 BY <1>2, <2>2, <2>3, <2>4
  <2>5. CASE k # 1
    <3>1. k - 1 \in 1 .. n - 1 BY <1>9, <2>1, <2>5
    <3>2. c[k - 1] # m + 1 BY <3>1, <1>9
    <3>. QED BY <2>2, <2>3, <3>2, <1>2
  <2>. QED BY <2>4, <2>5
<1>11. \A k \in 1 .. n - 1 : c[k] <= m /\ s[c[k]] = "*"
  <2>. SUFFICES ASSUME NEW k \in 1 .. n - 1 PROVE c[k] <= m /\ s[c[k]] = "*" OBVIOUS
  <2>1. k \in 1 .. m + 1 /\ k \in 0 .. m + 1 /\ c[k] # m + 1 BY <1>2, <1>9
  <2>2. c[k] \in 0 .. m + 1 BY <1>2, <2>1
  <2>. QED BY <1>2, <1>3, <2>1, <2>2, SMTT(30)
<1>12. \A k \in 1 .. n : \A i \in c[k - 1] + 1 .. c[k] - 1 : s[i] # "*"
  BY <1>2, <1>3, <1>9
<1>13. G!Parts(s) = [k \in 1 .. n |-> SubSeq(s, c[k - 1] + 1, c[k] - 1)]
  BY <1>1, <1>5, <1>7, Zenon DEF G!Parts
<1>14. Split(s, c, n, G!Parts(s))
  BY <1>1, <1>2, <1>9, <1>10, <1>11, <1>12, <1>13 DEF Split
<1>. QED BY <1>1, <1>14

\* Where a string occurs in another one, from some place on.
Found(w, at, piece) == {i \in at .. Len(w) - Len(piece) : \A t \in 1 .. Len(piece) : w[i + t] = piece[t]}

\* What SubSeq returns.
LEMMA SubSeqOf ==
    ASSUME NEW C, NEW w \in Seq(C), NEW a \in Nat, NEW n \in Nat, a + n <= Len(w)
    PROVE  /\ SubSeq(w, a + 1, a + n) \in Seq(C)
           /\ Len(SubSeq(w, a + 1, a + n)) = n
           /\ SubSeq(w, a + 1, a + n) = [t \in 1 .. n |-> w[a + t]]
<1>1. PICK q, f, l : q = SubSeq(w, a + 1, a + n) /\ f = a + 1 /\ l = a + n OBVIOUS
<1>2. f \in Int /\ l \in Int /\ \A i \in f .. l : w[i] \in C BY <1>1
<1>3. /\ q \in Seq(C) /\ Len(q) = IF a + 1 <= a + n THEN (a + n) - (a + 1) + 1 ELSE 0
      /\ \A i \in 1 .. (a + n) - (a + 1) + 1 : q[i] = w[(a + 1) + i - 1]
  <2>1. /\ SubSeq(w, f, l) \in Seq(C)
        /\ Len(SubSeq(w, f, l)) = IF f <= l THEN l - f + 1 ELSE 0
        /\ \A i \in 1 .. l - f + 1 : SubSeq(w, f, l)[i] = w[f + i - 1]
    BY <1>2, SubSeqProperties
  <2>. QED BY <1>1, <2>1, Zenon
<1>4. Len(q) = n BY <1>3
<1>5. ASSUME NEW t \in 1 .. n PROVE q[t] = w[a + t]
  <2>1. t \in 1 .. (a + n) - (a + 1) + 1 /\ (a + 1) + t - 1 = a + t OBVIOUS
  <2>. QED BY <1>3, <2>1
<1>6. q = [t \in 1 .. n |-> q[t]] BY <1>3, <1>4
<1>7. q = [t \in 1 .. n |-> w[a + t]] BY <1>5, <1>6
<1>. QED BY <1>1, <1>3, <1>4, <1>7

\* A string occurs at a place when its characters are there.
LEMMA SubSeqAt ==
    ASSUME NEW C, NEW w \in Seq(C), NEW piece \in Seq(C), NEW i \in 0 .. Len(w) - Len(piece)
    PROVE  SubSeq(w, i + 1, i + Len(piece)) = piece <=> \A t \in 1 .. Len(piece) : w[i + t] = piece[t]
<1>1. PICK n, m : n = Len(piece) /\ m = Len(w) OBVIOUS
<1>2. n \in Nat /\ m \in Nat /\ i \in 0 .. m - n /\ piece = [t \in 1 .. n |-> piece[t]] BY <1>1
<1>3. SubSeq(w, i + 1, i + n) = [t \in 1 .. n |-> w[i + t]]
  BY <1>1, <1>2, SubSeqOf
<1>. QED BY <1>1, <1>2, <1>3

\* Index returns the first place.
LEMMA IndexFound ==
    ASSUME NEW C, NEW w \in Seq(C), NEW piece \in Seq(C), NEW at \in 0 .. Len(w)
    PROVE  IF Found(w, at, piece) = {} THEN G!Index(w, at, piece) = -1
           ELSE G!Index(w, at, piece) \in Found(w, at, piece) /\ \A i \in Found(w, at, piece) : G!Index(w, at, piece) <= i
<1>1. Found(w, at, piece) = {i \in at .. Len(w) - Len(piece) : SubSeq(w, i + 1, i + Len(piece)) = piece}
  <2>1. ASSUME NEW i \in at .. Len(w) - Len(piece)
        PROVE  SubSeq(w, i + 1, i + Len(piece)) = piece <=> \A t \in 1 .. Len(piece) : w[i + t] = piece[t]
    <3>1. i \in 0 .. Len(w) - Len(piece) OBVIOUS
    <3>. QED BY <3>1, SubSeqAt
  <2>. QED BY <2>1 DEF Found
<1>2. G!Index(w, at, piece) = IF Found(w, at, piece) = {} THEN -1 ELSE G!Min(Found(w, at, piece))
  BY <1>1 DEF G!Index
<1>3. Found(w, at, piece) \subseteq Nat BY DEF Found
<1>. QED BY <1>2, <1>3, LeastIsMin

\* What the loop over the parts is known to do.
GoneOf(g, w, n, parts) ==
    /\ g \in [0 .. n -> -1 .. Len(w)]
    /\ g[0] = 0
    /\ \A k \in 1 .. n : g[k] = G!Round(w, g[k - 1], parts[k])

\* The recursive definition of Gone holds of it.
LEMMA GoneStep ==
    ASSUME NEW C, NEW w \in Seq(C), NEW n \in Nat, NEW parts \in [1 .. n -> Seq(C)], Len(parts) = n
    PROVE  GoneOf(G!Gone(w, parts), w, n, parts)
<1>. DEFINE V == -1 .. Len(w)
            After(k, at) == G!Round(w, at, parts[k])
            step == [k \in Nat |-> [at \in V |-> IF k \in 1 .. n THEN After(k, at) ELSE 0]]
            Body(f) == [k \in 0 .. Len(parts) |-> IF k = 0 THEN 0 ELSE After(k, f[k - 1])]
<1>1. ASSUME NEW k \in 1 .. n, NEW at \in V PROVE After(k, at) \in V
  <2>1. parts[k] \in Seq(C) OBVIOUS
  <2>2. CASE at = -1 BY <2>2 DEF G!Round
  <2>3. CASE at # -1
    <3>1. PICK i : i = G!Index(w, at, parts[k]) OBVIOUS
    <3>2. i = -1 \/ i \in Found(w, at, parts[k])
      <4>1. at \in 0 .. Len(w) BY <2>3
      <4>. QED BY <2>1, <3>1, <4>1, IndexFound
    <3>3. i = -1 \/ (i \in Nat /\ i + Len(parts[k]) \in 0 .. Len(w)) BY <2>1, <2>3, <3>2 DEF Found
    <3>. QED BY <2>3, <3>1, <3>3 DEF G!Round
  <2>. QED BY <2>2, <2>3
<1>3. 0 \in V OBVIOUS
<1>. HIDE DEF V, After
<1>2. step \in [Nat -> [V -> V]] BY <1>1, <1>3
<1>4. PICK f : Follows(f, n, V, 0, step)
  <2>. HIDE DEF step
  <2>. QED BY <1>2, <1>3, Recursion
<1>5. f = Body(f)
  <2>0. f \in [0 .. n -> V] BY <1>4 DEF Follows
  <2>1. ASSUME NEW k \in 0 .. n PROVE f[k] = IF k = 0 THEN 0 ELSE After(k, f[k - 1])
    <3>1. CASE k = 0 BY <3>1, <1>4 DEF Follows
    <3>2. CASE k # 0
      <4>1. k \in 1 .. n /\ k - 1 \in 0 .. n /\ k \in Nat BY <3>2
      <4>2. f[k - 1] \in V BY <4>1, <2>0
      <4>3. f[k] = step[k][f[k - 1]]
        <5>. HIDE DEF step
        <5>. QED BY <1>4, <4>1 DEF Follows
      <4>. QED BY <4>1, <4>2, <4>3, <3>2
    <3>. QED BY <3>1, <3>2
  <2>. QED BY <2>0, <2>1, Len(parts) = n
<1>6. G!Gone(w, parts) = Body(G!Gone(w, parts))
  <2>. DEFINE P(g) == g = Body(g)
  <2>1. \E g : P(g) BY <1>5
  <2>2. P(CHOOSE g : P(g)) BY <2>1, Zenon
  <2>3. G!Gone(w, parts) = CHOOSE g : P(g) BY Zenon DEF G!Gone, After
  <2>. QED BY <2>2, <2>3
<1>7. PICK c : c = G!Gone(w, parts) OBVIOUS
<1>8. c = Body(c) BY <1>6, <1>7
<1>9. c[0] = 0 /\ DOMAIN c = 0 .. n /\ \A k \in 1 .. n : c[k] = After(k, c[k - 1]) BY <1>8, Len(parts) = n
<1>10. \A k \in 0 .. n : c[k] \in V
  <2>1. c[0] \in V BY <1>9, <1>3
  <2>2. \A k \in 1 .. n : c[k - 1] \in V => c[k] \in V BY <1>9, <1>1
  <2>. QED BY <2>1, <2>2, RecursionType
<1>11. c \in [0 .. n -> V]
  <2>1. c = [k \in 0 .. n |-> c[k]] BY <1>8, Len(parts) = n
  <2>. QED BY <2>1, <1>10
<1>. QED BY <1>7, <1>9, <1>11 DEF V, After, GoneOf

\* Lower case, character by character.
LEMMA LowerSeq ==
    ASSUME NEW C, NEW p \in Seq(C)
    PROVE  /\ G!ToLower(p) \in Seq(C \cup {"a"})
           /\ Len(G!ToLower(p)) = Len(p)
           /\ \A i \in 1 .. Len(p) : G!ToLower(p)[i] = IF p[i] = "A" THEN "a" ELSE p[i]
  BY DEF G!ToLower

\* The comparison of two characters in lower case.
LEMMA LowerOne ==
    ASSUME NEW x, NEW y
    PROVE  G!ToLower(<<x>>) = G!ToLower(<<y>>) <=> (IF x = "A" THEN "a" ELSE x) = (IF y = "A" THEN "a" ELSE y)
<1>1. \A z : G!ToLower(<<z>>) = [i \in 1 .. 1 |-> IF z = "A" THEN "a" ELSE z]
  BY DEF G!ToLower
<1>2. PICK a, b : a = (IF x = "A" THEN "a" ELSE x) /\ b = (IF y = "A" THEN "a" ELSE y) OBVIOUS
<1>3. G!ToLower(<<x>>) = [i \in 1 .. 1 |-> a] /\ G!ToLower(<<y>>) = [i \in 1 .. 1 |-> b] BY <1>1, <1>2
<1>4. 1 \in 1 .. 1 OBVIOUS
<1>5. [i \in 1 .. 1 |-> a] = [i \in 1 .. 1 |-> b] <=> a = b BY <1>4
<1>. QED BY <1>2, <1>3, <1>5

\* What the ends of a pattern are, in terms of the lower-case pattern and value.
EndsOf(e, s, w) ==
    /\ e \in [0 .. Len(s) -> SUBSET (0 .. Len(w))]
    /\ e[0] = {0}
    /\ \A i \in 1 .. Len(s) : e[i] = IF s[i] = "*" THEN {j \in 0 .. Len(w) : \E k \in e[i - 1] : k <= j}
                                     ELSE {j \in 1 .. Len(w) : j - 1 \in e[i - 1] /\ s[i] = w[j]}

\* The recursive definition of Ends holds of it.
LEMMA EndsStep ==
    ASSUME NEW C, NEW p \in Seq(C), NEW v \in Seq(C)
    PROVE  EndsOf(G!Ends(p, v), G!ToLower(p), G!ToLower(v))
<1>. DEFINE V == SUBSET (0 .. Len(v))
            Next1(i, x) == IF p[i] = "*" THEN {j \in 0 .. Len(v) : \E k \in x : k <= j}
                           ELSE {j \in 1 .. Len(v) : j - 1 \in x /\ G!ToLower(<<p[i]>>) = G!ToLower(<<v[j]>>)}
            step == [i \in Nat |-> [x \in V |-> Next1(i, x)]]
            Body(f) == [i \in 0 .. Len(p) |-> IF i = 0 THEN {0} ELSE Next1(i, f[i - 1])]
<1>1. \A i \in Nat : \A x : Next1(i, x) \in V OBVIOUS
<1>3. {0} \in V OBVIOUS
<1>. HIDE DEF V, Next1
<1>2. step \in [Nat -> [V -> V]] BY <1>1
<1>4. PICK f : Follows(f, Len(p), V, {0}, step)
  <2>1. Len(p) \in Nat OBVIOUS
  <2>. HIDE DEF step
  <2>. QED BY <1>2, <1>3, <2>1, Recursion
<1>5. f = Body(f)
  <2>0. f \in [0 .. Len(p) -> V] BY <1>4 DEF Follows
  <2>1. ASSUME NEW k \in 0 .. Len(p) PROVE f[k] = IF k = 0 THEN {0} ELSE Next1(k, f[k - 1])
    <3>1. CASE k = 0 BY <3>1, <1>4 DEF Follows
    <3>2. CASE k # 0
      <4>1. k \in 1 .. Len(p) /\ k - 1 \in 0 .. Len(p) /\ k \in Nat BY <3>2
      <4>2. f[k - 1] \in V BY <4>1, <2>0
      <4>3. f[k] = step[k][f[k - 1]]
        <5>. HIDE DEF step
        <5>. QED BY <1>4, <4>1 DEF Follows
      <4>. QED BY <4>1, <4>2, <4>3, <3>2
    <3>. QED BY <3>1, <3>2
  <2>. QED BY <2>0, <2>1
<1>6. G!Ends(p, v) = Body(G!Ends(p, v))
  <2>. DEFINE P(g) == g = Body(g)
  <2>1. \E g : P(g) BY <1>5
  <2>2. P(CHOOSE g : P(g)) BY <2>1, Zenon
  <2>3. G!Ends(p, v) = CHOOSE g : P(g) BY Zenon DEF G!Ends, Next1
  <2>. QED BY <2>2, <2>3
<1>7. PICK e : e = G!Ends(p, v) OBVIOUS
<1>8. e = Body(e) BY <1>6, <1>7
<1>9. e[0] = {0} /\ \A i \in 1 .. Len(p) : e[i] = Next1(i, e[i - 1])
  <2>1. Len(p) \in Nat OBVIOUS
  <2>2. 0 \in 0 .. Len(p) BY <2>1
  <2>3. e[0] = {0} BY <1>8, <2>2
  <2>4. ASSUME NEW i \in 1 .. Len(p) PROVE e[i] = Next1(i, e[i - 1])
    <3>1. i \in 0 .. Len(p) /\ i # 0 BY <2>1
    <3>. QED BY <1>8, <3>1
  <2>. QED BY <2>3, <2>4
<1>10. e \in [0 .. Len(p) -> V]
  <2>1. \A i \in 0 .. Len(p) : e[i] \in V
    <3>. SUFFICES ASSUME NEW i \in 0 .. Len(p) PROVE e[i] \in V OBVIOUS
    <3>1. i = 0 \/ (i \in 1 .. Len(p) /\ i \in Nat) OBVIOUS
    <3>. QED BY <3>1, <1>1, <1>3, <1>9
  <2>2. e = [k \in 0 .. Len(p) |-> e[k]] BY <1>8
  <2>. QED BY <2>1, <2>2
<1>11. PICK s, w : s = G!ToLower(p) /\ w = G!ToLower(v) OBVIOUS
<1>12. /\ Len(s) = Len(p) /\ \A i \in 1 .. Len(p) : s[i] = IF p[i] = "A" THEN "a" ELSE p[i]
       /\ Len(w) = Len(v) /\ \A i \in 1 .. Len(v) : w[i] = IF v[i] = "A" THEN "a" ELSE v[i]
  BY <1>11, LowerSeq
<1>13. ASSUME NEW i \in 1 .. Len(p)
       PROVE  e[i] = IF s[i] = "*" THEN {j \in 0 .. Len(w) : \E k \in e[i - 1] : k <= j}
                     ELSE {j \in 1 .. Len(w) : j - 1 \in e[i - 1] /\ s[i] = w[j]}
  <2>1. s[i] = "*" <=> p[i] = "*" BY <1>12
  <2>2. \A j \in 1 .. Len(v) : G!ToLower(<<p[i]>>) = G!ToLower(<<v[j]>>) <=> s[i] = w[j]
    BY <1>12, LowerOne
  <2>. QED BY <1>9, <1>12, <2>1, <2>2 DEF Next1
<1>14. EndsOf(e, s, w) BY <1>9, <1>10, <1>12, <1>13 DEF EndsOf, V
<1>. QED BY <1>7, <1>11, <1>14

\* The ends at a, moved on over n equal characters.
Moved(e, s, w, a, n) == {j \in 0 .. Len(w) : j - n \in e[a] /\ \A t \in 1 .. n : s[a + t] = w[j - n + t]}

\* There is no star after a up to z.
NoStar(s, a, z) == \A i \in a + 1 .. z : s[i] # "*"

\* Between two stars the ends move on over equal characters.
LEMMA EndsOfPart ==
    ASSUME NEW e, NEW s, NEW w, Len(s) \in Nat, Len(w) \in Nat, EndsOf(e, s, w),
           NEW a \in 0 .. Len(s), NEW z \in a .. Len(s), NoStar(s, a, z)
    PROVE  e[z] = Moved(e, s, w, a, z - a)
<1>. DEFINE T == {n \in Nat : a + n <= z => e[a + n] = Moved(e, s, w, a, n)}
<1>1. PICK m, l : m = Len(s) /\ l = Len(w) OBVIOUS
<1>2. e \in [0 .. m -> SUBSET (0 .. l)] /\ m \in Nat /\ l \in Nat /\ a \in 0 .. m /\ z \in a .. m BY <1>1 DEF EndsOf
<1>3. 0 \in T
  <2>1. e[a] = Moved(e, s, w, a, 0)
    <3>1. e[a] \subseteq 0 .. l BY <1>2
    <3>. QED BY <1>1, <1>2, <3>1 DEF Moved
  <2>. QED BY <2>1, <1>2
<1>4. ASSUME NEW n \in Nat, n \in T PROVE n + 1 \in T
  <2>. SUFFICES ASSUME a + (n + 1) <= z PROVE e[a + (n + 1)] = Moved(e, s, w, a, n + 1) OBVIOUS
  <2>1. /\ a + (n + 1) \in a + 1 .. z /\ a + (n + 1) \in 1 .. m /\ (a + (n + 1)) - 1 = a + n
        /\ a + n <= z /\ a + n \in 0 .. m BY <1>2
  <2>2. e[a + n] = Moved(e, s, w, a, n) BY <1>4, <2>1
  <2>3. e[a + (n + 1)] = {j \in 1 .. l : j - 1 \in e[a + n] /\ s[a + (n + 1)] = w[j]}
    BY <1>1, <2>1 DEF EndsOf, NoStar
  <2>4. ASSUME NEW j PROVE j \in e[a + (n + 1)] <=> j \in Moved(e, s, w, a, n + 1)
    <3>1. CASE j \in e[a + (n + 1)]
      <4>1. j \in 1 .. l /\ j - 1 \in Moved(e, s, w, a, n) /\ s[a + (n + 1)] = w[j] BY <2>2, <2>3, <3>1 DEF Moved
      <4>2. (j - 1) - n = j - (n + 1) /\ j - (n + 1) \in e[a] BY <4>1, <1>2 DEF Moved
      <4>3. ASSUME NEW t \in 1 .. n + 1 PROVE s[a + t] = w[j - (n + 1) + t]
        <5>1. CASE t = n + 1
          <6>1. j - (n + 1) + t = j BY <4>1, <5>1, <1>2
          <6>. QED BY <4>1, <5>1, <6>1
        <5>2. CASE t # n + 1
          <6>1. t \in 1 .. n /\ (j - 1) - n + t = j - (n + 1) + t BY <4>1, <5>2, <1>2
          <6>. QED BY <4>1, <6>1 DEF Moved
        <5>. QED BY <5>1, <5>2
      <4>4. j \in 0 .. l BY <4>1
      <4>5. j \in Moved(e, s, w, a, n + 1) BY <1>1, <4>2, <4>3, <4>4 DEF Moved
      <4>. QED BY <3>1, <4>5
    <3>2. CASE j \in Moved(e, s, w, a, n + 1)
      <4>1. j \in 0 .. l /\ j - (n + 1) \in e[a] /\ \A t \in 1 .. n + 1 : s[a + t] = w[j - (n + 1) + t] BY <1>1, <3>2 DEF Moved
      <4>2. j \in 1 .. l /\ j - 1 \in 0 .. l /\ (j - 1) - n = j - (n + 1)
        <5>1. j - (n + 1) \in 0 .. l BY <1>2, <4>1
        <5>. QED BY <1>2, <4>1, <5>1
      <4>3. s[a + (n + 1)] = w[j]
        <5>1. j - (n + 1) + (n + 1) = j /\ n + 1 \in 1 .. n + 1 BY <4>2
        <5>. QED BY <4>1, <5>1
      <4>4. ASSUME NEW t \in 1 .. n PROVE s[a + t] = w[(j - 1) - n + t]
        <5>1. t \in 1 .. n + 1 OBVIOUS
        <5>. QED BY <4>1, <4>2, <5>1
      <4>5. j - 1 \in Moved(e, s, w, a, n) BY <1>1, <4>1, <4>2, <4>4 DEF Moved
      <4>6. j - 1 \in e[a + n] BY <2>2, <4>5
      <4>7. j \in e[a + (n + 1)] BY <2>3, <4>2, <4>3, <4>6
      <4>. QED BY <3>2, <4>7
    <3>. QED BY <3>1, <3>2
  <2>5. e[a + (n + 1)] \subseteq 0 .. l /\ Moved(e, s, w, a, n + 1) \subseteq 0 .. l BY <1>1, <1>2, <2>1 DEF Moved
  <2>. QED BY <2>4, <2>5
<1>. HIDE DEF T
<1>5. Nat \subseteq T BY <1>3, <1>4, NatInd
<1>6. z - a \in T /\ a + (z - a) = z BY <1>2, <1>5
<1>. QED BY <1>2, <1>6 DEF T

\* The parts are strings, and their characters are those between the cuts.
LEMMA PartsOf ==
    ASSUME NEW C, NEW s \in Seq(C), NEW c, NEW n, NEW parts, Split(s, c, n, parts)
    PROVE  /\ parts \in [1 .. n -> Seq(C)] /\ Len(parts) = n /\ n \in Nat
           /\ \A k \in 1 .. n : /\ c[k - 1] \in 0 .. Len(s) /\ c[k] - 1 \in c[k - 1] .. Len(s)
                                 /\ Len(parts[k]) = (c[k] - 1) - c[k - 1]
                                 /\ \A t \in 1 .. Len(parts[k]) : parts[k][t] = s[c[k - 1] + t]
<1>1. PICK m : m = Len(s) OBVIOUS
<1>2. m \in Nat /\ n \in 1 .. m + 1 /\ c \in [0 .. m + 1 -> 0 .. m + 1] BY <1>1 DEF Split
<1>3. parts = [k \in 1 .. n |-> SubSeq(s, c[k - 1] + 1, c[k] - 1)] BY DEF Split
<1>4. ASSUME NEW k \in 1 .. n
      PROVE  /\ parts[k] \in Seq(C)
             /\ c[k - 1] \in 0 .. Len(s) /\ c[k] - 1 \in c[k - 1] .. Len(s)
             /\ Len(parts[k]) = (c[k] - 1) - c[k - 1]
             /\ \A t \in 1 .. Len(parts[k]) : parts[k][t] = s[c[k - 1] + t]
  <2>1. k \in 0 .. m + 1 /\ k - 1 \in 0 .. m + 1 BY <1>2
  <2>2. PICK a, y, z : a = c[k - 1] /\ y = c[k] /\ z = y - 1 OBVIOUS
  <2>3. a \in 0 .. m + 1 /\ y \in 0 .. m + 1 /\ a < y BY <1>2, <2>1, <2>2 DEF Split
  <2>4. a \in 0 .. m /\ z \in a .. m /\ a \in Nat /\ z - a \in Nat /\ a + (z - a) = z
    <3>1. m \in Nat /\ z = y - 1 BY <1>2, <2>2
    <3>2. a \in 0 .. m /\ z \in a .. m BY <3>1, <2>3
    <3>. QED BY <3>1, <3>2
  <2>5. parts[k] = SubSeq(s, a + 1, a + (z - a)) BY <1>3, <2>2, <2>4
  <2>6. a + (z - a) <= Len(s) BY <1>1, <2>4
  <2>7. parts[k] \in Seq(C) /\ Len(parts[k]) = z - a /\ parts[k] = [t \in 1 .. z - a |-> s[a + t]]
    BY <2>4, <2>5, <2>6, SubSeqOf
  <2>. QED BY <1>1, <2>2, <2>4, <2>7
<1>5. parts \in [1 .. n -> Seq(C)] BY <1>3, <1>4
<1>6. Len(parts) = n BY <1>2, <1>5
<1>7. n \in Nat BY <1>2
<1>. QED BY <1>4, <1>5, <1>6, <1>7, Zenon

\* The ends before the star after a part, or at the end of the pattern.
LEMMA EndsAfterPart ==
    ASSUME NEW C, NEW s \in Seq(C), NEW w \in Seq(C), NEW e, EndsOf(e, s, w),
           NEW c, NEW n, NEW parts, Split(s, c, n, parts), NEW k \in 1 .. n
    PROVE  \A j \in 0 .. Len(w) :
              j \in e[c[k] - 1] <=> j - Len(parts[k]) \in e[c[k - 1]] \cap Found(w, 0, parts[k])
<1>1. PICK a, z, len, l, piece : a = c[k - 1] /\ z = c[k] - 1 /\ len = Len(piece) /\ l = Len(w) /\ piece = parts[k] OBVIOUS
<1>2. a \in 0 .. Len(s) /\ z \in a .. Len(s) /\ len = z - a /\ \A t \in 1 .. len : piece[t] = s[a + t] BY <1>1, PartsOf
<1>3. NoStar(s, a, z) BY <1>1 DEF Split, NoStar
<1>4. Len(s) \in Nat /\ l \in Nat /\ len \in Nat /\ e[a] \subseteq 0 .. l BY <1>1, <1>2 DEF EndsOf
<1>5. e[z] = {j \in 0 .. l : j - len \in e[a] /\ \A t \in 1 .. len : s[a + t] = w[j - len + t]}
  <2>1. e[z] = Moved(e, s, w, a, z - a)
    <3>1. Len(s) \in Nat /\ Len(w) \in Nat OBVIOUS
    <3>. QED BY <1>2, <1>3, <3>1, EndsOfPart
  <2>2. z - a = len /\ l = Len(w) BY <1>1, <1>2
  <2>. QED BY <2>1, <2>2, Zenon DEF Moved
<1>6. ASSUME NEW j \in 0 .. l PROVE j \in e[z] <=> j - len \in e[a] \cap Found(w, 0, piece)
  <2>1. ASSUME j - len \in e[a]
        PROVE  j - len \in Found(w, 0, piece) <=> \A t \in 1 .. len : s[a + t] = w[j - len + t]
    <3>1. j - len \in 0 .. l - len BY <1>4, <2>1
    <3>. QED BY <1>1, <1>2, <3>1 DEF Found
  <2>. QED BY <1>5, <2>1
<1>. QED BY <1>1, <1>6

\* The ends after the star.
LEMMA EndsAfterStar ==
    ASSUME NEW C, NEW s \in Seq(C), NEW w \in Seq(C), NEW e, EndsOf(e, s, w),
           NEW c, NEW n, NEW parts, Split(s, c, n, parts), NEW k \in 1 .. n - 1
    PROVE  e[c[k]] = {j \in 0 .. Len(w) : \E i \in e[c[k - 1]] \cap Found(w, 0, parts[k]) : i + Len(parts[k]) <= j}
<1>1. PICK a, z, len, l, piece, m : a = c[k - 1] /\ z = c[k] /\ len = Len(piece) /\ l = Len(w) /\ piece = parts[k] /\ m = Len(s) OBVIOUS
<1>2. k \in 1 .. n /\ m \in Nat /\ l \in Nat /\ len \in Nat
  <2>1. n \in Nat /\ parts \in [1 .. n -> Seq(C)] BY PartsOf
  <2>. QED BY <1>1, <2>1
<1>3. z \in 1 .. m /\ s[z] = "*"
  <2>1. c[k] - 1 \in c[k - 1] .. Len(s) /\ c[k - 1] \in 0 .. Len(s) BY <1>2, PartsOf
  <2>2. c[k] <= Len(s) /\ s[c[k]] = "*" /\ c \in [0 .. Len(s) + 1 -> 0 .. Len(s) + 1] BY DEF Split
  <2>3. k \in 0 .. Len(s) + 1 BY DEF Split
  <2>. QED BY <1>1, <1>2, <2>1, <2>2, <2>3
<1>4. e[z] = {j \in 0 .. l : \E x \in e[z - 1] : x <= j} BY <1>1, <1>3 DEF EndsOf
<1>5. \A j \in 0 .. l : j \in e[z - 1] <=> j - len \in e[a] \cap Found(w, 0, piece) BY <1>1, <1>2, EndsAfterPart
<1>6. e[z - 1] \subseteq 0 .. l /\ Found(w, 0, piece) \subseteq 0 .. l - len BY <1>1, <1>3 DEF EndsOf, Found
<1>7. ASSUME NEW j \in 0 .. l
      PROVE  (\E x \in e[z - 1] : x <= j) <=> \E i \in e[a] \cap Found(w, 0, piece) : i + len <= j
  <2>1. ASSUME NEW x \in e[z - 1], x <= j PROVE \E i \in e[a] \cap Found(w, 0, piece) : i + len <= j
    <3>1. x \in 0 .. l /\ x - len \in e[a] \cap Found(w, 0, piece) /\ (x - len) + len = x BY <1>2, <1>5, <1>6, <2>1
    <3>. QED BY <2>1, <3>1
  <2>2. ASSUME NEW i \in e[a] \cap Found(w, 0, piece), i + len <= j PROVE \E x \in e[z - 1] : x <= j
    <3>1. i + len \in 0 .. l /\ (i + len) - len = i BY <1>2, <1>6
    <3>2. i + len \in e[z - 1] BY <1>5, <3>1
    <3>. QED BY <2>2, <3>2
  <2>. QED BY <2>1, <2>2
<1>. QED BY <1>1, <1>4, <1>7

\* One round of the loop keeps up with the ends: it finds the first of them.
LEMMA RoundIsFirst ==
    ASSUME NEW C, NEW w \in Seq(C), NEW piece \in Seq(C), NEW at \in -1 .. Len(w), NEW X, NEW Y,
           X = (IF at = -1 THEN {} ELSE at .. Len(w)),
           Y = {j \in 0 .. Len(w) : \E i \in X \cap Found(w, 0, piece) : i + Len(piece) <= j}
    PROVE  /\ G!Round(w, at, piece) \in -1 .. Len(w)
           /\ Y = IF G!Round(w, at, piece) = -1 THEN {} ELSE G!Round(w, at, piece) .. Len(w)
<1>1. PICK len, l : len = Len(piece) /\ l = Len(w) OBVIOUS
<1>2. len \in Nat /\ l \in Nat BY <1>1
<1>3. CASE at = -1 BY <1>2, <1>3 DEF G!Round
<1>4. CASE at # -1
  <2>1. at \in 0 .. Len(w) BY <1>4
  <2>2. PICK i, r, F : i = G!Index(w, at, piece) /\ r = G!Round(w, at, piece) /\ F = Found(w, at, piece) OBVIOUS
  <2>3. X \cap Found(w, 0, piece) = F BY <1>1, <1>2, <1>4, <2>1, <2>2 DEF Found
  <2>4. IF F = {} THEN i = -1 ELSE i \in F /\ \A x \in F : i <= x BY <2>1, <2>2, IndexFound
  <2>5. r = IF i = -1 THEN -1 ELSE i + len BY <1>1, <1>4, <2>2 DEF G!Round
  <2>6. F \subseteq 0 .. l - len BY <1>1, <2>1, <2>2 DEF Found
  <2>7. CASE F = {} BY <1>1, <1>2, <2>2, <2>3, <2>4, <2>5, <2>7
  <2>8. CASE F # {}
    <3>0. i \in F /\ i \in 0 .. l - len BY <2>4, <2>6, <2>8
    <3>1. i \in 0 .. l - len /\ i \in F /\ r = i + len /\ r \in 0 .. l BY <1>2, <2>5, <3>0
    <3>2. ASSUME NEW j \in 0 .. l PROVE (\E x \in F : x + len <= j) <=> r <= j
      <4>1. ASSUME NEW x \in F, x + len <= j PROVE r <= j
        <5>1. x \in 0 .. l - len /\ i <= x BY <2>4, <2>6, <2>8
        <5>. QED BY <1>2, <3>1, <4>1, <5>1
      <4>. QED BY <3>1, <4>1
    <3>3. Y = {j \in 0 .. l : r <= j} BY <1>1, <2>3, <3>2
    <3>. QED BY <1>1, <1>2, <2>2, <3>1, <3>3
  <2>. QED BY <2>7, <2>8
<1>. QED BY <1>3, <1>4

\* Before the last part, the ends are the places from the one on that the loop has reached.
LEMMA LoopFollowsEnds ==
    ASSUME NEW C, NEW s \in Seq(C), NEW w \in Seq(C), NEW e, EndsOf(e, s, w),
           NEW c, NEW n, NEW parts, Split(s, c, n, parts), NEW gone, gone = G!Gone(w, parts)
    PROVE  \A k \in 1 .. n - 1 : e[c[k]] = IF 0 \in Found(w, 0, parts[1]) /\ gone[k] # -1 THEN gone[k] .. Len(w) ELSE {}
<1>1. parts \in [1 .. n -> Seq(C)] /\ Len(parts) = n /\ n \in Nat /\ n >= 1
  <2>1. n >= 1 BY DEF Split
  <2>. QED BY <2>1, PartsOf
<1>2. gone \in [0 .. n -> -1 .. Len(w)] /\ gone[0] = 0 /\ \A k \in 1 .. n : gone[k] = G!Round(w, gone[k - 1], parts[k])
  <2>1. Len(parts) = n /\ parts \in [1 .. n -> Seq(C)] /\ n \in Nat BY <1>1
  <2>2. GoneOf(gone, w, n, parts) BY <2>1, GoneStep
  <2>. QED BY <2>2 DEF GoneOf
<1>. DEFINE At(k) == IF 0 \in Found(w, 0, parts[1]) THEN gone[k] ELSE -1
            Reached(k) == e[c[k]] = IF At(k) = -1 THEN {} ELSE At(k) .. Len(w)
            T == {k \in Nat : k + 1 <= n - 1 => Reached(k + 1)}
<1>3. ASSUME 1 <= n - 1 PROVE Reached(1)
  <2>1. PICK l, len : l = Len(w) /\ len = Len(parts[1]) OBVIOUS
  <2>2. l \in Nat /\ len \in Nat /\ parts[1] \in Seq(C) BY <1>1, <2>1
  <2>3. e[c[0]] = {0} BY DEF Split, EndsOf
  <2>4. 1 \in 1 .. n - 1 /\ 1 - 1 = 0 BY <1>1, <1>3
  <2>5. e[c[1]] = {j \in 0 .. l : \E i \in e[c[1 - 1]] \cap Found(w, 0, parts[1]) : i + len <= j}
    BY <2>1, <2>4, EndsAfterStar
  <2>6. CASE 0 \in Found(w, 0, parts[1])
    <3>1. G!Round(w, 0, parts[1]) = len
      <4>1. 0 \in 0 .. Len(w) BY <2>1, <2>2
      <4>2. G!Index(w, 0, parts[1]) \in Found(w, 0, parts[1]) /\ G!Index(w, 0, parts[1]) <= 0
        BY <2>2, <2>6, <4>1, IndexFound
      <4>3. G!Index(w, 0, parts[1]) = 0 BY <4>2 DEF Found
      <4>. QED BY <2>1, <2>2, <4>3 DEF G!Round
    <3>2. gone[1] = len
      <4>1. 1 \in 1 .. n BY <1>1
      <4>. QED BY <1>2, <2>4, <3>1, <4>1
    <3>3. len \in 0 .. l BY <2>1, <2>2, <2>6 DEF Found
    <3>4. e[c[1]] = {j \in 0 .. l : len <= j} BY <2>2, <2>3, <2>4, <2>5, <2>6
    <3>5. e[c[1]] = len .. l BY <2>2, <3>3, <3>4
    <3>. QED BY <2>1, <2>2, <2>6, <3>2, <3>5
  <2>7. CASE 0 \notin Found(w, 0, parts[1])
    <3>1. e[c[1]] = {} BY <2>3, <2>4, <2>5, <2>7
    <3>. QED BY <2>7, <3>1
  <2>. QED BY <2>6, <2>7
<1>. HIDE DEF Reached
<1>4. 0 \in T BY <1>1, <1>3
<1>5. ASSUME NEW k \in Nat, k \in T PROVE k + 1 \in T
  <2>. SUFFICES ASSUME (k + 1) + 1 <= n - 1 PROVE Reached((k + 1) + 1) OBVIOUS
  <2>1. PICK m, q, at : m = (k + 1) + 1 /\ q = parts[m] /\ at = At(m - 1) OBVIOUS
  <2>2. m \in 1 .. n - 1 /\ m - 1 = k + 1 /\ m \in 1 .. n /\ m - 1 \in 0 .. n BY <1>1, <2>1
  <2>3. Reached(m - 1)
    <3>1. k + 1 <= n - 1 BY <1>1
    <3>. QED BY <1>5, <2>2, <3>1
  <2>4. q \in Seq(C) /\ at \in -1 .. Len(w)
    <3>1. gone[m - 1] \in -1 .. Len(w) /\ -1 \in -1 .. Len(w) BY <1>2, <2>2
    <3>. QED BY <1>1, <2>1, <2>2, <3>1
  <2>5. e[c[m - 1]] = IF at = -1 THEN {} ELSE at .. Len(w) BY <2>1, <2>3 DEF Reached
  <2>6. e[c[m]] = {j \in 0 .. Len(w) : \E i \in e[c[m - 1]] \cap Found(w, 0, q) : i + Len(q) <= j}
    BY <2>1, <2>2, EndsAfterStar
  <2>7. e[c[m]] = IF G!Round(w, at, q) = -1 THEN {} ELSE G!Round(w, at, q) .. Len(w)
    BY <2>4, <2>5, <2>6, RoundIsFirst
  <2>8. G!Round(w, at, q) = At(m)
    <3>1. CASE 0 \in Found(w, 0, parts[1]) BY <1>2, <2>1, <2>2, <3>1
    <3>2. CASE 0 \notin Found(w, 0, parts[1]) BY <2>1, <3>2 DEF G!Round
    <3>. QED BY <3>1, <3>2
  <2>. QED BY <2>1, <2>7, <2>8 DEF Reached
<1>. HIDE DEF T, At
<1>6. Nat \subseteq T BY <1>4, <1>5, NatInd
<1>7. ASSUME NEW k \in 1 .. n - 1 PROVE Reached(k)
  <2>1. k - 1 \in Nat /\ (k - 1) + 1 = k /\ k <= n - 1 BY <1>1
  <2>. QED BY <1>6, <2>1 DEF T
<1>. QED BY <1>7 DEF Reached, At

\* A suffix is found at the end.
LEMMA SuffixFound ==
    ASSUME NEW C, NEW w \in Seq(C), NEW q \in Seq(C)
    PROVE  G!IsSuffix(q, w) <=> Len(w) - Len(q) \in Found(w, 0, q)
<1>1. PICK l, n : l = Len(w) /\ n = Len(q) OBVIOUS
<1>2. l \in Nat /\ n \in Nat BY <1>1
<1>3. PICK x, y : x = G!Reverse(q) /\ y = G!Reverse(w) OBVIOUS
<1>4. /\ x \in Seq(C) /\ Len(x) = n /\ \A i \in 1 .. n : x[i] = q[(n - i) + 1]
      /\ y \in Seq(C) /\ Len(y) = l /\ \A i \in 1 .. l : y[i] = w[(l - i) + 1]
  BY <1>1, <1>2, <1>3 DEF G!Reverse
<1>5. G!IsSuffix(q, w) <=> n <= l /\ SubSeq(x, 1, n) = SubSeq(y, 1, n)
  BY <1>3, <1>4 DEF G!IsSuffix, G!IsPrefix
<1>6. CASE ~(n <= l)
  <2>1. l - n \notin Found(w, 0, q) BY <1>1, <1>2, <1>6 DEF Found
  <2>. QED BY <1>1, <1>5, <1>6, <2>1
<1>7. CASE n <= l
  <2>1. SubSeq(x, 0 + 1, 0 + n) = [t \in 1 .. n |-> x[0 + t]] BY <1>2, <1>4, SubSeqOf
  <2>2. SubSeq(y, 0 + 1, 0 + n) = [t \in 1 .. n |-> y[0 + t]] BY <1>2, <1>4, <1>7, SubSeqOf
  <2>3. SubSeq(x, 1, n) = SubSeq(y, 1, n) <=> \A i \in 1 .. n : q[(n - i) + 1] = w[(l - i) + 1]
    <3>1. SubSeq(x, 1, n) = [t \in 1 .. n |-> x[t]] BY <1>2, <2>1
    <3>2. SubSeq(y, 1, n) = [t \in 1 .. n |-> y[t]] BY <1>2, <2>2
    <3>3. SubSeq(x, 1, n) = SubSeq(y, 1, n) <=> \A i \in 1 .. n : x[i] = y[i] BY <3>1, <3>2
    <3>4. \A i \in 1 .. n : i \in 1 .. l BY <1>2, <1>7
    <3>. QED BY <1>4, <3>3, <3>4
  <2>4. l - n \in Found(w, 0, q) <=> \A t \in 1 .. n : w[(l - n) + t] = q[t] BY <1>1, <1>2, <1>7 DEF Found
  <2>5. ASSUME NEW i \in 1 .. n
        PROVE  (n - i) + 1 \in 1 .. n /\ (l - n) + ((n - i) + 1) = (l - i) + 1 /\ (n - ((n - i) + 1)) + 1 = i
               /\ (l - ((n - i) + 1)) + 1 = (l - n) + i
    BY <1>2, <1>7
  <2>6. (\A i \in 1 .. n : q[(n - i) + 1] = w[(l - i) + 1]) <=> \A t \in 1 .. n : w[(l - n) + t] = q[t]
    <3>1. ASSUME \A i \in 1 .. n : q[(n - i) + 1] = w[(l - i) + 1], NEW t \in 1 .. n PROVE w[(l - n) + t] = q[t]
      <4>1. PICK i : i = (n - t) + 1 OBVIOUS
      <4>2. i \in 1 .. n /\ (n - i) + 1 = t /\ (l - i) + 1 = (l - n) + t BY <2>5, <4>1
      <4>3. q[(n - i) + 1] = w[(l - i) + 1] BY <3>1, <4>2
      <4>. QED BY <4>2, <4>3
    <3>2. ASSUME \A t \in 1 .. n : w[(l - n) + t] = q[t], NEW i \in 1 .. n PROVE q[(n - i) + 1] = w[(l - i) + 1]
      <4>1. PICK t : t = (n - i) + 1 OBVIOUS
      <4>2. t \in 1 .. n /\ (l - n) + t = (l - i) + 1 BY <2>5, <4>1
      <4>3. w[(l - n) + t] = q[t] BY <3>2, <4>2
      <4>. QED BY <4>1, <4>2, <4>3
    <3>. QED BY <3>1, <3>2
  <2>. QED BY <1>1, <1>5, <1>7, <2>3, <2>4, <2>6
<1>. QED BY <1>6, <1>7

\* A prefix is found at the beginning.
LEMMA PrefixFound ==
    ASSUME NEW C, NEW w \in Seq(C), NEW q \in Seq(C)
    PROVE  G!IsPrefix(q, w) <=> 0 \in Found(w, 0, q)
<1>1. PICK l, n : l = Len(w) /\ n = Len(q) OBVIOUS
<1>2. l \in Nat /\ n \in Nat BY <1>1
<1>3. G!IsPrefix(q, w) <=> n <= l /\ SubSeq(q, 1, n) = SubSeq(w, 1, n) BY <1>1 DEF G!IsPrefix
<1>4. CASE ~(n <= l) BY <1>1, <1>2, <1>3, <1>4 DEF Found
<1>5. CASE n <= l
  <2>1. SubSeq(q, 1, n) = q BY <1>1, SubSeqFull
  <2>2. 0 \in 0 .. Len(w) - Len(q) BY <1>1, <1>2, <1>5
  <2>3. SubSeq(w, 0 + 1, 0 + n) = q <=> \A t \in 1 .. n : w[0 + t] = q[t] BY <1>1, <2>2, SubSeqAt
  <2>4. 0 \in Found(w, 0, q) <=> \A t \in 1 .. n : w[0 + t] = q[t] BY <1>1, <2>2, Zenon DEF Found
  <2>5. 0 + 1 = 1 /\ 0 + n = n BY <1>2
  <2>. QED BY <1>3, <1>5, <2>1, <2>3, <2>4, <2>5
<1>. QED BY <1>4, <1>5

\* Param.matches, which compares by parts, is the matching of patterns: for every pattern and value.
THEOREM MatchesIsDenotes ==
    ASSUME NEW C, NEW p \in Seq(C), NEW v \in Seq(C)
    PROVE  G!matches(p, v) <=> G!Denotes(p, v)
<1>. DEFINE CC == C \cup {"a"}
<1>1. PICK s, w, e, parts, c : /\ s = G!ToLower(p) /\ w = G!ToLower(v) /\ e = G!Ends(p, v)
                               /\ parts = G!Parts(s) /\ c = G!Cuts(s)
  OBVIOUS
<1>2. s \in Seq(CC) /\ Len(s) = Len(p) /\ w \in Seq(CC) /\ Len(w) = Len(v) BY <1>1, LowerSeq
<1>. HIDE DEF CC
<1>3. EndsOf(e, s, w) BY <1>1, EndsStep
<1>4. PICK n : Split(s, c, n, parts)
  <2>1. Len(s) \in Nat BY <1>2
  <2>. QED BY <1>1, <2>1, PartsSplit
<1>5. PICK m, l, gone : m = Len(s) /\ l = Len(w) /\ gone = G!Gone(w, parts) OBVIOUS
<1>6. m \in Nat /\ l \in Nat BY <1>2, <1>5
<1>7. parts \in [1 .. n -> Seq(CC)] /\ Len(parts) = n /\ n \in Nat /\ n >= 1
  <2>1. n >= 1 BY <1>4 DEF Split
  <2>. QED BY <1>2, <1>4, <2>1, PartsOf
<1>8. PICK q, len : q = parts[n] /\ len = Len(q) OBVIOUS
<1>9. q \in Seq(CC) /\ len \in Nat BY <1>7, <1>8
<1>10. G!Denotes(p, v) <=> l - len \in e[c[n - 1]] \cap Found(w, 0, q)
  <2>1. G!Denotes(p, v) <=> l \in e[m] BY <1>1, <1>2, <1>5 DEF G!Denotes
  <2>2. c[n] - 1 = m BY <1>4, <1>5, <1>6 DEF Split
  <2>3. n \in 1 .. n /\ l \in 0 .. Len(w) BY <1>5, <1>6, <1>7
  <2>4. l \in e[c[n] - 1] <=> l - Len(parts[n]) \in e[c[n - 1]] \cap Found(w, 0, parts[n])
    BY <1>2, <1>3, <1>4, <2>3, EndsAfterPart
  <2>. QED BY <1>8, <2>1, <2>2, <2>4
<1>11. G!matches(p, v) <=> IF n > 1 THEN G!IsPrefix(parts[1], w) /\ G!IsSuffix(q, w) /\ gone[n] # -1 ELSE s = w
  BY <1>1, <1>5, <1>7, <1>8, Zenon DEF G!matches, G!Last
<1>12. CASE n = 1
  <2>1. c[n - 1] = 0 /\ e[0] = {0} /\ c[n] - 1 = m BY <1>3, <1>4, <1>5, <1>6, <1>12 DEF Split, EndsOf
  <2>2. len = m /\ \A t \in 1 .. m : q[t] = s[t]
    <3>1. n \in 1 .. n BY <1>7
    <3>2. /\ Len(parts[n]) = (c[n] - 1) - c[n - 1]
          /\ \A t \in 1 .. Len(parts[n]) : parts[n][t] = s[c[n - 1] + t]
      BY <1>2, <1>4, <3>1, PartsOf, SMTT(30)
    <3>. QED BY <1>6, <1>8, <2>1, <3>2
  <2>3. G!Denotes(p, v) <=> l = m /\ 0 \in Found(w, 0, q) BY <1>6, <1>10, <2>1, <2>2
  <2>4. l = m => (0 \in Found(w, 0, q) <=> \A t \in 1 .. m : w[t] = s[t])
    BY <1>5, <1>6, <1>8, <2>2 DEF Found
  <2>5. s = w <=> l = m /\ \A t \in 1 .. m : w[t] = s[t] BY <1>2, <1>5
  <2>6. G!matches(p, v) <=> s = w BY <1>7, <1>11, <1>12
  <2>. QED BY <2>3, <2>4, <2>5, <2>6
<1>13. CASE n > 1
  <2>1. G!IsPrefix(parts[1], w) <=> 0 \in Found(w, 0, parts[1])
    <3>1. parts[1] \in Seq(CC) BY <1>7
    <3>. QED BY <1>2, <3>1, PrefixFound
  <2>2. G!IsSuffix(q, w) <=> l - len \in Found(w, 0, q) BY <1>2, <1>5, <1>8, <1>9, SuffixFound
  <2>3. n - 1 \in 1 .. n - 1 /\ n \in 1 .. n /\ n - 1 \in 0 .. n BY <1>7, <1>13
  <2>4. e[c[n - 1]] = IF 0 \in Found(w, 0, parts[1]) /\ gone[n - 1] # -1 THEN gone[n - 1] .. Len(w) ELSE {}
    BY <1>2, <1>3, <1>4, <1>5, <2>3, LoopFollowsEnds
  <2>5. PICK at : at = gone[n - 1] OBVIOUS
  <2>6. at \in -1 .. l /\ gone[n] = G!Round(w, at, q)
    <3>1. GoneOf(gone, w, n, parts) BY <1>2, <1>5, <1>7, GoneStep
    <3>. QED BY <1>5, <1>8, <2>3, <2>5, <3>1 DEF GoneOf
  <2>7. ASSUME l - len \in Found(w, 0, q)
        PROVE  gone[n] # -1 <=> at # -1 /\ at <= l - len
    <3>1. CASE at = -1 BY <2>6, <3>1 DEF G!Round
    <3>2. CASE at # -1
      <4>1. at \in 0 .. Len(w) BY <1>5, <2>6, <3>2
      <4>2. IF Found(w, at, q) = {} THEN G!Index(w, at, q) = -1 ELSE G!Index(w, at, q) \in Found(w, at, q)
        BY <1>2, <1>9, <4>1, IndexFound
      <4>3. Found(w, at, q) # {} <=> at <= l - len
        <5>1. Found(w, at, q) # {} => at <= l - len BY <1>5, <1>6, <1>8, <1>9, <4>1 DEF Found
        <5>2. \A t \in 1 .. Len(q) : w[(l - len) + t] = q[t] BY <2>7 DEF Found
        <5>3. at <= l - len => l - len \in at .. Len(w) - Len(q) BY <1>5, <1>6, <1>8, <1>9, <4>1
        <5>4. at <= l - len => l - len \in Found(w, at, q) BY <5>2, <5>3 DEF Found
        <5>. QED BY <5>1, <5>4
      <4>4. G!Index(w, at, q) \in Found(w, at, q) => G!Index(w, at, q) \in Nat BY <4>1 DEF Found
      <4>5. gone[n] = IF G!Index(w, at, q) = -1 THEN -1 ELSE G!Index(w, at, q) + len
        BY <1>8, <2>6, <3>2 DEF G!Round
      <4>. QED BY <1>9, <3>2, <4>2, <4>3, <4>4, <4>5
    <3>. QED BY <3>1, <3>2
  <2>8. l - len \in Found(w, 0, q) => l - len \in 0 .. l BY <1>5, <1>6, <1>8, <1>9 DEF Found
  <2>9. G!Denotes(p, v) <=> /\ 0 \in Found(w, 0, parts[1]) /\ l - len \in Found(w, 0, q)
                            /\ at # -1 /\ at <= l - len
    BY <1>5, <1>6, <1>10, <2>4, <2>5, <2>6, <2>8
  <2>. QED BY <1>11, <1>13, <2>1, <2>2, <2>7, <2>9
<1>. QED BY <1>7, <1>12, <1>13

\* A parameter is not asked for, or a set of patterns.
Patterns(x) == x = None \/ x \subseteq Seq(STRING)

\* MatchesOneOf decides whether a parameter is satisfied.
LEMMA OneOfSatisfies ==
    ASSUME NEW x, Patterns(x), NEW strings, strings \subseteq Seq(STRING)
    PROVE  G!MatchesOneOf(x, strings) <=> G!Satisfies(strings, x)
<1>1. CASE x = None BY <1>1, Zenon DEF G!MatchesOneOf, G!Satisfies
<1>2. CASE x # None
  <2>1. \A y \in x, v \in strings : G!matches(y, v) <=> G!Denotes(y, v) BY <1>2, MatchesIsDenotes DEF Patterns
  <2>. QED BY <2>1, Zenon DEF G!MatchesOneOf, G!Satisfies
<1>. QED BY <1>1, <1>2

\* The table holds parameters of groups.
GroupsInv == groups \in [GroupIds -> Params \cup {None}]

\* With patterns in the table, the lists are those of GroupsListed.
LEMMA ListedBySatisfaction == GroupsInv => GroupsListed
<1>. SUFFICES ASSUME GroupsInv PROVE G!GroupsListed
  BY DEF GroupsListed
<1>. SUFFICES ASSUME NEW u \in ApiUsers
              PROVE  LET allowed == {c \in Clients : G!Administrators \in u.groups \/ u.groups \cap c.allowed # {}}
                         has(c, x) == G!Satisfies({c.name}, x["name"]) /\ G!Satisfies(c.tag, x["tag"]) /\ (x["name"] # None \/ x["tag"] # None)
                         seen == [g \in {x \in GroupIds : groups[x] # None} |-> {c \in allowed : has(c, groups[g])}]
                         hidden == {g \in DOMAIN seen : seen[g] = {} /\ G!Administrators \notin u.groups}
                     IN G!Listed(u) = [g \in DOMAIN seen \ hidden |-> seen[g]]
  BY Zenon DEF G!GroupsListed
<1>. DEFINE allowed == {c \in Clients : G!Administrators \in u.groups \/ u.groups \cap c.allowed # {}}
            has(c, x) == G!Satisfies({c.name}, x["name"]) /\ G!Satisfies(c.tag, x["tag"]) /\ (x["name"] # None \/ x["tag"] # None)
            there == {x \in GroupIds : groups[x] # None}
            seen == [g \in there |-> {c \in allowed : has(c, groups[g])}]
            ids == [g \in there |-> G!ClientIDs(g, u)]
<1>1. ASSUME NEW c \in Clients, NEW x \in Params PROVE G!BelongsTo(c, x) <=> has(c, x)
  <2>1. G!MatchesOneOf(x["name"], {c.name}) <=> G!Satisfies({c.name}, x["name"])
    <3>1. Patterns(x["name"]) /\ {c.name} \subseteq Seq(STRING) BY ClientGroupsAssumption DEF Patterns
    <3>. QED BY <3>1, OneOfSatisfies
  <2>2. G!MatchesOneOf(x["tag"], c.tag) <=> G!Satisfies(c.tag, x["tag"])
    <3>1. Patterns(x["tag"]) /\ c.tag \subseteq Seq(STRING) BY ClientGroupsAssumption DEF Patterns
    <3>. QED BY <3>1, OneOfSatisfies
  <2>3. G!HasNoParams(x) <=> ~(x["name"] # None \/ x["tag"] # None) BY Zenon DEF G!HasNoParams
  <2>. QED BY <2>1, <2>2, <2>3, Zenon DEF G!BelongsTo
<1>2. ASSUME NEW c \in Clients
      PROVE  G!CheckClientsAccess({c}, u) <=> G!Administrators \in u.groups \/ u.groups \cap c.allowed # {}
  BY Zenon DEF G!CheckClientsAccess, G!IsAdmin, G!HasAccess
<1>3. ASSUME NEW g \in there PROVE ids[g] = seen[g]
  <2>1. groups[g] \in Params BY DEF GroupsInv
  <2>2. \A c \in Clients : G!BelongsTo(c, groups[g]) <=> has(c, groups[g]) BY <1>1, <2>1
  <2>. HIDE DEF has
  <2>3. G!ClientIDs(g, u) = {c \in allowed : has(c, groups[g])}
    BY <1>2, <2>2 DEF G!ClientIDs
  <2>. QED BY <2>3
<1>4. G!Listed(u) = [g \in {x \in there : G!IsAdmin(u) \/ ids[x] # {}} |-> ids[g]]
  BY Zenon DEF G!Listed
<1>5. ids = seen
  <2>. HIDE DEF has, allowed
  <2>. QED BY <1>3
<1>6. {x \in there : G!IsAdmin(u) \/ seen[x] # {}} = DOMAIN seen \ {g \in DOMAIN seen : seen[g] = {} /\ G!Administrators \notin u.groups}
  <2>1. DOMAIN seen = there OBVIOUS
  <2>. HIDE DEF seen, there
  <2>. QED BY <2>1 DEF G!IsAdmin
<1>7. G!Listed(u) = [g \in DOMAIN seen \ {g \in DOMAIN seen : seen[g] = {} /\ G!Administrators \notin u.groups} |-> seen[g]]
  <2>. HIDE DEF ids, seen, there
  <2>. QED BY <1>4, <1>5, <1>6
<1>. QED BY <1>7, Zenon

\* Each user sees in a group exactly the clients that its patterns denote and that it may use
\* (handleGetClientGroups, Param.matches), for names, tags and patterns of any length.
THEOREM GroupsShowMatches == TablesSpec => []GroupsListed
<1>1. TablesInit => GroupsInv BY DEF TablesInit, G!Init, GroupsInv
<1>2. GroupsInv /\ [TablesNext]_<<vars, part, library, userTables, groups>> => GroupsInv'
  <2>. SUFFICES ASSUME GroupsInv, [TablesNext]_<<vars, part, library, userTables, groups>> PROVE GroupsInv'
    OBVIOUS
  <2>1. CASE G!Next
    BY <2>1 DEF G!Next, G!handlePostClientGroups, G!handlePutClientGroup, G!handleDeleteClientGroup, GroupsInv
  <2>2. CASE groups' = groups BY <2>2 DEF GroupsInv
  <2>. QED BY <2>1, <2>2 DEF TablesNext
<1>. QED BY <1>1, <1>2, ListedBySatisfaction, PTL DEF TablesSpec

-----------------------------------------------------------------------------
(* The vault.                                                              *)

\* The database is open whenever its file exists, and holds a status only then.
DatabaseOpen == (file => opened) /\ (status # None => file)

\* An Init past its check works on a database without status unless another Init overlaps, and the
\* password that is about to be set is one the database was initialized with.
AdminInv ==
    \A a \in Admins :
        /\ admin[a].pc \in {"create", "setStatus"} /\ status # None => a \in overlapped
        /\ admin[a].pc = "setStatus" => file
        /\ admin[a].pc = "setPass" => admin[a].pass \in MasterPasswords

\* Requests past their check, and values, come with a status; a status stays.
StatusInv ==
    /\ \A u \in Users : req[u].pc \in {"find", "read", "write", "decrypt"} => status # None
    /\ \A u \in Users : req[u].row # None => status # None
    /\ values # {} => status # None
    /\ replaced # {} => status # None

\* The inductive invariant of the passwords.
PassInv ==
    /\ DatabaseOpen /\ AdminInv /\ StatusInv
    /\ UnlockedWithMaster /\ StoredReadable

\* The inductive invariant of the values.
ValuesInv == OneValuePerKey /\ \A v \in values : v.id < nextId
-----------------------------------------------------------------------------
USE VaultAssumption DEF Ids

LEMMA IdleUserType == IdleUser \in UserRequests /\ IdleUser.op # "store" /\ IdleUser.row = None
  BY DEF IdleUser, UserRequests

\* An Init brings a password, which makes the types inductive.
AdminType(r) == r \in AdminRequests /\ (r.pc \in {"create", "setStatus"} => r.pass # Empty)
TypeInv == TypeOK /\ \A a \in Admins : AdminType(admin[a])

LEMMA IdleAdminType == AdminType(IdleAdmin) /\ IdleAdmin.pc = "idle"
  BY DEF AdminType, IdleAdmin, AdminRequests

LEMMA TypesHold == Init => TypeInv
<1> SUFFICES ASSUME Init PROVE TypeInv
  OBVIOUS
<1>1. req \in [Users -> UserRequests] /\ \A u \in Users : req[u].op # "store"
  BY IdleUserType DEF Init
<1>2. file \in BOOLEAN /\ opened \in BOOLEAN
  BY Zenon DEF Init
<1>3. nextId \in 1 .. MaxId + 1
  BY DEF Init
<1>4. admin \in [Admins -> AdminRequests] /\ \A a \in Admins : AdminType(admin[a])
  BY IdleAdminType DEF Init, AdminType
<1>5. /\ status \in Passwords \cup {None} /\ values \subseteq Values /\ pass \in Passwords \cup {Empty}
      /\ overlapped \subseteq Admins /\ replaced \subseteq Passwords
  BY DEF Init
<1> QED
  BY <1>1, <1>2, <1>3, <1>4, <1>5 DEF TypeInv, TypeOK

\* A step of an administrator changes his own request.
LEMMA AdminKeepsRequest == ASSUME TypeInv, NEW a \in Admins, AdminStep(a)
                           PROVE \E r : AdminType(r) /\ admin' = [admin EXCEPT ![a] = r]
<1>0. admin \in [Admins -> AdminRequests] /\ AdminType(admin[a])
  BY DEF TypeInv, TypeOK
<1>e. ASSUME AdminEnds(a) PROVE \E r : AdminType(r) /\ admin' = [admin EXCEPT ![a] = r]
  BY <1>e, IdleAdminType DEF AdminEnds
<1>g. ASSUME NEW pc \in {"setStatus", "setPass"}, AdminGoesTo(a, pc),
             pc = "setStatus" => admin[a].pc = "create"
      PROVE \E r : AdminType(r) /\ admin' = [admin EXCEPT ![a] = r]
  <2>1. AdminType([admin[a] EXCEPT !.pc = pc])
    BY <1>0, <1>g DEF AdminType, AdminRequests
  <2> QED
    BY <1>g, <1>0, <2>1 DEF AdminGoesTo
<1>1. ASSUME NEW p \in Passwords, InitChecks(a, p) \/ UnLockChecks(a, p)
      PROVE \E r : AdminType(r) /\ admin' = [admin EXCEPT ![a] = r]
  <2>1. AdminType([pc |-> "create", pass |-> p]) /\ AdminType([pc |-> "match", pass |-> p])
    BY DEF AdminType, AdminRequests
  <2> QED
    BY <1>1, <2>1 DEF InitChecks, UnLockChecks
<1>2. CASE InitCreates(a) \/ InitSetsStatus(a)
  BY <1>2, <1>g DEF InitCreates, InitSetsStatus
<1>3. CASE UnLockMatches(a)
  BY <1>3, <1>e, <1>g DEF UnLockMatches
<1>4. CASE LockChecks(a)
  <2>1. AdminType([pc |-> "lock", pass |-> Empty])
    BY DEF AdminType, AdminRequests
  <2> QED
    BY <1>4, <2>1 DEF LockChecks
<1>5. CASE SetPass(a) \/ LockClears(a) \/ AdminFails(a)
  BY <1>5, <1>e DEF SetPass, LockClears, AdminFails
<1> QED
  BY <1>1, <1>2, <1>3, <1>4, <1>5 DEF AdminStep

\* A Lock marks the requests of the users and changes nothing else of them.
LEMMA OvertakenType == ASSUME TypeInv
                       PROVE /\ Overtaken(req) \in [Users -> UserRequests]
                             /\ \A u \in Users :
                                  /\ Overtaken(req)[u].pc = req[u].pc /\ Overtaken(req)[u].op = req[u].op
                                  /\ Overtaken(req)[u].key = req[u].key /\ Overtaken(req)[u].group = req[u].group
                                  /\ Overtaken(req)[u].row = req[u].row
                                  /\ req[u].pc # "idle" => Overtaken(req)[u].vault = "locked"
<1>1. ASSUME NEW r \in UserRequests
      PROVE LET o == [r EXCEPT !.vault = "locked"]
            IN  /\ o \in UserRequests /\ o.vault = "locked"
                /\ o.pc = r.pc /\ o.op = r.op /\ o.key = r.key /\ o.group = r.group /\ o.row = r.row
  BY DEF UserRequests
<1>2. req \in [Users -> UserRequests]
  BY DEF TypeInv, TypeOK
<1> QED
  BY <1>1, <1>2 DEF Overtaken

\* What the administrators leave alone.
LEMMA AdminLeaves == ASSUME TypeInv, NEW a \in Admins, AdminStep(a)
                     PROVE /\ values' = values /\ nextId' = nextId
                           /\ LockClears(a) \/ req' = req
<1>1. values' = values /\ nextId' = nextId
  BY DEF AdminStep, InitChecks, InitCreates, InitSetsStatus, SetPass, UnLockChecks, UnLockMatches,
         LockChecks, LockClears, AdminFails, database
<1>2. LockClears(a) \/ req' = req
  BY DEF AdminStep, InitChecks, InitCreates, InitSetsStatus, SetPass, UnLockChecks, UnLockMatches,
         LockChecks, AdminFails
<1> QED
  BY <1>1, <1>2

LEMMA AdminKeepsTypes == ASSUME TypeInv, NEW a \in Admins, AdminStep(a) PROVE TypeInv'
<1>0. AdminType(admin[a]) /\ admin[a].pass \in Passwords \cup {Empty} /\ admin \in [Admins -> AdminRequests]
  BY DEF TypeInv, TypeOK, AdminType, AdminRequests
<1>a. admin' \in [Admins -> AdminRequests] /\ \A b \in Admins : AdminType(admin'[b])
  <2>1. PICK r : AdminType(r) /\ admin' = [admin EXCEPT ![a] = r]
    BY AdminKeepsRequest
  <2> QED
    BY <2>1, <1>0 DEF TypeInv, AdminType
<1>b. values' = values /\ nextId' = nextId
  BY AdminLeaves
<1>r. /\ req' \in [Users -> UserRequests]
      /\ \A u \in Users : req'[u].op = "store" => req'[u].key \in Keys /\ req'[u].group \in Groups \cup {NoGroup}
  <2>1. req' = req \/ req' = Overtaken(req)
    BY AdminLeaves DEF LockClears
  <2>2. CASE req' = Overtaken(req)
    BY <2>2, OvertakenType DEF TypeInv, TypeOK
  <2> QED
    BY <2>1, <2>2 DEF TypeInv, TypeOK
<1>c. file' \in {TRUE, file} /\ opened' \in {TRUE, opened}
  BY Zenon DEF AdminStep, InitChecks, InitCreates, InitSetsStatus, SetPass, UnLockChecks, UnLockMatches,
         LockChecks, LockClears, AdminFails, database, memory
<1>d. /\ status' \in Passwords \cup {None}
      /\ overlapped' \subseteq Admins /\ replaced' \subseteq Passwords
  <2>1. (UNCHANGED <<status, replaced>> /\ overlapped' \subseteq overlapped) \/ InitSetsStatus(a)
    BY DEF AdminStep, InitChecks, InitCreates, SetPass, UnLockChecks, UnLockMatches,
           LockChecks, LockClears, AdminFails, database, history
  <2>2. CASE InitSetsStatus(a)
    <3>1. status' \in Passwords
      BY <1>0, <2>2 DEF InitSetsStatus, AdminType
    <3> QED
      BY <2>2, <3>1 DEF InitSetsStatus, TypeInv, TypeOK
  <2> QED
    BY <2>1, <2>2 DEF TypeInv, TypeOK
<1>e. pass' \in Passwords \cup {Empty}
  <2>1. pass' \in {pass, admin[a].pass, Empty}
    BY DEF AdminStep, InitChecks, InitCreates, InitSetsStatus, SetPass, UnLockChecks, UnLockMatches,
           LockChecks, LockClears, AdminFails, memory
  <2> QED
    BY <1>0, <2>1 DEF TypeInv, TypeOK
<1> QED
  BY <1>a, <1>b, <1>r, <1>c, <1>d, <1>e DEF TypeInv, TypeOK

\* The requests of the users, as TypeOK has them.
ReqType(r) == /\ r \in UserRequests
              /\ r.op = "store" => r.key \in Keys /\ r.group \in Groups \cup {NoGroup}

\* A step of a user changes his own request.
LEMMA UserKeepsRequest == ASSUME TypeInv, NEW u \in Users, UserStep(u)
                          PROVE \E r : ReqType(r) /\ req' = [req EXCEPT ![u] = r]
<1>0. ReqType(req[u]) /\ ReqType(IdleUser) /\ values \subseteq Values /\ req \in [Users -> UserRequests]
  BY IdleUserType DEF TypeInv, TypeOK, ReqType
<1>e. ASSUME Ends(u) PROVE \E r : ReqType(r) /\ req' = [req EXCEPT ![u] = r]
  BY <1>e, <1>0 DEF Ends
<1>g. ASSUME NEW pc \in {"find", "read", "write"}, Goes(u, pc)
      PROVE \E r : ReqType(r) /\ req' = [req EXCEPT ![u] = r]
  <2>1. ReqType([req[u] EXCEPT !.pc = pc])
    BY <1>0 DEF ReqType, UserRequests
  <2> QED
    BY <1>g, <1>0, <2>1 DEF Goes
<1>1. CASE Ask(u)
  <2>1. ASSUME NEW id \in 0 .. MaxId, NEW k \in Keys, NEW g \in Groups \cup {NoGroup}
        PROVE ReqType(Asked("store", id, k, g))
    BY DEF Asked, UserRequests, ReqType
  <2>2. ASSUME NEW id \in Ids, NEW op \in {"get", "delete"}
        PROVE ReqType(Asked(op, id, None, None))
    BY DEF Asked, UserRequests, ReqType
  <2> QED
    BY <1>1, <2>1, <2>2 DEF Ask
<1>2. CASE ChecksInitialized(u)
  BY <1>2, <1>e, <1>g DEF ChecksInitialized
<1>3. CASE FindByKey(u)
  <2>1. ASSUME NEW v \in values, req' = [req EXCEPT ![u].pc = "read", ![u].found = v.id]
        PROVE \E r : ReqType(r) /\ req' = [req EXCEPT ![u] = r]
    <3>1. v.id \in 0 .. MaxId
      BY <1>0 DEF Values
    <3>2. ReqType([req[u] EXCEPT !.pc = "read", !.found = v.id])
      BY <3>1, <1>0 DEF ReqType, UserRequests
    <3>3. req' = [req EXCEPT ![u] = [req[u] EXCEPT !.pc = "read", !.found = v.id]]
      BY <2>1, <1>0 DEF UserRequests
    <3> QED
      BY <3>2, <3>3
  <2> QED
    BY <1>3, <2>1, <1>e, <1>g DEF FindByKey
<1>4. CASE GetByID(u)
  <2>1. ASSUME NEW v \in values, NEW pc \in {"decrypt", "write"}, NEW w \in {v, None},
               req' = [req EXCEPT ![u].pc = pc, ![u].row = w]
        PROVE \E r : ReqType(r) /\ req' = [req EXCEPT ![u] = r]
    <3>1. ReqType([req[u] EXCEPT !.pc = pc, !.row = w])
      BY <1>0, ZenonT(40) DEF ReqType, UserRequests
    <3>2. req' = [req EXCEPT ![u] = [req[u] EXCEPT !.pc = pc, !.row = w]]
      BY <2>1, <1>0 DEF UserRequests
    <3> QED
      BY <3>1, <3>2
  <2>2. Ends(u) \/ \E v \in values, pc \in {"decrypt", "write"} : \E w \in {v, None} :
                     req' = [req EXCEPT ![u].pc = pc, ![u].row = w]
    BY <1>4 DEF GetByID, Row
  <2> QED
    BY <2>1, <2>2, <1>e
<1>5. CASE Stores(u) \/ Deletes(u) \/ Decrypts(u)
  BY <1>5, <1>e DEF Stores, Deletes, Decrypts
<1> QED
  BY <1>1, <1>2, <1>3, <1>4, <1>5 DEF UserStep

\* What a Store writes is its value under the password of the moment.
LEMMA StoreWrites == ASSUME TypeInv, NEW u \in Users, Stores(u)
                     PROVE \E v \in Values :
                        /\ v.pass = pass
                        /\ values' \subseteq values \cup {v}
                        /\ \/ nextId' = nextId
                           \/ nextId <= MaxId /\ v.id = nextId /\ nextId' = nextId + 1
<1>1. ReqType(req[u]) /\ pass \in Passwords \cup {Empty} /\ nextId \in 1 .. MaxId + 1 /\ req[u].op = "store"
  BY DEF TypeInv, TypeOK, ReqType, Stores
<1>2. ASSUME NEW id \in Ids
      PROVE Encrypted(u, id) \in Values /\ Encrypted(u, id).pass = pass /\ Encrypted(u, id).id = id
  BY <1>1 DEF Encrypted, Values, ReqType
<1>3. CASE req[u].id = 0
  <2>1. nextId <= MaxId /\ nextId \in Ids
    BY <1>1, <1>3 DEF Stores
  <2>2. \/ values' = values \cup {Encrypted(u, nextId)} /\ nextId' = nextId + 1
        \/ values' = values /\ nextId' = nextId
    BY <1>3 DEF Stores
  <2> QED
    BY <1>2, <2>1, <2>2
<1>4. CASE req[u].id # 0
  <2>1. req[u].id \in Ids
    BY <1>1, <1>4 DEF ReqType, UserRequests
  <2>2. nextId' = nextId /\ values' \subseteq values \cup {Encrypted(u, req[u].id)}
    BY <1>4 DEF Stores
  <2> QED
    BY <1>2, <2>1, <2>2
<1> QED
  BY <1>3, <1>4

LEMMA UserKeepsTypes == ASSUME TypeInv, NEW u \in Users, UserStep(u) PROVE TypeInv'
<1>1. PICK r : ReqType(r) /\ req' = [req EXCEPT ![u] = r]
  BY UserKeepsRequest
<1>2. /\ req' \in [Users -> UserRequests]
      /\ \A w \in Users : ReqType(req'[w])
  BY <1>1 DEF TypeInv, TypeOK, ReqType
<1>3. UNCHANGED <<file, status, opened, pass, admin, overlapped, replaced>>
  BY Zenon DEF UserStep, Ask, ChecksInitialized, FindByKey, GetByID, Stores, Deletes, Decrypts, database, memory, history
<1>4. values' \subseteq Values /\ nextId' \in 1 .. MaxId + 1
  <2>0. values \subseteq Values /\ nextId \in 1 .. MaxId + 1
    BY DEF TypeInv, TypeOK
  <2>1. Stores(u) \/ (values' \subseteq values /\ nextId' = nextId)
    BY DEF UserStep, Ask, ChecksInitialized, FindByKey, GetByID, Deletes, Decrypts, database
  <2> QED
    BY <2>0, <2>1, StoreWrites
<1> QED
  BY <1>2, <1>3, <1>4 DEF TypeInv, TypeOK, ReqType

LEMMA StepKeepsTypes == TypeInv /\ [Next]_vars => TypeInv'
<1> SUFFICES ASSUME TypeInv, [Next]_vars PROVE TypeInv'
  OBVIOUS
<1>1. CASE Restart
  <2>1. req' \in [Users -> UserRequests] /\ \A u \in Users : req'[u].op # "store"
    BY <1>1, IdleUserType DEF Restart
  <2>2. admin' \in [Admins -> AdminRequests] /\ \A a \in Admins : AdminType(admin'[a])
    BY <1>1, IdleAdminType DEF Restart, AdminType
  <2> QED
    BY <1>1, <2>1, <2>2 DEF Restart, TypeInv, TypeOK, database
<1>2. CASE UNCHANGED vars
  BY <1>2 DEF vars, TypeInv, TypeOK
<1> QED
  BY <1>1, <1>2, AdminKeepsTypes, UserKeepsTypes DEF Next

-----------------------------------------------------------------------------
LEMMA PassInvHolds == Init => PassInv
<1> SUFFICES ASSUME Init PROVE PassInv
  OBVIOUS
<1>1. /\ file = FALSE /\ status = None /\ values = {} /\ pass = Empty
      /\ \A a \in Admins : admin[a].pc = "idle"
      /\ \A u \in Users : req[u].pc = "idle" /\ req[u].row = None
      /\ replaced = {}
  BY DEF Init, IdleAdmin, IdleUser
<1> QED
  BY <1>1 DEF PassInv, DatabaseOpen, AdminInv, StatusInv, UnlockedWithMaster, StoredReadable

\* What a step of an administrator does to the status and to the passwords of the inits.
LEMMA AdminStatus == ASSUME TypeInv, PassInv, NEW a \in Admins, AdminStep(a)
                     PROVE /\ status # None => status' # None
                           /\ replaced' # {} => status' # None
                           /\ MasterPasswords \subseteq MasterPasswords'
                           /\ (file' => opened') /\ (status' # None => file')
                           /\ \A b \in Admins \ {a} :
                                admin[b].pc \in {"create", "setStatus"} /\ status' # None => b \in overlapped'
                           /\ file => file'
                           /\ opened => opened'
<1>1. CASE InitSetsStatus(a)
  <2>1. status' \in Passwords /\ status' # None
    BY <1>1 DEF InitSetsStatus, TypeInv, TypeOK, AdminType, AdminRequests
  <2>2. status # None => a \in overlapped
    BY <1>1 DEF InitSetsStatus, PassInv, AdminInv
  <2>3. MasterPasswords \subseteq MasterPasswords'
    BY <1>1, <2>1, <2>2 DEF InitSetsStatus, MasterPasswords
  <2>4. file /\ file' = file /\ opened' = opened /\ (file => opened)
    BY <1>1 DEF InitSetsStatus, PassInv, AdminInv, DatabaseOpen, memory
  <2>5. \A b \in Admins \ {a} : admin[b].pc \in {"create", "setStatus"} => b \in overlapped'
    BY <1>1 DEF InitSetsStatus
  <2> QED
    BY <2>1, <2>3, <2>4, <2>5
<1>2. CASE ~InitSetsStatus(a)
  <2>1. /\ status' = status /\ replaced' = replaced
        /\ overlapped' = overlapped \/ overlapped' = overlapped \ {a}
    BY <1>2 DEF AdminStep, InitChecks, InitCreates, SetPass, UnLockChecks, UnLockMatches,
           LockChecks, LockClears, AdminFails, database, history
  <2>2. (file' /\ opened') \/ UNCHANGED <<file, opened>>
    BY <1>2 DEF AdminStep, InitChecks, InitCreates, SetPass, UnLockChecks, UnLockMatches,
           LockChecks, LockClears, AdminFails, database, memory
  <2>3. MasterPasswords' = MasterPasswords
    BY <2>1 DEF MasterPasswords
  <2>4. (file => opened) /\ (status # None => file) /\ (replaced # {} => status # None)
    BY DEF PassInv, DatabaseOpen, StatusInv
  <2>5. \A b \in Admins \ {a} :
          admin[b].pc \in {"create", "setStatus"} /\ status # None => b \in overlapped'
    BY <2>1 DEF PassInv, AdminInv
  <2> QED
    BY <2>1, <2>2, <2>3, <2>4, <2>5
<1> QED
  BY <1>1, <1>2

\* What AdminInv says of one administrator.
AdminIs(r, a) ==
    /\ r.pc \in {"create", "setStatus"} /\ status # None => a \in overlapped
    /\ r.pc = "setStatus" => file
    /\ r.pc = "setPass" => r.pass \in MasterPasswords

\* The administrator's own request keeps to it.
LEMMA AdminKeepsOwn == ASSUME TypeInv, PassInv, NEW a \in Admins, AdminStep(a) PROVE AdminIs(admin[a], a)'
<1>0. admin \in [Admins -> AdminRequests] /\ AdminIs(admin[a], a)
  BY DEF TypeInv, TypeOK, PassInv, AdminInv, AdminIs
<1>e. ASSUME AdminEnds(a) PROVE AdminIs(admin[a], a)'
  BY <1>e, <1>0, IdleAdminType DEF AdminEnds, AdminIs
<1>1. ASSUME NEW p \in Passwords, InitChecks(a, p) PROVE AdminIs(admin[a], a)'
  <2>1. admin'[a] = [pc |-> "create", pass |-> p] /\ status' = status /\ ~Initialized
    BY <1>1, <1>0 DEF InitChecks, database
  <2>2. status = None
    BY <2>1 DEF Initialized, PassInv, DatabaseOpen
  <2> QED
    BY <2>1, <2>2 DEF AdminIs
<1>2. ASSUME NEW p \in Passwords, UnLockChecks(a, p) PROVE AdminIs(admin[a], a)'
  BY <1>2, <1>0 DEF UnLockChecks, AdminIs
<1>3. CASE InitCreates(a)
  <2>1. admin[a].pc = "create" /\ admin'[a].pc = "setStatus"
    BY <1>3, <1>0 DEF InitCreates, AdminGoesTo, AdminRequests
  <2>2. file' /\ UNCHANGED <<status, overlapped>>
    BY <1>3 DEF InitCreates, history
  <2> QED
    BY <1>0, <2>1, <2>2 DEF AdminIs
<1>4. CASE InitSetsStatus(a)
  <2>1. admin'[a].pc = "setPass" /\ admin'[a].pass = admin[a].pass /\ status' = admin[a].pass
    BY <1>4, <1>0 DEF InitSetsStatus, AdminGoesTo, AdminRequests
  <2>2. admin[a].pass \in Passwords
    BY <1>4 DEF InitSetsStatus, TypeInv, AdminType, AdminRequests
  <2> QED
    BY <2>1, <2>2 DEF AdminIs, MasterPasswords
<1>5. CASE UnLockMatches(a)
  <2>1. AdminEnds(a) \/ (AdminGoesTo(a, "setPass") /\ admin[a].pass = status /\ admin[a].pass # Empty)
    BY <1>5 DEF UnLockMatches, PassMatch
  <2>2. UNCHANGED <<status, replaced>>
    BY <1>5 DEF UnLockMatches, database, history
  <2>3. CASE AdminGoesTo(a, "setPass") /\ admin[a].pass = status /\ admin[a].pass # Empty
    <3>1. admin'[a].pc = "setPass" /\ admin'[a].pass = status
      BY <2>3, <1>0 DEF AdminGoesTo, AdminRequests
    <3>2. status # None
      BY <2>3, <1>0 DEF AdminRequests
    <3> QED
      BY <2>2, <3>1, <3>2 DEF AdminIs, MasterPasswords
  <2> QED
    BY <2>1, <2>3, <1>e
<1>6. CASE LockChecks(a)
  BY <1>6, <1>0 DEF LockChecks, AdminIs
<1>7. CASE SetPass(a) \/ LockClears(a) \/ AdminFails(a)
  BY <1>7, <1>e DEF SetPass, LockClears, AdminFails
<1> QED
  BY <1>1, <1>2, <1>3, <1>4, <1>5, <1>6, <1>7 DEF AdminStep

\* The passwords of the inits are only added to.
LEMMA AdminKeepsPassInv == ASSUME TypeInv, PassInv, NEW a \in Admins, AdminStep(a) PROVE PassInv'
<1>1. DatabaseOpen'
  BY AdminStatus DEF DatabaseOpen
<1>2. AdminInv'
  <2>1. PICK r : AdminType(r) /\ admin' = [admin EXCEPT ![a] = r]
    BY AdminKeepsRequest
  <2>2. \A b \in Admins \ {a} : admin'[b] = admin[b]
    BY <2>1 DEF TypeInv, TypeOK
  <2>3. ASSUME NEW b \in Admins \ {a} PROVE AdminIs(admin[b], b)'
    BY <2>2, AdminStatus DEF AdminIs, PassInv, AdminInv
  <2> QED
    BY <2>3, AdminKeepsOwn DEF AdminInv, AdminIs
<1>3. values' = values /\ \A u \in Users : req'[u].pc = req[u].pc /\ req'[u].row = req[u].row
  <2>1. req' = req \/ req' = Overtaken(req)
    BY AdminLeaves DEF LockClears
  <2> QED
    BY <2>1, AdminLeaves, OvertakenType
<1>4. StatusInv'
  BY <1>3, AdminStatus DEF StatusInv, PassInv
<1>5. /\ pass' # Empty => opened' /\ pass' \in MasterPasswords'
      /\ pass' = Empty => LockClears(a) \/ (pass = Empty /\ req' = req)
  <2>1. CASE LockClears(a)
    BY <2>1 DEF LockClears
  <2>2. CASE SetPass(a)
    <3>1. pass' \in MasterPasswords /\ pass' = admin[a].pass
      BY <2>2 DEF SetPass, PassInv, AdminInv
    <3>2. pass' # Empty
      BY <3>1 DEF MasterPasswords, TypeInv, TypeOK
    <3>3. status # None
      BY <3>1 DEF MasterPasswords, PassInv, StatusInv
    <3> QED
      BY <3>1, <3>2, <3>3, AdminStatus DEF PassInv, DatabaseOpen
  <2>3. CASE ~LockClears(a) /\ ~SetPass(a)
    <3>1. pass' = pass
      BY <2>3 DEF AdminStep, InitChecks, InitCreates, InitSetsStatus, UnLockChecks, UnLockMatches,
                  LockChecks, AdminFails, memory
    <3> QED
      BY <2>3, <3>1, AdminStatus, AdminLeaves DEF PassInv, UnlockedWithMaster
  <2> QED
    BY <2>1, <2>2, <2>3
<1>6. pass' = Empty => \A u \in Users : req'[u].pc # "idle" => req'[u].vault = "locked"
  <2>1. CASE LockClears(a)
    BY <2>1, OvertakenType DEF LockClears
  <2>2. CASE pass = Empty /\ req' = req
    BY <2>2 DEF PassInv, StoredReadable, IsLocked
  <2> QED
    BY <1>5, <2>1, <2>2
<1>7. StoredReadable'
  BY <1>3, <1>6, AdminStatus DEF PassInv, StoredReadable, IsLocked
<1> QED
  BY <1>1, <1>2, <1>4, <1>5, <1>7 DEF PassInv, UnlockedWithMaster

LEMMA UserKeepsPassInv == ASSUME TypeInv, PassInv, NEW u \in Users, UserStep(u) PROVE PassInv'
<1>1. UNCHANGED <<file, status, opened, pass, admin, overlapped, replaced>>
  BY Zenon DEF UserStep, Ask, ChecksInitialized, FindByKey, GetByID, Stores, Deletes, Decrypts, database, memory, history
<1>2. PICK r : ReqType(r) /\ req' = [req EXCEPT ![u] = r]
  BY UserKeepsRequest
<1>3. req \in [Users -> UserRequests] /\ \A w \in Users : req'[w] = IF w = u THEN r ELSE req[w]
  BY <1>2 DEF TypeInv, TypeOK
<1>4. r.pc \in {"find", "read", "write", "decrypt"} => status # None
  <2>0. IdleUser.pc = "idle" /\ \A op, id, k, g : Asked(op, id, k, g).pc = "asked"
    BY DEF IdleUser, Asked
  <2>1. CASE Ask(u)
    <3>1. r = req'[u]
      BY <1>3
    <3>2. \E op, id, k, g : req' = [req EXCEPT ![u] = Asked(op, id, k, g)]
      BY <2>1 DEF Ask
    <3> QED
      BY <2>0, <3>1, <3>2, <1>3
  <2>2. CASE ChecksInitialized(u)
    BY <2>0, <2>2, <1>2, <1>3 DEF ChecksInitialized, Ends, Goes, Initialized, TypeInv, TypeOK
  <2>3. CASE FindByKey(u) \/ GetByID(u) \/ Stores(u) \/ Deletes(u) \/ Decrypts(u)
    BY <2>3 DEF FindByKey, GetByID, Stores, Deletes, Decrypts, PassInv, StatusInv
  <2> QED
    BY <2>1, <2>2, <2>3 DEF UserStep
<1>5. r.row = None \/ r.row = req[u].row \/ r.row \in values
  <2>0. IdleUser.row = None /\ \A op, id, k, g : Asked(op, id, k, g).row = None
    BY DEF IdleUser, Asked
  <2>1. CASE Ask(u)
    <3>1. r = req'[u]
      BY <1>3
    <3>2. \E op, id, k, g : req' = [req EXCEPT ![u] = Asked(op, id, k, g)]
      BY <2>1 DEF Ask
    <3> QED
      BY <2>0, <3>1, <3>2, <1>3
  <2>2. CASE Ends(u)
    BY <2>0, <2>2, <1>2, <1>3 DEF Ends
  <2>3. ASSUME NEW pc, Goes(u, pc) PROVE r.row = req[u].row
    BY <2>3, <1>2, <1>3 DEF Goes, UserRequests
  <2>4. CASE FindByKey(u)
    <3>1. ASSUME NEW v \in values, req' = [req EXCEPT ![u].pc = "read", ![u].found = v.id]
          PROVE r.row = req[u].row
      BY <3>1, <1>2, <1>3 DEF UserRequests
    <3> QED
      BY <2>4, <3>1, <2>2, <2>3 DEF FindByKey
  <2>5. CASE GetByID(u)
    <3>1. Ends(u) \/ \E v \in values, pc \in {"decrypt", "write"} : \E w \in {v, None} :
                       req' = [req EXCEPT ![u].pc = pc, ![u].row = w]
      BY <2>5 DEF GetByID, Row
    <3>2. ASSUME NEW v \in values, NEW pc \in {"decrypt", "write"}, NEW w \in {v, None},
                 req' = [req EXCEPT ![u].pc = pc, ![u].row = w]
          PROVE r.row = w
      BY <3>2, <1>2, <1>3 DEF UserRequests
    <3> QED
      BY <3>1, <3>2, <2>2
  <2> QED
    BY <2>1, <2>2, <2>3, <2>4, <2>5 DEF UserStep, ChecksInitialized, Stores, Deletes, Decrypts
<1>6. \A v \in values' : v \in values \/ (v.pass = pass /\ status # None)
  <2>1. Stores(u) \/ values' \subseteq values
    BY DEF UserStep, Ask, ChecksInitialized, FindByKey, GetByID, Deletes, Decrypts, database
  <2>2. CASE Stores(u)
    <3>1. status # None
      BY <2>2 DEF Stores, PassInv, StatusInv
    <3> QED
      BY <2>2, <3>1, StoreWrites
  <2> QED
    BY <2>1, <2>2
<1>7. pass \in MasterPasswords \cup {Empty} /\ MasterPasswords' = MasterPasswords
  BY <1>1 DEF PassInv, UnlockedWithMaster, MasterPasswords
<1>8. pass = Empty /\ r.pc # "idle" => r.vault = "locked"
  <2>0. IdleUser.pc = "idle" /\ req'[u] = r /\ (pass = Empty /\ req[u].pc # "idle" => req[u].vault = "locked")
    BY <1>3 DEF IdleUser, PassInv, StoredReadable, IsLocked
  <2>1. CASE Ask(u)
    BY <2>1 DEF Ask, IsLocked
  <2>2. CASE Ends(u)
    BY <2>0, <2>2, <1>3 DEF Ends, TypeInv, TypeOK
  <2>3. ASSUME req[u].pc # "idle", r.vault = req[u].vault PROVE pass = Empty => r.vault = "locked"
    BY <2>0, <2>3
  <2>4. ASSUME NEW pc, Goes(u, pc) PROVE r.vault = req[u].vault
    BY <2>4, <1>2, <1>3 DEF Goes, UserRequests
  <2>5. CASE ChecksInitialized(u)
    BY <2>2, <2>3, <2>4, <2>5 DEF ChecksInitialized
  <2>6. CASE FindByKey(u)
    <3>1. ASSUME NEW v \in values, req' = [req EXCEPT ![u].pc = "read", ![u].found = v.id]
          PROVE r.vault = req[u].vault
      BY <3>1, <1>2, <1>3 DEF UserRequests
    <3> QED
      BY <2>6, <3>1, <2>2, <2>3, <2>4 DEF FindByKey
  <2>7. CASE GetByID(u)
    <3>1. Ends(u) \/ \E v \in values, pc \in {"decrypt", "write"} : \E w \in {v, None} :
                       req' = [req EXCEPT ![u].pc = pc, ![u].row = w]
      BY <2>7 DEF GetByID, Row
    <3>2. ASSUME NEW v \in values, NEW pc \in {"decrypt", "write"}, NEW w \in {v, None},
                 req' = [req EXCEPT ![u].pc = pc, ![u].row = w]
          PROVE r.vault = req[u].vault
      BY <3>2, <1>2, <1>3 DEF UserRequests
    <3>3. req[u].pc # "idle"
      BY <2>7 DEF GetByID
    <3> QED
      BY <3>1, <3>2, <3>3, <2>2, <2>3
  <2> QED
    BY <2>1, <2>2, <2>5, <2>6, <2>7 DEF UserStep, Stores, Deletes, Decrypts
<1>9. StoredReadable'
  <2>1. \A v \in values' : v.pass \in MasterPasswords \cup {Empty}
    BY <1>6, <1>7 DEF PassInv, StoredReadable
  <2>2. \A w \in Users : req'[w].row # None => req'[w].row.pass \in MasterPasswords \cup {Empty}
    BY <1>3, <1>5 DEF PassInv, StoredReadable
  <2>3. pass = Empty => \A w \in Users : req'[w].pc # "idle" => req'[w].vault = "locked"
    BY <1>3, <1>8 DEF PassInv, StoredReadable, IsLocked
  <2> QED
    BY <1>1, <1>7, <2>1, <2>2, <2>3 DEF StoredReadable, IsLocked
<1>a. StatusInv'
  BY <1>1, <1>3, <1>4, <1>5, <1>6 DEF PassInv, StatusInv
<1>b. DatabaseOpen' /\ AdminInv' /\ UnlockedWithMaster'
  BY <1>1, <1>7 DEF PassInv, DatabaseOpen, AdminInv, UnlockedWithMaster
<1> QED
  BY <1>9, <1>a, <1>b DEF PassInv

\* The vault works with the password of its init, and with more than one only if Inits overlap; it
\* stores with the empty one only if a Lock overtakes a Store.  By PassInv: an Init past its check
\* runs on a database that has no status or has seen another Init write it, and values come only
\* after the status.
THEOREM MasterPassword == Spec => []UnlockedWithMaster /\ []StoredReadable
<1>1. TypeInv /\ PassInv /\ [Next]_vars => PassInv'
  <2> SUFFICES ASSUME TypeInv, PassInv, [Next]_vars PROVE PassInv'
    OBVIOUS
  <2>1. CASE Restart
    <3>1. /\ pass' = Empty /\ UNCHANGED <<file, status, values, replaced>>
          /\ \A a \in Admins : admin'[a].pc = "idle"
          /\ \A u \in Users : req'[u].pc = "idle" /\ req'[u].row = None
      BY <2>1 DEF Restart, IdleAdmin, IdleUser, database
    <3>2. opened' = file
      BY <2>1 DEF Restart
    <3> QED
      BY <3>1, <3>2 DEF PassInv, DatabaseOpen, AdminInv, StatusInv, UnlockedWithMaster, StoredReadable,
                        MasterPasswords
  <2>2. CASE UNCHANGED vars
    BY <2>2 DEF vars, PassInv, DatabaseOpen, AdminInv, StatusInv, UnlockedWithMaster, StoredReadable,
                MasterPasswords, IsLocked
  <2> QED
    BY <2>1, <2>2, AdminKeepsPassInv, UserKeepsPassInv DEF Next
<1>2. PassInv => UnlockedWithMaster /\ StoredReadable
  BY DEF PassInv
<1> QED
  BY <1>1, <1>2, TypesHold, StepKeepsTypes, PassInvHolds, PTL DEF Spec

-----------------------------------------------------------------------------
\* A Store adds a row with a new id, or replaces the row of its id, as the index admits.
LEMMA StoreKeepsValuesInv == ASSUME TypeInv, ValuesInv, NEW u \in Users, Stores(u)
                             PROVE ValuesInv' /\ \A v \in values' : v.id >= nextId \/ \E w \in values : w.id = v.id
<1>0. values \subseteq Values /\ nextId \in 1 .. MaxId + 1 /\ req[u] \in UserRequests
  BY DEF TypeInv, TypeOK
<1>1. \A v \in values : v.id \in Ids
  BY <1>0 DEF Values
<1>2. \A id : Encrypted(u, id).id = id /\ Encrypted(u, id).key = req[u].key
  BY DEF Encrypted
<1>3. CASE req[u].id = 0
  <2> DEFINE n == Encrypted(u, nextId)
  <2>1. CASE IndexAdmits(n)
    <3>1. values' = values \cup {n} /\ nextId' = nextId + 1
      BY <1>3, <2>1 DEF Stores
    <3>2. \A w \in values : w.key # n.key /\ w.id # n.id
      BY <2>1, <1>0, <1>1, <1>2 DEF IndexAdmits, ValuesInv
    <3>3. n.id = nextId
      BY <1>2
    <3> HIDE DEF n
    <3>4. OneValuePerKey'
      BY <3>1, <3>2 DEF ValuesInv, OneValuePerKey
    <3> QED
      BY <3>1, <3>3, <3>4, <1>0, <1>1 DEF ValuesInv
  <2>2. CASE ~IndexAdmits(n)
    <3>1. values' = values /\ nextId' = nextId
      BY <1>3, <2>2 DEF Stores
    <3> QED
      BY <3>1 DEF ValuesInv, OneValuePerKey
  <2> QED
    BY <2>1, <2>2
<1>4. CASE req[u].id # 0
  <2> DEFINE n == Encrypted(u, req[u].id)
  <2>0. nextId' = nextId
    BY <1>4 DEF Stores
  <2>1. CASE Row(req[u].id) # {} /\ IndexAdmits(n)
    <3>1. values' = (values \ Row(req[u].id)) \cup {n}
      BY <1>4, <2>1 DEF Stores
    <3>2. PICK o \in values : o.id = n.id
      BY <2>1, <1>2 DEF Row
    <3>3. \A w \in values \ Row(req[u].id) : w.key # n.key /\ w.id # n.id
      BY <2>1, <1>2 DEF IndexAdmits, Row
    <3> HIDE DEF n
    <3>4. OneValuePerKey'
      BY <3>1, <3>3 DEF ValuesInv, OneValuePerKey
    <3> QED
      BY <3>1, <3>2, <3>4, <2>0 DEF ValuesInv
  <2>2. CASE ~(Row(req[u].id) # {} /\ IndexAdmits(n))
    <3>1. values' = values
      BY <1>4, <2>2 DEF Stores
    <3> QED
      BY <3>1, <2>0 DEF ValuesInv, OneValuePerKey
  <2> QED
    BY <2>1, <2>2
<1> QED
  BY <1>3, <1>4

\* Every step keeps the values apart and gives out new ids only.
LEMMA StepKeepsValuesInv ==
    ASSUME TypeInv, ValuesInv, [Next]_vars
    PROVE ValuesInv' /\ \A v \in values' : v.id >= nextId \/ \E w \in values : w.id = v.id
<1>1. ASSUME values' \subseteq values, nextId' = nextId
      PROVE ValuesInv' /\ \A v \in values' : v.id >= nextId \/ \E w \in values : w.id = v.id
  BY <1>1 DEF ValuesInv, OneValuePerKey
<1>2. CASE (\E a \in Admins : AdminStep(a)) \/ Restart \/ UNCHANGED vars
  <2>1. values' = values /\ nextId' = nextId
    BY <1>2, AdminLeaves DEF Restart, database, vars
  <2> QED
    BY <1>1, <2>1
<1>3. ASSUME NEW u \in Users, UserStep(u)
      PROVE ValuesInv' /\ \A v \in values' : v.id >= nextId \/ \E w \in values : w.id = v.id
  <2>1. Stores(u) \/ (values' \subseteq values /\ nextId' = nextId)
    BY <1>3 DEF UserStep, Ask, ChecksInitialized, FindByKey, GetByID, Deletes, Decrypts, database
  <2> QED
    BY <1>1, <2>1, StoreKeepsValuesInv
<1> QED
  BY <1>2, <1>3 DEF Next

\* A key has one value and an id is given out once.  By ValuesInv: all ids are below the next one,
\* and the unique index holds whatever Store looked up before.
THEOREM KeysAndIds == Spec => []OneValuePerKey /\ IdsAreFresh
<1>1. Init => ValuesInv
  BY DEF Init, ValuesInv, OneValuePerKey
<1>2. TypeInv /\ ValuesInv /\ [Next]_vars => ValuesInv'
  BY StepKeepsValuesInv
<1>3. TypeInv /\ ValuesInv /\ [Next]_vars
        => [\A v \in values' : v.id >= nextId \/ \E w \in values : w.id = v.id]_vars
  BY StepKeepsValuesInv
<1>4. ValuesInv => OneValuePerKey
  BY DEF ValuesInv
<1> QED
  BY <1>1, <1>2, <1>3, <1>4, TypesHold, StepKeepsTypes, PTL DEF Spec, IdsAreFresh

\* The types of the vault.
THEOREM TypeCorrect == Spec => []TypeOK
<1>1. TypeInv => TypeOK
  BY DEF TypeInv
<1> QED
  BY <1>1, TypesHold, StepKeepsTypes, PTL DEF Spec
-----------------------------------------------------------------------------
(* The libraries.                                                          *)

Entries == [name : Names, createdBy : Authors, updatedBy : Authors \cup {None}]

LibraryRequests == [pc : {"idle", "get", "list", "write"}, op : {None, "create", "update", "delete"},
                    id : Uuids \cup {None}, name : Names \cup {None}, by : Authors \cup {None}]

\* A request under way has what its operation works with.
Complete(q) ==
    q.pc # "idle" =>
        /\ q.op \in {"update", "delete"} => q.id \in Uuids
        /\ q.op \in {"create", "update"} => q.name \in Names /\ q.by \in Authors

LibraryTypes ==
    /\ kind \in {"script", "command"}
    /\ table \in [Uuids -> Entries \cup {None}]
    /\ uuids \subseteq Uuids
    /\ entries \in [Requests -> LibraryRequests]
    /\ \A r \in Requests : Complete(entries[r])

\* The inductive invariant: rows are under UUIDs that were generated.
LibraryInv == LibraryTypes /\ NamesUnique /\ \A i \in Uuids : table[i] # None => i \in uuids

\* What a step may do to the rows.
KeepsEntries ==
    \A i \in Uuids :
        /\ table[i] # None /\ table'[i] # None => table'[i].createdBy = table[i].createdBy
        /\ i \in uuids /\ table[i] = None => table'[i] = None

LEMMA LibraryInit == L!Init => LibraryInv
<1> SUFFICES ASSUME L!Init PROVE LibraryInv
  OBVIOUS
<1>1. L!NoRequest \in LibraryRequests /\ Complete(L!NoRequest)
  BY DEF L!NoRequest, LibraryRequests, Complete
<1>2. LibraryTypes
  BY <1>1 DEF L!Init, LibraryTypes
<1> QED
  BY <1>2 DEF L!Init, LibraryInv, NamesUnique, L!NamesUnique

LibraryStep(r) ==
    \/ L!Create(r) \/ L!Update(r) \/ L!Delete(r) \/ L!GetsByID(r) \/ L!ListsByName(r)
    \/ L!Inserts(r) \/ L!Updates(r) \/ L!Deletes(r) \/ L!Fails(r)

\* Every step leaves the request complete.
LEMMA LibraryRequestStep ==
  ASSUME LibraryTypes, NEW r \in Requests, LibraryStep(r)
  PROVE  entries' \in [Requests -> LibraryRequests] /\ \A x \in Requests : Complete(entries'[x])
<1> DEFINE Becomes(q) == q \in LibraryRequests /\ Complete(q) /\ entries' = [entries EXCEPT ![r] = q]
<1>1. \E q : Becomes(q)
  <2>0. L!NoRequest \in LibraryRequests /\ Complete(L!NoRequest)
    BY DEF L!NoRequest, LibraryRequests, Complete
  <2>1. CASE L!Create(r)
    <3> PICK n \in Names, u \in Authors :
          entries' = [entries EXCEPT ![r] = [L!NoRequest EXCEPT !.pc = "list", !.op = "create", !.name = n, !.by = u]]
      BY <2>1 DEF L!Create
    <3> WITNESS [L!NoRequest EXCEPT !.pc = "list", !.op = "create", !.name = n, !.by = u]
    <3> QED
      BY DEF L!NoRequest, LibraryRequests, Complete
  <2>2. CASE L!Update(r)
    <3> PICK i \in Uuids, n \in Names, u \in Authors :
          entries' = [entries EXCEPT ![r] = [pc |-> "get", op |-> "update", id |-> i, name |-> n, by |-> u]]
      BY <2>2 DEF L!Update
    <3> WITNESS [pc |-> "get", op |-> "update", id |-> i, name |-> n, by |-> u]
    <3> QED
      BY DEF LibraryRequests, Complete
  <2>3. CASE L!Delete(r)
    <3> PICK i \in Uuids :
          entries' = [entries EXCEPT ![r] = [L!NoRequest EXCEPT !.pc = "get", !.op = "delete", !.id = i]]
      BY <2>3 DEF L!Delete
    <3> WITNESS [L!NoRequest EXCEPT !.pc = "get", !.op = "delete", !.id = i]
    <3> QED
      BY DEF L!NoRequest, LibraryRequests, Complete
  <2>4. ASSUME NEW pc \in {"list", "write"}, L!Goes(r, pc), entries[r].pc # "idle" PROVE \E q : Becomes(q)
    <3> WITNESS [entries[r] EXCEPT !.pc = pc]
    <3> QED
      BY <2>4 DEF L!Goes, LibraryTypes, LibraryRequests, Complete
  <2>5. CASE L!GetsByID(r) \/ L!ListsByName(r)
    <3>1. entries[r].pc # "idle" /\ (L!Ends(r) \/ L!Goes(r, "list") \/ L!Goes(r, "write"))
      BY <2>5 DEF L!GetsByID, L!ListsByName
    <3> QED
      BY <2>0, <2>4, <3>1 DEF L!Ends
  <2>6. CASE L!Inserts(r) \/ L!Updates(r) \/ L!Deletes(r) \/ L!Fails(r)
    BY <2>0, <2>6 DEF L!Inserts, L!Updates, L!Deletes, L!Fails, L!Ends
  <2> QED
    BY <2>1, <2>2, <2>3, <2>5, <2>6 DEF LibraryStep
<1> QED
  BY <1>1 DEF LibraryTypes

\* Every step keeps the names apart, each entry its creator's, and deleted entries deleted.
LEMMA LibraryTableStep ==
  ASSUME LibraryInv, NEW r \in Requests, LibraryStep(r)
  PROVE  LibraryInv' /\ KeepsEntries
<1> USE DEF LibraryInv
<1>0. entries' \in [Requests -> LibraryRequests] /\ \A x \in Requests : Complete(entries'[x])
  BY LibraryRequestStep
<1>1. CASE L!Inserts(r)
  <2> DEFINE e == [name |-> entries[r].name, createdBy |-> entries[r].by,
                   updatedBy |-> IF kind = "command" THEN entries[r].by ELSE None]
  <2>1. e \in Entries /\ e.name = entries[r].name
    BY <1>1 DEF L!Inserts, LibraryTypes, Complete, Entries
  <2>2. PICK i \in Uuids \ uuids :
           /\ uuids' = uuids \cup {i}
           /\ table' = IF L!IndexAdmits(i, entries[r].name) THEN [table EXCEPT ![i] = e] ELSE table
    BY <1>1 DEF L!Inserts
  <2> HIDE DEF e
  <2>3. table[i] = None /\ kind' = kind
    BY <1>1 DEF L!Inserts
  <2>4. LibraryTypes' /\ \A j \in Uuids : table'[j] # None => j \in uuids'
    BY <1>0, <2>1, <2>2, <2>3 DEF LibraryTypes
  <2>5. NamesUnique'
    BY <2>1, <2>2 DEF LibraryTypes, NamesUnique, L!NamesUnique, L!IndexAdmits, L!Others
  <2>6. KeepsEntries
    BY <2>2, <2>3 DEF KeepsEntries, LibraryTypes
  <2> QED
    BY <2>4, <2>5, <2>6
<1>2. CASE L!Updates(r)
  <2> DEFINE i == entries[r].id
             e == [table[i] EXCEPT !.name = entries[r].name,
                                   !.updatedBy = IF kind = "command" THEN entries[r].by ELSE None]
  <2>1. i \in Uuids /\ kind' = kind /\ uuids' = uuids
    BY <1>2 DEF L!Updates, LibraryTypes, Complete
  <2>2. table' = IF table[i] # None /\ L!IndexAdmits(i, entries[r].name) THEN [table EXCEPT ![i] = e] ELSE table
    BY <1>2 DEF L!Updates
  <2>3. table[i] # None => e \in Entries /\ e.name = entries[r].name /\ e.createdBy = table[i].createdBy
    BY <1>2, <2>1 DEF L!Updates, LibraryTypes, Complete, Entries
  <2> HIDE DEF e, i
  <2>4. LibraryTypes' /\ \A j \in Uuids : table'[j] # None => j \in uuids'
    BY <1>0, <2>1, <2>2, <2>3 DEF LibraryTypes
  <2>5. NamesUnique'
    BY <2>1, <2>2, <2>3 DEF LibraryTypes, NamesUnique, L!NamesUnique, L!IndexAdmits, L!Others
  <2>6. KeepsEntries
    BY <2>1, <2>2, <2>3 DEF KeepsEntries, LibraryTypes
  <2> QED
    BY <2>4, <2>5, <2>6
<1>3. CASE L!Deletes(r)
  <2>1. kind' = kind /\ uuids' = uuids /\ table' = [table EXCEPT ![entries[r].id] = None]
    BY <1>3 DEF L!Deletes
  <2> QED
    BY <1>0, <2>1 DEF LibraryTypes, NamesUnique, L!NamesUnique, KeepsEntries
<1>4. CASE L!Create(r) \/ L!Update(r) \/ L!Delete(r) \/ L!GetsByID(r) \/ L!ListsByName(r) \/ L!Fails(r)
  <2>1. kind' = kind /\ table' = table /\ uuids' = uuids
    BY <1>4 DEF L!Create, L!Update, L!Delete, L!GetsByID, L!ListsByName, L!Fails
  <2> QED
    BY <1>0, <2>1 DEF LibraryTypes, NamesUnique, L!NamesUnique, KeepsEntries
<1> QED
  BY <1>1, <1>2, <1>3, <1>4 DEF LibraryStep

\* The other parts leave the libraries alone.
LEMMA LibraryNext ==
    LibraryInv /\ [TablesNext]_<<vars, part, library, userTables, groups>> =>
        LibraryInv' /\ [KeepsEntries]_<<kind, table, uuids, entries>>
<1> SUFFICES ASSUME LibraryInv, [TablesNext]_<<vars, part, library, userTables, groups>>
             PROVE  LibraryInv' /\ [KeepsEntries]_<<kind, table, uuids, entries>>
  OBVIOUS
<1>1. CASE L!Next
  BY <1>1, LibraryTableStep DEF L!Next, LibraryStep
<1>2. CASE UNCHANGED library
  BY <1>2 DEF library, LibraryInv, LibraryTypes, NamesUnique, L!NamesUnique
<1> QED
  BY <1>1, <1>2 DEF TablesNext

\* No two entries of a library have one name, and an entry is its creator's for good and gone once
\* deleted: for any number of requests whose lookups and writes interleave (Manager.Create, Update
\* and Delete).  The unique index carries the first, the WHERE of the UPDATE the second.
THEOREM LibraryEntries == TablesSpec => []NamesUnique /\ EntriesKept
<1>1. TablesInit => LibraryInv
  BY LibraryInit DEF TablesInit
<1>2. LibraryInv => NamesUnique
  BY DEF LibraryInv
<1>3. KeepsEntries <=> \A i \in Uuids :
        /\ table[i] # None /\ table'[i] # None => table'[i].createdBy = table[i].createdBy
        /\ i \in uuids /\ table[i] = None => table'[i] = None
  BY DEF KeepsEntries
<1> QED
  BY <1>1, <1>2, <1>3, LibraryNext, PTL DEF TablesSpec, EntriesKept, L!EntriesKept, L!vars
-----------------------------------------------------------------------------
(* The users in a database.                                                *)

ChangeRequests == [pc : {"idle", "check", "checkNew", "call"}, op : {None, "add", "update", "delete"},
                   name : Names \cup {None}, new : Names \cup {None}, groups : (SUBSET UserGroups) \cup {Keep}]

\* A request under way has what its operation works with.
Asks(q) ==
    q.pc # "idle" =>
        /\ q.name \in Names /\ q.new \in Names
        /\ q.op = "add" => q.groups \subseteq UserGroups

UserTypes ==
    /\ users \subseteq Names
    /\ rows \subseteq Names \X UserGroups
    /\ given \in [Names -> SUBSET UserGroups]
    /\ lost \subseteq Names
    /\ changes \in [Requests -> ChangeRequests]
    /\ \A r \in Requests : Asks(changes[r])

UserInv == UserTypes /\ GroupsAsGiven

LEMMA UserInit == D!Init => UserInv
<1> SUFFICES ASSUME D!Init PROVE UserInv
  OBVIOUS
<1>1. D!NoRequest \in ChangeRequests /\ Asks(D!NoRequest)
  BY DEF D!NoRequest, ChangeRequests, Asks
<1>2. UserTypes
  BY <1>1 DEF D!Init, UserTypes
<1> QED
  BY <1>2 DEF D!Init, UserInv, GroupsAsGiven, D!GroupsAsGiven, D!RowsOf

DatabaseStep(r) ==
    \/ D!AskToAdd(r) \/ D!AskToUpdate(r) \/ D!AskToDelete(r)
    \/ D!Check(r) \/ D!CheckNew(r) \/ D!Add(r) \/ D!Update(r) \/ D!Delete(r) \/ D!Fails(r)

LEMMA ChangeStep ==
  ASSUME UserTypes, NEW r \in Requests, DatabaseStep(r)
  PROVE  changes' \in [Requests -> ChangeRequests] /\ \A x \in Requests : Asks(changes'[x])
<1> DEFINE Becomes(q) == q \in ChangeRequests /\ Asks(q) /\ changes' = [changes EXCEPT ![r] = q]
<1>1. \E q : Becomes(q)
  <2>0. D!NoRequest \in ChangeRequests /\ Asks(D!NoRequest)
    BY DEF D!NoRequest, ChangeRequests, Asks
  <2>1. ASSUME NEW op \in {"add", "update", "delete"}, NEW n \in Names, NEW m \in Names,
               NEW gs \in (SUBSET UserGroups) \cup {Keep}, op = "add" => gs \subseteq UserGroups,
               D!Asked(r, op, n, m, gs)
        PROVE  \E q : Becomes(q)
    <3> WITNESS [pc |-> "check", op |-> op, name |-> n, new |-> m, groups |-> gs]
    <3> QED
      BY <2>1 DEF D!Asked, ChangeRequests, Asks
  <2>2. CASE D!AskToAdd(r) \/ D!AskToUpdate(r) \/ D!AskToDelete(r)
    BY <2>1, <2>2 DEF D!AskToAdd, D!AskToUpdate, D!AskToDelete
  <2>3. ASSUME NEW pc \in {"checkNew", "call"}, D!Goes(r, pc), changes[r].pc # "idle" PROVE \E q : Becomes(q)
    <3> WITNESS [changes[r] EXCEPT !.pc = pc]
    <3> QED
      BY <2>3 DEF D!Goes, UserTypes, ChangeRequests, Asks
  <2>4. CASE D!Check(r) \/ D!CheckNew(r)
    <3>1. changes[r].pc # "idle" /\ (D!Ends(r) \/ D!Goes(r, "checkNew") \/ D!Goes(r, "call"))
      BY <2>4 DEF D!Check, D!CheckNew
    <3> QED
      BY <2>0, <2>3, <3>1 DEF D!Ends
  <2>5. CASE D!Add(r) \/ D!Update(r) \/ D!Delete(r) \/ D!Fails(r)
    BY <2>0, <2>5 DEF D!Add, D!Update, D!Delete, D!Fails, D!Ends
  <2> QED
    BY <2>2, <2>4, <2>5 DEF DatabaseStep
<1> QED
  BY <1>1 DEF UserTypes

\* The rows of a name after UPDATE of its name in the table of groups.
LEMMA RenamedGroups ==
  ASSUME UserTypes, NEW n \in Names, NEW m \in Names, NEW x \in Names
  PROVE  /\ D!RenamedRows(n, m) \subseteq Names \X UserGroups
         /\ {g \in UserGroups : <<x, g>> \in D!RenamedRows(n, m)}
              = CASE n = m -> D!RowsOf(x)
                  [] n # m /\ x = n -> {}
                  [] n # m /\ x = m -> D!RowsOf(n) \cup D!RowsOf(m)
                  [] x \notin {n, m} -> D!RowsOf(x)
<1>1. CASE n = m
  BY <1>1 DEF UserTypes, D!RenamedRows, D!RowsOf
<1>2. CASE n # m
  <2>1. /\ D!RenamedRows(n, m) = D!Without(n) \cup D!With(m, D!RowsOf(n))
        /\ D!RenamedRows(n, m) \subseteq Names \X UserGroups
    <3>1. D!RenamedRows(n, m) = D!Without(n) \cup D!With(m, D!RowsOf(n))
      BY <1>2 DEF D!RenamedRows
    <3>2. D!Without(n) \subseteq Names \X UserGroups
      BY DEF UserTypes, D!Without
    <3>3. D!With(m, D!RowsOf(n)) \subseteq Names \X UserGroups
      <4>1. \A g \in D!RowsOf(n) : <<m, g>> \in Names \X UserGroups
        BY DEF D!RowsOf
      <4> QED
        BY <4>1 DEF D!With
    <3> QED
      BY <3>1, <3>2, <3>3
  <2>2. \A g \in UserGroups : /\ <<x, g>> \in D!Without(n) <=> x # n /\ g \in D!RowsOf(x)
                              /\ <<x, g>> \in D!With(m, D!RowsOf(n)) <=> x = m /\ g \in D!RowsOf(n)
    BY DEF D!Without, D!With, D!RowsOf
  <2>3. D!RowsOf(x) \subseteq UserGroups /\ D!RowsOf(n) \subseteq UserGroups
    BY DEF D!RowsOf
  <2>4. CASE x = n
    BY <1>2, <2>1, <2>2, <2>4
  <2>5. CASE x = m
    BY <1>2, <2>1, <2>2, <2>3, <2>5
  <2>6. CASE x \notin {n, m}
    BY <1>2, <2>1, <2>2, <2>3, <2>6
  <2> QED
    BY <2>4, <2>5, <2>6
<1> QED
  BY <1>1, <1>2

\* After an Update each name that is not lost has what it was given.
LEMMA UpdateStep == ASSUME UserInv, NEW r \in Requests, D!Update(r)
                    PROVE  /\ users' \subseteq Names /\ rows' \subseteq Names \X UserGroups
                           /\ given' \in [Names -> SUBSET UserGroups] /\ lost' \subseteq Names
                           /\ GroupsAsGiven'
<1> DEFINE n == changes[r].name
           m == changes[r].new
           gs == changes[r].groups
<1>1. n \in Names /\ m \in Names /\ (gs # Keep => gs \subseteq UserGroups)
  BY DEF D!Update, UserInv, UserTypes, Asks, ChangeRequests
<1>2. /\ n # m => ~(n \in users /\ m \in users) /\ D!RowsOf(n) \cap D!RowsOf(m) = {}
      /\ users' = IF n \in users THEN (users \ {n}) \cup {m} ELSE users
      /\ rows' = IF gs = Keep THEN D!RenamedRows(n, m)
                 ELSE {x \in D!RenamedRows(n, m) : x[1] # m} \cup D!With(m, gs)
      /\ given' = IF n \in users THEN [given EXCEPT ![n] = {}, ![m] = IF gs = Keep THEN given[n] ELSE gs] ELSE given
      /\ lost' = D!Astray(n, m, gs)
  BY DEF D!Update
<1> HIDE DEF n, m, gs
<1>3. /\ users' \subseteq Names /\ rows' \subseteq Names \X UserGroups
      /\ given' \in [Names -> SUBSET UserGroups] /\ lost' \subseteq Names
  BY <1>1, <1>2, RenamedGroups DEF UserInv, UserTypes, D!With, D!Astray
<1>4. ASSUME NEW x \in Names
      PROVE  D!RowsOf(x)' = CASE x = m /\ gs # Keep -> gs
                              [] x # m /\ x = n -> {}
                              [] x = m /\ gs = Keep -> D!RowsOf(n) \cup D!RowsOf(m)
                              [] x \notin {n, m} -> D!RowsOf(x)
  <2>1. UserTypes
    BY DEF UserInv
  <2> DEFINE renamed == {g \in UserGroups : <<x, g>> \in D!RenamedRows(n, m)}
  <2>2. renamed = CASE n = m -> D!RowsOf(x)
                    [] n # m /\ x = n -> {}
                    [] n # m /\ x = m -> D!RowsOf(n) \cup D!RowsOf(m)
                    [] x \notin {n, m} -> D!RowsOf(x)
    BY <1>1, <2>1, RenamedGroups
  <2>3. D!RowsOf(x)' = {g \in UserGroups : <<x, g>> \in rows'}
    BY DEF D!RowsOf
  <2>4. CASE gs = Keep
    <3>1. D!RowsOf(x)' = renamed
      BY <1>2, <2>3, <2>4
    <3> QED
      BY <2>2, <2>4, <3>1
  <2>5. CASE gs # Keep
    <3>1. D!RowsOf(x)' = IF x = m THEN gs ELSE renamed
      BY <1>1, <1>2, <2>3, <2>5 DEF D!With
    <3> QED
      BY <2>2, <2>5, <3>1
  <2> QED
    BY <2>4, <2>5
<1>5. GroupsAsGiven'
  <2> SUFFICES ASSUME NEW x \in Names, x \notin lost'
               PROVE  D!RowsOf(x)' = IF x \in users' THEN given'[x] ELSE {}
    BY DEF GroupsAsGiven, D!GroupsAsGiven
  <2>1. \A y \in Names \ lost : D!RowsOf(y) = IF y \in users THEN given[y] ELSE {}
    BY DEF UserInv, GroupsAsGiven, D!GroupsAsGiven
  <2>2. given \in [Names -> SUBSET UserGroups] /\ users \subseteq Names /\ lost \subseteq Names
    BY DEF UserInv, UserTypes
  <2>3. CASE gs # Keep /\ n \in users
    BY <1>1, <1>2, <1>4, <2>1, <2>2, <2>3 DEF D!Astray
  <2>4. CASE gs # Keep /\ n \notin users
    BY <1>1, <1>2, <1>4, <2>1, <2>2, <2>4 DEF D!Astray
  <2>5. CASE gs = Keep /\ n = m
    BY <1>1, <1>2, <1>4, <2>1, <2>2, <2>5 DEF D!Astray
  <2>6. CASE gs = Keep /\ n # m
    BY <1>1, <1>2, <1>4, <2>1, <2>2, <2>6 DEF D!Astray
  <2> QED
    BY <2>3, <2>4, <2>5, <2>6
<1> QED
  BY <1>3, <1>5

LEMMA UserTableStep == ASSUME UserInv, NEW r \in Requests, DatabaseStep(r) PROVE UserInv'
<1>0. changes' \in [Requests -> ChangeRequests] /\ \A x \in Requests : Asks(changes'[x])
  BY ChangeStep DEF UserInv
<1>1. CASE D!Add(r)
  <2> DEFINE n == changes[r].name
             gs == changes[r].groups
  <2>1. n \in Names /\ gs \subseteq UserGroups
    BY <1>1 DEF D!Add, UserInv, UserTypes, Asks
  <2>2. /\ n \notin users /\ users' = users \cup {n} /\ rows' = rows \cup D!With(n, gs)
        /\ given' = [given EXCEPT ![n] = gs] /\ lost' = lost
    BY <1>1 DEF D!Add
  <2> HIDE DEF n, gs
  <2>3. UserTypes'
    BY <1>0, <2>1, <2>2 DEF UserInv, UserTypes, D!With
  <2>4. \A x \in Names : D!RowsOf(x)' = IF x = n THEN D!RowsOf(x) \cup gs ELSE D!RowsOf(x)
    BY <2>1, <2>2 DEF D!RowsOf, D!With
  <2> QED
    BY <2>1, <2>2, <2>3, <2>4, ZenonT(40) DEF UserInv, UserTypes, GroupsAsGiven, D!GroupsAsGiven
<1>2. CASE D!Update(r)
  BY <1>0, <1>2, UpdateStep DEF UserInv, UserTypes
<1>3. CASE D!Delete(r)
  <2> DEFINE n == changes[r].name
  <2>1. /\ users' = users \ {n} /\ rows' = D!Without(n)
        /\ given' = [given EXCEPT ![n] = {}] /\ lost' = lost \ {n}
    BY <1>3 DEF D!Delete
  <2> HIDE DEF n
  <2>2. UserTypes'
    BY <1>0, <2>1 DEF UserInv, UserTypes, D!Without
  <2>3. \A x \in Names : D!RowsOf(x)' = IF x = n THEN {} ELSE D!RowsOf(x)
    BY <2>1 DEF D!RowsOf, D!Without
  <2> QED
    BY <2>1, <2>2, <2>3 DEF UserInv, UserTypes, GroupsAsGiven, D!GroupsAsGiven
<1>4. CASE \/ D!AskToAdd(r) \/ D!AskToUpdate(r) \/ D!AskToDelete(r)
           \/ D!Check(r) \/ D!CheckNew(r) \/ D!Fails(r)
  <2>1. UNCHANGED <<users, rows, given, lost>>
    BY <1>4 DEF D!AskToAdd, D!AskToUpdate, D!AskToDelete, D!Asked, D!Check, D!CheckNew, D!Fails
  <2> QED
    BY <1>0, <2>1 DEF UserInv, UserTypes, GroupsAsGiven, D!GroupsAsGiven, D!RowsOf
<1> QED
  BY <1>1, <1>2, <1>3, <1>4 DEF DatabaseStep

\* A user has the groups it was last given and nobody else has any, for any number of requests whose
\* lookups and transactions interleave, but for the names under which an Update wrote groups when
\* its user was gone (UserDatabase.Add, Update, Delete).
THEOREM GroupsBelongToUsers == TablesSpec => []GroupsAsGiven
<1>1. TablesInit => UserInv
  BY UserInit DEF TablesInit
<1>2. UserInv /\ [TablesNext]_<<vars, part, library, userTables, groups>> => UserInv'
  <2> SUFFICES ASSUME UserInv, [TablesNext]_<<vars, part, library, userTables, groups>> PROVE UserInv'
    OBVIOUS
  <2>1. CASE D!Next
    BY <2>1, UserTableStep DEF D!Next, DatabaseStep
  <2>2. CASE UNCHANGED userTables
    BY <2>2 DEF userTables, UserInv, UserTypes, GroupsAsGiven, D!GroupsAsGiven, D!RowsOf
  <2> QED
    BY <2>1, <2>2 DEF TablesNext
<1>3. UserInv => GroupsAsGiven
  BY DEF UserInv
<1> QED
  BY <1>1, <1>2, <1>3, PTL DEF TablesSpec
=============================================================================
