------------------------------- MODULE PingProofs -------------------------------
(***************************************************************************)
(* The list of the ping handler for any clients, requests, sequence space  *)
(* and clock.  The inductive invariant names the nodes of the list in      *)
(* order, s[1] to s[n], and says of next, prev and expire what they are    *)
(* for each; what Walk and FirstIn find follows from it by induction.      *)
(***************************************************************************)
EXTENDS Ping, FiniteSetTheorems, WellFoundedInduction, TLAPS

(* The nodes lv are linked through nx and pv, from h on, in the order s,   *)
(* which is the order of the times ex.                                     *)
Linked(n, s, h, nx, pv, ex, lv) ==
  /\ s \in [1 .. n -> Pings]
  /\ \A i, j \in 1 .. n : s[i] = s[j] => i = j
  /\ \A q \in lv : \E i \in 1 .. n : s[i] = q
  /\ \A i \in 1 .. n : s[i] \in lv
  /\ h = IF n = 0 THEN NULL ELSE s[1]
  /\ \A i \in 1 .. n : nx[s[i]] = IF i = n THEN NULL ELSE s[i + 1]
  /\ \A i \in 2 .. n : pv[s[i]] = s[i - 1] /\ ex[s[i - 1]] <= ex[s[i]]

InList(n, s) == Linked(n, s, ping_list, next, prev, expire, live)

Chained == \E n \in Nat : \E s \in [1 .. n -> Pings] : InList(n, s)

(* A node that no request has been made in is not on the list; the others  *)
(* are on it, and not answered, or off it, and answered once.              *)
Answered ==
  \A p \in Pings :
    /\ asker[p] = NULL => p \notin live /\ answers[p] = 0
    /\ asker[p] # NULL /\ ~destroyed => answers[p] = IF p \in live THEN 0 ELSE 1

IInv == TypeOK /\ Chained /\ Answered /\ NoUnwatchedPing

-----------------------------------------------------------------------------
(* Induction, from the well-foundedness of the natural numbers.            *)
LEMMA Induction ==
  ASSUME NEW S, 0 \in S, \A n \in Nat : n \in S => n + 1 \in S
  PROVE  Nat \subseteq S
<1> SUFFICES ASSUME Nat \ S # {} PROVE FALSE
  OBVIOUS
<1>1. PICK x \in Nat \ S : \A y \in Nat \ S : ~(<<y, x>> \in OpToRel(<, Nat))
  BY NatLessThanWellFounded, WFMin
<1>2. \A y \in Nat \ S : ~(y < x)
  BY <1>1 DEF OpToRel
<1>3. x # 0  OBVIOUS
<1>4. x - 1 \in S  BY <1>2, <1>3
<1> QED  BY <1>3, <1>4

(* A non-empty set of natural numbers has a least element.                 *)
LEMMA Least ==
  ASSUME NEW T, T \subseteq Nat, T # {}
  PROVE  \E x \in T : \A y \in T : x <= y
<1>1. PICK x \in T : \A y \in T : ~(<<y, x>> \in OpToRel(<, Nat))
  BY NatLessThanWellFounded, WFMin
<1>2. \A y \in T : ~(y < x)
  BY <1>1 DEF OpToRel
<1> QED  BY <1>2

-----------------------------------------------------------------------------
(* The walk along a list that is linked.                                   *)

LEMMA PingsFinite == Cardinality(Pings) \in Nat
BY PingAssumption, FS_CardinalityType

(* The nodes of the list are different ones, so the list is never longer   *)
(* than there are nodes.                                                   *)
LEMMA ListFits ==
  ASSUME NEW n \in Nat, NEW s \in [1 .. n -> Pings], InList(n, s)
  PROVE  n <= Cardinality(Pings)
<1>1. IsFiniteSet(1 .. n) /\ Cardinality(1 .. n) = n
  <2>1. 1 \in Int /\ n \in Int  OBVIOUS
  <2> QED  BY <2>1, FS_Interval
<1>2. s \in Injection(1 .. n, Pings)
  BY DEF InList, Linked, Injection, IsInjective
<1> QED  BY <1>1, <1>2, FS_Injection, PingAssumption

LEMMA WalkUnfolds ==
  ASSUME NEW n \in Nat, NEW s \in [1 .. n -> Pings], InList(n, s)
  PROVE  /\ Walk = [i \in 1 .. Cardinality(Pings) + 1 |-> IF i <= n THEN s[i] ELSE NULL]
<1> DEFINE C == Cardinality(Pings)
           D(g) == [i \in 1 .. C + 1 |->
                     IF i = 1 THEN ping_list
                     ELSE IF g[i - 1] = NULL THEN NULL ELSE next[g[i - 1]]]
           v == [i \in 1 .. C + 1 |-> IF i <= n THEN s[i] ELSE NULL]
<1>0. C \in Nat  BY PingsFinite
<1>1. v = D(v)
  <2> SUFFICES ASSUME NEW i \in 1 .. C + 1 PROVE v[i] = D(v)[i]
    OBVIOUS
  <2>1. CASE i = 1  BY <2>1, <1>0 DEF InList, Linked
  <2>2. CASE i # 1
    <3>1. i - 1 \in 1 .. C + 1  BY <2>2, <1>0
    <3>2. CASE i - 1 <= n
      BY <3>1, <3>2, <2>2, <1>0, PingAssumption DEF InList, Linked
    <3>3. CASE ~(i - 1 <= n)
      BY <3>1, <3>3, <2>2, <1>0
    <3> QED  BY <3>2, <3>3
  <2> QED  BY <2>1, <2>2
<1>2. Walk = CHOOSE w : w = D(w)  BY DEF Walk
<1>3. Walk = D(Walk)  BY <1>1, <1>2, ZenonT(60)
<1>4. \A i \in 1 .. C + 1 : Walk[i] = IF i = 1 THEN ping_list
                     ELSE IF Walk[i - 1] = NULL THEN NULL ELSE next[Walk[i - 1]]
  <2> HIDE DEF D
  <2>1. \A i \in 1 .. C + 1 : Walk[i] = D(Walk)[i]  BY <1>3
  <2> QED  BY <2>1 DEF D
<1>5. \A i \in 1 .. C + 1 : v[i] = IF i = 1 THEN ping_list
                     ELSE IF v[i - 1] = NULL THEN NULL ELSE next[v[i - 1]]
  <2> HIDE DEF D, v
  <2>1. \A i \in 1 .. C + 1 : v[i] = D(v)[i]  BY <1>1
  <2> QED  BY <2>1 DEF D
<1> DEFINE S == {m \in Nat : m \in 1 .. C + 1 => Walk[m] = v[m]}
<1>6. 0 \in S  OBVIOUS
<1>7. ASSUME NEW m \in Nat, m \in S PROVE m + 1 \in S
  <2> HIDE DEF v
  <2> SUFFICES ASSUME m + 1 \in 1 .. C + 1 PROVE Walk[m + 1] = v[m + 1]
    OBVIOUS
  <2>1. CASE m = 0  BY <2>1, <1>4, <1>5
  <2>2. CASE m # 0
    <3>1. m \in 1 .. C + 1 /\ m + 1 # 1 /\ (m + 1) - 1 = m  BY <2>2, <1>0
    <3>2. Walk[m] = v[m]  BY <3>1, <1>7
    <3> QED  BY <3>1, <3>2, <1>4, <1>5
  <2> QED  BY <2>1, <2>2
<1>8. Nat \subseteq S
  <2> HIDE DEF S
  <2> QED  BY <1>6, <1>7, Induction
<1>9. \A i \in 1 .. C + 1 : Walk[i] = v[i]
  <2> HIDE DEF v
  <2>1. \A i \in 1 .. C + 1 : i \in Nat /\ i \in S  BY <1>8, <1>0
  <2> QED  BY <2>1
<1>10. Walk = [i \in 1 .. C + 1 |-> Walk[i]]
  <2> HIDE DEF v
  <2>1. \A g : D(g) = [i \in 1 .. C + 1 |-> D(g)[i]]  OBVIOUS
  <2> HIDE DEF D
  <2> QED  BY <2>1, <1>3
<1> HIDE DEF S
<1> QED  BY <1>9, <1>10

LEMMA WalkIs ==
  ASSUME NEW n \in Nat, NEW s \in [1 .. n -> Pings], InList(n, s)
  PROVE  /\ DOMAIN Walk = 1 .. Cardinality(Pings) + 1
         /\ \A i \in 1 .. n : i \in DOMAIN Walk /\ Walk[i] = s[i] /\ Walk[i] # NULL
         /\ \A i \in DOMAIN Walk : i \in Nat /\ i >= 1 /\ (i > n => Walk[i] = NULL)
         /\ n + 1 \in DOMAIN Walk
BY WalkUnfolds, PingsFinite, ListFits, PingAssumption

(* The walk meets the nodes that are allocated, and no others.             *)
LEMMA OnListIsLive ==
  ASSUME NEW n \in Nat, NEW s \in [1 .. n -> Pings], InList(n, s)
  PROVE  OnList = live
<1>1. ASSUME NEW q \in OnList PROVE q \in live
  <2>1. PICK i \in DOMAIN Walk : Walk[i] = q  BY DEF OnList
  <2>2. q # NULL  BY DEF OnList
  <2>3. i \in 1 .. n  BY <2>1, <2>2, WalkIs
  <2>4. q = s[i]  BY <2>1, <2>3, WalkIs
  <2>5. s[i] \in live  BY <2>3 DEF InList, Linked
  <2> QED  BY <2>4, <2>5
<1>2. ASSUME NEW q \in live PROVE q \in OnList
  <2>1. PICK i \in 1 .. n : s[i] = q  BY DEF InList, Linked
  <2> QED  BY <2>1, WalkIs DEF OnList
<1> QED  BY <1>1, <1>2

(* A linked list is what whoever walks it relies on.                       *)
LEMMA LinkedInOrder ==
  ASSUME Chained
  PROVE  ListInOrder
<1>1. PICK n \in Nat : \E s \in [1 .. n -> Pings] : InList(n, s)  BY DEF Chained
<1>2. PICK s \in [1 .. n -> Pings] : InList(n, s)  BY <1>1
<1>3. \E i \in DOMAIN Walk : Walk[i] = NULL
  <2>1. n + 1 > n  OBVIOUS
  <2> QED  BY <2>1, <1>2, WalkIs
<1>4. OnList = live  BY <1>2, OnListIsLive
<1>5. ASSUME NEW i \in 2 .. Cardinality(Pings) + 1, Walk[i] # NULL
      PROVE  expire[Walk[i - 1]] <= expire[Walk[i]] /\ prev[Walk[i]] = Walk[i - 1]
  <2>0. i \in 1 .. Cardinality(Pings) + 1  BY PingsFinite
  <2>d. i \in DOMAIN Walk  BY <1>2, <2>0, WalkIs
  <2>1. i <= n  BY <1>2, <1>5, <2>d, WalkIs
  <2>2. i \in 1 .. n /\ i - 1 \in 1 .. n /\ i \in 2 .. n  BY <2>1, PingsFinite
  <2>3. Walk[i] = s[i] /\ Walk[i - 1] = s[i - 1]  BY <1>2, <2>2, WalkIs
  <2> QED  BY <1>2, <2>2, <2>3 DEF InList, Linked
<1> QED  BY <1>3, <1>4, <1>5 DEF ListInOrder

(* FirstIn finds the first node of the list in S, if one is.               *)
LEMMA FirstFound ==
  ASSUME NEW n \in Nat, NEW s \in [1 .. n -> Pings], InList(n, s),
         NEW S, S \subseteq Pings
  PROVE  \/ FirstIn(S) = NULL /\ \A i \in 1 .. n : s[i] \notin S
         \/ \E k \in 1 .. n : /\ FirstIn(S) = s[k] /\ s[k] \in S
                              /\ \A i \in 1 .. k - 1 : s[i] \notin S
<1>0. OnList = live  BY OnListIsLive
<1>1. CASE OnList \cap S = {}
  <2>1. \A i \in 1 .. n : s[i] \notin S  BY <1>0, <1>1 DEF InList, Linked
  <2> QED  BY <1>1, <2>1 DEF FirstIn
<1>2. CASE OnList \cap S # {}
  <2> DEFINE T == {i \in 1 .. n : s[i] \in S}
             P(i) == Walk[i] \in S /\ \A j \in 1 .. i - 1 : Walk[j] \notin S
  <2>1. PICK q : q \in live /\ q \in S  BY <1>0, <1>2
  <2>2. \E i \in 1 .. n : s[i] = q  BY <2>1 DEF InList, Linked
  <2>3. T \subseteq Nat /\ T # {}  BY <2>1, <2>2
  <2>4. PICK k \in T : \A j \in T : k <= j  BY <2>3, Least
  <2>5. \A j \in 1 .. k - 1 : Walk[j] \notin S
    <3> SUFFICES ASSUME NEW j \in 1 .. k - 1 PROVE Walk[j] \notin S
      OBVIOUS
    <3>1. j \in 1 .. n /\ j < k  OBVIOUS
    <3>2. s[j] \notin S  BY <3>1, <2>4
    <3> QED  BY <3>1, <3>2, WalkIs
  <2>6. k \in DOMAIN Walk /\ P(k)  BY <2>5, WalkIs
  <2> DEFINE c == CHOOSE i \in DOMAIN Walk : P(i)
  <2>7. c \in DOMAIN Walk /\ P(c)  BY <2>6
  <2> HIDE DEF c
  <2>8. c \in 1 .. n
    <3>1. Walk[c] # NULL  BY <2>7, PingAssumption
    <3> QED  BY <2>7, <3>1, WalkIs
  <2>9. Walk[c] = s[c]  BY <2>8, WalkIs
  <2>10. \A i \in 1 .. c - 1 : s[i] \notin S
    <3> SUFFICES ASSUME NEW i \in 1 .. c - 1 PROVE s[i] \notin S
      OBVIOUS
    <3>1. i \in 1 .. n  BY <2>8
    <3>2. s[i] = Walk[i]  BY <3>1, WalkIs
    <3>3. Walk[i] \notin S  BY <2>7
    <3> QED  BY <3>2, <3>3
  <2>11. FirstIn(S) = Walk[c]  BY <1>2 DEF FirstIn, c
  <2> QED  BY <2>7, <2>8, <2>9, <2>10, <2>11
<1> QED  BY <1>1, <1>2

-----------------------------------------------------------------------------
(* What a new node, and a node taken out, make of the list.                *)

(* h2, nx2, pv2 and ex2 have p where the k-th node was, and the rest of    *)
(* h, nx, pv and ex.                                                       *)
PutAt(k, p, n, s, h, nx, pv, ex, h2, nx2, pv2, ex2) ==
  /\ h2 = IF k = 1 THEN p ELSE h
  /\ nx2[p] = IF k = n + 1 THEN NULL ELSE s[k]
  /\ \A q \in Pings \ {p} : nx2[q] = IF k > 1 /\ q = s[k - 1] THEN p ELSE nx[q]
  /\ k > 1 => pv2[p] = s[k - 1] /\ ex[s[k - 1]] <= ex2[p]
  /\ \A q \in Pings \ {p} : pv2[q] = IF k <= n /\ q = s[k] THEN p ELSE pv[q]
  /\ k <= n => ex2[p] <= ex[s[k]]
  /\ \A q \in Pings \ {p} : ex2[q] = ex[q]

(* h2, nx2 and pv2 pass over the k-th node, and are h, nx and pv otherwise.*)
TakenAt(k, n, s, h, nx, pv, h2, nx2, pv2) ==
  /\ h2 = IF k = 1 THEN nx[s[k]] ELSE h
  /\ \A i \in 1 .. n : i # k =>
       nx2[s[i]] = IF i = k - 1 THEN nx[s[k]] ELSE nx[s[i]]
  /\ \A i \in 2 .. n : i # k /\ i # k + 1 => pv2[s[i]] = pv[s[i]]
  /\ k > 1 /\ k < n => pv2[s[k + 1]] = pv[s[k]]

LEMMA Put ==
  ASSUME NEW n \in Nat, NEW s \in [1 .. n -> Pings],
         NEW h, NEW nx, NEW pv, NEW ex, NEW lv,
         NEW h2, NEW nx2, NEW pv2, NEW ex2,
         Linked(n, s, h, nx, pv, ex, lv),
         NEW p \in Pings, p \notin lv, NEW k \in 1 .. n + 1,
         PutAt(k, p, n, s, h, nx, pv, ex, h2, nx2, pv2, ex2)
  PROVE  \E t \in [1 .. n + 1 -> Pings] :
           Linked(n + 1, t, h2, nx2, pv2, ex2, lv \cup {p})
<1>p. /\ h2 = IF k = 1 THEN p ELSE h
      /\ nx2[p] = IF k = n + 1 THEN NULL ELSE s[k]
      /\ \A q \in Pings \ {p} : nx2[q] = IF k > 1 /\ q = s[k - 1] THEN p ELSE nx[q]
      /\ k > 1 => pv2[p] = s[k - 1] /\ ex[s[k - 1]] <= ex2[p]
      /\ \A q \in Pings \ {p} : pv2[q] = IF k <= n /\ q = s[k] THEN p ELSE pv[q]
      /\ k <= n => ex2[p] <= ex[s[k]]
      /\ \A q \in Pings \ {p} : ex2[q] = ex[q]
  BY DEF PutAt
<1> USE <1>p
<1> DEFINE t == [i \in 1 .. n + 1 |-> IF i < k THEN s[i]
                                      ELSE IF i = k THEN p ELSE s[i - 1]]
<1>0. \A i \in 1 .. n : s[i] \in Pings \ {p}  BY DEF Linked
<1>1. t \in [1 .. n + 1 -> Pings]  BY <1>0
<1>2. /\ \A i \in 1 .. k - 1 : i \in 1 .. n /\ t[i] = s[i]
      /\ t[k] = p
      /\ \A i \in k + 1 .. n + 1 : i - 1 \in 1 .. n /\ t[i] = s[i - 1]
  OBVIOUS
<1> HIDE DEF t
<1>3. ASSUME NEW i \in 1 .. n + 1, NEW j \in 1 .. n + 1, t[i] = t[j] PROVE i = j
  <2>1. \A a, b \in 1 .. n : s[a] = s[b] => a = b  BY DEF Linked
  <2>2. CASE i = k  BY <1>0, <1>2, <1>3, <2>2
  <2>3. CASE j = k  BY <1>0, <1>2, <1>3, <2>3
  <2>4. CASE i # k /\ j # k  BY <1>2, <1>3, <2>1, <2>4
  <2> QED  BY <2>2, <2>3, <2>4
<1>4. ASSUME NEW q \in lv \cup {p} PROVE \E i \in 1 .. n + 1 : t[i] = q
  <2>1. CASE q = p  BY <2>1, <1>2
  <2>2. CASE q # p
    <3>1. PICK i \in 1 .. n : s[i] = q  BY <2>2 DEF Linked
    <3>2. CASE i < k  BY <3>1, <3>2, <1>2
    <3>3. CASE ~(i < k)
      <4>1. i + 1 \in k + 1 .. n + 1 /\ (i + 1) - 1 = i  BY <3>3
      <4>2. t[i + 1] = s[i]  BY <4>1, <1>2
      <4> QED  BY <3>1, <4>1, <4>2
    <3> QED  BY <3>2, <3>3
  <2> QED  BY <2>1, <2>2
<1>5. ASSUME NEW i \in 1 .. n + 1 PROVE t[i] \in lv \cup {p}
  <2>1. \A j \in 1 .. n : s[j] \in lv  BY DEF Linked
  <2>2. CASE i < k  BY <2>1, <2>2, <1>2
  <2>3. CASE i = k  BY <2>3, <1>2
  <2>4. CASE i > k  BY <2>1, <2>4, <1>2
  <2> QED  BY <2>2, <2>3, <2>4
<1>6. h2 = IF n + 1 = 0 THEN NULL ELSE t[1]
  <2>1. CASE k = 1  BY <2>1, <1>2
  <2>2. CASE k # 1
    <3>1. h = s[1] /\ t[1] = s[1]  BY <2>2, <1>2 DEF Linked
    <3> QED  BY <3>1, <2>2
  <2> QED  BY <2>1, <2>2
<1>7. ASSUME NEW i \in 1 .. n + 1
      PROVE  nx2[t[i]] = IF i = n + 1 THEN NULL ELSE t[i + 1]
  <2>0. \A a, b \in 1 .. n : s[a] = s[b] => a = b  BY DEF Linked
  <2>n. \A a \in 1 .. n : nx[s[a]] = IF a = n THEN NULL ELSE s[a + 1]  BY DEF Linked
  <2>1. CASE i = k
    <3>1. CASE k = n + 1  BY <2>1, <3>1, <1>2
    <3>2. CASE k # n + 1
      <4>1. t[k + 1] = s[k]
        <5>1. k + 1 \in k + 1 .. n + 1 /\ (k + 1) - 1 = k  BY <3>2
        <5> QED  BY <5>1, <1>2
      <4> QED  BY <4>1, <2>1, <3>2, <1>2
    <3> QED  BY <3>1, <3>2
  <2>2. CASE i = k - 1
    <3>1. t[i] = s[k - 1] /\ k - 1 \in 1 .. n /\ k > 1  BY <2>2, <1>2
    <3>2. nx2[t[i]] = p  BY <3>1, <1>0
    <3> QED  BY <3>2, <2>2, <1>2
  <2>3. CASE i < k - 1
    <3>1. i \in 1 .. n /\ i + 1 \in 1 .. n /\ k - 1 \in 1 .. n /\ i # n /\ i # k - 1
      BY <2>3
    <3>2. t[i] = s[i] /\ t[i + 1] = s[i + 1]  BY <2>3, <1>2
    <3>3. s[i] # s[k - 1]  BY <2>0, <3>1
    <3>4. nx2[s[i]] = nx[s[i]]  BY <3>1, <3>3, <1>0
    <3> QED  BY <3>1, <3>2, <3>4, <2>n, <2>3
  <2>4. CASE i > k
    <3>1. i - 1 \in 1 .. n /\ t[i] = s[i - 1]  BY <2>4, <1>2
    <3>2. k > 1 => k - 1 \in 1 .. n /\ s[i - 1] # s[k - 1]  BY <3>1, <2>0, <2>4
    <3>3. nx2[s[i - 1]] = nx[s[i - 1]]  BY <3>1, <3>2, <1>0
    <3>4. CASE i = n + 1  BY <3>1, <3>3, <3>4, <2>n
    <3>5. CASE i # n + 1
      <4>1. i + 1 \in k + 1 .. n + 1 /\ (i + 1) - 1 = i  BY <2>4, <3>5
      <4>2. t[i + 1] = s[i]  BY <4>1, <1>2
      <4>3. nx[s[i - 1]] = s[i]  BY <3>1, <3>5, <2>n
      <4> QED  BY <4>2, <4>3, <3>1, <3>3, <3>5
    <3> QED  BY <3>4, <3>5
  <2> QED  BY <2>1, <2>2, <2>3, <2>4
<1>8. ASSUME NEW i \in 2 .. n + 1
      PROVE  pv2[t[i]] = t[i - 1] /\ ex2[t[i - 1]] <= ex2[t[i]]
  <2>0. \A a, b \in 1 .. n : s[a] = s[b] => a = b  BY DEF Linked
  <2>p. \A a \in 2 .. n : pv[s[a]] = s[a - 1] /\ ex[s[a - 1]] <= ex[s[a]]  BY DEF Linked
  <2>e. \A a \in 1 .. n : ex2[s[a]] = ex[s[a]]  BY <1>0
  <2>1. CASE i = k
    <3>1. t[i] = p /\ t[i - 1] = s[k - 1] /\ k - 1 \in 1 .. n /\ k > 1  BY <2>1, <1>2
    <3> QED  BY <3>1, <2>e
  <2>2. CASE i = k + 1
    <3>1. t[i] = s[k] /\ t[i - 1] = p /\ k \in 1 .. n /\ k <= n  BY <2>2, <1>2
    <3> QED  BY <3>1, <2>e, <1>0
  <2>3. CASE i < k
    <3>1. i \in 1 .. n /\ i - 1 \in 1 .. n /\ i \in 2 .. n  BY <2>3
    <3>2. t[i] = s[i] /\ t[i - 1] = s[i - 1]
      <4>1. i \in 1 .. k - 1 /\ i - 1 \in 1 .. k - 1  BY <2>3
      <4> QED  BY <4>1, <1>2
    <3>3. k <= n => s[i] # s[k]  BY <2>0, <3>1, <2>3
    <3>4. pv2[s[i]] = pv[s[i]]  BY <3>1, <3>3, <1>0
    <3> QED  BY <3>1, <3>2, <3>4, <2>p, <2>e
  <2>4. CASE i > k + 1
    <3>1. i - 1 \in 1 .. n /\ i - 2 \in 1 .. n /\ i - 1 \in 2 .. n /\ (i - 1) - 1 = i - 2
      BY <2>4
    <3>2. t[i] = s[i - 1]  BY <2>4, <1>2
    <3>5. t[i - 1] = s[i - 2]
      <4>1. i - 1 \in k + 1 .. n + 1  BY <2>4
      <4> QED  BY <4>1, <3>1, <1>2
    <3>3. k <= n => s[i - 1] # s[k]  BY <2>0, <3>1, <2>4
    <3>4. pv2[s[i - 1]] = pv[s[i - 1]]  BY <3>1, <3>3, <1>0
    <3>6. pv[s[i - 1]] = s[i - 2] /\ ex[s[i - 2]] <= ex[s[i - 1]]  BY <3>1, <2>p
    <3>7. ex2[s[i - 1]] = ex[s[i - 1]] /\ ex2[s[i - 2]] = ex[s[i - 2]]  BY <3>1, <2>e
    <3> QED  BY <3>2, <3>4, <3>5, <3>6, <3>7
  <2> QED  BY <2>1, <2>2, <2>3, <2>4
<1>9. Linked(n + 1, t, h2, nx2, pv2, ex2, lv \cup {p})
  BY <1>1, <1>3, <1>4, <1>5, <1>6, <1>7, <1>8 DEF Linked
<1> QED  BY <1>1, <1>9

LEMMA Take ==
  ASSUME NEW n \in Nat, NEW s \in [1 .. n -> Pings],
         NEW h, NEW nx, NEW pv, NEW ex \in [Pings -> Int], NEW lv,
         NEW h2, NEW nx2, NEW pv2,
         Linked(n, s, h, nx, pv, ex, lv), NEW k \in 1 .. n,
         TakenAt(k, n, s, h, nx, pv, h2, nx2, pv2)
  PROVE  \E m \in Nat : \E t \in [1 .. m -> Pings] :
           Linked(m, t, h2, nx2, pv2, ex, lv \ {s[k]})
<1>p. /\ h2 = IF k = 1 THEN nx[s[k]] ELSE h
      /\ \A i \in 1 .. n : i # k =>
           nx2[s[i]] = IF i = k - 1 THEN nx[s[k]] ELSE nx[s[i]]
      /\ \A i \in 2 .. n : i # k /\ i # k + 1 => pv2[s[i]] = pv[s[i]]
      /\ k > 1 /\ k < n => pv2[s[k + 1]] = pv[s[k]]
  BY DEF TakenAt
<1> USE <1>p
<1> DEFINE t == [i \in 1 .. n - 1 |-> IF i < k THEN s[i] ELSE s[i + 1]]
<1>0. /\ n - 1 \in Nat
      /\ \A a, b \in 1 .. n : s[a] = s[b] => a = b
      /\ \A a \in 1 .. n : nx[s[a]] = IF a = n THEN NULL ELSE s[a + 1]
      /\ \A a \in 2 .. n : pv[s[a]] = s[a - 1] /\ ex[s[a - 1]] <= ex[s[a]]
  BY DEF Linked
<1>1. t \in [1 .. n - 1 -> Pings]  OBVIOUS
<1>2. /\ \A i \in 1 .. n - 1 : i < k => i \in 1 .. n /\ t[i] = s[i]
      /\ \A i \in k .. n - 1 : i \in 1 .. n - 1 /\ i + 1 \in 1 .. n /\ t[i] = s[i + 1]
  OBVIOUS
<1> HIDE DEF t
<1>3. ASSUME NEW i \in 1 .. n - 1, NEW j \in 1 .. n - 1, t[i] = t[j] PROVE i = j
  <2>1. CASE i < k /\ j < k  BY <2>1, <1>0, <1>2, <1>3
  <2>2. CASE i < k /\ j >= k  BY <2>2, <1>0, <1>2, <1>3
  <2>3. CASE i >= k /\ j < k  BY <2>3, <1>0, <1>2, <1>3
  <2>4. CASE i >= k /\ j >= k  BY <2>4, <1>0, <1>2, <1>3
  <2> QED  BY <2>1, <2>2, <2>3, <2>4
<1>4. ASSUME NEW q \in lv \ {s[k]} PROVE \E i \in 1 .. n - 1 : t[i] = q
  <2>1. PICK i \in 1 .. n : s[i] = q  BY DEF Linked
  <2>2. CASE i < k  BY <2>1, <2>2, <1>2
  <2>3. CASE i > k
    <3>1. i - 1 \in k .. n - 1 /\ (i - 1) + 1 = i  BY <2>3
    <3>2. i - 1 \in 1 .. n - 1 /\ t[i - 1] = s[i]  BY <3>1, <1>2
    <3> QED  BY <2>1, <3>2
  <2>4. i # k  BY <2>1
  <2> QED  BY <2>2, <2>3, <2>4
<1>5. ASSUME NEW i \in 1 .. n - 1 PROVE t[i] \in lv \ {s[k]}
  <2>1. \A j \in 1 .. n : s[j] \in lv  BY DEF Linked
  <2>2. CASE i < k
    <3>1. i \in 1 .. n /\ t[i] = s[i] /\ i # k  BY <2>2, <1>2
    <3> QED  BY <2>1, <3>1, <1>0
  <2>3. CASE i >= k
    <3>1. i \in k .. n - 1 /\ i + 1 # k  BY <2>3
    <3>2. i + 1 \in 1 .. n /\ t[i] = s[i + 1]  BY <3>1, <1>2
    <3> QED  BY <2>1, <3>1, <3>2, <1>0
  <2> QED  BY <2>2, <2>3
<1>6. h2 = IF n - 1 = 0 THEN NULL ELSE t[1]
  <2>1. CASE k = 1
    <3>1. h2 = IF n = 1 THEN NULL ELSE s[2]  BY <2>1, <1>0
    <3>2. n # 1 => t[1] = s[2]  BY <2>1, <1>2
    <3> QED  BY <3>1, <3>2
  <2>2. CASE k # 1
    <3>1. h = s[1]  BY DEF Linked
    <3>2. t[1] = s[1] /\ n - 1 # 0  BY <2>2, <1>2
    <3> QED  BY <3>1, <3>2, <2>2
  <2> QED  BY <2>1, <2>2
<1>7. ASSUME NEW i \in 1 .. n - 1
      PROVE  nx2[t[i]] = IF i = n - 1 THEN NULL ELSE t[i + 1]
  <2>1. CASE i < k - 1
    <3>1. i \in 1 .. n /\ i # k /\ i # n /\ i # n - 1  BY <2>1
    <3>2. t[i] = s[i] /\ t[i + 1] = s[i + 1]
      <4>1. i \in 1 .. n - 1 /\ i + 1 \in 1 .. n - 1 /\ i < k /\ i + 1 < k  BY <2>1
      <4> QED  BY <4>1, <1>2
    <3>3. nx2[s[i]] = nx[s[i]]  BY <3>1, <2>1
    <3> QED  BY <3>1, <3>2, <3>3, <1>0
  <2>2. CASE i = k - 1
    <3>1. i \in 1 .. n /\ i # k /\ t[i] = s[i]  BY <2>2, <1>2
    <3>2. nx2[s[i]] = nx[s[k]]  BY <3>1, <2>2
    <3>3. i = n - 1 <=> k = n  BY <2>2
    <3>4. k # n => t[i + 1] = s[k + 1]
      <4>1. k # n => k \in k .. n - 1  OBVIOUS
      <4>2. i + 1 = k  BY <2>2
      <4> QED  BY <4>1, <4>2, <1>2
    <3> QED  BY <3>1, <3>2, <3>3, <3>4, <1>0
  <2>3. CASE i >= k
    <3>1. i + 1 \in 1 .. n /\ i + 1 # k /\ i + 1 # k - 1 /\ t[i] = s[i + 1]
      BY <2>3, <1>2
    <3>2. nx2[t[i]] = IF i + 1 = n THEN NULL ELSE s[(i + 1) + 1]  BY <3>1, <1>0
    <3>3. i # n - 1 => t[i + 1] = s[(i + 1) + 1]
      <4>1. i # n - 1 => i + 1 \in k .. n - 1  BY <2>3
      <4> QED  BY <4>1, <1>2
    <3> QED  BY <3>2, <3>3
  <2> QED  BY <2>1, <2>2, <2>3
<1>8. ASSUME NEW i \in 2 .. n - 1
      PROVE  pv2[t[i]] = t[i - 1] /\ ex[t[i - 1]] <= ex[t[i]]
  <2>1. CASE i < k
    <3>1. i \in 2 .. n /\ i # k /\ i # k + 1  BY <2>1
    <3>2. t[i] = s[i] /\ t[i - 1] = s[i - 1]
      <4>1. i \in 1 .. n - 1 /\ i - 1 \in 1 .. n - 1 /\ i < k /\ i - 1 < k  BY <2>1
      <4> QED  BY <4>1, <1>2
    <3> QED  BY <3>1, <3>2, <1>0
  <2>2. CASE i = k
    <3>1. k \in 2 .. n /\ k + 1 \in 2 .. n /\ k > 1 /\ k < n /\ (k + 1) - 1 = k  BY <2>2
    <3>2. t[i] = s[k + 1] /\ t[i - 1] = s[k - 1]
      <4>1. i \in k .. n - 1 /\ i - 1 \in 1 .. n - 1 /\ i - 1 < k  BY <2>2
      <4>2. t[i] = s[i + 1] /\ t[i - 1] = s[i - 1]  BY <4>1, <1>2
      <4> QED  BY <4>2, <2>2
    <3>3. ex[s[k - 1]] <= ex[s[k]] /\ ex[s[k]] <= ex[s[k + 1]]  BY <3>1, <1>0
    <3>4. ex[s[k - 1]] \in Int /\ ex[s[k]] \in Int /\ ex[s[k + 1]] \in Int
      <4>1. k - 1 \in 1 .. n /\ k + 1 \in 1 .. n  BY <3>1
      <4>2. s[k - 1] \in Pings /\ s[k] \in Pings /\ s[k + 1] \in Pings  BY <4>1
      <4> QED  BY <4>2
    <3>5. ex[s[k - 1]] <= ex[s[k + 1]]  BY <3>3, <3>4
    <3> QED  BY <3>1, <3>2, <3>5, <1>0
  <2>3. CASE i > k
    <3>1. i + 1 \in 2 .. n /\ i + 1 # k /\ i + 1 # k + 1 /\ (i + 1) - 1 = i  BY <2>3
    <3>2. t[i] = s[i + 1]  BY <2>3, <1>2
    <3>3. t[i - 1] = s[i]
      <4>1. i - 1 \in k .. n - 1 /\ (i - 1) + 1 = i  BY <2>3
      <4> QED  BY <4>1, <1>2
    <3>4. pv[s[i + 1]] = s[i] /\ ex[s[i]] <= ex[s[i + 1]]  BY <3>1, <1>0
    <3> QED  BY <3>1, <3>2, <3>3, <3>4
  <2> QED  BY <2>1, <2>2, <2>3
<1>9. Linked(n - 1, t, h2, nx2, pv2, ex, lv \ {s[k]})
  BY <1>1, <1>3, <1>4, <1>5, <1>6, <1>7, <1>8 DEF Linked
<1> QED  BY <1>0, <1>1, <1>9

-----------------------------------------------------------------------------
(* The list after each operation on it.                                    *)

LEMMA RequestChained ==
  ASSUME IInv, NEW f \in Fds, NEW p \in Pings, NEW ip \in Ips, Request(f, p, ip)
  PROVE  Chained'
<1> DEFINE e == now + Wait
<1>1. PICK n \in Nat : \E s \in [1 .. n -> Pings] : InList(n, s)  BY DEF IInv, Chained
<1>2. PICK s \in [1 .. n -> Pings] : InList(n, s)  BY <1>1
<1>3. /\ e \in Int /\ p \notin live /\ live' = live \cup {p}
      /\ expire' = [expire EXCEPT ![p] = e] /\ Insert(p, e)
  BY PingAssumption DEF Request, IInv, TypeOK, Answered
<1>4. /\ expire \in [Pings -> Int]
      /\ prev \in [Pings -> Pings \cup {NULL}] /\ next \in [Pings -> Pings \cup {NULL}]
      /\ NULL \notin Pings
  BY PingAssumption DEF IInv, TypeOK
<1> HIDE DEF e
<1>5. expire'[p] = e /\ \A r \in Pings \ {p} : expire'[r] = expire[r]  BY <1>3, <1>4
<1>6. /\ \A i \in 1 .. n : s[i] \in Pings \ {p}
      /\ \A i, j \in 1 .. n : s[i] = s[j] => i = j
      /\ ping_list = IF n = 0 THEN NULL ELSE s[1]
      /\ \A i \in 1 .. n : next[s[i]] = IF i = n THEN NULL ELSE s[i + 1]
      /\ \A i \in 2 .. n : prev[s[i]] = s[i - 1]
  BY <1>2, <1>3 DEF InList, Linked
<1> SUFFICES \E t \in [1 .. n + 1 -> Pings] :
               Linked(n + 1, t, ping_list', next', prev', expire', live \cup {p})
  <2>1. n + 1 \in Nat  OBVIOUS
  <2> QED  BY <2>1, <1>3 DEF Chained, InList
<1>7. CASE ping_list = NULL
  <2>1. n = 0  BY <1>4, <1>6, <1>7
  <2>2. /\ ping_list' = p /\ next' = [next EXCEPT ![p] = NULL]
        /\ prev' = [prev EXCEPT ![p] = NULL]
    BY <1>3, <1>7 DEF Insert, InsertOnly
  <2>3. next'[p] = NULL /\ \A r \in Pings \ {p} : next'[r] = next[r] /\ prev'[r] = prev[r]
    BY <2>2, <1>4
  <2> QED
    <3> DEFINE k == 1
    <3>1. k \in 1 .. n + 1 /\ ~(k > 1) /\ ~(k <= n) /\ k = n + 1  BY <2>1
    <3>2. ping_list' = IF k = 1 THEN p ELSE ping_list  BY <2>2
    <3> HIDE DEF k
    <3>3. PutAt(k, p, n, s, ping_list, next, prev, expire, ping_list', next', prev', expire')
      BY <3>1, <3>2, <2>3, <1>5 DEF PutAt
    <3> QED  BY <3>1, <3>3, <1>2, <1>3, Put DEF InList
<1>8. CASE ping_list # NULL /\ FirstIn(Later(e)) # NULL
  <2>0. Later(e) \subseteq Pings  BY DEF Later
  <2>1. PICK k \in 1 .. n : /\ FirstIn(Later(e)) = s[k] /\ s[k] \in Later(e)
                            /\ \A i \in 1 .. k - 1 : s[i] \notin Later(e)
    BY <1>2, <1>8, <2>0, FirstFound
  <2>2. InsertBefore(p, s[k])  BY <1>3, <1>8, <2>1 DEF Insert
  <2>3. s[k] = ping_list <=> k = 1  BY <1>6
  <2>4. k > 1 => k - 1 \in 1 .. n /\ prev[s[k]] = s[k - 1]  BY <1>6
  <2>5. e <= expire[s[k]]
    <3>1. expire[s[k]] > e  BY <2>1 DEF Later
    <3>2. s[k] \in Pings  OBVIOUS
    <3>3. expire[s[k]] \in Int  BY <3>2, <1>4
    <3> QED  BY <3>1, <3>3, <1>3
  <2>6. k > 1 => expire[s[k - 1]] <= e
    <3> SUFFICES ASSUME k > 1 PROVE expire[s[k - 1]] <= e
      OBVIOUS
    <3>1. k - 1 \in 1 .. k - 1 /\ k - 1 \in 1 .. n  OBVIOUS
    <3>2. s[k - 1] \notin Later(e) /\ s[k - 1] \in Pings  BY <3>1, <2>1
    <3>3. ~(expire[s[k - 1]] > e) /\ expire[s[k - 1]] \in Int  BY <3>2, <1>4 DEF Later
    <3> QED  BY <3>3, <1>3
  <2>7. ping_list' = IF k = 1 THEN p ELSE ping_list  BY <2>2, <2>3 DEF InsertBefore
  <2>8. /\ next'[p] = s[k]
        /\ \A r \in Pings \ {p} : next'[r] = IF k > 1 /\ r = s[k - 1] THEN p ELSE next[r]
    <3>1. CASE k = 1
      <4>1. next' = [next EXCEPT ![p] = s[k]]  BY <3>1, <2>2, <2>3 DEF InsertBefore
      <4> QED  BY <3>1, <4>1, <1>4
    <3>2. CASE k # 1
      <4>1. k > 1 /\ prev[s[k]] = s[k - 1] /\ s[k - 1] \in Pings \ {p}
        BY <3>2, <2>4, <1>6
      <4>2. next' = [next EXCEPT ![p] = s[k], ![s[k - 1]] = p]
        BY <3>2, <4>1, <2>2, <2>3 DEF InsertBefore
      <4> QED  BY <4>1, <4>2, <1>4
    <3> QED  BY <3>1, <3>2
  <2>9. /\ k > 1 => prev'[p] = s[k - 1]
        /\ \A r \in Pings \ {p} : prev'[r] = IF k <= n /\ r = s[k] THEN p ELSE prev[r]
    <3>1. prev' = [prev EXCEPT ![p] = prev[s[k]], ![s[k]] = p]
      BY <2>2 DEF InsertBefore
    <3>2. s[k] \in Pings \ {p} /\ k <= n  BY <1>6
    <3> QED  BY <3>1, <3>2, <2>4, <1>4
  <2> QED
    <3>1. k \in 1 .. n + 1 /\ k # n + 1 /\ k <= n  OBVIOUS
    <3>2. next'[p] = IF k = n + 1 THEN NULL ELSE s[k]  BY <3>1, <2>8
    <3>3. k > 1 => prev'[p] = s[k - 1] /\ expire[s[k - 1]] <= expire'[p]
      BY <2>6, <2>9, <1>5
    <3>4. k <= n => expire'[p] <= expire[s[k]]  BY <2>5, <1>5
    <3>5. PutAt(k, p, n, s, ping_list, next, prev, expire, ping_list', next', prev', expire')
      BY <3>2, <3>3, <3>4, <2>7, <2>8, <2>9, <1>5 DEF PutAt
    <3> QED  BY <3>1, <3>5, <1>2, <1>3, Put DEF InList
<1>9. CASE ping_list # NULL /\ FirstIn(Later(e)) = NULL
  <2>0. n # 0  BY <1>6, <1>9
  <2> DEFINE E == {r \in Pings : next[r] = NULL}
             k == n + 1
  <2>1. FirstIn(E) = s[n]
    <3>1. n \in 1 .. n /\ s[n] \in E
      BY <2>0, <1>6
    <3>2. \A i \in 1 .. n : i # n => s[i] \notin E
      <4> SUFFICES ASSUME NEW i \in 1 .. n, i # n PROVE s[i] \notin E
        OBVIOUS
      <4>1. next[s[i]] = s[i + 1] /\ i + 1 \in 1 .. n  BY <1>6
      <4> QED  BY <4>1, <1>4, <1>6
    <3>3. E \subseteq Pings  OBVIOUS
    <3> HIDE DEF E
    <3> QED  BY <3>1, <3>2, <3>3, <1>2, FirstFound
  <2>2. InsertLast(p, s[n])  BY <1>3, <1>9, <2>1 DEF Insert
  <2>3. s[n] \in Pings \ {p} /\ n \in 1 .. n  BY <1>6, <2>0
  <2>4. \A i \in 1 .. n : s[i] \notin Later(e)
    <3>1. Later(e) \subseteq Pings  BY DEF Later
    <3>2. \A i \in 1 .. n : s[i] # NULL  BY <1>4
    <3> QED  BY <3>1, <3>2, <1>2, <1>9, FirstFound
  <2>5. expire[s[n]] <= e
    <3>1. ~(expire[s[n]] > e) /\ expire[s[n]] \in Int  BY <2>3, <2>4, <1>4 DEF Later
    <3> QED  BY <3>1, <1>3
  <2>6. /\ next' = [next EXCEPT ![s[n]] = p, ![p] = NULL]
        /\ prev' = [prev EXCEPT ![p] = s[n]] /\ ping_list' = ping_list
    BY <2>2 DEF InsertLast
  <2>7. /\ next'[p] = NULL /\ prev'[p] = s[n]
        /\ \A r \in Pings \ {p} : /\ next'[r] = IF r = s[n] THEN p ELSE next[r]
                                  /\ prev'[r] = prev[r]
    BY <2>3, <2>6, <1>4
  <2> QED
    <3>1. k \in 1 .. n + 1 /\ k = n + 1 /\ k > 1 /\ ~(k <= n) /\ k - 1 = n /\ k # 1
      BY <2>0
    <3> HIDE DEF k
    <3>2. PutAt(k, p, n, s, ping_list, next, prev, expire, ping_list', next', prev', expire')
      <4>1. ping_list' = IF k = 1 THEN p ELSE ping_list  BY <3>1, <2>6
      <4>2. next'[p] = IF k = n + 1 THEN NULL ELSE s[k]  BY <3>1, <2>7
      <4>3. /\ \A q \in Pings \ {p} :
                 next'[q] = IF k > 1 /\ q = s[k - 1] THEN p ELSE next[q]
            /\ \A q \in Pings \ {p} :
                 prev'[q] = IF k <= n /\ q = s[k] THEN p ELSE prev[q]
        BY <3>1, <2>7
      <4>4. k > 1 => prev'[p] = s[k - 1] /\ expire[s[k - 1]] <= expire'[p]
        BY <3>1, <2>5, <2>7, <1>5
      <4>5. k <= n => expire'[p] <= expire[s[k]]  BY <3>1
      <4> QED  BY <4>1, <4>2, <4>3, <4>4, <4>5, <1>5 DEF PutAt
    <3> QED  BY <3>1, <3>2, <1>2, <1>3, Put DEF InList
<1> QED  BY <1>7, <1>8, <1>9

LEMMA UnlinkChained ==
  ASSUME IInv, NEW n \in Nat, NEW s \in [1 .. n -> Pings], InList(n, s),
         NEW k \in 1 .. n, Unlink(s[k]), live' = live \ {s[k]}, UNCHANGED expire
  PROVE  Chained'
<1>1. /\ \A i, j \in 1 .. n : s[i] = s[j] => i = j
      /\ ping_list = s[1]
      /\ \A i \in 1 .. n : next[s[i]] = IF i = n THEN NULL ELSE s[i + 1]
      /\ \A i \in 2 .. n : prev[s[i]] = s[i - 1]
  BY DEF InList, Linked
<1>2. /\ expire \in [Pings -> Int]
      /\ prev \in [Pings -> Pings \cup {NULL}] /\ next \in [Pings -> Pings \cup {NULL}]
      /\ NULL \notin Pings
  BY PingAssumption DEF IInv, TypeOK
<1>3. s[k] = ping_list <=> k = 1  BY <1>1
<1>4. ping_list' = IF k = 1 THEN next[s[k]] ELSE ping_list
  BY <1>3 DEF Unlink
<1>5. ASSUME NEW i \in 1 .. n, i # k
      PROVE  next'[s[i]] = IF i = k - 1 THEN next[s[k]] ELSE next[s[i]]
  <2>1. CASE k = 1  BY <2>1, <1>3, <1>5 DEF Unlink
  <2>2. CASE k # 1
    <3>1. prev[s[k]] = s[k - 1] /\ k - 1 \in 1 .. n  BY <2>2, <1>1
    <3>2. next' = [next EXCEPT ![s[k - 1]] = next[s[k]]]
      BY <3>1, <2>2, <1>3 DEF Unlink
    <3>3. s[k - 1] \in Pings /\ s[i] \in Pings /\ (s[i] = s[k - 1] <=> i = k - 1)
      BY <3>1, <1>1
    <3> QED  BY <3>2, <3>3, <1>2
  <2> QED  BY <2>1, <2>2
<1>6. k < n => prev' = [prev EXCEPT ![s[k + 1]] = prev[s[k]]]
  <2> SUFFICES ASSUME k < n PROVE prev' = [prev EXCEPT ![s[k + 1]] = prev[s[k]]]
    OBVIOUS
  <2>1. next[s[k]] = s[k + 1] /\ k + 1 \in 1 .. n  BY <1>1
  <2>2. s[k + 1] # NULL  BY <2>1, <1>2
  <2> QED  BY <2>1, <2>2 DEF Unlink
<1>7. k = n => prev' = prev  BY <1>1 DEF Unlink
<1>8. ASSUME NEW i \in 2 .. n, i # k, i # k + 1 PROVE prev'[s[i]] = prev[s[i]]
  <2>1. CASE k = n  BY <2>1, <1>7
  <2>2. CASE k # n
    <3>1. k < n /\ k + 1 \in 1 .. n /\ i \in 1 .. n  BY <2>2
    <3>2. s[i] # s[k + 1] /\ s[i] \in Pings  BY <3>1, <1>1, <1>8
    <3> QED  BY <3>1, <3>2, <1>2, <1>6
  <2> QED  BY <2>1, <2>2
<1>9. k > 1 /\ k < n => prev'[s[k + 1]] = prev[s[k]]
  <2>1. k < n => k + 1 \in 1 .. n  OBVIOUS
  <2> QED  BY <2>1, <1>2, <1>6
<1>10. \E m \in Nat : \E t \in [1 .. m -> Pings] :
         Linked(m, t, ping_list', next', prev', expire, live \ {s[k]})
  <2>1. TakenAt(k, n, s, ping_list, next, prev, ping_list', next', prev')
    BY <1>4, <1>5, <1>8, <1>9 DEF TakenAt
  <2> QED  BY <2>1, <1>2, Take DEF InList
<1> QED  BY <1>10 DEF Chained, InList

LEMMA ReplySearchChained ==
  ASSUME IInv, NEW r \in Repliers, ReplySearch(r)
  PROVE  Chained'
<1>1. PICK n \in Nat : \E s \in [1 .. n -> Pings] : InList(n, s)  BY DEF IInv, Chained
<1>2. PICK s \in [1 .. n -> Pings] : InList(n, s)  BY <1>1
<1> DEFINE M == {q \in Pings : <<dst[q], seq[q]>> = want[r]}
           p == FirstIn(M)
<1>3. CASE p = NULL
  <2>1. UNCHANGED <<ping_list, next, prev, expire, live>>
    BY <1>3 DEF ReplySearch, list, nodes
  <2> QED  BY <1>2, <2>1 DEF Chained, InList
<1>4. CASE p # NULL
  <2>1. Unlink(p) /\ live' = live \ {p} /\ UNCHANGED expire
    BY <1>4 DEF ReplySearch
  <2>2. M \subseteq Pings  OBVIOUS
  <2> HIDE DEF M
  <2>3. PICK k \in 1 .. n : p = s[k]  BY <1>2, <1>4, <2>2, FirstFound
  <2> QED  BY <2>1, <2>3, <1>2, UnlinkChained
<1> QED  BY <1>3, <1>4

LEMMA ScrubExpireChained ==
  ASSUME IInv, ScrubExpire
  PROVE  Chained'
<1>1. PICK n \in Nat : \E s \in [1 .. n -> Pings] : InList(n, s)  BY DEF IInv, Chained
<1>2. PICK s \in [1 .. n -> Pings] : InList(n, s)  BY <1>1
<1>3. expire \in [Pings -> Int]  BY PingAssumption DEF IInv, TypeOK
<1>4. /\ ping_list # NULL /\ ping_list' = next[ping_list] /\ live' = live \ {ping_list}
      /\ next' = next /\ prev' = prev /\ expire' = expire
  BY DEF ScrubExpire, HeadAfterExpiry, nodes
<1>5. n # 0 /\ ping_list = s[1]  BY <1>2, <1>4 DEF InList, Linked
<1> DEFINE k == 1
<1>6. k \in 1 .. n /\ k = 1 /\ ~(k > 1) /\ \A i \in 1 .. n : i # k - 1  BY <1>5
<1>7. ping_list' = IF k = 1 THEN next[s[k]] ELSE ping_list  BY <1>4, <1>5
<1>8. live' = live \ {s[k]}  BY <1>4, <1>5
<1> HIDE DEF k
<1>9. \E m \in Nat : \E t \in [1 .. m -> Pings] :
         Linked(m, t, ping_list', next', prev', expire, live \ {s[k]})
  <2>1. TakenAt(k, n, s, ping_list, next, prev, ping_list', next', prev')
    BY <1>4, <1>6, <1>7 DEF TakenAt
  <2> QED  BY <2>1, <1>2, <1>3, <1>6, Take DEF InList
<1> QED  BY <1>4, <1>8, <1>9 DEF Chained, InList

LEMMA DestroyEndChained ==
  ASSUME IInv, DestroyEnd
  PROVE  Chained'
<1>1. PICK n \in Nat : \E s \in [1 .. n -> Pings] : InList(n, s)  BY DEF IInv, Chained
<1>2. OnList = live  BY <1>1, OnListIsLive
<1>3. live' = {} /\ ping_list' = NULL  BY <1>2 DEF DestroyEnd
<1> DEFINE s == [i \in 1 .. 0 |-> i]
<1>4. s \in [1 .. 0 -> Pings]  OBVIOUS
<1> HIDE DEF s
<1>5. InList(0, s)'  BY <1>3, <1>4 DEF InList, Linked
<1> QED  BY <1>4, <1>5 DEF Chained

LEMMA NextChained ==
  ASSUME IInv, [Next]_vars
  PROVE  Chained'
<1>0. ASSUME UNCHANGED <<ping_list, next, prev, expire, live>> PROVE Chained'
  BY <1>0 DEF IInv, Chained, InList
<1>1. ASSUME Tick PROVE Chained'  BY <1>0, <1>1 DEF Tick, list, nodes
<1>2. ASSUME SetBack PROVE Chained'  BY <1>0, <1>2 DEF SetBack, list, nodes
<1>3. ASSUME NEW c \in Clients, Accept(c) PROVE Chained'
  BY <1>0, <1>3 DEF Accept, list, nodes
<1>4. ASSUME NEW f \in Fds, Close(f) PROVE Chained'
  BY <1>0, <1>4 DEF Close, list, nodes
<1>5. ASSUME NEW f \in Fds, NEW p \in Pings, NEW ip \in Ips, Request(f, p, ip)
      PROVE  Chained'
  BY <1>5, RequestChained
<1>6. ASSUME NEW r \in Repliers, NEW ip \in Ips, NEW q \in 0 .. SeqSpace - 1,
             ReplyCheck(r, ip, q)
      PROVE  Chained'
  BY <1>0, <1>6 DEF ReplyCheck, list, nodes
<1>7. ASSUME NEW r \in Repliers, ReplySearch(r) PROVE Chained'
  BY <1>7, ReplySearchChained
<1>8. ASSUME Scrub PROVE Chained'
  BY <1>0, <1>8, ScrubExpireChained
  DEF Scrub, ScrubLock, ScrubOuter, ScrubInner, ScrubSleep, ScrubSelect, ScrubWait,
      ScrubOff, list, nodes
<1>9. ASSUME SpuriousWakeup PROVE Chained'
  BY <1>0, <1>9 DEF SpuriousWakeup, list, nodes
<1>10. ASSUME Shutdown PROVE Chained'  BY <1>0, <1>10 DEF Shutdown, list, nodes
<1>11. ASSUME Destroy PROVE Chained'
  BY <1>0, <1>11, DestroyEndChained DEF Destroy, DestroyWait, list, nodes
<1>12. ASSUME UNCHANGED vars PROVE Chained'  BY <1>0, <1>12 DEF vars, list, nodes
<1> QED
  BY <1>1, <1>2, <1>3, <1>4, <1>5, <1>6, <1>7, <1>8, <1>9, <1>10, <1>11, <1>12 DEF Next

-----------------------------------------------------------------------------
(* What a search finds and the head of the list are nodes that are         *)
(* allocated.                                                              *)
LEMMA FoundIsLive ==
  ASSUME Chained, NEW S, S \subseteq Pings, FirstIn(S) # NULL
  PROVE  FirstIn(S) \in live /\ FirstIn(S) \in Pings /\ FirstIn(S) \in S
<1>1. PICK n \in Nat : \E s \in [1 .. n -> Pings] : InList(n, s)  BY DEF Chained
<1>2. PICK s \in [1 .. n -> Pings] : InList(n, s)  BY <1>1
<1>3. PICK k \in 1 .. n : FirstIn(S) = s[k] /\ s[k] \in S  BY <1>2, FirstFound
<1> QED  BY <1>2, <1>3 DEF InList, Linked

LEMMA HeadIsLive ==
  ASSUME Chained
  PROVE  ping_list # NULL => ping_list \in live /\ ping_list \in Pings
<1>1. PICK n \in Nat : \E s \in [1 .. n -> Pings] : InList(n, s)  BY DEF Chained
<1>2. PICK s \in [1 .. n -> Pings] : InList(n, s)  BY <1>1
<1>3. CASE n = 0  BY <1>2, <1>3 DEF InList, Linked
<1>4. CASE n # 0
  <2>1. 1 \in 1 .. n  BY <1>4
  <2> QED  BY <1>2, <1>4, <2>1 DEF InList, Linked
<1> QED  BY <1>3, <1>4

(* A node that is not the first has one before it.                         *)
LEMMA PrevIsNode ==
  ASSUME Chained, NEW p \in live, p # ping_list
  PROVE  prev[p] \in Pings
<1>1. PICK n \in Nat : \E s \in [1 .. n -> Pings] : InList(n, s)  BY DEF Chained
<1>2. PICK s \in [1 .. n -> Pings] : InList(n, s)  BY <1>1
<1>3. PICK i \in 1 .. n : s[i] = p  BY <1>2 DEF InList, Linked
<1>4. i # 1  BY <1>2, <1>3 DEF InList, Linked
<1>5. i \in 2 .. n /\ i - 1 \in 1 .. n  BY <1>4
<1> QED  BY <1>2, <1>3, <1>5 DEF InList, Linked

(* On a list that is not empty there is a last node.                       *)
LEMMA LastFound ==
  ASSUME Chained, ping_list # NULL
  PROVE  FirstIn({r \in Pings : next[r] = NULL}) \in Pings
<1>1. PICK n \in Nat : \E s \in [1 .. n -> Pings] : InList(n, s)  BY DEF Chained
<1>2. PICK s \in [1 .. n -> Pings] : InList(n, s)  BY <1>1
<1> DEFINE E == {r \in Pings : next[r] = NULL}
<1>3. n # 0  BY <1>2 DEF InList, Linked
<1>4. n \in 1 .. n /\ s[n] \in E  BY <1>2, <1>3 DEF InList, Linked
<1>5. E \subseteq Pings  OBVIOUS
<1> HIDE DEF E
<1>6. PICK k \in 1 .. n : FirstIn(E) = s[k]  BY <1>2, <1>4, <1>5, FirstFound
<1>7. FirstIn(E) \in Pings  BY <1>6
<1> QED  BY <1>7 DEF E

-----------------------------------------------------------------------------
(* Nobody is answered twice and nobody's request is lost.                  *)
LEMMA FeedbackAnswers ==
  ASSUME TypeOK, Answered, NEW p \in live, Feedback(p), live' = live \ {p},
         UNCHANGED <<asker, destroyed>>
  PROVE  Answered'
<1>1. p \in Pings /\ asker[p] # NULL  BY DEF TypeOK, Answered
<1>2. answers' = [answers EXCEPT ![p] = answers[p] + 1]  BY DEF Feedback
<1>3. answers \in [Pings -> Nat]  BY DEF TypeOK
<1> SUFFICES ASSUME NEW q \in Pings
             PROVE  /\ asker[q] = NULL => q \notin live' /\ answers'[q] = 0
                    /\ asker[q] # NULL /\ ~destroyed =>
                         answers'[q] = IF q \in live' THEN 0 ELSE 1
  BY DEF Answered
<1>4. CASE q = p
  <2>1. answers'[p] = answers[p] + 1 /\ p \notin live'  BY <1>1, <1>2, <1>3
  <2>2. ~destroyed => answers[p] = 0  BY <1>1 DEF Answered
  <2> QED  BY <2>1, <2>2, <1>1, <1>4
<1>5. CASE q # p
  <2>1. answers'[q] = answers[q] /\ (q \in live' <=> q \in live)  BY <1>2, <1>3, <1>5
  <2> QED  BY <2>1 DEF Answered
<1> QED  BY <1>4, <1>5

LEMMA NextAnswered ==
  ASSUME IInv, [Next]_vars
  PROVE  Answered'
<1>0. ASSUME UNCHANGED <<asker, answers, live, destroyed>> PROVE Answered'
  BY <1>0 DEF IInv, Answered
<1>1. ASSUME Tick PROVE Answered'  BY <1>0, <1>1 DEF Tick, list, nodes
<1>2. ASSUME SetBack PROVE Answered'  BY <1>0, <1>2 DEF SetBack, list, nodes
<1>3. ASSUME NEW c \in Clients, Accept(c) PROVE Answered'
  BY <1>0, <1>3 DEF Accept, list, nodes
<1>4. ASSUME NEW f \in Fds, Close(f) PROVE Answered'
  BY <1>0, <1>4 DEF Close, list, nodes
<1>5. ASSUME NEW f \in Fds, NEW p \in Pings, NEW ip \in Ips, Request(f, p, ip)
      PROVE  Answered'
  <2>1. /\ asker[p] = NULL /\ conn[f] # NULL /\ asker' = [asker EXCEPT ![p] = conn[f]]
        /\ live' = live \cup {p} /\ answers' = answers /\ destroyed' = destroyed
    BY <1>5 DEF Request
  <2>2. asker \in [Pings -> Clients \cup {NULL}]  BY DEF IInv, TypeOK
  <2>3. asker'[p] = conn[f] /\ \A q \in Pings : q # p => asker'[q] = asker[q]
    BY <2>1, <2>2
  <2> QED  BY <2>1, <2>3 DEF IInv, Answered
<1>6. ASSUME NEW r \in Repliers, NEW ip \in Ips, NEW q \in 0 .. SeqSpace - 1,
             ReplyCheck(r, ip, q)
      PROVE  Answered'
  BY <1>0, <1>6 DEF ReplyCheck, list, nodes
<1>7. ASSUME NEW r \in Repliers, ReplySearch(r) PROVE Answered'
  <2> DEFINE M == {q \in Pings : <<dst[q], seq[q]>> = want[r]}
  <2>1. CASE FirstIn(M) = NULL  BY <2>1, <1>0, <1>7 DEF ReplySearch, list, nodes
  <2>2. CASE FirstIn(M) # NULL
    <3>1. /\ Feedback(FirstIn(M)) /\ live' = live \ {FirstIn(M)}
          /\ UNCHANGED <<asker, destroyed>>
      BY <2>2, <1>7 DEF ReplySearch
    <3>2. M \subseteq Pings  OBVIOUS
    <3> HIDE DEF M
    <3>3. FirstIn(M) \in live  BY <2>2, <3>2, FoundIsLive DEF IInv
    <3> QED  BY <3>1, <3>3, FeedbackAnswers DEF IInv
  <2> QED  BY <2>1, <2>2
<1>8. ASSUME Scrub PROVE Answered'
  <2>1. ASSUME ScrubExpire PROVE Answered'
    <3>1. /\ Feedback(ping_list) /\ live' = live \ {ping_list} /\ ping_list # NULL
          /\ UNCHANGED <<asker, destroyed>>
      BY <2>1 DEF ScrubExpire, nodes
    <3> QED  BY <3>1, HeadIsLive, FeedbackAnswers DEF IInv
  <2> QED
    BY <1>0, <1>8, <2>1
    DEF Scrub, ScrubLock, ScrubOuter, ScrubInner, ScrubSleep, ScrubSelect, ScrubWait,
        ScrubOff, list, nodes
<1>9. ASSUME SpuriousWakeup PROVE Answered'
  BY <1>0, <1>9 DEF SpuriousWakeup, list, nodes
<1>10. ASSUME Shutdown PROVE Answered'  BY <1>0, <1>10 DEF Shutdown, list, nodes
<1>11. ASSUME Destroy PROVE Answered'
  <2>1. ASSUME DestroyEnd PROVE Answered'
    <3>1. destroyed' = TRUE /\ live' \subseteq live /\ asker' = asker /\ answers' = answers
      BY <2>1 DEF DestroyEnd, nodes
    <3> QED  BY <3>1 DEF IInv, Answered
  <2> QED  BY <1>0, <1>11, <2>1 DEF Destroy, DestroyWait, list, nodes
<1>12. ASSUME UNCHANGED vars PROVE Answered'  BY <1>0, <1>12 DEF vars, list, nodes
<1> QED
  BY <1>1, <1>2, <1>3, <1>4, <1>5, <1>6, <1>7, <1>8, <1>9, <1>10, <1>11, <1>12 DEF Next

-----------------------------------------------------------------------------
(* The scrubber does not sleep over a request.                             *)
LEMMA NextWatched ==
  ASSUME IInv, [Next]_vars
  PROVE  NoUnwatchedPing'
<1>0. ASSUME UNCHANGED <<spc, shutdown>>, ping_list' # NULL => ping_list # NULL
      PROVE NoUnwatchedPing'
  BY <1>0 DEF IInv, NoUnwatchedPing
<1>1. ASSUME Tick PROVE NoUnwatchedPing'  BY <1>0, <1>1 DEF Tick, list, nodes
<1>2. ASSUME SetBack PROVE NoUnwatchedPing'  BY <1>0, <1>2 DEF SetBack, list, nodes
<1>3. ASSUME NEW c \in Clients, Accept(c) PROVE NoUnwatchedPing'
  BY <1>0, <1>3 DEF Accept, list, nodes
<1>4. ASSUME NEW f \in Fds, Close(f) PROVE NoUnwatchedPing'
  BY <1>0, <1>4 DEF Close, list, nodes
<1>5. ASSUME NEW f \in Fds, NEW p \in Pings, NEW ip \in Ips, Request(f, p, ip)
      PROVE  NoUnwatchedPing'
  BY <1>5 DEF Request, WakeForRequest, WakeScrubber, NoUnwatchedPing
<1>6. ASSUME NEW r \in Repliers, NEW ip \in Ips, NEW q \in 0 .. SeqSpace - 1,
             ReplyCheck(r, ip, q)
      PROVE  NoUnwatchedPing'
  BY <1>0, <1>6 DEF ReplyCheck, list, nodes
<1>7. ASSUME NEW r \in Repliers, ReplySearch(r) PROVE NoUnwatchedPing'
  <2> DEFINE M == {q \in Pings : <<dst[q], seq[q]>> = want[r]}
  <2>1. CASE FirstIn(M) = NULL  BY <2>1, <1>0, <1>7 DEF ReplySearch, list, nodes
  <2>2. CASE FirstIn(M) # NULL
    <3>1. ping_list' = IF FirstIn(M) = ping_list THEN next[FirstIn(M)] ELSE ping_list
      BY <2>2, <1>7 DEF ReplySearch, Unlink
    <3>2. UNCHANGED <<spc, shutdown>>  BY <1>7 DEF ReplySearch
    <3> HIDE DEF M
    <3> QED  BY <2>2, <3>1, <3>2, <1>0
  <2> QED  BY <2>1, <2>2
<1>8. ASSUME Scrub PROVE NoUnwatchedPing'
  <2>1. ASSUME ScrubLock PROVE NoUnwatchedPing'
    <3>1. spc' # "wait"  BY <2>1 DEF ScrubLock, AfterLock
    <3> QED  BY <3>1 DEF NoUnwatchedPing
  <2> QED
    BY <1>0, <1>8, <2>1
    DEF Scrub, ScrubOuter, ScrubInner, ScrubExpire, ScrubSleep, ScrubSelect,
        ScrubWait, ScrubOff, list, nodes, NoUnwatchedPing
<1>9. ASSUME SpuriousWakeup PROVE NoUnwatchedPing'
  BY <1>9 DEF SpuriousWakeup, NoUnwatchedPing
<1>10. ASSUME Shutdown PROVE NoUnwatchedPing'  BY <1>10 DEF Shutdown, NoUnwatchedPing
<1>11. ASSUME Destroy PROVE NoUnwatchedPing'
  BY <1>11 DEF Destroy, DestroyWait, DestroyEnd, WakeScrubber, NoUnwatchedPing
<1>12. ASSUME UNCHANGED vars PROVE NoUnwatchedPing'
  BY <1>0, <1>12 DEF vars, list, nodes
<1> QED
  BY <1>1, <1>2, <1>3, <1>4, <1>5, <1>6, <1>7, <1>8, <1>9, <1>10, <1>11, <1>12 DEF Next

-----------------------------------------------------------------------------
LEMMA InsertTypes ==
  ASSUME TypeOK, Chained, NEW p \in Pings, NEW e, Insert(p, e)
  PROVE  /\ ping_list' \in Pings \cup {NULL}
         /\ prev' \in [Pings -> Pings \cup {NULL}]
         /\ next' \in [Pings -> Pings \cup {NULL}]
<1>0. /\ ping_list \in Pings \cup {NULL} /\ prev \in [Pings -> Pings \cup {NULL}]
      /\ next \in [Pings -> Pings \cup {NULL}]
  BY DEF TypeOK
<1>1. CASE ping_list = NULL
  <2>1. InsertOnly(p)  BY <1>1 DEF Insert
  <2> QED  BY <2>1, <1>0 DEF InsertOnly
<1>2. CASE ping_list # NULL /\ FirstIn(Later(e)) # NULL
  <2> DEFINE q == FirstIn(Later(e))
  <2>1. InsertBefore(p, q)  BY <1>2 DEF Insert
  <2>2. Later(e) \subseteq Pings  BY DEF Later
  <2>3. q \in Pings /\ q \in live  BY <2>2, <1>2, FoundIsLive
  <2> HIDE DEF q
  <2>4. q # ping_list => prev[q] \in Pings  BY <2>3, PrevIsNode
  <2> QED  BY <2>1, <2>3, <2>4, <1>0 DEF InsertBefore
<1>3. CASE ping_list # NULL /\ FirstIn(Later(e)) = NULL
  <2> DEFINE l == FirstIn({r \in Pings : next[r] = NULL})
  <2>1. InsertLast(p, l)  BY <1>3 DEF Insert
  <2>2. l \in Pings  BY <1>3, LastFound
  <2> HIDE DEF l
  <2> QED  BY <2>1, <2>2, <1>0 DEF InsertLast
<1> QED  BY <1>1, <1>2, <1>3

LEMMA CountTypes ==
  ASSUME NEW c \in 0 .. SeqSpace - 1
  PROVE  NextCount(c) \in 0 .. SeqSpace - 1
<1>1. SeqSpace \in Nat \ {0} /\ c + 1 \in Int  BY PingAssumption
<1> QED  BY <1>1, Z3 DEF NextCount

LEMMA NextTypes ==
  ASSUME IInv, [Next]_vars
  PROVE  TypeOK'
<1> USE PingAssumption DEF IInv
<1>1. ASSUME Tick PROVE TypeOK'  BY <1>1 DEF Tick, TypeOK, list, nodes
<1>2. ASSUME SetBack PROVE TypeOK'  BY <1>2 DEF SetBack, TypeOK, list, nodes
<1>3. ASSUME NEW c \in Clients, Accept(c) PROVE TypeOK'
  BY <1>3 DEF Accept, TypeOK, list, nodes
<1>4. ASSUME NEW f \in Fds, Close(f) PROVE TypeOK'
  BY <1>4 DEF Close, TypeOK, list, nodes
<1>5. ASSUME NEW f \in Fds, NEW p \in Pings, NEW ip \in Ips, Request(f, p, ip)
      PROVE  TypeOK'
  <2>1. /\ ping_list' \in Pings \cup {NULL}
        /\ prev' \in [Pings -> Pings \cup {NULL}]
        /\ next' \in [Pings -> Pings \cup {NULL}]
    BY <1>5, InsertTypes DEF Request
  <2>2. now + Wait \in 0 .. MaxTime  BY <1>5 DEF Request, TypeOK
  <2>3. NextCount(ping_count) \in 0 .. SeqSpace - 1  BY CountTypes DEF TypeOK
  <2>4. /\ ping_count' \in 0 .. SeqSpace - 1
        /\ expire' \in [Pings -> 0 .. MaxTime]
        /\ seq' \in [Pings -> 0 .. SeqSpace - 1]
        /\ fd' \in [Pings -> Fds \cup {NULL}] /\ dst' \in [Pings -> Ips \cup {NULL}]
        /\ asker' \in [Pings -> Clients \cup {NULL}] /\ live' \subseteq Pings
    BY <1>5, <2>2, <2>3 DEF Request, TypeOK
  <2>5. spc' \in {"start", "outer", "inner", "expire", "select", "relock", "wait",
                  "woken", "off", "gone"}
    BY <1>5 DEF Request, WakeForRequest, WakeScrubber, TypeOK
  <2>6. UNCHANGED <<now, setBacks, shutdown, locked, destroyed, snap, dpc, want, conn,
                    answers, misled>>
    BY <1>5 DEF Request
  <2> QED  BY <2>1, <2>4, <2>5, <2>6 DEF TypeOK
<1>6. ASSUME NEW r \in Repliers, NEW ip \in Ips, NEW q \in 0 .. SeqSpace - 1,
             ReplyCheck(r, ip, q)
      PROVE  TypeOK'
  <2>1. want' \in [Repliers -> (Ips \X (0 .. SeqSpace - 1)) \cup {NULL}]
    BY <1>6 DEF ReplyCheck, TypeOK
  <2> QED  BY <1>6, <2>1 DEF ReplyCheck, TypeOK, list, nodes
<1>7. ASSUME NEW r \in Repliers, ReplySearch(r) PROVE TypeOK'
  <2> DEFINE M == {q \in Pings : <<dst[q], seq[q]>> = want[r]}
  <2>0. want' \in [Repliers -> (Ips \X (0 .. SeqSpace - 1)) \cup {NULL}]
    BY <1>7 DEF ReplySearch, TypeOK
  <2>1. CASE FirstIn(M) = NULL
    <3>1. UNCHANGED <<list, now, setBacks, shutdown, locked, destroyed, spc, snap, dpc, conn>>
      BY <2>1, <1>7 DEF ReplySearch
    <3> QED  BY <2>0, <3>1 DEF TypeOK, list, nodes
  <2>2. CASE FirstIn(M) # NULL
    <3> DEFINE p == FirstIn(M)
    <3>1. /\ Unlink(p) /\ Feedback(p) /\ live' = live \ {p}
          /\ UNCHANGED <<fd, dst, seq, expire, asker, ping_count, now, setBacks, shutdown,
                         locked, destroyed, spc, snap, dpc, conn>>
      BY <2>2, <1>7 DEF ReplySearch
    <3>2. M \subseteq Pings  OBVIOUS
    <3>3. p \in live /\ p \in Pings
      <4> HIDE DEF M
      <4> QED  BY <2>2, <3>2, FoundIsLive
    <3> HIDE DEF p
    <3>4. p # ping_list => prev[p] \in Pings  BY <3>3, PrevIsNode
    <3>5. /\ ping_list' \in Pings \cup {NULL}
          /\ prev' \in [Pings -> Pings \cup {NULL}]
          /\ next' \in [Pings -> Pings \cup {NULL}]
      BY <3>1, <3>3, <3>4 DEF Unlink, TypeOK
    <3>6. answers' \in [Pings -> Nat] /\ misled' \in BOOLEAN
      BY <3>1, <3>3 DEF Feedback, TypeOK
    <3> QED  BY <2>0, <3>1, <3>5, <3>6 DEF TypeOK
  <2> QED  BY <2>1, <2>2
<1>8. ASSUME Scrub PROVE TypeOK'
  <2>0. 0 \in 0 .. MaxTime  OBVIOUS
  <2>1. ASSUME ScrubLock PROVE TypeOK'
    <3>1. spc' \in {"outer", "inner"}  BY <2>1 DEF ScrubLock, AfterLock
    <3> QED  BY <2>1, <3>1 DEF ScrubLock, TypeOK, list, nodes
  <2>2. ASSUME ScrubOuter PROVE TypeOK'
    BY <2>2 DEF ScrubOuter, TypeOK, list, nodes
  <2>3. ASSUME ScrubInner PROVE TypeOK'
    BY <2>3 DEF ScrubInner, TypeOK, list, nodes
  <2>4. ASSUME ScrubExpire PROVE TypeOK'
    <3>1. ping_list \in Pings  BY <2>4 DEF ScrubExpire, TypeOK
    <3>2. ping_list' \in Pings \cup {NULL} /\ live' \subseteq Pings
      BY <2>4, <3>1 DEF ScrubExpire, HeadAfterExpiry, TypeOK
    <3>3. answers' \in [Pings -> Nat] /\ misled' \in BOOLEAN
      BY <2>4, <3>1 DEF ScrubExpire, Feedback, TypeOK
    <3>4. UNCHANGED <<now, setBacks, shutdown, nodes, ping_count, locked, destroyed,
                      spc, snap, dpc, want, conn>>
      BY <2>4 DEF ScrubExpire
    <3> QED  BY <3>2, <3>3, <3>4 DEF TypeOK, nodes
  <2>5. ASSUME ScrubSleep PROVE TypeOK'
    BY <2>5, <2>0 DEF ScrubSleep, TypeOK, list, nodes
  <2>6. ASSUME ScrubSelect PROVE TypeOK'
    BY <2>6 DEF ScrubSelect, TypeOK, list, nodes
  <2>7. ASSUME ScrubWait PROVE TypeOK'
    BY <2>7, <2>0 DEF ScrubWait, TypeOK, list, nodes
  <2>8. ASSUME ScrubOff PROVE TypeOK'
    BY <2>8 DEF ScrubOff, TypeOK, list, nodes
  <2> QED  BY <1>8, <2>1, <2>2, <2>3, <2>4, <2>5, <2>6, <2>7, <2>8 DEF Scrub
<1>9. ASSUME SpuriousWakeup PROVE TypeOK'
  BY <1>9 DEF SpuriousWakeup, TypeOK, list, nodes
<1>10. ASSUME Shutdown PROVE TypeOK'  BY <1>10 DEF Shutdown, TypeOK, list, nodes
<1>11. ASSUME DestroyWait PROVE TypeOK'
  BY <1>11 DEF DestroyWait, WakeScrubber, TypeOK, list, nodes
<1>12. ASSUME DestroyEnd PROVE TypeOK'
  BY <1>12 DEF DestroyEnd, TypeOK, list, nodes
<1>13. ASSUME UNCHANGED vars PROVE TypeOK'  BY <1>13 DEF vars, TypeOK, list, nodes
<1> QED
  BY <1>1, <1>2, <1>3, <1>4, <1>5, <1>6, <1>7, <1>8, <1>9, <1>10, <1>11, <1>12, <1>13
  DEF Next, Destroy

-----------------------------------------------------------------------------
LEMMA InitIInv == Init => IInv
<1> SUFFICES ASSUME Init PROVE IInv
  OBVIOUS
<1>1. TypeOK
  <2>1. 0 \in 0 .. MaxTime /\ 0 \in 0 .. SetBacks /\ 0 \in 0 .. SeqSpace - 1
    BY PingAssumption
  <2> QED  BY <2>1 DEF Init, TypeOK
<1>2. Chained
  <2> DEFINE s == [i \in 1 .. 0 |-> i]
  <2>1. s \in [1 .. 0 -> Pings]  OBVIOUS
  <2> HIDE DEF s
  <2>2. InList(0, s)  BY <2>1 DEF Init, InList, Linked
  <2> QED  BY <2>1, <2>2 DEF Chained
<1>3. Answered /\ NoUnwatchedPing  BY DEF Init, Answered, NoUnwatchedPing
<1> QED  BY <1>1, <1>2, <1>3 DEF IInv

(* IInv holds in every state of the ping handler.                          *)
LEMMA Invariant == Spec => []IInv
<1>1. ASSUME IInv, [Next]_vars PROVE IInv'
  BY <1>1, NextTypes, NextChained, NextAnswered, NextWatched DEF IInv
<1> QED  BY <1>1, InitIInv, PTL DEF Spec

(* Requests, replies, expiry and shutdown in any order leave a list of the *)
(* allocated requests that every walk gets to the end of, in the order     *)
(* they expire, from which each can be taken out, and the scrubber never   *)
(* sleeps on the condition while a request is on the list, unless the      *)
(* router shuts down: for any clients, requests, sequence space and clock. *)
THEOREM PingListCorrect == Spec => []PingListSane
<1>1. IInv => PingListSane  BY LinkedInOrder DEF IInv, PingListSane
<1> QED  BY <1>1, Invariant, PTL

(* Until cli_ping_destroy has run, a request is unanswered as long as it   *)
(* is on the list and answered exactly once when it is not, however        *)
(* replies, also late and repeated ones, and the scrubber take turns.      *)
THEOREM AnsweredOnce == Spec => []OneAnswer
<1>1. ASSUME IInv PROVE OneAnswer
  <2>1. PICK n \in Nat : \E s \in [1 .. n -> Pings] : InList(n, s)
    BY <1>1 DEF IInv, Chained
  <2>2. OnList = live  BY <2>1, OnListIsLive
  <2> QED  BY <1>1, <2>2 DEF IInv, Answered, OneAnswer
<1> QED  BY <1>1, Invariant, PTL
=============================================================================
