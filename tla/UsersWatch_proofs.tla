-------------------------- MODULE UsersWatch_proofs --------------------------
(***************************************************************************)
(* For any accounts, groups and versions of users.yml, and any number of   *)
(* edits, stops and rounds cut off: the types of the watcher; that a round *)
(* tells of one version that the file had; that the trail alone tells      *)
(* which accounts there are, with which groups and flags; and that nothing *)
(* is told twice.                                                          *)
(*                                                                         *)
(* The events of a round are taken as a set (DiffEvents) or by what they   *)
(* name (IsBaseline), and the belief of a reader by what it still lacks of *)
(* the version read: every such difference has its event to come.          *)
(***************************************************************************)
EXTENDS UsersWatch, FiniteSetTheorems, WellFoundedInduction, TLAPS

(* A sequence of whatever it consists of.                                  *)
Elements(s) == {s[i] : i \in 1 .. Len(s)}

IsSequence(s) == s \in Seq(Elements(s))

Distinct(s) == \A i, k \in 1 .. Len(s) : s[i] = s[k] => i = k

Known   == {v \in Versions : v.kind = "accounts"}
Refusal == {v \in Versions : v.kind = "refused"}

-----------------------------------------------------------------------------
(* Sequences.                                                              *)

LEMMA NatLeast ==
  ASSUME NEW T \in SUBSET Nat, NEW n \in T
  PROVE  \E m \in T : \A k \in T : m <= k
<1> DEFINE R == OpToRel(<, Nat)
<1>1. IsWellFoundedOn(R, Nat)
  BY NatLessThanWellFounded
<1>2. \A x, y \in Nat : y < x => <<y, x>> \in R
  BY DEF OpToRel
<1> HIDE DEF R
<1>3. PICK m \in T : \A y \in T : <<y, m>> \notin R
  BY <1>1, WFMin
<1>4. ASSUME NEW k \in T PROVE m <= k
  <2>1. m \in Nat /\ k \in Nat /\ ~(k < m)
    BY <1>2, <1>3
  <2> QED
    BY ONLY <2>1
<1> QED
  BY <1>4

LEMMA UpTo ==
  ASSUME NEW n \in Nat, NEW T \in SUBSET (0 .. n), 0 \in T,
         \A k \in 1 .. n : k - 1 \in T => k \in T
  PROVE  \A k \in 0 .. n : k \in T
<1> SUFFICES ASSUME NEW i \in (0 .. n) \ T PROVE FALSE
  OBVIOUS
<1>1. PICK m \in (0 .. n) \ T : \A k \in (0 .. n) \ T : m <= k
  <2>1. (0 .. n) \ T \in SUBSET Nat
    OBVIOUS
  <2> QED
    BY <2>1, NatLeast
<1>2. m \in 1 .. n /\ m - 1 \in 0 .. n /\ ~(m <= m - 1)
  BY <1>1
<1>3. m - 1 \in T
  BY <1>1, <1>2
<1> QED
  BY <1>1, <1>2, <1>3

LEMMA SequenceOf ==
  ASSUME NEW S, NEW s \in Seq(S)
  PROVE  IsSequence(s) /\ Elements(s) \subseteq S
<1>1. /\ Len(s) \in Nat /\ DOMAIN s = 1 .. Len(s)
      /\ \A i \in 1 .. Len(s) : s[i] \in S
  OBVIOUS
<1>2. Elements(s) \subseteq S /\ \A i \in 1 .. Len(s) : s[i] \in Elements(s)
  BY <1>1 DEF Elements
<1>3. s \in Seq(Elements(s))
  BY <1>1, <1>2
<1> QED
  BY <1>2, <1>3 DEF IsSequence

LEMMA Single ==
  ASSUME NEW e
  PROVE  /\ IsSequence(<< e >>) /\ Elements(<< e >>) = {e}
         /\ IsSequence(<< >>) /\ Elements(<< >>) = {}
<1>1. << e >> \in Seq({e}) /\ Elements(<< e >>) = {e}
  BY DEF Elements
<1>2. << >> \in Seq({}) /\ Elements(<< >>) = {}
  BY DEF Elements
<1> QED
  BY <1>1, <1>2 DEF IsSequence

LEMMA Joined ==
  ASSUME NEW s, NEW t, IsSequence(s), IsSequence(t)
  PROVE  IsSequence(s \o t) /\ Elements(s \o t) \subseteq Elements(s) \cup Elements(t)
<1> DEFINE S == Elements(s) \cup Elements(t)
<1>1. s \in Seq(Elements(s)) /\ t \in Seq(Elements(t))
  BY DEF IsSequence
<1>2. s \in Seq(S) /\ t \in Seq(S)
  <2>1. Elements(s) \subseteq S /\ Elements(t) \subseteq S
    OBVIOUS
  <2> HIDE DEF S
  <2> QED
    BY <1>1, <2>1
<1>3. s \o t \in Seq(S)
  <2> HIDE DEF S
  <2> QED
    BY <1>2
<1> HIDE DEF S
<1>4. IsSequence(s \o t) /\ Elements(s \o t) \subseteq S
  BY <1>3, SequenceOf
<1> QED
  BY <1>4 DEF S

LEMMA Taken ==
  ASSUME NEW s, IsSequence(s), s # << >>
  PROVE  /\ IsSequence(Tail(s)) /\ Elements(Tail(s)) \subseteq Elements(s)
         /\ Head(s) \in Elements(s)
<1>1. s \in Seq(Elements(s)) /\ Len(s) \in Nat /\ Len(s) > 0
  BY DEF IsSequence
<1>2. Tail(s) \in Seq(Elements(s)) /\ Head(s) = s[1] /\ 1 \in 1 .. Len(s)
  BY <1>1
<1>3. Head(s) \in Elements(s)
  BY <1>2 DEF Elements
<1> HIDE DEF Elements
<1> QED
  BY <1>2, <1>3, SequenceOf

LEMMA Added ==
  ASSUME NEW s, IsSequence(s), NEW e
  PROVE  IsSequence(Append(s, e)) /\ Elements(Append(s, e)) \subseteq Elements(s) \cup {e}
<1>1. s \in Seq(Elements(s))
  BY DEF IsSequence
<1> DEFINE S == Elements(s) \cup {e}
<1>2. Append(s, e) \in Seq(S)
  <2>1. Elements(s) \subseteq S /\ e \in S
    OBVIOUS
  <2> HIDE DEF S
  <2> QED
    BY <1>1, <2>1
<1> HIDE DEF S
<1>3. IsSequence(Append(s, e)) /\ Elements(Append(s, e)) \subseteq S
  BY <1>2, SequenceOf
<1> QED
  BY <1>3 DEF S

(* A function on 1 .. n is a sequence.                                     *)
LEMMA Function ==
  ASSUME NEW n \in Nat, NEW s, s = [k \in 1 .. n |-> s[k]]
  PROVE  IsSequence(s) /\ Len(s) = n
<1>1. Len(s) = n /\ DOMAIN s = 1 .. n
  OBVIOUS
<1>2. \A k \in 1 .. n : s[k] \in Elements(s)
  BY <1>1 DEF Elements
<1> HIDE DEF Elements
<1>3. s \in Seq(Elements(s))
  BY <1>1, <1>2
<1> QED
  BY <1>1, <1>3 DEF IsSequence

LEMMA JoinedWhole ==
  ASSUME NEW s, NEW t, IsSequence(s), IsSequence(t)
  PROVE  /\ IsSequence(s \o t) /\ Elements(s \o t) = Elements(s) \cup Elements(t)
         /\ Distinct(s) /\ Distinct(t) /\ Elements(s) \cap Elements(t) = {} => Distinct(s \o t)
<1> DEFINE m == Len(s)
           n == Len(t)
           u == s \o t
<1>1. m \in Nat /\ n \in Nat
  BY DEF IsSequence
<1>2. Len(u) = m + n /\ \A i \in 1 .. m + n : u[i] = IF i <= m THEN s[i] ELSE t[i - m]
  <2>1. s \in Seq(Elements(s) \cup Elements(t)) /\ t \in Seq(Elements(s) \cup Elements(t))
    <3>1. s \in Seq(Elements(s)) /\ t \in Seq(Elements(t))
      BY DEF IsSequence
    <3>2. Elements(s) \subseteq Elements(s) \cup Elements(t) /\ Elements(t) \subseteq Elements(s) \cup Elements(t)
      OBVIOUS
    <3> QED
      BY <3>1, <3>2
  <2> QED
    BY <2>1
<1>3. IsSequence(u) /\ Elements(u) \subseteq Elements(s) \cup Elements(t)
  BY Joined
<1> HIDE DEF u, m, n
<1>4. \A i \in 1 .. m : i \in 1 .. m + n /\ u[i] = s[i]
  BY <1>1, <1>2
<1>5. \A i \in 1 .. n : m + i \in 1 .. m + n /\ u[m + i] = t[i]
  <2> TAKE i \in 1 .. n
  <2> DEFINE x == m + i
  <2>1. x \in 1 .. m + n /\ ~(x <= m) /\ x - m = i
    BY <1>1
  <2> HIDE DEF x
  <2>2. u[x] = t[x - m]
    BY <1>2, <2>1
  <2> QED
    BY <2>1, <2>2 DEF x
<1>6. Elements(s) \cup Elements(t) \subseteq Elements(u)
  <2>1. Elements(s) \subseteq Elements(u)
    BY <1>2, <1>4 DEF Elements, m
  <2>2. ASSUME NEW i \in 1 .. n PROVE t[i] \in Elements(u)
    <3>1. m + i \in 1 .. Len(u) /\ u[m + i] = t[i]
      BY <1>2, <1>5
    <3>2. u[m + i] \in Elements(u)
      BY <3>1 DEF Elements
    <3> QED
      BY <3>1, <3>2
  <2> QED
    BY <2>1, <2>2 DEF Elements, n
<1>7. ASSUME Distinct(s), Distinct(t), Elements(s) \cap Elements(t) = {} PROVE Distinct(u)
  <2> SUFFICES ASSUME NEW i \in 1 .. m + n, NEW k \in 1 .. m + n, u[i] = u[k] PROVE i = k
    BY <1>2 DEF Distinct
  <2>1. CASE i \in 1 .. m /\ k \in 1 .. m
    BY <1>4, <1>7, <2>1 DEF Distinct, m
  <2>2. CASE i \notin 1 .. m /\ k \notin 1 .. m
    <3>1. i - m \in 1 .. n /\ k - m \in 1 .. n /\ ~(i <= m) /\ ~(k <= m)
      BY <1>1, <2>2
    <3>2. u[i] = t[i - m] /\ u[k] = t[k - m]
      BY <1>2, <3>1
    <3>3. i - m = k - m
      BY <1>7, <3>1, <3>2 DEF Distinct, n
    <3> QED
      BY <1>1, <3>3
  <2>3. ASSUME NEW x \in 1 .. m + n, NEW y \in 1 .. m + n, x \in 1 .. m, y \notin 1 .. m PROVE u[x] # u[y]
    <3>1. y - m \in 1 .. n /\ ~(y <= m)
      BY <1>1, <2>3
    <3>2. u[y] = t[y - m] /\ u[x] = s[x]
      BY <1>2, <1>4, <2>3, <3>1
    <3>3. u[y] \in Elements(t) /\ u[x] \in Elements(s)
      BY <2>3, <3>1, <3>2 DEF Elements, m, n
    <3> QED
      BY <1>7, <3>3
  <2> QED
    BY <2>1, <2>2, <2>3
<1> QED
  BY <1>3, <1>6, <1>7 DEF u

Taking(s, t) ==
  /\ IsSequence(t) /\ Len(s) \in Nat \ {0} /\ Len(t) = Len(s) - 1 /\ Head(s) = s[1]
  /\ \A k \in 1 .. Len(t) : t[k] = s[k + 1]
  /\ Elements(s) = {Head(s)} \cup Elements(t)

LEMMA TakenWhole ==
  ASSUME NEW s, IsSequence(s), s # << >>
  PROVE  Taking(s, Tail(s))
<1> DEFINE t == Tail(s)
           m == Len(t)
           n == Len(s)
<1>1. s \in Seq(Elements(s)) /\ n \in Nat /\ n > 0
  BY DEF IsSequence
<1>2. IsSequence(t)
  BY Taken
<1>3. m = n - 1 /\ Head(s) = s[1] /\ (\A k \in 1 .. m : t[k] = s[k + 1])
  BY <1>1
<1> HIDE DEF t, m, n
<1>4. \A k \in 1 .. n : k = 1 \/ (k - 1 \in 1 .. m /\ k - 1 + 1 = k)
  BY <1>1, <1>3
<1>5. \A k \in 1 .. m : k + 1 \in 1 .. n
  BY <1>1, <1>3
<1>6. 1 \in 1 .. n
  BY <1>1
<1>7. Elements(s) \subseteq {Head(s)} \cup Elements(t)
  <2> SUFFICES ASSUME NEW k \in 1 .. n PROVE s[k] \in {Head(s)} \cup Elements(t)
    BY DEF Elements, n
  <2>1. k # 1 => s[k] = t[k - 1]
    BY <1>3, <1>4
  <2> QED
    BY <1>3, <1>4, <2>1 DEF Elements, m
<1>8. {Head(s)} \cup Elements(t) \subseteq Elements(s)
  BY <1>3, <1>5, <1>6 DEF Elements, n, m
<1>9. Taking(s, t)
  BY <1>1, <1>2, <1>3, <1>7, <1>8 DEF Taking, m, n
<1> QED
  BY <1>9 DEF t

Positions(s, t, E) ==
  /\ Len(E) = Len(s) + Len(t) /\ IsSequence(E)
  /\ \A k \in 1 .. Len(s) : E[k] = s[k]
  /\ \A k \in Len(s) + 1 .. Len(E) : E[k] \in Elements(t)
  /\ \A e \in Elements(t) : \E k \in Len(s) + 1 .. Len(E) : E[k] = e

LEMMA JoinedPositions ==
  ASSUME NEW s, NEW t, IsSequence(s), IsSequence(t)
  PROVE  Positions(s, t, s \o t)
<1> DEFINE m == Len(s)
           l == Len(t)
           E == s \o t
<1>1. s \in Seq(Elements(s)) /\ t \in Seq(Elements(t)) /\ m \in Nat /\ l \in Nat
  BY DEF IsSequence
<1>2. /\ Len(E) = m + l
      /\ \A k \in 1 .. m + l : E[k] = IF k <= m THEN s[k] ELSE t[k - m]
  BY <1>1
<1>3. IsSequence(E)
  BY JoinedWhole
<1> HIDE DEF m, l, E
<1>4. \A k \in 1 .. m : E[k] = s[k]
  BY <1>1, <1>2
<1>5. ASSUME NEW k \in m + 1 .. m + l PROVE E[k] \in Elements(t)
  <2>1. k \in 1 .. m + l /\ ~(k <= m) /\ k - m \in 1 .. l
    BY <1>1
  <2>2. E[k] = t[k - m]
    BY <1>2, <2>1
  <2> QED
    BY <2>1, <2>2 DEF Elements, l
<1>6. ASSUME NEW i \in 1 .. l PROVE \E k \in m + 1 .. m + l : E[k] = t[i]
  <2> DEFINE k == m + i
  <2>1. k \in m + 1 .. m + l /\ k \in 1 .. m + l /\ ~(k <= m) /\ k - m = i
    BY <1>1
  <2> HIDE DEF k
  <2>2. E[k] = t[i]
    BY <1>2, <2>1
  <2> QED
    BY <2>1, <2>2
<1>7. Positions(s, t, E)
  BY <1>2, <1>3, <1>4, <1>5, <1>6, SMTT(30) DEF Positions, Elements, m, l
<1> QED
  BY <1>7 DEF E

Extended(s, e, t) ==
  /\ Len(s) \in Nat /\ Len(t) = Len(s) + 1 /\ t[Len(s) + 1] = e
  /\ SubSeq(t, 1, Len(s) + 1) = t /\ SubSeq(t, 1, Len(s)) = s
  /\ \A k \in 1 .. Len(s) : t[k] = s[k] /\ SubSeq(t, 1, k) = SubSeq(s, 1, k)

LEMMA Lengthened ==
  ASSUME NEW s, IsSequence(s), NEW e
  PROVE  Extended(s, e, Append(s, e))
<1> DEFINE n == Len(s)
           t == Append(s, e)
           S == Elements(s) \cup {e}
<1>1. s \in Seq(S) /\ t \in Seq(S) /\ n \in Nat
  <2>1. s \in Seq(Elements(s))
    BY DEF IsSequence
  <2>2. Elements(s) \subseteq S /\ e \in S
    OBVIOUS
  <2> HIDE DEF S
  <2> QED
    BY <2>1, <2>2
<1>2. Len(t) = n + 1 /\ t[n + 1] = e /\ \A k \in 1 .. n : t[k] = s[k]
  BY <1>1
<1> HIDE DEF S, n, t
<1>3. SubSeq(t, 1, n + 1) = t
  BY <1>1, <1>2
<1>4. SubSeq(t, 1, n) = s
  BY <1>1, <1>2 DEF n
<1>5. ASSUME NEW k \in 1 .. n PROVE SubSeq(t, 1, k) = SubSeq(s, 1, k)
  <2>1. \A i \in 1 .. k : i \in 1 .. n /\ t[i] = s[i]
    BY <1>1, <1>2
  <2> QED
    BY <1>1, <1>2, <2>1 DEF n
<1> QED
  BY <1>1, <1>2, <1>3, <1>4, <1>5 DEF n, t, Extended

(* FlattenSeq has all elements of its parts, and no others; where parts    *)
(* have none in common and none twice, it has none twice.                  *)
LEMMA FlattenedWhole ==
  ASSUME NEW n \in Nat, NEW parts, parts = [k \in 1 .. n |-> parts[k]],
         \A k \in 1 .. n : IsSequence(parts[k])
  PROVE  /\ IsSequence(FlattenSeq(parts))
         /\ Elements(FlattenSeq(parts)) = UNION {Elements(parts[k]) : k \in 1 .. n}
         /\ /\ \A k \in 1 .. n : Distinct(parts[k])
            /\ \A i, k \in 1 .. n : i # k => Elements(parts[i]) \cap Elements(parts[k]) = {}
            => Distinct(FlattenSeq(parts))
<1> DEFINE Apart == /\ \A k \in 1 .. n : Distinct(parts[k])
                    /\ \A i, k \in 1 .. n : i # k => Elements(parts[i]) \cap Elements(parts[k]) = {}
<1>1. Len(parts) = n
  OBVIOUS
<1>2. CASE n = 0
  <2>1. FlattenSeq(parts) = << >>
    BY <1>1, <1>2 DEF FlattenSeq
  <2>2. UNION {Elements(parts[k]) : k \in 1 .. n} = {}
    BY <1>2
  <2>3. Distinct(<< >>)
    BY DEF Distinct
  <2> QED
    BY <2>1, <2>2, <2>3, Single
<1>3. CASE n # 0
  <2> DEFINE Joins(f, m) == f = [i \in 1 .. m |-> IF i = 1 THEN parts[i] ELSE f[i - 1] \o parts[i]]
             T == {m \in 0 .. n : \E f : Joins(f, m)}
  <2>1. \A m \in 0 .. n : m \in T
    <3>1. 0 \in T
      <4>1. Joins(<< >>, 0)
        OBVIOUS
      <4>2. 0 \in 0 .. n
        OBVIOUS
      <4> HIDE DEF Joins
      <4> QED
        BY <4>1, <4>2
    <3>2. ASSUME NEW m \in 1 .. n, m - 1 \in T PROVE m \in T
      <4>1. PICK f : Joins(f, m - 1)
        <5> HIDE DEF Joins
        <5> QED
          BY <3>2
      <4> DEFINE last == IF m = 1 THEN parts[m] ELSE f[m - 1] \o parts[m]
                 g == [i \in 1 .. m |-> IF i = m THEN last ELSE f[i]]
      <4>2. Joins(g, m)
        <5> SUFFICES ASSUME NEW i \in 1 .. m
                     PROVE  g[i] = IF i = 1 THEN parts[i] ELSE g[i - 1] \o parts[i]
          OBVIOUS
        <5>1. CASE i = m
          <6>1. m # 1 => g[m - 1] = f[m - 1]
            OBVIOUS
          <6> QED
            BY <5>1, <6>1
        <5>2. CASE i # m
          <6>1. i \in 1 .. m - 1 /\ g[i] = f[i] /\ (i # 1 => g[i - 1] = f[i - 1])
            BY <5>2, SMTT(30)
          <6>2. f[i] = IF i = 1 THEN parts[i] ELSE f[i - 1] \o parts[i]
            BY <4>1, <6>1
          <6> QED
            BY <6>1, <6>2
        <5> QED
          BY <5>1, <5>2
      <4>3. m \in 0 .. n
        OBVIOUS
      <4> HIDE DEF Joins, g
      <4> QED
        BY <4>2, <4>3
    <3>3. T \in SUBSET (0 .. n)
      OBVIOUS
    <3> HIDE DEF T
    <3> QED
      BY <3>1, <3>2, <3>3, UpTo
  <2>2. PICK f : Joins(f, n)
    <3>1. n \in T
      <4>1. n \in 0 .. n
        OBVIOUS
      <4> HIDE DEF T
      <4> QED
        BY <2>1, <4>1
    <3> HIDE DEF Joins
    <3> QED
      BY <3>1
  <2> DEFINE h == CHOOSE f_1 : Joins(f_1, n)
  <2>3. Joins(h, n)
    BY <2>2, Zenon
  <2>4. FlattenSeq(parts) = h[n]
    BY <1>1, <1>3 DEF FlattenSeq
  <2> HIDE DEF h
  <2>5. DOMAIN h = 1 .. n /\ \A i \in 1 .. n : h[i] = IF i = 1 THEN parts[i] ELSE h[i - 1] \o parts[i]
    BY <2>3
  <2> DEFINE Upto(i) == UNION {Elements(parts[k]) : k \in 1 .. i}
             Fine(i) == /\ IsSequence(h[i]) /\ Elements(h[i]) = Upto(i)
                        /\ Apart => Distinct(h[i])
             U == {i \in 0 .. n : i = 0 \/ Fine(i)}
  <2>6. \A i \in 0 .. n : i \in U
    <3>1. 0 \in U /\ U \in SUBSET (0 .. n)
      OBVIOUS
    <3>2. ASSUME NEW i \in 1 .. n, i - 1 \in U PROVE Fine(i)
      <4>1. CASE i = 1
        <5>1. h[i] = parts[i]
          BY <2>5, <4>1
        <5>2. Upto(i) = Elements(parts[i])
          BY <4>1
        <5> HIDE DEF Upto
        <5> QED
          BY <5>1, <5>2
      <4>2. CASE i # 1
        <5>1. i - 1 \in 1 .. n /\ i - 1 # 0
          BY <4>2
        <5>2. Fine(i - 1)
          <6> HIDE DEF Fine
          <6> QED
            BY <3>2, <5>1
        <5>3. h[i] = h[i - 1] \o parts[i]
          BY <2>5, <4>2
        <5>4. Upto(i) = Upto(i - 1) \cup Elements(parts[i])
          <6>1. \A k \in 1 .. i : k = i \/ k \in 1 .. i - 1
            OBVIOUS
          <6>2. i \in 1 .. i /\ \A k \in 1 .. i - 1 : k \in 1 .. i
            OBVIOUS
          <6> HIDE DEF Elements
          <6> QED
            BY <6>1, <6>2
        <5>5. Apart => Upto(i - 1) \cap Elements(parts[i]) = {}
          <6> SUFFICES ASSUME Apart, NEW x \in Upto(i - 1) PROVE x \notin Elements(parts[i])
            OBVIOUS
          <6>1. PICK k \in 1 .. i - 1 : x \in Elements(parts[k])
            OBVIOUS
          <6>2. k \in 1 .. n /\ k # i
            BY <6>1
          <6> HIDE DEF Upto
          <6> QED
            BY <6>1, <6>2
        <5>6. Apart => Distinct(parts[i])
          OBVIOUS
        <5> HIDE DEF Upto, Apart
        <5> QED
          BY <5>2, <5>3, <5>4, <5>5, <5>6, JoinedWhole
      <4> QED
        BY <4>1, <4>2
    <3>3. \A i \in 1 .. n : i - 1 \in U => i \in U
      <4> HIDE DEF Fine
      <4> QED
        BY <3>2
    <3> HIDE DEF U
    <3> QED
      BY <3>1, <3>3, UpTo
  <2>7. Fine(n)
    <3>1. n \in 0 .. n
      OBVIOUS
    <3> HIDE DEF Fine
    <3> QED
      BY <1>3, <2>6, <3>1
  <2> QED
    BY <2>4, <2>7
<1> QED
  BY <1>2, <1>3

(* A finite set of numbers in order: all of them, each once.               *)
LEMMA SortedWhole ==
  ASSUME NEW S, S \subseteq Nat, IsFiniteSet(S)
  PROVE  /\ Len(Sorted(S)) = Cardinality(S) /\ Cardinality(S) \in Nat
         /\ IsSequence(Sorted(S)) /\ Elements(Sorted(S)) = S /\ Distinct(Sorted(S))
<1> DEFINE N == Cardinality(S)
           Below(n) == {m \in S : m < n}
           P(n) == Cardinality(Below(n))
           place == [n \in S |-> P(n) + 1]
           At(k) == CHOOSE n \in S : P(n) = k - 1
           s == Sorted(S)
<1>1. N \in Nat
  BY FS_CardinalityType
<1>2. ASSUME NEW n \in S PROVE IsFiniteSet(Below(n)) /\ P(n) \in 0 .. N - 1
  <2>1. Below(n) \in SUBSET S /\ Below(n) # S
    OBVIOUS
  <2> HIDE DEF Below
  <2>2. IsFiniteSet(Below(n)) /\ Cardinality(Below(n)) <= N /\ Cardinality(Below(n)) # N
    BY <2>1, FS_Subset
  <2>3. Cardinality(Below(n)) \in Nat
    BY <2>2, FS_CardinalityType
  <2> HIDE DEF N
  <2> QED
    BY <1>1, <2>2, <2>3
<1>3. ASSUME NEW m \in S, NEW n \in S, m < n PROVE P(m) < P(n)
  <2>0. m \in Nat /\ n \in Nat
    OBVIOUS
  <2>1. Below(m) \in SUBSET Below(n) /\ Below(m) # Below(n)
    <3>1. \A k \in S : k \in Nat /\ (k < m => k < n)
      BY <1>3, <2>0
    <3>2. m \in Below(n) /\ m \notin Below(m)
      BY <1>3, <2>0
    <3> QED
      BY <3>1, <3>2
  <2>2. IsFiniteSet(Below(n)) /\ IsFiniteSet(Below(m))
    BY <1>2
  <2> HIDE DEF Below
  <2>3. Cardinality(Below(m)) <= Cardinality(Below(n)) /\ Cardinality(Below(m)) # Cardinality(Below(n))
    BY <2>1, <2>2, FS_Subset
  <2>4. Cardinality(Below(m)) \in Nat /\ Cardinality(Below(n)) \in Nat
    BY <2>2, FS_CardinalityType
  <2> QED
    BY <2>3, <2>4
<1>4. \A m, n \in S : P(m) = P(n) => m = n
  <2> TAKE m, n \in S
  <2>1. m \in Nat /\ n \in Nat /\ P(m) \in Int /\ P(n) \in Int
    BY <1>2
  <2>2. (m < n => P(m) < P(n)) /\ (n < m => P(n) < P(m))
    BY <1>3
  <2> HIDE DEF P
  <2> QED
    BY <2>1, <2>2
<1>5. s = [k \in 1 .. N |-> At(k)]
  BY DEF Sorted
<1> HIDE DEF P, Below, N, s
<1>6. place \in Injection(S, 1 .. N)
  <2>1. place \in [S -> 1 .. N]
    BY <1>1, <1>2
  <2>2. \A m, n \in S : place[m] = place[n] => m = n
    <3> TAKE m, n \in S
    <3>1. P(m) \in Int /\ P(n) \in Int
      BY <1>2
    <3> QED
      BY <1>4, <3>1
  <2> QED
    BY <2>1, <2>2 DEF Injection, IsInjective
<1>7. place \in Surjection(S, 1 .. N)
  <2>1. IsFiniteSet(1 .. N) /\ Cardinality(1 .. N) = N
    BY <1>1, FS_Interval
  <2> QED
    BY <1>6, <2>1, FS_Injection DEF N
<1>8. \A k \in 1 .. N : \E n \in S : P(n) = k - 1
  <2> TAKE k \in 1 .. N
  <2>1. PICK n \in S : place[n] = k
    BY <1>7 DEF Surjection
  <2>2. P(n) \in Int /\ P(n) + 1 = k
    BY <1>2, <2>1
  <2>3. P(n) = k - 1
    BY <2>2
  <2> QED
    BY <2>3
<1>9. \A k \in 1 .. N : At(k) \in S /\ P(At(k)) = k - 1
  BY <1>8
<1>10. \A n \in S : P(n) + 1 \in 1 .. N /\ At(P(n) + 1) = n
  <2> TAKE n \in S
  <2>1. P(n) \in Int /\ P(n) + 1 \in 1 .. N /\ P(n) + 1 - 1 = P(n)
    BY <1>1, <1>2
  <2>2. At(P(n) + 1) \in S /\ P(At(P(n) + 1)) = P(n)
    BY <1>9, <2>1
  <2> HIDE DEF At
  <2> QED
    BY <1>4, <2>1, <2>2
<1> HIDE DEF At
<1>11. s = [k \in 1 .. N |-> s[k]] /\ Len(s) = N /\ \A k \in 1 .. N : s[k] = At(k)
  BY <1>1, <1>5
<1>12. IsSequence(s)
  BY <1>1, <1>11, Function
<1>13. Elements(s) = S
  <2>1. \A k \in 1 .. N : s[k] \in S
    BY <1>9, <1>11
  <2>2. ASSUME NEW n \in S PROVE \E k \in 1 .. N : s[k] = n
    <3>1. P(n) + 1 \in 1 .. N /\ s[P(n) + 1] = n
      BY <1>10, <1>11
    <3> QED
      BY <3>1
  <2> QED
    BY <1>11, <2>1, <2>2 DEF Elements
<1>14. Distinct(s)
  <2> SUFFICES ASSUME NEW i \in 1 .. N, NEW k \in 1 .. N, s[i] = s[k] PROVE i = k
    BY <1>11 DEF Distinct
  <2>0. At(i) = At(k)
    BY <1>11
  <2>1. i - 1 = k - 1
    BY <1>9, <2>0
  <2> QED
    BY <1>1, <2>1
<1> QED
  BY <1>1, <1>11, <1>12, <1>13, <1>14 DEF N, s

-----------------------------------------------------------------------------
(* The events between two versions, as a set.                              *)

Named(event) == IF event.operation = "account.unparsed" THEN {} ELSE ToSet(event.ids)

CreateOf(n, new) == Change("account.create", n, new.groups, new.disabled)
DeleteOf(n)      == Change("account.delete", n, {}, FALSE)
GroupsOf(n, new) == Change("account.groups", n, new.groups, FALSE)
FlagOf(n, new)   == Change(IF new.disabled THEN "account.disable" ELSE "account.enable", n, {}, FALSE)
PasswordOf(n)    == Change("account.password", n, {}, FALSE)
ProfileOf(n)     == Change("account.profile", n, {}, FALSE)

If(condition, event) == IF condition THEN {event} ELSE {}

ChangesIn(n, old, new) ==
  If(old.groups # new.groups, GroupsOf(n, new)) \cup If(old.disabled # new.disabled, FlagOf(n, new))
  \cup If(old.password # new.password, PasswordOf(n)) \cup If(old.profile # new.profile, ProfileOf(n))

DiffFor(n, before, after) ==
  IF n \notin DOMAIN before THEN {CreateOf(n, after[n])}
  ELSE IF n \notin DOMAIN after THEN {DeleteOf(n)}
  ELSE ChangesIn(n, before[n], after[n])

DiffEvents(before, after) == UNION {DiffFor(n, before, after) : n \in DOMAIN before \cup DOMAIN after}

IsChange(e, op, n, groups, disabled) ==
  e.operation = op /\ e.ids = << n >> /\ e.groups = groups /\ e.disabled = disabled /\ Named(e) = {n}

LEMMA ChangeFields ==
  ASSUME NEW op, op # "account.unparsed", NEW n, NEW groups, NEW disabled
  PROVE  IsChange(Change(op, n, groups, disabled), op, n, groups, disabled)
<1> DEFINE e == Change(op, n, groups, disabled)
<1>1. e.operation = op /\ e.ids = << n >> /\ e.groups = groups /\ e.disabled = disabled
  BY DEF Change
<1>2. ToSet(<< n >>) = {n}
  BY DEF ToSet
<1> HIDE DEF e
<1>3. Named(e) = {n}
  BY <1>1, <1>2 DEF Named
<1>4. IsChange(e, op, n, groups, disabled)
  BY <1>1, <1>3 DEF IsChange
<1> QED
  BY <1>4 DEF e

(* One event, or none.                                                     *)
LEMMA OptionalWhole ==
  ASSUME NEW condition \in BOOLEAN, NEW e
  PROVE  LET s == IF condition THEN << e >> ELSE << >>
         IN IsSequence(s) /\ Elements(s) = If(condition, e) /\ Distinct(s)
<1>1. Distinct(<< e >>) /\ Distinct(<< >>)
  BY DEF Distinct
<1> QED
  BY <1>1, Single DEF If

LEMMA OperationsDiffer ==
  ASSUME NEW n, NEW new
  PROVE  /\ GroupsOf(n, new).operation = "account.groups"
         /\ FlagOf(n, new).operation \in {"account.disable", "account.enable"}
         /\ PasswordOf(n).operation = "account.password"
         /\ ProfileOf(n).operation = "account.profile"
         /\ CreateOf(n, new).operation = "account.create"
         /\ DeleteOf(n).operation = "account.delete"
  BY DEF GroupsOf, FlagOf, PasswordOf, ProfileOf, CreateOf, DeleteOf, Change

LEMMA ChangesWhole ==
  ASSUME NEW n, NEW old, NEW new
  PROVE  /\ IsSequence(ChangesOf(n, old, new))
         /\ Elements(ChangesOf(n, old, new)) = ChangesIn(n, old, new)
         /\ Distinct(ChangesOf(n, old, new))
<1> DEFINE cg == old.groups # new.groups
           cd == old.disabled # new.disabled
           cp == old.password # new.password
           cf == old.profile # new.profile
           eg == GroupsOf(n, new)
           ed == FlagOf(n, new)
           ep == PasswordOf(n)
           ef == ProfileOf(n)
           g == IF cg THEN << eg >> ELSE << >>
           d == IF cd THEN << ed >> ELSE << >>
           p == IF cp THEN << ep >> ELSE << >>
           f == IF cf THEN << ef >> ELSE << >>
           G == If(cg, eg)
           D == If(cd, ed)
           P == If(cp, ep)
           F == If(cf, ef)
<1>1. ChangesOf(n, old, new) = ((g \o d) \o p) \o f
  BY DEF ChangesOf, GroupsOf, FlagOf, PasswordOf, ProfileOf
<1>2. ChangesIn(n, old, new) = ((G \cup D) \cup P) \cup F
  BY DEF ChangesIn
<1>3. cg \in BOOLEAN /\ cd \in BOOLEAN /\ cp \in BOOLEAN /\ cf \in BOOLEAN
  OBVIOUS
<1>4. /\ eg.operation = "account.groups" /\ ed.operation \in {"account.disable", "account.enable"}
      /\ ep.operation = "account.password" /\ ef.operation = "account.profile"
  BY OperationsDiffer
<1> HIDE DEF cg, cd, cp, cf, eg, ed, ep, ef
<1>5. /\ IsSequence(g) /\ Elements(g) = G /\ Distinct(g)
      /\ IsSequence(d) /\ Elements(d) = D /\ Distinct(d)
      /\ IsSequence(p) /\ Elements(p) = P /\ Distinct(p)
      /\ IsSequence(f) /\ Elements(f) = F /\ Distinct(f)
  BY <1>3, OptionalWhole
<1>6. /\ \A e \in G : e.operation = "account.groups"
      /\ \A e \in D : e.operation \in {"account.disable", "account.enable"}
      /\ \A e \in P : e.operation = "account.password"
      /\ \A e \in F : e.operation = "account.profile"
  BY <1>4 DEF If
<1> HIDE DEF g, d, p, f, G, D, P, F
<1>7. IsSequence(g \o d) /\ Elements(g \o d) = G \cup D /\ Distinct(g \o d)
  <2>1. G \cap D = {}
    BY <1>6
  <2> QED
    BY <1>5, <2>1, JoinedWhole
<1>8. /\ IsSequence((g \o d) \o p) /\ Elements((g \o d) \o p) = (G \cup D) \cup P
      /\ Distinct((g \o d) \o p)
  <2>1. (G \cup D) \cap P = {}
    BY <1>6
  <2> QED
    BY <1>5, <1>7, <2>1, JoinedWhole
<1>9. /\ IsSequence(((g \o d) \o p) \o f) /\ Elements(((g \o d) \o p) \o f) = ((G \cup D) \cup P) \cup F
      /\ Distinct(((g \o d) \o p) \o f)
  <2>1. ((G \cup D) \cup P) \cap F = {}
    BY <1>6
  <2> QED
    BY <1>5, <1>8, <2>1, JoinedWhole
<1> QED
  BY <1>1, <1>2, <1>9

LEMMA DiffForNames ==
  ASSUME NEW n, NEW before, NEW after
  PROVE  \A e \in DiffFor(n, before, after) : e.ids = << n >> /\ Named(e) = {n} /\ e.operation # "account.unparsed"
<1> DEFINE Sound(e) == e.ids = << n >> /\ Named(e) = {n} /\ e.operation # "account.unparsed"
<1>1. \A op, groups, disabled : op # "account.unparsed" => Sound(Change(op, n, groups, disabled))
  <2> TAKE op, groups, disabled
  <2> HAVE op # "account.unparsed"
  <2>1. IsChange(Change(op, n, groups, disabled), op, n, groups, disabled)
    BY ChangeFields
  <2> QED
    BY <2>1 DEF IsChange
<1>2. /\ \A new : Sound(CreateOf(n, new)) /\ Sound(GroupsOf(n, new))
      /\ Sound(DeleteOf(n)) /\ Sound(PasswordOf(n)) /\ Sound(ProfileOf(n))
  <2> HIDE DEF Sound
  <2> QED
    BY <1>1 DEF CreateOf, DeleteOf, GroupsOf, PasswordOf, ProfileOf
<1>3. \A new : Sound(FlagOf(n, new))
  <2> TAKE new
  <2>1. (IF new.disabled THEN "account.disable" ELSE "account.enable") # "account.unparsed"
    OBVIOUS
  <2> HIDE DEF Sound
  <2> QED
    BY <1>1, <2>1 DEF FlagOf
<1> HIDE DEF Sound
<1>4. \A e \in DiffFor(n, before, after) : Sound(e)
  BY <1>2, <1>3 DEF DiffFor, ChangesIn, If
<1> QED
  BY <1>4 DEF Sound

(* diff_accounts tells of each change once, and of nothing else.           *)
LEMMA DiffWhole ==
  ASSUME NEW v \in Known, NEW w \in Known
  PROVE  LET events == DiffAccounts(v.accounts, w.accounts) IN
         /\ IsSequence(events)
         /\ Elements(events) = DiffEvents(v.accounts, w.accounts)
         /\ Distinct(events)
<1> DEFINE before == v.accounts
           after == w.accounts
           all == DOMAIN before \cup DOMAIN after
           names == Sorted(all)
           Of(n) == IF n \notin DOMAIN before
                      THEN <<Change("account.create", n, after[n].groups, after[n].disabled)>>
                    ELSE IF n \notin DOMAIN after THEN <<Change("account.delete", n, {}, FALSE)>>
                    ELSE ChangesOf(n, before[n], after[n])
           parts == [k \in 1 .. Len(names) |-> Of(names[k])]
<1>1. DOMAIN before \subseteq Names /\ DOMAIN after \subseteq Names
  BY WatchAssumption DEF Known
<1>2. /\ Len(names) \in Nat /\ IsSequence(names) /\ Elements(names) = all /\ Distinct(names)
  <2>1. IsFiniteSet(all) /\ all \subseteq Nat
    BY <1>1, WatchAssumption, FS_Subset
  <2> HIDE DEF all
  <2> QED
    BY <2>1, SortedWhole
<1>3. ASSUME NEW n
      PROVE  IsSequence(Of(n)) /\ Elements(Of(n)) = DiffFor(n, before, after) /\ Distinct(Of(n))
  <2> DEFINE c == CreateOf(n, after[n])
             d == DeleteOf(n)
  <2>1. Of(n) = IF n \notin DOMAIN before THEN << c >>
                ELSE IF n \notin DOMAIN after THEN << d >> ELSE ChangesOf(n, before[n], after[n])
    BY DEF CreateOf, DeleteOf
  <2>2. DiffFor(n, before, after) =
          IF n \notin DOMAIN before THEN {c}
          ELSE IF n \notin DOMAIN after THEN {d} ELSE ChangesIn(n, before[n], after[n])
    BY DEF DiffFor
  <2> HIDE DEF Of, c, d
  <2>3. Distinct(<< c >>) /\ Distinct(<< d >>)
    BY DEF Distinct
  <2>4. CASE n \notin DOMAIN before
    <3>1. Of(n) = << c >> /\ DiffFor(n, before, after) = {c}
      BY <2>1, <2>2, <2>4
    <3> QED
      BY <2>3, <3>1, Single
  <2>5. CASE n \in DOMAIN before /\ n \notin DOMAIN after
    <3>1. Of(n) = << d >> /\ DiffFor(n, before, after) = {d}
      BY <2>1, <2>2, <2>5
    <3> QED
      BY <2>3, <3>1, Single
  <2>6. CASE n \in DOMAIN before /\ n \in DOMAIN after
    <3>1. Of(n) = ChangesOf(n, before[n], after[n]) /\ DiffFor(n, before, after) = ChangesIn(n, before[n], after[n])
      BY <2>1, <2>2, <2>6
    <3> QED
      BY <3>1, ChangesWhole
  <2> QED
    BY <2>4, <2>5, <2>6
<1>4. DiffAccounts(before, after) = FlattenSeq(parts)
  BY DEF DiffAccounts
<1>5. DiffEvents(before, after) = UNION {DiffFor(n, before, after) : n \in all}
  BY DEF DiffEvents
<1> HIDE DEF Of, names, all
<1>6. parts = [k \in 1 .. Len(names) |-> parts[k]] /\ \A k \in 1 .. Len(names) : parts[k] = Of(names[k])
  OBVIOUS
<1> HIDE DEF parts
<1>7. \A k \in 1 .. Len(names) :
        IsSequence(parts[k]) /\ Elements(parts[k]) = DiffFor(names[k], before, after) /\ Distinct(parts[k])
  BY <1>3, <1>6
<1>8. \A i, k \in 1 .. Len(names) : i # k => Elements(parts[i]) \cap Elements(parts[k]) = {}
  <2> TAKE i, k \in 1 .. Len(names)
  <2>1. i # k => names[i] # names[k]
    BY <1>2 DEF Distinct
  <2>2. \A m, n : m # n => << m >> # << n >>
    OBVIOUS
  <2> QED
    BY <1>7, <2>1, <2>2, DiffForNames
<1>9. UNION {Elements(parts[k]) : k \in 1 .. Len(names)} = DiffEvents(before, after)
  <2>1. \A k \in 1 .. Len(names) : names[k] \in all
    BY <1>2 DEF Elements
  <2>2. \A n \in all : \E k \in 1 .. Len(names) : names[k] = n
    BY <1>2 DEF Elements
  <2> QED
    BY <1>5, <1>7, <2>1, <2>2
<1>10. /\ IsSequence(FlattenSeq(parts))
       /\ Elements(FlattenSeq(parts)) = UNION {Elements(parts[k]) : k \in 1 .. Len(names)}
       /\ Distinct(FlattenSeq(parts))
  BY <1>2, <1>6, <1>7, <1>8, FlattenedWhole
<1> QED
  BY <1>4, <1>9, <1>10

LEMMA NamesOf ==
  ASSUME NEW n, NEW new
  PROVE  /\ CreateOf(n, new).ids = << n >> /\ DeleteOf(n).ids = << n >> /\ GroupsOf(n, new).ids = << n >>
         /\ FlagOf(n, new).ids = << n >> /\ PasswordOf(n).ids = << n >> /\ ProfileOf(n).ids = << n >>
  BY DEF CreateOf, DeleteOf, GroupsOf, FlagOf, PasswordOf, ProfileOf, Change

LEMMA FirstName ==
  ASSUME NEW e, NEW n, e.ids = << n >>
  PROVE  e.ids[1] = n
  OBVIOUS

(* Of the events of a difference, by name.                                 *)
LEMMA DiffCases ==
  ASSUME NEW before, NEW after, NEW e \in DiffEvents(before, after)
  PROVE  \E n \in DOMAIN before \cup DOMAIN after :
           \/ n \notin DOMAIN before /\ n \in DOMAIN after /\ e = CreateOf(n, after[n])
           \/ n \in DOMAIN before /\ n \notin DOMAIN after /\ e = DeleteOf(n)
           \/ /\ n \in DOMAIN before /\ n \in DOMAIN after
              /\ \/ e = GroupsOf(n, after[n]) /\ before[n].groups # after[n].groups
                 \/ e = FlagOf(n, after[n]) /\ before[n].disabled # after[n].disabled
                 \/ e = PasswordOf(n)
                 \/ e = ProfileOf(n)
<1>1. PICK n \in DOMAIN before \cup DOMAIN after : e \in DiffFor(n, before, after)
  BY DEF DiffEvents
<1>2. CASE n \notin DOMAIN before
  <2>1. e = CreateOf(n, after[n])
    BY <1>1, <1>2 DEF DiffFor
  <2> QED
    BY <1>2, <2>1
<1>3. CASE n \in DOMAIN before /\ n \notin DOMAIN after
  <2>1. e = DeleteOf(n)
    BY <1>1, <1>3 DEF DiffFor
  <2> QED
    BY <1>3, <2>1
<1>4. CASE n \in DOMAIN before /\ n \in DOMAIN after
  <2>1. e \in ChangesIn(n, before[n], after[n])
    BY <1>1, <1>4 DEF DiffFor
  <2>2. \/ e = GroupsOf(n, after[n]) /\ before[n].groups # after[n].groups
        \/ e = FlagOf(n, after[n]) /\ before[n].disabled # after[n].disabled
        \/ e = PasswordOf(n)
        \/ e = ProfileOf(n)
    BY <2>1 DEF ChangesIn, If
  <2> QED
    BY <1>4, <2>2
<1> QED
  BY <1>2, <1>3, <1>4

-----------------------------------------------------------------------------
(* Names in chunks: each name in one of the chunks, and no other.          *)

LEMMA Products ==
  ASSUME NEW C \in Nat \ {0}, NEW a \in Int, NEW b \in Int, a <= b
  PROVE  a * C <= b * C
  OBVIOUS

LEMMA ChunkOf ==
  ASSUME NEW C \in Nat \ {0}, NEW L \in Nat, NEW i \in 1 .. L
  PROVE  \E k \in 1 .. (L + C - 1) \div C : (k - 1) * C + 1 <= i /\ i <= k * C
<1> DEFINE q == (i - 1) \div C
           r == (i - 1) % C
           c == (L + C - 1) \div C
           s == (L + C - 1) % C
<1>1. q \in Nat /\ r \in 0 .. C - 1 /\ i - 1 = q * C + r
  <2>1. i - 1 \in Nat
    OBVIOUS
  <2> QED
    BY <2>1
<1>2. c \in Nat /\ s \in 0 .. C - 1 /\ L + C - 1 = c * C + s
  <2>1. L + C - 1 \in Nat
    OBVIOUS
  <2> QED
    BY <2>1
<1> HIDE DEF q, r, c, s
<1>3. q * C \in Int /\ c * C \in Int /\ (q + 1) * C = q * C + C
  BY <1>1, <1>2
<1>4. q * C + 1 <= i /\ i <= (q + 1) * C /\ q * C < c * C
  BY <1>1, <1>2, <1>3
<1>5. q + 1 \in 1 .. c
  <2>1. ~(c <= q)
    <3> SUFFICES ASSUME c <= q PROVE FALSE
      OBVIOUS
    <3>1. c * C <= q * C
      BY <1>1, <1>2, Products
    <3> QED
      BY <1>3, <1>4, <3>1
  <2> QED
    BY <1>1, <1>2, <2>1
<1>6. PICK k \in 1 .. c : k = q + 1 /\ k - 1 = q
  BY <1>1, <1>5
<1>7. (k - 1) * C = q * C /\ k * C = (q + 1) * C
  BY ONLY <1>6
<1>8. (k - 1) * C + 1 <= i /\ i <= k * C
  BY <1>4, <1>7, Zenon
<1> QED
  BY <1>8 DEF c

LEMMA PartOf ==
  ASSUME NEW s, IsSequence(s), NEW lo \in Nat \ {0}, NEW hi \in Nat, hi <= Len(s)
  PROVE  ToSet(SubSeq(s, lo, hi)) = {s[i] : i \in lo .. hi}
<1> DEFINE t == SubSeq(s, lo, hi)
<1>1. s \in Seq(Elements(s)) /\ Len(s) \in Nat
  BY DEF IsSequence
<1>2. CASE lo <= hi
  <2>1. Len(t) = hi - lo + 1 /\ DOMAIN t = 1 .. hi - lo + 1
        /\ \A j \in 1 .. hi - lo + 1 : t[j] = s[lo + j - 1]
    BY <1>1, <1>2
  <2> HIDE DEF t
  <2>2. ToSet(t) \subseteq {s[i] : i \in lo .. hi}
    <3> SUFFICES ASSUME NEW j \in 1 .. hi - lo + 1 PROVE t[j] \in {s[i] : i \in lo .. hi}
      BY <2>1 DEF ToSet
    <3>1. lo + j - 1 \in lo .. hi
      OBVIOUS
    <3> QED
      BY <2>1, <3>1
  <2>3. ASSUME NEW i \in lo .. hi PROVE s[i] \in ToSet(t)
    <3> DEFINE j == i - lo + 1
    <3>1. j \in 1 .. hi - lo + 1 /\ lo + j - 1 = i
      OBVIOUS
    <3> HIDE DEF j
    <3>2. j \in DOMAIN t /\ t[j] = s[i]
      BY <2>1, <3>1
    <3> QED
      BY <3>2 DEF ToSet
  <2>4. ToSet(t) = {s[i] : i \in lo .. hi}
    BY <2>2, <2>3
  <2> QED
    BY <2>4 DEF t
<1>3. CASE ~(lo <= hi)
  <2>1. t = << >>
    BY <1>1, <1>3
  <2>2. lo .. hi = {}
    BY <1>3
  <2> QED
    BY <2>1, <2>2 DEF ToSet
<1> QED
  BY <1>2, <1>3

IsChunked(events, op, continued, S, groups) ==
  /\ IsSequence(events) /\ Len(events) \in Nat \ {0}
  /\ events[1].operation = op
  /\ \A k \in 1 .. Len(events) :
       /\ k # 1 => events[k].operation = continued
       /\ events[k].groups = groups /\ ToSet(events[k].ids) \subseteq S
  /\ \A n \in S : \E k \in 1 .. Len(events) : n \in ToSet(events[k].ids)

LEMMA ChunkedWhole ==
  ASSUME NEW S, S \subseteq Nat, IsFiniteSet(S), NEW op, NEW continued, NEW groups
  PROVE  IsChunked(Chunked(op, continued, S, groups), op, continued, S, groups)
<1> DEFINE s == Sorted(S)
           L == Len(s)
           C == ChunkIds
           chunks == (L + C - 1) \div C
           N == IF chunks = 0 THEN 1 ELSE chunks
           lo(k) == (k - 1) * C + 1
           hi(k) == IF k * C < L THEN k * C ELSE L
           Chunk(k) == SubSeq(s, lo(k), hi(k))
           events == Chunked(op, continued, S, groups)
<1>1. C \in Nat \ {0}
  BY WatchAssumption
<1>2. L \in Nat /\ IsSequence(s) /\ Elements(s) = S
  BY SortedWhole
<1>3. chunks \in Nat /\ N \in Nat \ {0} /\ 1 .. chunks \subseteq 1 .. N
  <2> HIDE DEF L
  <2>1. chunks \in Nat
    BY <1>1, <1>2
  <2> HIDE DEF chunks
  <2> QED
    BY <2>1
<1>4. events = [k \in 1 .. N |-> Listing(IF k = 1 THEN op ELSE continued, Chunk(k), groups)]
  BY DEF Chunked
<1>5. ASSUME NEW k \in 1 .. N
      PROVE  lo(k) \in Nat \ {0} /\ hi(k) \in Nat /\ hi(k) <= L
  <2> HIDE DEF L, N
  <2>1. (k - 1) * C \in Nat /\ k * C \in Nat
    BY <1>1, <1>3
  <2> QED
    BY <1>2, <2>1
<1>6. ASSUME NEW k \in 1 .. N PROVE ToSet(Chunk(k)) = {s[i] : i \in lo(k) .. hi(k)}
  <2> HIDE DEF lo, hi, s, N
  <2> QED
    BY <1>2, <1>5, PartOf DEF L
<1>7. ASSUME NEW k \in 1 .. N PROVE ToSet(Chunk(k)) \subseteq S
  <2>1. \A i \in lo(k) .. hi(k) : i \in 1 .. L
    <3> HIDE DEF lo, hi, L, N
    <3> QED
      BY <1>2, <1>5
  <2> HIDE DEF lo, hi, N, Chunk, s
  <2> QED
    BY <1>2, <1>6, <2>1 DEF Elements, L
<1>8. ASSUME NEW n \in S PROVE \E k \in 1 .. N : n \in ToSet(Chunk(k))
  <2>1. PICK i \in 1 .. L : n = s[i]
    <3> HIDE DEF s
    <3> QED
      BY <1>2 DEF Elements, L
  <2>2. PICK k \in 1 .. chunks : lo(k) <= i /\ i <= k * C
    <3> HIDE DEF L, C
    <3> QED
      BY <1>1, <1>2, ChunkOf
  <2>3. k \in 1 .. N
    BY <1>3, <2>2
  <2>4. i \in lo(k) .. hi(k)
    <3>1. lo(k) \in Nat /\ hi(k) \in Nat /\ i \in Nat /\ i <= L
      <4> HIDE DEF lo, hi, L, N
      <4> QED
        BY <1>2, <1>5, <2>1, <2>3
    <3>2. i <= hi(k)
      BY <2>2, <3>1
    <3> HIDE DEF lo, hi
    <3> QED
      BY <2>2, <3>1, <3>2
  <2>5. n \in ToSet(Chunk(k))
    <3> HIDE DEF lo, hi, Chunk, s, N
    <3> QED
      BY <1>6, <2>1, <2>3, <2>4
  <2> HIDE DEF Chunk, N
  <2> QED
    BY <2>3, <2>5
<1> HIDE DEF N, Chunk, events
<1>9. /\ IsSequence(events) /\ Len(events) = N
      /\ \A k \in 1 .. N : events[k] = Listing(IF k = 1 THEN op ELSE continued, Chunk(k), groups)
  BY <1>3, <1>4, Function
<1>10. \A k \in 1 .. N : /\ events[k].operation = IF k = 1 THEN op ELSE continued
                         /\ events[k].groups = groups /\ events[k].ids = Chunk(k)
  BY <1>9 DEF Listing
<1>11. 1 \in 1 .. N
  BY <1>3
<1>12. IsChunked(events, op, continued, S, groups)
  BY <1>3, <1>7, <1>8, <1>9, <1>10, <1>11 DEF IsChunked
<1> QED
  BY <1>12 DEF events

(* Elements of a chunked list.                                             *)
LEMMA ChunkNames ==
  ASSUME NEW events, NEW op, NEW continued, NEW S, NEW groups,
         op # "account.unparsed", continued # "account.unparsed",
         IsChunked(events, op, continued, S, groups)
  PROVE  /\ \A e \in Elements(events) :
              e.operation \in {op, continued} /\ e.groups = groups /\ Named(e) \subseteq S
         /\ \A n \in S : \E e \in Elements(events) : n \in Named(e)
<1>1. \A k \in 1 .. Len(events) :
        /\ events[k].operation \in {op, continued} /\ events[k].groups = groups
        /\ Named(events[k]) = ToSet(events[k].ids) /\ Named(events[k]) \subseteq S
  <2> TAKE k \in 1 .. Len(events)
  <2>1. events[k].operation \in {op, continued}
    <3>1. k = 1 \/ k # 1
      OBVIOUS
    <3> QED
      BY <3>1 DEF IsChunked
  <2>2. Named(events[k]) = ToSet(events[k].ids)
    BY <2>1 DEF Named
  <2> QED
    BY <2>1, <2>2 DEF IsChunked
<1>2. \A n \in S : \E k \in 1 .. Len(events) : n \in Named(events[k])
  BY <1>1 DEF IsChunked
<1> QED
  BY <1>1, <1>2 DEF Elements

-----------------------------------------------------------------------------
(* The events of a first list of the accounts.                             *)

IsIds(e) == e.operation = "account.baseline.ids"

IsMember(e) == e.operation \in {"account.baseline.group", "account.baseline.group.ids"}

IsDisabled(e) == e.operation \in {"account.baseline.disabled", "account.baseline.disabled.ids"}

FitsMember(e, accounts) ==
  IsMember(e) /\ \A n \in Named(e) : n \in DOMAIN accounts /\ e.groups \subseteq accounts[n].groups

FitsDisabled(e, accounts) ==
  IsDisabled(e) /\ \A n \in Named(e) : n \in DOMAIN accounts /\ accounts[n].disabled

Fits(e, accounts) ==
  \/ IsIds(e) /\ Named(e) \subseteq DOMAIN accounts
  \/ FitsMember(e, accounts)
  \/ FitsDisabled(e, accounts)

TellsMember(e, n, g) == IsMember(e) /\ n \in Named(e) /\ g \in e.groups

TellsDisabled(e, n) == IsDisabled(e) /\ n \in Named(e)

IsBaseline(E, accounts) ==
  /\ IsSequence(E) /\ Len(E) \in Nat \ {0}
  /\ E[1].operation = "account.baseline" /\ Named(E[1]) \subseteq DOMAIN accounts
  /\ \A k \in 2 .. Len(E) : Fits(E[k], accounts)
  /\ \A j \in 2 .. Len(E), k \in 2 .. Len(E) : j < k /\ IsIds(E[k]) => IsIds(E[j])
  /\ \A n \in DOMAIN accounts : \E k \in 1 .. Len(E) : n \in Named(E[k]) /\ (k = 1 \/ IsIds(E[k]))
  /\ \A n \in DOMAIN accounts : \A g \in accounts[n].groups :
       \E k \in 1 .. Len(E) : TellsMember(E[k], n, g)
  /\ \A n \in DOMAIN accounts : accounts[n].disabled => \E k \in 1 .. Len(E) : TellsDisabled(E[k], n)

(* The event for each group, and those for the disabled accounts.          *)
MembersOf(accounts, g) == {n \in DOMAIN accounts : g \in accounts[n].groups}

DisabledIn(accounts) == {n \in DOMAIN accounts : accounts[n].disabled}

GroupsIn(accounts) == UNION {accounts[n].groups : n \in DOMAIN accounts}

NamesPart(accounts) == Chunked("account.baseline", "account.baseline.ids", DOMAIN accounts, {})

GroupPart(accounts, g) ==
  Chunked("account.baseline.group", "account.baseline.group.ids", MembersOf(accounts, g), {g})

GroupParts(accounts) ==
  LET groups == Sorted(GroupsIn(accounts))
  IN  [k \in 1 .. Len(groups) |-> GroupPart(accounts, groups[k])]

FlagPart(accounts) ==
  IF DisabledIn(accounts) = {} THEN << >>
  ELSE Chunked("account.baseline.disabled", "account.baseline.disabled.ids", DisabledIn(accounts), {})

LEMMA BaselineParts ==
  ASSUME NEW A
  PROVE  Baseline(A) = (NamesPart(A) \o FlattenSeq(GroupParts(A))) \o FlagPart(A)
  BY DEF Baseline, NamesPart, GroupParts, GroupPart, FlagPart, GroupsIn, MembersOf, DisabledIn

LEMMA BaselineFinite ==
  ASSUME NEW v \in Known
  PROVE  LET A == v.accounts IN
         /\ DOMAIN A \subseteq Nat /\ IsFiniteSet(DOMAIN A)
         /\ DisabledIn(A) \subseteq Nat /\ IsFiniteSet(DisabledIn(A))
         /\ GroupsIn(A) \subseteq Nat /\ IsFiniteSet(GroupsIn(A))
         /\ \A g : MembersOf(A, g) \subseteq Nat /\ IsFiniteSet(MembersOf(A, g))
<1> DEFINE A == v.accounts
<1>1. DOMAIN A \subseteq Names /\ \A n \in DOMAIN A : A[n] \in Account
  BY WatchAssumption DEF Known
<1>2. GroupsIn(A) \subseteq Groups
  BY <1>1 DEF Account, GroupsIn
<1>3. DisabledIn(A) \subseteq Names /\ \A g : MembersOf(A, g) \subseteq Names
  BY <1>1 DEF DisabledIn, MembersOf
<1> HIDE DEF A
<1>4. \A S : S \subseteq Names => S \subseteq Nat /\ IsFiniteSet(S)
  BY WatchAssumption, FS_Subset
<1>5. \A S : S \subseteq Groups => S \subseteq Nat /\ IsFiniteSet(S)
  BY WatchAssumption, FS_Subset
<1> QED
  BY <1>1, <1>2, <1>3, <1>4, <1>5 DEF A

(* The events for the groups.                                              *)
GroupEventsFine(A, F) ==
  /\ IsSequence(F)
  /\ \A e \in Elements(F) : FitsMember(e, A)
  /\ \A n \in DOMAIN A : \A g \in A[n].groups : \E e \in Elements(F) : TellsMember(e, n, g)

LEMMA GroupEvents ==
  ASSUME NEW v \in Known
  PROVE  GroupEventsFine(v.accounts, FlattenSeq(GroupParts(v.accounts)))
<1> DEFINE A == v.accounts
           groups == Sorted(GroupsIn(A))
           parts == GroupParts(A)
           N == Len(groups)
<1>1. N \in Nat /\ Elements(groups) = GroupsIn(A)
  BY BaselineFinite, SortedWhole
<1>2. \A g : /\ IsChunked(GroupPart(A, g), "account.baseline.group", "account.baseline.group.ids",
                          MembersOf(A, g), {g})
  BY BaselineFinite, ChunkedWhole DEF GroupPart
<1>3. parts = [k \in 1 .. N |-> GroupPart(A, groups[k])]
  BY DEF GroupParts
<1> HIDE DEF A, groups, parts, N
<1>4. parts = [k \in 1 .. N |-> parts[k]] /\ \A k \in 1 .. N : parts[k] = GroupPart(A, groups[k])
  BY <1>3
<1>5. \A k \in 1 .. N : IsSequence(parts[k])
  BY <1>2, <1>4 DEF IsChunked
<1>6. IsSequence(FlattenSeq(parts)) /\ Elements(FlattenSeq(parts)) = UNION {Elements(parts[k]) : k \in 1 .. N}
  BY <1>1, <1>4, <1>5, FlattenedWhole
<1>7. ASSUME NEW g
      PROVE  /\ \A e \in Elements(GroupPart(A, g)) : FitsMember(e, A)
             /\ \A n \in DOMAIN A : g \in A[n].groups =>
                  \E e \in Elements(GroupPart(A, g)) : TellsMember(e, n, g)
  <2>1. /\ \A e \in Elements(GroupPart(A, g)) :
             /\ e.operation \in {"account.baseline.group", "account.baseline.group.ids"}
             /\ e.groups = {g} /\ Named(e) \subseteq MembersOf(A, g)
        /\ \A n \in MembersOf(A, g) : \E e \in Elements(GroupPart(A, g)) : n \in Named(e)
    <3>1. "account.baseline.group" # "account.unparsed" /\ "account.baseline.group.ids" # "account.unparsed"
      OBVIOUS
    <3>2. IsChunked(GroupPart(A, g), "account.baseline.group", "account.baseline.group.ids",
                    MembersOf(A, g), {g})
      BY <1>2
    <3>3. \A E, S, G :
            IsChunked(E, "account.baseline.group", "account.baseline.group.ids", S, G) =>
            /\ \A e \in Elements(E) :
                 /\ e.operation \in {"account.baseline.group", "account.baseline.group.ids"}
                 /\ e.groups = G /\ Named(e) \subseteq S
            /\ \A n \in S : \E e \in Elements(E) : n \in Named(e)
      BY <3>1, ChunkNames
    <3> QED
      BY <3>2, <3>3
  <2>2. \A e \in Elements(GroupPart(A, g)) : FitsMember(e, A)
    BY <2>1 DEF FitsMember, IsMember, MembersOf
  <2>3. \A n \in DOMAIN A : g \in A[n].groups =>
          \E e \in Elements(GroupPart(A, g)) : TellsMember(e, n, g)
    BY <2>1 DEF TellsMember, IsMember, MembersOf
  <2> QED
    BY <2>2, <2>3
<1>8. \A e \in Elements(FlattenSeq(parts)) : FitsMember(e, A)
  BY <1>4, <1>6, <1>7
<1>9. ASSUME NEW n \in DOMAIN A, NEW g \in A[n].groups
      PROVE  \E e \in Elements(FlattenSeq(parts)) : TellsMember(e, n, g)
  <2>1. g \in GroupsIn(A)
    BY DEF GroupsIn
  <2>2. PICK k \in 1 .. N : groups[k] = g
    BY <1>1, <2>1 DEF Elements, N
  <2>3. PICK e \in Elements(parts[k]) : TellsMember(e, n, g)
    BY <1>4, <1>7, <2>2
  <2>4. e \in Elements(FlattenSeq(parts))
    BY <1>6
  <2> QED
    BY <2>3, <2>4
<1> QED
  BY <1>6, <1>8, <1>9 DEF GroupEventsFine, A, parts

FlagEventsFine(A, F) ==
  /\ IsSequence(F)
  /\ \A e \in Elements(F) : FitsDisabled(e, A)
  /\ \A n \in DOMAIN A : A[n].disabled => \E e \in Elements(F) : TellsDisabled(e, n)

LEMMA FlagEvents ==
  ASSUME NEW v \in Known
  PROVE  FlagEventsFine(v.accounts, FlagPart(v.accounts))
<1> DEFINE A == v.accounts
           S == DisabledIn(A)
           F == FlagPart(A)
<1>1. CASE S = {}
  <2>1. F = << >>
    BY <1>1 DEF FlagPart
  <2>2. \A n \in DOMAIN A : ~A[n].disabled
    BY <1>1 DEF DisabledIn
  <2>3. IsSequence(F) /\ Elements(F) = {}
    BY <2>1, Single
  <2> HIDE DEF A, F
  <2>4. FlagEventsFine(A, F)
    BY <2>2, <2>3 DEF FlagEventsFine
  <2> QED
    BY <2>4 DEF A, F
<1>2. CASE S # {}
  <2>1. IsChunked(F, "account.baseline.disabled", "account.baseline.disabled.ids", S, {})
    <3>1. F = Chunked("account.baseline.disabled", "account.baseline.disabled.ids", S, {})
      BY <1>2 DEF FlagPart
    <3>2. S \subseteq Nat /\ IsFiniteSet(S)
      BY BaselineFinite
    <3> HIDE DEF F, S
    <3> QED
      BY <3>1, <3>2, ChunkedWhole
  <2>2. "account.baseline.disabled" # "account.unparsed" /\ "account.baseline.disabled.ids" # "account.unparsed"
    OBVIOUS
  <2> HIDE DEF F, S, A
  <2>3. /\ \A e \in Elements(F) :
             /\ e.operation \in {"account.baseline.disabled", "account.baseline.disabled.ids"}
             /\ Named(e) \subseteq S
        /\ \A n \in S : \E e \in Elements(F) : n \in Named(e)
    BY <2>1, <2>2, ChunkNames
  <2>4. \A e \in Elements(F) : FitsDisabled(e, A)
    BY <2>3 DEF FitsDisabled, IsDisabled, S, DisabledIn
  <2>5. \A n \in DOMAIN A : A[n].disabled => \E e \in Elements(F) : TellsDisabled(e, n)
    BY <2>3 DEF TellsDisabled, IsDisabled, S, DisabledIn
  <2>6. FlagEventsFine(A, F)
    BY <2>1, <2>4, <2>5 DEF FlagEventsFine, IsChunked
  <2> QED
    BY <2>6 DEF A, F
<1> QED
  BY <1>1, <1>2

LEMMA BaselineWhole ==
  ASSUME NEW v \in Known
  PROVE  IsBaseline(Baseline(v.accounts), v.accounts)
<1> DEFINE A == v.accounts
           ids == NamesPart(A)
           F == FlattenSeq(GroupParts(A))
           G == FlagPart(A)
           D == ids \o F
           E == D \o G
           Both == Elements(F) \cup Elements(G)
<1>1. IsChunked(ids, "account.baseline", "account.baseline.ids", DOMAIN A, {})
  BY BaselineFinite, ChunkedWhole DEF NamesPart
<1>2. GroupEventsFine(A, F)
  BY GroupEvents
<1>3. FlagEventsFine(A, G)
  BY FlagEvents
<1>4. Baseline(A) = E
  BY BaselineParts
<1>5. Positions(ids, F, D)
  BY <1>1, <1>2, JoinedPositions DEF IsChunked, GroupEventsFine
<1>6. Positions(D, G, E)
  <2>1. IsSequence(D) /\ IsSequence(G)
    BY <1>3, <1>5 DEF Positions, FlagEventsFine
  <2> HIDE DEF D, G
  <2> QED
    BY <2>1, JoinedPositions
<1> HIDE DEF A, ids, F, G, D, E
<1> DEFINE L == Len(ids)
           M == Len(E)
<1>7. /\ IsSequence(E) /\ L \in Nat \ {0} /\ M \in Nat /\ L <= M
      /\ Len(D) = L + Len(F) /\ M = Len(D) + Len(G) /\ Len(F) \in Nat /\ Len(G) \in Nat
  <2>1. L \in Nat \ {0} /\ Len(D) = L + Len(F) /\ M = Len(D) + Len(G) /\ IsSequence(E)
    BY <1>1, <1>5, <1>6 DEF Positions, IsChunked
  <2>2. Len(F) \in Nat /\ Len(G) \in Nat
    BY <1>2, <1>3 DEF GroupEventsFine, FlagEventsFine, IsSequence
  <2> HIDE DEF L, M
  <2> QED
    BY <2>1, <2>2
<1>8. ASSUME NEW k \in 1 .. L PROVE E[k] = ids[k]
  <2>1. k \in 1 .. Len(D)
    BY <1>7
  <2>2. D[k] = ids[k]
    BY <1>5 DEF Positions
  <2> HIDE DEF L, M
  <2> QED
    BY <1>6, <2>1, <2>2 DEF Positions
<1>9. ASSUME NEW k \in L + 1 .. M PROVE E[k] \in Both
  <2>1. CASE k <= Len(D)
    <3>1. k \in 1 .. Len(D) /\ k \in L + 1 .. Len(D)
      <4> HIDE DEF L, M
      <4> QED
        BY <1>7, <2>1
    <3>2. D[k] \in Elements(F)
      BY <1>5, <3>1 DEF Positions
    <3>3. E[k] = D[k]
      BY <1>6, <3>1 DEF Positions
    <3> QED
      BY <3>2, <3>3
  <2>2. CASE ~(k <= Len(D))
    <3>1. k \in Len(D) + 1 .. M
      <4> HIDE DEF L, M
      <4> QED
        BY <1>7, <2>2
    <3> QED
      BY <1>6, <3>1 DEF Positions
  <2> QED
    BY <2>1, <2>2
<1>10. ASSUME NEW e \in Both PROVE \E k \in 1 .. M : E[k] = e
  <2>1. CASE e \in Elements(F)
    <3>1. PICK k \in L + 1 .. Len(D) : D[k] = e
      BY <1>5, <2>1 DEF Positions
    <3>2. k \in 1 .. Len(D) /\ k \in 1 .. M
      <4> HIDE DEF L, M
      <4> QED
        BY <1>7
    <3>3. E[k] = D[k]
      BY <1>6, <3>2 DEF Positions
    <3> HIDE DEF L, M
    <3> QED
      BY <3>1, <3>2, <3>3
  <2>2. CASE e \in Elements(G)
    <3>1. PICK k \in Len(D) + 1 .. M : E[k] = e
      BY <1>6, <2>2 DEF Positions
    <3>2. k \in 1 .. M
      <4> HIDE DEF L, M
      <4> QED
        BY <1>7
    <3> HIDE DEF L, M
    <3> QED
      BY <3>1, <3>2
  <2> QED
    BY <2>1, <2>2
<1> HIDE DEF L, M
<1>11. ASSUME NEW k \in 1 .. L
       PROVE  /\ E[k].operation = IF k = 1 THEN "account.baseline" ELSE "account.baseline.ids"
              /\ Named(E[k]) = ToSet(ids[k].ids) /\ Named(E[k]) \subseteq DOMAIN A
  <2>1. ids[k].operation = IF k = 1 THEN "account.baseline" ELSE "account.baseline.ids"
    BY <1>1 DEF IsChunked, L
  <2>2. E[k] = ids[k]
    BY <1>8
  <2>3. ids[k].operation # "account.unparsed"
    BY <2>1
  <2>4. ToSet(ids[k].ids) \subseteq DOMAIN A
    BY <1>1 DEF IsChunked, L
  <2> QED
    BY <2>1, <2>2, <2>3, <2>4 DEF Named
<1>12. \A e \in Both : ~IsIds(e) /\ Fits(e, A)
  BY <1>2, <1>3 DEF GroupEventsFine, FlagEventsFine, Fits, FitsMember, FitsDisabled, IsMember, IsDisabled, IsIds
<1>13. E[1].operation = "account.baseline" /\ Named(E[1]) \subseteq DOMAIN A
  <2>1. 1 \in 1 .. L
    BY <1>7
  <2> QED
    BY <1>11, <2>1
<1>14. ASSUME NEW k \in 2 .. M
       PROVE  Fits(E[k], A) /\ (IsIds(E[k]) <=> k <= L)
  <2>1. CASE k <= L
    <3>1. k \in 1 .. L /\ k # 1
      BY <1>7, <2>1
    <3>2. IsIds(E[k]) /\ Named(E[k]) \subseteq DOMAIN A
      BY <1>11, <3>1 DEF IsIds
    <3> QED
      BY <2>1, <3>2 DEF Fits
  <2>2. CASE ~(k <= L)
    <3>1. k \in L + 1 .. M
      BY <1>7, <2>2
    <3>2. E[k] \in Both
      BY <1>9, <3>1
    <3> HIDE DEF Both
    <3> QED
      BY <1>12, <2>2, <3>2
  <2> QED
    BY <2>1, <2>2
<1>15. ASSUME NEW j \in 2 .. M, NEW k \in 2 .. M, j < k, IsIds(E[k]) PROVE IsIds(E[j])
  <2>1. j <= L
    BY <1>7, <1>14, <1>15
  <2> QED
    BY <1>14, <2>1
<1>16. ASSUME NEW n \in DOMAIN A
       PROVE  \E k \in 1 .. M : n \in Named(E[k]) /\ (k = 1 \/ IsIds(E[k]))
  <2>1. PICK k \in 1 .. L : n \in ToSet(ids[k].ids)
    BY <1>1 DEF IsChunked, L
  <2>2. n \in Named(E[k]) /\ (k = 1 \/ IsIds(E[k]))
    BY <1>11, <2>1 DEF IsIds
  <2>3. k \in 1 .. M
    BY <1>7
  <2> QED
    BY <2>2, <2>3
<1>17. ASSUME NEW n \in DOMAIN A, NEW g \in A[n].groups
       PROVE  \E k \in 1 .. M : TellsMember(E[k], n, g)
  <2>1. PICK e \in Elements(F) : TellsMember(e, n, g)
    BY <1>2 DEF GroupEventsFine
  <2>2. PICK k \in 1 .. M : E[k] = e
    BY <1>10
  <2> QED
    BY <2>1, <2>2
<1>18. ASSUME NEW n \in DOMAIN A, A[n].disabled
       PROVE  \E k \in 1 .. M : TellsDisabled(E[k], n)
  <2>1. PICK e \in Elements(G) : TellsDisabled(e, n)
    BY <1>3, <1>18 DEF FlagEventsFine
  <2>2. PICK k \in 1 .. M : E[k] = e
    BY <1>10
  <2> QED
    BY <2>1, <2>2
<1>19. M \in Nat \ {0}
  BY <1>7
<1>20. IsBaseline(E, A)
  BY <1>7, <1>13, <1>14, <1>15, <1>16, <1>17, <1>18, <1>19 DEF IsBaseline, M
<1> QED
  BY <1>4, <1>20 DEF A

-----------------------------------------------------------------------------
(* The types of the watcher, and the version that a round tells of: the    *)
(* inductive invariant.                                                    *)

States  == [version : {NoVersion} \cup Known, unparsed : {NoVersion} \cup Refusal]

Shape ==
  /\ file \in Versions \cup {Missing}
  /\ pc \in {"down", "poll", "emit", "save"}
  /\ known \in States /\ next \in States
  /\ pending \in {NoVersion} \cup Refusal
  /\ torn \in BOOLEAN

Counts == edits \in 0 .. MaxEdits /\ stops \in 0 .. MaxStops /\ faults \in 0 .. MaxFaults

Queued ==
  /\ IsSequence(todo) /\ IsSequence(trail)
  /\ (todo # << >>) <=> (pc = "emit")

(* The events in hand are true of one version that the file had.           *)
TrueFor(events, v) == \A e \in Elements(events) : TrueOf(e, v)

Sourced ==
  /\ Tellable(file) \subseteq held
  /\ todo # << >> => \E v \in held : TrueFor(todo, v)

Inv == Shape /\ Counts /\ Queued /\ Sourced

(* A first list is true of the version it lists.                           *)
LEMMA BaselineTrue ==
  ASSUME NEW v \in Known
  PROVE  IsSequence(Baseline(v.accounts)) /\ TrueFor(Baseline(v.accounts), v)
<1> DEFINE E == Baseline(v.accounts)
<1>1. IsBaseline(E, v.accounts)
  BY BaselineWhole
<1> HIDE DEF E
<1>2. \A k \in 1 .. Len(E) : k = 1 \/ k \in 2 .. Len(E)
  BY <1>1 DEF IsBaseline
<1>3. v.kind = "accounts"
  BY DEF Known
<1>4. TrueOf(E[1], v)
  <2>1. E[1].operation = "account.baseline" /\ Named(E[1]) \subseteq DOMAIN v.accounts
    BY <1>1 DEF IsBaseline
  <2> QED
    BY <1>3, <2>1 DEF Named, TrueOf, TrueOfAccount
<1>5. ASSUME NEW e, Fits(e, v.accounts) PROVE TrueOf(e, v)
  <2>1. CASE IsIds(e) /\ Named(e) \subseteq DOMAIN v.accounts
    BY <1>3, <2>1 DEF IsIds, Named, TrueOf, TrueOfAccount
  <2>2. CASE FitsMember(e, v.accounts)
    BY <1>3, <2>2 DEF FitsMember, IsMember, Named, TrueOf, TrueOfAccount
  <2>3. CASE FitsDisabled(e, v.accounts)
    BY <1>3, <2>3 DEF FitsDisabled, IsDisabled, Named, TrueOf, TrueOfAccount
  <2> QED
    BY <1>5, <2>1, <2>2, <2>3 DEF Fits
<1>6. \A k \in 1 .. Len(E) : TrueOf(E[k], v)
  BY <1>1, <1>2, <1>4, <1>5 DEF IsBaseline
<1>7. IsSequence(E) /\ TrueFor(E, v)
  BY <1>1, <1>6 DEF IsBaseline, TrueFor, Elements
<1> QED
  BY <1>7 DEF E

(* A change is true of the version it is about.                            *)
LEMMA ChangeTrue ==
  ASSUME NEW e, NEW op, NEW n, NEW groups, NEW disabled, NEW v,
         IsChange(e, op, n, groups, disabled), op # "account.unparsed", v.kind = "accounts",
         op = "account.delete" => n \notin DOMAIN v.accounts,
         op # "account.delete" => n \in DOMAIN v.accounts /\ TrueOfAccount(e, v.accounts[n])
  PROVE  TrueOf(e, v)
<1>1. e.operation = op /\ ToSet(e.ids) = {n}
  BY DEF IsChange, Named
<1> QED
  BY <1>1 DEF TrueOf

LEMMA ChangesTrue ==
  ASSUME NEW v, v.kind = "accounts", NEW n
  PROVE  /\ n \notin DOMAIN v.accounts => TrueOf(DeleteOf(n), v)
         /\ n \in DOMAIN v.accounts =>
              /\ TrueOf(CreateOf(n, v.accounts[n]), v) /\ TrueOf(GroupsOf(n, v.accounts[n]), v)
              /\ TrueOf(FlagOf(n, v.accounts[n]), v)
              /\ TrueOf(PasswordOf(n), v) /\ TrueOf(ProfileOf(n), v)
<1> DEFINE account == v.accounts[n]
<1>1. ASSUME n \notin DOMAIN v.accounts PROVE TrueOf(DeleteOf(n), v)
  <2>1. IsChange(DeleteOf(n), "account.delete", n, {}, FALSE)
    BY ChangeFields DEF DeleteOf
  <2> QED
    BY <1>1, <2>1, ChangeTrue
<1>2. ASSUME n \in DOMAIN v.accounts PROVE TrueOf(CreateOf(n, account), v)
  <2>1. IsChange(CreateOf(n, account), "account.create", n, account.groups, account.disabled)
    BY ChangeFields DEF CreateOf
  <2>2. TrueOfAccount(CreateOf(n, account), account)
    BY <2>1 DEF IsChange, TrueOfAccount
  <2> QED
    BY <1>2, <2>1, <2>2, ChangeTrue
<1>3. ASSUME n \in DOMAIN v.accounts PROVE TrueOf(GroupsOf(n, account), v)
  <2>1. IsChange(GroupsOf(n, account), "account.groups", n, account.groups, FALSE)
    BY ChangeFields DEF GroupsOf
  <2>2. TrueOfAccount(GroupsOf(n, account), account)
    BY <2>1 DEF IsChange, TrueOfAccount
  <2>3. "account.groups" # "account.unparsed" /\ "account.groups" # "account.delete"
    OBVIOUS
  <2> HIDE DEF account
  <2>4. TrueOfAccount(GroupsOf(n, account), v.accounts[n])
    BY <2>2 DEF account
  <2> QED
    BY <1>3, <2>1, <2>3, <2>4, ChangeTrue DEF account
<1>4. ASSUME n \in DOMAIN v.accounts PROVE TrueOf(FlagOf(n, account), v)
  <2> DEFINE op == IF account.disabled THEN "account.disable" ELSE "account.enable"
  <2>1. op # "account.unparsed" /\ op # "account.delete"
    OBVIOUS
  <2>2. IsChange(FlagOf(n, account), op, n, {}, FALSE)
    BY <2>1, ChangeFields DEF FlagOf
  <2>3. TrueOfAccount(FlagOf(n, account), account)
    <3>1. /\ op \notin {"account.create", "account.groups", "account.baseline.group", "account.baseline.group.ids",
                       "account.baseline.disabled", "account.baseline.disabled.ids"}
          /\ op = "account.disable" => account.disabled
          /\ op = "account.enable" => ~account.disabled
      OBVIOUS
    <3> HIDE DEF op
    <3> QED
      BY <2>2, <3>1 DEF IsChange, TrueOfAccount
  <2> HIDE DEF op
  <2> QED
    BY <1>4, <2>1, <2>2, <2>3, ChangeTrue
<1>5. ASSUME n \in DOMAIN v.accounts PROVE TrueOf(PasswordOf(n), v)
  <2>1. IsChange(PasswordOf(n), "account.password", n, {}, FALSE)
    BY ChangeFields DEF PasswordOf
  <2>2. TrueOfAccount(PasswordOf(n), account)
    BY <2>1 DEF IsChange, TrueOfAccount
  <2> QED
    BY <1>5, <2>1, <2>2, ChangeTrue
<1>6. ASSUME n \in DOMAIN v.accounts PROVE TrueOf(ProfileOf(n), v)
  <2>1. IsChange(ProfileOf(n), "account.profile", n, {}, FALSE)
    BY ChangeFields DEF ProfileOf
  <2>2. TrueOfAccount(ProfileOf(n), account)
    BY <2>1 DEF IsChange, TrueOfAccount
  <2> QED
    BY <1>6, <2>1, <2>2, ChangeTrue
<1> QED
  BY <1>1, <1>2, <1>3, <1>4, <1>5, <1>6

(* The changes between two versions are true of the second.                *)
LEMMA DiffTrue ==
  ASSUME NEW v \in Known, NEW w \in Known
  PROVE  LET events == DiffAccounts(v.accounts, w.accounts)
         IN IsSequence(events) /\ TrueFor(events, w)
<1> DEFINE before == v.accounts
           after == w.accounts
           events == DiffAccounts(before, after)
<1>1. w.kind = "accounts"
  BY DEF Known
<1>2. IsSequence(events) /\ Elements(events) = DiffEvents(before, after)
  BY DiffWhole
<1>3. ASSUME NEW e \in DiffEvents(before, after) PROVE TrueOf(e, w)
  <2>1. PICK n \in DOMAIN before \cup DOMAIN after :
           \/ n \notin DOMAIN before /\ n \in DOMAIN after /\ e = CreateOf(n, after[n])
           \/ n \in DOMAIN before /\ n \notin DOMAIN after /\ e = DeleteOf(n)
           \/ /\ n \in DOMAIN before /\ n \in DOMAIN after
              /\ \/ e = GroupsOf(n, after[n]) /\ before[n].groups # after[n].groups
                 \/ e = FlagOf(n, after[n]) /\ before[n].disabled # after[n].disabled
                 \/ e = PasswordOf(n)
                 \/ e = ProfileOf(n)
    BY DiffCases
  <2> QED
    BY <1>1, <2>1, ChangesTrue
<1> HIDE DEF events, before, after
<1>4. IsSequence(events) /\ TrueFor(events, w)
  BY <1>2, <1>3 DEF TrueFor
<1> QED
  BY <1>4 DEF events, before, after

LEMMA StatesTyped ==
  /\ UsersState \in States
  /\ \A s \in States, v \in Refusal : [s EXCEPT !.unparsed = v] \in States
  /\ \A v \in Known : [version |-> v, unparsed |-> NoVersion] \in States
  BY DEF UsersState, States

(* The kinds of versions are told apart.                                   *)
LEMMA Kinds ==
  /\ \A v \in Versions \cup {Missing} : v.kind = "accounts" => v \in Known
  /\ \A v \in Versions \cup {Missing} : v.kind = "refused" => v \in Refusal
  /\ \A v \in {NoVersion} \cup Known : v # NoVersion => v \in Known
  BY DEF Missing, Known, Refusal

LEMMA InitInv == Init => Inv
<1> SUFFICES ASSUME Init PROVE Inv
  OBVIOUS
<1>1. Shape
  BY StatesTyped DEF Init, Shape
<1>2. Counts
  BY WatchAssumption DEF Init, Counts
<1>3. Queued
  BY Single DEF Init, Queued
<1>4. Sourced
  BY DEF Init, Sourced
<1> QED
  BY <1>1, <1>2, <1>3, <1>4 DEF Inv

(* A step that leaves the outside alone, adds no event to the trail and    *)
(* has no events in hand afterwards, or the same.                          *)
LEMMA QuietStep ==
  ASSUME Inv, UNCHANGED <<file, trail>>, held' \in {held, Tellable(file)},
         (todo' = todo /\ pc' = pc /\ held' = held) \/ (todo' = << >> /\ pc' # "emit")
  PROVE  Queued' /\ Sourced'
<1>1. IsSequence(todo') /\ IsSequence(trail') /\ ((todo' # << >>) <=> (pc' = "emit"))
  BY Single DEF Inv, Queued
<1>2. todo' # << >> => \E v \in held' : TrueFor(todo', v)
  BY DEF Inv, Sourced
<1>3. Tellable(file') \subseteq held'
  BY DEF Inv, Sourced
<1> QED
  BY <1>1, <1>2, <1>3 DEF Queued, Sourced, TrueFor

(* A round begins with events that are true of the version read.           *)
LEMMA RoundStep ==
  ASSUME Inv, UNCHANGED <<file, trail, held>>, NEW v \in Tellable(file),
         IsSequence(todo'), TrueFor(todo', v), (todo' # << >>) <=> (pc' = "emit")
  PROVE  Queued' /\ Sourced'
<1>1. v \in held'
  BY DEF Inv, Sourced
<1>2. Sourced'
  BY <1>1 DEF Inv, Sourced, Tellable, TrueFor
<1> QED
  BY <1>2 DEF Inv, Queued

LEMMA ReadChangedKeeps ==
  ASSUME Inv, ReadChanged
  PROVE  Inv'
<1>1. file \in Known /\ known \in States
  BY Kinds DEF Inv, Shape, ReadChanged
<1>2. UNCHANGED <<file, held, edits, stops, faults, known, trail, torn>>
  BY DEF ReadChanged, Environment
<1>3. IsSequence(todo') /\ TrueFor(todo', file)
  <2>1. CASE known.version = NoVersion
    <3>1. todo' = Baseline(file.accounts)
      BY <2>1 DEF ReadChanged
    <3> QED
      BY <1>1, <3>1, BaselineTrue
  <2>2. CASE known.version # NoVersion
    <3>1. todo' = DiffAccounts(known.version.accounts, file.accounts)
      BY <2>2 DEF ReadChanged
    <3>2. known.version \in Known
      BY <1>1, <2>2 DEF States
    <3> QED
      BY <1>1, <3>1, <3>2, DiffTrue
  <2> QED
    BY <2>1, <2>2
<1>4. Shape'
  <2>1. next' = [version |-> file, unparsed |-> NoVersion] /\ pending' = NoVersion
        /\ pc' \in {"save", "emit"}
    BY DEF ReadChanged
  <2> QED
    BY <1>1, <1>2, <2>1, StatesTyped DEF Inv, Shape
<1>5. Counts'
  BY <1>2 DEF Inv, Counts
<1>6. Queued' /\ Sourced'
  <2>1. (todo' # << >>) <=> (pc' = "emit")
    BY DEF ReadChanged
  <2>2. file \in Tellable(file)
    BY DEF ReadChanged, Tellable
  <2> QED
    BY <1>2, <1>3, <2>1, <2>2, RoundStep
<1> QED
  BY <1>4, <1>5, <1>6 DEF Inv

LEMMA ReadRefusedKeeps ==
  ASSUME Inv, ReadRefused
  PROVE  Inv'
<1>1. file \in Refusal /\ known \in States /\ pc = "poll"
  BY Kinds DEF Inv, Shape, ReadRefused
<1>2. UNCHANGED <<file, held, edits, stops, faults, known, trail, torn>>
  BY DEF ReadRefused, Environment
<1>3. Counts'
  BY <1>2 DEF Inv, Counts
<1>4. Shape'
  <2>1. pending' \in {pending, file} /\ pc' \in {pc, "emit"} /\ next' \in {next, [known EXCEPT !.unparsed = file]}
    BY DEF ReadRefused
  <2> QED
    BY <1>1, <1>2, <2>1, StatesTyped DEF Inv, Shape
<1>5. Queued' /\ Sourced'
  <2>1. CASE todo' = todo /\ pc' = pc
    BY <1>2, <2>1, QuietStep
  <2>2. CASE todo' = <<Unparsed(file)>> /\ pc' = "emit"
    <3> DEFINE e == Unparsed(file)
    <3>1. e.operation = "account.unparsed" /\ e.version = file
      BY DEF Unparsed
    <3>2. TrueOf(e, file) /\ file \in Tellable(file)
      BY <1>1, <3>1 DEF TrueOf, Tellable, Refusal
    <3>3. IsSequence(todo') /\ Elements(todo') = {e} /\ todo' # << >>
      BY <2>2, Single
    <3> HIDE DEF e
    <3>4. TrueFor(todo', file)
      BY <3>2, <3>3 DEF TrueFor
    <3> QED
      BY <1>2, <2>2, <3>2, <3>3, <3>4, RoundStep
  <2> QED
    BY <2>1, <2>2 DEF ReadRefused
<1> QED
  BY <1>3, <1>4, <1>5 DEF Inv

LEMMA EmitKeeps ==
  ASSUME Inv, EmitChange
  PROVE  Inv'
<1>1. UNCHANGED <<file, held, edits, stops, faults, known, pending, next, torn>>
  BY DEF EmitChange, Environment
<1>2. IsSequence(todo) /\ IsSequence(trail) /\ todo # << >>
  BY DEF Inv, Queued, EmitChange
<1>3. IsSequence(todo') /\ Elements(todo') \subseteq Elements(todo)
  BY <1>2, Taken DEF EmitChange
<1>4. IsSequence(trail')
  BY <1>2, Added DEF EmitChange
<1>5. Shape' /\ Counts'
  BY <1>1 DEF Inv, Shape, Counts, EmitChange
<1>6. Queued'
  BY <1>3, <1>4 DEF Queued, EmitChange
<1>7. Sourced'
  <2>1. PICK v \in held : TrueFor(todo, v)
    BY <1>2 DEF Inv, Sourced
  <2>2. TrueFor(todo', v)
    BY <1>3, <2>1 DEF TrueFor
  <2> QED
    BY <1>1, <2>2 DEF Inv, Sourced, Tellable, TrueFor
<1> QED
  BY <1>5, <1>6, <1>7 DEF Inv

LEMMA EditKeeps ==
  ASSUME Inv, Edit
  PROVE  Inv'
<1>1. UNCHANGED <<pc, known, pending, next, todo, trail, torn, stops, faults>>
  BY DEF Edit
<1>2. Shape'
  BY <1>1 DEF Inv, Shape, Edit
<1>3. Counts'
  BY <1>1, WatchAssumption DEF Inv, Counts, Edit
<1>4. Queued'
  BY <1>1 DEF Inv, Queued
<1>5. Sourced'
  <2>1. held' = held \cup Tellable(file')
    BY DEF Edit
  <2>2. todo # << >> => \E v \in held' : TrueFor(todo, v)
    BY <2>1 DEF Inv, Sourced
  <2> QED
    BY <1>1, <2>1, <2>2 DEF Sourced, TrueFor, Tellable
<1> QED
  BY <1>2, <1>3, <1>4, <1>5 DEF Inv

(* The steps that lose, keep or save what is in memory.                    *)
LEMMA OthersKeep ==
  ASSUME Inv, StartUp \/ ReadMissing \/ ReadSame \/ ReadRaises \/ Save \/ Stopped \/ Crash
  PROVE  Inv'
<1>1. UNCHANGED <<file, trail>> /\ edits' = edits /\ held' \in {held, Tellable(file)}
  BY DEF StartUp, ReadMissing, ReadSame, ReadRaises, Save, Stopped, Crash, Environment, vars
<1>2. (todo' = todo /\ pc' = pc /\ held' = held) \/ (todo' = << >> /\ pc' # "emit")
  <2>1. pc \in {"down", "poll", "save"} => todo = << >>
    BY DEF Inv, Queued
  <2> QED
    BY <2>1 DEF StartUp, ReadMissing, ReadSame, ReadRaises, Save, Stopped, Crash, Down, Environment, vars
<1>3. Queued' /\ Sourced'
  BY <1>1, <1>2, QuietStep
<1>4. Shape'
  <2>1. pc' \in {pc, "poll", "down"} /\ known' \in {known, next} /\ next' \in {next, UsersState}
        /\ pending' \in {pending, NoVersion} /\ torn' \in {torn, TRUE, FALSE}
    BY DEF StartUp, ReadMissing, ReadSame, ReadRaises, Save, Stopped, Crash, Down, Environment, vars
  <2> QED
    BY <1>1, <2>1, StatesTyped DEF Inv, Shape
<1>5. Counts'
  <2>1. CASE StartUp \/ ReadMissing \/ ReadSame \/ ReadRaises \/ Save
    BY <2>1 DEF Inv, Counts, StartUp, ReadMissing, ReadSame, ReadRaises, Save, Environment, vars
  <2>2. CASE Stopped
    BY <2>2, WatchAssumption DEF Inv, Counts, Stopped
  <2>3. CASE Crash
    BY <2>3, WatchAssumption DEF Inv, Counts, Crash
  <2> QED
    BY <2>1, <2>2, <2>3
<1> QED
  BY <1>3, <1>4, <1>5 DEF Inv

LEMMA NextInv == Inv /\ [Next]_vars => Inv'
<1> SUFFICES ASSUME Inv, [Next]_vars PROVE Inv'
  OBVIOUS
<1>1. CASE UNCHANGED vars
  <2>1. Shape' /\ Counts' /\ Queued'
    BY <1>1 DEF vars, Inv, Shape, Counts, Queued
  <2>2. Sourced'
    BY <1>1 DEF vars, Inv, Sourced, Tellable, TrueFor
  <2> QED
    BY <2>1, <2>2 DEF Inv
<1> QED
  BY <1>1, ReadChangedKeeps, ReadRefusedKeeps, EmitKeeps, EditKeeps, OthersKeep DEF Next, Poll

LEMMA InvHolds == Spec => []Inv
  BY InitInv, NextInv, PTL DEF Spec

(* Every variable keeps its values; events are in hand exactly while they  *)
(* are written.                                                            *)
THEOREM WatchTypeCorrect == Spec => []TypeOK
<1>1. Inv => TypeOK
  <2> SUFFICES ASSUME Inv PROVE TypeOK
    OBVIOUS
  <2>1. \A s \in {known, next} : s.version \in {NoVersion} \cup Known /\ s.unparsed \in {NoVersion} \cup Refusal
    BY DEF Inv, Shape, States
  <2> QED
    BY <2>1 DEF Inv, Shape, Counts, Queued, TypeOK, Known, Refusal
<1> QED
  BY <1>1, InvHolds, PTL

(* The events of a round are true of one version that the file had since   *)
(* the round before: it tells of nothing gone long ago, of no mixture of   *)
(* two versions, and of no deletion because the file was missing (poll,    *)
(* diff_accounts, _baseline).                                              *)
THEOREM WatchRoundTellsOneVersion == Spec => RoundTellsOneVersion
<1> DEFINE Tells == trail' # trail =>
                      \E v \in held : \A event \in {Last(trail')} \cup ToSet(todo') : TrueOf(event, v)
<1>1. ASSUME Inv, [Next]_vars PROVE [Tells]_vars
  <2>1. CASE EmitChange
    <3>1. IsSequence(todo) /\ IsSequence(trail) /\ todo # << >>
      BY <1>1, <2>1 DEF Inv, Queued, EmitChange
    <3>2. PICK v \in held : TrueFor(todo, v)
      <4>1. Sourced
        BY <1>1 DEF Inv
      <4> QED
        BY <3>1, <4>1, Zenon DEF Sourced
    <3>3. Last(trail') \in Elements(todo)
      <4>1. Extended(trail, Head(todo), trail')
        BY <2>1, <3>1, Lengthened DEF EmitChange
      <4>2. Last(trail') = Head(todo)
        BY <4>1 DEF Extended, Last
      <4>3. Head(todo) \in Elements(todo)
        BY <3>1, Taken
      <4> QED
        BY <4>2, <4>3
    <3>4. ToSet(todo') \subseteq Elements(todo)
      <4>1. IsSequence(todo') /\ Elements(todo') \subseteq Elements(todo)
        BY <2>1, <3>1, Taken DEF EmitChange
      <4>2. DOMAIN todo' = 1 .. Len(todo')
        BY <4>1 DEF IsSequence
      <4>3. ToSet(todo') = Elements(todo')
        BY <4>2 DEF ToSet, Elements
      <4> QED
        BY <4>1, <4>3
    <3>5. \A event \in {Last(trail')} \cup ToSet(todo') : TrueOf(event, v)
      BY <3>2, <3>3, <3>4 DEF TrueFor
    <3> QED
      BY <3>2, <3>5
  <2>2. CASE ~EmitChange
    <3>1. trail' = trail
      BY <1>1, <2>2 DEF Next, Poll, StartUp, ReadMissing, ReadSame, ReadChanged, ReadRefused, ReadRaises, Save,
                        Stopped, Crash, Edit, vars
    <3> QED
      BY <3>1
  <2> QED
    BY <2>1, <2>2
<1>2. Inv /\ [Next]_vars => [Tells]_vars
  BY <1>1
<1> QED
  BY <1>2, InvHolds, PTL DEF Spec, RoundTellsOneVersion

-----------------------------------------------------------------------------
(* What a reader believes, event by event.                                 *)

BeliefAfter(events, believed, k) ==
  IF k = 0 THEN NoAccounts ELSE Believing(believed[k - 1], events[k])

LEMMA BeliefsExist ==
  ASSUME NEW events, Len(events) \in Nat
  PROVE  \E f : f = [k \in 0 .. Len(events) |-> BeliefAfter(events, f, k)]
<1> DEFINE n == Len(events)
           N(f, k) == BeliefAfter(events, f, k)
           Good(f, m) == f = [k \in 0 .. m |-> N(f, k)]
           T == {m \in 0 .. n : \E f : Good(f, m)}
<1>1. 0 \in T
  <2> DEFINE f == [k \in 0 .. 0 |-> NoAccounts]
  <2>1. \A k \in 0 .. 0 : N(f, k) = NoAccounts
    BY DEF BeliefAfter
  <2>2. Good(f, 0)
    <3> HIDE DEF N
    <3> QED
      BY <2>1
  <2>3. 0 \in 0 .. n
    OBVIOUS
  <2> HIDE DEF Good, f
  <2> QED
    BY <2>2, <2>3
<1>2. ASSUME NEW m \in 1 .. n, m - 1 \in T
      PROVE  m \in T
  <2>1. PICK f : Good(f, m - 1)
    <3> HIDE DEF Good
    <3> QED
      BY <1>2
  <2> DEFINE g == [k \in 0 .. m |-> IF k = m THEN N(f, m) ELSE f[k]]
  <2>2. /\ \A k \in 0 .. m - 1 : g[k] = f[k] /\ f[k] = N(f, k)
        /\ g[m] = N(f, m) /\ DOMAIN g = 0 .. m
    <3>1. \A k \in 0 .. m - 1 : k \in 0 .. m /\ k # m
      OBVIOUS
    <3>2. m \in 0 .. m
      OBVIOUS
    <3> HIDE DEF N
    <3> QED
      BY <2>1, <3>1, <3>2
  <2>3. \A k \in 0 .. m : N(g, k) = N(f, k)
    <3> TAKE k \in 0 .. m
    <3>1. k # 0 => g[k - 1] = f[k - 1]
      <4>1. k # 0 => k - 1 \in 0 .. m - 1
        OBVIOUS
      <4> HIDE DEF g, N
      <4> QED
        BY <2>2, <4>1
    <3> HIDE DEF g
    <3> QED
      BY <3>1 DEF BeliefAfter
  <2>4. \A k \in 0 .. m : g[k] = N(g, k)
    <3> TAKE k \in 0 .. m
    <3>1. k = m \/ k \in 0 .. m - 1
      OBVIOUS
    <3> HIDE DEF g, N
    <3> QED
      BY <2>2, <2>3, <3>1
  <2>5. Good(g, m)
    <3>1. g = [k \in 0 .. m |-> g[k]]
      OBVIOUS
    <3> HIDE DEF g, N
    <3> QED
      BY <2>4, <3>1
  <2>6. m \in 0 .. n
    OBVIOUS
  <2> HIDE DEF Good, g
  <2> QED
    BY <2>5, <2>6
<1>3. n \in 0 .. n /\ T \in SUBSET (0 .. n)
  OBVIOUS
<1>4. \E f : Good(f, n)
  <2>1. n \in T
    <3> HIDE DEF T
    <3> QED
      BY <1>1, <1>2, <1>3, UpTo
  <2> HIDE DEF Good
  <2> QED
    BY <2>1
<1> QED
  BY <1>4

AreBeliefs(events, f) ==
  /\ f[0] = NoAccounts
  /\ \A k \in 1 .. Len(events) : f[k] = Believing(f[k - 1], events[k])
  /\ Belief(events) = f[Len(events)]

LEMMA BeliefIsLast ==
  ASSUME NEW events, Len(events) \in Nat
  PROVE  \E f : AreBeliefs(events, f)
<1> DEFINE n == Len(events)
           Good(f) == f = [k \in 0 .. n |-> BeliefAfter(events, f, k)]
           h == CHOOSE f : Good(f)
<1>1. Good(h)
  <2>1. \E f : Good(f)
    BY BeliefsExist
  <2> HIDE DEF Good
  <2> QED
    BY <2>1
<1>2. Belief(events) = h[n]
  BY DEF Belief, BeliefAfter
<1> HIDE DEF h
<1>3. \A k \in 0 .. n : h[k] = BeliefAfter(events, h, k)
  BY <1>1, Zenon
<1>4. h[0] = NoAccounts
  BY <1>3 DEF BeliefAfter
<1>5. \A k \in 1 .. n : h[k] = Believing(h[k - 1], events[k])
  <2> TAKE k \in 1 .. n
  <2>1. k \in 0 .. n /\ k # 0
    OBVIOUS
  <2>2. h[k] = BeliefAfter(events, h, k)
    BY <1>3, <2>1
  <2> QED
    BY <2>1, <2>2, Zenon DEF BeliefAfter
<1> QED
  BY <1>2, <1>4, <1>5, Zenon DEF AreBeliefs

LEMMA BeliefGrows ==
  /\ Belief(<< >>) = NoAccounts
  /\ \A s, e : IsSequence(s) => Belief(Append(s, e)) = Believing(Belief(s), e)
<1>1. Belief(<< >>) = NoAccounts
  <2>1. PICK f : AreBeliefs(<< >>, f)
    BY BeliefIsLast
  <2> QED
    BY <2>1 DEF AreBeliefs
<1>2. ASSUME NEW s, NEW e, IsSequence(s)
      PROVE  Belief(Append(s, e)) = Believing(Belief(s), e)
  <2> DEFINE n == Len(s)
             t == Append(s, e)
  <2>1. n \in Nat /\ s \in Seq(Elements(s))
    BY <1>2 DEF IsSequence
  <2>2. Len(t) = n + 1 /\ t[n + 1] = e /\ \A k \in 1 .. n : t[k] = s[k]
    BY <2>1
  <2> HIDE DEF n, t
  <2>3. PICK f : AreBeliefs(s, f)
    BY <2>1, BeliefIsLast DEF n
  <2>4. PICK g : AreBeliefs(t, g)
    BY <2>1, <2>2, BeliefIsLast
  <2> DEFINE T == {k \in 0 .. n : g[k] = f[k]}
  <2>5. \A k \in 0 .. n : k \in T
    <3>1. 0 \in T
      BY <2>1, <2>3, <2>4 DEF AreBeliefs
    <3>2. ASSUME NEW k \in 1 .. n, k - 1 \in T PROVE k \in T
      <4>1. k \in 0 .. n /\ k \in 1 .. n + 1
        BY <2>1
      <4>2. f[k] = Believing(f[k - 1], s[k])
        BY <2>3 DEF AreBeliefs, n
      <4>3. g[k] = Believing(g[k - 1], t[k])
        BY <2>2, <2>4, <4>1 DEF AreBeliefs
      <4> QED
        BY <2>2, <3>2, <4>1, <4>2, <4>3
    <3>3. T \in SUBSET (0 .. n)
      OBVIOUS
    <3> HIDE DEF T
    <3> QED
      BY <2>1, <3>1, <3>2, <3>3, UpTo
  <2>6. n \in 0 .. n /\ n + 1 \in 1 .. n + 1 /\ n + 1 - 1 = n
    BY <2>1
  <2>7. g[n + 1] = Believing(g[n], t[n + 1])
    BY <2>2, <2>4, <2>6 DEF AreBeliefs
  <2>8. g[n] = f[n]
    BY <2>5, <2>6
  <2>9. Belief(s) = f[n] /\ Belief(t) = g[n + 1]
    BY <2>2, <2>3, <2>4 DEF AreBeliefs, n
  <2> QED
    BY <2>2, <2>7, <2>8, <2>9 DEF t
<1> QED
  BY <1>1, <1>2

(* An account as a reader of the trail sees it.                            *)
Seen(groups, disabled) == [groups |-> groups, disabled |-> disabled]

WithGroups(account, groups) == [account EXCEPT !.groups = groups]

WithFlag(account, disabled) == [account EXCEPT !.disabled = disabled]

(* What an event does to the belief, by its operation.                     *)
LEMMA BaselineEffect ==
  ASSUME NEW b, NEW e, e.operation = "account.baseline"
  PROVE  Believing(b, e) = [n \in Named(e) |-> Seen({}, FALSE)]
  BY DEF Believing, Named, Seen

LEMMA IdsEffect ==
  ASSUME NEW b, NEW e, e.operation = "account.baseline.ids"
  PROVE  Believing(b, e) =
           [n \in Named(e) \cup DOMAIN b |-> IF n \in Named(e) THEN Seen({}, FALSE) ELSE b[n]]
  BY DEF Believing, Named, Seen

LEMMA MemberEffect ==
  ASSUME NEW b, NEW e, e.operation \in {"account.baseline.group", "account.baseline.group.ids"}
  PROVE  Believing(b, e) =
           [n \in DOMAIN b |-> IF n \in Named(e) THEN WithGroups(b[n], b[n].groups \cup e.groups) ELSE b[n]]
  BY DEF Believing, Named, WithGroups, WithFlag

LEMMA EnableEffect ==
  ASSUME NEW b, NEW e, e.operation = "account.enable"
  PROVE  Believing(b, e) =
           [n \in DOMAIN b |-> IF n \in Named(e) THEN WithFlag(b[n], FALSE) ELSE b[n]]
  BY DEF Believing, Named, WithGroups, WithFlag

LEMMA GroupsEffect ==
  ASSUME NEW b, NEW e, e.operation = "account.groups"
  PROVE  Believing(b, e) =
           [n \in DOMAIN b |-> IF n \in Named(e) THEN WithGroups(b[n], e.groups) ELSE b[n]]
  BY DEF Believing, Named, WithGroups, WithFlag

LEMMA CreateEffect ==
  ASSUME NEW b, NEW e, e.operation = "account.create"
  PROVE  Believing(b, e) =
           [n \in Named(e) \cup DOMAIN b |-> IF n \in Named(e) THEN Seen(e.groups, e.disabled) ELSE b[n]]
  BY DEF Believing, Named, Seen

LEMMA DeleteEffect ==
  ASSUME NEW b, NEW e, e.operation = "account.delete"
  PROVE  Believing(b, e) = [n \in DOMAIN b \ Named(e) |-> b[n]]
  BY DEF Believing, Named

LEMMA NoEffect ==
  ASSUME NEW b, NEW e, e.operation \in {"account.unparsed", "account.password", "account.profile"}
  PROVE  Believing(b, e) = b
  BY DEF Believing

-----------------------------------------------------------------------------
(* The form of a belief, and what an event leaves of it.                   *)

Form(b) == b = [n \in DOMAIN b |-> Seen(b[n].groups, b[n].disabled)]

LEMMA FormOfAccount ==
  ASSUME NEW b, Form(b), NEW n \in DOMAIN b
  PROVE  /\ b[n] = Seen(b[n].groups, b[n].disabled)
         /\ \A groups : WithGroups(b[n], groups) = Seen(groups, b[n].disabled)
         /\ \A disabled : WithFlag(b[n], disabled) = Seen(b[n].groups, disabled)
<1>1. b[n] = Seen(b[n].groups, b[n].disabled)
  BY Zenon DEF Form
<1>2. \A g, d : LET r == Seen(g, d) IN
        /\ \A groups : WithGroups(r, groups) = Seen(groups, d)
        /\ \A disabled : WithFlag(r, disabled) = Seen(g, disabled)
  BY DEF Seen, WithGroups, WithFlag
<1> QED
  BY <1>1, <1>2

IsSeen(account) == \E g, d : account = Seen(g, d)

LEMMA SeenFields == \A g, d : Seen(g, d).groups = g /\ Seen(g, d).disabled = d
  BY DEF Seen

LEMMA FormBy ==
  ASSUME NEW c, c = [n \in DOMAIN c |-> c[n]], \A n \in DOMAIN c : IsSeen(c[n])
  PROVE  Form(c)
<1>1. \A n \in DOMAIN c : c[n] = Seen(c[n].groups, c[n].disabled)
  <2> TAKE n \in DOMAIN c
  <2>1. PICK g, d : c[n] = Seen(g, d)
    BY DEF IsSeen
  <2> QED
    BY <2>1, SeenFields
<1>2. [n \in DOMAIN c |-> c[n]] = [n \in DOMAIN c |-> Seen(c[n].groups, c[n].disabled)]
  BY <1>1, Zenon
<1> QED
  BY <1>2, Zenon DEF Form

LEMMA FormKept ==
  ASSUME NEW b, Form(b), NEW e
  PROVE  Form(Believing(b, e))
<1> DEFINE c == Believing(b, e)
           ops == {"account.baseline.group", "account.baseline.group.ids"}
           flags == {"account.baseline.disabled", "account.baseline.disabled.ids", "account.disable"}
           Fine == /\ c = [n \in DOMAIN c |-> c[n]]
                   /\ \A n \in DOMAIN c : IsSeen(c[n])
<1>1. \A n \in DOMAIN b : IsSeen(b[n])
  BY FormOfAccount DEF IsSeen
<1>2. \A n \in DOMAIN b : /\ \A groups : IsSeen(WithGroups(b[n], groups))
                         /\ \A disabled : IsSeen(WithFlag(b[n], disabled))
  BY FormOfAccount DEF IsSeen
<1>0. \A g, d : IsSeen(Seen(g, d))
  BY DEF IsSeen
<1>3. b = [n \in DOMAIN b |-> b[n]]
  BY DEF Form
<1>4. Fine
  <2>1. CASE e.operation = "account.baseline"
    <3>1. c = [n \in Named(e) |-> Seen({}, FALSE)]
      BY <2>1, BaselineEffect
    <3> HIDE DEF c
    <3>2. DOMAIN c = Named(e)
      BY <3>1
    <3>3. c = [n \in DOMAIN c |-> c[n]]
      BY <3>1
    <3>4. ASSUME NEW n \in DOMAIN c PROVE IsSeen(c[n])
      <4>1. c[n] = Seen({}, FALSE)
        BY <3>1, <3>2, Zenon
      <4> QED
        BY <1>0, <1>1, <3>2, <4>1
    <3> QED
      BY <3>3, <3>4
  <2>2. CASE e.operation = "account.baseline.ids"
    <3>1. c = [n \in Named(e) \cup DOMAIN b |-> IF n \in Named(e) THEN Seen({}, FALSE) ELSE b[n]]
      BY <2>2, IdsEffect
    <3> HIDE DEF c
    <3>2. DOMAIN c = Named(e) \cup DOMAIN b
      BY <3>1
    <3>3. c = [n \in DOMAIN c |-> c[n]]
      BY <3>1
    <3>4. ASSUME NEW n \in DOMAIN c PROVE IsSeen(c[n])
      <4>1. c[n] = IF n \in Named(e) THEN Seen({}, FALSE) ELSE b[n]
        BY <3>1, <3>2, Zenon
      <4> QED
        BY <1>0, <1>1, <3>2, <4>1
    <3> QED
      BY <3>3, <3>4
  <2>3. CASE e.operation \in ops
    <3>1. c = [n \in DOMAIN b |-> IF n \in Named(e) THEN WithGroups(b[n], b[n].groups \cup e.groups) ELSE b[n]]
      BY <2>3, MemberEffect, SMTT(30)
    <3> HIDE DEF c
    <3>2. DOMAIN c = DOMAIN b
      BY <3>1
    <3>3. c = [n \in DOMAIN c |-> c[n]]
      BY <3>1
    <3>4. ASSUME NEW n \in DOMAIN c PROVE IsSeen(c[n])
      <4>1. CASE n \in Named(e)
        <5>1. c[n] = WithGroups(b[n], b[n].groups \cup e.groups) /\ n \in DOMAIN b
          BY <3>1, <3>2, <4>1, Zenon
        <5> QED
          BY <1>2, <5>1
      <4>2. CASE n \notin Named(e)
        <5>1. c[n] = b[n] /\ n \in DOMAIN b
          BY <3>1, <3>2, <4>2, Zenon
        <5> QED
          BY <1>1, <5>1
      <4> QED
        BY <4>1, <4>2
    <3> QED
      BY <3>3, <3>4
  <2>4. CASE e.operation \in flags
    <3>1. c = [n \in DOMAIN b |-> IF n \in Named(e) THEN WithFlag(b[n], TRUE) ELSE b[n]]
      BY <2>4 DEF Believing, Named, WithFlag
    <3> HIDE DEF c
    <3>2. DOMAIN c = DOMAIN b
      BY <3>1
    <3>3. c = [n \in DOMAIN c |-> c[n]]
      BY <3>1
    <3>4. ASSUME NEW n \in DOMAIN c PROVE IsSeen(c[n])
      <4>1. CASE n \in Named(e)
        <5>1. c[n] = WithFlag(b[n], TRUE) /\ n \in DOMAIN b
          BY <3>1, <3>2, <4>1, Zenon
        <5> QED
          BY <1>2, <5>1
      <4>2. CASE n \notin Named(e)
        <5>1. c[n] = b[n] /\ n \in DOMAIN b
          BY <3>1, <3>2, <4>2, Zenon
        <5> QED
          BY <1>1, <5>1
      <4> QED
        BY <4>1, <4>2
    <3> QED
      BY <3>3, <3>4
  <2>5. CASE e.operation = "account.enable"
    <3>1. c = [n \in DOMAIN b |-> IF n \in Named(e) THEN WithFlag(b[n], FALSE) ELSE b[n]]
      BY <2>5, EnableEffect
    <3> HIDE DEF c
    <3>2. DOMAIN c = DOMAIN b
      BY <3>1
    <3>3. c = [n \in DOMAIN c |-> c[n]]
      BY <3>1
    <3>4. ASSUME NEW n \in DOMAIN c PROVE IsSeen(c[n])
      <4>1. CASE n \in Named(e)
        <5>1. c[n] = WithFlag(b[n], FALSE) /\ n \in DOMAIN b
          BY <3>1, <3>2, <4>1, Zenon
        <5> QED
          BY <1>2, <5>1
      <4>2. CASE n \notin Named(e)
        <5>1. c[n] = b[n] /\ n \in DOMAIN b
          BY <3>1, <3>2, <4>2, Zenon
        <5> QED
          BY <1>1, <5>1
      <4> QED
        BY <4>1, <4>2
    <3> QED
      BY <3>3, <3>4
  <2>6. CASE e.operation = "account.groups"
    <3>1. c = [n \in DOMAIN b |-> IF n \in Named(e) THEN WithGroups(b[n], e.groups) ELSE b[n]]
      BY <2>6, GroupsEffect
    <3> HIDE DEF c
    <3>2. DOMAIN c = DOMAIN b
      BY <3>1
    <3>3. c = [n \in DOMAIN c |-> c[n]]
      BY <3>1
    <3>4. ASSUME NEW n \in DOMAIN c PROVE IsSeen(c[n])
      <4>1. CASE n \in Named(e)
        <5>1. c[n] = WithGroups(b[n], e.groups) /\ n \in DOMAIN b
          BY <3>1, <3>2, <4>1, Zenon
        <5> QED
          BY <1>2, <5>1
      <4>2. CASE n \notin Named(e)
        <5>1. c[n] = b[n] /\ n \in DOMAIN b
          BY <3>1, <3>2, <4>2, Zenon
        <5> QED
          BY <1>1, <5>1
      <4> QED
        BY <4>1, <4>2
    <3> QED
      BY <3>3, <3>4
  <2>7. CASE e.operation = "account.create"
    <3>1. c = [n \in Named(e) \cup DOMAIN b |-> IF n \in Named(e) THEN Seen(e.groups, e.disabled) ELSE b[n]]
      BY <2>7, CreateEffect
    <3> HIDE DEF c
    <3>2. DOMAIN c = Named(e) \cup DOMAIN b
      BY <3>1
    <3>3. c = [n \in DOMAIN c |-> c[n]]
      BY <3>1
    <3>4. ASSUME NEW n \in DOMAIN c PROVE IsSeen(c[n])
      <4>1. c[n] = IF n \in Named(e) THEN Seen(e.groups, e.disabled) ELSE b[n]
        BY <3>1, <3>2, Zenon
      <4> QED
        BY <1>0, <1>1, <3>2, <4>1
    <3> QED
      BY <3>3, <3>4
  <2>8. CASE e.operation = "account.delete"
    <3>1. c = [n \in DOMAIN b \ Named(e) |-> b[n]]
      BY <2>8, DeleteEffect
    <3> HIDE DEF c
    <3>2. DOMAIN c = DOMAIN b \ Named(e)
      BY <3>1
    <3>3. c = [n \in DOMAIN c |-> c[n]]
      BY <3>1
    <3>4. ASSUME NEW n \in DOMAIN c PROVE IsSeen(c[n])
      <4>1. c[n] = b[n]
        BY <3>1, <3>2, Zenon
      <4> QED
        BY <1>0, <1>1, <3>2, <4>1
    <3> QED
      BY <3>3, <3>4
  <2>9. CASE e.operation \notin ops \cup flags \cup {"account.baseline", "account.baseline.ids",
                  "account.enable", "account.groups", "account.create", "account.delete"}
    <3>1. c = b
      BY <2>9 DEF Believing
    <3> HIDE DEF c
    <3> QED
      BY <1>1, <1>3, <3>1
  <2> QED
    BY <2>1, <2>2, <2>3, <2>4, <2>5, <2>6, <2>7, <2>8, <2>9
<1> HIDE DEF c
<1>5. Form(c)
  BY <1>4, FormBy
<1> QED
  BY <1>5 DEF c

-----------------------------------------------------------------------------
(* What the events of a difference do to the belief.                       *)

SameBut(b, c, n) == \A m \in DOMAIN b : m # n => c[m] = b[m]

Created(b, c, n, new) ==
  DOMAIN c = DOMAIN b \cup {n} /\ c[n] = Seen(new.groups, new.disabled) /\ SameBut(b, c, n)

LEMMA CreateDoes ==
  ASSUME NEW b, NEW n, NEW new
  PROVE  Created(b, Believing(b, CreateOf(n, new)), n, new)
<1> DEFINE e == CreateOf(n, new)
           c == Believing(b, e)
<1>1. /\ e.operation = "account.create" /\ Named(e) = {n}
      /\ e.groups = new.groups /\ e.disabled = new.disabled
  <2>1. IsChange(e, "account.create", n, new.groups, new.disabled)
    BY ChangeFields DEF CreateOf
  <2> QED
    BY <2>1 DEF IsChange
<1> HIDE DEF e
<1>2. c = [m \in {n} \cup DOMAIN b |-> IF m \in {n} THEN Seen(new.groups, new.disabled) ELSE b[m]]
  BY <1>1, CreateEffect
<1> HIDE DEF c
<1>3. Created(b, c, n, new)
  BY <1>2 DEF SameBut, Created
<1> QED
  BY <1>3 DEF c, e

LEMMA DeleteDoes ==
  ASSUME NEW b, NEW n
  PROVE  LET c == Believing(b, DeleteOf(n)) IN DOMAIN c = DOMAIN b \ {n} /\ SameBut(b, c, n)
<1> DEFINE e == DeleteOf(n)
           c == Believing(b, e)
<1>1. e.operation = "account.delete" /\ Named(e) = {n}
  <2>1. IsChange(e, "account.delete", n, {}, FALSE)
    BY ChangeFields DEF DeleteOf
  <2> QED
    BY <2>1 DEF IsChange
<1> HIDE DEF e
<1>2. c = [m \in DOMAIN b \ {n} |-> b[m]]
  <2>1. c = [m \in DOMAIN b \ Named(e) |-> b[m]]
    BY <1>1, DeleteEffect
  <2> HIDE DEF c
  <2> QED
    BY <1>1, <2>1
<1> HIDE DEF c
<1>3. DOMAIN c = DOMAIN b \ {n} /\ SameBut(b, c, n)
  BY <1>2 DEF SameBut
<1> QED
  BY <1>3 DEF c, e

LEMMA GroupsDo ==
  ASSUME NEW b, Form(b), NEW n, NEW new
  PROVE  LET c == Believing(b, GroupsOf(n, new)) IN
         /\ DOMAIN c = DOMAIN b /\ SameBut(b, c, n)
         /\ n \in DOMAIN b => c[n] = Seen(new.groups, b[n].disabled)
<1> DEFINE e == GroupsOf(n, new)
           c == Believing(b, e)
<1>1. e.operation = "account.groups" /\ Named(e) = {n} /\ e.groups = new.groups
  <2>1. IsChange(e, "account.groups", n, new.groups, FALSE)
    BY ChangeFields DEF GroupsOf
  <2> QED
    BY <2>1 DEF IsChange
<1> HIDE DEF e
<1>2. c = [m \in DOMAIN b |-> IF m \in {n} THEN WithGroups(b[m], new.groups) ELSE b[m]]
  BY <1>1, GroupsEffect
<1> HIDE DEF c
<1>3. DOMAIN c = DOMAIN b /\ SameBut(b, c, n) /\ (n \in DOMAIN b => c[n] = WithGroups(b[n], new.groups))
  BY <1>2 DEF SameBut
<1>4. n \in DOMAIN b => c[n] = Seen(new.groups, b[n].disabled)
  BY <1>3, FormOfAccount
<1> QED
  BY <1>3, <1>4 DEF c, e

LEMMA FlagDoes ==
  ASSUME NEW b, Form(b), NEW n, NEW new, new.disabled \in BOOLEAN
  PROVE  LET c == Believing(b, FlagOf(n, new)) IN
         /\ DOMAIN c = DOMAIN b /\ SameBut(b, c, n)
         /\ n \in DOMAIN b => c[n] = Seen(b[n].groups, new.disabled)
<1> DEFINE op == IF new.disabled THEN "account.disable" ELSE "account.enable"
           e == FlagOf(n, new)
           c == Believing(b, e)
<1>1. e.operation = op /\ Named(e) = {n}
  <2>1. op # "account.unparsed"
    OBVIOUS
  <2>2. IsChange(e, op, n, {}, FALSE)
    BY <2>1, ChangeFields DEF FlagOf
  <2> QED
    BY <2>1, <2>2 DEF IsChange
<1> HIDE DEF e
<1>2. \A d \in BOOLEAN :
        c = [m \in DOMAIN b |-> IF m \in {n} THEN WithFlag(b[m], d) ELSE b[m]] =>
        /\ DOMAIN c = DOMAIN b /\ SameBut(b, c, n)
        /\ n \in DOMAIN b => c[n] = Seen(b[n].groups, d)
  <2> HIDE DEF c
  <2> TAKE d \in BOOLEAN
  <2> HAVE c = [m \in DOMAIN b |-> IF m \in {n} THEN WithFlag(b[m], d) ELSE b[m]]
  <2>1. DOMAIN c = DOMAIN b /\ SameBut(b, c, n) /\ (n \in DOMAIN b => c[n] = WithFlag(b[n], d))
    BY DEF SameBut
  <2> QED
    BY <2>1, FormOfAccount
<1>3. CASE new.disabled
  <2>1. e.operation = "account.disable" /\ new.disabled = TRUE
    BY <1>1, <1>3
  <2>2. c = [m \in DOMAIN b |-> IF m \in {n} THEN WithFlag(b[m], TRUE) ELSE b[m]]
    BY <1>1, <2>1 DEF Believing, Named, WithFlag
  <2> HIDE DEF c
  <2>3. /\ DOMAIN c = DOMAIN b /\ SameBut(b, c, n)
        /\ n \in DOMAIN b => c[n] = Seen(b[n].groups, TRUE)
    BY <1>2, <2>2
  <2> QED
    BY <2>1, <2>3 DEF c, e
<1>4. CASE ~new.disabled
  <2>1. e.operation = "account.enable" /\ new.disabled = FALSE
    BY <1>1, <1>4
  <2>2. c = [m \in DOMAIN b |-> IF m \in {n} THEN WithFlag(b[m], FALSE) ELSE b[m]]
    BY <1>1, <2>1 DEF Believing, Named, WithFlag
  <2> HIDE DEF c
  <2>3. /\ DOMAIN c = DOMAIN b /\ SameBut(b, c, n)
        /\ n \in DOMAIN b => c[n] = Seen(b[n].groups, FALSE)
    BY <1>2, <2>2
  <2> QED
    BY <2>1, <2>3 DEF c, e
<1> QED
  BY <1>3, <1>4

LEMMA SilentDo ==
  ASSUME NEW b, NEW n
  PROVE  Believing(b, PasswordOf(n)) = b /\ Believing(b, ProfileOf(n)) = b
<1>1. PasswordOf(n).operation = "account.password" /\ ProfileOf(n).operation = "account.profile"
  BY OperationsDiffer
<1> HIDE DEF PasswordOf, ProfileOf
<1> QED
  BY <1>1, NoEffect

-----------------------------------------------------------------------------
(* While a difference is told: whatever the belief does not agree in with  *)
(* the new version has its event to come.                                  *)

Due(b, after, n, events) ==
  /\ n \in DOMAIN b /\ n \notin DOMAIN after => DeleteOf(n) \in events
  /\ n \notin DOMAIN b /\ n \in DOMAIN after => CreateOf(n, after[n]) \in events
  /\ n \in DOMAIN b /\ n \in DOMAIN after =>
       \/ CreateOf(n, after[n]) \in events
       \/ /\ b[n].groups = after[n].groups \/ GroupsOf(n, after[n]) \in events
          /\ b[n].disabled = after[n].disabled \/ FlagOf(n, after[n]) \in events

Owed(b, after, events) == \A n \in DOMAIN b \cup DOMAIN after : Due(b, after, n, events)

LEMMA DueElsewhere ==
  ASSUME NEW b, NEW c, NEW after, NEW n, NEW e, e.ids = << n >>, SameBut(b, c, n),
         NEW m, m # n, m \in DOMAIN b <=> m \in DOMAIN c,
         NEW T, NEW U, T \subseteq {e} \cup U, Due(b, after, m, T)
  PROVE  Due(c, after, m, U)
<1>1. << m >> # << n >>
  OBVIOUS
<1>2. \A f \in T : f.ids = << m >> => f \in U
  BY <1>1
<1>3. m \in DOMAIN b => c[m] = b[m]
  BY DEF SameBut
<1>4. /\ CreateOf(m, after[m]) \in T => CreateOf(m, after[m]) \in U
      /\ DeleteOf(m) \in T => DeleteOf(m) \in U
      /\ GroupsOf(m, after[m]) \in T => GroupsOf(m, after[m]) \in U
      /\ FlagOf(m, after[m]) \in T => FlagOf(m, after[m]) \in U
  BY <1>2, NamesOf
<1> QED
  BY <1>3, <1>4 DEF Due

LEMMA OwedStep ==
  ASSUME NEW b, Form(b), NEW v \in Known, NEW w \in Known,
         NEW e \in DiffEvents(v.accounts, w.accounts),
         NEW T, NEW U, T \subseteq {e} \cup U, Owed(b, w.accounts, T)
  PROVE  Owed(Believing(b, e), w.accounts, U)
<1> DEFINE before == v.accounts
           after == w.accounts
           c == Believing(b, e)
<1>1. \A n \in DOMAIN after : after[n] \in Account
  BY WatchAssumption DEF Known
<1>2. \A n \in DOMAIN after : after[n].disabled \in BOOLEAN
  BY <1>1 DEF Account
<1>3. PICK n \in DOMAIN before \cup DOMAIN after :
           \/ n \notin DOMAIN before /\ n \in DOMAIN after /\ e = CreateOf(n, after[n])
           \/ n \in DOMAIN before /\ n \notin DOMAIN after /\ e = DeleteOf(n)
           \/ /\ n \in DOMAIN before /\ n \in DOMAIN after
              /\ \/ e = GroupsOf(n, after[n]) /\ before[n].groups # after[n].groups
                 \/ e = FlagOf(n, after[n]) /\ before[n].disabled # after[n].disabled
                 \/ e = PasswordOf(n)
                 \/ e = ProfileOf(n)
  BY DiffCases
<1>4. e.ids = << n >>
  BY <1>3, NamesOf
<1>5. Due(b, after, n, T)
  BY DEF Owed, Due
<1> DEFINE new == after[n]
<1>6. /\ CreateOf(n, new).operation = "account.create" /\ DeleteOf(n).operation = "account.delete"
      /\ GroupsOf(n, new).operation = "account.groups"
      /\ FlagOf(n, new).operation \in {"account.disable", "account.enable"}
      /\ PasswordOf(n).operation = "account.password" /\ ProfileOf(n).operation = "account.profile"
  BY OperationsDiffer
<1>7. SameBut(b, c, n) /\ (\A m : m # n => (m \in DOMAIN b <=> m \in DOMAIN c)) /\ Due(c, after, n, U)
  <2>1. CASE n \in DOMAIN after /\ e = CreateOf(n, new)
    <3>1. DOMAIN c = DOMAIN b \cup {n} /\ c[n] = Seen(new.groups, new.disabled) /\ SameBut(b, c, n)
      <4>1. Created(b, c, n, new)
        BY <2>1, CreateDoes
      <4> HIDE DEF c
      <4> QED
        BY <4>1 DEF Created
    <3> HIDE DEF c
    <3>2. c[n].groups = new.groups /\ c[n].disabled = new.disabled
      BY <3>1, SeenFields
    <3> QED
      BY <2>1, <3>1, <3>2 DEF Due
  <2>2. CASE n \notin DOMAIN after /\ e = DeleteOf(n)
    <3>1. DOMAIN c = DOMAIN b \ {n} /\ SameBut(b, c, n)
      BY <2>2, DeleteDoes
    <3> HIDE DEF c
    <3> QED
      BY <2>2, <3>1 DEF Due
  <2>3. CASE n \in DOMAIN after /\ e = GroupsOf(n, new)
    <3>1. /\ DOMAIN c = DOMAIN b /\ SameBut(b, c, n)
          /\ n \in DOMAIN b => c[n] = Seen(new.groups, b[n].disabled)
      BY <2>3, GroupsDo
    <3> HIDE DEF c
    <3>2. n \in DOMAIN b => c[n].groups = new.groups /\ c[n].disabled = b[n].disabled
      BY <3>1, SeenFields
    <3>3. /\ CreateOf(n, new) \in T => CreateOf(n, new) \in U
          /\ FlagOf(n, new) \in T => FlagOf(n, new) \in U
      BY <1>6, <2>3
    <3> QED
      BY <1>5, <2>3, <3>1, <3>2, <3>3 DEF Due
  <2>4. CASE n \in DOMAIN after /\ e = FlagOf(n, new)
    <3>1. /\ DOMAIN c = DOMAIN b /\ SameBut(b, c, n)
          /\ n \in DOMAIN b => c[n] = Seen(b[n].groups, new.disabled)
      BY <1>2, <2>4, FlagDoes
    <3> HIDE DEF c
    <3>2. n \in DOMAIN b => c[n].groups = b[n].groups /\ c[n].disabled = new.disabled
      BY <3>1, SeenFields
    <3>3. /\ CreateOf(n, new) \in T => CreateOf(n, new) \in U
          /\ GroupsOf(n, new) \in T => GroupsOf(n, new) \in U
      BY <1>6, <2>4
    <3> QED
      BY <1>5, <2>4, <3>1, <3>2, <3>3 DEF Due
  <2>5. CASE n \in DOMAIN after /\ (e = PasswordOf(n) \/ e = ProfileOf(n))
    <3>1. c = b
      BY <2>5, SilentDo
    <3> HIDE DEF c
    <3>2. /\ CreateOf(n, new) \in T => CreateOf(n, new) \in U
          /\ GroupsOf(n, new) \in T => GroupsOf(n, new) \in U
          /\ FlagOf(n, new) \in T => FlagOf(n, new) \in U
      BY <1>6, <2>5
    <3> QED
      BY <1>5, <2>5, <3>1, <3>2 DEF Due, SameBut
  <2> QED
    BY <1>3, <2>1, <2>2, <2>3, <2>4, <2>5
<1> HIDE DEF c, before, after, new
<1>8. ASSUME NEW m \in DOMAIN c \cup DOMAIN after PROVE Due(c, after, m, U)
  <2>1. CASE m = n
    BY <1>7, <2>1
  <2>2. CASE m # n
    <3>1. Due(b, after, m, T)
      BY <1>7, <2>2 DEF Owed, after
    <3> QED
      BY <1>4, <1>7, <2>2, <3>1, DueElsewhere
  <2> QED
    BY <2>1, <2>2
<1> QED
  BY <1>8 DEF Owed, c, after

LEMMA OwedNothing ==
  ASSUME NEW b, Form(b), NEW after, Owed(b, after, {})
  PROVE  b = View(after)
<1>1. DOMAIN b = DOMAIN after
  BY DEF Owed, Due
<1>2. \A n \in DOMAIN after : b[n].groups = after[n].groups /\ b[n].disabled = after[n].disabled
  BY <1>1 DEF Owed, Due
<1>3. b = [n \in DOMAIN after |-> Seen(after[n].groups, after[n].disabled)]
  BY <1>1, <1>2 DEF Form
<1> QED
  BY <1>3 DEF View, Seen

(* A difference is owed in full where the belief agrees with the version   *)
(* before.                                                                 *)
LEMMA DiffOwes ==
  ASSUME NEW b, NEW before, NEW after, Owed(b, before, {})
  PROVE  Owed(b, after, DiffEvents(before, after))
<1>1. DOMAIN b = DOMAIN before
  BY DEF Owed, Due
<1>2. \A n \in DOMAIN before : b[n].groups = before[n].groups /\ b[n].disabled = before[n].disabled
  BY <1>1 DEF Owed, Due
<1>3. ASSUME NEW n \in DOMAIN b \cup DOMAIN after PROVE Due(b, after, n, DiffEvents(before, after))
  <2>1. DiffFor(n, before, after) \subseteq DiffEvents(before, after)
    BY <1>1 DEF DiffEvents
  <2>2. CASE n \notin DOMAIN before
    <3>1. CreateOf(n, after[n]) \in DiffEvents(before, after)
      BY <2>1, <2>2 DEF DiffFor
    <3> QED
      BY <1>1, <2>2, <3>1 DEF Due
  <2>3. CASE n \in DOMAIN before /\ n \notin DOMAIN after
    <3>1. DeleteOf(n) \in DiffEvents(before, after)
      BY <2>1, <2>3 DEF DiffFor
    <3> QED
      BY <2>3, <3>1 DEF Due
  <2>4. CASE n \in DOMAIN before /\ n \in DOMAIN after
    <3>1. ChangesIn(n, before[n], after[n]) \subseteq DiffEvents(before, after)
      BY <2>1, <2>4 DEF DiffFor
    <3>2. /\ before[n].groups # after[n].groups => GroupsOf(n, after[n]) \in DiffEvents(before, after)
          /\ before[n].disabled # after[n].disabled => FlagOf(n, after[n]) \in DiffEvents(before, after)
      BY <3>1 DEF ChangesIn, If
    <3> QED
      BY <1>1, <1>2, <2>4, <3>2 DEF Due
  <2> QED
    BY <2>2, <2>3, <2>4
<1> QED
  BY <1>3 DEF Owed

LEMMA SameOwesNothing ==
  ASSUME NEW A
  PROVE  DiffEvents(A, A) = {}
  BY DEF DiffEvents, DiffFor, ChangesIn, If

LEMMA OwedMore ==
  ASSUME NEW b, NEW after, NEW T, NEW U, T \subseteq U, Owed(b, after, T)
  PROVE  Owed(b, after, U)
  BY DEF Owed, Due

-----------------------------------------------------------------------------
(* An event that tells something the reader does not believe yet.          *)

Telling == {"account.create", "account.delete", "account.groups", "account.enable", "account.disable"}

News(b, e) ==
  LET n == e.ids[1] IN
  /\ e.operation = "account.create" => n \notin DOMAIN b
  /\ e.operation \in Telling \ {"account.create"} => n \in DOMAIN b
  /\ e.operation = "account.groups" => b[n].groups # e.groups
  /\ e.operation = "account.enable" => b[n].disabled # FALSE
  /\ e.operation = "account.disable" => b[n].disabled # TRUE

FlagTold(e, new) ==
  \/ e.operation = "account.disable" /\ new.disabled = TRUE
  \/ e.operation = "account.enable" /\ new.disabled = FALSE

LEMMA FlagOperation ==
  ASSUME NEW n, NEW new, new.disabled \in BOOLEAN
  PROVE  FlagTold(FlagOf(n, new), new)
<1>1. FlagOf(n, new).operation = IF new.disabled THEN "account.disable" ELSE "account.enable"
  BY DEF FlagOf, Change
<1> QED
  BY <1>1 DEF FlagTold

LEMMA Flags ==
  ASSUME NEW v \in Known, NEW n \in DOMAIN v.accounts
  PROVE  v.accounts[n].disabled \in BOOLEAN
<1>1. v.accounts[n] \in Account
  BY WatchAssumption DEF Known
<1> QED
  BY <1>1 DEF Account

LEMMA NewsFirst ==
  ASSUME NEW b, NEW v \in Known, NEW w \in Known, Owed(b, v.accounts, {}),
         NEW e \in DiffEvents(v.accounts, w.accounts)
  PROVE  News(b, e)
<1> DEFINE before == v.accounts
           after == w.accounts
<1>1. DOMAIN b = DOMAIN before
  BY DEF Owed, Due
<1>2. \A n \in DOMAIN before : b[n].groups = before[n].groups /\ b[n].disabled = before[n].disabled
  BY <1>1 DEF Owed, Due
<1>3. PICK n \in DOMAIN before \cup DOMAIN after :
           \/ n \notin DOMAIN before /\ n \in DOMAIN after /\ e = CreateOf(n, after[n])
           \/ n \in DOMAIN before /\ n \notin DOMAIN after /\ e = DeleteOf(n)
           \/ /\ n \in DOMAIN before /\ n \in DOMAIN after
              /\ \/ e = GroupsOf(n, after[n]) /\ before[n].groups # after[n].groups
                 \/ e = FlagOf(n, after[n]) /\ before[n].disabled # after[n].disabled
                 \/ e = PasswordOf(n)
                 \/ e = ProfileOf(n)
  BY DiffCases
<1> DEFINE new == after[n]
<1>4. e.ids[1] = n
  BY <1>3, NamesOf, FirstName
<1>5. /\ CreateOf(n, new).operation = "account.create" /\ DeleteOf(n).operation = "account.delete"
      /\ GroupsOf(n, new).operation = "account.groups"
      /\ FlagOf(n, new).operation \in {"account.disable", "account.enable"}
      /\ PasswordOf(n).operation = "account.password" /\ ProfileOf(n).operation = "account.profile"
  BY OperationsDiffer
<1>6. CASE n \notin DOMAIN before /\ e = CreateOf(n, new)
  BY <1>1, <1>4, <1>5, <1>6 DEF News, Telling
<1>7. CASE n \in DOMAIN before /\ e = DeleteOf(n)
  BY <1>1, <1>4, <1>5, <1>7 DEF News, Telling
<1>8. CASE n \in DOMAIN before /\ e = GroupsOf(n, new) /\ before[n].groups # new.groups
  <2>1. e.groups = new.groups
    BY <1>8 DEF GroupsOf, Change
  <2> QED
    BY <1>1, <1>2, <1>4, <1>5, <1>8, <2>1 DEF News, Telling
<1>9. CASE n \in DOMAIN before /\ n \in DOMAIN after /\ e = FlagOf(n, new) /\ before[n].disabled # new.disabled
  <2>1. \/ e.operation = "account.disable" /\ new.disabled = TRUE
        \/ e.operation = "account.enable" /\ new.disabled = FALSE
    <3>1. new.disabled \in BOOLEAN
      BY <1>9, Flags
    <3> HIDE DEF new
    <3>2. FlagTold(FlagOf(n, new), new)
      BY <3>1, FlagOperation
    <3> QED
      BY <1>9, <3>2 DEF FlagTold
  <2>2. b[n].disabled = before[n].disabled
    BY <1>2, <1>9
  <2> QED
    BY <1>1, <1>4, <1>9, <2>1, <2>2 DEF News, Telling
<1>10. CASE e = PasswordOf(n) \/ e = ProfileOf(n)
  BY <1>5, <1>10 DEF News, Telling
<1> QED
  BY <1>3, <1>6, <1>7, <1>8, <1>9, <1>10

LEMMA NewsTold ==
  ASSUME NEW b, Form(b), NEW v \in Known, NEW w \in Known,
         NEW e \in DiffEvents(v.accounts, w.accounts), News(b, e), e.operation \in Telling
  PROVE  Believing(b, e) # b
<1> DEFINE before == v.accounts
           after == w.accounts
           c == Believing(b, e)
<1>3. PICK n \in DOMAIN before \cup DOMAIN after :
           \/ n \notin DOMAIN before /\ n \in DOMAIN after /\ e = CreateOf(n, after[n])
           \/ n \in DOMAIN before /\ n \notin DOMAIN after /\ e = DeleteOf(n)
           \/ /\ n \in DOMAIN before /\ n \in DOMAIN after
              /\ \/ e = GroupsOf(n, after[n]) /\ before[n].groups # after[n].groups
                 \/ e = FlagOf(n, after[n]) /\ before[n].disabled # after[n].disabled
                 \/ e = PasswordOf(n)
                 \/ e = ProfileOf(n)
  BY DiffCases
<1> DEFINE new == after[n]
<1>4. e.ids[1] = n
  BY <1>3, NamesOf, FirstName
<1>5. /\ CreateOf(n, new).operation = "account.create" /\ DeleteOf(n).operation = "account.delete"
      /\ GroupsOf(n, new).operation = "account.groups"
      /\ FlagOf(n, new).operation \in {"account.disable", "account.enable"}
      /\ PasswordOf(n).operation = "account.password" /\ ProfileOf(n).operation = "account.profile"
  BY OperationsDiffer
<1>6. CASE e = CreateOf(n, new)
  <2>1. n \notin DOMAIN b
    BY <1>4, <1>5, <1>6 DEF News
  <2>2. Created(b, c, n, new)
    BY <1>6, CreateDoes
  <2> HIDE DEF c
  <2>3. c # b
    BY <2>1, <2>2 DEF Created
  <2> QED
    BY <2>3 DEF c
<1>7. CASE e = DeleteOf(n)
  <2>1. n \in DOMAIN b
    BY <1>4, <1>5, <1>7 DEF News, Telling
  <2>2. DOMAIN c = DOMAIN b \ {n}
    BY <1>7, DeleteDoes
  <2> HIDE DEF c
  <2>3. c # b
    BY <2>1, <2>2
  <2> QED
    BY <2>3 DEF c
<1>8. CASE e = GroupsOf(n, new)
  <2>1. e.groups = new.groups
    BY <1>8 DEF GroupsOf, Change
  <2>2. n \in DOMAIN b /\ b[n].groups # new.groups
    BY <1>4, <1>5, <1>8, <2>1 DEF News, Telling
  <2>3. c[n] = Seen(new.groups, b[n].disabled)
    BY <1>8, <2>2, GroupsDo
  <2> HIDE DEF c
  <2>4. c[n].groups = new.groups
    BY <2>3, SeenFields
  <2>5. c # b
    BY <2>2, <2>4
  <2> QED
    BY <2>5 DEF c
<1>9. CASE n \in DOMAIN after /\ e = FlagOf(n, new)
  <2>1. \/ e.operation = "account.disable" /\ new.disabled = TRUE
        \/ e.operation = "account.enable" /\ new.disabled = FALSE
    <3>1. new.disabled \in BOOLEAN
      BY <1>9, Flags
    <3> HIDE DEF new
    <3>2. FlagTold(FlagOf(n, new), new)
      BY <3>1, FlagOperation
    <3> QED
      BY <1>9, <3>2 DEF FlagTold
  <2>2. n \in DOMAIN b /\ b[n].disabled # new.disabled
    BY <1>4, <1>9, <2>1 DEF News, Telling
  <2>3. c[n] = Seen(b[n].groups, new.disabled)
    BY <1>9, <2>2, Flags, FlagDoes
  <2> HIDE DEF c
  <2>4. c[n].disabled = new.disabled
    BY <2>3, SeenFields
  <2>5. c # b
    BY <2>2, <2>4
  <2> QED
    BY <2>5 DEF c
<1>10. CASE e = PasswordOf(n) \/ e = ProfileOf(n)
  BY <1>5, <1>10 DEF Telling
<1> QED
  BY <1>3, <1>6, <1>7, <1>8, <1>9, <1>10

(* The effect of an event on the account it names, or on another.          *)
LEMMA NewsElsewhere ==
  ASSUME NEW b, NEW c, NEW n, NEW f, f.ids[1] # n, SameBut(b, c, n),
         \A m : m # n => (m \in DOMAIN b <=> m \in DOMAIN c), News(b, f)
  PROVE  News(c, f)
<1> DEFINE m == f.ids[1]
<1>1. m \in DOMAIN b => c[m] = b[m]
  BY DEF SameBut
<1>2. m \in DOMAIN b <=> m \in DOMAIN c
  OBVIOUS
<1> HIDE DEF m
<1> QED
  BY <1>1, <1>2 DEF News, m, Telling

LEMMA NewsStays ==
  ASSUME NEW b, Form(b), NEW v \in Known, NEW w \in Known,
         NEW e \in DiffEvents(v.accounts, w.accounts),
         NEW f \in DiffEvents(v.accounts, w.accounts), f # e, News(b, f)
  PROVE  News(Believing(b, e), f)
<1> DEFINE before == v.accounts
           after == w.accounts
           c == Believing(b, e)
           Is(g, n) ==
             \/ n \notin DOMAIN before /\ n \in DOMAIN after /\ g = CreateOf(n, after[n])
             \/ n \in DOMAIN before /\ n \notin DOMAIN after /\ g = DeleteOf(n)
             \/ /\ n \in DOMAIN before /\ n \in DOMAIN after
                /\ \/ g = GroupsOf(n, after[n])
                   \/ g = FlagOf(n, after[n])
                   \/ g = PasswordOf(n)
                   \/ g = ProfileOf(n)
<1>1. PICK n : Is(e, n)
  BY DiffCases
<1>2. PICK m : Is(f, m)
  BY DiffCases
<1>3. f.ids[1] = m
  <2>1. f.ids = << m >>
    BY <1>2, NamesOf
  <2> QED
    BY <2>1, FirstName
<1> DEFINE new == after[n]
<1>4. /\ CreateOf(n, new).operation = "account.create" /\ DeleteOf(n).operation = "account.delete"
      /\ GroupsOf(n, new).operation = "account.groups"
      /\ FlagOf(n, new).operation \in {"account.disable", "account.enable"}
      /\ PasswordOf(n).operation = "account.password" /\ ProfileOf(n).operation = "account.profile"
  BY OperationsDiffer
<1>5. CASE e = PasswordOf(n) \/ e = ProfileOf(n)
  <2>1. c = b
    BY <1>5, SilentDo
  <2> QED
    BY <2>1
<1>6. CASE n \notin DOMAIN before /\ e = CreateOf(n, new)
  <2>1. Created(b, c, n, new)
    BY <1>6, CreateDoes
  <2>2. m # n
    BY <1>2, <1>6
  <2> HIDE DEF c
  <2>3. News(c, f)
    BY <1>3, <2>1, <2>2, NewsElsewhere DEF Created
  <2> QED
    BY <2>3 DEF c
<1>7. CASE n \notin DOMAIN after /\ e = DeleteOf(n)
  <2>1. DOMAIN c = DOMAIN b \ {n} /\ SameBut(b, c, n)
    BY <1>7, DeleteDoes
  <2>2. m # n
    BY <1>2, <1>7
  <2> HIDE DEF c
  <2>3. News(c, f)
    BY <1>3, <2>1, <2>2, NewsElsewhere
  <2> QED
    BY <2>3 DEF c
<1>8. CASE n \in DOMAIN before /\ n \in DOMAIN after /\ e = GroupsOf(n, new)
  <2>1. /\ DOMAIN c = DOMAIN b /\ SameBut(b, c, n)
        /\ n \in DOMAIN b => c[n] = Seen(new.groups, b[n].disabled)
    BY <1>8, GroupsDo
  <2> HIDE DEF c
  <2>2. CASE m # n
    <3>1. News(c, f)
      BY <1>3, <2>1, <2>2, NewsElsewhere
    <3> QED
      BY <3>1 DEF c
  <2>3. CASE m = n
    <3>1. f = FlagOf(n, new) \/ f = PasswordOf(n) \/ f = ProfileOf(n)
      BY <1>2, <1>8, <2>3
    <3>2. n \in DOMAIN b => c[n].disabled = b[n].disabled
      BY <2>1, SeenFields
    <3>3. News(c, f)
      BY <1>3, <1>4, <2>1, <2>3, <3>1, <3>2 DEF News, Telling
    <3> QED
      BY <3>3 DEF c
  <2> QED
    BY <2>2, <2>3
<1>9. CASE n \in DOMAIN before /\ n \in DOMAIN after /\ e = FlagOf(n, new)
  <2>1. /\ DOMAIN c = DOMAIN b /\ SameBut(b, c, n)
        /\ n \in DOMAIN b => c[n] = Seen(b[n].groups, new.disabled)
    BY <1>9, Flags, FlagDoes
  <2> HIDE DEF c
  <2>2. CASE m # n
    <3>1. News(c, f)
      BY <1>3, <2>1, <2>2, NewsElsewhere
    <3> QED
      BY <3>1 DEF c
  <2>3. CASE m = n
    <3>1. f = GroupsOf(n, new) \/ f = PasswordOf(n) \/ f = ProfileOf(n)
      BY <1>2, <1>9, <2>3
    <3>2. n \in DOMAIN b => c[n].groups = b[n].groups
      BY <2>1, SeenFields
    <3>3. News(c, f)
      BY <1>3, <1>4, <2>1, <2>3, <3>1, <3>2 DEF News, Telling
    <3> QED
      BY <3>3 DEF c
  <2> QED
    BY <2>2, <2>3
<1> QED
  BY <1>1, <1>5, <1>6, <1>7, <1>8, <1>9

-----------------------------------------------------------------------------
(* While a first list is told: names first, then memberships and flags.    *)

Within(b, accounts) ==
  /\ DOMAIN b \subseteq DOMAIN accounts
  /\ \A n \in DOMAIN b : /\ b[n].groups \subseteq accounts[n].groups
                         /\ b[n].disabled \in BOOLEAN
                         /\ b[n].disabled => accounts[n].disabled

NoIds(T) == \A e \in T : ~IsIds(e)

Covered(b, accounts, T) ==
  \A n \in DOMAIN accounts :
    /\ n \in DOMAIN b \/ \E e \in T : IsIds(e) /\ n \in Named(e)
    /\ \A g \in accounts[n].groups :
         \/ \E e \in T : TellsMember(e, n, g)
         \/ NoIds(T) /\ n \in DOMAIN b /\ g \in b[n].groups
    /\ accounts[n].disabled =>
         \/ \E e \in T : TellsDisabled(e, n)
         \/ NoIds(T) /\ n \in DOMAIN b /\ b[n].disabled

IdsFirst(s) == \A j \in 1 .. Len(s), k \in 1 .. Len(s) : j < k /\ IsIds(s[k]) => IsIds(s[j])

OwedBase(b, accounts, s) ==
  /\ IsSequence(s) /\ IdsFirst(s)
  /\ Within(b, accounts) /\ Covered(b, accounts, Elements(s))
  /\ \A e \in Elements(s) : Fits(e, accounts)

LEMMA BaseFirst ==
  ASSUME NEW b, NEW A, NEW E, IsBaseline(E, A)
  PROVE  OwedBase(Believing(b, Head(E)), A, Tail(E))
<1> DEFINE e == Head(E)
           c == Believing(b, e)
           t == Tail(E)
           M == Len(E)
<1>1. IsSequence(E) /\ M \in Nat \ {0} /\ E # << >>
  BY DEF IsBaseline
<1>2. Taking(E, t)
  BY <1>1, TakenWhole
<1>3. e = E[1]
  BY <1>2 DEF Taking
<1>4. e.operation = "account.baseline" /\ Named(e) \subseteq DOMAIN A
  BY <1>3 DEF IsBaseline
<1>5. c = [n \in Named(e) |-> Seen({}, FALSE)]
  BY <1>4, BaselineEffect
<1> HIDE DEF e, c, t, M
<1>6. DOMAIN c = Named(e) /\ \A n \in DOMAIN c : c[n].groups = {} /\ c[n].disabled = FALSE
  BY <1>5, SeenFields
<1>7. Within(c, A)
  BY <1>4, <1>6 DEF Within
<1>8. \A k \in 1 .. M : k = 1 \/ (k \in 2 .. M /\ k - 1 \in 1 .. Len(t) /\ k - 1 + 1 = k)
  BY <1>1, <1>2 DEF Taking, M
<1>9. \A k \in 1 .. Len(t) : k + 1 \in 2 .. M /\ t[k] = E[k + 1] /\ k \in Int
  BY <1>1, <1>2 DEF Taking, M
<1>10. \A x \in Elements(t) : Fits(x, A)
  BY <1>9 DEF IsBaseline, Elements, M
<1>11. IdsFirst(t)
  <2> SUFFICES ASSUME NEW j \in 1 .. Len(t), NEW k \in 1 .. Len(t), j < k, IsIds(t[k]) PROVE IsIds(t[j])
    BY DEF IdsFirst
  <2>1. j + 1 \in 2 .. M /\ k + 1 \in 2 .. M /\ j + 1 < k + 1
    BY <1>9
  <2> QED
    BY <1>9, <2>1 DEF IsBaseline, M
<1>12. \A k \in 1 .. M : k = 1 \/ E[k] \in Elements(t)
  <2> TAKE k \in 1 .. M
  <2>1. k # 1 => E[k] = t[k - 1]
    BY <1>8, <1>9
  <2> QED
    BY <1>8, <2>1 DEF Elements
<1>13. ~IsIds(e) /\ ~IsMember(e) /\ ~IsDisabled(e)
  BY <1>4 DEF IsIds, IsMember, IsDisabled
<1>14. ASSUME NEW n \in DOMAIN A
       PROVE  /\ n \in DOMAIN c \/ \E x \in Elements(t) : IsIds(x) /\ n \in Named(x)
              /\ \A g \in A[n].groups : \E x \in Elements(t) : TellsMember(x, n, g)
              /\ A[n].disabled => \E x \in Elements(t) : TellsDisabled(x, n)
  <2>1. PICK k \in 1 .. M : n \in Named(E[k]) /\ (k = 1 \/ IsIds(E[k]))
    BY DEF IsBaseline, M
  <2>2. n \in DOMAIN c \/ \E x \in Elements(t) : IsIds(x) /\ n \in Named(x)
    BY <1>3, <1>6, <1>12, <2>1
  <2>3. ASSUME NEW g \in A[n].groups PROVE \E x \in Elements(t) : TellsMember(x, n, g)
    <3>1. PICK i \in 1 .. M : TellsMember(E[i], n, g)
      BY DEF IsBaseline, M
    <3>2. i # 1
      BY <1>3, <1>13, <3>1 DEF TellsMember
    <3> QED
      BY <1>12, <3>1, <3>2
  <2>4. ASSUME A[n].disabled PROVE \E x \in Elements(t) : TellsDisabled(x, n)
    <3>1. PICK i \in 1 .. M : TellsDisabled(E[i], n)
      BY <2>4 DEF IsBaseline, M
    <3>2. i # 1
      BY <1>3, <1>13, <3>1 DEF TellsDisabled
    <3> QED
      BY <1>12, <3>1, <3>2
  <2> QED
    BY <2>2, <2>3, <2>4
<1>15. Covered(c, A, Elements(t))
  BY <1>14 DEF Covered
<1>16. OwedBase(c, A, t)
  BY <1>2, <1>7, <1>10, <1>11, <1>15 DEF OwedBase, Taking
<1> QED
  BY <1>16 DEF c, t, e

(* What an event of a first list does, as seen from the accounts.          *)
IdsDone(b, c, e) ==
  /\ DOMAIN c = DOMAIN b \cup Named(e)
  /\ \A n \in DOMAIN c : IF n \in Named(e) THEN c[n].groups = {} /\ c[n].disabled = FALSE ELSE c[n] = b[n]

MemberDone(b, c, e) ==
  /\ DOMAIN c = DOMAIN b
  /\ \A n \in DOMAIN b : /\ c[n].groups = IF n \in Named(e) THEN b[n].groups \cup e.groups ELSE b[n].groups
                         /\ c[n].disabled = b[n].disabled

DisabledDone(b, c, e) ==
  /\ DOMAIN c = DOMAIN b
  /\ \A n \in DOMAIN b : /\ c[n].groups = b[n].groups
                         /\ c[n].disabled = IF n \in Named(e) THEN TRUE ELSE b[n].disabled

LEMMA IdsDo ==
  ASSUME NEW b, NEW e, IsIds(e)
  PROVE  IdsDone(b, Believing(b, e), e)
<1> DEFINE c == Believing(b, e)
<1>1. c = [n \in Named(e) \cup DOMAIN b |-> IF n \in Named(e) THEN Seen({}, FALSE) ELSE b[n]]
  BY IdsEffect DEF IsIds
<1> HIDE DEF c
<1>2. IdsDone(b, c, e)
  BY <1>1, SeenFields DEF IdsDone
<1> QED
  BY <1>2 DEF c

LEMMA MemberDo ==
  ASSUME NEW b, Form(b), NEW e, IsMember(e)
  PROVE  MemberDone(b, Believing(b, e), e)
<1> DEFINE c == Believing(b, e)
<1>1. c = [n \in DOMAIN b |-> IF n \in Named(e) THEN WithGroups(b[n], b[n].groups \cup e.groups) ELSE b[n]]
  BY DEF IsMember, Believing, Named, WithGroups
<1> HIDE DEF c
<1>2. DOMAIN c = DOMAIN b
  BY <1>1
<1>3. ASSUME NEW n \in DOMAIN b
      PROVE  /\ c[n].groups = IF n \in Named(e) THEN b[n].groups \cup e.groups ELSE b[n].groups
             /\ c[n].disabled = b[n].disabled
  <2>1. c[n] = IF n \in Named(e) THEN WithGroups(b[n], b[n].groups \cup e.groups) ELSE b[n]
    BY <1>1
  <2>2. WithGroups(b[n], b[n].groups \cup e.groups) = Seen(b[n].groups \cup e.groups, b[n].disabled)
    BY FormOfAccount
  <2> QED
    BY <2>1, <2>2, SeenFields
<1>4. MemberDone(b, c, e)
  BY <1>2, <1>3 DEF MemberDone
<1> QED
  BY <1>4 DEF c

LEMMA DisabledDo ==
  ASSUME NEW b, Form(b), NEW e, IsDisabled(e)
  PROVE  DisabledDone(b, Believing(b, e), e)
<1> DEFINE c == Believing(b, e)
<1>1. c = [n \in DOMAIN b |-> IF n \in Named(e) THEN WithFlag(b[n], TRUE) ELSE b[n]]
  BY DEF IsDisabled, Believing, Named, WithFlag
<1> HIDE DEF c
<1>2. DOMAIN c = DOMAIN b
  BY <1>1
<1>3. ASSUME NEW n \in DOMAIN b
      PROVE  /\ c[n].groups = b[n].groups
             /\ c[n].disabled = IF n \in Named(e) THEN TRUE ELSE b[n].disabled
  <2>1. c[n] = IF n \in Named(e) THEN WithFlag(b[n], TRUE) ELSE b[n]
    BY <1>1
  <2>2. WithFlag(b[n], TRUE) = Seen(b[n].groups, TRUE)
    BY FormOfAccount
  <2>3. CASE n \in Named(e)
    <3>1. c[n] = Seen(b[n].groups, TRUE)
      BY <2>1, <2>2, <2>3
    <3>2. Seen(b[n].groups, TRUE).groups = b[n].groups /\ Seen(b[n].groups, TRUE).disabled = TRUE
      BY DEF Seen
    <3>3. c[n].groups = b[n].groups /\ c[n].disabled = TRUE
      BY <3>1, <3>2
    <3> QED
      BY <2>3, <3>3
  <2>4. CASE n \notin Named(e)
    <3>1. c[n] = b[n]
      BY <2>1, <2>4
    <3> QED
      BY <2>4, <3>1
  <2> QED
    BY <2>3, <2>4
<1>4. DisabledDone(b, c, e)
  BY <1>2, <1>3 DEF DisabledDone
<1> QED
  BY <1>4 DEF c

LEMMA BaseStep ==
  ASSUME NEW b, Form(b), NEW A, NEW s, s # << >>, OwedBase(b, A, s)
  PROVE  OwedBase(Believing(b, Head(s)), A, Tail(s))
<1> DEFINE e == Head(s)
           c == Believing(b, e)
           t == Tail(s)
           T == Elements(s)
           U == Elements(t)
           M == Len(s)
<1>1. Taking(s, t)
  BY TakenWhole DEF OwedBase
<1>2. T = {e} \cup U /\ IsSequence(t) /\ e = s[1]
  BY <1>1 DEF Taking
<1>3. Fits(e, A) /\ \A x \in U : Fits(x, A)
  BY <1>2 DEF OwedBase
<1>4. IsIds(e) => IdsDone(b, c, e)
  BY IdsDo
<1>5. IsMember(e) => MemberDone(b, c, e)
  BY MemberDo
<1>6. IsDisabled(e) => DisabledDone(b, c, e)
  BY DisabledDo
<1>7. Within(b, A) /\ Covered(b, A, T)
  BY DEF OwedBase
<1> HIDE DEF e, c, t, T, U
<1>8. IdsFirst(t)
  <2>1. \A k \in 1 .. Len(t) : k + 1 \in 1 .. M /\ t[k] = s[k + 1] /\ k \in Int
    BY <1>1 DEF Taking
  <2> SUFFICES ASSUME NEW j \in 1 .. Len(t), NEW k \in 1 .. Len(t), j < k, IsIds(t[k]) PROVE IsIds(t[j])
    BY DEF IdsFirst
  <2>2. j + 1 < k + 1
    BY <2>1
  <2> QED
    BY <2>1, <2>2 DEF IdsFirst, OwedBase
<1>9. ~IsIds(e) => NoIds(T)
  <2> SUFFICES ASSUME ~IsIds(e), NEW k \in 1 .. M, IsIds(s[k]) PROVE FALSE
    BY DEF NoIds, T, Elements
  <2>1. 1 \in 1 .. M /\ (k = 1 \/ 1 < k)
    BY <1>1 DEF Taking
  <2> QED
    BY <1>2, <2>1 DEF OwedBase, IdsFirst
<1>10. Within(c, A) /\ Covered(c, A, U)
  <2>1. CASE IsIds(e) /\ Named(e) \subseteq DOMAIN A
    <3>1. IdsDone(b, c, e) /\ ~NoIds(T) /\ ~IsMember(e) /\ ~IsDisabled(e)
      BY <1>2, <1>4, <2>1 DEF NoIds, IsIds, IsMember, IsDisabled
    <3>2. Within(c, A)
      <4> SUFFICES ASSUME NEW n \in DOMAIN c
                   PROVE  /\ n \in DOMAIN A /\ c[n].groups \subseteq A[n].groups
                          /\ c[n].disabled \in BOOLEAN /\ (c[n].disabled => A[n].disabled)
        BY DEF Within
      <4>1. CASE n \in Named(e)
        BY <2>1, <3>1, <4>1 DEF IdsDone
      <4>2. CASE n \notin Named(e)
        <5>1. n \in DOMAIN b /\ c[n] = b[n]
          BY <3>1, <4>2 DEF IdsDone
        <5> QED
          BY <1>7, <5>1 DEF Within
      <4> QED
        BY <4>1, <4>2
    <3>3. ASSUME NEW n \in DOMAIN A
          PROVE  /\ n \in DOMAIN c \/ \E x \in U : IsIds(x) /\ n \in Named(x)
                 /\ \A g \in A[n].groups : \E x \in U : TellsMember(x, n, g)
                 /\ A[n].disabled => \E x \in U : TellsDisabled(x, n)
      <4>1. n \in DOMAIN b \/ \E x \in T : IsIds(x) /\ n \in Named(x)
        BY <1>7 DEF Covered
      <4>2. n \in DOMAIN c \/ \E x \in U : IsIds(x) /\ n \in Named(x)
        BY <1>2, <3>1, <4>1 DEF IdsDone
      <4>3. \A g \in A[n].groups : \E x \in T : TellsMember(x, n, g)
        BY <1>7, <3>1 DEF Covered
      <4>4. A[n].disabled => \E x \in T : TellsDisabled(x, n)
        BY <1>7, <3>1 DEF Covered
      <4>5. \A g : ~TellsMember(e, n, g) /\ ~TellsDisabled(e, n)
        BY <3>1 DEF TellsMember, TellsDisabled
      <4> QED
        BY <1>2, <4>2, <4>3, <4>4, <4>5
    <3> QED
      BY <3>2, <3>3 DEF Covered
  <2>2. CASE FitsMember(e, A)
    <3>1. MemberDone(b, c, e) /\ ~IsIds(e) /\ ~IsDisabled(e)
      BY <1>5, <2>2 DEF FitsMember, IsIds, IsMember, IsDisabled
    <3>2. NoIds(T) /\ NoIds(U)
      BY <1>2, <1>9, <3>1 DEF NoIds
    <3>3. \A n \in DOMAIN A : n \in DOMAIN b
      BY <1>7, <3>2 DEF Covered, NoIds
    <3>4. Within(c, A)
      BY <1>7, <2>2, <3>1 DEF Within, MemberDone, FitsMember
    <3>5. ASSUME NEW n \in DOMAIN A
          PROVE  /\ n \in DOMAIN c
                 /\ \A g \in A[n].groups : (\E x \in U : TellsMember(x, n, g)) \/ g \in c[n].groups
                 /\ A[n].disabled => (\E x \in U : TellsDisabled(x, n)) \/ c[n].disabled
      <4>1. n \in DOMAIN c /\ n \in DOMAIN b
        BY <3>1, <3>3 DEF MemberDone
      <4>2. ASSUME NEW g \in A[n].groups PROVE (\E x \in U : TellsMember(x, n, g)) \/ g \in c[n].groups
        <5>1. (\E x \in T : TellsMember(x, n, g)) \/ g \in b[n].groups
          BY <1>7 DEF Covered
        <5>2. TellsMember(e, n, g) => g \in c[n].groups
          BY <3>1, <4>1 DEF MemberDone, TellsMember
        <5>3. g \in b[n].groups => g \in c[n].groups
          BY <3>1, <4>1 DEF MemberDone
        <5> QED
          BY <1>2, <5>1, <5>2, <5>3
      <4>3. ASSUME A[n].disabled PROVE (\E x \in U : TellsDisabled(x, n)) \/ c[n].disabled
        <5>1. (\E x \in T : TellsDisabled(x, n)) \/ b[n].disabled
          BY <1>7, <4>3 DEF Covered
        <5>2. c[n].disabled = b[n].disabled /\ ~TellsDisabled(e, n)
          BY <3>1, <4>1 DEF MemberDone, TellsDisabled
        <5> QED
          BY <1>2, <5>1, <5>2
      <4> QED
        BY <4>1, <4>2, <4>3
    <3>6. Covered(c, A, U)
      BY <3>2, <3>5 DEF Covered
    <3> QED
      BY <3>4, <3>6
  <2>3. CASE FitsDisabled(e, A)
    <3>1. DisabledDone(b, c, e) /\ ~IsIds(e) /\ ~IsMember(e)
      BY <1>6, <2>3 DEF FitsDisabled, IsIds, IsMember, IsDisabled
    <3>2. NoIds(T) /\ NoIds(U)
      BY <1>2, <1>9, <3>1 DEF NoIds
    <3>3. \A n \in DOMAIN A : n \in DOMAIN b
      BY <1>7, <3>2 DEF Covered, NoIds
    <3>4. Within(c, A)
      BY <1>7, <2>3, <3>1 DEF Within, DisabledDone, FitsDisabled
    <3>5. ASSUME NEW n \in DOMAIN A
          PROVE  /\ n \in DOMAIN c
                 /\ \A g \in A[n].groups : (\E x \in U : TellsMember(x, n, g)) \/ g \in c[n].groups
                 /\ A[n].disabled => (\E x \in U : TellsDisabled(x, n)) \/ c[n].disabled
      <4>1. n \in DOMAIN c /\ n \in DOMAIN b
        BY <3>1, <3>3 DEF DisabledDone
      <4>2. ASSUME NEW g \in A[n].groups PROVE (\E x \in U : TellsMember(x, n, g)) \/ g \in c[n].groups
        <5>1. (\E x \in T : TellsMember(x, n, g)) \/ g \in b[n].groups
          BY <1>7 DEF Covered
        <5>2. c[n].groups = b[n].groups /\ ~TellsMember(e, n, g)
          BY <3>1, <4>1 DEF DisabledDone, TellsMember
        <5> QED
          BY <1>2, <5>1, <5>2
      <4>3. ASSUME A[n].disabled PROVE (\E x \in U : TellsDisabled(x, n)) \/ c[n].disabled
        <5>1. (\E x \in T : TellsDisabled(x, n)) \/ b[n].disabled
          BY <1>7, <4>3 DEF Covered
        <5>2. (TellsDisabled(e, n) => c[n].disabled) /\ (b[n].disabled => c[n].disabled)
          BY <3>1, <4>1 DEF DisabledDone, TellsDisabled
        <5> QED
          BY <1>2, <5>1, <5>2
      <4> QED
        BY <4>1, <4>2, <4>3
    <3>6. Covered(c, A, U)
      BY <3>2, <3>5 DEF Covered
    <3> QED
      BY <3>4, <3>6
  <2> QED
    BY <1>3, <2>1, <2>2, <2>3 DEF Fits
<1>11. OwedBase(c, A, t)
  BY <1>2, <1>3, <1>8, <1>10 DEF OwedBase, U
<1> QED
  BY <1>11 DEF c, t, e

LEMMA BaseDone ==
  ASSUME NEW b, NEW v \in Known, OwedBase(b, v.accounts, << >>)
  PROVE  Owed(b, v.accounts, {})
<1> DEFINE A == v.accounts
<1>1. \A n \in DOMAIN A : A[n].disabled \in BOOLEAN
  BY Flags
<1>2. Elements(<< >>) = {}
  BY Single
<1> HIDE DEF A
<1>3. Within(b, A) /\ Covered(b, A, {})
  BY <1>2 DEF OwedBase, A
<1>4. DOMAIN b = DOMAIN A
  BY <1>3 DEF Within, Covered
<1>5. ASSUME NEW n \in DOMAIN A
      PROVE  b[n].groups = A[n].groups /\ b[n].disabled = A[n].disabled
  <2>1. A[n].groups \subseteq b[n].groups /\ (A[n].disabled => b[n].disabled)
    BY <1>3 DEF Covered
  <2>2. b[n].groups \subseteq A[n].groups /\ b[n].disabled \in BOOLEAN /\ (b[n].disabled => A[n].disabled)
    BY <1>3, <1>4 DEF Within
  <2>3. b[n].disabled = A[n].disabled
    BY <1>1, <2>1, <2>2
  <2> QED
    BY <2>1, <2>2, <2>3
<1>6. Owed(b, A, {})
  BY <1>4, <1>5 DEF Owed, Due
<1> QED
  BY <1>6 DEF A

-----------------------------------------------------------------------------
(* What the trail owes the reader, and what it has told: the inductive     *)
(* invariant.                                                              *)

Quiet == QuietCrash \/ faults = 0

Believed == Belief(trail)

(* Between rounds the reader knows the version saved, but for what a round *)
(* cut off has told already of the next one.                               *)
Between ==
  pc \in {"poll", "down"} /\ known.version # NoVersion =>
    IF torn /\ file \in Known
      THEN Owed(Believed, file.accounts, DiffEvents(known.version.accounts, file.accounts))
      ELSE Owed(Believed, known.version.accounts, {})

InRound == pc \in {"emit", "save"}

Itemising ==
  InRound /\ next.unparsed = NoVersion =>
    /\ next.version \in Known
    /\ known.version = NoVersion =>
         todo = Baseline(next.version.accounts) \/ OwedBase(Believed, next.version.accounts, todo)
    /\ known.version # NoVersion =>
         /\ Owed(Believed, next.version.accounts, Elements(todo))
         /\ Elements(todo) \subseteq DiffEvents(known.version.accounts, next.version.accounts)

Refusing ==
  InRound /\ next.unparsed # NoVersion =>
    /\ next.version = known.version
    /\ todo = << >> \/ todo = <<Unparsed(next.unparsed)>>
    /\ known.version # NoVersion => Owed(Believed, known.version.accounts, {})

Debts == Quiet => Between /\ Itemising /\ Refusing

(* The last event is not of an unreadable version, or is of this one, or a *)
(* version was itemised since.                                             *)
LastTold(v) ==
  \/ trail = << >> \/ Len(trail) \in itemised
  \/ trail[Len(trail)].operation # "account.unparsed"
  \/ trail[Len(trail)] = Unparsed(v)

Fresh(v) == trail = << >> \/ Len(trail) \in itemised \/ trail[Len(trail)] # Unparsed(v)

TellsNews == InRound /\ next.unparsed = NoVersion /\ known.version # NoVersion =>
               Distinct(todo) /\ \A e \in Elements(todo) : News(Believed, e)

NoRepeats ==
  faults = 0 =>
    /\ NothingToldTwice
    /\ pc \in {"poll", "down"} => LastTold(known.unparsed)
    /\ TellsNews
    /\ pc = "emit" /\ next.unparsed # NoVersion => Fresh(next.unparsed)
    /\ pc = "save" /\ next.unparsed # NoVersion => trail # << >> /\ trail[Len(trail)] = Unparsed(next.unparsed)

ToldInv ==
  /\ Form(Believed) /\ (torn => faults # 0)
  /\ Debts /\ NoRepeats

LEMMA TwiceKept ==
  ASSUME NothingToldTwice, faults' = faults, trail' = trail, itemised \subseteq itemised'
  PROVE  NothingToldTwice'
  BY DEF NothingToldTwice

(* Steps between two rounds.                                               *)
LEMMA IdleKeeps ==
  ASSUME ToldInv, pc \in {"poll", "down"}, pc' \in {"poll", "down"},
         UNCHANGED <<known, trail, itemised, faults>>, torn' => torn,
         Quiet /\ Between => Between'
  PROVE  ToldInv'
<1>1. ~InRound'
  BY DEF InRound
<1>2. Debts'
  BY <1>1 DEF ToldInv, Debts, Quiet, Itemising, Refusing
<1>3. NoRepeats'
  <2> SUFFICES ASSUME faults' = 0 PROVE NoRepeats'
    BY DEF NoRepeats
  <2>1. NothingToldTwice /\ LastTold(known.unparsed)
    BY DEF ToldInv, NoRepeats
  <2>2. NothingToldTwice'
    BY <2>1, TwiceKept
  <2>3. LastTold(known.unparsed)'
    BY <2>1 DEF LastTold
  <2>4. TellsNews'
    BY <1>1 DEF TellsNews
  <2> QED
    BY <1>1, <2>2, <2>3, <2>4 DEF NoRepeats, InRound
<1>4. Form(Believed)' /\ (torn' => faults' # 0)
  BY DEF ToldInv, Believed
<1> QED
  BY <1>2, <1>3, <1>4 DEF ToldInv

(* A step that only changes the file during a round, or nothing.           *)
LEMMA RoundKeeps ==
  ASSUME ToldInv, InRound, UNCHANGED <<pc, known, next, todo, trail, torn, itemised, faults>>
  PROVE  ToldInv'
<1>1. InRound'
  BY DEF InRound
<1>2. Debts'
  <2>1. Between'
    BY <1>1 DEF Between, InRound
  <2>2. Quiet' => Itemising' /\ Refusing'
    BY <1>1 DEF ToldInv, Debts, Quiet, Itemising, Refusing, Believed
  <2> QED
    BY <2>1, <2>2 DEF Debts
<1>3. NoRepeats'
  <2> SUFFICES ASSUME faults' = 0 PROVE NoRepeats'
    BY DEF NoRepeats
  <2>1. NothingToldTwice /\ TellsNews
    BY DEF ToldInv, NoRepeats
  <2>2. NothingToldTwice'
    BY <2>1, TwiceKept
  <2>3. TellsNews'
    BY <2>1 DEF TellsNews, InRound, Believed
  <2>4. /\ pc' = "emit" /\ next'.unparsed # NoVersion => Fresh(next.unparsed)'
        /\ pc' = "save" /\ next'.unparsed # NoVersion =>
             trail' # << >> /\ trail'[Len(trail')] = Unparsed(next'.unparsed)
    BY DEF ToldInv, NoRepeats, Fresh
  <2>5. pc' \notin {"poll", "down"}
    BY <1>1 DEF InRound
  <2> QED
    BY <2>2, <2>3, <2>4, <2>5 DEF NoRepeats
<1>4. Form(Believed)' /\ (torn' => faults' # 0)
  BY DEF ToldInv, Believed
<1> QED
  BY <1>2, <1>3, <1>4 DEF ToldInv

(* What the reader is owed of the version at hand when a round begins.     *)
LEMMA OwedAtRead ==
  ASSUME Inv, Quiet => Between, Quiet, pc = "poll", file \in Known, known.version # NoVersion
  PROVE  Owed(Believed, file.accounts, DiffEvents(known.version.accounts, file.accounts))
<1>1. CASE torn
  BY <1>1 DEF Between
<1>2. CASE ~torn
  <2>1. Owed(Believed, known.version.accounts, {})
    BY <1>2 DEF Between
  <2> QED
    BY <2>1, DiffOwes
<1> QED
  BY <1>1, <1>2

LEMMA UnparsedKinds == \A v, w : v # w => Unparsed(v) # Unparsed(w)
  BY DEF Unparsed

LEMMA IdleSteps ==
  ASSUME Inv, ToldInv,
         \/ StartUp \/ ReadMissing \/ ReadSame \/ ReadRaises \/ Stopped
         \/ ReadRefused /\ pc' = pc
         \/ Edit /\ ~InRound
         \/ UNCHANGED vars /\ ~InRound
  PROVE  ToldInv'
<1>1. pc \in {"poll", "down"} /\ pc' \in {"poll", "down"}
  <2>1. ~InRound => pc \in {"poll", "down"}
    BY DEF InRound, Inv, Shape
  <2> QED
    BY <2>1 DEF StartUp, ReadMissing, ReadSame, ReadRaises, Stopped, ReadRefused, Edit, Down, vars
<1>2. UNCHANGED <<known, trail, itemised, faults>> /\ (torn' => torn)
  BY DEF StartUp, ReadMissing, ReadSame, ReadRaises, Stopped, ReadRefused, Edit, Down, Environment, vars
<1>3. ASSUME Quiet, Between PROVE Between'
  <2>1. CASE ReadSame
    <3>1. file' = file /\ ~torn' /\ file = known.version /\ pc = "poll"
      BY <2>1 DEF ReadSame, Environment
    <3>2. known.version # NoVersion => Owed(Believed, known.version.accounts, {})
      <4> SUFFICES ASSUME known.version # NoVersion PROVE Owed(Believed, known.version.accounts, {})
        OBVIOUS
      <4>1. file \in Known
        BY <3>1 DEF Inv, Shape, States
      <4>2. Owed(Believed, file.accounts, DiffEvents(known.version.accounts, file.accounts))
        BY <1>3, <3>1, <4>1, OwedAtRead
      <4>3. DiffEvents(known.version.accounts, file.accounts) = {}
        BY <3>1, SameOwesNothing
      <4> QED
        BY <3>1, <4>2, <4>3
    <3> QED
      BY <1>2, <3>1, <3>2 DEF Between, Believed
  <2>2. CASE Edit
    <3>1. ~torn /\ ~torn'
      BY <1>3, <2>2 DEF ToldInv, Quiet, Edit
    <3>2. known.version # NoVersion => Owed(Believed, known.version.accounts, {})
      BY <1>1, <1>3, <3>1 DEF Between
    <3> QED
      BY <1>2, <3>1, <3>2 DEF Between, Believed
  <2>3. CASE ~ReadSame /\ ~Edit
    <3>1. file' = file /\ torn' = torn
      BY <2>3 DEF StartUp, ReadMissing, ReadRaises, Stopped, ReadRefused, Down, Environment, vars
    <3> QED
      BY <1>1, <1>2, <1>3, <3>1 DEF Between, Believed
  <2> QED
    BY <2>1, <2>2, <2>3
<1> QED
  BY <1>1, <1>2, <1>3, IdleKeeps

LEMMA ReadChangedTells ==
  ASSUME Inv, ToldInv, ReadChanged
  PROVE  ToldInv'
<1>1. /\ pc = "poll" /\ file \in Known /\ file # known.version
      /\ UNCHANGED <<file, itemised, faults, known, trail, torn>>
  BY Kinds DEF Inv, Shape, ReadChanged, Environment
<1>2. next'.version = file /\ next'.unparsed = NoVersion /\ InRound' /\ pc' \notin {"poll", "down"}
  BY DEF ReadChanged, InRound
<1>3. Believed' = Believed /\ Quiet' = Quiet
  BY <1>1 DEF Believed, Quiet
<1>4. known.version # NoVersion => known.version \in Known
  BY DEF Inv, Shape, States
<1>5. CASE known.version = NoVersion
  <2>1. todo' = Baseline(file.accounts)
    BY <1>5 DEF ReadChanged
  <2>2. Itemising' /\ TellsNews'
    BY <1>1, <1>2, <1>5, <2>1 DEF Itemising, TellsNews, Known
  <2>3. Debts'
    BY <1>2, <2>2 DEF Debts, Between, Refusing
  <2>4. NoRepeats'
    <3> SUFFICES ASSUME faults' = 0 PROVE NoRepeats'
      BY DEF NoRepeats
    <3>1. NothingToldTwice'
      BY <1>1, TwiceKept DEF ToldInv, NoRepeats
    <3> QED
      BY <1>2, <2>2, <3>1 DEF NoRepeats
  <2>5. Form(Believed)' /\ (torn' => faults' # 0)
    BY <1>1 DEF ToldInv, Believed
  <2> QED
    BY <2>3, <2>4, <2>5 DEF ToldInv
<1>6. CASE known.version # NoVersion
  <2> DEFINE before == known.version.accounts
             after == file.accounts
  <2>1. /\ todo' = DiffAccounts(before, after)
        /\ Elements(todo') = DiffEvents(before, after) /\ Distinct(todo')
    <3>1. todo' = DiffAccounts(before, after)
      BY <1>6 DEF ReadChanged
    <3> QED
      BY <1>1, <1>4, <1>6, <3>1, DiffWhole
  <2>2. Quiet => Owed(Believed, after, DiffEvents(before, after))
    BY <1>1, <1>6, OwedAtRead DEF ToldInv, Debts
  <2>3. Quiet' => Itemising'
    <3> HIDE DEF after
    <3>1. Quiet' => Owed(Believed', after, Elements(todo'))
      BY <1>3, <2>1, <2>2
    <3>2. next'.version.accounts = after /\ known'.version.accounts = before
      BY <1>1, <1>2 DEF after
    <3> QED
      BY <1>1, <1>2, <1>6, <2>1, <3>1, <3>2 DEF Itemising, Known
  <2>4. Debts'
    BY <1>2, <2>3 DEF Debts, Between, Refusing
  <2>5. NoRepeats'
    <3> SUFFICES ASSUME faults' = 0 PROVE NoRepeats'
      BY DEF NoRepeats
    <3>1. NothingToldTwice'
      BY <1>1, TwiceKept DEF ToldInv, NoRepeats
    <3>2. Owed(Believed, before, {})
      <4>1. faults = 0 /\ ~torn /\ Quiet
        BY <1>1 DEF ToldInv, Quiet
      <4> QED
        BY <1>1, <1>6, <4>1 DEF ToldInv, Debts, Between
    <3>3. \A e \in DiffEvents(before, after) : News(Believed, e)
      BY <1>1, <1>4, <1>6, <3>2, NewsFirst
    <3>4. TellsNews'
      BY <1>3, <2>1, <3>3 DEF TellsNews
    <3> QED
      BY <1>2, <3>1, <3>4 DEF NoRepeats
  <2>6. Form(Believed)' /\ (torn' => faults' # 0)
    BY <1>1 DEF ToldInv, Believed
  <2> QED
    BY <2>4, <2>5, <2>6 DEF ToldInv
<1> QED
  BY <1>5, <1>6

LEMMA ReadRefusedTells ==
  ASSUME Inv, ToldInv, ReadRefused, pc' # pc
  PROVE  ToldInv'
<1>1. /\ pc = "poll" /\ pc' = "emit" /\ file \in Refusal /\ known.unparsed # file
      /\ todo' = <<Unparsed(file)>> /\ next' = [known EXCEPT !.unparsed = file]
      /\ UNCHANGED <<file, itemised, faults, known, trail, torn>>
  BY Kinds DEF Inv, Shape, ReadRefused, Environment
<1>2. /\ next'.version = known.version /\ next'.unparsed = file /\ file # NoVersion
      /\ InRound' /\ pc' \notin {"poll", "down"} /\ pc' # "save" /\ file \notin Known
  BY <1>1 DEF Inv, Shape, States, Refusal, Known, NoVersion, InRound
<1>3. Believed' = Believed /\ Quiet' = Quiet
  BY <1>1 DEF Believed, Quiet
<1>4. Quiet' => Refusing'
  <2> SUFFICES ASSUME Quiet, known.version # NoVersion
               PROVE  Owed(Believed, known.version.accounts, {})
    BY <1>1, <1>2, <1>3 DEF Refusing
  <2> QED
    BY <1>1, <1>2 DEF ToldInv, Debts, Between
<1>5. Debts'
  BY <1>2, <1>4 DEF Debts, Between, Itemising
<1>6. NoRepeats'
  <2> SUFFICES ASSUME faults' = 0 PROVE NoRepeats'
    BY DEF NoRepeats
  <2>1. NothingToldTwice /\ LastTold(known.unparsed)
    BY <1>1 DEF ToldInv, NoRepeats
  <2>2. NothingToldTwice'
    BY <1>1, <2>1, TwiceKept
  <2>3. Fresh(file)
    <3>1. Unparsed(known.unparsed) # Unparsed(file) /\ Unparsed(file).operation = "account.unparsed"
      <4>1. Unparsed(file).operation = "account.unparsed"
        BY DEF Unparsed
      <4> QED
        BY <1>1, <4>1, UnparsedKinds
    <3> QED
      BY <2>1, <3>1 DEF LastTold, Fresh
  <2>4. Fresh(next.unparsed)'
    BY <1>1, <1>2, <2>3 DEF Fresh
  <2>5. TellsNews'
    BY <1>2 DEF TellsNews
  <2> QED
    BY <1>2, <2>2, <2>4, <2>5 DEF NoRepeats
<1>7. Form(Believed)' /\ (torn' => faults' # 0)
  BY <1>1 DEF ToldInv, Believed
<1> QED
  BY <1>5, <1>6, <1>7 DEF ToldInv

(* At the end of a round, nothing is owed of the version read.             *)
LEMMA OwedAtEnd ==
  ASSUME Inv, ToldInv, Quiet, pc = "save", next.version # NoVersion
  PROVE  Owed(Believed, next.version.accounts, {})
<1>1. todo = << >> /\ InRound /\ Elements(todo) = {}
  BY Single DEF Inv, Queued, InRound
<1>2. CASE next.unparsed # NoVersion
  BY <1>1, <1>2 DEF ToldInv, Debts, Refusing
<1>3. CASE next.unparsed = NoVersion /\ known.version # NoVersion
  BY <1>1, <1>3 DEF ToldInv, Debts, Itemising
<1>4. CASE next.unparsed = NoVersion /\ known.version = NoVersion
  <2>1. /\ next.version \in Known
        /\ todo = Baseline(next.version.accounts) \/ OwedBase(Believed, next.version.accounts, todo)
    BY <1>1, <1>4 DEF ToldInv, Debts, Itemising
  <2>2. todo # Baseline(next.version.accounts)
    <3>1. IsBaseline(Baseline(next.version.accounts), next.version.accounts)
      BY <2>1, BaselineWhole
    <3>2. Len(Baseline(next.version.accounts)) # 0 /\ Len(todo) = 0
      BY <1>1, <3>1 DEF IsBaseline
    <3> QED
      BY <3>2
  <2> QED
    BY <1>1, <2>1, <2>2, BaseDone
<1> QED
  BY <1>2, <1>3, <1>4

LEMMA SaveTells ==
  ASSUME Inv, ToldInv, Save
  PROVE  ToldInv'
<1>1. /\ pc = "save" /\ pc' = "poll" /\ known' = next /\ itemised' = Itemised /\ ~torn'
      /\ UNCHANGED <<file, faults, trail>>
  BY DEF Save, Environment
<1>2. ~InRound'
  BY <1>1 DEF InRound
<1>3. Believed' = Believed /\ Quiet' = Quiet
  BY <1>1 DEF Believed, Quiet
<1>4. Debts'
  <2>1. Quiet' => Between'
    BY <1>1, <1>3, OwedAtEnd DEF Between
  <2> QED
    BY <1>2, <2>1 DEF Debts, Itemising, Refusing
<1>5. NoRepeats'
  <2> SUFFICES ASSUME faults' = 0 PROVE NoRepeats'
    BY DEF NoRepeats
  <2>1. itemised \subseteq itemised'
    BY <1>1 DEF Itemised
  <2>2. NothingToldTwice'
    BY <1>1, <2>1, TwiceKept DEF ToldInv, NoRepeats
  <2>3. LastTold(known.unparsed)'
    <3>1. CASE next.unparsed = NoVersion
      <4>1. Len(trail) \in itemised'
        BY <1>1, <3>1 DEF Itemised
      <4> QED
        BY <1>1, <4>1 DEF LastTold
    <3>2. CASE next.unparsed # NoVersion
      <4>1. trail[Len(trail)] = Unparsed(next.unparsed)
        BY <1>1, <3>2 DEF ToldInv, NoRepeats
      <4> QED
        BY <1>1, <4>1 DEF LastTold
    <3> QED
      BY <3>1, <3>2
  <2>4. TellsNews'
    BY <1>2 DEF TellsNews
  <2> QED
    BY <1>1, <2>2, <2>3, <2>4 DEF NoRepeats
<1>6. Form(Believed)' /\ (torn' => faults' # 0)
  BY <1>1 DEF ToldInv, Believed
<1> QED
  BY <1>4, <1>5, <1>6 DEF ToldInv

LEMMA CrashTells ==
  ASSUME Inv, ToldInv, Crash
  PROVE  ToldInv'
<1>1. /\ InRound /\ pc' = "down" /\ torn' /\ faults' = faults + 1
      /\ QuietCrash => file \in {next.version, next.unparsed}
      /\ UNCHANGED <<file, known, trail, itemised>>
  BY DEF Crash, Down, InRound
<1>2. faults' # 0 /\ ~InRound'
  BY <1>1, WatchAssumption DEF Inv, Counts, InRound
<1>3. Believed' = Believed
  BY <1>1 DEF Believed
<1>4. Debts'
  <2> SUFFICES ASSUME Quiet' PROVE Between'
    BY <1>2 DEF Debts, Itemising, Refusing
  <2>1. QuietCrash /\ Quiet /\ file \in {next.version, next.unparsed}
    BY <1>1, <1>2 DEF Quiet
  <2>2. Itemising /\ Refusing
    BY <2>1 DEF ToldInv, Debts
  <2> SUFFICES ASSUME known.version # NoVersion
               PROVE  IF file \in Known
                        THEN Owed(Believed, file.accounts, DiffEvents(known.version.accounts, file.accounts))
                        ELSE Owed(Believed, known.version.accounts, {})
    BY <1>1, <1>3 DEF Between
  <2>3. CASE next.unparsed = NoVersion
    <3>1. /\ next.version \in Known /\ Owed(Believed, next.version.accounts, Elements(todo))
          /\ Elements(todo) \subseteq DiffEvents(known.version.accounts, next.version.accounts)
      BY <1>1, <2>2, <2>3 DEF Itemising
    <3>2. file = next.version
      <4>1. file.kind \in {"missing", "accounts", "refused", "raises"}
        BY WatchAssumption DEF Inv, Shape, Missing
      <4>2. NoVersion.kind = "none"
        BY DEF NoVersion
      <4>3. file # NoVersion
        BY <4>1, <4>2
      <4> QED
        BY <2>1, <2>3, <4>3
    <3>3. Owed(Believed, file.accounts, DiffEvents(known.version.accounts, file.accounts))
      BY <3>1, <3>2, OwedMore
    <3> QED
      BY <3>1, <3>2, <3>3
  <2>4. CASE next.unparsed # NoVersion
    <3>1. next.version = known.version /\ Owed(Believed, known.version.accounts, {})
      BY <1>1, <2>2, <2>4 DEF Refusing
    <3>2. file \in Known => Owed(Believed, file.accounts, DiffEvents(known.version.accounts, file.accounts))
      BY <3>1, DiffOwes
    <3> QED
      BY <3>1, <3>2
  <2> QED
    BY <2>3, <2>4
<1>5. NoRepeats'
  BY <1>2 DEF NoRepeats
<1>6. Form(Believed)' /\ (torn' => faults' # 0)
  BY <1>2, <1>3 DEF ToldInv
<1> QED
  BY <1>4, <1>5, <1>6 DEF ToldInv

(* One more event that tells something, or follows something else.         *)
LEMMA TwiceGrows ==
  ASSUME NothingToldTwice, IsSequence(trail), NEW e, trail' = Append(trail, e),
         itemised' = itemised, faults' = faults,
         e.operation = "account.unparsed" =>
           trail = << >> \/ trail[Len(trail)] # e \/ Len(trail) \in itemised,
         e.operation \in Telling => Believing(Belief(trail), e) # Belief(trail)
  PROVE  NothingToldTwice'
<1> DEFINE n == Len(trail)
           t == trail'
<1>1. /\ n \in Nat /\ Len(t) = n + 1 /\ t[n + 1] = e
      /\ SubSeq(t, 1, n + 1) = t /\ SubSeq(t, 1, n) = trail
      /\ \A k \in 1 .. n : t[k] = trail[k] /\ SubSeq(t, 1, k) = SubSeq(trail, 1, k)
  <2>1. Extended(trail, e, t)
    BY Lengthened
  <2> QED
    BY <2>1 DEF Extended
<1>2. Belief(t) = Believing(Belief(trail), e)
  BY BeliefGrows
<1>3. trail # << >> \/ n = 0
  OBVIOUS
<1> SUFFICES ASSUME faults = 0, NEW k \in 2 .. Len(t)
             PROVE  /\ t[k].operation = "account.unparsed" => t[k] # t[k - 1] \/ k - 1 \in itemised
                    /\ t[k].operation \in Telling => Belief(SubSeq(t, 1, k)) # Belief(SubSeq(t, 1, k - 1))
  BY DEF NothingToldTwice, Telling
<1> HIDE DEF t, n
<1>4. CASE k <= n
  <2>1. k \in 2 .. n /\ k \in 1 .. n /\ k - 1 \in 1 .. n
    BY <1>1, <1>4
  <2>2. /\ trail[k].operation = "account.unparsed" => trail[k] # trail[k - 1] \/ k - 1 \in itemised
        /\ trail[k].operation \in Telling => Belief(SubSeq(trail, 1, k)) # Belief(SubSeq(trail, 1, k - 1))
    BY <2>1 DEF NothingToldTwice, Telling, n
  <2> QED
    BY <1>1, <2>1, <2>2
<1>5. CASE ~(k <= n)
  <2>1. k = n + 1 /\ k - 1 = n /\ n \in 1 .. n /\ n # 0
    BY <1>1, <1>5
  <2>2. t[k] = e /\ t[k - 1] = trail[n] /\ trail # << >>
    BY <1>1, <2>1 DEF n
  <2>3. SubSeq(t, 1, k) = t /\ SubSeq(t, 1, k - 1) = trail
    BY <1>1, <2>1
  <2> QED
    BY <1>2, <2>1, <2>2, <2>3 DEF n
<1> QED
  BY <1>4, <1>5

LEMMA ListedNames ==
  ASSUME NEW A, NEW E, IsBaseline(E, A)
  PROVE  E # << >> /\ Head(E).operation = "account.baseline"
<1>1. E # << >> /\ IsSequence(E)
  BY DEF IsBaseline
<1>2. Taking(E, Tail(E))
  BY <1>1, TakenWhole
<1> QED
  BY <1>1, <1>2 DEF Taking, IsBaseline

LEMMA FittingIsNotTelling ==
  ASSUME NEW A, NEW e, Fits(e, A)
  PROVE  e.operation # "account.unparsed" /\ e.operation \notin Telling
  BY DEF Fits, FitsMember, FitsDisabled, IsIds, IsMember, IsDisabled, Telling

LEMMA EmitTells ==
  ASSUME Inv, ToldInv, EmitChange
  PROVE  ToldInv'
<1> DEFINE e == Head(todo)
<1>1. /\ pc = "emit" /\ todo # << >> /\ IsSequence(todo) /\ IsSequence(trail)
      /\ trail' = Append(trail, e) /\ todo' = Tail(todo) /\ InRound
      /\ pc' = IF todo' = << >> THEN "save" ELSE "emit"
      /\ UNCHANGED <<file, itemised, faults, known, next, torn>>
  BY DEF EmitChange, Environment, Inv, Queued, InRound
<1>2. Taking(todo, todo')
  BY <1>1, TakenWhole
<1>3. Elements(todo) = {e} \cup Elements(todo') /\ IsSequence(todo')
  BY <1>2 DEF Taking
<1>4. Believed' = Believing(Believed, e) /\ Form(Believed)
  BY <1>1, BeliefGrows DEF Believed, ToldInv
<1>5. Form(Believed)'
  <2>1. Form(Believing(Believed, e))
    BY <1>4, FormKept
  <2> QED
    BY <1>4, <2>1
<1>6. InRound' /\ pc' \notin {"poll", "down"} /\ Quiet' = Quiet
  BY <1>1 DEF InRound, Quiet
<1> HIDE DEF e
<1>7. Extended(trail, e, trail')
  BY <1>1, Lengthened
<1>8. torn' => faults' # 0
  BY <1>1 DEF ToldInv
<1>9. CASE ~Quiet
  <2>1. faults' # 0 /\ ~Quiet'
    BY <1>1, <1>6, <1>9 DEF Quiet
  <2> QED
    BY <1>5, <1>8, <2>1 DEF ToldInv, Debts, NoRepeats
<1>10. CASE Quiet
  <2>1. Itemising /\ Refusing
    BY <1>10 DEF ToldInv, Debts
  <2>2. Between'
    BY <1>6 DEF Between
  <2>3. CASE next.unparsed # NoVersion
    <3>1. e = Unparsed(next.unparsed) /\ todo' = << >> /\ next.version = known.version
      <4>1. todo = <<Unparsed(next.unparsed)>> /\ next.version = known.version
        BY <1>1, <2>1, <2>3 DEF Refusing
      <4>2. \A x : Head(<< x >>) = x /\ Tail(<< x >>) = << >>
        OBVIOUS
      <4> QED
        BY <1>1, <4>1, <4>2 DEF e
    <3>2. e.operation = "account.unparsed"
      BY <3>1 DEF Unparsed
    <3>3. Believed' = Believed
      BY <1>4, <3>2, NoEffect
    <3>4. Refusing'
      BY <1>1, <2>1, <2>3, <3>1, <3>3 DEF Refusing
    <3>5. Itemising'
      BY <1>1, <2>3 DEF Itemising
    <3>6. NoRepeats'
      <4> SUFFICES ASSUME faults' = 0 PROVE NoRepeats'
        BY DEF NoRepeats
      <4>1. NothingToldTwice /\ Fresh(next.unparsed)
        BY <1>1, <2>3 DEF ToldInv, NoRepeats
      <4>2. NothingToldTwice'
        <5>1. trail = << >> \/ trail[Len(trail)] # e \/ Len(trail) \in itemised
          BY <3>1, <4>1 DEF Fresh
        <5>2. e.operation \notin Telling
          BY <3>2 DEF Telling
        <5> QED
          BY <1>1, <4>1, <5>1, <5>2, TwiceGrows
      <4>3. TellsNews'
        BY <1>1, <2>3 DEF TellsNews
      <4>4. pc' = "save" /\ trail' # << >> /\ trail'[Len(trail')] = Unparsed(next'.unparsed)
        <5>1. Len(trail') # 0 /\ trail'[Len(trail')] = e
          BY <1>7 DEF Extended
        <5> QED
          BY <1>1, <3>1, <5>1
      <4> QED
        BY <4>2, <4>3, <4>4 DEF NoRepeats
    <3> QED
      BY <1>5, <1>8, <2>2, <3>4, <3>5, <3>6 DEF ToldInv, Debts
  <2>4. CASE next.unparsed = NoVersion /\ known.version = NoVersion
    <3> DEFINE A == next.version.accounts
    <3>1. /\ next.version \in Known
          /\ todo = Baseline(A) \/ OwedBase(Believed, A, todo)
      BY <1>1, <2>1, <2>4 DEF Itemising
    <3>2. /\ OwedBase(Believed', A, todo')
          /\ e.operation # "account.unparsed" /\ e.operation \notin Telling
      <4>1. CASE todo = Baseline(A)
        <5>1. IsBaseline(todo, A)
          BY <3>1, <4>1, BaselineWhole
        <5> HIDE DEF A
        <5>2. OwedBase(Believing(Believed, e), A, Tail(todo))
          BY <5>1, BaseFirst DEF e
        <5>3. e.operation = "account.baseline"
          BY <5>1, ListedNames DEF e
        <5> QED
          BY <1>1, <1>4, <5>2, <5>3 DEF Telling
      <4>2. CASE OwedBase(Believed, A, todo)
        <5> HIDE DEF A
        <5>1. OwedBase(Believing(Believed, e), A, Tail(todo))
          BY <1>1, <1>4, <4>2, BaseStep DEF e
        <5>2. Fits(e, A)
          BY <1>3, <4>2 DEF OwedBase
        <5> QED
          BY <1>1, <1>4, <5>1, <5>2, FittingIsNotTelling
      <4> QED
        BY <3>1, <4>1, <4>2
    <3>3. Itemising' /\ Refusing'
      <4>1. OwedBase(Believed', next'.version.accounts, todo')
        BY <1>1, <3>2
      <4> QED
        BY <1>1, <2>4, <3>1, <4>1 DEF Itemising, Refusing, Known
    <3>4. NoRepeats'
      <4> SUFFICES ASSUME faults' = 0 PROVE NoRepeats'
        BY DEF NoRepeats
      <4>1. NothingToldTwice'
        BY <1>1, <3>2, TwiceGrows DEF ToldInv, NoRepeats
      <4>2. TellsNews'
        BY <1>1, <2>4 DEF TellsNews
      <4> QED
        BY <1>1, <1>6, <2>4, <4>1, <4>2 DEF NoRepeats
    <3> QED
      BY <1>5, <1>8, <2>2, <3>3, <3>4 DEF ToldInv, Debts
  <2>5. CASE next.unparsed = NoVersion /\ known.version # NoVersion
    <3> DEFINE before == known.version.accounts
               after == next.version.accounts
    <3>1. /\ next.version \in Known /\ known.version \in Known
          /\ Owed(Believed, after, Elements(todo)) /\ Elements(todo) \subseteq DiffEvents(before, after)
      <4>1. known.version \in Known
        BY <2>5 DEF Inv, Shape, States
      <4> QED
        BY <1>1, <2>1, <2>5, <4>1 DEF Itemising
    <3>2. e \in DiffEvents(before, after) /\ Elements(todo') \subseteq DiffEvents(before, after)
      BY <1>3, <3>1
    <3>3. Owed(Believed', after, Elements(todo'))
      <4>1. Elements(todo) \subseteq {e} \cup Elements(todo')
        BY <1>3
      <4>2. Owed(Believing(Believed, e), after, Elements(todo'))
        BY <1>4, <3>1, <3>2, <4>1, OwedStep
      <4> QED
        BY <1>4, <4>2
    <3>4. Itemising' /\ Refusing'
      <4> HIDE DEF before, after
      <4>1. known'.version.accounts = before /\ next'.version.accounts = after
        BY <1>1 DEF before, after
      <4> QED
        BY <1>1, <2>5, <3>1, <3>2, <3>3, <4>1 DEF Itemising, Refusing, Known
    <3>5. NoRepeats'
      <4> SUFFICES ASSUME faults' = 0 PROVE NoRepeats'
        BY DEF NoRepeats
      <4>1. NothingToldTwice /\ Distinct(todo) /\ \A f \in Elements(todo) : News(Believed, f)
        BY <1>1, <2>5 DEF ToldInv, NoRepeats, TellsNews
      <4>2. e.operation \in Telling => Believing(Believed, e) # Believed
        BY <1>3, <1>4, <3>1, <3>2, <4>1, NewsTold
      <4>3. e.operation # "account.unparsed"
        <5>1. PICK n : e \in DiffFor(n, before, after)
          BY <3>2 DEF DiffEvents
        <5> QED
          BY <5>1, DiffForNames
      <4>4. NothingToldTwice'
        BY <1>1, <4>1, <4>2, <4>3, TwiceGrows DEF Believed
      <4>5. Distinct(todo') /\ e \notin Elements(todo')
        <5>1. \A k \in 1 .. Len(todo') : /\ k \in Int /\ k + 1 \in 1 .. Len(todo) /\ k + 1 # 1
                                         /\ todo'[k] = todo[k + 1]
          BY <1>2 DEF Taking
        <5>2. 1 \in 1 .. Len(todo) /\ e = todo[1]
          BY <1>2 DEF Taking, e
        <5>3. Distinct(todo')
          <6> SUFFICES ASSUME NEW i \in 1 .. Len(todo'), NEW k \in 1 .. Len(todo'), todo'[i] = todo'[k]
                       PROVE  i = k
            BY DEF Distinct
          <6>1. i + 1 = k + 1
            BY <4>1, <5>1 DEF Distinct
          <6> QED
            BY <5>1, <6>1
        <5>4. e \notin Elements(todo')
          BY <4>1, <5>1, <5>2 DEF Distinct, Elements
        <5> QED
          BY <5>3, <5>4
      <4>6. ASSUME NEW f \in Elements(todo') PROVE News(Believed', f)
        <5>1. f # e /\ News(Believed, f) /\ f \in DiffEvents(before, after)
          BY <1>3, <3>2, <4>1, <4>5
        <5>2. News(Believing(Believed, e), f)
          BY <1>4, <3>1, <3>2, <5>1, NewsStays
        <5> QED
          BY <1>4, <5>2
      <4>7. TellsNews'
        BY <4>5, <4>6 DEF TellsNews
      <4> QED
        BY <1>1, <1>6, <2>5, <4>4, <4>7 DEF NoRepeats
    <3> QED
      BY <1>5, <1>8, <2>2, <3>4, <3>5 DEF ToldInv, Debts
  <2> QED
    BY <2>3, <2>4, <2>5
<1> QED
  BY <1>9, <1>10

LEMMA InitTold == Init => ToldInv
<1> SUFFICES ASSUME Init PROVE ToldInv
  OBVIOUS
<1>1. /\ pc = "down" /\ known = UsersState /\ trail = << >> /\ torn = FALSE
  BY DEF Init
<1>2. known.version = NoVersion /\ ~InRound
  BY <1>1 DEF UsersState, InRound
<1>3. Form(Believed)
  <2>1. Believed = NoAccounts
    BY <1>1, BeliefGrows DEF Believed
  <2>2. Form(<< >>)
    BY DEF Form
  <2> QED
    BY <2>1, <2>2 DEF NoAccounts
<1>4. Debts
  BY <1>2 DEF Debts, Between, Itemising, Refusing
<1>5. NothingToldTwice
  BY <1>1 DEF NothingToldTwice
<1>6. LastTold(known.unparsed)
  BY <1>1 DEF LastTold
<1>7. NoRepeats
  BY <1>1, <1>2, <1>5, <1>6 DEF NoRepeats, TellsNews
<1> QED
  BY <1>1, <1>3, <1>4, <1>7 DEF ToldInv

LEMMA NextTold == Inv /\ ToldInv /\ [Next]_vars => ToldInv'
<1> SUFFICES ASSUME Inv, ToldInv, [Next]_vars PROVE ToldInv'
  OBVIOUS
<1>1. CASE UNCHANGED vars
  <2>1. CASE InRound
    BY <1>1, <2>1, RoundKeeps DEF vars
  <2>2. CASE ~InRound
    BY <1>1, <2>2, IdleSteps
  <2> QED
    BY <2>1, <2>2
<1>2. CASE Edit
  <2>1. CASE InRound
    BY <1>2, <2>1, RoundKeeps DEF Edit
  <2>2. CASE ~InRound
    BY <1>2, <2>2, IdleSteps
  <2> QED
    BY <2>1, <2>2
<1>3. CASE ReadRefused
  <2>1. CASE pc' = pc
    BY <1>3, <2>1, IdleSteps
  <2>2. CASE pc' # pc
    BY <1>3, <2>2, ReadRefusedTells
  <2> QED
    BY <2>1, <2>2
<1>4. CASE StartUp \/ ReadMissing \/ ReadSame \/ ReadRaises \/ Stopped
  BY <1>4, IdleSteps
<1> QED
  BY <1>1, <1>2, <1>3, <1>4, ReadChangedTells, EmitTells, SaveTells, CrashTells DEF Next, Poll

LEMMA ToldHolds == Spec => []ToldInv
<1>1. Inv /\ ToldInv /\ [Next]_vars => (Inv /\ ToldInv)'
  BY NextInv, NextTold
<1>2. Init => Inv /\ ToldInv
  BY InitInv, InitTold
<1> QED
  BY <1>1, <1>2, PTL DEF Spec

(* Between rounds the trail alone tells which accounts there are, with     *)
(* which groups, and which are disabled, over any versions, edits between  *)
(* any two steps, restarts, and rounds cut off and done again, if a round  *)
(* is only cut off while the file is as it was read (poll, diff_accounts,  *)
(* _baseline, save_users_state).                                           *)
THEOREM WatchTrailTellsAccounts == QuietCrash => (Spec => []TrailTellsAccounts)
<1> SUFFICES ASSUME QuietCrash
             PROVE  Spec => []TrailTellsAccounts
  OBVIOUS
<1>1. Inv /\ ToldInv => TrailTellsAccounts
  <2> SUFFICES ASSUME Inv, ToldInv, pc \in {"poll", "down"}, ~torn, known.version # NoVersion
               PROVE  Belief(trail) = View(known.version.accounts)
    BY DEF TrailTellsAccounts
  <2>1. Owed(Believed, known.version.accounts, {})
    BY DEF ToldInv, Debts, Quiet, Between
  <2> QED
    BY <2>1, OwedNothing DEF ToldInv, Believed
<1> QED
  BY <1>1, InvHolds, ToldHolds, PTL

(* As long as no round is cut off, no restart and no sequence of versions  *)
(* records anything twice (diff_accounts, _unreadable).                    *)
THEOREM WatchNothingToldTwice == Spec => []NothingToldTwice
<1>1. ToldInv => NothingToldTwice
  <2>1. faults # 0 => NothingToldTwice
    BY DEF NothingToldTwice
  <2> QED
    BY <2>1 DEF ToldInv, NoRepeats
<1> QED
  BY <1>1, ToldHolds, PTL

=============================================================================
