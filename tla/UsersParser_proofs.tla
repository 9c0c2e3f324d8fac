------------------------- MODULE UsersParser_proofs -------------------------
(***************************************************************************)
(* How the parser of users.yml reads what a line says, on texts of every   *)
(* length over any characters: a quote ends where YAML closes it, a one-   *)
(* line sequence is read item by item, and what is written between quotes  *)
(* is read back (_quote_end, _strip_comment, _flow_end, _scalar,           *)
(* _split_key, _lines).                                                    *)
(*                                                                         *)
(* Each scan is a function on the positions of its text, and its value at  *)
(* a position is computed from the values after it. So a scan exists       *)
(* (Recursion), and what it finds is proved from the end of the text back  *)
(* to its beginning (Backwards).                                           *)
(*                                                                         *)
(* How it puts lines together, in documents of any number of lines: what   *)
(* is read of a document is the tree that its indentation draws, and       *)
(* nothing if it draws none (_block, parse_yaml).                          *)
(***************************************************************************)
EXTENDS MCUsersParser, FiniteSetTheorems, WellFoundedInduction, TLAPS

LEMMA NatLeast ==
  ASSUME NEW T \in SUBSET Nat, NEW n \in T
  PROVE  \E m \in T : \A k \in T : m <= k
<1> DEFINE R == OpToRel(<, Nat)
<1>1. IsWellFoundedOn(R, Nat)
  BY NatLessThanWellFounded
<1>2. \A x, y \in Nat : y < x => <<y, x>> \in R
  BY DEF OpToRel
<1> HIDE DEF R
<1>3. PICK m \in T : \A y \in T : <<y, m>> \notin R
  BY <1>1, WFMin
<1>4. ASSUME NEW k \in T PROVE m <= k
  <2>1. m \in Nat /\ k \in Nat /\ ~(k < m)
    BY <1>2, <1>3
  <2> QED
    BY ONLY <2>1
<1> QED
  BY <1>4

(* From the end back to a: what holds of a number if it holds of all after *)
(* it, holds of all of them.                                               *)
LEMMA Backwards ==
  ASSUME NEW a \in Nat, NEW n \in Nat, NEW T,
         \A i \in a .. n : (\A k \in i + 1 .. n : k \in T) => i \in T
  PROVE  \A i \in a .. n : i \in T
<1> DEFINE Bad == {m \in Nat : m \in 0 .. n - a /\ n - m \notin T}
<1> SUFFICES ASSUME NEW i \in a .. n, i \notin T PROVE FALSE
  OBVIOUS
<1>1. n - i \in Bad /\ Bad \in SUBSET Nat
  OBVIOUS
<1>2. PICK m \in Bad : \A k \in Bad : m <= k
  <2> HIDE DEF Bad
  <2> QED
    BY <1>1, NatLeast
<1>3. m \in Nat /\ m \in 0 .. n - a /\ n - m \notin T
  OBVIOUS
<1>4. n - m \in a .. n
  BY <1>3
<1>5. ASSUME NEW k \in n - m + 1 .. n PROVE k \in T
  <2>1. n - k \in 0 .. n - a /\ n - (n - k) = k /\ ~(m <= n - k) /\ n - k \in Nat
    BY <1>3
  <2>2. n - k \notin Bad
    <3> HIDE DEF Bad
    <3> QED
      BY <1>2, <2>1
  <2> QED
    BY <2>1, <2>2
<1> HIDE DEF Bad
<1> QED
  BY <1>3, <1>4, <1>5

LEMMA Forwards ==
  ASSUME NEW a \in Nat, NEW n \in Nat, NEW T,
         \A i \in a .. n : (\A k \in a .. i - 1 : k \in T) => i \in T
  PROVE  \A i \in a .. n : i \in T
<1> DEFINE Bad == {m \in Nat : m \in a .. n /\ m \notin T}
<1> SUFFICES ASSUME NEW i \in a .. n, i \notin T PROVE FALSE
  OBVIOUS
<1>1. i \in Bad /\ Bad \in SUBSET Nat
  OBVIOUS
<1>2. PICK m \in Bad : \A k \in Bad : m <= k
  <2> HIDE DEF Bad
  <2> QED
    BY <1>1, NatLeast
<1>3. ASSUME NEW k \in a .. m - 1 PROVE k \in T
  <2>1. k \in a .. n /\ k \in Nat /\ ~(m <= k)
    OBVIOUS
  <2>2. k \notin Bad
    <3> HIDE DEF Bad
    <3> QED
      BY <1>2, <2>1
  <2> QED
    BY <2>1, <2>2
<1>4. m \in a .. n /\ m \notin T
  OBVIOUS
<1> QED
  BY <1>3, <1>4

(* A function from a to n whose value at i is computed from the values     *)
(* after i.                                                                *)
IsStepwise(a, n, V, compute) ==
  /\ V # {} /\ compute \in [a .. n -> [[a .. n -> V] -> V]]
  /\ \A i \in a .. n : \A g, h \in [a .. n -> V] :
       (\A k \in i + 1 .. n : g[k] = h[k]) => compute[i][g] = compute[i][h]

Computed(a, n, V, compute) ==
  \E h \in [a .. n -> V] : \A i \in a .. n : h[i] = compute[i][h]

LEMMA Recursion ==
  ASSUME NEW a \in Nat, NEW n \in Nat, NEW V, NEW compute, IsStepwise(a, n, V, compute)
  PROVE  Computed(a, n, V, compute)
<1> USE DEF IsStepwise
<1> DEFINE F == [a .. n -> V]
           Right(h, i) == h[i] = compute[i][h]
           T == {j \in a .. n + 1 : \E h \in F : \A i \in j .. n : Right(h, i)}
<1>1. F # {}
  <2>1. PICK v \in V : TRUE
    OBVIOUS
  <2>2. [i \in a .. n |-> v] \in F
    OBVIOUS
  <2> QED
    BY <2>2
<1>2. ASSUME NEW j \in a .. n + 1, \A k \in j + 1 .. n + 1 : k \in T
      PROVE  j \in T
  <2>1. CASE j = n + 1
    <3>1. \A h \in F : \A i \in j .. n : Right(h, i)
      BY <2>1
    <3> HIDE DEF F, Right
    <3> QED
      BY <1>1, <3>1
  <2>2. CASE j # n + 1
    <3>1. j \in a .. n /\ j + 1 \in j + 1 .. n + 1
      BY <2>2
    <3>2. PICK h \in F : \A i \in j + 1 .. n : Right(h, i)
      <4>1. j + 1 \in T
        <5> HIDE DEF T
        <5> QED
          BY <1>2, <3>1
      <4> HIDE DEF F, Right
      <4> QED
        BY <4>1
    <3> DEFINE g == [h EXCEPT ![j] = compute[j][h]]
    <3>3. compute[j][h] \in V
      BY <3>1
    <3>4. g \in F /\ g[j] = compute[j][h] /\ \A i \in j + 1 .. n : g[i] = h[i]
      BY <3>1, <3>3
    <3> HIDE DEF g
    <3>5. ASSUME NEW i \in j .. n PROVE Right(g, i)
      <4>1. i \in a .. n /\ \A k \in i + 1 .. n : k \in j + 1 .. n
        BY <3>1
      <4>2. compute[i][g] = compute[i][h]
        <5>1. \A k \in i + 1 .. n : g[k] = h[k]
          BY <3>4, <4>1
        <5> QED
          BY <3>4, <4>1, <5>1
      <4>3. CASE i = j
        BY <3>4, <4>2, <4>3
      <4>4. CASE i # j
        <5>1. i \in j + 1 .. n
          BY <4>4
        <5>2. Right(h, i)
          <6> HIDE DEF Right
          <6> QED
            BY <3>2, <5>1
        <5> QED
          BY <3>4, <4>2, <5>1, <5>2
      <4> QED
        BY <4>3, <4>4
    <3> HIDE DEF F, Right
    <3> QED
      BY <3>4, <3>5
  <2> QED
    BY <2>1, <2>2
<1>3. a \in T \/ a > n + 1
  <2> HIDE DEF T
  <2>1. n + 1 \in Nat
    OBVIOUS
  <2>2. \A i \in a .. n + 1 : (\A k \in i + 1 .. n + 1 : k \in T) => i \in T
    BY <1>2
  <2>3. \A i \in a .. n + 1 : i \in T
    BY ONLY <2>1, <2>2, Backwards, a \in Nat
  <2> QED
    BY <2>3
<1>4. PICK h \in F : \A i \in a .. n : Right(h, i)
  <2>1. CASE a > n + 1
    <3>1. \A h \in F : \A i \in a .. n : Right(h, i)
      BY <2>1
    <3> HIDE DEF F, Right
    <3> QED
      BY <1>1, <3>1
  <2>2. CASE a \in T
    <3> HIDE DEF F, Right
    <3> QED
      BY <2>2
  <2> QED
    BY <1>3, <2>1, <2>2
<1> QED
  BY <1>4 DEF Computed

(* The least and the greatest of some positions.                           *)
LEMMA MinIs ==
  ASSUME NEW T \in SUBSET Nat, T # {}
  PROVE  S!Min(T) \in T /\ \A k \in T : S!Min(T) <= k
<1>1. \E m \in T : \A k \in T : m <= k
  BY NatLeast
<1> QED
  BY <1>1 DEF S!Min

LEMMA MaxIs ==
  ASSUME NEW n \in Nat, NEW T \in SUBSET (0 .. n), T # {}
  PROVE  S!Max(T) \in T /\ \A k \in T : S!Max(T) >= k
<1> DEFINE U == {n - k : k \in T}
<1>1. U \in SUBSET Nat /\ U # {}
  <2>1. \A k \in T : k \in 0 .. n /\ n - k \in Nat
    OBVIOUS
  <2> QED
    BY <2>1
<1>2. PICK u \in U : \A v \in U : u <= v
  <2> HIDE DEF U
  <2> QED
    BY <1>1, NatLeast
<1>3. PICK m \in T : u = n - m
  OBVIOUS
<1>4. ASSUME NEW k \in T PROVE m >= k
  <2>1. n - m <= n - k
    BY <1>2, <1>3
  <2>2. m \in Nat /\ k \in Nat
    OBVIOUS
  <2> QED
    BY ONLY <2>1, <2>2, n \in Nat
<1> QED
  BY <1>3, <1>4 DEF S!Max

(* The text that is read holds nothing but characters.                     *)
IsText == text \in Seq(Chars)

LEMMA TextInvariant == Spec => []IsText
<1>1. Init => IsText
  BY DEF Init, IsText
<1>2. IsText /\ [Write \/ AddLine]_<<text, lines>> => IsText'
  <2> SUFFICES ASSUME IsText, [Write \/ AddLine]_<<text, lines>> PROVE IsText'
    OBVIOUS
  <2> USE DEF IsText
  <2>1. CASE Write
    BY <2>1 DEF Write
  <2>2. CASE AddLine
    BY <2>2 DEF AddLine
  <2>3. CASE UNCHANGED <<text, lines>>
    BY <2>3
  <2> QED
    BY <2>1, <2>2, <2>3
<1> QED
  BY <1>1, <1>2, PTL DEF Spec

-----------------------------------------------------------------------------
(* Where a quote is closed (_quote_end).                                   *)

Jump(t, q, i) ==
  \/ q = "\"" /\ t[i] = "\\"
  \/ q = "'" /\ t[i] = "'" /\ i < Len(t) /\ t[i + 1] = "'"

QuoteStep(t, q, h, i) ==
  IF i > Len(t) THEN 0 ELSE IF Jump(t, q, i) THEN h[i + 2] ELSE IF t[i] = q THEN i ELSE h[i + 1]

LEMMA QuoteScanExists ==
  ASSUME NEW t, Len(t) \in Nat, NEW q
  PROVE  \E h : h = [i \in 1 .. Len(t) + 2 |-> QuoteStep(t, q, h, i)]
<1> DEFINE n == Len(t) + 2
           F == [1 .. n -> Nat]
           Compute == [i \in 1 .. n |-> [h \in F |-> QuoteStep(t, q, h, i)]]
<1>1. n \in Nat /\ 1 \in Nat /\ Nat # {}
  OBVIOUS
<1>2. ASSUME NEW i \in 1 .. n, NEW h \in F
      PROVE  QuoteStep(t, q, h, i) \in Nat
  <2>1. i <= Len(t) => i + 1 \in 1 .. n /\ i + 2 \in 1 .. n
    OBVIOUS
  <2> QED
    BY <2>1 DEF QuoteStep
<1>3. ASSUME NEW i \in 1 .. n, NEW g \in F, NEW h \in F, \A k \in i + 1 .. n : g[k] = h[k]
      PROVE  QuoteStep(t, q, g, i) = QuoteStep(t, q, h, i)
  <2>1. i <= Len(t) => i + 1 \in i + 1 .. n /\ i + 2 \in i + 1 .. n
    OBVIOUS
  <2> QED
    BY <1>3, <2>1 DEF QuoteStep
<1> HIDE DEF n
<1>4. \A i \in 1 .. n : \A h \in F : Compute[i][h] = QuoteStep(t, q, h, i)
  OBVIOUS
<1>5. Compute \in [1 .. n -> [F -> Nat]]
  BY <1>2
<1> HIDE DEF Compute
<1>6. IsStepwise(1, n, Nat, Compute)
  <2>1. \A i \in 1 .. n : \A g, h \in F :
          (\A k \in i + 1 .. n : g[k] = h[k]) => Compute[i][g] = Compute[i][h]
    <3> HIDE DEF F
    <3> QED
      BY <1>3, <1>4
  <2> QED
    BY <1>1, <1>5, <2>1, Zenon DEF IsStepwise
<1>7. Computed(1, n, Nat, Compute)
  <2> HIDE DEF F
  <2> QED
    BY <1>1, <1>6, Recursion
<1>8. PICK h \in F : \A i \in 1 .. n : h[i] = Compute[i][h]
  BY <1>7 DEF Computed
<1>9. h = [i \in 1 .. n |-> QuoteStep(t, q, h, i)]
  <2>1. h = [i \in 1 .. n |-> h[i]]
    OBVIOUS
  <2>2. \A i \in 1 .. n : h[i] = QuoteStep(t, q, h, i)
    <3> HIDE DEF F
    <3> QED
      BY <1>4, <1>8
  <2> QED
    BY <2>1, <2>2, Zenon
<1> QED
  BY <1>9 DEF n

IsQuoteScan(t, q, h) == \A i \in 1 .. Len(t) + 2 : h[i] = QuoteStep(t, q, h, i)

LEMMA QuoteEndScans ==
  ASSUME NEW t, Len(t) \in Nat, NEW f
  PROVE  \E h : IsQuoteScan(t, t[f], h) /\ S!QuoteEnd(t, f) = h[f + 1]
<1> DEFINE h == CHOOSE h : h = [i \in 1 .. Len(t) + 2 |-> QuoteStep(t, t[f], h, i)]
<1>1. S!QuoteEnd(t, f) = h[f + 1]
  BY DEF S!QuoteEnd, QuoteStep, Jump
<1>2. h = [i \in 1 .. Len(t) + 2 |-> QuoteStep(t, t[f], h, i)]
  <2> HIDE DEF QuoteStep
  <2> QED
    BY QuoteScanExists
<1> HIDE DEF h
<1>3. IsQuoteScan(t, t[f], h)
  BY <1>2 DEF IsQuoteScan
<1> QED
  BY <1>1, <1>3

(* A closing quote comes after the opening one.                            *)
LEMMA QuoteEndAfter ==
  ASSUME NEW t, Len(t) \in Nat, NEW f \in 1 .. Len(t)
  PROVE  S!QuoteEnd(t, f) = 0 \/ S!QuoteEnd(t, f) \in f + 1 .. Len(t)
<1>1. PICK h : IsQuoteScan(t, t[f], h) /\ S!QuoteEnd(t, f) = h[f + 1]
  BY QuoteEndScans
<1> DEFINE n == Len(t) + 2
           T == {i \in 1 .. n : h[i] = 0 \/ h[i] \in i .. Len(t)}
<1>2. ASSUME NEW i \in 1 .. n, \A k \in i + 1 .. n : k \in T
      PROVE  i \in T
  <2>1. h[i] = QuoteStep(t, t[f], h, i)
    BY <1>1 DEF IsQuoteScan
  <2>2. CASE i > Len(t)
    BY <2>1, <2>2 DEF QuoteStep
  <2>3. CASE i <= Len(t)
    <3>1. i + 1 \in T /\ i + 2 \in T
      <4>1. i + 1 \in i + 1 .. n /\ i + 2 \in i + 1 .. n
        BY <2>3
      <4> HIDE DEF T, n
      <4> QED
        BY <1>2, <4>1
    <3> QED
      BY <2>1, <2>3, <3>1 DEF QuoteStep
  <2> QED
    BY <2>2, <2>3
<1>3. f + 1 \in T
  <2>1. n \in Nat /\ 1 \in Nat /\ f + 1 \in 1 .. n
    OBVIOUS
  <2> HIDE DEF T, n
  <2> QED
    BY <1>2, <2>1, Backwards
<1> QED
  BY <1>1, <1>3

-----------------------------------------------------------------------------
(* What a quote at the first position of a text is closed by, as the model *)
(* of YAML says it, for a scan that begins after position b.               *)

ClosesFrom(t, b, i) ==
  /\ t[i] = t[1]
  /\ IF t[1] = "'"
       THEN (i = Len(t) \/ t[i + 1] # "'") /\ (i - S!LastNot(t, b, i, "'")) % 2 = 1
       ELSE (i - 1 - S!LastNot(t, b, i, "\\")) % 2 = 0

EndsFrom(t, b) == {i \in b + 1 .. Len(t) : ClosesFrom(t, b, i)}

ClosingFrom(t, b) == IF EndsFrom(t, b) = {} THEN 0 ELSE S!Min(EndsFrom(t, b))

LEMMA ClosingIsFrom ==
  ASSUME NEW t
  PROVE  S!Closing(t, 1) = ClosingFrom(t, 1)
<1>1. \A i : S!Closes(t, 1, i) <=> ClosesFrom(t, 1, i)
  BY DEF S!Closes, ClosesFrom
<1>2. {i \in 1 + 1 .. Len(t) : S!Closes(t, 1, i)} = EndsFrom(t, 1)
  BY <1>1 DEF EndsFrom
<1> QED
  BY <1>2 DEF S!Closing, ClosingFrom

(* Where the run of a character begins that ends before i.                 *)
IsLastNot(t, b, i, c, m) ==
  /\ m \in b .. i - 1
  /\ m = b \/ t[m] # c
  /\ \A k \in m + 1 .. i - 1 : t[k] = c

LEMMA LastNotIs ==
  ASSUME NEW t, NEW b \in Nat, NEW i \in Nat, b < i, NEW c
  PROVE  /\ IsLastNot(t, b, i, c, S!LastNot(t, b, i, c))
         /\ \A m : IsLastNot(t, b, i, c, m) => m = S!LastNot(t, b, i, c)
<1> DEFINE T == {k \in b .. i - 1 : k = b \/ t[k] # c}
           last == S!LastNot(t, b, i, c)
<1>1. T \in SUBSET (0 .. i) /\ b \in T
  OBVIOUS
<1>2. last = S!Max(T)
  BY DEF S!LastNot
<1>3. last \in T /\ \A k \in T : last >= k
  <2> HIDE DEF T, last
  <2> QED
    BY <1>1, <1>2, MaxIs
<1> HIDE DEF last
<1>4. last \in Nat /\ last \in b .. i - 1
  BY <1>3
<1>5. ASSUME NEW k \in last + 1 .. i - 1 PROVE t[k] = c
  <2>1. k \in b .. i - 1 /\ ~(last >= k)
    BY <1>4
  <2>2. k \notin T
    BY <1>3, <2>1
  <2> QED
    BY <2>1, <2>2
<1>6. ASSUME NEW m, IsLastNot(t, b, i, c, m) PROVE m = last
  <2>1. m \in b .. i - 1 /\ m \in T /\ \A k \in m + 1 .. i - 1 : t[k] = c
    BY <1>6 DEF IsLastNot
  <2>2. last >= m
    BY <1>3, <2>1
  <2>3. ASSUME last > m PROVE FALSE
    <3>1. last \in m + 1 .. i - 1 /\ last # b
      BY <1>4, <2>1, <2>3
    <3> QED
      BY <1>3, <2>1, <3>1
  <2> QED
    BY <1>4, <2>1, <2>2, <2>3
<1>7. last = b \/ t[last] # c
  BY <1>3
<1> QED
  BY <1>4, <1>5, <1>6, <1>7 DEF IsLastNot, last

(* A scan that begins one later, past another character, or two later,     *)
(* past the character and one more, finds the same runs, or one shorter by *)
(* two.                                                                    *)
LEMMA LastNotPastOne ==
  ASSUME NEW t, NEW i \in Nat \ {0}, NEW j \in Nat, i < j, NEW c, t[i] # c
  PROVE  S!LastNot(t, i - 1, j, c) = S!LastNot(t, i, j, c)
<1> DEFINE m == S!LastNot(t, i, j, c)
<1>1. IsLastNot(t, i, j, c, m)
  BY LastNotIs
<1> HIDE DEF m
<1>2. IsLastNot(t, i - 1, j, c, m)
  BY <1>1 DEF IsLastNot
<1>3. i - 1 \in Nat /\ i - 1 < j
  OBVIOUS
<1> QED
  BY <1>2, <1>3, LastNotIs DEF m

LEMMA LastNotPastTwo ==
  ASSUME NEW t, NEW i \in Nat \ {0}, NEW j \in Nat, i + 1 < j, NEW c, t[i] = c
  PROVE  LET m == S!LastNot(t, i - 1, j, c)
             n == S!LastNot(t, i + 1, j, c)
         IN n \in i + 1 .. j - 1 /\ (m = n \/ m = n - 2)
<1> DEFINE n == S!LastNot(t, i + 1, j, c)
           m == S!LastNot(t, i - 1, j, c)
<1>1. IsLastNot(t, i + 1, j, c, n)
  BY LastNotIs
<1>2. \A l : IsLastNot(t, i - 1, j, c, l) => l = m
  <2>1. i - 1 \in Nat /\ i - 1 < j
    OBVIOUS
  <2> QED
    BY <2>1, LastNotIs
<1> HIDE DEF m, n
<1>3. CASE n # i + 1 \/ t[i + 1] # c
  <2>1. IsLastNot(t, i - 1, j, c, n)
    BY <1>1, <1>3 DEF IsLastNot
  <2> QED
    BY <1>1, <1>2, <2>1 DEF m, n, IsLastNot
<1>4. CASE n = i + 1 /\ t[i + 1] = c
  <2>1. \A k \in i .. j - 1 : t[k] = c
    <3> SUFFICES ASSUME NEW k \in i .. j - 1 PROVE t[k] = c
      OBVIOUS
    <3>1. k = i \/ k = i + 1 \/ k \in n + 1 .. j - 1
      BY <1>4
    <3> QED
      BY <1>1, <1>4, <3>1 DEF IsLastNot
  <2>2. IsLastNot(t, i - 1, j, c, i - 1)
    BY <2>1 DEF IsLastNot
  <2>3. m = i - 1
    BY <1>2, <2>2
  <2>4. i - 1 = n - 2 /\ n \in i + 1 .. j - 1
    BY <1>4
  <2> QED
    BY <2>3, <2>4 DEF m, n
<1> QED
  BY <1>3, <1>4

-----------------------------------------------------------------------------
(* The three ways on of the scan, and what they leave of the ends.         *)

LEMMA Parity ==
  /\ \A x \in Int : (x + 2) % 2 = x % 2
  /\ 0 % 2 = 0 /\ 1 % 2 = 1 /\ 2 % 2 = 0
  OBVIOUS

LEMMA PastTwo ==
  ASSUME NEW t, NEW i \in Nat \ {0}, NEW j \in Nat, i + 1 < j, Jump(t, t[1], i), t[1] \in S!Quotes
  PROVE  ClosesFrom(t, i - 1, j) <=> ClosesFrom(t, i + 1, j)
<1> DEFINE c == IF t[1] = "'" THEN "'" ELSE "\\"
           m == S!LastNot(t, i - 1, j, c)
           n == S!LastNot(t, i + 1, j, c)
<1>1. t[i] = c
  BY DEF Jump, S!Quotes
<1>2. n \in i + 1 .. j - 1 /\ (m = n \/ m = n - 2)
  BY <1>1, LastNotPastTwo
<1> HIDE DEF m, n
<1>3. (j - m) % 2 = (j - n) % 2 /\ (j - 1 - m) % 2 = (j - 1 - n) % 2
  <2>1. CASE m = n
    BY <2>1
  <2>2. CASE m = n - 2
    <3>1. j - n \in Int /\ j - 1 - n \in Int /\ j - m = (j - n) + 2 /\ j - 1 - m = (j - 1 - n) + 2
      BY <1>2, <2>2
    <3> QED
      BY <3>1, Parity
  <2> QED
    BY <1>2, <2>1, <2>2
<1>4. CASE t[1] = "'"
  <2>1. m = S!LastNot(t, i - 1, j, "'") /\ n = S!LastNot(t, i + 1, j, "'")
    BY <1>4 DEF m, n
  <2> QED
    BY <1>3, <1>4, <2>1 DEF ClosesFrom
<1>5. CASE t[1] # "'"
  <2>1. m = S!LastNot(t, i - 1, j, "\\") /\ n = S!LastNot(t, i + 1, j, "\\")
    BY <1>5 DEF m, n
  <2> QED
    BY <1>3, <1>5, <2>1 DEF ClosesFrom
<1> QED
  BY <1>4, <1>5

LEMMA JumpFrom ==
  ASSUME NEW t, Len(t) \in Nat, t[1] \in S!Quotes, NEW i \in 2 .. Len(t), Jump(t, t[1], i)
  PROVE  EndsFrom(t, i - 1) = EndsFrom(t, i + 1)
<1> DEFINE c == IF t[1] = "'" THEN "'" ELSE "\\"
<1>1. t[i] = c
  BY DEF Jump, S!Quotes
<1>2. ~ClosesFrom(t, i - 1, i)
  <2>1. CASE t[1] = "\"" /\ t[i] = "\\"
    <3>1. t[i] # t[1]
      BY <2>1, Zenon
    <3> QED
      BY <3>1 DEF ClosesFrom
  <2>2. CASE t[1] = "'" /\ t[i] = "'" /\ i < Len(t) /\ t[i + 1] = "'"
    <3>1. ~(i = Len(t) \/ t[i + 1] # "'")
      BY <2>2
    <3> QED
      BY <2>2, <3>1 DEF ClosesFrom
  <2> QED
    BY <2>1, <2>2 DEF Jump
<1>3. ~ClosesFrom(t, i - 1, i + 1)
  <2>1. IsLastNot(t, i - 1, i + 1, c, i - 1)
    BY <1>1 DEF IsLastNot
  <2>2. S!LastNot(t, i - 1, i + 1, c) = i - 1
    <3>1. i - 1 \in Nat /\ i + 1 \in Nat /\ i - 1 < i + 1
      OBVIOUS
    <3> QED
      BY <2>1, <3>1, LastNotIs
  <2>3. (i + 1) - (i - 1) = 2 /\ (i + 1) - 1 - (i - 1) = 1
    OBVIOUS
  <2> QED
    BY <2>2, <2>3, Parity DEF ClosesFrom
<1>4. ASSUME NEW j \in i + 2 .. Len(t)
      PROVE  ClosesFrom(t, i - 1, j) <=> ClosesFrom(t, i + 1, j)
  BY <1>4, PastTwo
<1>5. \A j \in (i - 1) + 1 .. Len(t) : j = i \/ j = i + 1 \/ j \in i + 2 .. Len(t)
  OBVIOUS
<1>6. (i + 1) + 1 .. Len(t) = i + 2 .. Len(t) /\ i + 2 .. Len(t) \subseteq (i - 1) + 1 .. Len(t)
  OBVIOUS
<1> QED
  BY <1>2, <1>3, <1>4, <1>5, <1>6 DEF EndsFrom

LEMMA StopFrom ==
  ASSUME NEW t, Len(t) \in Nat, t[1] \in S!Quotes, NEW i \in 2 .. Len(t), ~Jump(t, t[1], i), t[i] = t[1]
  PROVE  ClosingFrom(t, i - 1) = i
<1> DEFINE c == IF t[1] = "'" THEN "'" ELSE "\\"
<1>1. S!LastNot(t, i - 1, i, c) = i - 1
  <2>1. IsLastNot(t, i - 1, i, c, i - 1)
    BY DEF IsLastNot
  <2>2. i - 1 \in Nat /\ i \in Nat /\ i - 1 < i
    OBVIOUS
  <2> QED
    BY <2>1, <2>2, LastNotIs
<1>2. i - (i - 1) = 1 /\ i - 1 - (i - 1) = 0
  OBVIOUS
<1>3. t[1] = "'" => i = Len(t) \/ t[i + 1] # "'"
  BY DEF Jump
<1>4. ClosesFrom(t, i - 1, i)
  BY <1>1, <1>2, <1>3, Parity DEF ClosesFrom
<1>5. i \in EndsFrom(t, i - 1) /\ EndsFrom(t, i - 1) \in SUBSET Nat /\ \A k \in EndsFrom(t, i - 1) : i <= k
  BY <1>4 DEF EndsFrom
<1>6. S!Min(EndsFrom(t, i - 1)) \in EndsFrom(t, i - 1) /\ S!Min(EndsFrom(t, i - 1)) <= i
  BY <1>5, MinIs
<1>7. S!Min(EndsFrom(t, i - 1)) = i
  BY <1>5, <1>6
<1> QED
  BY <1>5, <1>7 DEF ClosingFrom

LEMMA GoFrom ==
  ASSUME NEW t, Len(t) \in Nat, t[1] \in S!Quotes, NEW i \in 2 .. Len(t), ~Jump(t, t[1], i), t[i] # t[1]
  PROVE  EndsFrom(t, i - 1) = EndsFrom(t, i)
<1> DEFINE c == IF t[1] = "'" THEN "'" ELSE "\\"
<1>1. t[i] # c
  BY DEF Jump, S!Quotes
<1>2. ASSUME NEW j \in i + 1 .. Len(t)
      PROVE  ClosesFrom(t, i - 1, j) <=> ClosesFrom(t, i, j)
  <2>1. S!LastNot(t, i - 1, j, c) = S!LastNot(t, i, j, c)
    BY <1>1, <1>2, LastNotPastOne
  <2> QED
    BY <2>1 DEF ClosesFrom
<1>3. ~ClosesFrom(t, i - 1, i)
  BY DEF ClosesFrom
<1>4. \A j \in (i - 1) + 1 .. Len(t) : j = i \/ j \in i + 1 .. Len(t)
  OBVIOUS
<1>5. i + 1 .. Len(t) \subseteq (i - 1) + 1 .. Len(t)
  OBVIOUS
<1> QED
  BY <1>2, <1>3, <1>4, <1>5 DEF EndsFrom

-----------------------------------------------------------------------------
(* The scan.                                                               *)

(* Past a jump, and past a character that is none, the scan looks for what *)
(* it looked for before; at the end of the text it has not found it.       *)
LEMMA ScanEnds ==
  ASSUME NEW t, Len(t) \in Nat, t[1] \in S!Quotes,
         NEW h, \A i \in 1 .. Len(t) + 2 : h[i] = QuoteStep(t, t[1], h, i)
  PROVE  \A i \in 2 .. Len(t) + 2 : h[i] = ClosingFrom(t, i - 1)
<1> DEFINE L == Len(t) + 2
           Right(i) == h[i] = ClosingFrom(t, i - 1)
<1>1. ASSUME NEW i \in 2 .. L, \A k \in i + 1 .. L : Right(k)
      PROVE  Right(i)
  <2>1. h[i] = QuoteStep(t, t[1], h, i)
    <3>1. i \in 1 .. Len(t) + 2
      OBVIOUS
    <3> HIDE DEF QuoteStep
    <3> QED
      BY <3>1
  <2>2. CASE i > Len(t)
    <3>1. EndsFrom(t, i - 1) = {}
      BY <2>2 DEF EndsFrom
    <3>2. QuoteStep(t, t[1], h, i) = 0
      BY <2>2 DEF QuoteStep
    <3> QED
      BY <2>1, <3>1, <3>2 DEF ClosingFrom
  <2>3. CASE ~(i > Len(t))
    <3>1. i \in 2 .. Len(t)
      BY <2>3
    <3>2. i + 1 \in i + 1 .. L /\ i + 2 \in i + 1 .. L /\ i + 1 - 1 = i /\ i + 2 - 1 = i + 1
      BY <3>1
    <3>3. h[i + 1] = ClosingFrom(t, i) /\ h[i + 2] = ClosingFrom(t, i + 1)
      <4>1. Right(i + 1) /\ Right(i + 2)
        <5> HIDE DEF Right, L
        <5> QED
          BY <1>1, <3>2
      <4> QED
        BY <3>2, <4>1
    <3>4. CASE Jump(t, t[1], i)
      <4>1. QuoteStep(t, t[1], h, i) = h[i + 2]
        BY <2>3, <3>4 DEF QuoteStep
      <4>2. EndsFrom(t, i - 1) = EndsFrom(t, i + 1)
        BY <3>1, <3>4, JumpFrom
      <4> QED
        BY <2>1, <3>3, <4>1, <4>2 DEF ClosingFrom
    <3>5. CASE ~Jump(t, t[1], i) /\ t[i] = t[1]
      <4>1. QuoteStep(t, t[1], h, i) = i
        BY <2>3, <3>5 DEF QuoteStep
      <4>2. ClosingFrom(t, i - 1) = i
        BY <3>1, <3>5, StopFrom
      <4> QED
        BY <2>1, <4>1, <4>2
    <3>6. CASE ~Jump(t, t[1], i) /\ t[i] # t[1]
      <4>1. QuoteStep(t, t[1], h, i) = h[i + 1]
        BY <2>3, <3>6 DEF QuoteStep
      <4>2. EndsFrom(t, i - 1) = EndsFrom(t, i)
        BY <3>1, <3>6, GoFrom
      <4> QED
        BY <2>1, <3>3, <4>1, <4>2 DEF ClosingFrom
    <3> QED
      BY <3>4, <3>5, <3>6
  <2> QED
    BY <2>2, <2>3
<1> DEFINE T == {i \in 2 .. L : Right(i)}
<1>2. \A i \in 2 .. L : i \in T
  <2>1. 2 \in Nat /\ L \in Nat
    OBVIOUS
  <2>2. \A i \in 2 .. L : (\A k \in i + 1 .. L : k \in T) => i \in T
    <3> HIDE DEF Right
    <3> QED
      BY <1>1
  <2> HIDE DEF T, L
  <2> QED
    BY <2>1, <2>2, Backwards
<1> QED
  BY <1>2

(* A text that starts with a quote, of any length.                         *)
LEMMA QuoteEndIsClosing ==
  ASSUME NEW t, Len(t) \in Nat, t[1] \in S!Quotes
  PROVE  S!QuoteEnd(t, 1) = S!Closing(t, 1)
<1>1. PICK h : IsQuoteScan(t, t[1], h) /\ S!QuoteEnd(t, 1) = h[1 + 1]
  BY QuoteEndScans
<1>2. \A i \in 2 .. Len(t) + 2 : h[i] = ClosingFrom(t, i - 1)
  BY <1>1, ScanEnds DEF IsQuoteScan
<1>3. 2 \in 2 .. Len(t) + 2 /\ 2 - 1 = 1 /\ 1 + 1 = 2
  OBVIOUS
<1> QED
  BY <1>1, <1>2, <1>3, ClosingIsFrom

(* The scan _quote_end stops at the quote that YAML takes for the closing  *)
(* one, or at none, whatever was written between the quotes and after      *)
(* them: for every set of characters, and texts of every length.           *)
THEOREM ParserQuotesClose == Spec => []QuotesClose
<1>1. IsText => QuotesClose
  <2> SUFFICES ASSUME IsText, NEW quote \in S!Quotes
               PROVE  S!QuoteEnd(<<quote>> \o text, 1) = S!Closing(<<quote>> \o text, 1)
    BY DEF QuotesClose
  <2> DEFINE t == <<quote>> \o text
  <2>1. Len(t) \in Nat /\ t[1] = quote
    BY DEF IsText
  <2> HIDE DEF t
  <2>2. S!QuoteEnd(t, 1) = S!Closing(t, 1)
    BY <2>1, QuoteEndIsClosing
  <2> QED
    BY <2>2 DEF t
<1> QED
  BY <1>1, TextInvariant, PTL

-----------------------------------------------------------------------------
(* The other scans, as functions that take their steps: the end of a one-  *)
(* line sequence, its commas, the insides of scalars, the pieces between   *)
(* cuts, and a string as it is written.                                    *)

FlowStep(t, h, i) ==
  IF i > Len(t) \/ t[i] \in S!Opening THEN 0
  ELSE IF t[i] = "]" THEN i
  ELSE IF t[i] \notin S!Quotes THEN h[i + 1]
  ELSE IF S!QuoteEnd(t, i) = 0 THEN 0 ELSE h[S!QuoteEnd(t, i) + 1]

LEMMA FlowScanExists ==
  ASSUME NEW t, Len(t) \in Nat
  PROVE  \E h : h = [i \in 1 .. Len(t) + 1 |-> FlowStep(t, h, i)]
<1> DEFINE n == Len(t) + 1
           V == Nat
           F == [1 .. n -> V]
           Compute == [i \in 1 .. n |-> [h \in F |-> FlowStep(t, h, i)]]
<1>1. n \in Nat /\ 1 \in Nat /\ V # {}
  OBVIOUS
<1>2. ASSUME NEW i \in 1 .. n, NEW h \in F
      PROVE  FlowStep(t, h, i) \in V
  <2>1. i <= Len(t) => i + 1 \in 1 .. n
    OBVIOUS
  <2>2. i <= Len(t) => S!QuoteEnd(t, i) = 0 \/ S!QuoteEnd(t, i) + 1 \in 1 .. n
    <3> SUFFICES ASSUME i <= Len(t) PROVE S!QuoteEnd(t, i) = 0 \/ S!QuoteEnd(t, i) + 1 \in 1 .. n
      OBVIOUS
    <3>1. i \in 1 .. Len(t)
      OBVIOUS
    <3>2. S!QuoteEnd(t, i) = 0 \/ S!QuoteEnd(t, i) \in i + 1 .. Len(t)
      BY <3>1, QuoteEndAfter
    <3> QED
      BY <3>2
  <2> HIDE DEF n
  <2> QED
    BY <2>1, <2>2 DEF FlowStep

<1>3. ASSUME NEW i \in 1 .. n, NEW g \in F, NEW h \in F, \A k \in i + 1 .. n : g[k] = h[k]
      PROVE  FlowStep(t, g, i) = FlowStep(t, h, i)
  <2>1. i <= Len(t) => i + 1 \in i + 1 .. n
    OBVIOUS
  <2>2. i <= Len(t) => S!QuoteEnd(t, i) = 0 \/ S!QuoteEnd(t, i) + 1 \in i + 1 .. n
    <3> SUFFICES ASSUME i <= Len(t) PROVE S!QuoteEnd(t, i) = 0 \/ S!QuoteEnd(t, i) + 1 \in i + 1 .. n
      OBVIOUS
    <3>1. i \in 1 .. Len(t)
      OBVIOUS
    <3>2. S!QuoteEnd(t, i) = 0 \/ S!QuoteEnd(t, i) \in i + 1 .. Len(t)
      BY <3>1, QuoteEndAfter
    <3> QED
      BY <3>2
  <2> HIDE DEF n, V
  <2> QED
    BY <1>3, <2>1, <2>2 DEF FlowStep

<1> HIDE DEF n, V
<1>4. \A i \in 1 .. n : \A h \in F : Compute[i][h] = FlowStep(t, h, i)
  OBVIOUS
<1>5. Compute \in [1 .. n -> [F -> V]]
  BY <1>2
<1> HIDE DEF Compute
<1>6. IsStepwise(1, n, V, Compute)
  <2>1. \A i \in 1 .. n : \A g, h \in F :
          (\A k \in i + 1 .. n : g[k] = h[k]) => Compute[i][g] = Compute[i][h]
    <3> HIDE DEF F
    <3> QED
      BY <1>3, <1>4
  <2> QED
    BY <1>1, <1>5, <2>1, Zenon DEF IsStepwise
<1>7. Computed(1, n, V, Compute)
  <2> HIDE DEF F
  <2> QED
    BY <1>1, <1>6, Recursion
<1>8. PICK h \in F : \A i \in 1 .. n : h[i] = Compute[i][h]
  BY <1>7 DEF Computed
<1>9. h = [i \in 1 .. n |-> FlowStep(t, h, i)]
  <2>1. h = [i \in 1 .. n |-> h[i]]
    OBVIOUS
  <2>2. \A i \in 1 .. n : h[i] = FlowStep(t, h, i)
    <3> HIDE DEF F
    <3> QED
      BY <1>4, <1>8
  <2> QED
    BY <2>1, <2>2, Zenon
<1> QED
  BY <1>9 DEF n

IsFlowScan(t, h) == \A i \in 1 .. Len(t) + 1 : h[i] = FlowStep(t, h, i)

LEMMA FlowScans ==
  ASSUME NEW t, Len(t) \in Nat
  PROVE  \E h : IsFlowScan(t, h) /\ S!FlowEnd(t) = h[2]
<1> DEFINE h == CHOOSE h : h = [i \in 1 .. Len(t) + 1 |-> FlowStep(t, h, i)]
<1>1. S!FlowEnd(t) = h[2]
  BY DEF S!FlowEnd, FlowStep
<1>2. h = [i \in 1 .. Len(t) + 1 |-> FlowStep(t, h, i)]
  <2> HIDE DEF FlowStep
  <2> QED
    BY FlowScanExists
<1> HIDE DEF h
<1>3. IsFlowScan(t, h)
  BY <1>2 DEF IsFlowScan
<1> QED
  BY <1>1, <1>3

IsComma(c) == c = ","

CommaStep(t, h, i) ==
  IF i > Len(t) THEN {}
  ELSE IF t[i] \in S!Quotes THEN IF S!QuoteEnd(t, i) = 0 THEN {} ELSE h[S!QuoteEnd(t, i) + 1]
  ELSE IF IsComma(t[i]) THEN {i} \cup h[i + 1]
  ELSE h[i + 1]

LEMMA CommaScanExists ==
  ASSUME NEW t, Len(t) \in Nat
  PROVE  \E h : h = [i \in 1 .. Len(t) + 1 |-> CommaStep(t, h, i)]
<1> DEFINE n == Len(t) + 1
           V == SUBSET Nat
           F == [1 .. n -> V]
           Compute == [i \in 1 .. n |-> [h \in F |-> CommaStep(t, h, i)]]
<1>1. n \in Nat /\ 1 \in Nat /\ V # {}
  OBVIOUS
<1>2. ASSUME NEW i \in 1 .. n, NEW h \in F
      PROVE  CommaStep(t, h, i) \in V
  <2>1. i <= Len(t) => i + 1 \in 1 .. n
    OBVIOUS
  <2>2. i <= Len(t) => S!QuoteEnd(t, i) = 0 \/ S!QuoteEnd(t, i) + 1 \in 1 .. n
    <3> SUFFICES ASSUME i <= Len(t) PROVE S!QuoteEnd(t, i) = 0 \/ S!QuoteEnd(t, i) + 1 \in 1 .. n
      OBVIOUS
    <3>1. i \in 1 .. Len(t)
      OBVIOUS
    <3>2. S!QuoteEnd(t, i) = 0 \/ S!QuoteEnd(t, i) \in i + 1 .. Len(t)
      BY <3>1, QuoteEndAfter
    <3> QED
      BY <3>2
  <2> HIDE DEF n
  <2> QED
    BY <2>1, <2>2 DEF CommaStep

<1>3. ASSUME NEW i \in 1 .. n, NEW g \in F, NEW h \in F, \A k \in i + 1 .. n : g[k] = h[k]
      PROVE  CommaStep(t, g, i) = CommaStep(t, h, i)
  <2>1. i <= Len(t) => i + 1 \in i + 1 .. n
    OBVIOUS
  <2>2. i <= Len(t) => S!QuoteEnd(t, i) = 0 \/ S!QuoteEnd(t, i) + 1 \in i + 1 .. n
    <3> SUFFICES ASSUME i <= Len(t) PROVE S!QuoteEnd(t, i) = 0 \/ S!QuoteEnd(t, i) + 1 \in i + 1 .. n
      OBVIOUS
    <3>1. i \in 1 .. Len(t)
      OBVIOUS
    <3>2. S!QuoteEnd(t, i) = 0 \/ S!QuoteEnd(t, i) \in i + 1 .. Len(t)
      BY <3>1, QuoteEndAfter
    <3> QED
      BY <3>2
  <2>3. ~(i > Len(t)) => g[i + 1] = h[i + 1]
    <3> HIDE DEF V, n
    <3> QED
      BY <1>3, <2>1
  <2>4. ~(i > Len(t)) => S!QuoteEnd(t, i) = 0 \/ g[S!QuoteEnd(t, i) + 1] = h[S!QuoteEnd(t, i) + 1]
    <3> HIDE DEF V, n
    <3> QED
      BY <1>3, <2>2
  <2> QED
    BY <2>3, <2>4, Zenon DEF CommaStep

<1> HIDE DEF n, V
<1>4. \A i \in 1 .. n : \A h \in F : Compute[i][h] = CommaStep(t, h, i)
  OBVIOUS
<1>5. Compute \in [1 .. n -> [F -> V]]
  BY <1>2
<1> HIDE DEF Compute
<1>6. IsStepwise(1, n, V, Compute)
  <2>1. \A i \in 1 .. n : \A g, h \in F :
          (\A k \in i + 1 .. n : g[k] = h[k]) => Compute[i][g] = Compute[i][h]
    <3> HIDE DEF F
    <3> QED
      BY <1>3, <1>4
  <2> QED
    BY <1>1, <1>5, <2>1, Zenon DEF IsStepwise
<1>7. Computed(1, n, V, Compute)
  <2> HIDE DEF F
  <2> QED
    BY <1>1, <1>6, Recursion
<1>8. PICK h \in F : \A i \in 1 .. n : h[i] = Compute[i][h]
  BY <1>7 DEF Computed
<1>9. h = [i \in 1 .. n |-> CommaStep(t, h, i)]
  <2>1. h = [i \in 1 .. n |-> h[i]]
    OBVIOUS
  <2>2. \A i \in 1 .. n : h[i] = CommaStep(t, h, i)
    <3> HIDE DEF F
    <3> QED
      BY <1>4, <1>8
  <2> QED
    BY <2>1, <2>2, Zenon
<1> QED
  BY <1>9 DEF n

IsCommaScan(t, h) == \A i \in 1 .. Len(t) + 1 : h[i] = CommaStep(t, h, i)

LEMMA CommaScans ==
  ASSUME NEW t, Len(t) \in Nat
  PROVE  \E h : IsCommaScan(t, h) /\ S!Commas(t) = h[1]
<1> DEFINE h == CHOOSE h : h = [i \in 1 .. Len(t) + 1 |-> CommaStep(t, h, i)]
<1>1. S!Commas(t) = h[1]
  BY DEF S!Commas, CommaStep, IsComma
<1>2. h = [i \in 1 .. Len(t) + 1 |-> CommaStep(t, h, i)]
  <2> HIDE DEF CommaStep
  <2> QED
    BY CommaScanExists
<1> HIDE DEF h
<1>3. IsCommaScan(t, h)
  BY <1>2 DEF IsCommaScan
<1> QED
  BY <1>1, <1>3

SingleStep(t, h, i) ==
  IF i > Len(t) THEN << >>
  ELSE IF t[i] = "'" /\ i < Len(t) /\ t[i + 1] = "'" THEN <<"'">> \o h[i + 2]
  ELSE <<t[i]>> \o h[i + 1]

LEMMA SingleScanExists ==
  ASSUME NEW E, NEW t \in Seq(E)
  PROVE  \E h : h = [i \in 1 .. Len(t) + 2 |-> SingleStep(t, h, i)]
<1> DEFINE n == Len(t) + 2
           V == Seq(E)
           F == [1 .. n -> V]
           Compute == [i \in 1 .. n |-> [h \in F |-> SingleStep(t, h, i)]]
<1>1. n \in Nat /\ 1 \in Nat /\ V # {}
  <2>1. << >> \in Seq(E)
    OBVIOUS
  <2> QED
    BY <2>1
<1>2. ASSUME NEW i \in 1 .. n, NEW h \in F
      PROVE  SingleStep(t, h, i) \in V
  <2>1. i <= Len(t) => i + 1 \in 1 .. n /\ t[i] \in E
    OBVIOUS
  <2>2. i < Len(t) => i + 2 \in 1 .. n
    OBVIOUS
  <2>3. \A c \in E : \A s \in Seq(E) : <<c>> \o s \in Seq(E)
    OBVIOUS
  <2> HIDE DEF n
  <2>4. CASE i > Len(t)
    BY <2>4 DEF SingleStep
  <2>5. CASE i <= Len(t) /\ t[i] = "'" /\ i < Len(t) /\ t[i + 1] = "'"
    <3>1. SingleStep(t, h, i) = <<t[i]>> \o h[i + 2]
      BY <2>5 DEF SingleStep
    <3>2. t[i] \in E /\ h[i + 2] \in Seq(E)
      BY <2>1, <2>2, <2>5
    <3> QED
      BY <2>3, <3>1, <3>2, Zenon
  <2>6. CASE i <= Len(t) /\ ~(t[i] = "'" /\ i < Len(t) /\ t[i + 1] = "'")
    <3>1. SingleStep(t, h, i) = <<t[i]>> \o h[i + 1]
      BY <2>6 DEF SingleStep
    <3>2. t[i] \in E /\ h[i + 1] \in Seq(E)
      BY <2>1, <2>6
    <3> QED
      BY <2>3, <3>1, <3>2, Zenon
  <2> QED
    BY <2>4, <2>5, <2>6

<1>3. ASSUME NEW i \in 1 .. n, NEW g \in F, NEW h \in F, \A k \in i + 1 .. n : g[k] = h[k]
      PROVE  SingleStep(t, g, i) = SingleStep(t, h, i)
  <2>1. ~(i > Len(t)) => g[i + 1] = h[i + 1]
    BY <1>3
  <2>2. ~(i > Len(t)) /\ i < Len(t) => g[i + 2] = h[i + 2]
    BY <1>3
  <2> QED
    BY <2>1, <2>2, Zenon DEF SingleStep

<1> HIDE DEF n, V
<1>4. \A i \in 1 .. n : \A h \in F : Compute[i][h] = SingleStep(t, h, i)
  OBVIOUS
<1>5. Compute \in [1 .. n -> [F -> V]]
  BY <1>2
<1> HIDE DEF Compute
<1>6. IsStepwise(1, n, V, Compute)
  <2>1. \A i \in 1 .. n : \A g, h \in F :
          (\A k \in i + 1 .. n : g[k] = h[k]) => Compute[i][g] = Compute[i][h]
    <3> HIDE DEF F
    <3> QED
      BY <1>3, <1>4
  <2> QED
    BY <1>1, <1>5, <2>1, Zenon DEF IsStepwise
<1>7. Computed(1, n, V, Compute)
  <2> HIDE DEF F
  <2> QED
    BY <1>1, <1>6, Recursion
<1>8. PICK h \in F : \A i \in 1 .. n : h[i] = Compute[i][h]
  BY <1>7 DEF Computed
<1>9. h = [i \in 1 .. n |-> SingleStep(t, h, i)]
  <2>1. h = [i \in 1 .. n |-> h[i]]
    OBVIOUS
  <2>2. \A i \in 1 .. n : h[i] = SingleStep(t, h, i)
    <3> HIDE DEF F
    <3> QED
      BY <1>4, <1>8
  <2> QED
    BY <2>1, <2>2, Zenon
<1> QED
  BY <1>9 DEF n

IsSingleScan(t, h) == \A i \in 1 .. Len(t) + 2 : h[i] = SingleStep(t, h, i)

LEMMA SingleScans ==
  ASSUME NEW E, NEW t \in Seq(E)
  PROVE  \E h : IsSingleScan(t, h) /\ S!UnquoteSingle(t) = h[1]
<1> DEFINE h == CHOOSE h : h = [i \in 1 .. Len(t) + 2 |-> SingleStep(t, h, i)]
<1>1. S!UnquoteSingle(t) = h[1]
  BY DEF S!UnquoteSingle, SingleStep
<1>2. h = [i \in 1 .. Len(t) + 2 |-> SingleStep(t, h, i)]
  <2> HIDE DEF SingleStep
  <2> QED
    BY SingleScanExists
<1> HIDE DEF h
<1>3. IsSingleScan(t, h)
  BY <1>2 DEF IsSingleScan
<1> QED
  BY <1>1, <1>3

Malformed(t, i) == t[i] = "\\" /\ (i = Len(t) \/ t[i + 1] \notin S!Escapes)

DoubleStep(t, h, i) ==
  IF i > Len(t) THEN << >>
  ELSE IF Malformed(t, i) THEN S!Refused
  ELSE LET escape == t[i] = "\\"
           rest   == h[IF escape THEN i + 2 ELSE i + 1]
       IN IF rest = S!Refused THEN S!Refused
          ELSE <<IF escape THEN S!Decoded(t[i + 1]) ELSE t[i]>> \o rest

LEMMA DoubleScanExists ==
  ASSUME NEW E, NEW t \in Seq(E)
  PROVE  \E h : h = [i \in 1 .. Len(t) + 2 |-> DoubleStep(t, h, i)]
<1> DEFINE n == Len(t) + 2
           V == Seq(E \cup {"bell", "refused"})
           F == [1 .. n -> V]
           Compute == [i \in 1 .. n |-> [h \in F |-> DoubleStep(t, h, i)]]
<1>1. n \in Nat /\ 1 \in Nat /\ V # {}
  <2>1. << >> \in Seq(E \cup {"bell", "refused"})
    OBVIOUS
  <2> QED
    BY <2>1
<1>2. ASSUME NEW i \in 1 .. n, NEW h \in F
      PROVE  DoubleStep(t, h, i) \in V
  <2> DEFINE D == E \cup {"bell", "refused"}
  <2>1. ~(i > Len(t)) => i + 1 \in 1 .. n /\ i + 2 \in 1 .. n /\ t[i] \in D
    OBVIOUS
  <2>2. ~(i > Len(t)) /\ ~Malformed(t, i) /\ t[i] = "\\" => S!Decoded(t[i + 1]) \in D
    <3> SUFFICES ASSUME i <= Len(t), i # Len(t) PROVE S!Decoded(t[i + 1]) \in D
      BY DEF Malformed
    <3>1. t[i + 1] \in E
      OBVIOUS
    <3> QED
      BY <3>1 DEF S!Decoded
  <2>3. \A c \in D : \A s \in Seq(D) : <<c>> \o s \in Seq(D)
    <3> HIDE DEF D
    <3> QED
      OBVIOUS
  <2>4. S!Refused \in Seq(D) /\ << >> \in Seq(D)
    BY DEF S!Refused
  <2>5. ~(i > Len(t)) => h[i + 1] \in Seq(D) /\ h[i + 2] \in Seq(D)
    BY <2>1
  <2> HIDE DEF n, F, D
  <2>6. DoubleStep(t, h, i) \in Seq(D)
    <3>1. CASE i > Len(t) \/ Malformed(t, i)
      BY <2>4, <3>1, Zenon DEF DoubleStep
    <3>2. CASE ~(i > Len(t)) /\ ~Malformed(t, i) /\ t[i] = "\\"
      <4> DEFINE c == S!Decoded(t[i + 1])
      <4>1. DoubleStep(t, h, i) = IF h[i + 2] = S!Refused THEN S!Refused ELSE <<c>> \o h[i + 2]
        BY <3>2, Zenon DEF DoubleStep
      <4>2. c \in D /\ h[i + 2] \in Seq(D)
        BY <2>2, <2>5, <3>2, Zenon
      <4> HIDE DEF c
      <4> QED
        BY <2>3, <2>4, <4>1, <4>2, Zenon
    <3>3. CASE ~(i > Len(t)) /\ ~Malformed(t, i) /\ ~(t[i] = "\\")
      <4>1. DoubleStep(t, h, i) = IF h[i + 1] = S!Refused THEN S!Refused ELSE <<t[i]>> \o h[i + 1]
        BY <3>3, Zenon DEF DoubleStep
      <4> QED
        BY <2>1, <2>3, <2>4, <2>5, <3>3, <4>1, Zenon
    <3> QED
      BY <3>1, <3>2, <3>3, Zenon
  <2> QED
    BY <2>6 DEF D

<1>3. ASSUME NEW i \in 1 .. n, NEW g \in F, NEW h \in F, \A k \in i + 1 .. n : g[k] = h[k]
      PROVE  DoubleStep(t, g, i) = DoubleStep(t, h, i)
  <2>1. ~(i > Len(t)) => g[i + 1] = h[i + 1] /\ g[i + 2] = h[i + 2]
    BY <1>3
  <2>2. CASE i > Len(t) \/ Malformed(t, i)
    BY <2>2, Zenon DEF DoubleStep
  <2>3. CASE ~(i > Len(t)) /\ ~Malformed(t, i) /\ t[i] = "\\"
    BY <2>1, <2>3, Zenon DEF DoubleStep
  <2>4. CASE ~(i > Len(t)) /\ ~Malformed(t, i) /\ ~(t[i] = "\\")
    BY <2>1, <2>4, Zenon DEF DoubleStep
  <2> QED
    BY <2>2, <2>3, <2>4, Zenon

<1> HIDE DEF n, V
<1>4. \A i \in 1 .. n : \A h \in F : Compute[i][h] = DoubleStep(t, h, i)
  OBVIOUS
<1>5. Compute \in [1 .. n -> [F -> V]]
  BY <1>2
<1> HIDE DEF Compute
<1>6. IsStepwise(1, n, V, Compute)
  <2>1. \A i \in 1 .. n : \A g, h \in F :
          (\A k \in i + 1 .. n : g[k] = h[k]) => Compute[i][g] = Compute[i][h]
    <3> HIDE DEF F
    <3> QED
      BY <1>3, <1>4
  <2> QED
    BY <1>1, <1>5, <2>1, Zenon DEF IsStepwise
<1>7. Computed(1, n, V, Compute)
  <2> HIDE DEF F
  <2> QED
    BY <1>1, <1>6, Recursion
<1>8. PICK h \in F : \A i \in 1 .. n : h[i] = Compute[i][h]
  BY <1>7 DEF Computed
<1>9. h = [i \in 1 .. n |-> DoubleStep(t, h, i)]
  <2>1. h = [i \in 1 .. n |-> h[i]]
    OBVIOUS
  <2>2. \A i \in 1 .. n : h[i] = DoubleStep(t, h, i)
    <3> HIDE DEF F
    <3> QED
      BY <1>4, <1>8
  <2> QED
    BY <2>1, <2>2, Zenon
<1> QED
  BY <1>9 DEF n

IsDoubleScan(t, h) == \A i \in 1 .. Len(t) + 2 : h[i] = DoubleStep(t, h, i)

LEMMA DoubleScans ==
  ASSUME NEW E, NEW t \in Seq(E)
  PROVE  \E h : IsDoubleScan(t, h) /\ S!UnquoteDouble(t) = h[1]
<1> DEFINE h == CHOOSE h : h = [i \in 1 .. Len(t) + 2 |-> DoubleStep(t, h, i)]
<1>1. S!UnquoteDouble(t) = h[1]
  BY DEF S!UnquoteDouble, DoubleStep, Malformed
<1>2. h = [i \in 1 .. Len(t) + 2 |-> DoubleStep(t, h, i)]
  <2> HIDE DEF DoubleStep
  <2> QED
    BY DoubleScanExists
<1> HIDE DEF h
<1>3. IsDoubleScan(t, h)
  BY <1>2 DEF IsDoubleScan
<1> QED
  BY <1>1, <1>3

LEMMA NextCutIs ==
  ASSUME NEW t, Len(t) \in Nat, NEW cuts \in SUBSET (1 .. Len(t)), NEW i \in 0 .. Len(t)
  PROVE  /\ S!NextCut(t, cuts, i) \in cuts \cup {Len(t) + 1}
         /\ S!NextCut(t, cuts, i) \in i + 1 .. Len(t) + 1
         /\ \A k \in cuts : k > i => S!NextCut(t, cuts, i) <= k
<1> DEFINE T == {k \in cuts \cup {Len(t) + 1} : k > i}
<1>1. T \in SUBSET Nat /\ T # {} /\ Len(t) + 1 \in T
  <2>1. Len(t) + 1 \in T
    OBVIOUS
  <2>2. \A k \in T : k \in Nat
    OBVIOUS
  <2> QED
    BY <2>1, <2>2
<1>2. S!NextCut(t, cuts, i) = S!Min(T)
  BY DEF S!NextCut
<1>3. S!Min(T) \in T /\ \A k \in T : S!Min(T) <= k
  <2> HIDE DEF T
  <2> QED
    BY <1>1, MinIs
<1> DEFINE m == S!Min(T)
<1>4. m <= Len(t) + 1 /\ m \in cuts \cup {Len(t) + 1} /\ m > i /\ m \in Nat
  BY <1>1, <1>3
<1>5. \A k \in cuts : k > i => m <= k
  BY <1>3
<1> HIDE DEF m
<1>6. m \in i + 1 .. Len(t) + 1
  BY <1>4
<1> QED
  BY <1>2, <1>4, <1>5, <1>6 DEF m

BetweenStep(t, cuts, h, i) ==
  IF i > Len(t) THEN << >> ELSE <<S!Piece(t, cuts, i)>> \o h[S!NextCut(t, cuts, i)]

LEMMA BetweenScanExists ==
  ASSUME NEW t, Len(t) \in Nat, NEW cuts \in SUBSET (1 .. Len(t))
  PROVE  \E h : h = [i \in 0 .. Len(t) + 1 |-> BetweenStep(t, cuts, h, i)]
<1> DEFINE n == Len(t) + 1
           V == Seq({S!Piece(t, cuts, k) : k \in 0 .. Len(t)})
           F == [0 .. n -> V]
           Compute == [i \in 0 .. n |-> [h \in F |-> BetweenStep(t, cuts, h, i)]]
<1>1. n \in Nat /\ 0 \in Nat /\ V # {}
  <2>1. << >> \in V
    OBVIOUS
  <2> HIDE DEF V
  <2> QED
    BY <2>1
<1>2. ASSUME NEW i \in 0 .. n, NEW h \in F
      PROVE  BetweenStep(t, cuts, h, i) \in V
  <2> DEFINE P == {S!Piece(t, cuts, k) : k \in 0 .. Len(t)}
  <2>1. CASE i > Len(t)
    <3>1. << >> \in Seq(P)
      OBVIOUS
    <3> QED
      BY <2>1, <3>1 DEF BetweenStep
  <2>2. CASE i <= Len(t)
    <3>1. S!Piece(t, cuts, i) \in P
      BY <2>2
    <3>2. S!NextCut(t, cuts, i) \in 0 .. Len(t) + 1
      BY <2>2, NextCutIs
    <3>3. h[S!NextCut(t, cuts, i)] \in Seq(P)
      BY <3>2
    <3> HIDE DEF P
    <3>4. <<S!Piece(t, cuts, i)>> \o h[S!NextCut(t, cuts, i)] \in Seq(P)
      BY <3>1, <3>3
    <3>5. BetweenStep(t, cuts, h, i) \in Seq(P)
      BY <2>2, <3>4 DEF BetweenStep
    <3> QED
      BY <3>5 DEF P
  <2> QED
    BY <2>1, <2>2

<1>3. ASSUME NEW i \in 0 .. n, NEW g \in F, NEW h \in F, \A k \in i + 1 .. n : g[k] = h[k]
      PROVE  BetweenStep(t, cuts, g, i) = BetweenStep(t, cuts, h, i)
  <2>1. ~(i > Len(t)) => g[S!NextCut(t, cuts, i)] = h[S!NextCut(t, cuts, i)]
    <3> SUFFICES ASSUME ~(i > Len(t)) PROVE g[S!NextCut(t, cuts, i)] = h[S!NextCut(t, cuts, i)]
      OBVIOUS
    <3>1. S!NextCut(t, cuts, i) \in i + 1 .. Len(t) + 1
      BY NextCutIs
    <3> HIDE DEF F
    <3> QED
      BY <1>3, <3>1
  <2> QED
    BY <2>1, Zenon DEF BetweenStep

<1> HIDE DEF n, V
<1>4. \A i \in 0 .. n : \A h \in F : Compute[i][h] = BetweenStep(t, cuts, h, i)
  OBVIOUS
<1>5. Compute \in [0 .. n -> [F -> V]]
  BY <1>2
<1> HIDE DEF Compute
<1>6. IsStepwise(0, n, V, Compute)
  <2>1. \A i \in 0 .. n : \A g, h \in F :
          (\A k \in i + 1 .. n : g[k] = h[k]) => Compute[i][g] = Compute[i][h]
    <3> HIDE DEF F
    <3> QED
      BY <1>3, <1>4
  <2> QED
    BY <1>1, <1>5, <2>1, Zenon DEF IsStepwise
<1>7. Computed(0, n, V, Compute)
  <2> HIDE DEF F
  <2> QED
    BY <1>1, <1>6, Recursion
<1>8. PICK h \in F : \A i \in 0 .. n : h[i] = Compute[i][h]
  BY <1>7 DEF Computed
<1>9. h = [i \in 0 .. n |-> BetweenStep(t, cuts, h, i)]
  <2>1. h = [i \in 0 .. n |-> h[i]]
    OBVIOUS
  <2>2. \A i \in 0 .. n : h[i] = BetweenStep(t, cuts, h, i)
    <3> HIDE DEF F
    <3> QED
      BY <1>4, <1>8
  <2> QED
    BY <2>1, <2>2, Zenon
<1> QED
  BY <1>9 DEF n

IsBetweenScan(t, cuts, h) == \A i \in 0 .. Len(t) + 1 : h[i] = BetweenStep(t, cuts, h, i)

LEMMA BetweenScans ==
  ASSUME NEW t, Len(t) \in Nat, NEW cuts \in SUBSET (1 .. Len(t))
  PROVE  \E h : IsBetweenScan(t, cuts, h) /\ S!Between(t, cuts) = h[0]
<1> DEFINE h == CHOOSE h : h = [i \in 0 .. Len(t) + 1 |-> BetweenStep(t, cuts, h, i)]
<1>1. S!Between(t, cuts) = h[0]
  BY DEF S!Between, BetweenStep
<1>2. h = [i \in 0 .. Len(t) + 1 |-> BetweenStep(t, cuts, h, i)]
  <2> HIDE DEF BetweenStep
  <2> QED
    BY BetweenScanExists
<1> HIDE DEF h
<1>3. IsBetweenScan(t, cuts, h)
  BY <1>2 DEF IsBetweenScan
<1> QED
  BY <1>1, <1>3

WrittenAs(q, c) ==
  IF q = "'" /\ c = "'" THEN <<"'", "'">>
  ELSE IF q = "\"" /\ c \in {"\"", "\\"} THEN <<"\\", c>>
  ELSE <<c>>

QuotedStep(t, q, h, i) ==
  IF i > Len(t) THEN <<q>> ELSE WrittenAs(q, t[i]) \o h[i + 1]

LEMMA QuotedScanExists ==
  ASSUME NEW E, NEW t \in Seq(E), NEW q
  PROVE  \E h : h = [i \in 1 .. Len(t) + 1 |-> QuotedStep(t, q, h, i)]
<1> DEFINE n == Len(t) + 1
           V == Seq(E \cup {"'", q, "\\"})
           F == [1 .. n -> V]
           Compute == [i \in 1 .. n |-> [h \in F |-> QuotedStep(t, q, h, i)]]
<1>1. n \in Nat /\ 1 \in Nat /\ V # {}
  <2>1. << >> \in Seq(E \cup {"'", q, "\\"})
    OBVIOUS
  <2> QED
    BY <2>1
<1>2. ASSUME NEW i \in 1 .. n, NEW h \in F
      PROVE  QuotedStep(t, q, h, i) \in V
  <2> DEFINE D == E \cup {"'", q, "\\"}
  <2>1. <<q>> \in Seq(D)
    OBVIOUS
  <2>2. CASE i > Len(t)
    BY <2>1, <2>2 DEF QuotedStep
  <2>3. CASE i <= Len(t)
    <3>1. t[i] \in E /\ h[i + 1] \in Seq(D)
      BY <2>3
    <3>2. WrittenAs(q, t[i]) \in Seq(D)
      <4>1. <<"'", "'">> \in Seq(D) /\ <<"\\", t[i]>> \in Seq(D) /\ <<t[i]>> \in Seq(D)
        BY <3>1
      <4> HIDE DEF D
      <4> QED
        BY <4>1, Zenon DEF WrittenAs
    <3>3. WrittenAs(q, t[i]) \o h[i + 1] \in Seq(D)
      <4> HIDE DEF D
      <4> QED
        BY <3>1, <3>2
    <3> QED
      BY <2>3, <3>3 DEF QuotedStep
  <2> QED
    BY <2>2, <2>3

<1>3. ASSUME NEW i \in 1 .. n, NEW g \in F, NEW h \in F, \A k \in i + 1 .. n : g[k] = h[k]
      PROVE  QuotedStep(t, q, g, i) = QuotedStep(t, q, h, i)
  <2>1. ~(i > Len(t)) => g[i + 1] = h[i + 1]
    BY <1>3
  <2> QED
    BY <2>1, Zenon DEF QuotedStep

<1> HIDE DEF n, V
<1>4. \A i \in 1 .. n : \A h \in F : Compute[i][h] = QuotedStep(t, q, h, i)
  OBVIOUS
<1>5. Compute \in [1 .. n -> [F -> V]]
  BY <1>2
<1> HIDE DEF Compute
<1>6. IsStepwise(1, n, V, Compute)
  <2>1. \A i \in 1 .. n : \A g, h \in F :
          (\A k \in i + 1 .. n : g[k] = h[k]) => Compute[i][g] = Compute[i][h]
    <3> HIDE DEF F
    <3> QED
      BY <1>3, <1>4
  <2> QED
    BY <1>1, <1>5, <2>1, Zenon DEF IsStepwise
<1>7. Computed(1, n, V, Compute)
  <2> HIDE DEF F
  <2> QED
    BY <1>1, <1>6, Recursion
<1>8. PICK h \in F : \A i \in 1 .. n : h[i] = Compute[i][h]
  BY <1>7 DEF Computed
<1>9. h = [i \in 1 .. n |-> QuotedStep(t, q, h, i)]
  <2>1. h = [i \in 1 .. n |-> h[i]]
    OBVIOUS
  <2>2. \A i \in 1 .. n : h[i] = QuotedStep(t, q, h, i)
    <3> HIDE DEF F
    <3> QED
      BY <1>4, <1>8
  <2> QED
    BY <2>1, <2>2, Zenon
<1> QED
  BY <1>9 DEF n

IsQuotedScan(t, q, h) == \A i \in 1 .. Len(t) + 1 : h[i] = QuotedStep(t, q, h, i)

LEMMA QuotedScans ==
  ASSUME NEW E, NEW t \in Seq(E), NEW q
  PROVE  \E h : IsQuotedScan(t, q, h) /\ S!Quoted(t, q) = <<q>> \o h[1]
<1> DEFINE h == CHOOSE h : h = [i \in 1 .. Len(t) + 1 |-> QuotedStep(t, q, h, i)]
<1>1. S!Quoted(t, q) = <<q>> \o h[1]
  BY DEF S!Quoted, QuotedStep, WrittenAs
<1>2. h = [i \in 1 .. Len(t) + 1 |-> QuotedStep(t, q, h, i)]
  <2> HIDE DEF QuotedStep
  <2> QED
    BY QuotedScanExists
<1> HIDE DEF h
<1>3. IsQuotedScan(t, q, h)
  BY <1>2 DEF IsQuotedScan
<1> QED
  BY <1>1, <1>3

-----------------------------------------------------------------------------
(* What Strip leaves, and a quote within a longer text.                    *)

IsBlank(c) == c = " "

Said(t) == {i \in DOMAIN t : ~IsBlank(t[i])}

(* From a to b there is what is left of t without the blanks around it.    *)
IsSaid(t, a, b) ==
  /\ a \in 1 .. Len(t) /\ b \in a .. Len(t) /\ ~IsBlank(t[a]) /\ ~IsBlank(t[b])
  /\ \A i \in 1 .. a - 1 : IsBlank(t[i])
  /\ \A i \in b + 1 .. Len(t) : IsBlank(t[i])

LEMMA StripIs ==
  ASSUME NEW E, NEW t \in Seq(E)
  PROVE  \/ S!Strip(t) = << >> /\ \A i \in 1 .. Len(t) : IsBlank(t[i])
         \/ \E a, b : IsSaid(t, a, b) /\ S!Strip(t) = SubSeq(t, a, b)
<1>1. S!Strip(t) = IF Said(t) = {} THEN << >> ELSE SubSeq(t, S!Min(Said(t)), S!Max(Said(t)))
  BY Zenon DEF S!Strip, Said, IsBlank
<1>2. /\ Len(t) \in Nat
      /\ \A i : i \in Said(t) <=> i \in 1 .. Len(t) /\ ~IsBlank(t[i])
  BY DEF Said
<1>3. CASE Said(t) = {}
  BY <1>1, <1>2, <1>3
<1>4. CASE Said(t) # {}
  <2> DEFINE a == S!Min(Said(t))
             b == S!Max(Said(t))
  <2>1. a \in Said(t) /\ \A k \in Said(t) : a <= k
    <3>1. Said(t) \in SUBSET Nat
      BY <1>2
    <3> QED
      BY <1>4, <3>1, MinIs
  <2>2. b \in Said(t) /\ \A k \in Said(t) : b >= k
    <3>1. Said(t) \in SUBSET (0 .. Len(t))
      BY <1>2
    <3> QED
      BY <1>2, <1>4, <3>1, MaxIs
  <2> HIDE DEF a, b
  <2>3. IsSaid(t, a, b)
    <3>1. a \in 1 .. Len(t) /\ b \in a .. Len(t) /\ ~IsBlank(t[a]) /\ ~IsBlank(t[b])
      BY <1>2, <2>1, <2>2
    <3>2. \A i \in 1 .. a - 1 : IsBlank(t[i])
      BY <1>2, <2>1, <3>1
    <3>3. \A i \in b + 1 .. Len(t) : IsBlank(t[i])
      BY <1>2, <2>2, <3>1
    <3> QED
      BY <3>1, <3>2, <3>3, Zenon DEF IsSaid
  <2>4. S!Strip(t) = SubSeq(t, a, b)
    BY <1>1, <1>4 DEF a, b
  <2> QED
    BY <2>3, <2>4
<1> QED
  BY <1>3, <1>4

LEMMA SaidOnce ==
  ASSUME NEW t, Len(t) \in Nat, NEW a, NEW b, IsSaid(t, a, b), NEW c, NEW d, IsSaid(t, c, d)
  PROVE  a = c /\ b = d
BY DEF IsSaid

LEMMA StripTo ==
  ASSUME NEW E, NEW t \in Seq(E), NEW a, NEW b, IsSaid(t, a, b)
  PROVE  S!Strip(t) = SubSeq(t, a, b)
<1>1. CASE S!Strip(t) = << >> /\ \A i \in 1 .. Len(t) : IsBlank(t[i])
  BY <1>1 DEF IsSaid
<1>2. ASSUME NEW c, NEW d, IsSaid(t, c, d), S!Strip(t) = SubSeq(t, c, d)
      PROVE  S!Strip(t) = SubSeq(t, a, b)
  <2>1. Len(t) \in Nat
    OBVIOUS
  <2>2. a = c /\ b = d
    BY <1>2, <2>1, SaidOnce
  <2> QED
    BY <1>2, <2>2
<1> QED
  BY <1>1, <1>2, StripIs

(* A text that neither begins nor ends with a blank.                       *)
LEMMA StripSame ==
  ASSUME NEW E, NEW t \in Seq(E), t # << >>, ~IsBlank(t[1]), ~IsBlank(t[Len(t)])
  PROVE  S!Strip(t) = t
<1>1. Len(t) \in Nat /\ Len(t) >= 1
  OBVIOUS
<1>2. IsSaid(t, 1, Len(t))
  BY <1>1 DEF IsSaid
<1>3. SubSeq(t, 1, Len(t)) = t
  OBVIOUS
<1> QED
  BY <1>2, <1>3, StripTo

LEMMA StripEmpty ==
  S!Strip(<< >>) = << >>
<1>1. << >> \in Seq({}) /\ Len(<< >>) = 0
  OBVIOUS
<1>2. ~\E a, b : IsSaid(<< >>, a, b)
  BY <1>1 DEF IsSaid
<1> QED
  BY <1>1, <1>2, StripIs

(* Where w stands in u.                                                    *)
Stands(u, f, w) ==
  /\ f \in Nat /\ Len(w) \in Nat /\ Len(u) \in Nat /\ f + Len(w) <= Len(u)
  /\ \A k \in 1 .. Len(w) : u[f + k] = w[k]

(* It is followed by no single quote there.                                *)
Ends(u, e) == e = Len(u) \/ u[e + 1] # "'"

(* A text that is one quote is one wherever it stands.                     *)
LEMMA QuoteStands ==
  ASSUME NEW u, NEW f, NEW w, Stands(u, f, w), Len(w) # 0,
         S!QuoteEnd(w, 1) = Len(w), Ends(u, f + Len(w))
  PROVE  S!QuoteEnd(u, f + 1) = f + Len(w)
<1>1. /\ f \in Nat /\ Len(w) \in Nat /\ Len(u) \in Nat /\ f + Len(w) <= Len(u)
      /\ \A k \in 1 .. Len(w) : u[f + k] = w[k]
  BY DEF Stands
<1> DEFINE q == w[1]
<1>2. 1 \in 1 .. Len(w) /\ f + 1 \in 1 .. Len(u) /\ u[f + 1] = q
  BY <1>1
<1>3. PICK h : IsQuoteScan(w, q, h) /\ S!QuoteEnd(w, 1) = h[1 + 1]
  BY <1>1, <1>2, QuoteEndScans
<1>4. PICK g : IsQuoteScan(u, q, g) /\ S!QuoteEnd(u, f + 1) = g[f + 1 + 1]
  BY <1>1, <1>2, QuoteEndScans
<1> HIDE DEF q
<1>5. \A i \in 1 .. Len(w) + 2 : h[i] = QuoteStep(w, q, h, i)
  BY <1>3 DEF IsQuoteScan
<1>6. \A i \in 1 .. Len(u) + 2 : g[i] = QuoteStep(u, q, g, i)
  BY <1>4 DEF IsQuoteScan
<1> DEFINE n == Len(w) + 2
           T == {i \in 1 .. n : h[i] = Len(w) => g[f + i] = f + Len(w)}
<1>7. ASSUME NEW i \in 1 .. n, \A k \in i + 1 .. n : k \in T
      PROVE  i \in T
  <2> SUFFICES ASSUME h[i] = Len(w) PROVE g[f + i] = f + Len(w)
    OBVIOUS
  <2>1. h[i] = QuoteStep(w, q, h, i) /\ g[f + i] = QuoteStep(u, q, g, f + i)
    <3>1. f + i \in 1 .. Len(u) + 2 \/ i > Len(w)
      BY <1>1
    <3>2. i > Len(w) => FALSE
      BY <1>1, <1>5 DEF QuoteStep
    <3> QED
      BY <1>1, <1>5, <1>6, <3>1, <3>2
  <2>2. i <= Len(w)
    BY <1>1, <2>1 DEF QuoteStep
  <2>3. i \in 1 .. Len(w) /\ f + i <= Len(u) /\ u[f + i] = w[i]
    BY <1>1, <2>2
  <2>4. Jump(u, q, f + i) <=> Jump(w, q, i)
    <3>1. i < Len(w) => f + i < Len(u) /\ u[(f + i) + 1] = w[i + 1]
      <4> SUFFICES ASSUME i < Len(w) PROVE f + i < Len(u) /\ u[(f + i) + 1] = w[i + 1]
        OBVIOUS
      <4>1. i + 1 \in 1 .. Len(w) /\ f + (i + 1) = (f + i) + 1
        BY <1>1
      <4> QED
        BY <1>1, <4>1
    <3>2. ~(i < Len(w)) => ~(f + i < Len(u)) \/ u[(f + i) + 1] # "'"
      BY <1>1, <2>2 DEF Ends
    <3> QED
      BY <2>3, <3>1, <3>2, Zenon DEF Jump
  <2>5. CASE Jump(w, q, i)
    <3>1. h[i + 2] = Len(w) /\ g[f + i] = g[f + i + 2]
      BY <1>1, <2>1, <2>2, <2>3, <2>4, <2>5 DEF QuoteStep
    <3>2. i + 2 \in i + 1 .. n
      BY <2>2
    <3>3. i + 2 \in T
      <4> HIDE DEF n, T
      <4> QED
        BY <1>7, <3>2
    <3>4. f + (i + 2) = f + i + 2
      BY <1>1
    <3> QED
      BY <3>1, <3>3, <3>4
  <2>6. CASE ~Jump(w, q, i) /\ w[i] = q
    <3>1. h[i] = i /\ g[f + i] = f + i
      BY <1>1, <2>1, <2>2, <2>3, <2>4, <2>6 DEF QuoteStep
    <3> QED
      BY <3>1
  <2>7. CASE ~Jump(w, q, i) /\ w[i] # q
    <3>1. h[i + 1] = Len(w) /\ g[f + i] = g[f + i + 1]
      BY <1>1, <2>1, <2>2, <2>3, <2>4, <2>7 DEF QuoteStep
    <3>2. i + 1 \in i + 1 .. n
      BY <2>2
    <3>3. i + 1 \in T
      <4> HIDE DEF n, T
      <4> QED
        BY <1>7, <3>2
    <3>4. f + (i + 1) = f + i + 1
      BY <1>1
    <3> QED
      BY <3>1, <3>3, <3>4
  <2> QED
    BY <2>5, <2>6, <2>7
<1>8. 2 \in T
  <2>1. n \in Nat /\ 1 \in Nat /\ 2 \in 1 .. n
    BY <1>1
  <2> HIDE DEF T, n
  <2> QED
    BY <1>7, <2>1, Backwards
<1>9. f + 2 = f + 1 + 1
  BY <1>1
<1> QED
  BY <1>3, <1>4, <1>8, <1>9

-----------------------------------------------------------------------------
(* A one-line sequence (_flow_end, _scalar). A scan passes over an item in *)
(* one go: over its ordinary characters one by one, over a quote from its  *)
(* beginning to its end. So it stops at the separating commas and at the   *)
(* bracket that closes the sequence, and nowhere else.                     *)

Ordinary(c) == c \notin S!Quotes \cup {",", "]"} \cup S!Opening

LEMMA Kinds ==
  /\ \A c : IsBlank(c) => Ordinary(c) /\ c # "'"
  /\ \A c : IsComma(c) => ~Ordinary(c) /\ c \notin S!Quotes /\ c # "'" /\ c \notin S!Opening /\ c # "]"
  /\ \A c : Ordinary(c) => c \notin S!Quotes /\ ~IsComma(c) /\ c \notin S!Opening /\ c # "]"
  /\ "]" \notin S!Quotes /\ "[" \notin S!Quotes /\ "]" \notin S!Opening /\ ~IsBlank("]") /\ ~IsBlank("[")
  /\ \A c : c \in S!Quotes => ~IsBlank(c) /\ c \notin S!Opening /\ c # "]" /\ ~IsComma(c)
  /\ \A c : Ordinary(c) \/ IsComma(c) \/ c \in S!Opening \/ c = "]" \/ c \in S!Quotes
<1>1. \A c : IsBlank(c) => Ordinary(c) /\ c # "'"
  BY Zenon DEF IsBlank, Ordinary, S!Quotes, S!Opening
<1>2. \A c : IsComma(c) => ~Ordinary(c) /\ c \notin S!Quotes /\ c # "'" /\ c \notin S!Opening /\ c # "]"
  BY Zenon DEF IsComma, Ordinary, S!Quotes, S!Opening
<1>3. \A c : Ordinary(c) => c \notin S!Quotes /\ ~IsComma(c) /\ c \notin S!Opening /\ c # "]"
  BY Zenon DEF IsComma, Ordinary
<1>4. "]" \notin S!Quotes /\ "[" \notin S!Quotes /\ "]" \notin S!Opening /\ ~IsBlank("]") /\ ~IsBlank("[")
  BY Zenon DEF IsBlank, S!Quotes, S!Opening
<1>5. \A c : c \in S!Quotes => ~IsBlank(c) /\ c \notin S!Opening /\ c # "]" /\ ~IsComma(c)
  BY Zenon DEF IsBlank, IsComma, S!Quotes, S!Opening
<1>6. \A c : Ordinary(c) \/ IsComma(c) \/ c \in S!Opening \/ c = "]" \/ c \in S!Quotes
  BY Zenon DEF Ordinary, IsComma
<1> QED
  BY <1>1, <1>2, <1>3, <1>4, <1>5, <1>6

(* A scan that stops neither at an ordinary character nor at a quote that  *)
(* is closed.                                                              *)
Passes(u, h) ==
  \A p \in 1 .. Len(u) :
    /\ Ordinary(u[p]) => h[p] = h[p + 1]
    /\ u[p] \in S!Quotes /\ S!QuoteEnd(u, p) # 0 => h[p] = h[S!QuoteEnd(u, p) + 1]

LEMMA FlowPasses ==
  ASSUME NEW u, Len(u) \in Nat, NEW h, IsFlowScan(u, h)
  PROVE  Passes(u, h)
<1> SUFFICES ASSUME NEW p \in 1 .. Len(u)
             PROVE  /\ Ordinary(u[p]) => h[p] = h[p + 1]
                    /\ u[p] \in S!Quotes /\ S!QuoteEnd(u, p) # 0 => h[p] = h[S!QuoteEnd(u, p) + 1]
  BY DEF Passes
<1>1. ~(p > Len(u)) /\ p \in 1 .. Len(u) + 1
  OBVIOUS
<1>2. h[p] = FlowStep(u, h, p)
  BY <1>1 DEF IsFlowScan
<1> QED
  BY <1>1, <1>2, Kinds, Zenon DEF FlowStep

LEMMA CommaPasses ==
  ASSUME NEW u, Len(u) \in Nat, NEW h, IsCommaScan(u, h)
  PROVE  Passes(u, h)
<1> SUFFICES ASSUME NEW p \in 1 .. Len(u)
             PROVE  /\ Ordinary(u[p]) => h[p] = h[p + 1]
                    /\ u[p] \in S!Quotes /\ S!QuoteEnd(u, p) # 0 => h[p] = h[S!QuoteEnd(u, p) + 1]
  BY DEF Passes
<1>1. ~(p > Len(u)) /\ p \in 1 .. Len(u) + 1
  OBVIOUS
<1>2. h[p] = CommaStep(u, h, p)
  BY <1>1 DEF IsCommaScan
<1> QED
  BY <1>1, <1>2, Kinds, Zenon DEF CommaStep

LEMMA RunPasses ==
  ASSUME NEW u, Len(u) \in Nat, NEW h, Passes(u, h),
         NEW l \in 1 .. Len(u) + 1, NEW r \in l - 1 .. Len(u),
         \A p \in l .. r : Ordinary(u[p])
  PROVE  h[l] = h[r + 1]
<1> DEFINE n == r + 1
           T == {p \in l .. n : h[p] = h[n]}
<1>1. ASSUME NEW p \in l .. n, \A k \in p + 1 .. n : k \in T
      PROVE  p \in T
  <2>1. CASE p = n
    BY <2>1
  <2>2. CASE p # n
    <3>1. p \in l .. r /\ p \in 1 .. Len(u) /\ p + 1 \in p + 1 .. n
      BY <2>2
    <3>2. p + 1 \in T
      <4> HIDE DEF T, n
      <4> QED
        BY <1>1, <3>1
    <3>3. h[p] = h[p + 1]
      BY <3>1 DEF Passes
    <3> QED
      BY <3>1, <3>2, <3>3
  <2> QED
    BY <2>1, <2>2
<1>2. l \in T
  <2>1. l \in Nat /\ n \in Nat /\ l \in l .. n
    OBVIOUS
  <2> HIDE DEF T, n
  <2> QED
    BY <1>1, <2>1, Backwards
<1> QED
  BY <1>2

(* From l to r there is one item, or none.                                 *)
IsSpan(u, l, r) ==
  \/ \A p \in l .. r : Ordinary(u[p])
  \/ \E a \in l .. r : \E b \in a .. r :
       /\ u[a] \in S!Quotes /\ S!QuoteEnd(u, a) = b
       /\ \A p \in l .. a - 1 : Ordinary(u[p])
       /\ \A p \in b + 1 .. r : Ordinary(u[p])

LEMMA SpanPasses ==
  ASSUME NEW u, Len(u) \in Nat, NEW h, Passes(u, h),
         NEW l \in 1 .. Len(u) + 1, NEW r \in l - 1 .. Len(u), IsSpan(u, l, r)
  PROVE  h[l] = h[r + 1]
<1>1. CASE \A p \in l .. r : Ordinary(u[p])
  BY <1>1, RunPasses
<1>2. ASSUME NEW a \in l .. r, NEW b \in a .. r,
             u[a] \in S!Quotes, S!QuoteEnd(u, a) = b,
             \A p \in l .. a - 1 : Ordinary(u[p]),
             \A p \in b + 1 .. r : Ordinary(u[p])
      PROVE  h[l] = h[r + 1]
  <2>1. /\ a - 1 \in l - 1 .. Len(u) /\ b + 1 \in 1 .. Len(u) + 1
        /\ r \in b + 1 - 1 .. Len(u) /\ a \in 1 .. Len(u) /\ b # 0 /\ a - 1 + 1 = a
    OBVIOUS
  <2>2. h[l] = h[a - 1 + 1]
    <3> DEFINE m == a - 1
    <3>1. m \in l - 1 .. Len(u) /\ \A p \in l .. m : Ordinary(u[p])
      BY <1>2, <2>1
    <3> HIDE DEF m
    <3>2. h[l] = h[m + 1]
      BY <3>1, RunPasses
    <3> QED
      BY <3>2 DEF m
  <2>3. h[a] = h[b + 1]
    BY <1>2, <2>1 DEF Passes
  <2>4. h[b + 1] = h[r + 1]
    <3> DEFINE m == b + 1
    <3>1. m \in 1 .. Len(u) + 1 /\ r \in m - 1 .. Len(u) /\ \A p \in m .. r : Ordinary(u[p])
      BY <1>2, <2>1
    <3> HIDE DEF m
    <3>2. h[m] = h[r + 1]
      BY <3>1, RunPasses
    <3> QED
      BY <3>2 DEF m
  <2> QED
    BY <2>1, <2>2, <2>3, <2>4
<1> QED
  BY <1>1, <1>2 DEF IsSpan

IsItem(item) ==
  /\ Len(item) # 0
  /\ \/ item[1] \in S!Quotes /\ S!QuoteEnd(item, 1) = Len(item)
     \/ \A k \in 1 .. Len(item) : Ordinary(item[k])

(* The cuts are commas that leave nothing but items.                       *)
Separate(inner, cuts) ==
  /\ cuts \in SUBSET (1 .. Len(inner))
  /\ \A c \in cuts : IsComma(inner[c])
  /\ \A i \in cuts \cup {0} : IsItem(S!Piece(inner, cuts, i))

LEMMA PieceSpans ==
  ASSUME NEW E, NEW inner \in Seq(E), NEW cuts, Separate(inner, cuts), NEW i \in cuts \cup {0},
         NEW u, NEW e, Stands(u, e, inner), Ends(u, e + Len(inner))
  PROVE  IsSpan(u, e + i + 1, e + S!NextCut(inner, cuts, i) - 1)
<1> DEFINE n == S!NextCut(inner, cuts, i)
           piece == SubSeq(inner, i + 1, n - 1)
           item == S!Piece(inner, cuts, i)
<1>1. /\ cuts \in SUBSET (1 .. Len(inner)) /\ Len(inner) \in Nat
      /\ i \in 0 .. Len(inner) /\ IsItem(item)
  BY DEF Separate
<1>2. n \in cuts \cup {Len(inner) + 1} /\ n \in i + 1 .. Len(inner) + 1
  BY <1>1, NextCutIs
<1>3. /\ e \in Nat /\ Len(u) \in Nat /\ e + Len(inner) <= Len(u)
      /\ \A k \in 1 .. Len(inner) : u[e + k] = inner[k]
  BY DEF Stands
<1>4. item = S!Strip(piece)
  BY DEF S!Piece
<1> HIDE DEF n
<1>5. piece \in Seq(E) /\ Len(piece) = n - 1 - i /\ \A k \in 1 .. Len(piece) : piece[k] = inner[i + k]
  BY <1>1, <1>2
<1>6. \A k \in 1 .. Len(piece) : u[e + i + k] = piece[k]
  <2> SUFFICES ASSUME NEW k \in 1 .. Len(piece) PROVE u[e + i + k] = piece[k]
    OBVIOUS
  <2>1. i + k \in 1 .. Len(inner) /\ e + (i + k) = e + i + k
    BY <1>1, <1>2, <1>3, <1>5
  <2> QED
    BY <1>3, <1>5, <2>1
<1> HIDE DEF piece, item
<1>7. \A p \in e + i + 1 .. e + n - 1 :
        p - e - i \in 1 .. Len(piece) /\ p = e + i + (p - e - i) /\ u[p] = piece[p - e - i]
  <2> SUFFICES ASSUME NEW p \in e + i + 1 .. e + n - 1
               PROVE  p - e - i \in 1 .. Len(piece) /\ p = e + i + (p - e - i) /\ u[p] = piece[p - e - i]
    OBVIOUS
  <2>1. p - e - i \in 1 .. Len(piece) /\ p = e + i + (p - e - i)
    BY <1>1, <1>2, <1>3, <1>5
  <2> QED
    BY <1>6, <2>1
<1>11. /\ e \in Nat /\ i \in Nat /\ n \in Nat /\ Len(inner) \in Nat /\ Len(piece) \in Nat /\ Len(u) \in Nat
       /\ i + 1 <= n /\ n <= Len(inner) + 1 /\ Len(piece) = n - 1 - i /\ e + Len(inner) <= Len(u)
  BY <1>1, <1>2, <1>3, <1>5
<1>8. ASSUME S!Strip(piece) = << >> PROVE IsSpan(u, e + i + 1, e + n - 1)
  BY <1>1, <1>4, <1>8 DEF IsItem
<1>9. ASSUME NEW a, NEW b, IsSaid(piece, a, b), S!Strip(piece) = SubSeq(piece, a, b)
      PROVE  IsSpan(u, e + i + 1, e + n - 1)
  <2>1. /\ a \in 1 .. Len(piece) /\ b \in a .. Len(piece)
        /\ \A k \in 1 .. a - 1 : IsBlank(piece[k])
        /\ \A k \in b + 1 .. Len(piece) : IsBlank(piece[k])
    BY <1>9 DEF IsSaid
  <2>2. Len(item) = b - a + 1 /\ \A k \in 1 .. Len(item) : item[k] = piece[a - 1 + k]
    BY <1>4, <1>5, <1>9, <2>1
  <2>5. /\ a \in Nat /\ b \in Nat /\ 1 <= a /\ a <= b /\ b <= Len(piece)
        /\ Len(item) \in Nat /\ Len(item) = b - a + 1
    BY <1>11, <2>1, <2>2
  <2>3. CASE \A k \in 1 .. Len(item) : Ordinary(item[k])
    <3>1. ASSUME NEW k \in 1 .. Len(piece) PROVE Ordinary(piece[k])
      <4>1. CASE k \in 1 .. a - 1 \/ k \in b + 1 .. Len(piece)
        BY <2>1, <4>1, Kinds
      <4>2. CASE k \in a .. b
        <5>1. k - a + 1 \in 1 .. Len(item) /\ a - 1 + (k - a + 1) = k
          BY <1>11, <2>5, <4>2
        <5> QED
          BY <2>2, <2>3, <5>1
      <4> QED
        BY <2>1, <4>1, <4>2
    <3>2. \A p \in e + i + 1 .. e + n - 1 : Ordinary(u[p])
      BY <1>7, <3>1
    <3> QED
      BY <3>2 DEF IsSpan
  <2>4. CASE item[1] \in S!Quotes /\ S!QuoteEnd(item, 1) = Len(item)
    <3> DEFINE f == e + i + a - 1
    <3>1. Stands(u, f, item)
      <4>1. f \in Nat /\ Len(item) \in Nat /\ f + Len(item) <= Len(u)
        BY <1>11, <2>5
      <4>2. ASSUME NEW k \in 1 .. Len(item) PROVE u[f + k] = item[k]
        <5>1. a - 1 + k \in 1 .. Len(piece) /\ e + i + (a - 1 + k) = f + k
          BY <1>11, <2>5
        <5> QED
          BY <1>6, <2>2, <5>1
      <4> QED
        BY <1>3, <4>1, <4>2 DEF Stands
    <3>2. f + Len(item) = e + i + b
      BY <1>11, <2>5
    <3>3. Ends(u, e + i + b)
      <4>1. CASE b < Len(piece)
        <5>1. b + 1 \in b + 1 .. Len(piece) /\ b + 1 \in 1 .. Len(piece) /\ e + i + (b + 1) = e + i + b + 1
          BY <1>11, <2>5, <4>1
        <5>2. u[e + i + b + 1] # "'"
          BY <1>6, <2>1, <5>1, Kinds
        <5> QED
          BY <5>2 DEF Ends
      <4>2. CASE b = Len(piece)
        <5>1. e + i + b = e + n - 1 /\ e + i + b + 1 = e + n
          BY <1>11, <2>5, <4>2
        <5>2. CASE n \in cuts
          <6>1. n \in 1 .. Len(inner) /\ IsComma(inner[n])
            BY <1>1, <5>2 DEF Separate
          <6>2. u[e + n] # "'"
            BY <1>3, <6>1, Kinds
          <6> QED
            BY <5>1, <6>2 DEF Ends
        <5>3. CASE n = Len(inner) + 1
          <6>1. e + i + b = e + Len(inner)
            BY <1>1, <1>3, <5>1, <5>3
          <6> QED
            BY <6>1
        <5> QED
          BY <1>2, <5>2, <5>3
      <4> QED
        BY <1>5, <2>1, <4>1, <4>2
    <3>4. f \in Nat /\ Len(item) # 0
      BY <1>11, <2>5
    <3>5. S!QuoteEnd(u, f + 1) = f + Len(item)
      <4> HIDE DEF f
      <4> QED
        BY <2>4, <3>1, <3>2, <3>3, <3>4, QuoteStands
    <3>6. f + 1 = e + i + a /\ f + 1 = f + 1 + 0
      BY <1>11, <2>5
    <3>7. u[e + i + a] \in S!Quotes /\ S!QuoteEnd(u, e + i + a) = e + i + b
      <4>1. 1 \in 1 .. Len(item) /\ a - 1 + 1 = a
        BY <1>11, <2>5
      <4>2. u[e + i + a] = item[1]
        BY <1>6, <2>1, <2>2, <4>1
      <4> QED
        BY <2>4, <3>2, <3>5, <3>6, <4>2
    <3>8. e + i + a \in e + i + 1 .. e + n - 1 /\ e + i + b \in e + i + a .. e + n - 1
      BY <1>11, <2>5
    <3>9. \A p \in e + i + 1 .. (e + i + a) - 1 : Ordinary(u[p])
      <4> SUFFICES ASSUME NEW p \in e + i + 1 .. (e + i + a) - 1 PROVE Ordinary(u[p])
        OBVIOUS
      <4>1. p \in e + i + 1 .. e + n - 1 /\ p - e - i \in 1 .. a - 1
        BY <1>11, <2>5
      <4> QED
        BY <1>7, <2>1, <4>1, Kinds
    <3>10. \A p \in e + i + b + 1 .. e + n - 1 : Ordinary(u[p])
      <4> SUFFICES ASSUME NEW p \in e + i + b + 1 .. e + n - 1 PROVE Ordinary(u[p])
        OBVIOUS
      <4>1. p \in e + i + 1 .. e + n - 1 /\ p - e - i \in b + 1 .. Len(piece)
        BY <1>11, <2>5
      <4> QED
        BY <1>7, <2>1, <4>1, Kinds
    <3> HIDE DEF f
    <3> DEFINE x == e + i + a
               y == e + i + b
    <3>11. /\ x \in e + i + 1 .. e + n - 1 /\ y \in x .. e + n - 1
           /\ u[x] \in S!Quotes /\ S!QuoteEnd(u, x) = y
           /\ \A p \in e + i + 1 .. x - 1 : Ordinary(u[p])
           /\ \A p \in y + 1 .. e + n - 1 : Ordinary(u[p])
      BY <3>7, <3>8, <3>9, <3>10
    <3> HIDE DEF x, y
    <3> QED
      BY <3>11, Zenon DEF IsSpan
  <2> QED
    BY <1>1, <2>3, <2>4 DEF IsItem
<1>10. IsSpan(u, e + i + 1, e + n - 1)
  <2>1. \/ S!Strip(piece) = << >> /\ \A k \in 1 .. Len(piece) : IsBlank(piece[k])
        \/ \E a, b : IsSaid(piece, a, b) /\ S!Strip(piece) = SubSeq(piece, a, b)
    BY <1>5, StripIs
  <2> QED
    BY <1>8, <1>9, <2>1, Zenon
<1> QED
  BY <1>10 DEF n

LEMMA CutsPass ==
  ASSUME NEW E, NEW inner \in Seq(E), NEW cuts, Separate(inner, cuts), NEW i \in cuts \cup {0},
         NEW u, NEW e, Stands(u, e, inner), Ends(u, e + Len(inner)), NEW h, Passes(u, h)
  PROVE  h[e + i + 1] = h[e + S!NextCut(inner, cuts, i)]
<1> DEFINE n == S!NextCut(inner, cuts, i)
           l == e + i + 1
           r == e + n - 1
<1>1. cuts \in SUBSET (1 .. Len(inner)) /\ Len(inner) \in Nat /\ i \in 0 .. Len(inner)
  BY DEF Separate
<1>2. n \in i + 1 .. Len(inner) + 1
  BY <1>1, NextCutIs
<1>3. e \in Nat /\ Len(u) \in Nat /\ e + Len(inner) <= Len(u)
  BY DEF Stands
<1>4. IsSpan(u, l, r)
  BY PieceSpans
<1> HIDE DEF n
<1>5. l \in 1 .. Len(u) + 1 /\ r \in l - 1 .. Len(u) /\ r + 1 = e + n
  BY <1>1, <1>2, <1>3
<1> HIDE DEF l, r
<1>6. h[l] = h[r + 1]
  BY <1>3, <1>4, <1>5, SpanPasses
<1>7. h[l] = h[e + n]
  BY <1>5, <1>6
<1> QED
  BY <1>7 DEF l, n

LEMMA FlowCuts ==
  ASSUME NEW E, NEW inner \in Seq(E), NEW cuts, Separate(inner, cuts),
         NEW u, NEW e, Stands(u, e, inner), Ends(u, e + Len(inner)), NEW h, IsFlowScan(u, h)
  PROVE  h[e + 1] = h[e + Len(inner) + 1]
<1> DEFINE N == Len(inner)
           T == {i \in 0 .. N : i \in cuts \cup {0} => h[e + i + 1] = h[e + N + 1]}
<1>1. cuts \in SUBSET (1 .. N) /\ N \in Nat /\ \A c \in cuts : IsComma(inner[c])
  BY DEF Separate
<1>2. e \in Nat /\ Len(u) \in Nat /\ e + N <= Len(u) /\ \A k \in 1 .. N : u[e + k] = inner[k]
  BY DEF Stands
<1>3. Passes(u, h)
  BY <1>2, FlowPasses
<1>4. ASSUME NEW i \in 0 .. N, \A k \in i + 1 .. N : k \in T
      PROVE  i \in T
  <2> SUFFICES ASSUME i \in cuts \cup {0} PROVE h[e + i + 1] = h[e + N + 1]
    OBVIOUS
  <2> DEFINE n == S!NextCut(inner, cuts, i)
  <2>1. n \in cuts \cup {N + 1} /\ n \in i + 1 .. N + 1
    BY <1>1, NextCutIs
  <2>2. h[e + i + 1] = h[e + n]
    BY <1>3, CutsPass
  <2> HIDE DEF n
  <2>3. CASE n = N + 1
    BY <1>2, <2>2, <2>3
  <2>4. CASE n \in cuts
    <3>1. n \in 1 .. N /\ n \in i + 1 .. N /\ IsComma(u[e + n]) /\ e + n \in 1 .. Len(u) + 1 /\ ~(e + n > Len(u))
      BY <1>1, <1>2, <2>1, <2>4
    <3>2. n \in T
      <4> HIDE DEF T
      <4> QED
        BY <1>4, <3>1
    <3>3. h[e + n] = h[e + n + 1]
      <4>1. h[e + n] = FlowStep(u, h, e + n)
        BY <3>1 DEF IsFlowScan
      <4> QED
        BY <3>1, <4>1, Kinds, Zenon DEF FlowStep
    <3> QED
      BY <2>2, <2>4, <3>2, <3>3
  <2> QED
    BY <2>1, <2>3, <2>4
<1>5. 0 \in T
  <2>1. 0 \in Nat /\ N \in Nat /\ 0 \in 0 .. N
    BY <1>1
  <2> HIDE DEF T, N
  <2> QED
    BY <1>4, <2>1, Backwards
<1> QED
  BY <1>1, <1>2, <1>5

LEMMA CommasAre ==
  ASSUME NEW E, NEW inner \in Seq(E), NEW cuts, Separate(inner, cuts)
  PROVE  S!Commas(inner) = cuts
<1> DEFINE N == Len(inner)
<1>1. cuts \in SUBSET (1 .. N) /\ N \in Nat /\ \A c \in cuts : IsComma(inner[c])
  BY DEF Separate
<1>2. PICK h : IsCommaScan(inner, h) /\ S!Commas(inner) = h[1]
  BY <1>1, CommaScans
<1> DEFINE T == {i \in 0 .. N : i \in cuts \cup {0} => h[i + 1] = {c \in cuts : c > i}}
<1>3. Passes(inner, h)
  BY <1>1, <1>2, CommaPasses
<1>4. /\ Stands(inner, 0, inner) /\ Ends(inner, 0 + Len(inner))
      /\ \A j : j \in Nat => 0 + j = j
  BY <1>1 DEF Stands, Ends
<1>5. ASSUME NEW i \in 0 .. N, \A k \in i + 1 .. N : k \in T
      PROVE  i \in T
  <2> SUFFICES ASSUME i \in cuts \cup {0} PROVE h[i + 1] = {c \in cuts : c > i}
    OBVIOUS
  <2> DEFINE n == S!NextCut(inner, cuts, i)
  <2>1. n \in cuts \cup {N + 1} /\ n \in i + 1 .. N + 1 /\ \A k \in cuts : k > i => n <= k
    BY <1>1, NextCutIs
  <2>2. h[0 + i + 1] = h[0 + n]
    BY <1>3, <1>4, CutsPass
  <2> HIDE DEF n
  <2>3. h[i + 1] = h[n]
    BY <2>1, <2>2
  <2>4. CASE n = N + 1
    <3>1. h[n] = CommaStep(inner, h, n)
      BY <1>1, <1>2, <2>4 DEF IsCommaScan
    <3>2. n > N
      BY <1>1, <2>4
    <3>3. h[n] = {}
      BY <3>1, <3>2, Zenon DEF CommaStep
    <3>4. {c \in cuts : c > i} = {}
      <4>1. \A c \in cuts : ~(c > i)
        BY <1>1, <2>1, <2>4
      <4> QED
        BY <4>1, Zenon
    <3> QED
      BY <2>3, <3>3, <3>4
  <2>5. CASE n \in cuts
    <3>1. n \in 1 .. N /\ n \in i + 1 .. N /\ IsComma(inner[n]) /\ n \in 1 .. N + 1 /\ ~(n > N)
      BY <1>1, <2>1, <2>5
    <3>2. n \in T
      <4> HIDE DEF T
      <4> QED
        BY <1>5, <3>1
    <3>3. h[n] = {n} \cup h[n + 1]
      <4>1. h[n] = CommaStep(inner, h, n)
        BY <1>2, <3>1 DEF IsCommaScan
      <4> QED
        BY <3>1, <4>1, Kinds, Zenon DEF CommaStep
    <3>4. h[n + 1] = {c \in cuts : c > n}
      BY <2>5, <3>2
    <3>5. \A c \in cuts : c \in Nat /\ (c > i <=> c = n \/ c > n)
      BY <1>1, <2>1, <3>1
    <3>6. {c \in cuts : c > i} = {n} \cup {c \in cuts : c > n}
      BY <2>5, <3>5
    <3> QED
      BY <2>3, <3>3, <3>4, <3>6
  <2> QED
    BY <2>1, <2>4, <2>5
<1>6. 0 \in T
  <2>1. 0 \in Nat /\ N \in Nat /\ 0 \in 0 .. N
    BY <1>1
  <2> HIDE DEF T, N
  <2> QED
    BY <1>5, <2>1, Backwards
<1>7. h[0 + 1] = {c \in cuts : c > 0}
  BY <1>6
<1>8. {c \in cuts : c > 0} = cuts
  <2>1. \A c \in cuts : c > 0
    BY <1>1
  <2> QED
    BY <2>1, Zenon
<1>9. 0 + 1 = 1
  OBVIOUS
<1> QED
  BY <1>2, <1>7, <1>8, <1>9

LEMMA NotEmpty ==
  ASSUME NEW cuts, Separate(<< >>, cuts)
  PROVE  FALSE
<1>1. Len(<< >>) = 0 /\ cuts \in SUBSET (1 .. Len(<< >>)) /\ IsItem(S!Piece(<< >>, cuts, 0))
  BY DEF Separate
<1>2. S!NextCut(<< >>, cuts, 0) = 1
  <2>1. S!NextCut(<< >>, cuts, 0) \in 0 + 1 .. Len(<< >>) + 1
    BY <1>1, NextCutIs
  <2> QED
    BY <1>1, <2>1
<1>3. SubSeq(<< >>, 0 + 1, 1 - 1) = << >>
  OBVIOUS
<1>4. S!Piece(<< >>, cuts, 0) = << >>
  BY <1>2, <1>3, StripEmpty DEF S!Piece
<1> QED
  BY <1>1, <1>4 DEF IsItem

(* A bracket, blanks, items and the bracket that closes them.              *)
LEMMA FlowEndIs ==
  ASSUME NEW E, NEW t \in Seq(E), NEW cuts, Separate(S!Strip(t), cuts),
         NEW u, Len(u) \in Nat, Stands(u, 1, t), Len(t) + 2 <= Len(u), u[Len(t) + 2] = "]"
  PROVE  S!FlowEnd(u) = Len(t) + 2
<1> DEFINE inner == S!Strip(t)
<1>1. inner # << >>
  BY NotEmpty
<1>2. PICK a, b : IsSaid(t, a, b) /\ inner = SubSeq(t, a, b)
  BY <1>1, StripIs
<1>3. /\ a \in 1 .. Len(t) /\ b \in a .. Len(t) /\ Len(t) \in Nat
      /\ \A i \in 1 .. a - 1 : IsBlank(t[i])
      /\ \A i \in b + 1 .. Len(t) : IsBlank(t[i])
  BY <1>2 DEF IsSaid
<1>4. inner \in Seq(E) /\ Len(inner) = b - a + 1 /\ \A k \in 1 .. Len(inner) : inner[k] = t[a - 1 + k]
  BY <1>2, <1>3
<1>5. \A k \in 1 .. Len(t) : u[1 + k] = t[k]
  BY DEF Stands
<1> HIDE DEF inner
<1>6. Stands(u, a, inner)
  <2>1. ASSUME NEW k \in 1 .. Len(inner) PROVE u[a + k] = inner[k]
    <3>1. a - 1 + k \in 1 .. Len(t) /\ 1 + (a - 1 + k) = a + k
      BY <1>3, <1>4
    <3> QED
      BY <1>4, <1>5, <3>1
  <2>2. a \in Nat /\ Len(inner) \in Nat /\ a + Len(inner) <= Len(u)
    BY <1>3, <1>4
  <2> QED
    BY <2>1, <2>2 DEF Stands
<1>7. a + Len(inner) = b + 1 /\ Ends(u, b + 1)
  <2>1. a + Len(inner) = b + 1
    BY <1>3, <1>4
  <2>2. CASE b < Len(t)
    <3>1. b + 1 \in b + 1 .. Len(t) /\ b + 1 \in 1 .. Len(t) /\ 1 + (b + 1) = b + 1 + 1
      BY <1>3, <2>2
    <3>2. u[b + 1 + 1] # "'"
      BY <1>3, <1>5, <3>1, Kinds
    <3> QED
      BY <2>1, <3>2 DEF Ends
  <2>3. CASE b = Len(t)
    <3>1. b + 1 + 1 = Len(t) + 2
      BY <1>3, <2>3
    <3>2. u[b + 1 + 1] # "'"
      BY <3>1
    <3> QED
      BY <2>1, <3>2 DEF Ends
  <2> QED
    BY <1>3, <2>2, <2>3
<1>8. PICK h : IsFlowScan(u, h) /\ S!FlowEnd(u) = h[2]
  BY FlowScans
<1>9. Passes(u, h)
  BY <1>8, FlowPasses
<1>10. h[2] = h[a + 1]
  <2>1. 2 \in 1 .. Len(u) + 1 /\ a \in 2 - 1 .. Len(u)
    BY <1>3
  <2>2. ASSUME NEW p \in 2 .. a PROVE Ordinary(u[p])
    <3>1. p - 1 \in 1 .. a - 1 /\ p - 1 \in 1 .. Len(t) /\ 1 + (p - 1) = p
      BY <1>3
    <3> QED
      BY <1>3, <1>5, <3>1, Kinds
  <2> QED
    BY <1>9, <2>1, <2>2, RunPasses
<1>11. h[a + 1] = h[b + 2]
  <2>1. Separate(inner, cuts)
    BY DEF inner
  <2>2. h[a + 1] = h[a + Len(inner) + 1]
    BY <1>4, <1>6, <1>7, <1>8, <2>1, FlowCuts
  <2>3. a + Len(inner) + 1 = b + 2
    BY <1>3, <1>7
  <2> QED
    BY <2>2, <2>3
<1>12. h[b + 2] = h[Len(t) + 2]
  <2> DEFINE l == b + 2
             r == Len(t) + 1
  <2>1. l \in 1 .. Len(u) + 1 /\ r \in l - 1 .. Len(u) /\ r + 1 = Len(t) + 2
    BY <1>3
  <2>2. ASSUME NEW p \in l .. r PROVE Ordinary(u[p])
    <3>1. p - 1 \in b + 1 .. Len(t) /\ p - 1 \in 1 .. Len(t) /\ 1 + (p - 1) = p
      BY <1>3
    <3> QED
      BY <1>3, <1>5, <3>1, Kinds
  <2> HIDE DEF l, r
  <2>3. h[l] = h[r + 1]
    BY <1>9, <2>1, <2>2, RunPasses
  <2> QED
    BY <2>1, <2>3 DEF l
<1>13. h[Len(t) + 2] = Len(t) + 2
  <2> DEFINE i == Len(t) + 2
  <2>1. i \in 1 .. Len(u) + 1 /\ ~(i > Len(u)) /\ u[i] = "]"
    BY <1>3
  <2> HIDE DEF i
  <2>2. h[i] = FlowStep(u, h, i)
    BY <1>8, <2>1 DEF IsFlowScan
  <2>3. h[i] = i
    BY <2>1, <2>2, Kinds, Zenon DEF FlowStep
  <2> QED
    BY <2>3 DEF i
<1> QED
  BY <1>8, <1>10, <1>11, <1>12, <1>13

(* The pieces are those between one cut, or the start, and the next.       *)
LEMMA BetweenAre ==
  ASSUME NEW E, NEW t \in Seq(E), NEW cuts \in SUBSET (1 .. Len(t))
  PROVE  /\ S!Between(t, cuts) \in Seq({S!Piece(t, cuts, i) : i \in cuts \cup {0}})
         /\ \A c \in cuts \cup {0} :
              \E k \in DOMAIN S!Between(t, cuts) : S!Between(t, cuts)[k] = S!Piece(t, cuts, c)
<1> DEFINE N == Len(t)
           P == {S!Piece(t, cuts, i) : i \in cuts \cup {0}}
           Holds(s, c) == \E k \in DOMAIN s : s[k] = S!Piece(t, cuts, c)
<1>1. N \in Nat
  OBVIOUS
<1>2. PICK h : IsBetweenScan(t, cuts, h) /\ S!Between(t, cuts) = h[0]
  BY BetweenScans
<1> DEFINE T == {i \in 0 .. N + 1 : i \in cuts \cup {0, N + 1} =>
                    h[i] \in Seq(P) /\ \A c \in cuts \cup {0} : c >= i => Holds(h[i], c)}
<1>3. ASSUME NEW i \in 0 .. N + 1, \A k \in i + 1 .. N + 1 : k \in T
      PROVE  i \in T
  <2> SUFFICES ASSUME i \in cuts \cup {0, N + 1}
               PROVE  h[i] \in Seq(P) /\ \A c \in cuts \cup {0} : c >= i => Holds(h[i], c)
    OBVIOUS
  <2>1. h[i] = BetweenStep(t, cuts, h, i)
    BY <1>2 DEF IsBetweenScan
  <2>2. CASE i = N + 1
    <3>1. h[i] = << >>
      BY <1>1, <2>1, <2>2 DEF BetweenStep
    <3>2. \A c \in cuts \cup {0} : ~(c >= i)
      BY <1>1, <2>2
    <3>3. << >> \in Seq(P)
      OBVIOUS
    <3> QED
      BY <3>1, <3>2, <3>3
  <2>3. CASE i # N + 1
    <3> DEFINE n == S!NextCut(t, cuts, i)
               p == S!Piece(t, cuts, i)
    <3>1. i \in 0 .. N /\ i \in cuts \cup {0}
      BY <1>1, <2>3
    <3>2. n \in cuts \cup {N + 1} /\ n \in i + 1 .. N + 1 /\ \A k \in cuts : k > i => n <= k
      BY <1>1, <3>1, NextCutIs
    <3> HIDE DEF n
    <3>3. h[i] = <<p>> \o h[n]
      BY <1>1, <2>1, <3>1 DEF BetweenStep, n
    <3>4. n \in T
      <4> HIDE DEF T
      <4> QED
        BY <1>3, <3>2
    <3>5. h[n] \in Seq(P) /\ \A c \in cuts \cup {0} : c >= n => Holds(h[n], c)
      <4> HIDE DEF P, Holds
      <4> QED
        BY <3>2, <3>4
    <3>6. p \in P
      BY <3>1
    <3> HIDE DEF P, p
    <3>7. h[i] \in Seq(P) /\ h[i][1] = p /\ DOMAIN h[i] = 1 .. Len(h[n]) + 1
          /\ \A k \in DOMAIN h[n] : k + 1 \in DOMAIN h[i] /\ h[i][k + 1] = h[n][k]
      BY <3>3, <3>5, <3>6
    <3>8. ASSUME NEW c \in cuts \cup {0}, c >= i PROVE Holds(h[i], c)
      <4>1. CASE c = i
        <5>1. 1 \in DOMAIN h[i] /\ h[i][1] = S!Piece(t, cuts, c)
          BY <3>5, <3>7, <4>1 DEF p
        <5> QED
          BY <5>1
      <4>2. CASE c # i
        <5>1. c >= n
          BY <3>1, <3>2, <3>8, <4>2
        <5>2. PICK k \in DOMAIN h[n] : h[n][k] = S!Piece(t, cuts, c)
          BY <3>5, <5>1
        <5> QED
          BY <3>7, <5>2
      <4> QED
        BY <4>1, <4>2
    <3> QED
      BY <3>7, <3>8
  <2> QED
    BY <2>2, <2>3
<1>4. 0 \in T
  <2>1. 0 \in Nat /\ N + 1 \in Nat /\ 0 \in 0 .. N + 1
    BY <1>1
  <2>2. \A i \in 0 .. N + 1 : (\A k \in i + 1 .. N + 1 : k \in T) => i \in T
    BY <1>3
  <2> HIDE DEF T, N
  <2> QED
    BY <2>1, <2>2, Backwards
<1>5. \A c \in cuts \cup {0} : c >= 0
  OBVIOUS
<1> HIDE DEF P, Holds
<1>6. h[0] \in Seq(P) /\ \A c \in cuts \cup {0} : Holds(h[0], c)
  BY <1>4, <1>5
<1> QED
  BY <1>2, <1>6 DEF P, Holds

CommentChars == {" ", "#", "'"}

LEMMA EndingIs ==
  ASSUME NEW c \in {<< >>, Comment}
  PROVE  /\ c \in Seq(CommentChars)
         /\ S!Strip(c) = << >> \/ S!Strip(c)[1] = "#"
         /\ Len(c) = 0 \/ (Len(c) = 3 /\ c[1] # "'" /\ ~IsBlank(c[3]))
<1>1. CASE c = << >>
  <2>1. << >> \in Seq(CommentChars) /\ Len(<< >>) = 0
    OBVIOUS
  <2> QED
    BY <1>1, <2>1, StripEmpty
<1>2. CASE c = Comment
  <2>1. \A x, y, z : /\ Len(<<x, y, z>>) = 3 /\ <<x, y, z>>[1] = x /\ <<x, y, z>>[2] = y /\ <<x, y, z>>[3] = z
                     /\ \A V : x \in V /\ y \in V /\ z \in V => <<x, y, z>> \in Seq(V)
    OBVIOUS
  <2>2. Len(c) = 3 /\ IsBlank(c[1]) /\ c[2] = "#" /\ c[3] = "'"
    BY <1>2, <2>1, Zenon DEF Comment, IsBlank
  <2>3. c \in Seq(CommentChars)
    BY <1>2, <2>1, Zenon DEF Comment, CommentChars
  <2>4. ~IsBlank("#") /\ ~IsBlank("'") /\ \A x : IsBlank(x) => x # "'"
    BY Zenon DEF IsBlank
  <2>5. IsSaid(c, 2, 3)
    BY <2>2, <2>4 DEF IsSaid
  <2>6. S!Strip(c) = SubSeq(c, 2, 3)
    BY <2>3, <2>5, StripTo
  <2>7. SubSeq(c, 2, 3)[1] = "#"
    BY <2>2, <2>3
  <2> QED
    BY <2>2, <2>3, <2>4, <2>6, <2>7
<1> QED
  BY <1>1, <1>2

(* What is written without blanks at its ends, and what may follow it.     *)
LEMMA WrittenIs ==
  ASSUME NEW E, NEW w \in Seq(E), Len(w) # 0, ~IsBlank(w[1]), ~IsBlank(w[Len(w)]),
         NEW c \in {<< >>, Comment}
  PROVE  /\ w \o c \in Seq(E \cup CommentChars) /\ S!Strip(w \o c) = w \o c
         /\ Stands(w \o c, 0, w) /\ Ends(w \o c, Len(w)) /\ w \o c # << >> /\ (w \o c)[1] = w[1]
         /\ S!After(w \o c, Len(w)) = c /\ SubSeq(w \o c, 1, Len(w)) = w
<1> DEFINE v == w \o c
           D == E \cup CommentChars
<1>1. /\ c \in Seq(CommentChars)
      /\ Len(c) = 0 \/ (Len(c) = 3 /\ c[1] # "'" /\ ~IsBlank(c[3]))
  BY EndingIs
<1>2. v \in Seq(D)
  <2>1. w \in Seq(D) /\ c \in Seq(D)
    BY <1>1
  <2> HIDE DEF D
  <2> QED
    BY <2>1
<1>3. /\ Len(v) = Len(w) + Len(c) /\ Len(w) \in Nat /\ Len(c) \in Nat
      /\ \A k \in 1 .. Len(w) : v[k] = w[k]
      /\ \A k \in 1 .. Len(c) : v[Len(w) + k] = c[k]
  BY <1>1
<1>4. v # << >> /\ v[1] = w[1] /\ ~IsBlank(v[Len(v)])
  <2>1. v # << >> /\ v[1] = w[1]
    BY <1>2, <1>3
  <2>2. ~IsBlank(v[Len(v)])
    <3>1. CASE Len(c) = 0
      BY <1>3, <3>1
    <3>2. CASE Len(c) = 3 /\ ~IsBlank(c[3])
      BY <1>3, <3>2
    <3> QED
      BY <1>1, <3>1, <3>2
  <2> QED
    BY <2>1, <2>2
<1>5. Stands(v, 0, w)
  <2> HIDE DEF v
  <2>1. \A k \in 1 .. Len(w) : v[0 + k] = w[k]
    BY <1>3
  <2> QED
    BY <1>3, <2>1 DEF Stands
<1>6. Ends(v, Len(w))
  <2>1. CASE Len(c) = 0
    BY <1>3, <2>1 DEF Ends
  <2>2. CASE Len(c) = 3 /\ c[1] # "'"
    BY <1>3, <2>2 DEF Ends
  <2> QED
    BY <1>1, <2>1, <2>2
<1>7. S!After(v, Len(w)) = c
  BY <1>1 DEF S!After
<1>8. SubSeq(v, 1, Len(w)) = w
  BY <1>1
<1>9. S!Strip(v) = v
  <2> HIDE DEF v, D
  <2> QED
    BY <1>2, <1>4, StripSame
<1> QED
  BY <1>2, <1>4, <1>5, <1>6, <1>7, <1>8, <1>9

(* A quoted scalar, and a one-line sequence, without their comment.        *)
LEMMA QuoteStripped ==
  ASSUME NEW E, NEW w \in Seq(E), Len(w) # 0, w[1] \in S!Quotes, w[Len(w)] \in S!Quotes,
         S!QuoteEnd(w, 1) = Len(w), NEW c \in {<< >>, Comment}, NEW v, S!Strip(v) = w \o c
  PROVE  S!StripComment(v) = w
<1> DEFINE s == w \o c
           rest == S!Strip(S!After(s, Len(w)))
<1>1. ~IsBlank(w[1]) /\ ~IsBlank(w[Len(w)])
  BY Kinds
<1>2. /\ Stands(s, 0, w) /\ Ends(s, Len(w)) /\ s # << >> /\ s[1] = w[1]
      /\ S!After(s, Len(w)) = c /\ SubSeq(s, 1, Len(w)) = w
  BY <1>1, WrittenIs
<1> HIDE DEF s
<1>3. S!QuoteEnd(s, 1) = Len(w)
  <2>1. 0 + 1 = 1 /\ 0 + Len(w) = Len(w)
    OBVIOUS
  <2>2. S!QuoteEnd(s, 0 + 1) = 0 + Len(w)
    BY <1>2, <2>1, QuoteStands
  <2> QED
    BY <2>1, <2>2
<1>4. rest = << >> \/ rest[1] = "#"
  BY <1>2, EndingIs
<1>5. S!Strip(v) = s /\ s[1] # "#"
  <2>1. "#" \notin S!Quotes
    BY Zenon DEF S!Quotes
  <2> QED
    BY <1>2, <2>1 DEF s
<1> QED
  BY <1>2, <1>3, <1>4, <1>5, Zenon DEF S!StripComment

LEMMA FlowStripped ==
  ASSUME NEW E, NEW w \in Seq(E), Len(w) # 0, w[1] = "[", w[Len(w)] = "]", NEW c \in {<< >>, Comment}
  PROVE  /\ S!FlowEnd(w \o c) = 0 => S!StripComment(w \o c) = S!Refused
         /\ S!FlowEnd(w \o c) = Len(w) => S!StripComment(w \o c) = w
<1> DEFINE s == w \o c
           rest == S!Strip(S!After(s, Len(w)))
<1>1. ~IsBlank(w[1]) /\ ~IsBlank(w[Len(w)])
  BY Kinds
<1>2. /\ S!Strip(s) = s /\ s # << >> /\ s[1] = w[1]
      /\ S!After(s, Len(w)) = c /\ SubSeq(s, 1, Len(w)) = w
  BY <1>1, WrittenIs
<1> HIDE DEF s
<1>3. rest = << >> \/ rest[1] = "#"
  BY <1>2, EndingIs
<1>4. s[1] # "#" /\ s[1] = "[" /\ s[1] \notin S!Quotes
  BY <1>2, Kinds
<1>5. S!FlowEnd(s) = 0 => S!StripComment(s) = S!Refused
  BY <1>2, <1>4, Zenon DEF S!StripComment
<1>6. S!FlowEnd(s) = Len(w) => S!StripComment(s) = w
  <2>1. Len(w) # 0
    OBVIOUS
  <2> QED
    BY <1>2, <1>3, <1>4, <2>1, Zenon DEF S!StripComment
<1> QED
  BY <1>5, <1>6 DEF s

LEMMA BracketedIs ==
  ASSUME NEW E, NEW t \in Seq(E)
  PROVE  /\ S!Bracketed(t) \in Seq(E \cup {"[", "]"}) /\ Len(S!Bracketed(t)) = Len(t) + 2
         /\ S!Bracketed(t)[1] = "[" /\ S!Bracketed(t)[Len(t) + 2] = "]"
         /\ Stands(S!Bracketed(t), 1, t) /\ S!Body(S!Bracketed(t)) = t
<1> DEFINE D == E \cup {"[", "]"}
           u == <<"[">> \o t \o <<"]">>
<1>1. S!Bracketed(t) = u
  BY DEF S!Bracketed
<1>2. u \in Seq(D)
  <2>1. t \in Seq(D) /\ <<"[">> \in Seq(D) /\ <<"]">> \in Seq(D)
    OBVIOUS
  <2> HIDE DEF D
  <2> QED
    BY <2>1
<1>3. Len(u) = Len(t) + 2 /\ u[1] = "[" /\ u[Len(t) + 2] = "]" /\ \A k \in 1 .. Len(t) : u[1 + k] = t[k]
  OBVIOUS
<1>4. Stands(u, 1, t)
  <2> HIDE DEF u
  <2> QED
    BY <1>3 DEF Stands
<1>5. SubSeq(u, 2, Len(u) - 1) = t
  OBVIOUS
<1> QED
  BY <1>1, <1>2, <1>3, <1>4, <1>5 DEF S!Body

(* What is made of the items of a one-line sequence.                       *)
ListRead(items) ==
  IF \E k \in DOMAIN items : items[k] = << >> \/ S!Single(items[k]) = S!Refused THEN S!Refused
  ELSE <<"list", [k \in DOMAIN items |-> S!Single(items[k])]>>

LEMMA SequenceValue ==
  ASSUME NEW E, NEW t \in Seq(E), S!Strip(t) # << >>, NEW c \in {<< >>, Comment}
  PROVE  /\ S!FlowEnd(S!Bracketed(t) \o c) = 0 => S!Value(S!Bracketed(t) \o c) = S!Refused
         /\ S!FlowEnd(S!Bracketed(t) \o c) = Len(t) + 2 =>
              S!Value(S!Bracketed(t) \o c) =
                ListRead(S!Between(S!Strip(t), S!Commas(S!Strip(t))))
<1> DEFINE w == S!Bracketed(t)
           inner == S!Strip(t)
           items == S!Between(inner, S!Commas(inner))
<1>1. /\ w \in Seq(E \cup {"[", "]"}) /\ Len(w) = Len(t) + 2 /\ Len(w) # 0
      /\ w[1] = "[" /\ w[Len(w)] = "]" /\ S!Body(w) = t
  <2>1. /\ w \in Seq(E \cup {"[", "]"}) /\ Len(w) = Len(t) + 2
        /\ w[1] = "[" /\ w[Len(t) + 2] = "]" /\ S!Body(w) = t
    BY BracketedIs, Zenon
  <2> HIDE DEF w
  <2>2. Len(w) # 0
    BY <2>1
  <2> QED
    BY <2>1, <2>2
<1> HIDE DEF w
<1>2. S!FlowEnd(w \o c) = 0 => S!StripComment(w \o c) = S!Refused
  BY <1>1, FlowStripped
<1>3. S!FlowEnd(w \o c) = Len(t) + 2 => S!StripComment(w \o c) = w
  BY <1>1, FlowStripped
<1>4. w # S!Refused /\ w # << >>
  <2>1. \A x : <<x>>[1] = x
    OBVIOUS
  <2>2. S!Refused[1] = "refused"
    BY <2>1, Zenon DEF S!Refused
  <2> QED
    BY <1>1, <2>2
<1>5. S!Scalar(w) = ListRead(items)
  <2>1. S!Scalar(w) = LET read == [k \in DOMAIN items |-> S!Single(items[k])]
                      IN IF \E k \in DOMAIN items : items[k] = << >> \/ read[k] = S!Refused
                           THEN S!Refused ELSE <<"list", read>>
    BY <1>1, <1>4, Zenon DEF S!Scalar
  <2> HIDE DEF items
  <2> QED
    BY <2>1, Zenon DEF ListRead
<1>6. S!FlowEnd(w \o c) = 0 => S!Value(w \o c) = S!Refused
  BY <1>2, Zenon DEF S!Value
<1>7. S!FlowEnd(w \o c) = Len(t) + 2 => S!Value(w \o c) = ListRead(items)
  BY <1>3, <1>4, <1>5, Zenon DEF S!Value
<1> QED
  BY <1>6, <1>7 DEF w

LEMMA StripSeq ==
  ASSUME NEW E, NEW t \in Seq(E)
  PROVE  S!Strip(t) \in Seq(E)
<1>1. CASE S!Strip(t) = << >>
  <2>1. << >> \in Seq(E)
    OBVIOUS
  <2> QED
    BY <1>1, <2>1, Zenon
<1>2. ASSUME NEW a, NEW b, IsSaid(t, a, b), S!Strip(t) = SubSeq(t, a, b)
      PROVE  S!Strip(t) \in Seq(E)
  <2>1. a \in 1 .. Len(t) /\ b \in a .. Len(t)
    BY <1>2 DEF IsSaid
  <2>2. SubSeq(t, a, b) \in Seq(E)
    BY <2>1
  <2> QED
    BY <1>2, <2>2, Zenon
<1> QED
  BY <1>1, <1>2, StripIs

(* A sequence cut into items is read item by item.                         *)
LEMMA SeparateRead ==
  ASSUME NEW E, NEW t \in Seq(E), NEW cuts, Separate(S!Strip(t), cuts), NEW c \in {<< >>, Comment}
  PROVE  S!Value(S!Bracketed(t) \o c) = ListRead(S!Between(S!Strip(t), cuts))
<1> DEFINE w == S!Bracketed(t)
           u == w \o c
<1>1. /\ w \in Seq(E \cup {"[", "]"}) /\ Len(w) = Len(t) + 2 /\ Len(w) # 0
      /\ w[1] = "[" /\ w[Len(w)] = "]" /\ Stands(w, 1, t)
  <2>1. /\ w \in Seq(E \cup {"[", "]"}) /\ Len(w) = Len(t) + 2
        /\ w[1] = "[" /\ w[Len(t) + 2] = "]" /\ Stands(w, 1, t)
    BY BracketedIs, Zenon
  <2> HIDE DEF w
  <2>2. Len(w) # 0
    BY <2>1
  <2> QED
    BY <2>1, <2>2
<1> HIDE DEF w
<1>2. Stands(u, 0, w)
  BY <1>1, Kinds, WrittenIs
<1> HIDE DEF u
<1>3. /\ Len(w) \in Nat /\ Len(u) \in Nat /\ Len(t) \in Nat /\ Len(w) <= Len(u)
      /\ \A k \in 1 .. Len(w) : u[0 + k] = w[k]
      /\ \A k \in 1 .. Len(t) : w[1 + k] = t[k]
  BY <1>1, <1>2 DEF Stands
<1>4. Stands(u, 1, t) /\ Len(t) + 2 <= Len(u) /\ u[Len(t) + 2] = "]"
  <2>1. ASSUME NEW k \in 1 .. Len(w) PROVE u[k] = w[k]
    <3>1. 0 + k = k
      OBVIOUS
    <3> QED
      BY <1>3, <3>1
  <2>2. ASSUME NEW k \in 1 .. Len(t) PROVE u[1 + k] = t[k]
    <3>1. 1 + k \in 1 .. Len(w)
      BY <1>1, <1>3
    <3> QED
      BY <1>3, <2>1, <3>1
  <2>3. Len(t) + 2 \in 1 .. Len(w)
    BY <1>1, <1>3
  <2> QED
    BY <1>1, <1>3, <2>1, <2>2, <2>3 DEF Stands
<1>5. S!FlowEnd(u) = Len(t) + 2
  BY <1>3, <1>4, FlowEndIs
<1>6. S!Strip(t) \in Seq(E)
  BY StripSeq
<1>7. S!Commas(S!Strip(t)) = cuts
  BY <1>6, CommasAre
<1>8. S!Strip(t) # << >>
  BY NotEmpty
<1> QED
  BY <1>5, <1>7, <1>8, SequenceValue DEF u, w

(* A character of a piece stands in the text, before the next cut.         *)
LEMMA PieceIs ==
  ASSUME NEW E, NEW t \in Seq(E), NEW cuts \in SUBSET (1 .. Len(t)), NEW i \in cuts \cup {0}
  PROVE  /\ S!Piece(t, cuts, i) \in Seq(E)
         /\ \A k \in 1 .. Len(S!Piece(t, cuts, i)) :
              \E j \in 1 .. Len(t) : j \notin cuts /\ S!Piece(t, cuts, i)[k] = t[j]
<1> DEFINE n == S!NextCut(t, cuts, i)
           piece == SubSeq(t, i + 1, n - 1)
           item == S!Piece(t, cuts, i)
<1>1. i \in 0 .. Len(t) /\ Len(t) \in Nat
  OBVIOUS
<1>2. n \in i + 1 .. Len(t) + 1 /\ \A k \in cuts : k > i => n <= k
  BY <1>1, NextCutIs
<1>3. item = S!Strip(piece)
  BY DEF S!Piece
<1> HIDE DEF n
<1>4. piece \in Seq(E) /\ Len(piece) = n - 1 - i /\ \A k \in 1 .. Len(piece) : piece[k] = t[i + k]
  BY <1>1, <1>2
<1> HIDE DEF piece, item
<1>5. item \in Seq(E)
  BY <1>3, <1>4, StripSeq
<1>6. ASSUME NEW k \in 1 .. Len(item) PROVE \E j \in 1 .. Len(t) : j \notin cuts /\ item[k] = t[j]
  <2>1. CASE S!Strip(piece) = << >>
    BY <1>3, <2>1
  <2>2. ASSUME NEW a, NEW b, IsSaid(piece, a, b), S!Strip(piece) = SubSeq(piece, a, b)
        PROVE  \E j \in 1 .. Len(t) : j \notin cuts /\ item[k] = t[j]
    <3>1. a \in 1 .. Len(piece) /\ b \in a .. Len(piece)
      BY <2>2 DEF IsSaid
    <3>2. Len(item) = b - a + 1 /\ item[k] = piece[a - 1 + k]
      BY <1>3, <1>4, <2>2, <3>1
    <3> DEFINE j == i + (a - 1 + k)
    <3>3. a - 1 + k \in 1 .. Len(piece) /\ j \in 1 .. Len(t) /\ j > i /\ j < n
      BY <1>1, <1>2, <1>4, <3>1, <3>2
    <3>4. item[k] = t[j]
      BY <1>4, <3>2, <3>3
    <3> HIDE DEF j
    <3>5. j \notin cuts
      BY <1>2, <3>3
    <3> QED
      BY <3>3, <3>4, <3>5
  <2> QED
    BY <1>4, <2>1, <2>2, StripIs
<1> QED
  BY <1>5, <1>6 DEF item

Cut(inner) == {i \in DOMAIN inner : IsComma(inner[i])}

LEMMA SeparationsIs ==
  ASSUME NEW inner, NEW cuts
  PROVE  cuts \in S!Separations(inner) <=>
           /\ cuts \in SUBSET Cut(inner)
           /\ \A i \in cuts \cup {0} : S!IsQuotedItem(S!Piece(inner, cuts, i)) \/ S!IsPlainItem(S!Piece(inner, cuts, i))
BY Zenon DEF S!Separations, Cut, IsComma

LEMMA SeparationsSeparate ==
  ASSUME NEW E, NEW inner \in Seq(E), NEW cuts \in S!Separations(inner)
  PROVE  Separate(inner, cuts)
<1>1. /\ cuts \in SUBSET Cut(inner)
      /\ \A i \in cuts \cup {0} : S!IsQuotedItem(S!Piece(inner, cuts, i)) \/ S!IsPlainItem(S!Piece(inner, cuts, i))
  BY SeparationsIs
<1>2. cuts \in SUBSET (1 .. Len(inner)) /\ \A c \in cuts : IsComma(inner[c])
  BY <1>1 DEF Cut
<1>3. ASSUME NEW i \in cuts \cup {0} PROVE IsItem(S!Piece(inner, cuts, i))
  <2> DEFINE item == S!Piece(inner, cuts, i)
  <2>1. item \in Seq(E)
    BY <1>2, PieceIs
  <2>2. S!IsQuotedItem(item) \/ S!IsPlainItem(item)
    BY <1>1
  <2> HIDE DEF item
  <2>3. item # << >> /\ Len(item) \in Nat /\ Len(item) # 0 /\ DOMAIN item = 1 .. Len(item)
    <3>1. item # << >>
      BY <2>2, Zenon DEF S!IsQuotedItem, S!IsPlainItem, S!IsPlain
    <3> QED
      BY <2>1, <3>1
  <2>4. ASSUME S!IsQuotedItem(item) PROVE IsItem(item)
    <3>1. item[1] \in S!Quotes /\ S!Closing(item, 1) = Len(item)
      BY <2>4 DEF S!IsQuotedItem
    <3>2. S!QuoteEnd(item, 1) = Len(item)
      BY <2>3, <3>1, QuoteEndIsClosing
    <3> QED
      BY <2>3, <3>1, <3>2 DEF IsItem
  <2>5. ASSUME S!IsPlainItem(item) PROVE IsItem(item)
    <3>1. \A k \in DOMAIN item : Ordinary(item[k])
      BY <2>5, Zenon DEF S!IsPlainItem, S!IsPlain, Ordinary, S!Opening
    <3> QED
      BY <2>3, <3>1 DEF IsItem
  <2>6. IsItem(item)
    BY <2>2, <2>4, <2>5
  <2> QED
    BY <2>6 DEF item
<1> QED
  BY <1>2, <1>3, Zenon DEF Separate

(* The value at l of a scan that goes on, or has its value, up to e.       *)
Carries(h, r, l, e) == h[e] = r /\ \A i \in l .. e - 1 : h[i] = h[i + 1] \/ h[i] = r

LEMMA Carried ==
  ASSUME NEW l \in Nat, NEW e \in Nat, l <= e, NEW h, NEW r, Carries(h, r, l, e)
  PROVE  h[l] = r
<1> USE DEF Carries
<1> DEFINE T == {i \in l .. e : h[i] = r}
<1>1. ASSUME NEW i \in l .. e, \A k \in i + 1 .. e : k \in T PROVE i \in T
  <2>1. CASE i = e
    BY <2>1
  <2>2. CASE i # e
    <3>1. i \in l .. e - 1 /\ i + 1 \in i + 1 .. e
      BY <2>2
    <3>2. i + 1 \in T
      <4> HIDE DEF T
      <4> QED
        BY <1>1, <3>1
    <3> QED
      BY <3>1, <3>2
  <2> QED
    BY <2>1, <2>2
<1>2. l \in T
  <2>1. l \in l .. e
    OBVIOUS
  <2> HIDE DEF T
  <2> QED
    BY <1>1, <2>1, Backwards
<1> QED
  BY <1>2

(* Without quotes and early brackets, the sequence ends with the text.     *)
LEMMA BareFlowEnd ==
  ASSUME NEW E, NEW t \in Seq(E), \A k \in 1 .. Len(t) : t[k] \notin S!Quotes /\ t[k] # "]"
  PROVE  S!FlowEnd(S!Bracketed(t)) = IF \E k \in 1 .. Len(t) : t[k] \in S!Opening THEN 0 ELSE Len(t) + 2
<1> DEFINE u == S!Bracketed(t)
<1>1. Len(u) = Len(t) + 2 /\ u[Len(t) + 2] = "]" /\ Stands(u, 1, t)
  BY BracketedIs
<1> HIDE DEF u
<1>2. Len(t) \in Nat /\ \A k \in 1 .. Len(t) : u[1 + k] = t[k]
  BY <1>1 DEF Stands
<1>3. PICK h : IsFlowScan(u, h) /\ S!FlowEnd(u) = h[2]
  BY <1>1, <1>2, FlowScans
<1>4. \A i \in 1 .. Len(t) + 2 : h[i] = FlowStep(u, h, i) /\ ~(i > Len(u))
  BY <1>1, <1>2, <1>3 DEF IsFlowScan
<1>5. ASSUME NEW i \in 2 .. Len(t) + 1
      PROVE  i - 1 \in 1 .. Len(t) /\ u[i] = t[i - 1] /\ i \in 1 .. Len(t) + 2
  <2>1. i - 1 \in 1 .. Len(t) /\ 1 + (i - 1) = i
    BY <1>2
  <2> QED
    BY <1>2, <2>1
<1>6. \A i \in 2 .. Len(t) + 1 : h[i] = IF t[i - 1] \in S!Opening THEN 0 ELSE h[i + 1]
  <2> SUFFICES ASSUME NEW i \in 2 .. Len(t) + 1
               PROVE  h[i] = IF t[i - 1] \in S!Opening THEN 0 ELSE h[i + 1]
    OBVIOUS
  <2>1. u[i] = t[i - 1] /\ t[i - 1] \notin S!Quotes /\ t[i - 1] # "]" /\ h[i] = FlowStep(u, h, i) /\ ~(i > Len(u))
    BY <1>4, <1>5
  <2> QED
    BY <2>1, Zenon DEF FlowStep
<1>7. CASE \E k \in 1 .. Len(t) : t[k] \in S!Opening
  <2>1. PICK k \in 1 .. Len(t) : t[k] \in S!Opening
    BY <1>7
  <2> DEFINE e == k + 1
  <2>2. e \in 2 .. Len(t) + 1 /\ e - 1 = k /\ 2 \in Nat /\ e \in Nat /\ 2 <= e
        /\ \A i \in 2 .. e - 1 : i \in 2 .. Len(t) + 1
    BY <1>2
  <2> HIDE DEF e
  <2>3. h[e] = 0
    BY <1>6, <2>1, <2>2
  <2>4. \A i \in 2 .. e - 1 : h[i] = h[i + 1] \/ h[i] = 0
    BY <1>6, <2>2, Zenon
  <2>6. Carries(h, 0, 2, e)
    BY <2>3, <2>4, Zenon DEF Carries
  <2>5. h[2] = 0
    BY <2>2, <2>6, Carried
  <2> QED
    BY <1>3, <1>7, <2>5 DEF u
<1>8. CASE ~\E k \in 1 .. Len(t) : t[k] \in S!Opening
  <2> DEFINE e == Len(t) + 2
  <2>1. 2 \in Nat /\ e \in Nat /\ 2 <= e /\ e - 1 = Len(t) + 1
    BY <1>2
  <2>2. h[e] = e
    <3>1. e \in 1 .. Len(t) + 2 /\ u[e] = "]"
      BY <1>1, <1>2
    <3>2. h[e] = FlowStep(u, h, e) /\ ~(e > Len(u))
      BY <1>4, <3>1
    <3> HIDE DEF e
    <3> QED
      BY <3>1, <3>2, Kinds, Zenon DEF FlowStep
  <2>3. \A i \in 2 .. e - 1 : h[i] = h[i + 1] \/ h[i] = e
    <3> SUFFICES ASSUME NEW i \in 2 .. Len(t) + 1 PROVE h[i] = h[i + 1]
      BY <2>1
    <3> QED
      BY <1>5, <1>6, <1>8
  <2> HIDE DEF e
  <2>5. Carries(h, e, 2, e)
    BY <2>2, <2>3, Zenon DEF Carries
  <2>4. h[2] = e
    BY <2>1, <2>5, Carried
  <2> QED
    BY <1>3, <1>8, <2>4 DEF u, e
<1> QED
  BY <1>7, <1>8

LEMMA BareCommas ==
  ASSUME NEW t, Len(t) \in Nat, \A k \in 1 .. Len(t) : t[k] \notin S!Quotes, DOMAIN t = 1 .. Len(t)
  PROVE  S!Commas(t) = Cut(t)
<1> DEFINE N == Len(t)
           Rest(i) == {c \in Cut(t) : c >= i}
<1>1. PICK h : IsCommaScan(t, h) /\ S!Commas(t) = h[1]
  BY CommaScans
<1>2. Cut(t) \in SUBSET (1 .. N) /\ \A c \in 1 .. N : c \in Cut(t) <=> IsComma(t[c])
  BY DEF Cut
<1> DEFINE T == {i \in 1 .. N + 1 : h[i] = Rest(i)}
<1>3. ASSUME NEW i \in 1 .. N + 1, \A k \in i + 1 .. N + 1 : k \in T PROVE i \in T
  <2>1. h[i] = CommaStep(t, h, i)
    BY <1>1 DEF IsCommaScan
  <2>2. CASE i = N + 1
    <3>1. h[i] = {}
      BY <2>1, <2>2 DEF CommaStep
    <3>2. \A c \in Cut(t) : ~(c >= i)
      BY <1>2, <2>2
    <3>3. Rest(i) = {}
      BY <3>2, Zenon
    <3> HIDE DEF Rest
    <3> QED
      BY <3>1, <3>3
  <2>3. CASE i # N + 1
    <3>1. i \in 1 .. N /\ i + 1 \in i + 1 .. N + 1 /\ ~(i > N)
      BY <2>3
    <3>2. i + 1 \in T
      <4> HIDE DEF T
      <4> QED
        BY <1>3, <3>1
    <3>3. h[i + 1] = Rest(i + 1)
      <4> HIDE DEF Rest
      <4> QED
        BY <3>2
    <3>4. h[i] = IF IsComma(t[i]) THEN {i} \cup h[i + 1] ELSE h[i + 1]
      <4>1. t[i] \notin S!Quotes
        BY <3>1
      <4> QED
        BY <2>1, <3>1, <4>1, Zenon DEF CommaStep
    <3>5. \A c \in Cut(t) : c >= i <=> c = i \/ c >= i + 1
      BY <1>2, <3>1
    <3>6. CASE IsComma(t[i])
      <4>1. i \in Cut(t)
        BY <1>2, <3>1, <3>6
      <4>2. Rest(i) = {i} \cup Rest(i + 1)
        BY <3>5, <4>1, Zenon
      <4> HIDE DEF Rest
      <4> QED
        BY <3>3, <3>4, <3>6, <4>2
    <3>7. CASE ~IsComma(t[i])
      <4>1. i \notin Cut(t)
        BY <1>2, <3>1, <3>7
      <4>2. Rest(i) = Rest(i + 1)
        BY <3>5, <4>1, Zenon
      <4> HIDE DEF Rest
      <4> QED
        BY <3>3, <3>4, <3>7, <4>2
    <3> QED
      BY <3>6, <3>7
  <2> QED
    BY <2>2, <2>3
<1>4. 1 \in T
  <2>1. 1 \in Nat /\ N + 1 \in Nat /\ 1 \in 1 .. N + 1
    OBVIOUS
  <2>2. \A i \in 1 .. N + 1 : (\A k \in i + 1 .. N + 1 : k \in T) => i \in T
    BY <1>3
  <2> HIDE DEF T, N
  <2> QED
    BY <2>1, <2>2, Backwards
<1>5. Rest(1) = Cut(t)
  <2>1. \A c \in Cut(t) : c >= 1
    BY <1>2
  <2> QED
    BY <2>1, Zenon
<1> QED
  BY <1>1, <1>4, <1>5

(* What is no item where there are no quotes.                              *)
NoItem(item) == item = << >> \/ item[1] \in S!Unsupported

LEMMA NoSequenceIs ==
  ASSUME NEW inner
  PROVE  S!IsNoSequence(inner) <=>
           \/ \E i \in DOMAIN inner : inner[i] \in S!Opening
           \/ \E i \in Cut(inner) \cup {0} : NoItem(S!Piece(inner, Cut(inner), i))
BY Zenon DEF S!IsNoSequence, Cut, IsComma, NoItem

LEMMA NoItemRefused ==
  ASSUME NEW items, NEW k \in DOMAIN items, NoItem(items[k])
  PROVE  ListRead(items) = S!Refused
<1>1. CASE items[k] = << >>
  BY <1>1, Zenon DEF ListRead
<1>2. CASE items[k] # << >> /\ items[k][1] \in S!Unsupported
  <2>1. items[k][1] # "\"" /\ items[k][1] # "'"
    BY <1>2, Zenon DEF S!Unsupported
  <2>2. S!Single(items[k]) = S!Refused
    BY <1>2, <2>1, Zenon DEF S!Single
  <2> QED
    BY <2>2, Zenon DEF ListRead
<1> QED
  BY <1>1, <1>2, Zenon DEF NoItem

LEMMA PieceRefused ==
  ASSUME NEW E, NEW inner \in Seq(E), NEW i \in Cut(inner) \cup {0},
         NoItem(S!Piece(inner, Cut(inner), i))
  PROVE  ListRead(S!Between(inner, Cut(inner))) = S!Refused
<1> DEFINE items == S!Between(inner, Cut(inner))
<1>1. Cut(inner) \in SUBSET (1 .. Len(inner))
  BY DEF Cut
<1>2. \A c \in Cut(inner) \cup {0} : \E k \in DOMAIN items : items[k] = S!Piece(inner, Cut(inner), c)
  BY <1>1, BetweenAre
<1> HIDE DEF items
<1>3. PICK k \in DOMAIN items : items[k] = S!Piece(inner, Cut(inner), i)
  BY <1>2, Zenon
<1>4. NoItem(items[k])
  BY <1>3, Zenon
<1>5. ListRead(items) = S!Refused
  BY <1>4, NoItemRefused
<1> QED
  BY <1>5 DEF items

(* Strip leaves every character but blanks.                                *)
LEMMA StripKeeps ==
  ASSUME NEW E, NEW t \in Seq(E)
  PROVE  \A k \in 1 .. Len(t) : IsBlank(t[k]) \/ \E j \in 1 .. Len(S!Strip(t)) : S!Strip(t)[j] = t[k]
<1> SUFFICES ASSUME NEW k \in 1 .. Len(t), ~IsBlank(t[k])
             PROVE  \E j \in 1 .. Len(S!Strip(t)) : S!Strip(t)[j] = t[k]
  OBVIOUS
<1>1. CASE S!Strip(t) = << >> /\ \A i \in 1 .. Len(t) : IsBlank(t[i])
  BY <1>1
<1>2. ASSUME NEW a, NEW b, IsSaid(t, a, b), S!Strip(t) = SubSeq(t, a, b)
      PROVE  \E j \in 1 .. Len(S!Strip(t)) : S!Strip(t)[j] = t[k]
  <2>1. /\ a \in 1 .. Len(t) /\ b \in a .. Len(t)
        /\ \A i \in 1 .. a - 1 : IsBlank(t[i])
        /\ \A i \in b + 1 .. Len(t) : IsBlank(t[i])
    BY <1>2 DEF IsSaid
  <2>2. k \in a .. b
    BY <2>1
  <2>3. Len(SubSeq(t, a, b)) = b - a + 1 /\ k - a + 1 \in 1 .. b - a + 1 /\ SubSeq(t, a, b)[k - a + 1] = t[k]
    BY <2>1, <2>2
  <2> QED
    BY <1>2, <2>3
<1> QED
  BY <1>1, <1>2, StripIs

LEMMA NoSequenceRefused ==
  ASSUME NEW E, NEW t \in Seq(E), S!Strip(t) # << >>, S!IsNoSequence(S!Strip(t)),
         \A i \in DOMAIN S!Strip(t) : S!Strip(t)[i] \notin S!Quotes \cup {"]"}
  PROVE  S!Value(S!Bracketed(t) \o << >>) = S!Refused
<1> DEFINE inner == S!Strip(t)
           u == S!Bracketed(t)
<1>1. inner \in Seq(E) /\ DOMAIN inner = 1 .. Len(inner) /\ Len(inner) \in Nat
  <2>1. inner \in Seq(E)
    BY StripSeq
  <2> HIDE DEF inner
  <2> QED
    BY <2>1
<1>2. \A k \in 1 .. Len(inner) : inner[k] \notin S!Quotes /\ inner[k] # "]"
  BY <1>1
<1>3. \A k \in 1 .. Len(t) : IsBlank(t[k]) \/ \E j \in 1 .. Len(inner) : inner[j] = t[k]
  BY StripKeeps
<1>4. \A k \in 1 .. Len(t) : t[k] \notin S!Quotes /\ t[k] # "]"
  <2> HIDE DEF inner
  <2> QED
    BY <1>2, <1>3, Kinds
<1>5. S!FlowEnd(u) = IF \E k \in 1 .. Len(t) : t[k] \in S!Opening THEN 0 ELSE Len(t) + 2
  BY <1>4, BareFlowEnd
<1>6. u \o << >> = u
  <2>1. u \in Seq(E \cup {"[", "]"})
    BY BracketedIs
  <2> HIDE DEF u
  <2> QED
    BY <2>1
<1>7. CASE \E k \in 1 .. Len(t) : t[k] \in S!Opening
  <2>1. S!FlowEnd(u) = 0
    BY <1>5, <1>7, Zenon
  <2> QED
    BY <1>6, <2>1, SequenceValue
<1>8. CASE ~\E k \in 1 .. Len(t) : t[k] \in S!Opening
  <2>1. S!FlowEnd(u) = Len(t) + 2
    BY <1>5, <1>8, Zenon
  <2>2. S!Value(u \o << >>) = ListRead(S!Between(inner, S!Commas(inner)))
    BY <1>6, <2>1, SequenceValue
  <2>3. \A k \in 1 .. Len(inner) : inner[k] \notin S!Opening
    <3> SUFFICES ASSUME NEW k \in 1 .. Len(inner) PROVE inner[k] \notin S!Opening
      OBVIOUS
    <3>1. S!Strip(t) = << >> \/ \E a, b : IsSaid(t, a, b) /\ S!Strip(t) = SubSeq(t, a, b)
      BY StripIs
    <3>2. PICK a, b : IsSaid(t, a, b) /\ inner = SubSeq(t, a, b)
      BY <3>1
    <3>3. a \in 1 .. Len(t) /\ b \in a .. Len(t)
      BY <3>2 DEF IsSaid
    <3> HIDE DEF inner
    <3>4. a + k - 1 \in 1 .. Len(t) /\ inner[k] = t[a + k - 1]
      BY <3>2, <3>3
    <3> QED
      BY <1>8, <3>4
  <2>4. S!IsNoSequence(inner)
    BY DEF inner
  <2> HIDE DEF inner
  <2>5. S!Commas(inner) = Cut(inner)
    BY <1>1, <1>2, BareCommas
  <2>6. \A k \in DOMAIN inner : inner[k] \notin S!Opening
    BY <1>1, <2>3
  <2>7. PICK i \in Cut(inner) \cup {0} : NoItem(S!Piece(inner, Cut(inner), i))
    BY <2>4, <2>6, NoSequenceIs, Zenon
  <2>8. ListRead(S!Between(inner, Cut(inner))) = S!Refused
    BY <1>1, <2>7, PieceRefused
  <2> QED
    BY <2>2, <2>5, <2>8 DEF u
<1> QED
  BY <1>7, <1>8

(* A one-line sequence whose items are quoted or plain scalars of YAML is  *)
(* read as these items, and one without quotes that holds another          *)
(* collection, misses an item or has one that begins with what is not      *)
(* supported is refused (_flow_end, _scalar): for every set of characters, *)
(* and texts of every length.                                              *)
THEOREM ParserSequencesSeparate == Spec => []SequencesSeparate
<1>1. IsText => SequencesSeparate
  <2> SUFFICES ASSUME text \in Seq(Chars) PROVE SequencesSeparate
    BY DEF IsText
  <2> DEFINE u == S!Bracketed(text)
             inner == S!Strip(text)
  <2>1. u \o << >> = u
    <3>1. u \in Seq(Chars \cup {"[", "]"})
      BY BracketedIs
    <3> HIDE DEF u
    <3> QED
      BY <3>1
  <2>2. inner \in Seq(Chars)
    BY StripSeq
  <2> HIDE DEF u
  <2>3. ASSUME NEW cuts \in S!Separations(inner)
        PROVE  S!Value(u) =
                 LET items == S!Between(inner, cuts)
                     each  == [k \in DOMAIN items |-> S!Single(items[k])]
                 IN IF \E k \in DOMAIN items : each[k] = S!Refused THEN S!Refused ELSE <<"list", each>>
    <3> DEFINE items == S!Between(inner, cuts)
    <3>1. Separate(inner, cuts)
      <4> HIDE DEF inner
      <4> QED
        BY <2>2, <2>3, SeparationsSeparate
    <3>2. S!Value(u \o << >>) = ListRead(items)
      BY <3>1, SeparateRead DEF u
    <3>3. \A k \in DOMAIN items : items[k] # << >>
      <4>1. cuts \in SUBSET (1 .. Len(inner)) /\ \A i \in cuts \cup {0} : S!Piece(inner, cuts, i) # << >>
        <5>1. Len(<< >>) = 0
          OBVIOUS
        <5> QED
          BY <3>1, <5>1 DEF Separate, IsItem
      <4> DEFINE P == {S!Piece(inner, cuts, i) : i \in cuts \cup {0}}
      <4>2. items \in Seq(P)
        <5> HIDE DEF inner
        <5> QED
          BY <2>2, <4>1, BetweenAre
      <4>3. \A p \in P : p # << >>
        BY <4>1
      <4> HIDE DEF P, items
      <4> QED
        BY <4>2, <4>3
    <3> HIDE DEF items, inner
    <3>4. ListRead(items) = LET each == [k \in DOMAIN items |-> S!Single(items[k])]
                            IN IF \E k \in DOMAIN items : each[k] = S!Refused THEN S!Refused ELSE <<"list", each>>
      BY <3>3, Zenon DEF ListRead
    <3>5. S!Value(u) = LET each == [k \in DOMAIN items |-> S!Single(items[k])]
                       IN IF \E k \in DOMAIN items : each[k] = S!Refused THEN S!Refused ELSE <<"list", each>>
      BY <2>1, <3>2, <3>4, Zenon
    <3> QED
      BY <3>5 DEF items
  <2>4. ASSUME inner # << >>, S!IsNoSequence(inner),
               \A i \in DOMAIN inner : inner[i] \notin S!Quotes \cup {"]"}
        PROVE  S!Value(u) = S!Refused
    <3>1. S!Value(u \o << >>) = S!Refused
      BY <2>4, NoSequenceRefused DEF u
    <3> QED
      BY <2>1, <3>1, Zenon
  <2> QED
    BY <2>3, <2>4, Zenon DEF SequencesSeparate, u
<1> QED
  BY <1>1, TextInvariant, PTL

-----------------------------------------------------------------------------
(* What is written between quotes (_strip_comment, _scalar, _split_key,    *)
(* _lines). The text of a quoted string is followed from what is left to   *)
(* write at each character of the string: the scan for its end and the one *)
(* for its inside step over a character together with what escapes it.     *)

(* A character is written as it is, or with one before it that the scans   *)
(* pass over together with it.                                             *)
IsEscaped(q, c) ==
  \/ q = "'" /\ c = "'"
  \/ q = "\"" /\ c \in {"\"", "\\"}

LEMMA WrittenAsIs ==
  ASSUME NEW q \in S!Quotes, NEW c
  PROVE  /\ ~IsEscaped(q, c) => /\ WrittenAs(q, c) = <<c>> /\ c # q /\ (q = "'" \/ c # "\\")
         /\ IsEscaped(q, c) => /\ q = "'" => WrittenAs(q, c) = <<"'", c>> /\ c = "'"
                               /\ q # "'" => WrittenAs(q, c) = <<"\\", c>> /\ c \in S!Escapes /\ c # "a"
<1>1. "\"" # "'" /\ "\"" # "a" /\ "\\" # "a"
  BY Zenon
<1>2. q = "'" \/ q = "\""
  BY Zenon DEF S!Quotes
<1>3. ~IsEscaped(q, c) => /\ WrittenAs(q, c) = <<c>> /\ c # q /\ (q = "'" \/ c # "\\")
  BY <1>2, Zenon DEF IsEscaped, WrittenAs
<1>4. IsEscaped(q, c) /\ q = "'" => WrittenAs(q, c) = <<"'", c>> /\ c = "'"
  BY <1>1, <1>2, Zenon DEF IsEscaped, WrittenAs
<1>5. IsEscaped(q, c) /\ q # "'" => WrittenAs(q, c) = <<"\\", c>> /\ c \in S!Escapes /\ c # "a"
  BY <1>1, <1>2, Zenon DEF IsEscaped, WrittenAs, S!Escapes
<1> QED
  BY <1>3, <1>4, <1>5, Zenon

(* What is left to write from each character on, and where it stands.      *)
IsLeft(w, q, t, h) ==
  /\ Len(w) \in Nat /\ Len(w) >= 2 /\ w[1] = q /\ Len(w) = Len(h[1]) + 1
  /\ h[Len(t) + 1] = <<q>>
  /\ \A i \in 1 .. Len(t) : Len(h[i]) = Len(WrittenAs(q, t[i])) + Len(h[i + 1])
  /\ \A i \in 1 .. Len(t) : \A k \in 1 .. Len(WrittenAs(q, t[i])) : h[i][k] = WrittenAs(q, t[i])[k]
  /\ \A i \in 1 .. Len(t) + 1 : /\ Len(h[i]) \in Nat /\ Len(h[i]) >= 1 /\ Len(h[i]) < Len(w)
                               /\ Stands(w, Len(w) - Len(h[i]), h[i])

LEMMA QuotedIs ==
  ASSUME NEW E, NEW t \in Seq(E), NEW q \in S!Quotes
  PROVE  /\ \E h : IsLeft(S!Quoted(t, q), q, t, h)
         /\ S!Quoted(t, q) \in Seq(E \cup S!Quotes \cup {"\\"})
<1> DEFINE w == S!Quoted(t, q)
           n == Len(t)
           D == E \cup S!Quotes \cup {"\\"}
           W(i) == WrittenAs(q, t[i])
<1>1. PICK h : IsQuotedScan(t, q, h) /\ w = <<q>> \o h[1]
  BY QuotedScans
<1>2. n \in Nat /\ \A i \in 1 .. n + 1 : h[i] = QuotedStep(t, q, h, i)
  BY <1>1 DEF IsQuotedScan
<1>3. h[n + 1] = <<q>>
  <2>1. n + 1 \in 1 .. n + 1 /\ n + 1 > n
    BY <1>2
  <2> QED
    BY <1>2, <2>1 DEF QuotedStep
<1>4. \A i \in 1 .. n : h[i] = W(i) \o h[i + 1]
  <2> SUFFICES ASSUME NEW i \in 1 .. n PROVE h[i] = W(i) \o h[i + 1]
    OBVIOUS
  <2>1. i \in 1 .. n + 1 /\ ~(i > n)
    BY <1>2
  <2>2. h[i] = QuotedStep(t, q, h, i)
    BY <1>2, <2>1
  <2> QED
    BY <2>1, <2>2, Zenon DEF QuotedStep
<1>5. \A i \in 1 .. n : W(i) \in Seq(D) /\ Len(W(i)) \in {1, 2}
  <2> SUFFICES ASSUME NEW i \in 1 .. n PROVE W(i) \in Seq(D) /\ Len(W(i)) \in {1, 2}
    OBVIOUS
  <2>1. t[i] \in D /\ "'" \in D /\ "\\" \in D
    <3>1. "'" \in S!Quotes
      BY Zenon DEF S!Quotes
    <3> QED
      BY <3>1
  <2> HIDE DEF D
  <2>2. W(i) = <<t[i]>> \/ W(i) = <<"'", t[i]>> \/ W(i) = <<"\\", t[i]>>
    BY WrittenAsIs, Zenon
  <2>3. \A x, y \in D : /\ <<x>> \in Seq(D) /\ Len(<<x>>) \in {1, 2}
                       /\ <<x, y>> \in Seq(D) /\ Len(<<x, y>>) \in {1, 2}
    OBVIOUS
  <2> HIDE DEF W
  <2> QED
    BY <2>1, <2>2, <2>3, Zenon
<1> DEFINE T == {i \in 1 .. n + 1 : h[i] \in Seq(D) /\ Len(h[i]) >= 1}
<1>6. \A i \in 1 .. n + 1 : i \in T
  <2>1. ASSUME NEW i \in 1 .. n + 1, \A k \in i + 1 .. n + 1 : k \in T PROVE i \in T
    <3> SUFFICES h[i] \in Seq(D) /\ Len(h[i]) >= 1
      OBVIOUS
    <3>1. CASE i = n + 1
      <4>1. <<q>> \in Seq(D) /\ Len(<<q>>) >= 1
        OBVIOUS
      <4> HIDE DEF D
      <4> QED
        BY <1>3, <3>1, <4>1, Zenon
    <3>2. CASE i # n + 1
      <4>1. i \in 1 .. n /\ i + 1 \in i + 1 .. n + 1
        BY <1>2, <3>2
      <4>2. i + 1 \in T
        <5> HIDE DEF T
        <5> QED
          BY <2>1, <4>1
      <4>3. W(i) \in Seq(D) /\ Len(W(i)) \in {1, 2} /\ h[i] = W(i) \o h[i + 1]
        BY <1>4, <1>5, <4>1, Zenon
      <4> HIDE DEF D, W
      <4>4. h[i + 1] \in Seq(D) /\ Len(h[i + 1]) >= 1
        BY <4>2
      <4>5. \A x, y \in Seq(D) : x \o y \in Seq(D) /\ (Len(y) >= 1 => Len(x \o y) >= 1)
        OBVIOUS
      <4> QED
        BY <4>3, <4>4, <4>5, Zenon
    <3> QED
      BY <3>1, <3>2
  <2>2. 1 \in Nat /\ n + 1 \in Nat
    BY <1>2
  <2> HIDE DEF T, n
  <2> QED
    BY <2>1, <2>2, Backwards
<1>7. \A i \in 1 .. n + 1 : h[i] \in Seq(D) /\ Len(h[i]) >= 1
  <2> HIDE DEF D
  <2> QED
    BY <1>6
<1> HIDE DEF W
<1>8. \A i \in 1 .. n : /\ Len(h[i]) = Len(W(i)) + Len(h[i + 1])
                        /\ \A k \in 1 .. Len(W(i)) : h[i][k] = W(i)[k]
                        /\ \A k \in 1 .. Len(h[i + 1]) : h[i][Len(W(i)) + k] = h[i + 1][k]
  <2> SUFFICES ASSUME NEW i \in 1 .. n
               PROVE  /\ Len(h[i]) = Len(W(i)) + Len(h[i + 1])
                      /\ \A k \in 1 .. Len(W(i)) : h[i][k] = W(i)[k]
                      /\ \A k \in 1 .. Len(h[i + 1]) : h[i][Len(W(i)) + k] = h[i + 1][k]
    OBVIOUS
  <2>1. W(i) \in Seq(D) /\ h[i] = W(i) \o h[i + 1]
    BY <1>4, <1>5
  <2>2. h[i + 1] \in Seq(D)
    BY <1>7
  <2> HIDE DEF D
  <2> QED
    BY <2>1, <2>2
<1>9. w \in Seq(D) /\ Len(w) = Len(h[1]) + 1 /\ w[1] = q /\ \A k \in 1 .. Len(h[1]) : w[1 + k] = h[1][k]
  <2>1. h[1] \in Seq(D) /\ <<q>> \in Seq(D)
    BY <1>2, <1>7
  <2> HIDE DEF D, w
  <2> QED
    BY <1>1, <2>1
<1> HIDE DEF w, D
<1>10. Len(w) \in Nat /\ Len(w) >= 2 /\ \A i \in 1 .. n + 1 : Len(h[i]) \in Nat /\ Len(h[i]) >= 1
  <2>1. 1 \in 1 .. n + 1
    BY <1>2
  <2> QED
    BY <1>7, <1>9, <2>1
<1> DEFINE U == {i \in 1 .. n + 1 : Len(h[i]) < Len(w) /\ Stands(w, Len(w) - Len(h[i]), h[i])}
<1>11. \A i \in 1 .. n + 1 : i \in U
  <2>1. ASSUME NEW i \in 1 .. n + 1, \A k \in 1 .. i - 1 : k \in U PROVE i \in U
    <3>1. CASE i = 1
      <4>1. Len(w) - Len(h[1]) = 1
        BY <1>9, <1>10, <3>1
      <4>2. Stands(w, 1, h[1]) /\ Len(h[1]) < Len(w)
        BY <1>9, <1>10, <3>1 DEF Stands
      <4> QED
        BY <3>1, <4>1, <4>2
    <3>2. CASE i # 1
      <4> DEFINE j == i - 1
                 l == Len(W(j))
      <4>1. j \in 1 .. n /\ j \in 1 .. i - 1 /\ i = j + 1 /\ j \in 1 .. n + 1
        BY <1>2, <3>2
      <4> HIDE DEF j
      <4>2. j \in U
        <5> HIDE DEF U
        <5> QED
          BY <2>1, <4>1
      <4>7. Len(h[j]) < Len(w)
        BY <4>2
      <4>3. /\ Len(w) - Len(h[j]) \in Nat /\ Len(w) - Len(h[j]) + Len(h[j]) <= Len(w)
            /\ \A k \in 1 .. Len(h[j]) : w[Len(w) - Len(h[j]) + k] = h[j][k]
        BY <4>2 DEF Stands
      <4>4. /\ Len(h[j]) = l + Len(h[i]) /\ l \in {1, 2}
            /\ \A k \in 1 .. Len(h[i]) : h[j][l + k] = h[i][k]
        BY <1>5, <1>8, <4>1
      <4> HIDE DEF l
      <4>5. Len(w) - Len(h[i]) \in Nat /\ Len(w) - Len(h[i]) + Len(h[i]) <= Len(w)
        BY <1>10, <4>1, <4>3, <4>4
      <4>6. ASSUME NEW k \in 1 .. Len(h[i]) PROVE w[Len(w) - Len(h[i]) + k] = h[i][k]
        <5>1. l + k \in 1 .. Len(h[j]) /\ Len(w) - Len(h[j]) + (l + k) = Len(w) - Len(h[i]) + k
          BY <1>10, <4>1, <4>4
        <5> QED
          BY <4>3, <4>4, <5>1
      <4>8. Len(h[i]) < Len(w)
        BY <1>10, <4>1, <4>4, <4>7
      <4>9. Stands(w, Len(w) - Len(h[i]), h[i])
        BY <1>10, <4>5, <4>6 DEF Stands
      <4> QED
        BY <4>8, <4>9
    <3> QED
      BY <3>1, <3>2
  <2>2. 1 \in Nat /\ n + 1 \in Nat
    BY <1>2
  <2> HIDE DEF U, n
  <2> QED
    BY <2>1, <2>2, Forwards
<1>12. \A i \in 1 .. n + 1 : /\ Len(h[i]) \in Nat /\ Len(h[i]) >= 1 /\ Len(h[i]) < Len(w)
                             /\ Stands(w, Len(w) - Len(h[i]), h[i])
  BY <1>10, <1>11
<1>13. IsLeft(w, q, t, h)
  BY <1>3, <1>8, <1>9, <1>10, <1>12 DEF IsLeft, W
<1> QED
  BY <1>9, <1>13 DEF w, D

(* The character at i: where it is written, and what stands there.         *)
IsAt(w, q, t, h, i, p) ==
  /\ p \in 2 .. Len(w) - 1
  /\ ~IsEscaped(q, t[i]) => w[p] = t[i] /\ Len(w) - Len(h[i + 1]) + 1 = p + 1
  /\ IsEscaped(q, t[i]) => /\ w[p] = (IF q = "'" THEN "'" ELSE "\\") /\ w[p + 1] = t[i]
                           /\ Len(w) - Len(h[i + 1]) + 1 = p + 2 /\ p + 2 <= Len(w)

LEMMA LeftAt ==
  ASSUME NEW t, Len(t) \in Nat, NEW q \in S!Quotes, NEW w, NEW h, IsLeft(w, q, t, h),
         NEW i \in 1 .. Len(t)
  PROVE  IsAt(w, q, t, h, i, Len(w) - Len(h[i]) + 1)
<1> SUFFICES ASSUME NEW p, p = Len(w) - Len(h[i]) + 1 PROVE IsAt(w, q, t, h, i, p)
  OBVIOUS
<1> USE DEF IsAt
<1> DEFINE W == WrittenAs(q, t[i])
           L == Len(w)
           a == Len(h[i])
           b == Len(h[i + 1])
           d == Len(W)
<1>1. L \in Nat /\ a = d + b /\ \A k \in 1 .. d : h[i][k] = W[k]
  BY DEF IsLeft
<1>2. a \in Nat /\ b \in Nat /\ b >= 1 /\ a < L /\ Stands(w, L - a, h[i])
  <2>1. i \in 1 .. Len(t) + 1 /\ i + 1 \in 1 .. Len(t) + 1
    OBVIOUS
  <2> QED
    BY <2>1, Zenon DEF IsLeft
<1>3. \A k \in 1 .. a : w[L - a + k] = h[i][k]
  BY <1>2, Zenon DEF Stands
<1> HIDE DEF a, b, L
<1>4. CASE ~IsEscaped(q, t[i])
  <2>1. W = <<t[i]>>
    BY <1>4, WrittenAsIs, Zenon
  <2>2. d = 1 /\ W[1] = t[i]
    BY <2>1
  <2> HIDE DEF W, d
  <2>3. 1 \in 1 .. a /\ p = L - a + 1 /\ p \in 2 .. L - 1 /\ L - b + 1 = p + 1
    BY <1>1, <1>2, <2>2 DEF a, L
  <2>4. w[p] = t[i]
    <3>1. 1 \in 1 .. 1
      OBVIOUS
    <3>2. w[L - a + 1] = h[i][1] /\ h[i][1] = W[1]
      BY <1>1, <1>3, <2>2, <2>3, <3>1, Zenon
    <3> QED
      BY <2>2, <2>3, <3>2, Zenon
  <2> QED
    BY <1>4, <2>3, <2>4 DEF b, L
<1>5. CASE IsEscaped(q, t[i])
  <2> DEFINE x == IF q = "'" THEN "'" ELSE "\\"
  <2>1. W = <<x, t[i]>>
    BY <1>5, WrittenAsIs, Zenon
  <2> HIDE DEF x
  <2>2. d = 2 /\ W[1] = x /\ W[2] = t[i]
    BY <2>1
  <2> HIDE DEF W, d
  <2>3. /\ 1 \in 1 .. a /\ 2 \in 1 .. a /\ p = L - a + 1 /\ p + 1 = L - a + 2
        /\ p \in 2 .. L - 1 /\ L - b + 1 = p + 2 /\ p + 2 <= L
    BY <1>1, <1>2, <2>2 DEF a, L
  <2>4. w[p] = x /\ w[p + 1] = t[i]
    <3>1. w[L - a + 1] = h[i][1] /\ w[L - a + 2] = h[i][2] /\ h[i][1] = W[1] /\ h[i][2] = W[2]
      <4>1. 1 \in 1 .. 2 /\ 2 \in 1 .. 2
        OBVIOUS
      <4> QED
        BY <1>1, <1>3, <2>2, <2>3, <4>1, Zenon
    <3> QED
      BY <2>2, <2>3, <3>1, Zenon
  <2> QED
    BY <1>5, <2>3, <2>4 DEF b, L, x
<1> QED
  BY <1>4, <1>5

LEMMA LeftEnd ==
  ASSUME NEW t, Len(t) \in Nat, NEW q, NEW w, NEW h, IsLeft(w, q, t, h)
  PROVE  Len(w) - Len(h[Len(t) + 1]) + 1 = Len(w) /\ w[Len(w)] = q
<1>1. h[Len(t) + 1] = <<q>> /\ Len(w) \in Nat
  BY DEF IsLeft
<1>2. Stands(w, Len(w) - Len(h[Len(t) + 1]), h[Len(t) + 1])
  <2>1. Len(t) + 1 \in 1 .. Len(t) + 1
    OBVIOUS
  <2> QED
    BY <2>1, Zenon DEF IsLeft
<1>3. Len(<<q>>) = 1 /\ <<q>>[1] = q
  OBVIOUS
<1>4. Stands(w, Len(w) - 1, <<q>>)
  BY <1>1, <1>2, <1>3
<1>5. w[Len(w) - 1 + 1] = q
  <2>1. 1 \in 1 .. Len(<<q>>)
    BY <1>3
  <2> QED
    BY <1>3, <1>4, <2>1 DEF Stands
<1> QED
  BY <1>1, <1>3, <1>5

(* It is one quote from its first character to its last.                   *)
LEMMA QuotedEnds ==
  ASSUME NEW t, Len(t) \in Nat, NEW q \in S!Quotes, NEW w, NEW h, IsLeft(w, q, t, h)
  PROVE  S!QuoteEnd(w, 1) = Len(w)
<1> DEFINE n == Len(t)
           P(i) == Len(w) - Len(h[i]) + 1
<1>1. Len(w) \in Nat /\ Len(w) >= 2 /\ w[1] = q /\ Len(w) = Len(h[1]) + 1
  BY DEF IsLeft
<1>2. PICK g : IsQuoteScan(w, q, g) /\ S!QuoteEnd(w, 1) = g[1 + 1]
  BY <1>1, QuoteEndScans
<1>3. \A i \in 1 .. Len(w) : g[i] = QuoteStep(w, q, g, i) /\ ~(i > Len(w))
  BY <1>1, <1>2 DEF IsQuoteScan
<1> DEFINE T == {i \in 1 .. n + 1 : g[P(i)] = Len(w)}
<1>4. ASSUME NEW i \in 1 .. n + 1, \A k \in i + 1 .. n + 1 : k \in T PROVE i \in T
  <2> SUFFICES g[P(i)] = Len(w)
    OBVIOUS
  <2>1. CASE i = n + 1
    <3>1. P(i) = Len(w) /\ w[Len(w)] = q
      BY <2>1, LeftEnd
    <3>2. ~Jump(w, q, Len(w))
      <4>1. ~(Len(w) < Len(w))
        BY <1>1
      <4>2. "\"" # "\\"
        BY Zenon
      <4> QED
        BY <3>1, <4>1, <4>2, Zenon DEF Jump
    <3>3. Len(w) \in 1 .. Len(w)
      BY <1>1
    <3>4. g[Len(w)] = Len(w)
      BY <1>3, <3>1, <3>2, <3>3, Zenon DEF QuoteStep
    <3> HIDE DEF P
    <3> QED
      BY <3>1, <3>4
  <2>2. CASE i # n + 1
    <3> DEFINE p == P(i)
    <3>1. i \in 1 .. n /\ i + 1 \in i + 1 .. n + 1
      BY <2>2
    <3>2. /\ p \in 2 .. Len(w) - 1
          /\ ~IsEscaped(q, t[i]) => w[p] = t[i] /\ P(i + 1) = p + 1
          /\ IsEscaped(q, t[i]) => /\ w[p] = (IF q = "'" THEN "'" ELSE "\\") /\ w[p + 1] = t[i]
                                   /\ P(i + 1) = p + 2 /\ p + 2 <= Len(w)
      <4>1. IsAt(w, q, t, h, i, p)
        BY <3>1, LeftAt
      <4> HIDE DEF p
      <4> QED
        BY <4>1, Zenon DEF IsAt
    <3> HIDE DEF P
    <3>3. g[P(i + 1)] = Len(w)
      <4>1. i + 1 \in T
        <5> HIDE DEF T
        <5> QED
          BY <1>4, <3>1
      <4> QED
        BY <4>1
    <3> HIDE DEF p, T
    <3>4. p \in 1 .. Len(w) /\ p < Len(w)
      BY <1>1, <3>2
    <3>5. CASE ~IsEscaped(q, t[i])
      <4>1. t[i] # q /\ (q = "'" \/ t[i] # "\\")
        BY <3>5, WrittenAsIs, Zenon
      <4>2. ~Jump(w, q, p) /\ w[p] # q
        <5>1. q = "'" => q # "\""
          BY Zenon
        <5> QED
          BY <3>2, <3>5, <4>1, <5>1, Zenon DEF Jump
      <4>3. g[p] = g[p + 1]
        BY <1>3, <3>4, <4>2, Zenon DEF QuoteStep
      <4>4. g[p] = Len(w)
        BY <3>2, <3>3, <3>5, <4>3, Zenon
      <4> QED
        BY <4>4 DEF p
    <3>6. CASE IsEscaped(q, t[i])
      <4>1. Jump(w, q, p)
        BY <3>2, <3>4, <3>6, Zenon DEF Jump, IsEscaped
      <4>2. g[p] = g[p + 2]
        BY <1>3, <3>4, <4>1, Zenon DEF QuoteStep
      <4>3. g[p] = Len(w)
        BY <3>2, <3>3, <3>6, <4>2, Zenon
      <4> QED
        BY <4>3 DEF p
    <3> QED
      BY <3>5, <3>6
  <2> QED
    BY <2>1, <2>2
<1>5. 1 \in T
  <2>1. 1 \in Nat /\ n + 1 \in Nat /\ 1 \in 1 .. n + 1
    OBVIOUS
  <2> HIDE DEF T, n
  <2> QED
    BY <1>4, <2>1, Backwards
<1>6. P(1) = 1 + 1
  <2>1. Len(h[1]) \in Nat
    <3>1. 1 \in 1 .. Len(t) + 1
      OBVIOUS
    <3> QED
      BY <3>1 DEF IsLeft
  <2> QED
    BY <1>1, <2>1
<1> HIDE DEF P
<1> QED
  BY <1>2, <1>5, <1>6

LEMMA Suffixes ==
  ASSUME NEW E, NEW t \in Seq(E)
  PROVE  /\ SubSeq(t, Len(t) + 1, Len(t)) = << >> /\ SubSeq(t, 1, Len(t)) = t
         /\ \A i \in 1 .. Len(t) : /\ <<t[i]>> \o SubSeq(t, i + 1, Len(t)) = SubSeq(t, i, Len(t))
                                   /\ SubSeq(t, i + 1, Len(t)) \in Seq(E)
<1>1. SubSeq(t, Len(t) + 1, Len(t)) = << >> /\ SubSeq(t, 1, Len(t)) = t
  OBVIOUS
<1>2. ASSUME NEW i \in 1 .. Len(t)
      PROVE  /\ <<t[i]>> \o SubSeq(t, i + 1, Len(t)) = SubSeq(t, i, Len(t))
             /\ SubSeq(t, i + 1, Len(t)) \in Seq(E)
  <2>1. SubSeq(t, i + 1, Len(t)) \in Seq(E)
    OBVIOUS
  <2>2. <<t[i]>> \o SubSeq(t, i + 1, Len(t)) = SubSeq(t, i, Len(t))
    OBVIOUS
  <2> QED
    BY <2>1, <2>2
<1> QED
  BY <1>1, <1>2

(* What stands between the quotes, seen from a position within them.       *)
LEMMA BodyAt ==
  ASSUME NEW E, NEW w \in Seq(E), Len(w) >= 2
  PROVE  /\ S!Body(w) \in Seq(E) /\ Len(S!Body(w)) = Len(w) - 2
         /\ \A p \in 2 .. Len(w) - 1 : S!Body(w)[p - 1] = w[p]
<1>1. /\ SubSeq(w, 2, Len(w) - 1) \in Seq(E) /\ Len(SubSeq(w, 2, Len(w) - 1)) = Len(w) - 2
      /\ \A k \in 1 .. Len(w) - 2 : SubSeq(w, 2, Len(w) - 1)[k] = w[k + 1]
  <2>1. SubSeq(w, 2, Len(w) - 1) \in Seq(E)
    OBVIOUS
  <2>2. Len(SubSeq(w, 2, Len(w) - 1)) = Len(w) - 2
    <3>1. \A a, b \in Int : Len(SubSeq(w, a, b)) = IF a <= b + 1 THEN b + 1 - a ELSE 0
      OBVIOUS
    <3>2. Len(w) \in Nat
      OBVIOUS
    <3>3. Len(w) - 1 \in Int /\ 2 \in Int /\ 2 <= Len(w) - 1 + 1 /\ Len(w) - 1 + 1 - 2 = Len(w) - 2
      BY <3>2
    <3> QED
      BY <3>1, <3>3
  <2>3. ASSUME NEW k \in 1 .. Len(w) - 2 PROVE SubSeq(w, 2, Len(w) - 1)[k] = w[k + 1]
    OBVIOUS
  <2> QED
    BY <2>1, <2>2, <2>3
<1>2. \A p \in 2 .. Len(w) - 1 : p - 1 \in 1 .. Len(w) - 2 /\ p - 1 + 1 = p
  OBVIOUS
<1> DEFINE b == SubSeq(w, 2, Len(w) - 1)
<1> HIDE DEF b
<1>3. \A p \in 2 .. Len(w) - 1 : b[p - 1] = w[p]
  BY <1>1, <1>2 DEF b
<1> QED
  BY <1>1, <1>3 DEF S!Body, b

(* A scan of the body that reads each character as it was, reads the text. *)
Reads(w, q, t, h, o) ==
  /\ o[Len(w) - 1] = << >>
  /\ \A i \in 1 .. Len(t) : \A p \in Nat :
       p = Len(w) - Len(h[i]) + 1 /\ o[Len(w) - Len(h[i + 1])] = SubSeq(t, i + 1, Len(t)) =>
         o[p - 1] = <<t[i]>> \o SubSeq(t, i + 1, Len(t))

LEMMA ReadsAll ==
  ASSUME NEW E, NEW t \in Seq(E), NEW q, NEW w, NEW h, IsLeft(w, q, t, h), NEW o, Reads(w, q, t, h, o)
  PROVE  o[1] = t
<1> DEFINE n == Len(t)
           T == {i \in 1 .. n + 1 : o[Len(w) - Len(h[i])] = SubSeq(t, i, n)}
<1>1. /\ n \in Nat /\ Len(w) \in Nat /\ Len(w) = Len(h[1]) + 1
      /\ \A i \in 1 .. n + 1 : Len(h[i]) \in Nat /\ Len(h[i]) < Len(w)
  <2>1. n \in Nat
    OBVIOUS
  <2>2. /\ Len(w) \in Nat /\ Len(w) = Len(h[1]) + 1
        /\ \A i \in 1 .. n + 1 : Len(h[i]) \in Nat /\ Len(h[i]) < Len(w)
    BY Zenon DEF IsLeft
  <2> QED
    BY <2>1, <2>2
<1>2. ASSUME NEW i \in 1 .. n + 1, \A k \in i + 1 .. n + 1 : k \in T PROVE i \in T
  <2> SUFFICES o[Len(w) - Len(h[i])] = SubSeq(t, i, n)
    OBVIOUS
  <2>1. CASE i = n + 1
    <3>1. Len(w) - Len(h[n + 1]) + 1 = Len(w)
      <4>1. Len(t) \in Nat
        OBVIOUS
      <4>2. Len(w) - Len(h[Len(t) + 1]) + 1 = Len(w) /\ w[Len(w)] = q
        BY ONLY <4>1, LeftEnd, IsLeft(w, q, t, h), Zenon
      <4> QED
        BY <4>2
    <3>2. Len(h[n + 1]) \in Nat
      BY <1>1, <2>1
    <3> DEFINE a == Len(h[n + 1])
    <3>3. Len(w) - a = Len(w) - 1
      <4> HIDE DEF a
      <4>1. a \in Nat /\ Len(w) - a + 1 = Len(w)
        BY <3>1, <3>2 DEF a
      <4> QED
        BY <1>1, <4>1
    <3>4. o[Len(w) - 1] = << >> /\ SubSeq(t, n + 1, n) = << >>
      BY Suffixes DEF Reads
    <3> QED
      BY <2>1, <3>3, <3>4, Zenon
  <2>2. CASE i # n + 1
    <3>1. i \in 1 .. n /\ i + 1 \in i + 1 .. n + 1 /\ i \in 1 .. n + 1
      BY <1>1, <2>2
    <3>2. i + 1 \in T
      <4> HIDE DEF T
      <4> QED
        BY <1>2, <3>1
    <3>3. o[Len(w) - Len(h[i + 1])] = SubSeq(t, i + 1, n)
      BY <3>2
    <3> DEFINE a == Len(h[i])
               p == Len(w) - a + 1
    <3>4. a \in Nat /\ a < Len(w)
      BY <1>1, <3>1
    <3> HIDE DEF a
    <3>5. p \in Nat /\ p - 1 = Len(w) - a
      BY <1>1, <3>4
    <3>6. p = Len(w) - Len(h[i]) + 1
      BY DEF a
    <3> HIDE DEF p
    <3>7. o[p - 1] = <<t[i]>> \o SubSeq(t, i + 1, n)
      BY <3>1, <3>3, <3>5, <3>6, Zenon DEF Reads
    <3>8. <<t[i]>> \o SubSeq(t, i + 1, n) = SubSeq(t, i, n)
      BY <3>1, Suffixes
    <3> QED
      BY <3>5, <3>7, <3>8, Zenon DEF a
  <2> QED
    BY <2>1, <2>2
<1>3. 1 \in T
  <2>1. 1 \in Nat /\ n + 1 \in Nat /\ 1 \in 1 .. n + 1
    BY <1>1
  <2> HIDE DEF T, n
  <2> QED
    BY <1>2, <2>1, Backwards
<1>4. Len(w) - Len(h[1]) = 1
  <2>1. 1 \in 1 .. n + 1
    BY <1>1
  <2>2. Len(h[1]) \in Nat
    BY <1>1, <2>1
  <2> DEFINE a == Len(h[1])
  <2> HIDE DEF a
  <2>3. a \in Nat /\ Len(w) = a + 1
    BY <1>1, <2>2 DEF a
  <2>4. Len(w) - a = 1
    BY <2>3
  <2> QED
    BY <2>4 DEF a
<1>5. o[Len(w) - Len(h[1])] = SubSeq(t, 1, n)
  BY <1>3
<1>6. SubSeq(t, 1, n) = t
  BY Suffixes
<1> QED
  BY <1>4, <1>5, <1>6, Zenon

LEMMA SingleReads ==
  ASSUME NEW E, NEW t \in Seq(E), NEW D, NEW w \in Seq(D), NEW h, IsLeft(w, "'", t, h), "'" \in S!Quotes
  PROVE  S!UnquoteSingle(S!Body(w)) = t
<1> DEFINE b == S!Body(w)
<1>1. Len(w) \in Nat /\ Len(w) >= 2 /\ Len(t) \in Nat
  BY DEF IsLeft
<1>2. b \in Seq(D) /\ Len(b) = Len(w) - 2 /\ \A p \in 2 .. Len(w) - 1 : b[p - 1] = w[p]
  BY <1>1, BodyAt
<1> HIDE DEF b
<1>3. PICK o : IsSingleScan(b, o) /\ S!UnquoteSingle(b) = o[1]
  BY <1>2, SingleScans
<1>4. \A i \in 1 .. Len(w) : o[i] = SingleStep(b, o, i)
  BY <1>1, <1>2, <1>3 DEF IsSingleScan
<1>5. o[Len(w) - 1] = << >>
  <2>1. Len(w) - 1 \in 1 .. Len(w) /\ Len(w) - 1 > Len(b)
    BY <1>1, <1>2
  <2> QED
    BY <1>4, <2>1, Zenon DEF SingleStep
<1>6. ASSUME NEW i \in 1 .. Len(t), NEW p \in Nat, p = Len(w) - Len(h[i]) + 1,
             o[Len(w) - Len(h[i + 1])] = SubSeq(t, i + 1, Len(t))
      PROVE  o[p - 1] = <<t[i]>> \o SubSeq(t, i + 1, Len(t))
  <2> DEFINE r == Len(w) - Len(h[i + 1])
  <2>1. IsAt(w, "'", t, h, i, p)
    BY <1>1, <1>6, LeftAt
  <2>2. /\ p \in 2 .. Len(w) - 1
        /\ ~IsEscaped("'", t[i]) => w[p] = t[i] /\ r + 1 = p + 1
        /\ IsEscaped("'", t[i]) => w[p] = "'" /\ w[p + 1] = t[i] /\ r + 1 = p + 2 /\ p + 2 <= Len(w)
    BY <2>1, Zenon DEF IsAt
  <2>3. r \in Int
    <3>1. Len(h[i + 1]) \in Nat
      <4>1. i + 1 \in 1 .. Len(t) + 1
        BY <1>1
      <4> QED
        BY <4>1, Zenon DEF IsLeft
    <3> DEFINE a == Len(h[i + 1])
    <3> HIDE DEF a
    <3>2. a \in Nat
      BY <3>1 DEF a
    <3>3. Len(w) - a \in Int
      BY <1>1, <3>2
    <3> QED
      BY <3>3 DEF a
  <2>4. o[r] = SubSeq(t, i + 1, Len(t))
    BY <1>6
  <2> HIDE DEF r
  <2>5. p - 1 \in 1 .. Len(w) /\ ~(p - 1 > Len(b)) /\ b[p - 1] = w[p] /\ p - 1 + 1 = p
    BY <1>1, <1>2, <2>2
  <2>6. CASE ~IsEscaped("'", t[i])
    <3>1. t[i] # "'" /\ r = p /\ w[p] = t[i]
      BY <2>2, <2>3, <2>6, WrittenAsIs
    <3>2. o[p - 1] = <<b[p - 1]>> \o o[p - 1 + 1]
      BY <1>4, <2>5, <3>1, Zenon DEF SingleStep
    <3> QED
      BY <2>4, <2>5, <3>1, <3>2, Zenon
  <2>7. CASE IsEscaped("'", t[i])
    <3>1. t[i] = "'" /\ r = p + 1 /\ p - 1 + 2 = p + 1 /\ p - 1 < Len(b)
      BY <1>1, <1>2, <2>2, <2>3, <2>7, WrittenAsIs
    <3>2. b[p] = w[p + 1]
      <4>1. p + 1 \in 2 .. Len(w) - 1 /\ p + 1 - 1 = p
        BY <1>1, <2>2, <2>7
      <4> QED
        BY <1>2, <4>1
    <3>3. b[p - 1] = "'" /\ b[p - 1 + 1] = "'"
      BY <2>2, <2>5, <2>7, <3>1, <3>2
    <3>4. o[p - 1] = <<"'">> \o o[p - 1 + 2]
      BY <1>4, <2>5, <3>1, <3>3, Zenon DEF SingleStep
    <3> QED
      BY <2>4, <3>1, <3>4, Zenon
  <2> QED
    BY <2>6, <2>7
<1>7. Reads(w, "'", t, h, o)
  BY <1>5, <1>6, Zenon DEF Reads
<1>8. o[1] = t
  BY <1>7, ReadsAll
<1> QED
  BY <1>3, <1>8 DEF b

LEMMA RefusedIsNoText ==
  ASSUME NEW E, "refused" \notin E, NEW t \in Seq(E)
  PROVE  t # S!Refused
<1> SUFFICES ASSUME t = S!Refused PROVE FALSE
  OBVIOUS
<1>1. Len(S!Refused) = 1 /\ S!Refused[1] = "refused"
  BY DEF S!Refused
<1>2. t[1] \in E
  BY <1>1
<1> QED
  BY <1>1, <1>2

LEMMA DoubleReads ==
  ASSUME NEW E, NEW t \in Seq(E), NEW D, NEW w \in Seq(D), NEW q \in S!Quotes, q # "'",
         NEW h, IsLeft(w, q, t, h), "refused" \notin E
  PROVE  S!UnquoteDouble(S!Body(w)) = t
<1> DEFINE b == S!Body(w)
<1>1. Len(w) \in Nat /\ Len(w) >= 2 /\ Len(t) \in Nat
  BY DEF IsLeft
<1>2. b \in Seq(D) /\ Len(b) = Len(w) - 2 /\ \A p \in 2 .. Len(w) - 1 : b[p - 1] = w[p]
  BY <1>1, BodyAt
<1> HIDE DEF b
<1>3. PICK o : IsDoubleScan(b, o) /\ S!UnquoteDouble(b) = o[1]
  BY <1>2, DoubleScans
<1>4. \A i \in 1 .. Len(w) : o[i] = DoubleStep(b, o, i)
  BY <1>1, <1>2, <1>3 DEF IsDoubleScan
<1>5. o[Len(w) - 1] = << >>
  <2>1. Len(w) - 1 \in 1 .. Len(w) /\ Len(w) - 1 > Len(b)
    BY <1>1, <1>2
  <2> QED
    BY <1>4, <2>1, Zenon DEF DoubleStep
<1>6. ASSUME NEW i \in 1 .. Len(t), NEW p \in Nat, p = Len(w) - Len(h[i]) + 1,
             o[Len(w) - Len(h[i + 1])] = SubSeq(t, i + 1, Len(t))
      PROVE  o[p - 1] = <<t[i]>> \o SubSeq(t, i + 1, Len(t))
  <2> DEFINE r == Len(w) - Len(h[i + 1])
  <2>1. IsAt(w, q, t, h, i, p)
    BY <1>1, <1>6, LeftAt
  <2>2. /\ p \in 2 .. Len(w) - 1
        /\ ~IsEscaped(q, t[i]) => w[p] = t[i] /\ r + 1 = p + 1
        /\ IsEscaped(q, t[i]) => w[p] = "\\" /\ w[p + 1] = t[i] /\ r + 1 = p + 2 /\ p + 2 <= Len(w)
    BY <2>1, Zenon DEF IsAt
  <2>3. r \in Int
    <3>1. Len(h[i + 1]) \in Nat
      <4>1. i + 1 \in 1 .. Len(t) + 1
        BY <1>1
      <4> QED
        BY <4>1, Zenon DEF IsLeft
    <3> DEFINE a == Len(h[i + 1])
    <3> HIDE DEF a
    <3>2. a \in Nat
      BY <3>1 DEF a
    <3>3. Len(w) - a \in Int
      BY <1>1, <3>2
    <3> QED
      BY <3>3 DEF a
  <2>4. o[r] = SubSeq(t, i + 1, Len(t))
    BY <1>6
  <2> HIDE DEF r
  <2>5. p - 1 \in 1 .. Len(w) /\ ~(p - 1 > Len(b)) /\ b[p - 1] = w[p] /\ p - 1 + 1 = p
    BY <1>1, <1>2, <2>2
  <2>6. SubSeq(t, i + 1, Len(t)) # S!Refused
    <3>1. SubSeq(t, i + 1, Len(t)) \in Seq(E)
      BY Suffixes
    <3> QED
      BY <3>1, RefusedIsNoText
  <2>7. CASE ~IsEscaped(q, t[i])
    <3>1. t[i] # "\\" /\ r = p /\ w[p] = t[i]
      BY <2>2, <2>3, <2>7, WrittenAsIs
    <3>2. o[p - 1] = <<b[p - 1]>> \o o[p - 1 + 1]
      BY <1>4, <2>4, <2>5, <2>6, <3>1, Zenon DEF DoubleStep, Malformed
    <3> QED
      BY <2>4, <2>5, <3>1, <3>2, Zenon
  <2>8. CASE IsEscaped(q, t[i])
    <3>1. t[i] \in S!Escapes /\ t[i] # "a" /\ r = p + 1 /\ p - 1 + 2 = p + 1 /\ p - 1 # Len(b)
      <4>1. t[i] \in S!Escapes /\ t[i] # "a"
        BY <2>8, WrittenAsIs, Zenon
      <4>2. r = p + 1 /\ p - 1 + 2 = p + 1 /\ p - 1 # Len(b)
        BY <1>1, <1>2, <2>2, <2>3, <2>8
      <4> QED
        BY <4>1, <4>2
    <3>2. b[p] = w[p + 1]
      <4>1. p + 1 \in 2 .. Len(w) - 1 /\ p + 1 - 1 = p
        BY <1>1, <2>2, <2>8
      <4> QED
        BY <1>2, <4>1
    <3>3. b[p - 1] = "\\" /\ b[p - 1 + 1] = t[i]
      BY <2>2, <2>5, <2>8, <3>2, Zenon
    <3>4. ~Malformed(b, p - 1) /\ S!Decoded(t[i]) = t[i]
      BY <3>1, <3>3, Zenon DEF Malformed, S!Decoded
    <3>5. o[p - 1] = <<S!Decoded(b[p - 1 + 1])>> \o o[p - 1 + 2]
      BY <1>4, <2>4, <2>5, <2>6, <3>1, <3>3, <3>4, Zenon DEF DoubleStep
    <3> QED
      BY <2>4, <3>1, <3>3, <3>4, <3>5, Zenon
  <2> QED
    BY <2>7, <2>8
<1>7. Reads(w, q, t, h, o)
  BY <1>5, <1>6, Zenon DEF Reads
<1>8. o[1] = t
  BY <1>7, ReadsAll
<1> QED
  BY <1>3, <1>8 DEF b

(* The string between the quotes is read back.                             *)
LEMMA SingleIs ==
  ASSUME NEW E, "refused" \notin E, NEW t \in Seq(E), NEW q \in S!Quotes
  PROVE  S!Single(S!Quoted(t, q)) = <<"text", t>>
<1> DEFINE w == S!Quoted(t, q)
           D == E \cup S!Quotes \cup {"\\"}
<1>1. PICK h : IsLeft(w, q, t, h)
  BY QuotedIs
<1>2. w \in Seq(D)
  BY QuotedIs
<1> HIDE DEF w, D
<1>3. w[1] = q /\ w # << >> /\ t # S!Refused
  <2>1. Len(w) >= 2 /\ w[1] = q /\ Len(<< >>) = 0
    BY <1>1, Zenon DEF IsLeft
  <2>2. w # << >>
    BY <2>1
  <2> QED
    BY <2>1, <2>2, RefusedIsNoText
<1>4. CASE q = "'"
  <2>1. S!UnquoteSingle(S!Body(w)) = t
    BY <1>1, <1>2, <1>4, SingleReads
  <2>2. "'" # "\""
    BY Zenon
  <2> QED
    BY <1>3, <1>4, <2>1, <2>2, Zenon DEF S!Single, w
<1>5. CASE q # "'"
  <2>1. S!UnquoteDouble(S!Body(w)) = t
    BY <1>1, <1>2, <1>5, DoubleReads
  <2>2. q = "\""
    BY <1>5, Zenon DEF S!Quotes
  <2> QED
    BY <1>3, <2>1, <2>2, Zenon DEF S!Single, w
<1> QED
  BY <1>4, <1>5, Zenon

(* A text that is one quote and is read as s.                              *)
IsQuote(w, D, s) ==
  /\ w \in Seq(D) /\ Len(w) >= 2 /\ w[1] \in S!Quotes /\ w[Len(w)] \in S!Quotes
  /\ S!QuoteEnd(w, 1) = Len(w)
  /\ S!Single(w) = s /\ s # S!Refused

LEMMA RefusedIs ==
  /\ \A x : x # "refused" => <<"refused">> # <<x>>
  /\ \A w : w[1] \in S!Quotes \/ w[1] = "text" \/ w[1] = "entry" => w # S!Refused
<1>1. \A x : <<x>>[1] = x
  OBVIOUS
<1>2. S!Refused[1] = "refused"
  BY <1>1, Zenon DEF S!Refused
<1>3. "refused" \notin S!Quotes /\ "refused" # "text" /\ "refused" # "entry"
  BY Zenon DEF S!Quotes
<1> QED
  BY <1>1, <1>2, <1>3, Zenon

LEMMA QuotedIsQuote ==
  ASSUME NEW E, "refused" \notin E, NEW t \in Seq(E), NEW q \in S!Quotes
  PROVE  IsQuote(S!Quoted(t, q), E \cup S!Quotes \cup {"\\"}, <<"text", t>>)
<1> DEFINE w == S!Quoted(t, q)
           D == E \cup S!Quotes \cup {"\\"}
<1>1. PICK h : IsLeft(w, q, t, h)
  BY QuotedIs
<1>2. w \in Seq(D)
  BY QuotedIs
<1>3. S!Single(w) = <<"text", t>>
  BY SingleIs
<1> HIDE DEF w, D
<1>4. Len(t) \in Nat
  OBVIOUS
<1>5. Len(w) >= 2 /\ w[1] = q
  BY <1>1, Zenon DEF IsLeft
<1>6. w[Len(w)] = q
  BY <1>1, <1>4, LeftEnd, Zenon
<1>7. S!QuoteEnd(w, 1) = Len(w)
  BY <1>1, <1>4, QuotedEnds, Zenon
<1>8. <<"text", t>> # S!Refused
  <2>1. \A x, y : <<x, y>>[1] = x
    OBVIOUS
  <2> QED
    BY <2>1, RefusedIs, Zenon
<1>9. IsQuote(w, D, <<"text", t>>)
  BY <1>2, <1>3, <1>5, <1>6, <1>7, <1>8, Zenon DEF IsQuote
<1> QED
  BY <1>9 DEF w, D

LEMMA QuoteFacts ==
  ASSUME NEW D, NEW w, NEW s, IsQuote(w, D, s)
  PROVE  /\ w \in Seq(D) /\ Len(w) \in Nat /\ Len(w) # 0 /\ w # << >> /\ w # S!Refused
         /\ ~IsBlank(w[1]) /\ ~IsBlank(w[Len(w)]) /\ w[1] # "[" /\ w[1] # "-"
<1>1. w \in Seq(D) /\ Len(w) >= 2 /\ w[1] \in S!Quotes /\ w[Len(w)] \in S!Quotes
  BY Zenon DEF IsQuote
<1>2. Len(w) \in Nat /\ Len(w) # 0 /\ w # << >>
  BY <1>1
<1>3. w[1] # "-"
  <2>1. "-" \notin S!Quotes
    BY Zenon DEF S!Quotes
  <2> QED
    BY <1>1, <2>1, Zenon
<1> QED
  BY <1>1, <1>2, <1>3, Kinds, RefusedIs, Zenon

(* As a value, with or without a comment after it.                         *)
LEMMA ValueRead ==
  ASSUME NEW D, NEW w, NEW s, IsQuote(w, D, s), NEW c \in {<< >>, Comment}
  PROVE  S!Value(w \o c) = s
<1>1. /\ w \in Seq(D) /\ Len(w) # 0 /\ w # << >> /\ w # S!Refused
      /\ ~IsBlank(w[1]) /\ ~IsBlank(w[Len(w)]) /\ w[1] # "["
  BY QuoteFacts, Zenon
<1>2. /\ w[1] \in S!Quotes /\ w[Len(w)] \in S!Quotes /\ S!QuoteEnd(w, 1) = Len(w)
      /\ S!Single(w) = s
  BY Zenon DEF IsQuote
<1>3. S!Strip(w \o c) = w \o c
  BY <1>1, WrittenIs, Zenon
<1>4. S!StripComment(w \o c) = w
  BY <1>1, <1>2, <1>3, QuoteStripped, Zenon
<1>5. S!Scalar(w) = s
  BY <1>1, <1>2, Zenon DEF S!Scalar
<1> QED
  BY <1>1, <1>4, <1>5, Zenon DEF S!Value

(* After a blank.                                                          *)
LEMMA StripBlank ==
  ASSUME NEW D, NEW v \in Seq(D), v # << >>, ~IsBlank(v[1]), ~IsBlank(v[Len(v)]),
         NEW y, IsBlank(y)
  PROVE  S!Strip(<<y>> \o v) = v
<1> DEFINE E == D \cup {y}
           u == <<y>> \o v
<1>1. u \in Seq(E)
  <2>1. <<y>> \in Seq(E) /\ v \in Seq(E)
    OBVIOUS
  <2> HIDE DEF E
  <2> QED
    BY <2>1
<1>2. /\ Len(u) = Len(v) + 1 /\ Len(v) \in Nat /\ Len(v) # 0 /\ u[1] = y
      /\ \A k \in 1 .. Len(v) : u[k + 1] = v[k]
  OBVIOUS
<1>3. SubSeq(u, 2, Len(u)) = v
  OBVIOUS
<1> HIDE DEF u, E
<1>4. ~IsBlank(u[2]) /\ ~IsBlank(u[Len(u)])
  <2>1. 1 \in 1 .. Len(v) /\ Len(v) \in 1 .. Len(v) /\ 1 + 1 = 2
    BY <1>2
  <2> QED
    BY <1>2, <2>1
<1>5. IsSaid(u, 2, Len(u))
  <2>1. 2 \in 1 .. Len(u) /\ Len(u) \in 2 .. Len(u)
    BY <1>2
  <2>2. \A i \in 1 .. 2 - 1 : i = 1
    OBVIOUS
  <2>3. \A i \in Len(u) + 1 .. Len(u) : FALSE
    BY <1>2
  <2> QED
    BY <1>2, <1>4, <2>1, <2>2, <2>3, Zenon DEF IsSaid
<1>6. S!Strip(u) = SubSeq(u, 2, Len(u))
  BY <1>1, <1>5, StripTo, Zenon
<1> QED
  BY <1>3, <1>6 DEF u

IsConcat(D, a, b, u) ==
  /\ u \in Seq(D) /\ Len(u) = Len(a) + Len(b) /\ Len(a) \in Nat /\ Len(b) \in Nat
  /\ \A k \in 1 .. Len(a) : u[k] = a[k]
  /\ \A k \in 1 .. Len(b) : u[Len(a) + k] = b[k]

LEMMA ConcatIs ==
  ASSUME NEW D, NEW a \in Seq(D), NEW b \in Seq(D)
  PROVE  IsConcat(D, a, b, a \o b)
BY DEF IsConcat

LEMMA ConcatAssociates ==
  ASSUME NEW D, NEW a \in Seq(D), NEW b \in Seq(D), NEW c \in Seq(D)
  PROVE  a \o b \o c = a \o (b \o c)
OBVIOUS

LEMMA Prefixed ==
  ASSUME NEW D, NEW v \in Seq(D), NEW c \in Seq(D), NEW x, NEW y
  PROVE  /\ (<<x, y>> \o v \o c)[1] = x /\ (<<x, y>> \o v \o c)[2] = y
         /\ S!After(<<x, y>> \o v \o c, 1) = <<y>> \o (v \o c)
<1> DEFINE E == D \cup {x, y}
           p == <<x, y>>
           u == p \o v \o c
           r == <<y>> \o (v \o c)
<1>1. /\ p \in Seq(E) /\ v \in Seq(E) /\ c \in Seq(E) /\ <<y>> \in Seq(E)
      /\ Len(p) = 2 /\ p[1] = x /\ p[2] = y /\ Len(<<y>>) = 1 /\ <<y>>[1] = y
  OBVIOUS
<1> HIDE DEF p, E
<1> DEFINE a == v \o c
<1>2. a \in Seq(E)
  BY <1>1, ConcatIs DEF IsConcat
<1>3. u = p \o a
  BY <1>1, ConcatAssociates
<1> HIDE DEF a, u
<1>4. u[1] = x /\ u[2] = y
  <2>1. \A k \in 1 .. Len(p) : u[k] = p[k]
    <3>1. IsConcat(E, p, a, u)
      BY <1>1, <1>2, <1>3, ConcatIs, Zenon
    <3> QED
      BY <3>1, Zenon DEF IsConcat
  <2>2. 1 \in 1 .. 2 /\ 2 \in 1 .. 2
    OBVIOUS
  <2> QED
    BY <1>1, <2>1, <2>2, Zenon
<1>5. SubSeq(p \o a, 2, Len(p \o a)) = <<y>> \o a
  BY <1>1, <1>2 DEF p
<1> QED
  BY <1>3, <1>4, <1>5 DEF S!After, u, a, p

(* As an item of a list.                                                   *)
LEMMA ItemRead ==
  ASSUME NEW D, NEW w, NEW s, IsQuote(w, D, s), NEW c \in {<< >>, Comment}
  PROVE  S!Line(<<"-", " ">> \o w \o c) = <<"item", w>>
<1> DEFINE v == w \o c
           u == <<"-", " ">> \o w \o c
           E == D \cup CommentChars
<1>1. /\ w \in Seq(D) /\ Len(w) # 0 /\ w # << >> /\ w # S!Refused
      /\ ~IsBlank(w[1]) /\ ~IsBlank(w[Len(w)])
  BY QuoteFacts, Zenon
<1>2. w[1] \in S!Quotes /\ w[Len(w)] \in S!Quotes /\ S!QuoteEnd(w, 1) = Len(w)
  BY Zenon DEF IsQuote
<1>3. v \in Seq(E) /\ v # << >> /\ v[1] = w[1]
  BY <1>1, WrittenIs, Zenon
<1>4. w \in Seq(E) /\ c \in Seq(E)
  <2>1. c \in Seq(CommentChars)
    BY EndingIs
  <2> HIDE DEF CommentChars
  <2> QED
    BY <1>1, <2>1
<1>5. ~IsBlank(v[Len(v)])
  <2>1. Len(c) \in Nat /\ (Len(c) = 0 \/ (Len(c) = 3 /\ ~IsBlank(c[3])))
    BY <1>4, EndingIs
  <2>2. /\ Len(v) = Len(w) + Len(c) /\ Len(w) \in Nat
        /\ \A k \in 1 .. Len(w) : v[k] = w[k]
        /\ \A k \in 1 .. Len(c) : v[Len(w) + k] = c[k]
    <3>1. IsConcat(E, w, c, v)
      BY <1>4, ConcatIs, Zenon
    <3> QED
      BY <3>1, Zenon DEF IsConcat
  <2> HIDE DEF v
  <2>3. Len(c) = 0 => v[Len(v)] = w[Len(w)]
    BY <1>1, <2>2
  <2>4. Len(c) = 3 => v[Len(v)] = c[3]
    <3>1. 3 \in 1 .. 3
      OBVIOUS
    <3> QED
      BY <2>2, <3>1
  <2> QED
    BY <1>1, <2>1, <2>3, <2>4, Zenon
<1> HIDE DEF E
<1>6. \A x, y : /\ (<<x, y>> \o w \o c)[1] = x /\ (<<x, y>> \o w \o c)[2] = y
                /\ S!After(<<x, y>> \o w \o c, 1) = <<y>> \o (w \o c)
  BY <1>4, Prefixed, Zenon
<1> HIDE DEF v
<1>7. \A y : IsBlank(y) => S!Strip(<<y>> \o v) = v
  BY <1>1, <1>3, <1>5, StripBlank, Zenon
<1>8. u[1] = "-" /\ u[2] = " " /\ S!Strip(S!After(u, 1)) = v
  BY <1>6, <1>7, Zenon DEF v, IsBlank
<1> HIDE DEF u
<1>9. S!StripComment(S!After(u, 1)) = w
  BY <1>1, <1>2, <1>8, QuoteStripped, Zenon DEF v
<1>10. S!Line(u) = <<"item", w>>
  BY <1>1, <1>2, <1>8, <1>9, Zenon DEF S!Line
<1> QED
  BY <1>10, Zenon DEF u

IsTwice(u, w, x, y) ==
  /\ Len(u) = 2 * Len(w) + 2 /\ Stands(u, 0, w) /\ Ends(u, Len(w))
  /\ u # << >> /\ u[1] = w[1] /\ u[Len(w) + 1] = x /\ u[Len(w) + 1 + 1] = y
  /\ SubSeq(u, 1, Len(w)) = w /\ S!After(u, Len(w) + 1) = <<y>> \o w

LEMMA Twice ==
  ASSUME NEW D, NEW w \in Seq(D), Len(w) # 0, NEW x, NEW y, x # "'"
  PROVE  IsTwice(w \o <<x, y>> \o w, w, x, y)
<1> DEFINE E == D \cup {x, y}
           p == <<x, y>>
           a == w \o p
           u == a \o w
<1>1. /\ p \in Seq(E) /\ w \in Seq(E) /\ Len(p) = 2 /\ p[1] = x /\ p[2] = y /\ Len(w) \in Nat
  OBVIOUS
<1>2. SubSeq(u, Len(w) + 1 + 1, Len(u)) = <<y>> \o w
  OBVIOUS
<1>3. SubSeq(u, 1, Len(w)) = w
  OBVIOUS
<1> HIDE DEF p, E
<1>4. IsConcat(E, w, p, a)
  BY <1>1, ConcatIs, Zenon
<1>5. IsConcat(E, a, w, u)
  <2>1. a \in Seq(E)
    BY <1>4 DEF IsConcat
  <2> HIDE DEF a
  <2> QED
    BY <1>1, <2>1, ConcatIs, Zenon
<1> HIDE DEF u, a
<1> USE DEF IsConcat
<1>6. Len(u) = 2 * Len(w) + 2 /\ Len(a) = Len(w) + 2
  BY <1>1, <1>4, <1>5
<1>7. \A k \in 1 .. Len(w) : u[k] = w[k]
  <2> SUFFICES ASSUME NEW k \in 1 .. Len(w) PROVE u[k] = w[k]
    OBVIOUS
  <2>1. k \in 1 .. Len(a)
    BY <1>1, <1>6
  <2> QED
    BY <1>4, <1>5, <2>1, Zenon
<1>8. u[Len(w) + 1] = x /\ u[Len(w) + 1 + 1] = y
  <2>1. /\ Len(w) + 1 \in 1 .. Len(a) /\ Len(w) + 2 \in 1 .. Len(a) /\ Len(w) + 1 + 1 = Len(w) + 2
        /\ 1 \in 1 .. Len(p) /\ 2 \in 1 .. Len(p)
    BY <1>1, <1>6
  <2>2. u[Len(w) + 1] = a[Len(w) + 1] /\ u[Len(w) + 2] = a[Len(w) + 2]
    BY <1>5, <2>1
  <2>3. a[Len(w) + 1] = p[1] /\ a[Len(w) + 2] = p[2]
    BY <1>4, <2>1
  <2> QED
    BY <1>1, <2>1, <2>2, <2>3, Zenon
<1>9. Stands(u, 0, w)
  <2>1. \A k \in 1 .. Len(w) : u[0 + k] = w[k]
    BY <1>7
  <2> QED
    BY <1>1, <1>6, <2>1 DEF Stands
<1>10. Ends(u, Len(w))
  BY <1>8, Zenon DEF Ends
<1>11. u # << >> /\ u[1] = w[1]
  <2>1. 1 \in 1 .. Len(w) /\ Len(u) # 0
    BY <1>1, <1>6
  <2>2. u # << >>
    BY <1>5, <2>1
  <2> QED
    BY <1>7, <2>1, <2>2
<1>12. S!After(u, Len(w) + 1) = <<y>> \o w
  BY <1>2 DEF S!After, u, a, p
<1>13. SubSeq(u, 1, Len(w)) = w
  BY <1>3 DEF u, a, p
<1> QED
  BY <1>6, <1>8, <1>9, <1>10, <1>11, <1>12, <1>13 DEF u, a, p, IsTwice

(* As a key, and as the value after it.                                    *)
LEMMA EntryRead ==
  ASSUME NEW D, NEW w, NEW s, IsQuote(w, D, s)
  PROVE  S!Line(w \o <<":", " ">> \o w) = <<"entry", s, w>>
<1> DEFINE u == w \o <<":", " ">> \o w
           n == Len(w)
<1>1. /\ w \in Seq(D) /\ n \in Nat /\ n # 0 /\ w # << >> /\ w # S!Refused
      /\ ~IsBlank(w[1]) /\ ~IsBlank(w[n]) /\ w[1] # "[" /\ w[1] # "-"
  BY QuoteFacts, Zenon
<1>2. /\ w[1] \in S!Quotes /\ w[n] \in S!Quotes /\ S!QuoteEnd(w, 1) = n
      /\ S!Single(w) = s /\ s # S!Refused
  BY Zenon DEF IsQuote
<1>3. \A x, y : x # "'" => IsTwice(w \o <<x, y>> \o w, w, x, y)
  BY <1>1, Twice, Zenon
<1>4. ":" # "'"
  BY Zenon
<1>5. /\ Len(u) = 2 * n + 2 /\ Stands(u, 0, w) /\ Ends(u, n) /\ u # << >> /\ u[1] = w[1]
      /\ u[n + 1] = ":" /\ u[n + 1 + 1] = " " /\ SubSeq(u, 1, n) = w
      /\ S!After(u, n + 1) = <<" ">> \o w
  <2>1. IsTwice(u, w, ":", " ")
    BY <1>3, <1>4, Zenon
  <2> HIDE DEF u
  <2> QED
    BY <2>1, Zenon DEF IsTwice
<1> HIDE DEF u
<1>6. S!Strip(S!After(u, n + 1)) = w \o << >>
  <2>1. w \o << >> = w
    BY <1>1
  <2>2. \A y : IsBlank(y) => S!Strip(<<y>> \o w) = w
    BY <1>1, StripBlank, Zenon
  <2> QED
    BY <1>5, <2>1, <2>2, Zenon DEF IsBlank
<1>7. S!StripComment(S!After(u, n + 1)) = w
  <2>1. << >> \in {<< >>, Comment}
    BY Zenon
  <2> QED
    BY <1>1, <1>2, <1>6, <2>1, QuoteStripped, Zenon
<1> HIDE DEF n
<1>8. S!QuoteEnd(u, 1) = n
  <2>1. 0 + 1 = 1 /\ 0 + n = n
    BY <1>1
  <2>2. Ends(u, 0 + n)
    BY <1>5, <2>1, Zenon
  <2>3. S!QuoteEnd(u, 0 + 1) = 0 + n
    BY <1>1, <1>2, <1>5, <2>2, QuoteStands, Zenon DEF n
  <2> QED
    BY <2>1, <2>3, Zenon
<1>9. n + 1 <= Len(u)
  <2>1. \A l : l = 2 * n + 2 => n + 1 <= l
    BY <1>1
  <2> QED
    BY <1>5, <2>1, Zenon
<1>10. S!SplitKey(u) = <<"entry", s, S!After(u, n + 1)>>
  BY <1>1, <1>2, <1>5, <1>8, <1>9, Zenon DEF S!SplitKey
<1>11. /\ <<"entry", s, S!After(u, n + 1)>>[2] = s
       /\ <<"entry", s, S!After(u, n + 1)>>[3] = S!After(u, n + 1)
       /\ <<"entry", s, S!After(u, n + 1)>> # S!Refused
  <2>1. \A x, y, z : <<x, y, z>>[1] = x /\ <<x, y, z>>[2] = y /\ <<x, y, z>>[3] = z
    OBVIOUS
  <2> QED
    BY <2>1, RefusedIs, Zenon
<1>12. S!Line(u) = <<"entry", s, w>>
  BY <1>1, <1>5, <1>7, <1>10, <1>11, Zenon DEF S!Line
<1> QED
  BY <1>12, Zenon DEF u

IsPair(D, t, w, x) ==
  /\ t \in Seq(D \cup {x}) /\ Len(t) = 2 * Len(w) + 1
  /\ t # << >> /\ t[1] = w[1] /\ t[Len(t)] = w[Len(w)] /\ t[Len(w) + 1] = x
  /\ SubSeq(t, 1, Len(w)) = w /\ SubSeq(t, Len(w) + 2, Len(t)) = w

LEMMA Pair ==
  ASSUME NEW D, NEW w \in Seq(D), Len(w) # 0, NEW x
  PROVE  IsPair(D, w \o <<x>> \o w, w, x)
<1> DEFINE E == D \cup {x}
           p == <<x>>
           a == w \o p
           u == a \o w
<1>1. p \in Seq(E) /\ w \in Seq(E) /\ Len(p) = 1 /\ p[1] = x /\ Len(w) \in Nat
  OBVIOUS
<1>2. SubSeq(u, Len(w) + 2, Len(u)) = w
  OBVIOUS
<1>3. SubSeq(u, 1, Len(w)) = w
  OBVIOUS
<1> HIDE DEF p, E
<1>4. IsConcat(E, w, p, a)
  BY <1>1, ConcatIs, Zenon
<1>5. IsConcat(E, a, w, u)
  <2>1. a \in Seq(E)
    BY <1>4 DEF IsConcat
  <2> HIDE DEF a
  <2> QED
    BY <1>1, <2>1, ConcatIs, Zenon
<1> HIDE DEF u, a
<1> USE DEF IsConcat
<1>6. Len(u) = 2 * Len(w) + 1 /\ Len(a) = Len(w) + 1
  BY <1>1, <1>4, <1>5
<1>7. u[1] = w[1] /\ u[Len(w) + 1] = x /\ u[Len(u)] = w[Len(w)]
  <2>1. /\ 1 \in 1 .. Len(a) /\ 1 \in 1 .. Len(w) /\ Len(w) + 1 \in 1 .. Len(a)
        /\ 1 \in 1 .. Len(p) /\ Len(w) \in 1 .. Len(w) /\ Len(u) = Len(a) + Len(w)
    BY <1>1, <1>6
  <2>2. u[1] = w[1]
    <3>1. u[1] = a[1] /\ a[1] = w[1]
      BY <1>4, <1>5, <2>1
    <3> QED
      BY <3>1
  <2>3. u[Len(w) + 1] = x
    BY <1>1, <1>4, <1>5, <2>1, Zenon
  <2>4. u[Len(u)] = w[Len(w)]
    BY <1>5, <2>1, Zenon
  <2> QED
    BY <2>2, <2>3, <2>4
<1>8. u # << >> /\ u \in Seq(D \cup {x})
  <2>1. u # << >>
    BY <1>1, <1>6
  <2> QED
    BY <1>5, <2>1 DEF E
<1> QED
  BY <1>2, <1>3, <1>6, <1>7, <1>8 DEF u, a, p, IsPair

LEMMA PairPieces ==
  ASSUME NEW D, NEW w \in Seq(D), Len(w) # 0, ~IsBlank(w[1]), ~IsBlank(w[Len(w)]),
         NEW t, NEW x, IsPair(D, t, w, x)
  PROVE  /\ S!Piece(t, {Len(w) + 1}, 0) = w /\ S!Piece(t, {Len(w) + 1}, Len(w) + 1) = w
         /\ S!Between(t, {Len(w) + 1}) = <<w, w>>
<1> DEFINE n == Len(w)
           cuts == {n + 1}
<1>1. /\ n \in Nat /\ Len(t) = 2 * n + 1 /\ SubSeq(t, 1, n) = w /\ SubSeq(t, n + 2, Len(t)) = w
      /\ w # << >>
  BY DEF IsPair
<1>2. S!Strip(w) = w
  BY <1>1, StripSame
<1> HIDE DEF n
<1>3. /\ Len(t) \in Nat /\ cuts \in SUBSET (1 .. Len(t)) /\ 0 \in 0 .. Len(t) /\ n + 1 \in 0 .. Len(t)
      /\ Len(t) + 1 \in 0 .. Len(t) + 1
  BY <1>1
<1> HIDE DEF cuts
<1>4. S!NextCut(t, cuts, 0) = n + 1
  <2>1. /\ S!NextCut(t, cuts, 0) \in cuts \cup {Len(t) + 1}
        /\ \A k \in cuts : k > 0 => S!NextCut(t, cuts, 0) <= k
    BY <1>3, NextCutIs
  <2> QED
    BY <1>1, <2>1 DEF cuts
<1>5. S!NextCut(t, cuts, n + 1) = Len(t) + 1
  <2>1. /\ S!NextCut(t, cuts, n + 1) \in cuts \cup {Len(t) + 1}
        /\ S!NextCut(t, cuts, n + 1) \in n + 1 + 1 .. Len(t) + 1
    BY <1>3, NextCutIs
  <2> QED
    BY <1>1, <2>1 DEF cuts
<1>6. S!Piece(t, cuts, 0) = w
  <2>1. 0 + 1 = 1 /\ (n + 1) - 1 = n
    BY <1>1
  <2> QED
    BY <1>1, <1>2, <1>4, <2>1, Zenon DEF S!Piece
<1>7. S!Piece(t, cuts, n + 1) = w
  <2>1. (n + 1) + 1 = n + 2 /\ (Len(t) + 1) - 1 = Len(t)
    BY <1>1
  <2> QED
    BY <1>1, <1>2, <1>5, <2>1, Zenon DEF S!Piece
<1>8. S!Between(t, cuts) = <<w, w>>
  <2>1. PICK h : IsBetweenScan(t, cuts, h) /\ S!Between(t, cuts) = h[0]
    BY <1>3, BetweenScans
  <2>2. \A i \in 0 .. Len(t) + 1 : h[i] = BetweenStep(t, cuts, h, i)
    BY <2>1, Zenon DEF IsBetweenScan
  <2>3. /\ ~(0 > Len(t)) /\ ~(n + 1 > Len(t)) /\ Len(t) + 1 > Len(t)
        /\ 0 \in 0 .. Len(t) + 1 /\ n + 1 \in 0 .. Len(t) + 1
    BY <1>1
  <2>4. h[Len(t) + 1] = << >>
    BY <1>3, <2>2, <2>3, Zenon DEF BetweenStep
  <2>5. h[n + 1] = <<w>> \o << >>
    BY <1>5, <1>7, <2>2, <2>3, <2>4, Zenon DEF BetweenStep
  <2>6. h[0] = <<w>> \o (<<w>> \o << >>)
    BY <1>4, <1>6, <2>2, <2>3, <2>5, Zenon DEF BetweenStep
  <2>7. \A z : <<z>> \o (<<z>> \o << >>) = <<z, z>>
    <3>1. \A z : <<z>> \o << >> = <<z>>
      OBVIOUS
    <3>2. \A z : <<z>> \o <<z>> = <<z, z>>
      <4> SUFFICES ASSUME NEW z PROVE <<z>> \o <<z>> = <<z, z>>
        OBVIOUS
      <4> DEFINE a == <<z>>
                 b == <<z, z>>
                 r == a \o a
      <4>1. a \in Seq({z}) /\ Len(a) = 1 /\ a[1] = z
        OBVIOUS
      <4>2. b \in Seq({z}) /\ Len(b) = 2 /\ b[1] = z /\ b[2] = z
        OBVIOUS
      <4> HIDE DEF a, b
      <4>3. r \in Seq({z}) /\ Len(r) = 2 /\ r[1] = z /\ r[2] = z
        <5>1. IsConcat({z}, a, a, r)
          BY <4>1, ConcatIs
        <5> HIDE DEF r
        <5>2. 1 \in 1 .. 1 /\ 1 + 1 = 2
          OBVIOUS
        <5> QED
          BY <4>1, <5>1, <5>2 DEF IsConcat
      <4> HIDE DEF r
      <4>4. r = b
        BY <4>2, <4>3
      <4> QED
        BY <4>4 DEF r, a, b
    <3> QED
      BY <3>1, <3>2, Zenon
  <2> QED
    BY <2>1, <2>6, <2>7, Zenon
<1> QED
  BY <1>6, <1>7, <1>8 DEF cuts, n

(* As two items of a one-line sequence.                                    *)
IsQuotePair(t, D, w, s, x) == IsQuote(w, D, s) /\ IsComma(x) /\ t = w \o <<x>> \o w

IsReadTwice(t, c, s) == S!Value(S!Bracketed(t) \o c) = <<"list", <<s, s>> >>

LEMMA PairRead ==
  ASSUME NEW D, NEW w, NEW s, NEW x, NEW t, IsQuotePair(t, D, w, s, x), NEW c \in {<< >>, Comment}
  PROVE  IsReadTwice(t, c, s)
<1> DEFINE cuts == {Len(w) + 1}
<1> USE DEF IsQuotePair
<1>1. /\ w \in Seq(D) /\ Len(w) \in Nat /\ Len(w) # 0 /\ w # << >>
      /\ ~IsBlank(w[1]) /\ ~IsBlank(w[Len(w)])
  BY QuoteFacts, Zenon
<1>2. /\ w[1] \in S!Quotes /\ S!QuoteEnd(w, 1) = Len(w) /\ S!Single(w) = s /\ s # S!Refused
  BY Zenon DEF IsQuote
<1>3. IsPair(D, t, w, x)
  BY <1>1, Pair, Zenon
<1>4. /\ t \in Seq(D \cup {x}) /\ Len(t) = 2 * Len(w) + 1
      /\ t # << >> /\ t[1] = w[1] /\ t[Len(t)] = w[Len(w)] /\ t[Len(w) + 1] = x
  BY <1>3, Zenon DEF IsPair
<1>5. S!Strip(t) = t
  BY <1>1, <1>4, StripSame, Zenon
<1>6. S!Piece(t, cuts, 0) = w /\ S!Piece(t, cuts, Len(w) + 1) = w /\ S!Between(t, cuts) = <<w, w>>
  BY <1>1, <1>3, PairPieces
<1>7. Separate(t, cuts)
  <2>1. IsItem(w)
    BY <1>1, <1>2 DEF IsItem
  <2>2. cuts \in SUBSET (1 .. Len(t))
    BY <1>1, <1>4
  <2> QED
    BY <1>4, <1>6, <2>1, <2>2, Zenon DEF Separate
<1> HIDE DEF cuts
<1>8. S!Value(S!Bracketed(t) \o c) = ListRead(S!Between(t, cuts))
  <2>1. Separate(S!Strip(t), cuts)
    BY <1>5, <1>7, Zenon
  <2>2. S!Value(S!Bracketed(t) \o c) = ListRead(S!Between(S!Strip(t), cuts))
    BY <1>4, <2>1, SeparateRead, Zenon
  <2> QED
    BY <1>5, <2>2, Zenon
<1>9. ListRead(<<w, w>>) = <<"list", <<s, s>> >>
  <2>1. \A z : DOMAIN <<z, z>> = {1, 2} /\ \A k \in {1, 2} : <<z, z>>[k] = z
    OBVIOUS
  <2>2. \A z : [k \in {1, 2} |-> z] = <<z, z>>
    OBVIOUS
  <2> DEFINE i == <<w, w>>
  <2>3. DOMAIN i = {1, 2} /\ \A k \in DOMAIN i : i[k] = w
    BY <2>1, Zenon
  <2> HIDE DEF i
  <2>4. [k \in DOMAIN i |-> S!Single(i[k])] = [k \in {1, 2} |-> s]
    BY <1>2, <2>3, Zenon
  <2>5. ~\E k \in DOMAIN i : i[k] = << >> \/ S!Single(i[k]) = S!Refused
    BY <1>1, <1>2, <2>3, Zenon
  <2>6. ListRead(i) = <<"list", <<s, s>> >>
    BY <2>2, <2>4, <2>5, Zenon DEF ListRead
  <2> QED
    BY <2>6 DEF i
<1>10. S!Value(S!Bracketed(t) \o c) = <<"list", <<s, s>> >>
  BY <1>6, <1>8, <1>9, Zenon
<1> QED
  BY <1>10, Zenon DEF IsReadTwice

(* Whatever a string holds, put between quotes of either kind it is read   *)
(* as that string: as a value, an item, both items of a one-line sequence, *)
(* a key and what follows a key, with or without a comment after it        *)
(* (_strip_comment, _flow_end, _scalar, _split_key, _lines). For strings   *)
(* of every length over every set of characters that the mark of a refused *)
(* text is not one of.                                                     *)
THEOREM ParserQuotedIsRead == Spec => []QuotedIsRead
<1>1. IsText => QuotedIsRead
  <2> SUFFICES ASSUME text \in Seq(Chars) PROVE QuotedIsRead
    BY DEF IsText
  <2> DEFINE string == <<"text", text>>
  <2>1. ASSUME NEW quote \in S!Quotes
        PROVE  LET written == S!Quoted(text, quote)
               IN /\ \A comment \in {<< >>, Comment} :
                       /\ S!Value(written \o comment) = string
                       /\ S!Line(<<"-", " ">> \o written \o comment) = <<"item", written>>
                       /\ S!Value(S!Bracketed(written \o <<",">> \o written) \o comment) = <<"list", <<string, string>> >>
                  /\ S!Line(written \o <<":", " ">> \o written) = <<"entry", string, written>>
    <3> DEFINE w == S!Quoted(text, quote)
               D == Chars \cup S!Quotes \cup {"\\"}
    <3>1. IsQuote(w, D, string)
      BY CharsAssumption, QuotedIsQuote, Zenon
    <3> HIDE DEF w, D, string
    <3>2. \A c \in {<< >>, Comment} :
            /\ S!Value(w \o c) = string
            /\ S!Line(<<"-", " ">> \o w \o c) = <<"item", w>>
            /\ \A x : IsComma(x) => S!Value(S!Bracketed(w \o <<x>> \o w) \o c) = <<"list", <<string, string>> >>
      <4> SUFFICES ASSUME NEW c \in {<< >>, Comment}
                   PROVE  /\ S!Value(w \o c) = string
                          /\ S!Line(<<"-", " ">> \o w \o c) = <<"item", w>>
                          /\ \A x : IsComma(x) => S!Value(S!Bracketed(w \o <<x>> \o w) \o c) = <<"list", <<string, string>> >>
        BY Zenon
      <4>1. S!Value(w \o c) = string
        BY <3>1, ValueRead, Zenon
      <4>2. S!Line(<<"-", " ">> \o w \o c) = <<"item", w>>
        BY <3>1, ItemRead, Zenon
      <4>3. \A x : IsComma(x) => S!Value(S!Bracketed(w \o <<x>> \o w) \o c) = <<"list", <<string, string>> >>
        <5> SUFFICES ASSUME NEW x, IsComma(x)
                     PROVE  S!Value(S!Bracketed(w \o <<x>> \o w) \o c) = <<"list", <<string, string>> >>
          BY Zenon
        <5> DEFINE t == w \o <<x>> \o w
        <5>1. IsQuotePair(t, D, w, string, x) /\ t = w \o <<x>> \o w
          BY <3>1, Zenon DEF IsQuotePair
        <5> HIDE DEF t
        <5>2. S!Value(S!Bracketed(t) \o c) = <<"list", <<string, string>> >>
          <6>1. IsReadTwice(t, c, string)
            BY <5>1, PairRead, Zenon
          <6> QED
            BY <6>1, Zenon DEF IsReadTwice
        <5> QED
          BY <5>1, <5>2, Zenon
      <4> QED
        BY <4>1, <4>2, <4>3, Zenon
    <3>3. S!Line(w \o <<":", " ">> \o w) = <<"entry", string, w>>
      BY <3>1, EntryRead, Zenon
    <3> QED
      BY <3>2, <3>3, Zenon DEF IsComma, w
  <2> QED
    BY <2>1, Zenon DEF QuotedIsRead
<1> QED
  BY <1>1, TextInvariant, PTL

-----------------------------------------------------------------------------
(* How lines are put together (_block, parse_yaml). Only how deep a line   *)
(* is counts: where the block ends that begins with it, what lies below    *)
(* it, and what follows it in its block can be told from the depths alone. *)

(* The nearest position before i that is less deep; 0 if there is none.    *)
IsOwner(d, i, o) ==
  /\ o \in 0 .. i - 1 /\ (o # 0 => d[o] < d[i])
  /\ \A j \in o + 1 .. i - 1 : d[j] >= d[i]

(* The first position after i that is less deep, or that is no deeper; n + *)
(* 1 if there is none.                                                     *)
IsEnd(d, n, i, e) ==
  /\ e \in i + 1 .. n + 1 /\ (e # n + 1 => d[e] < d[i])
  /\ \A k \in i + 1 .. e - 1 : d[k] >= d[i]

IsNext(d, n, i, m) ==
  /\ m \in i + 1 .. n + 1 /\ (m # n + 1 => d[m] <= d[i])
  /\ \A k \in i + 1 .. m - 1 : d[k] > d[i]

(* A document, seen as depths: owners, and where what starts at each       *)
(* position ends.                                                          *)
IsShape(n, d, o, e, f) ==
  /\ n \in Nat /\ \A i \in 1 .. n : d[i] \in Nat
  /\ \A i \in 1 .. n : IsOwner(d, i, o[i]) /\ IsEnd(d, n, i, e[i]) /\ IsNext(d, n, i, f[i])

(* What lies below i belongs to i or to what lies below it.                *)
LEMMA BelowOwned ==
  ASSUME NEW n, NEW d, NEW o, NEW e, NEW f, IsShape(n, d, o, e, f),
         NEW i \in 1 .. n, NEW j \in i + 1 .. f[i] - 1
  PROVE  j \in 1 .. n /\ o[j] \in i .. j - 1
<1>1. n \in Nat /\ d[i] \in Nat /\ f[i] \in i + 1 .. n + 1 /\ d[j] > d[i]
  BY DEF IsShape, IsNext
<1>2. j \in 1 .. n
  BY <1>1
<1>3. o[j] \in 0 .. j - 1 /\ \A k \in o[j] + 1 .. j - 1 : d[k] >= d[j]
  BY <1>2 DEF IsShape, IsOwner
<1>4. d[j] \in Nat
  BY <1>2 DEF IsShape
<1> QED
  BY <1>1, <1>2, <1>3, <1>4

(* In a block, what does not belong to it from within belongs where its    *)
(* first line does, and is as deep.                                        *)
LEMMA BlockOwned ==
  ASSUME NEW n, NEW d, NEW o, NEW e, NEW f, IsShape(n, d, o, e, f),
         NEW i \in 1 .. n, NEW j \in i .. e[i] - 1
  PROVE  /\ j \in 1 .. n /\ o[i] \in 0 .. i - 1 /\ o[j] \in 0 .. j - 1
         /\ o[j] >= i \/ (o[j] = o[i] /\ d[j] = d[i])
<1>1. /\ n \in Nat /\ d[i] \in Nat /\ e[i] \in i + 1 .. n + 1
      /\ \A k \in i + 1 .. e[i] - 1 : d[k] >= d[i]
  BY DEF IsShape, IsEnd
<1>2. j \in 1 .. n /\ d[j] \in Nat
  BY <1>1 DEF IsShape
<1>3. /\ o[j] \in 0 .. j - 1 /\ (o[j] # 0 => d[o[j]] < d[j])
      /\ \A k \in o[j] + 1 .. j - 1 : d[k] >= d[j]
  BY <1>2 DEF IsShape, IsOwner
<1>4. /\ o[i] \in 0 .. i - 1 /\ (o[i] # 0 => d[o[i]] < d[i])
      /\ \A k \in o[i] + 1 .. i - 1 : d[k] >= d[i]
  BY DEF IsShape, IsOwner
<1>5. ASSUME o[j] < i PROVE o[j] = o[i] /\ d[j] = d[i]
  <2>1. d[j] = d[i]
    BY <1>1, <1>2, <1>3, <1>5
  <2>2. ~(o[j] > o[i])
    <3> SUFFICES ASSUME o[j] > o[i] PROVE FALSE
      OBVIOUS
    <3>1. o[j] \in o[i] + 1 .. i - 1 /\ o[j] # 0
      BY <1>3, <1>4, <1>5
    <3>2. o[j] \in 1 .. n
      BY <1>1, <1>2, <1>3, <3>1
    <3>3. d[o[j]] \in Nat
      BY <3>2 DEF IsShape
    <3> QED
      BY <1>1, <1>2, <1>3, <1>4, <2>1, <3>1, <3>3
  <2>3. ~(o[i] > o[j])
    <3> SUFFICES ASSUME o[i] > o[j] PROVE FALSE
      OBVIOUS
    <3>1. o[i] \in o[j] + 1 .. j - 1 /\ o[i] # 0
      BY <1>3, <1>4, <1>5
    <3>2. o[i] \in 1 .. n
      BY <1>1, <1>4, <3>1
    <3>3. d[o[i]] \in Nat
      BY <3>2 DEF IsShape
    <3> QED
      BY <1>1, <1>2, <1>3, <1>4, <2>1, <3>1, <3>3
  <2> QED
    BY <1>3, <1>4, <2>1, <2>2, <2>3
<1> QED
  BY <1>2, <1>3, <1>4, <1>5

(* What comes next in the block is as deep, belongs to the same line, and  *)
(* ends with the block.                                                    *)
LEMMA NextInBlock ==
  ASSUME NEW n, NEW d, NEW o, NEW e, NEW f, IsShape(n, d, o, e, f), NEW i \in 1 .. n
  PROVE  /\ f[i] \in i + 1 .. e[i] /\ e[i] \in i + 1 .. n + 1
         /\ f[i] < e[i] => /\ f[i] \in 1 .. n /\ d[f[i]] = d[i] /\ o[f[i]] = o[i]
                           /\ e[f[i]] = e[i]
<1> DEFINE m == f[i]
           r == e[i]
<1>1. /\ n \in Nat /\ d[i] \in Nat /\ r \in i + 1 .. n + 1 /\ (r # n + 1 => d[r] < d[i])
      /\ \A k \in i + 1 .. r - 1 : d[k] >= d[i]
  BY DEF IsShape, IsEnd
<1>2. /\ m \in i + 1 .. n + 1 /\ (m # n + 1 => d[m] <= d[i])
      /\ \A k \in i + 1 .. m - 1 : d[k] > d[i]
  BY DEF IsShape, IsNext
<1>3. \A k \in 1 .. n : d[k] \in Nat
  BY DEF IsShape
<1>4. m <= r
  <2> SUFFICES ASSUME r < m PROVE FALSE
    BY <1>1, <1>2
  <2>1. r \in i + 1 .. m - 1 /\ r \in 1 .. n
    BY <1>1, <1>2
  <2> QED
    BY <1>1, <1>2, <1>3, <2>1
<1>5. ASSUME m < r PROVE m \in 1 .. n /\ d[m] = d[i] /\ o[m] = o[i] /\ e[m] = r
  <2>1. m \in 1 .. n /\ m \in i + 1 .. r - 1
    BY <1>1, <1>2, <1>5
  <2>2. d[m] = d[i]
    BY <1>1, <1>2, <1>3, <2>1
  <2>3. o[m] = o[i]
    <3>1. m \in i .. e[i] - 1
      BY <1>1, <2>1
    <3>2. o[m] \in 0 .. m - 1 /\ (o[m] # 0 => d[o[m]] < d[m])
      BY <2>1 DEF IsShape, IsOwner
    <3>3. ~(o[m] >= i)
      <4> SUFFICES ASSUME o[m] >= i PROVE FALSE
        OBVIOUS
      <4>1. o[m] # 0 /\ o[m] \in 1 .. n /\ (o[m] = i \/ o[m] \in i + 1 .. m - 1)
        BY <1>1, <2>1, <3>2
      <4> QED
        BY <1>1, <1>2, <1>3, <2>2, <3>2, <4>1
    <3> QED
      BY <3>1, <3>3, BlockOwned
  <2>4. e[m] = r
    <3>1. /\ e[m] \in m + 1 .. n + 1 /\ (e[m] # n + 1 => d[e[m]] < d[m])
          /\ \A k \in m + 1 .. e[m] - 1 : d[k] >= d[m]
      BY <2>1 DEF IsShape, IsEnd
    <3>2. ~(e[m] < r)
      <4> SUFFICES ASSUME e[m] < r PROVE FALSE
        OBVIOUS
      <4>1. e[m] \in i + 1 .. r - 1 /\ e[m] \in 1 .. n /\ e[m] # n + 1
        BY <1>1, <2>1, <3>1
      <4> QED
        BY <1>1, <1>3, <2>2, <3>1, <4>1
    <3>3. ~(r < e[m])
      <4> SUFFICES ASSUME r < e[m] PROVE FALSE
        OBVIOUS
      <4>1. r \in m + 1 .. e[m] - 1 /\ r \in 1 .. n /\ r # n + 1
        BY <1>1, <1>5, <2>1, <3>1
      <4> QED
        BY <1>1, <1>3, <2>2, <3>1, <4>1
    <3> QED
      BY <1>1, <2>1, <3>1, <3>2, <3>3
  <2> QED
    BY <2>1, <2>2, <2>3, <2>4
<1> QED
  BY <1>1, <1>2, <1>4, <1>5

(* The block below i belongs to i; so does the line that ends it early.    *)
LEMMA ChildBlock ==
  ASSUME NEW n, NEW d, NEW o, NEW e, NEW f, IsShape(n, d, o, e, f), NEW i \in 1 .. n, i + 1 < f[i]
  PROVE  /\ i + 1 \in 1 .. n /\ o[i + 1] = i /\ d[i + 1] > d[i] /\ e[i + 1] \in i + 2 .. f[i]
         /\ e[i + 1] < f[i] => /\ e[i + 1] \in 1 .. n /\ o[e[i + 1]] = i
                               /\ d[e[i + 1]] > d[i] /\ d[e[i + 1]] < d[i + 1]
<1> DEFINE m == f[i]
           c == i + 1
           r == e[c]
<1>1. /\ n \in Nat /\ m \in i + 1 .. n + 1 /\ (m # n + 1 => d[m] <= d[i])
      /\ \A k \in i + 1 .. m - 1 : d[k] > d[i]
  BY DEF IsShape, IsNext
<1>2. \A k \in 1 .. n : d[k] \in Nat
  BY DEF IsShape
<1>3. c \in 1 .. n /\ c \in i + 1 .. m - 1
  BY <1>1
<1>4. o[c] = i
  <2>1. o[c] \in i .. c - 1
    BY <1>3, BelowOwned
  <2> HIDE DEF m, r
  <2> QED
    BY <1>1, <2>1
<1>5. /\ r \in c + 1 .. n + 1 /\ (r # n + 1 => d[r] < d[c])
      /\ \A k \in c + 1 .. r - 1 : d[k] >= d[c]
  BY <1>3 DEF IsShape, IsEnd
<1>6. d[c] > d[i]
  BY <1>1, <1>3
<1>7. r <= m
  <2> SUFFICES ASSUME m < r PROVE FALSE
    BY <1>1, <1>5
  <2>1. m \in c + 1 .. r - 1 /\ m \in 1 .. n /\ m # n + 1
    BY <1>1, <1>3, <1>5
  <2> QED
    BY <1>1, <1>2, <1>3, <1>5, <1>6, <2>1
<1>8. ASSUME r < m PROVE r \in 1 .. n /\ o[r] = i /\ d[r] > d[i] /\ d[r] < d[c]
  <2>1. r \in 1 .. n /\ r \in i + 1 .. m - 1 /\ r # n + 1
    BY <1>1, <1>5, <1>8
  <2>2. o[r] \in i .. r - 1
    BY <2>1, BelowOwned
  <2>3. o[r] # 0 => d[o[r]] < d[r]
    BY <2>1 DEF IsShape, IsOwner
  <2>4. ~(o[r] > i)
    <3> SUFFICES ASSUME o[r] > i PROVE FALSE
      OBVIOUS
    <3>1. o[r] # 0 /\ o[r] \in 1 .. n /\ (o[r] = c \/ o[r] \in c + 1 .. r - 1)
      <4> HIDE DEF m, r
      <4> QED
        BY <1>1, <1>5, <2>1, <2>2
    <3> QED
      BY <1>2, <1>3, <1>5, <2>1, <2>3, <3>1
  <2> QED
    BY <1>1, <1>5, <2>1, <2>2, <2>4
<1> QED
  BY <1>1, <1>3, <1>4, <1>5, <1>6, <1>7, <1>8

(* What belongs to i lies below it, in one run.                            *)
LEMMA OwnedBelow ==
  ASSUME NEW n, NEW d, NEW o, NEW e, NEW f, IsShape(n, d, o, e, f),
         NEW i \in 1 .. n, NEW j \in 1 .. n, o[j] = i
  PROVE  j \in i + 1 .. f[i] - 1
<1>1. /\ n \in Nat /\ f[i] \in i + 1 .. n + 1 /\ (f[i] # n + 1 => d[f[i]] <= d[i])
  BY DEF IsShape, IsNext
<1>2. /\ i \in 0 .. j - 1 /\ d[i] < d[j] /\ \A k \in i + 1 .. j - 1 : d[k] >= d[j]
  BY DEF IsShape, IsOwner
<1>3. \A k \in 1 .. n : d[k] \in Nat
  BY DEF IsShape
<1>4. ~(j >= f[i])
  <2> SUFFICES ASSUME j >= f[i] PROVE FALSE
    OBVIOUS
  <2>1. f[i] # n + 1 /\ f[i] \in 1 .. n /\ (f[i] = j \/ f[i] \in i + 1 .. j - 1)
    BY <1>1, <1>2
  <2> QED
    BY <1>1, <1>2, <1>3, <2>1
<1> QED
  BY <1>1, <1>2, <1>4

(* The places of some lines among themselves, from the first of them.      *)

LEMMA CardinalityIs ==
  ASSUME NEW T PROVE B!Cardinality(T) = Cardinality(T)
  BY DEF B!Cardinality, Cardinality

LEMMA LeastIs ==
  ASSUME NEW T \in SUBSET Nat, T # {}
  PROVE  B!Min(T) \in T /\ \A k \in T : B!Min(T) <= k
<1>1. \E m \in T : \A k \in T : m <= k
  BY NatLeast
<1> QED
  BY <1>1 DEF B!Min

LEMMA LeastOne ==
  ASSUME NEW T \in SUBSET Nat, NEW i \in T, \A k \in T : i <= k
  PROVE  B!Min(T) = i
<1>1. T # {} /\ i \in Nat
  OBVIOUS
<1>2. B!Min(T) \in T /\ \A k \in T : B!Min(T) <= k
  BY <1>1, LeastIs
<1>3. B!Min(T) \in Nat
  BY <1>2
<1> QED
  BY <1>1, <1>2, <1>3

(* The first of some lines, and the others.                                *)
IsFirst(i, H) == i \in Nat /\ H \in SUBSET Nat /\ IsFiniteSet(H) /\ \A k \in H : k > i

LEMMA FirstCounts ==
  ASSUME NEW i, NEW H, IsFirst(i, H)
  PROVE  Cardinality(H) \in Nat /\ Cardinality({i} \cup H) = Cardinality(H) + 1
<1>1. i \notin H /\ IsFiniteSet(H)
  BY DEF IsFirst
<1>2. Cardinality(H) \in Nat
  BY <1>1, FS_CardinalityType
<1>3. Cardinality(H \cup {i}) = Cardinality(H) + 1
  BY <1>1, FS_AddElement
<1>4. H \cup {i} = {i} \cup H
  OBVIOUS
<1> QED
  BY <1>2, <1>3, <1>4

Rank(T, i) == Cardinality({j \in T : j <= i})

LEMMA FirstRanks ==
  ASSUME NEW i, NEW H, IsFirst(i, H)
  PROVE  /\ Rank({i} \cup H, i) = 1
         /\ \A j \in H : Rank({i} \cup H, j) = Rank(H, j) + 1 /\ Rank(H, j) \in Nat \ {0}
<1> DEFINE R == {i} \cup H
<1>1. i \in Nat /\ H \in SUBSET Nat /\ IsFiniteSet(H) /\ \A k \in H : k > i
  BY DEF IsFirst
<1>2. {j \in R : j <= i} = {i}
  <2>1. \A j \in R : j <= i <=> j = i
    BY <1>1
  <2> QED
    BY <2>1
<1>3. Rank(R, i) = 1
  <2>1. Cardinality({i}) = 1
    BY FS_Singleton
  <2> QED
    BY <1>2, <2>1 DEF Rank
<1>4. ASSUME NEW j \in H PROVE Rank(R, j) = Rank(H, j) + 1 /\ Rank(H, j) \in Nat \ {0}
  <2> DEFINE K == {x \in H : x <= j}
  <2>1. {x \in R : x <= j} = {i} \cup K
    BY <1>1
  <2>2. K \in SUBSET H /\ j \in K
    BY <1>1
  <2>3. IsFiniteSet(K)
    BY <1>1, <2>2, FS_Subset
  <2>4. IsFirst(i, K)
    BY <1>1, <2>2, <2>3 DEF IsFirst
  <2> HIDE DEF K
  <2>5. Cardinality(K) \in Nat /\ Cardinality({i} \cup K) = Cardinality(K) + 1
    BY <2>4, FirstCounts
  <2>6. Cardinality(K) # 0
    BY <2>2, <2>3, FS_EmptySet
  <2>7. Rank(H, j) = Cardinality(K) /\ Rank(R, j) = Cardinality({i} \cup K)
    BY <2>1 DEF Rank, K
  <2> QED
    BY <2>5, <2>6, <2>7
<1> QED
  BY <1>3, <1>4

LEMMA NthIs ==
  ASSUME NEW T, NEW k PROVE B!Nth(T, k) = B!Min({i \in T : Rank(T, i) = k})
<1>1. \A i : B!Cardinality({j \in T : j <= i}) = Rank(T, i)
  BY CardinalityIs DEF Rank
<1> QED
  BY <1>1 DEF B!Nth

LEMMA FirstNth ==
  ASSUME NEW i, NEW H, IsFirst(i, H)
  PROVE  /\ B!Nth({i} \cup H, 1) = i
         /\ \A k \in Nat \ {0} : B!Nth({i} \cup H, k + 1) = B!Nth(H, k)
<1> DEFINE R == {i} \cup H
<1>1. i \in Nat /\ H \in SUBSET Nat /\ \A k \in H : k > i
  BY DEF IsFirst
<1>2. /\ Rank(R, i) = 1
      /\ \A j \in H : Rank(R, j) = Rank(H, j) + 1 /\ Rank(H, j) \in Nat \ {0}
  BY FirstRanks
<1>3. B!Nth(R, 1) = i
  <2>1. {j \in R : Rank(R, j) = 1} = {i}
    <3>1. \A j \in R : Rank(R, j) = 1 <=> j = i
      <4> SUFFICES ASSUME NEW j \in H, Rank(R, j) = 1 PROVE FALSE
        BY <1>2
      <4> QED
        BY <1>2
    <3> QED
      BY <3>1
  <2>2. B!Min({i}) = i
    BY <1>1, LeastOne
  <2> QED
    BY <2>1, <2>2, NthIs
<1>4. ASSUME NEW k \in Nat \ {0} PROVE B!Nth(R, k + 1) = B!Nth(H, k)
  <2>1. {j \in R : Rank(R, j) = k + 1} = {j \in H : Rank(H, j) = k}
    BY <1>2
  <2> QED
    BY <2>1, NthIs
<1> QED
  BY <1>3, <1>4

(* The depths of the lines of a document.                                  *)

IsLines(l) ==
  /\ Len(l) \in Nat /\ DOMAIN l = 1 .. Len(l)
  /\ \A i \in 1 .. Len(l) : l[i].indent \in Nat /\ l[i].item \in BOOLEAN /\ l[i].says \in BOOLEAN

(* How deep a line is: an item is deeper than the entry at its indentation.*)
DepthsOf(l) == [i \in 1 .. Len(l) |-> IF l[i].item THEN 2 * l[i].indent + 1 ELSE 2 * l[i].indent]

LEMMA DepthsCompare ==
  ASSUME NEW l, IsLines(l), NEW i \in 1 .. Len(l), NEW j \in 1 .. Len(l)
  PROVE  /\ DepthsOf(l)[i] \in Nat
         /\ DepthsOf(l)[j] < DepthsOf(l)[i] <=>
              \/ l[j].indent < l[i].indent
              \/ l[i].item /\ ~l[j].item /\ l[j].indent = l[i].indent
         /\ DepthsOf(l)[j] = DepthsOf(l)[i] <=> l[j].indent = l[i].indent /\ l[j].item = l[i].item
<1>1. /\ l[i].indent \in Nat /\ l[j].indent \in Nat
      /\ l[i].item \in BOOLEAN /\ l[j].item \in BOOLEAN
  BY DEF IsLines
<1>2. /\ DepthsOf(l)[i] = IF l[i].item THEN 2 * l[i].indent + 1 ELSE 2 * l[i].indent
      /\ DepthsOf(l)[j] = IF l[j].item THEN 2 * l[j].indent + 1 ELSE 2 * l[j].indent
  BY DEF DepthsOf
<1> DEFINE a == l[i].indent
           b == l[j].indent
<1>3. CASE l[i].item /\ l[j].item
  <2>1. /\ DepthsOf(l)[i] = 2 * a + 1 /\ DepthsOf(l)[j] = 2 * b + 1 /\ a \in Nat /\ b \in Nat
        /\ l[j].item = l[i].item
    BY <1>1, <1>2, <1>3
  <2> HIDE DEF a, b
  <2>2. /\ 2 * b + 1 < 2 * a + 1 <=> b < a
        /\ 2 * b + 1 = 2 * a + 1 <=> b = a
        /\ 2 * a + 1 \in Nat
    BY <2>1
  <2> QED
    BY <1>3, <2>1, <2>2 DEF a, b
<1>4. CASE l[i].item /\ ~l[j].item
  <2>1. DepthsOf(l)[i] = 2 * a + 1 /\ DepthsOf(l)[j] = 2 * b /\ a \in Nat /\ b \in Nat
    BY <1>1, <1>2, <1>4
  <2> HIDE DEF a, b
  <2>2. (2 * b < 2 * a + 1 <=> b < a \/ b = a) /\ 2 * b # 2 * a + 1 /\ 2 * a + 1 \in Nat
    BY <2>1
  <2> QED
    BY <1>4, <2>1, <2>2 DEF a, b
<1>5. CASE ~l[i].item /\ l[j].item
  <2>1. DepthsOf(l)[i] = 2 * a /\ DepthsOf(l)[j] = 2 * b + 1 /\ a \in Nat /\ b \in Nat
    BY <1>1, <1>2, <1>5
  <2> HIDE DEF a, b
  <2>2. (2 * b + 1 < 2 * a <=> b < a) /\ 2 * b + 1 # 2 * a /\ 2 * a \in Nat
    BY <2>1
  <2> QED
    BY <1>5, <2>1, <2>2 DEF a, b
<1>6. CASE ~l[i].item /\ ~l[j].item
  <2>1. /\ DepthsOf(l)[i] = 2 * a /\ DepthsOf(l)[j] = 2 * b /\ a \in Nat /\ b \in Nat
        /\ l[j].item = l[i].item
    BY <1>1, <1>2, <1>6
  <2> HIDE DEF a, b
  <2>2. (2 * b < 2 * a <=> b < a) /\ (2 * b = 2 * a <=> b = a) /\ 2 * a \in Nat
    BY <2>1
  <2> QED
    BY <1>6, <2>1, <2>2 DEF a, b
<1> QED
  BY <1>3, <1>4, <1>5, <1>6

LEMMA GreatestIs ==
  ASSUME NEW n \in Nat, NEW T \in SUBSET (0 .. n), T # {}
  PROVE  B!Max(T) \in T /\ \A k \in T : B!Max(T) >= k
<1>1. S!Max(T) \in T /\ \A k \in T : S!Max(T) >= k
  BY MaxIs
<1>2. B!Max(T) = S!Max(T)
  BY DEF B!Max, S!Max
<1> QED
  BY <1>1, <1>2

LEMMA OwnerIs ==
  ASSUME NEW l, IsLines(l), NEW i \in 1 .. Len(l)
  PROVE  IsOwner(DepthsOf(l), i, B!Owner(l, i))
<1> DEFINE d == DepthsOf(l)
           T == {0} \cup {j \in 1 .. i - 1 :
                            \/ l[j].indent < l[i].indent
                            \/ l[i].item /\ ~l[j].item /\ l[j].indent = l[i].indent}
           m == B!Owner(l, i)
<1>1. Len(l) \in Nat
  BY DEF IsLines
<1>2. T \in SUBSET (0 .. i - 1) /\ T # {} /\ i - 1 \in Nat
  BY <1>1
<1>3. m = B!Max(T)
  BY DEF B!Owner
<1>4. m \in T /\ \A k \in T : m >= k
  <2> HIDE DEF T, m
  <2> QED
    BY <1>2, <1>3, GreatestIs
<1>5. \A j \in 1 .. i - 1 : j \in T <=> d[j] < d[i]
  <2> SUFFICES ASSUME NEW j \in 1 .. i - 1 PROVE j \in T <=> d[j] < d[i]
    OBVIOUS
  <2>1. j \in 1 .. Len(l)
    BY <1>1
  <2>2. d[j] < d[i] <=> \/ l[j].indent < l[i].indent
                        \/ l[i].item /\ ~l[j].item /\ l[j].indent = l[i].indent
    BY <2>1, DepthsCompare
  <2> QED
    BY <2>2
<1>6. \A j \in 1 .. i : d[j] \in Nat
  BY <1>1, DepthsCompare
<1> HIDE DEF T, m, d
<1>7. m \in 0 .. i - 1 /\ (m # 0 => d[m] < d[i])
  BY <1>1, <1>2, <1>4, <1>5
<1>8. ASSUME NEW j \in m + 1 .. i - 1 PROVE d[j] >= d[i]
  <2>1. j \in 1 .. i - 1 /\ j \notin T
    BY <1>1, <1>4, <1>7
  <2>2. d[j] \in Nat /\ d[i] \in Nat
    BY <1>1, <1>6, <2>1
  <2> QED
    BY <1>5, <2>1, <2>2
<1> QED
  BY <1>7, <1>8 DEF IsOwner, m, d

(* Where what starts at a line ends.                                       *)
EndAfter(l, i) == B!Min({k \in i + 1 .. Len(l) + 1 : k = Len(l) + 1 \/ DepthsOf(l)[k] < DepthsOf(l)[i]})
NextAfter(l, i) == B!Min({k \in i + 1 .. Len(l) + 1 : k = Len(l) + 1 \/ DepthsOf(l)[k] <= DepthsOf(l)[i]})

LEMMA FirstFrom ==
  ASSUME NEW i \in Nat, NEW n \in Nat, i <= n, NEW T \in SUBSET (i + 1 .. n + 1), n + 1 \in T
  PROVE  /\ B!Min(T) \in i + 1 .. n + 1 /\ B!Min(T) \in T
         /\ \A k \in i + 1 .. B!Min(T) - 1 : k \in i + 1 .. n /\ k \notin T
<1>1. T \in SUBSET Nat /\ T # {}
  OBVIOUS
<1>2. B!Min(T) \in T /\ \A k \in T : B!Min(T) <= k
  BY <1>1, LeastIs
<1> DEFINE m == B!Min(T)
<1>3. m \in i + 1 .. n + 1
  BY <1>2
<1> HIDE DEF m
<1>4. \A k \in T : m <= k
  BY <1>2 DEF m
<1>5. ASSUME NEW k \in i + 1 .. m - 1 PROVE k \in i + 1 .. n /\ k \notin T
  BY <1>3, <1>4
<1> QED
  BY <1>2, <1>3, <1>5 DEF m

LEMMA EndIs ==
  ASSUME NEW l, IsLines(l), NEW i \in 1 .. Len(l)
  PROVE  IsEnd(DepthsOf(l), Len(l), i, EndAfter(l, i))
<1> DEFINE d == DepthsOf(l)
           n == Len(l)
           T == {k \in i + 1 .. n + 1 : k = n + 1 \/ d[k] < d[i]}
           m == B!Min(T)
<1>1. n \in Nat /\ i \in Nat /\ i <= n
  BY DEF IsLines
<1>2. T \in SUBSET (i + 1 .. n + 1) /\ n + 1 \in T
  BY <1>1
<1>3. \A j \in 1 .. n : d[j] \in Nat
  BY DepthsCompare
<1>4. /\ m \in i + 1 .. n + 1 /\ m \in T
      /\ \A k \in i + 1 .. m - 1 : k \in i + 1 .. n /\ k \notin T
  <2> HIDE DEF T, n, d
  <2> QED
    BY <1>1, <1>2, FirstFrom
<1>5. m = EndAfter(l, i)
  BY DEF EndAfter
<1> HIDE DEF m, n, d
<1>6. m # n + 1 => d[m] < d[i]
  BY <1>4
<1>7. ASSUME NEW k \in i + 1 .. m - 1 PROVE d[k] >= d[i]
  <2>1. k \in i + 1 .. n /\ k \in 1 .. n /\ ~(d[k] < d[i])
    <3>1. k \in i + 1 .. n /\ k \notin T
      BY <1>4
    <3> QED
      BY <1>1, <3>1
  <2>2. d[k] \in Nat /\ d[i] \in Nat
    BY <1>1, <1>3, <2>1
  <2> QED
    BY <2>1, <2>2
<1> QED
  BY <1>4, <1>5, <1>6, <1>7 DEF IsEnd, n, d

LEMMA NextIs ==
  ASSUME NEW l, IsLines(l), NEW i \in 1 .. Len(l)
  PROVE  IsNext(DepthsOf(l), Len(l), i, NextAfter(l, i))
<1> DEFINE d == DepthsOf(l)
           n == Len(l)
           T == {k \in i + 1 .. n + 1 : k = n + 1 \/ d[k] <= d[i]}
           m == B!Min(T)
<1>1. n \in Nat /\ i \in Nat /\ i <= n
  BY DEF IsLines
<1>2. T \in SUBSET (i + 1 .. n + 1) /\ n + 1 \in T
  BY <1>1
<1>3. \A j \in 1 .. n : d[j] \in Nat
  BY DepthsCompare
<1>4. /\ m \in i + 1 .. n + 1 /\ m \in T
      /\ \A k \in i + 1 .. m - 1 : k \in i + 1 .. n /\ k \notin T
  <2> HIDE DEF T, n, d
  <2> QED
    BY <1>1, <1>2, FirstFrom
<1>5. m = NextAfter(l, i)
  BY DEF NextAfter
<1> HIDE DEF m, n, d
<1>6. m # n + 1 => d[m] <= d[i]
  BY <1>4
<1>7. ASSUME NEW k \in i + 1 .. m - 1 PROVE d[k] > d[i]
  <2>1. k \in i + 1 .. n /\ k \in 1 .. n /\ ~(d[k] <= d[i])
    <3>1. k \in i + 1 .. n /\ k \notin T
      BY <1>4
    <3> QED
      BY <1>1, <3>1
  <2>2. d[k] \in Nat /\ d[i] \in Nat
    BY <1>1, <1>3, <2>1
  <2> QED
    BY <2>1, <2>2
<1> QED
  BY <1>4, <1>5, <1>6, <1>7 DEF IsNext, n, d

OwnersOf(l) == [i \in 1 .. Len(l) |-> B!Owner(l, i)]
EndsOf(l) == [i \in 1 .. Len(l) |-> EndAfter(l, i)]
NextsOf(l) == [i \in 1 .. Len(l) |-> NextAfter(l, i)]

LEMMA LinesShape ==
  ASSUME NEW l, IsLines(l)
  PROVE  IsShape(Len(l), DepthsOf(l), OwnersOf(l), EndsOf(l), NextsOf(l))
<1>1. Len(l) \in Nat /\ \A i \in 1 .. Len(l) : DepthsOf(l)[i] \in Nat
  BY DepthsCompare DEF IsLines
<1>2. ASSUME NEW i \in 1 .. Len(l)
      PROVE  /\ IsOwner(DepthsOf(l), i, OwnersOf(l)[i]) /\ IsEnd(DepthsOf(l), Len(l), i, EndsOf(l)[i])
             /\ IsNext(DepthsOf(l), Len(l), i, NextsOf(l)[i])
  BY OwnerIs, EndIs, NextIs DEF OwnersOf, EndsOf, NextsOf
<1> QED
  BY <1>1, <1>2 DEF IsShape

(* The guards of the parser, by how deep the lines are.                    *)
LEMMA GuardsByDepth ==
  ASSUME NEW l, IsLines(l), NEW i \in 1 .. Len(l)
  PROVE  /\ ~l[i].item => (B!HasChild(l, i) <=> i < Len(l) /\ DepthsOf(l)[i + 1] > DepthsOf(l)[i])
         /\ \A k \in 1 .. Len(l) :
              /\ B!GoesOn(l, i, k) <=> DepthsOf(l)[k] = DepthsOf(l)[i]
              /\ B!Ends(l, i, k) <=> l[k].indent <= l[i].indent
         /\ ~B!GoesOn(l, i, Len(l) + 1) /\ B!Ends(l, i, Len(l) + 1)
<1>1. Len(l) \in Nat /\ \A k \in 1 .. Len(l) : l[k].indent \in Nat /\ l[k].item \in BOOLEAN
  BY DEF IsLines
<1>2. ASSUME ~l[i].item, i < Len(l)
      PROVE  B!HasChild(l, i) <=> DepthsOf(l)[i + 1] > DepthsOf(l)[i]
  <2>1. i + 1 \in 1 .. Len(l)
    BY <1>1, <1>2
  <2>2. /\ DepthsOf(l)[i] < DepthsOf(l)[i + 1] <=>
             \/ l[i].indent < l[i + 1].indent
             \/ l[i + 1].item /\ ~l[i].item /\ l[i].indent = l[i + 1].indent
        /\ DepthsOf(l)[i] \in Nat /\ DepthsOf(l)[i + 1] \in Nat
    BY <2>1, DepthsCompare
  <2> QED
    BY <1>1, <1>2, <2>1, <2>2 DEF B!HasChild
<1>3. ~(i < Len(l)) => ~B!HasChild(l, i)
  BY DEF B!HasChild
<1>4. ASSUME NEW k \in 1 .. Len(l)
      PROVE  /\ B!GoesOn(l, i, k) <=> DepthsOf(l)[k] = DepthsOf(l)[i]
             /\ B!Ends(l, i, k) <=> l[k].indent <= l[i].indent
  <2>1. DepthsOf(l)[k] = DepthsOf(l)[i] <=> l[k].indent = l[i].indent /\ l[k].item = l[i].item
    BY DepthsCompare
  <2> QED
    BY <1>1, <2>1 DEF B!GoesOn, B!Ends
<1>5. ~B!GoesOn(l, i, Len(l) + 1) /\ B!Ends(l, i, Len(l) + 1)
  BY <1>1 DEF B!GoesOn, B!Ends
<1> QED
  BY <1>2, <1>3, <1>4, <1>5

-----------------------------------------------------------------------------
(* Whether a block is a document, from its first line: that line says what *)
(* it must, the lines below it are one block that is a document, and the   *)
(* lines after it are one that goes together with it.                      *)

(* What IsDocument asks of two lines that belong to the same one, and of   *)
(* the lines from i on before r.                                           *)
Fits(l, j, k) ==
  /\ l[j].indent = l[k].indent /\ l[j].item = l[k].item
  /\ l[j].item \/ l[j].key # l[k].key

Holds(l, j) == l[j].item => l[j].says
Opens(l, j) == ~l[j].item /\ ~l[j].says

IsGood(l, o, i, r) ==
  \A j \in i .. r - 1 :
    /\ o[j] >= i => Opens(l, o[j])
    /\ Holds(l, j)
    /\ \A k \in j + 1 .. r - 1 : o[j] = o[k] => Fits(l, j, k)

(* The lines of the block of i that its other lines lie below.             *)
Roots(o, e, i) == {j \in i .. e[i] - 1 : o[j] = o[i]}

(* What starts at i, seen from within: the lines below it, and the others. *)
BelowIsGood(l, o, e, f, i) ==
  i + 1 < f[i] => Opens(l, i) /\ e[i + 1] = f[i] /\ IsGood(l, o, i + 1, f[i])
RestIsGood(l, o, e, f, i) ==
  f[i] < e[i] => /\ IsGood(l, o, f[i], e[i])
                 /\ \A k \in Roots(o, e, f[i]) : Fits(l, i, k)

LEMMA GoodWithin ==
  ASSUME NEW l, NEW o, NEW i \in Nat, NEW r \in Nat, NEW a \in Nat, NEW b \in Nat,
         i <= a, b <= r, IsGood(l, o, i, r),
         \A j \in a .. b - 1 : o[j] \in Nat
  PROVE  IsGood(l, o, a, b)
<1> SUFFICES ASSUME NEW j \in a .. b - 1
             PROVE  /\ o[j] >= a => Opens(l, o[j])
                    /\ Holds(l, j)
                    /\ \A k \in j + 1 .. b - 1 : o[j] = o[k] => Fits(l, j, k)
  BY DEF IsGood
<1>1. j \in i .. r - 1 /\ o[j] \in Nat
  OBVIOUS
<1>2. /\ o[j] >= i => Opens(l, o[j])
      /\ Holds(l, j)
      /\ \A k \in j + 1 .. r - 1 : o[j] = o[k] => Fits(l, j, k)
  BY <1>1 DEF IsGood
<1>3. \A k \in j + 1 .. b - 1 : k \in j + 1 .. r - 1
  OBVIOUS
<1> QED
  BY <1>1, <1>2, <1>3

LEMMA GoodParts ==
  ASSUME NEW l, IsLines(l), NEW n, n = Len(l), NEW d, d = DepthsOf(l), NEW o, NEW e, NEW f,
         IsShape(n, d, o, e, f), NEW i \in 1 .. n, IsGood(l, o, i, e[i])
  PROVE  Holds(l, i) /\ BelowIsGood(l, o, e, f, i) /\ RestIsGood(l, o, e, f, i)
<1>1. /\ n \in Nat /\ i \in Nat /\ f[i] \in i + 1 .. e[i] /\ e[i] \in i + 1 .. n + 1
      /\ f[i] < e[i] => f[i] \in 1 .. n /\ d[f[i]] = d[i] /\ o[f[i]] = o[i] /\ e[f[i]] = e[i]
  <2>1. n \in Nat /\ i \in Nat
    BY DEF IsShape
  <2>2. /\ f[i] \in i + 1 .. e[i] /\ e[i] \in i + 1 .. n + 1
        /\ f[i] < e[i] => f[i] \in 1 .. n /\ d[f[i]] = d[i] /\ o[f[i]] = o[i] /\ e[f[i]] = e[i]
    BY NextInBlock
  <2> QED
    BY <2>1, <2>2
<1>2. \A j \in 1 .. n : o[j] \in 0 .. j - 1
  BY DEF IsShape, IsOwner
<1>3. \A j \in i .. e[i] - 1 : j \in 1 .. n /\ o[j] \in Nat
  <2> SUFFICES ASSUME NEW j \in i .. e[i] - 1 PROVE j \in 1 .. n /\ o[j] \in Nat
    OBVIOUS
  <2>1. j \in 1 .. n
    BY <1>1
  <2>2. o[j] \in 0 .. j - 1
    BY <1>2, <2>1
  <2> QED
    BY <2>1, <2>2
<1>4. f[i] \in Nat /\ e[i] \in Nat /\ i + 1 \in Nat
  BY <1>1
<1>5. Holds(l, i)
  <2>1. i \in i .. e[i] - 1
    BY <1>1
  <2> QED
    BY <2>1 DEF IsGood
<1>6. ASSUME i + 1 < f[i] PROVE Opens(l, i) /\ e[i + 1] = f[i] /\ IsGood(l, o, i + 1, f[i])
  <2>1. /\ i + 1 \in 1 .. n /\ o[i + 1] = i /\ e[i + 1] \in i + 2 .. f[i]
        /\ e[i + 1] < f[i] => /\ e[i + 1] \in 1 .. n /\ o[e[i + 1]] = i /\ d[e[i + 1]] < d[i + 1]
    BY <1>6, ChildBlock
  <2>2. i + 1 \in i .. e[i] - 1
    BY <1>1, <1>6
  <2>3. Opens(l, i)
    <3>1. o[i + 1] >= i => Opens(l, o[i + 1])
      BY <2>2 DEF IsGood
    <3> QED
      BY <1>1, <2>1, <3>1
  <2>4. ~(e[i + 1] < f[i])
    <3> SUFFICES ASSUME e[i + 1] < f[i] PROVE FALSE
      OBVIOUS
    <3> DEFINE r == e[i + 1]
    <3>1. r \in 1 .. n /\ o[r] = o[i + 1] /\ d[r] < d[i + 1] /\ r \in i + 2 .. f[i] /\ r < f[i]
      BY <2>1
    <3>2. r \in (i + 1) + 1 .. e[i] - 1
      <4> HIDE DEF r
      <4> QED
        BY <1>1, <3>1
    <3>3. Fits(l, i + 1, r)
      BY <2>2, <3>1, <3>2 DEF IsGood
    <3>4. d[r] = d[i + 1]
      <4> HIDE DEF r
      <4>1. i + 1 \in 1 .. Len(l) /\ r \in 1 .. Len(l)
        BY <2>1, <3>1
      <4>2. l[r].indent = l[i + 1].indent /\ l[r].item = l[i + 1].item
        BY <3>3 DEF Fits
      <4> QED
        BY <4>1, <4>2, DepthsCompare
    <3>5. d[r] \in Nat
      BY <3>1 DEF IsShape
    <3> QED
      BY <3>1, <3>4, <3>5
  <2>5. e[i + 1] = f[i]
    BY <1>1, <2>1, <2>4
  <2>6. IsGood(l, o, i + 1, f[i])
    <3>1. i <= i + 1 /\ f[i] <= e[i] /\ \A j \in i + 1 .. f[i] - 1 : o[j] \in Nat
      BY <1>1, <1>3
    <3> QED
      BY <1>1, <1>4, <3>1, GoodWithin
  <2> QED
    BY <2>3, <2>5, <2>6
<1>7. ASSUME f[i] < e[i]
      PROVE  /\ IsGood(l, o, f[i], e[i])
             /\ \A k \in Roots(o, e, f[i]) : Fits(l, i, k)
  <2>1. f[i] \in 1 .. n /\ o[f[i]] = o[i] /\ e[f[i]] = e[i]
    BY <1>1, <1>7
  <2>2. IsGood(l, o, f[i], e[i])
    <3>1. i <= f[i] /\ e[i] <= e[i] /\ \A j \in f[i] .. e[i] - 1 : o[j] \in Nat
      BY <1>1, <1>3
    <3> QED
      BY <1>1, <1>4, <3>1, GoodWithin
  <2>3. ASSUME NEW k \in Roots(o, e, f[i]) PROVE Fits(l, i, k)
    <3>1. k \in f[i] .. e[i] - 1 /\ o[k] = o[i]
      BY <2>1 DEF Roots
    <3>2. k \in i + 1 .. e[i] - 1 /\ i \in i .. e[i] - 1
      BY <1>1, <3>1
    <3> QED
      BY <3>1, <3>2 DEF IsGood
  <2> QED
    BY <2>2, <2>3
<1> QED
  BY <1>5, <1>6, <1>7 DEF BelowIsGood, RestIsGood

LEMMA GoodWhole ==
  ASSUME NEW l, NEW n, NEW d, NEW o, NEW e, NEW f,
         IsShape(n, d, o, e, f), NEW i \in 1 .. n,
         Holds(l, i), BelowIsGood(l, o, e, f, i), RestIsGood(l, o, e, f, i)
  PROVE  IsGood(l, o, i, e[i])
<1> DEFINE m == f[i]
           r == e[i]
<1>1. /\ n \in Nat /\ i \in Nat /\ m \in i + 1 .. r /\ r \in i + 1 .. n + 1
      /\ m < r => m \in 1 .. n /\ d[m] = d[i] /\ o[m] = o[i] /\ e[m] = r
  <2>1. n \in Nat /\ i \in Nat
    BY DEF IsShape
  <2>2. /\ f[i] \in i + 1 .. e[i] /\ e[i] \in i + 1 .. n + 1
        /\ f[i] < e[i] => f[i] \in 1 .. n /\ d[f[i]] = d[i] /\ o[f[i]] = o[i] /\ e[f[i]] = e[i]
    BY NextInBlock
  <2> QED
    BY <2>1, <2>2
<1>2. \A j \in 1 .. n : o[j] \in 0 .. j - 1
  BY DEF IsShape, IsOwner
<1>3. \A j \in i + 1 .. m - 1 : j \in 1 .. n /\ o[j] \in i .. j - 1
  BY BelowOwned
<1>4. \A j \in m .. r - 1 : m < r /\ j \in 1 .. n /\ (o[j] >= m \/ o[j] = o[i])
  <2> SUFFICES ASSUME NEW j \in m .. r - 1 PROVE j \in 1 .. n /\ (o[j] >= m \/ o[j] = o[i]) /\ m < r
    OBVIOUS
  <2>1. m < r
    <3> HIDE DEF m, r
    <3> QED
      BY <1>1
  <2>2. m \in 1 .. n /\ j \in m .. e[m] - 1
    BY <1>1, <2>1
  <2>3. j \in 1 .. n /\ (o[j] >= m \/ o[j] = o[m])
    BY <2>2, BlockOwned
  <2> QED
    BY <1>1, <2>1, <2>3
<1>5. i + 1 < m => Opens(l, i) /\ IsGood(l, o, i + 1, m)
  BY DEF BelowIsGood
<1>6. m < r => /\ IsGood(l, o, m, r) /\ \A k \in Roots(o, e, m) : Fits(l, i, k)
  BY DEF RestIsGood
<1>7. o[i] \in 0 .. i - 1
  BY <1>2
<1>8. Roots(o, e, m) = {j \in m .. e[m] - 1 : o[j] = o[m]}
  BY DEF Roots
<1> HIDE DEF m, r
<1>9. ASSUME NEW j \in i .. r - 1 PROVE o[j] >= i => Opens(l, o[j])
  <2>1. CASE j = i
    BY <1>1, <1>7, <2>1
  <2>2. CASE j \in i + 1 .. m - 1
    <3>1. o[j] \in i .. j - 1 /\ i + 1 < m
      BY <1>1, <1>3, <2>2
    <3>2. CASE o[j] = i
      BY <1>5, <3>1, <3>2
    <3>3. CASE o[j] >= i + 1
      BY <1>5, <2>2, <3>1, <3>3 DEF IsGood
    <3> QED
      BY <1>1, <3>1, <3>2, <3>3
  <2>3. CASE j \in m .. r - 1
    <3>1. m < r /\ j \in 1 .. n /\ (o[j] >= m \/ o[j] = o[i])
      BY <1>4, <2>3
    <3>2. CASE o[j] >= m
      BY <1>6, <2>3, <3>1, <3>2 DEF IsGood
    <3>3. CASE o[j] = o[i]
      BY <1>1, <1>7, <3>3
    <3> QED
      BY <3>1, <3>2, <3>3
  <2> QED
    BY <1>1, <2>1, <2>2, <2>3
<1>10. ASSUME NEW j \in i .. r - 1 PROVE Holds(l, j)
  <2>1. CASE j = i
    BY <2>1
  <2>2. CASE j \in i + 1 .. m - 1
    <3>1. i + 1 < m
      BY <1>1, <2>2
    <3> QED
      BY <1>5, <2>2, <3>1 DEF IsGood
  <2>3. CASE j \in m .. r - 1
    BY <1>4, <1>6, <2>3 DEF IsGood
  <2> QED
    BY <1>1, <2>1, <2>2, <2>3
<1>11. ASSUME NEW j \in i .. r - 1, NEW k \in j + 1 .. r - 1, o[j] = o[k] PROVE Fits(l, j, k)
  <2>1. CASE j = i
    <3>1. k \in m .. r - 1
      <4> SUFFICES ASSUME k \in i + 1 .. m - 1 PROVE FALSE
        BY <1>1, <2>1
      <4>1. o[k] \in i .. k - 1
        BY <1>3
      <4> QED
        BY <1>1, <1>7, <1>11, <2>1, <4>1
    <3>2. m < r /\ e[m] = r /\ o[k] = o[m]
      BY <1>1, <1>4, <1>11, <2>1, <3>1
    <3> QED
      BY <1>6, <1>8, <2>1, <3>1, <3>2
  <2>2. CASE j \in i + 1 .. m - 1
    <3>1. i + 1 < m /\ o[j] \in i .. j - 1
      BY <1>1, <1>3, <2>2
    <3>2. k \in j + 1 .. m - 1
      <4> SUFFICES ASSUME k \in m .. r - 1 PROVE FALSE
        BY <1>1, <2>2
      <4>1. o[k] >= m \/ o[k] = o[i]
        BY <1>4
      <4> QED
        BY <1>1, <1>7, <1>11, <2>2, <3>1, <4>1
    <3> QED
      BY <1>5, <1>11, <2>2, <3>1, <3>2 DEF IsGood
  <2>3. CASE j \in m .. r - 1
    BY <1>4, <1>6, <1>11, <2>3 DEF IsGood
  <2> QED
    BY <1>1, <2>1, <2>2, <2>3
<1>12. IsGood(l, o, i, r)
  BY <1>9, <1>10, <1>11 DEF IsGood
<1> QED
  BY <1>12 DEF r

(* The tree of a block, from its first line.                               *)

LEMMA Prepended ==
  ASSUME NEW E, NEW a \in E, NEW s \in Seq(E)
  PROVE  <<a>> \o s = [k \in 1 .. Len(s) + 1 |-> IF k = 1 THEN a ELSE s[k - 1]]
<1> DEFINE u == <<a>> \o s
           v == [k \in 1 .. Len(s) + 1 |-> IF k = 1 THEN a ELSE s[k - 1]]
<1>1. Len(s) \in Nat
  OBVIOUS
<1>2. u \in Seq(E) /\ Len(u) = Len(s) + 1
  OBVIOUS
<1>3. \A k \in 1 .. Len(s) + 1 : u[k] = v[k]
  <2>1. u[1] = a
    OBVIOUS
  <2>2. \A k \in 2 .. Len(s) + 1 : u[k] = s[k - 1]
    OBVIOUS
  <2> HIDE DEF u
  <2> QED
    BY <1>1, <2>1, <2>2
<1>4. u = [k \in 1 .. Len(s) + 1 |-> u[k]]
  <2> HIDE DEF u
  <2> QED
    BY <1>2
<1> HIDE DEF u
<1>5. u = v
  BY <1>3, <1>4
<1> QED
  BY <1>5 DEF u

(* What _block makes of a value and of the rest of its block.              *)
JoinTree(l, i, value, tree) ==
  IF l[i].item THEN <<"list", <<value>> \o tree[2]>>
  ELSE IF l[i].key \in DOMAIN tree[2] THEN B!Refused
  ELSE <<"map", [key \in {l[i].key} \cup DOMAIN tree[2] |->
                   IF key = l[i].key THEN value ELSE tree[2][key]]>>

EmptyTree(l, i) == IF l[i].item THEN <<"list", << >> >> ELSE <<"map", << >> >>

ListOf(T, M) == [k \in 1 .. Cardinality(T) |-> M[B!Nth(T, k)]]
MapOf(l, T, M) == [key \in {l[i].key : i \in T} |-> M[CHOOSE i \in T : l[i].key = key]]

LEMMA TogetherIs ==
  ASSUME NEW l, NEW T, NEW M, NEW i, B!Min(T) = i, T # {}
  PROVE  B!Together(l, T, M) = IF l[i].item THEN <<"list", ListOf(T, M)>> ELSE <<"map", MapOf(l, T, M)>>
<1>1. B!Cardinality(T) = Cardinality(T)
  BY CardinalityIs
<1> QED
  BY <1>1, Zenon DEF B!Together, ListOf, MapOf

LEMMA NotRefused ==
  ASSUME NEW a, NEW b PROVE <<a, b>> # B!Refused
BY DEF B!Refused

LEMMA TogetherAccepted ==
  ASSUME NEW l, NEW T, NEW M
  PROVE  B!Together(l, T, M) # B!Refused
<1>1. CASE T = {}
  BY <1>1 DEF B!Together, B!Null, B!Refused
<1>2. CASE T # {}
  BY <1>2, TogetherIs, NotRefused
<1> QED
  BY <1>1, <1>2

(* A list of what lines mean, from its first.                              *)
IsPrepended(i, H, M) == ListOf({i} \cup H, M) = <<M[i]>> \o ListOf(H, M)

LEMMA ListJoins ==
  ASSUME NEW i, NEW H, NEW M, IsFirst(i, H)
  PROVE  IsPrepended(i, H, M)
<1> DEFINE c == Cardinality(H)
           R == {i} \cup H
           s == ListOf(H, M)
           E == {M[i]} \cup {M[B!Nth(H, k)] : k \in 1 .. c}
<1>1. c \in Nat /\ Cardinality(R) = c + 1
  BY FirstCounts
<1>2. B!Nth(R, 1) = i /\ \A k \in Nat \ {0} : B!Nth(R, k + 1) = B!Nth(H, k)
  BY FirstNth
<1>3. s \in Seq(E) /\ Len(s) = c /\ M[i] \in E
  BY <1>1 DEF ListOf
<1>4. \A k \in 1 .. c : s[k] = M[B!Nth(H, k)]
  BY DEF ListOf
<1>5. ListOf(R, M) = [k \in 1 .. c + 1 |-> M[B!Nth(R, k)]]
  BY <1>1 DEF ListOf
<1> HIDE DEF c, R, s, E
<1>6. <<M[i]>> \o s = [k \in 1 .. c + 1 |-> IF k = 1 THEN M[i] ELSE s[k - 1]]
  BY <1>3, Prepended
<1>7. ASSUME NEW k \in 1 .. c + 1
      PROVE  M[B!Nth(R, k)] = IF k = 1 THEN M[i] ELSE s[k - 1]
  <2>1. CASE k = 1
    BY <1>2, <2>1
  <2>2. CASE k # 1
    <3> DEFINE p == k - 1
    <3>1. p \in 1 .. c /\ p \in Nat \ {0} /\ k = p + 1
      BY <1>1, <2>2
    <3> HIDE DEF p
    <3>2. B!Nth(R, k) = B!Nth(H, p) /\ s[p] = M[B!Nth(H, p)]
      BY <1>2, <1>4, <3>1
    <3> QED
      BY <2>2, <3>2 DEF p
  <2> QED
    BY <2>1, <2>2
<1>8. ListOf(R, M) = <<M[i]>> \o s
  BY <1>5, <1>6, <1>7
<1> QED
  BY <1>8 DEF IsPrepended, R, s

(* A map of what entries mean, from its first: the keys differ.            *)
HaveKeys(l, T) == \A j, k \in T : j # k => l[j].key # l[k].key

MapWith(l, i, v, m) == [key \in {l[i].key} \cup DOMAIN m |-> IF key = l[i].key THEN v ELSE m[key]]

LEMMA MapJoins ==
  ASSUME NEW l, NEW i, NEW H, NEW M, i \notin H, HaveKeys(l, {i} \cup H)
  PROVE  MapOf(l, {i} \cup H, M) = MapWith(l, i, M[i], MapOf(l, H, M))
<1> DEFINE R == {i} \cup H
           keys == {l[j].key : j \in R}
<1>1. \A j, k \in R : l[j].key = l[k].key => j = k
  BY DEF HaveKeys
<1>2. ASSUME NEW j \in R PROVE (CHOOSE k \in R : l[k].key = l[j].key) = j
  <2>1. \E k \in R : l[k].key = l[j].key
    OBVIOUS
  <2> HIDE DEF R
  <2> QED
    BY <1>1, <2>1
<1>3. ASSUME NEW j \in H PROVE (CHOOSE k \in H : l[k].key = l[j].key) = j
  <2>1. j \in R /\ \A k \in H : k \in R
    OBVIOUS
  <2> HIDE DEF R
  <2> QED
    BY <1>1, <2>1
<1>4. keys = {l[i].key} \cup {l[j].key : j \in H}
  OBVIOUS
<1>5. ASSUME NEW key \in keys
      PROVE  M[CHOOSE k \in R : l[k].key = key] = IF key = l[i].key THEN M[i] ELSE MapOf(l, H, M)[key]
  <2>1. PICK j \in R : key = l[j].key
    OBVIOUS
  <2>2. (CHOOSE k \in R : l[k].key = key) = j
    BY <1>2, <2>1
  <2>3. CASE j = i
    <3>1. key = l[i].key
      BY <2>1, <2>3
    <3>2. M[CHOOSE k \in R : l[k].key = key] = M[i]
      BY <2>2, <2>3
    <3> QED
      BY <3>1, <3>2
  <2>4. CASE j # i
    <3>1. j \in H /\ i \in R
      BY <2>4
    <3>2. key # l[i].key
      BY <1>1, <2>1, <2>4, <3>1
    <3>3. (CHOOSE k \in H : l[k].key = key) = j
      BY <1>3, <2>1, <3>1
    <3>4. MapOf(l, H, M)[key] = M[CHOOSE k \in H : l[k].key = key]
      BY <2>1, <3>1 DEF MapOf
    <3> QED
      BY <2>2, <3>2, <3>3, <3>4
  <2> QED
    BY <2>3, <2>4
<1>6. DOMAIN MapOf(l, H, M) = {l[j].key : j \in H}
  BY DEF MapOf
<1>7. MapOf(l, R, M) = [key \in keys |-> M[CHOOSE k \in R : l[k].key = key]]
  BY DEF MapOf
<1>8. MapWith(l, i, M[i], MapOf(l, H, M)) =
        [key \in keys |-> IF key = l[i].key THEN M[i] ELSE MapOf(l, H, M)[key]]
  BY <1>4, <1>6 DEF MapWith
<1> HIDE DEF R, keys
<1>9. MapOf(l, R, M) = MapWith(l, i, M[i], MapOf(l, H, M))
  BY <1>5, <1>7, <1>8
<1> QED
  BY <1>9 DEF R

(* The block that begins with line i, from what the rest of it means.      *)
LEMMA TogetherOne ==
  ASSUME NEW l, NEW i \in Nat, NEW M
  PROVE  JoinTree(l, i, M[i], EmptyTree(l, i)) = B!Together(l, {i}, M)
<1>1. B!Min({i}) = i
  BY LeastOne
<1>2. B!Together(l, {i}, M) =
        IF l[i].item THEN <<"list", ListOf({i}, M)>> ELSE <<"map", MapOf(l, {i}, M)>>
  BY <1>1, TogetherIs
<1>3. ListOf({i}, M) = <<M[i]>>
  <2>1. IsFirst(i, {})
    BY FS_EmptySet DEF IsFirst
  <2>2. {i} \cup {} = {i} /\ ListOf({}, M) = << >>
    BY FS_EmptySet DEF ListOf
  <2>3. <<M[i]>> \o << >> = <<M[i]>>
    OBVIOUS
  <2>4. ListOf({i} \cup {}, M) = <<M[i]>> \o ListOf({}, M)
    <3>1. IsPrepended(i, {}, M)
      BY <2>1, ListJoins
    <3> QED
      BY <3>1, Zenon DEF IsPrepended
  <2> QED
    BY <2>2, <2>3, <2>4
<1>4. MapOf(l, {i}, M) = [key \in {l[i].key} |-> M[i]]
  BY DEF MapOf
<1>5. CASE l[i].item
  <2>1. EmptyTree(l, i) = <<"list", << >> >>
    BY <1>5 DEF EmptyTree
  <2>2. JoinTree(l, i, M[i], EmptyTree(l, i)) = <<"list", <<M[i]>> \o << >> >>
    BY <1>5, <2>1 DEF JoinTree
  <2>3. <<M[i]>> \o << >> = <<M[i]>>
    OBVIOUS
  <2> QED
    BY <1>2, <1>3, <1>5, <2>2, <2>3
<1>6. CASE ~l[i].item
  <2>1. EmptyTree(l, i)[2] = << >> /\ DOMAIN << >> = {}
    BY <1>6 DEF EmptyTree
  <2>2. JoinTree(l, i, M[i], EmptyTree(l, i)) = <<"map", MapWith(l, i, M[i], << >>)>>
    BY <1>6, <2>1 DEF JoinTree, MapWith
  <2>3. MapWith(l, i, M[i], << >>) = [key \in {l[i].key} |-> M[i]]
    BY <2>1 DEF MapWith
  <2> QED
    BY <1>2, <1>4, <1>6, <2>2, <2>3
<1> QED
  BY <1>5, <1>6

AreAlike(l, i, H) == \A k \in H : l[k].item = l[i].item

IsTogether(l, i, H, M) ==
  /\ l[i].item \/ HaveKeys(l, {i} \cup H) =>
       JoinTree(l, i, M[i], B!Together(l, H, M)) = B!Together(l, {i} \cup H, M)
  /\ ~l[i].item /\ (\E k \in H : l[k].key = l[i].key) =>
       JoinTree(l, i, M[i], B!Together(l, H, M)) = B!Refused

LEMMA TogetherMore ==
  ASSUME NEW l, NEW i, NEW H, NEW M, IsFirst(i, H), H # {}, AreAlike(l, i, H)
  PROVE  IsTogether(l, i, H, M)
<1> SUFFICES
      /\ l[i].item \/ HaveKeys(l, {i} \cup H) =>
           JoinTree(l, i, M[i], B!Together(l, H, M)) = B!Together(l, {i} \cup H, M)
      /\ ~l[i].item /\ (\E k \in H : l[k].key = l[i].key) =>
           JoinTree(l, i, M[i], B!Together(l, H, M)) = B!Refused
  BY Zenon DEF IsTogether
<1> DEFINE R == {i} \cup H
           m == B!Min(H)
<1>1. i \in Nat /\ H \in SUBSET Nat /\ (\A k \in H : k > i) /\ i \notin H
  BY DEF IsFirst
<1>2. B!Min(R) = i
  <2>1. R \in SUBSET Nat /\ i \in R /\ \A k \in R : i <= k
    BY <1>1
  <2> HIDE DEF R
  <2> QED
    BY <2>1, LeastOne
<1>3. m \in H
  BY <1>1, LeastIs
<1>4. l[m].item = l[i].item
  BY <1>3 DEF AreAlike
<1>5. B!Together(l, H, M) =
        IF l[i].item THEN <<"list", ListOf(H, M)>> ELSE <<"map", MapOf(l, H, M)>>
  BY <1>4, TogetherIs
<1>6. B!Together(l, R, M) =
        IF l[i].item THEN <<"list", ListOf(R, M)>> ELSE <<"map", MapOf(l, R, M)>>
  BY <1>2, TogetherIs
<1>7. CASE l[i].item
  <2>1. JoinTree(l, i, M[i], B!Together(l, H, M)) = <<"list", <<M[i]>> \o ListOf(H, M)>>
    BY <1>5, <1>7 DEF JoinTree
  <2>2. ListOf(R, M) = <<M[i]>> \o ListOf(H, M)
    <3>1. IsPrepended(i, H, M)
      BY ListJoins
    <3> QED
      BY <3>1, Zenon DEF IsPrepended
  <2> QED
    BY <1>6, <1>7, <2>1, <2>2
<1>8. CASE ~l[i].item
  <2>1. B!Together(l, H, M)[2] = MapOf(l, H, M) /\ DOMAIN MapOf(l, H, M) = {l[k].key : k \in H}
    BY <1>5, <1>8 DEF MapOf
  <2>2. ASSUME HaveKeys(l, R)
        PROVE  JoinTree(l, i, M[i], B!Together(l, H, M)) = B!Together(l, R, M)
    <3>1. l[i].key \notin DOMAIN MapOf(l, H, M)
      <4> SUFFICES ASSUME NEW k \in H, l[i].key = l[k].key PROVE FALSE
        BY <2>1
      <4> QED
        BY <1>1, <2>2 DEF HaveKeys
    <3>2. JoinTree(l, i, M[i], B!Together(l, H, M)) = <<"map", MapWith(l, i, M[i], MapOf(l, H, M))>>
      BY <1>8, <2>1, <3>1, Zenon DEF JoinTree, MapWith
    <3>3. MapOf(l, R, M) = MapWith(l, i, M[i], MapOf(l, H, M))
      BY <1>1, <2>2, MapJoins
    <3> QED
      BY <1>6, <1>8, <3>2, <3>3
  <2>3. ASSUME NEW k \in H, l[k].key = l[i].key
        PROVE  JoinTree(l, i, M[i], B!Together(l, H, M)) = B!Refused
    <3>1. l[i].key \in DOMAIN MapOf(l, H, M)
      BY <2>1, <2>3
    <3> QED
      BY <1>8, <2>1, <3>1, Zenon DEF JoinTree
  <2> QED
    BY <1>8, <2>2, <2>3
<1> QED
  BY <1>7, <1>8

-----------------------------------------------------------------------------
(* The steps of _block, and the meaning of each line, exist: each is made  *)
(* of what is made of later lines.                                         *)

(* The step of Block at line i, from the steps after it.                   *)
BlockStep(l, rest, i) ==
        LET line  == l[i]
            child == ~line.says /\ ~line.item /\ B!HasChild(l, i)
            below == IF child THEN rest[i + 1] ELSE B!Refused
            value == IF line.says THEN <<"scalar", i>> ELSE IF child THEN below[1] ELSE B!Null
            next  == IF child THEN below[2] ELSE i + 1
            more  == rest[next]
            Joined(tree) ==
              IF line.item THEN <<"list", <<value>> \o tree[2]>>
              ELSE IF line.key \in DOMAIN tree[2] THEN B!Refused
              ELSE <<"map", [key \in {line.key} \cup DOMAIN tree[2] |->
                               IF key = line.key THEN value ELSE tree[2][key]]>>
            empty == IF line.item THEN <<"list", << >> >> ELSE <<"map", << >> >>
        IN IF (line.item /\ ~line.says) \/ (child /\ below = B!Refused) THEN B!Refused
           ELSE IF ~B!GoesOn(l, i, next)
             THEN IF B!Ends(l, i, next) THEN <<Joined(empty), next>> ELSE B!Refused
           ELSE IF more = B!Refused \/ Joined(more[1]) = B!Refused THEN B!Refused
           ELSE <<Joined(more[1]), more[2]>>

IsBlockScan(l, h) == h = [i \in 1 .. Len(l) |-> BlockStep(l, h, i)]

(* The same in parts: whether lines below are the value, the value, the    *)
(* line after it, and what is made of them and of what follows.            *)
HasBelow(l, i) == ~l[i].says /\ ~l[i].item /\ B!HasChild(l, i)
BlockNext(l, h, i) == IF HasBelow(l, i) THEN h[i + 1][2] ELSE i + 1
BlockValue(l, h, i) ==
  IF l[i].says THEN <<"scalar", i>> ELSE IF HasBelow(l, i) THEN h[i + 1][1] ELSE B!Null
BlockOn(l, i, value, next, more) ==
  IF ~B!GoesOn(l, i, next)
    THEN IF B!Ends(l, i, next) THEN <<JoinTree(l, i, value, EmptyTree(l, i)), next>> ELSE B!Refused
  ELSE IF more = B!Refused \/ JoinTree(l, i, value, more[1]) = B!Refused THEN B!Refused
  ELSE <<JoinTree(l, i, value, more[1]), more[2]>>

LEMMA BlockStepIs ==
  ASSUME NEW l, NEW h, NEW i
  PROVE  /\ ~Holds(l, i) => BlockStep(l, h, i) = B!Refused
         /\ HasBelow(l, i) /\ h[i + 1] = B!Refused => BlockStep(l, h, i) = B!Refused
         /\ Holds(l, i) /\ ~(HasBelow(l, i) /\ h[i + 1] = B!Refused) =>
              BlockStep(l, h, i) =
                BlockOn(l, i, BlockValue(l, h, i), BlockNext(l, h, i), h[BlockNext(l, h, i)])
<1>1. CASE HasBelow(l, i)
  <2>1. Holds(l, i)
    BY <1>1 DEF HasBelow, Holds
  <2>2. BlockNext(l, h, i) = h[i + 1][2] /\ BlockValue(l, h, i) = h[i + 1][1]
    BY <1>1, Zenon DEF BlockNext, BlockValue, HasBelow
  <2>3. CASE h[i + 1] = B!Refused
    <3>1. BlockStep(l, h, i) = B!Refused
      BY <1>1, <2>3, Zenon DEF BlockStep, HasBelow
    <3> QED
      BY <1>1, <2>1, <2>3, <3>1
  <2>4. CASE h[i + 1] # B!Refused
    <3>1. BlockStep(l, h, i) = BlockOn(l, i, h[i + 1][1], h[i + 1][2], h[h[i + 1][2]])
      BY <1>1, <2>4, Zenon DEF BlockStep, HasBelow, BlockOn, JoinTree, EmptyTree
    <3> QED
      BY <1>1, <2>1, <2>2, <2>4, <3>1
  <2> QED
    BY <2>3, <2>4
<1>2. CASE ~HasBelow(l, i)
  <2>1. BlockNext(l, h, i) = i + 1 /\ BlockValue(l, h, i) = IF l[i].says THEN <<"scalar", i>> ELSE B!Null
    BY <1>2, Zenon DEF BlockNext, BlockValue
  <2>2. CASE ~Holds(l, i)
    <3>1. BlockStep(l, h, i) = B!Refused
      BY <2>2, Zenon DEF BlockStep, Holds
    <3> QED
      BY <1>2, <2>2, <3>1
  <2>3. CASE Holds(l, i)
    <3>1. BlockStep(l, h, i) =
            BlockOn(l, i, IF l[i].says THEN <<"scalar", i>> ELSE B!Null, i + 1, h[i + 1])
      BY <1>2, <2>3, Zenon DEF BlockStep, HasBelow, Holds, BlockOn, JoinTree, EmptyTree
    <3> QED
      BY <1>2, <2>1, <2>3, <3>1
  <2> QED
    BY <2>2, <2>3
<1> QED
  BY <1>1, <1>2

(* A step reads only what is after it, and goes forward.                   *)
GoesForward(l, h, i) == h[i] = B!Refused \/ h[i][2] \in i + 1 .. Len(l) + 1

LEMMA BlockStepForward ==
  ASSUME NEW l, IsLines(l), NEW g, NEW h, NEW i \in 1 .. Len(l),
         \A k \in i + 1 .. Len(l) : g[k] = h[k] /\ GoesForward(l, g, k)
  PROVE  /\ BlockStep(l, g, i) = BlockStep(l, h, i)
         /\ BlockStep(l, g, i) = B!Refused \/ BlockStep(l, g, i)[2] \in i + 1 .. Len(l) + 1
<1> DEFINE n == Len(l)
           nx == BlockNext(l, g, i)
           v == BlockValue(l, g, i)
<1>1. n \in Nat /\ i \in 1 .. n
  BY DEF IsLines
<1>2. CASE ~Holds(l, i)
  BY <1>2, BlockStepIs
<1>3. CASE HasBelow(l, i) /\ g[i + 1] = B!Refused
  <2>1. i + 1 \in i + 1 .. n
    BY <1>1, <1>3 DEF HasBelow, B!HasChild
  <2>2. h[i + 1] = B!Refused
    BY <1>3, <2>1
  <2> QED
    BY <1>3, <2>2, BlockStepIs
<1>4. CASE Holds(l, i) /\ ~(HasBelow(l, i) /\ g[i + 1] = B!Refused)
  <2>1. HasBelow(l, i) => g[i + 1] = h[i + 1] /\ g[i + 1][2] \in i + 2 .. n + 1
    <3> SUFFICES ASSUME HasBelow(l, i) PROVE g[i + 1] = h[i + 1] /\ g[i + 1][2] \in i + 2 .. n + 1
      OBVIOUS
    <3>1. i + 1 \in i + 1 .. n
      BY <1>1 DEF HasBelow, B!HasChild
    <3>2. g[i + 1] = h[i + 1] /\ GoesForward(l, g, i + 1)
      BY <3>1
    <3>3. g[i + 1][2] \in (i + 1) + 1 .. n + 1
      BY <1>4, <3>2 DEF GoesForward
    <3> QED
      BY <1>1, <3>2, <3>3
  <2>2. nx = BlockNext(l, h, i) /\ v = BlockValue(l, h, i)
    BY <2>1, Zenon DEF BlockNext, BlockValue
  <2>3. nx \in i + 1 .. n + 1
    <3>1. CASE HasBelow(l, i)
      BY <1>1, <2>1, <3>1 DEF BlockNext
    <3>2. CASE ~HasBelow(l, i)
      BY <1>1, <3>2 DEF BlockNext
    <3> QED
      BY <3>1, <3>2
  <2>4. /\ BlockStep(l, g, i) = BlockOn(l, i, v, nx, g[nx])
        /\ BlockStep(l, h, i) = BlockOn(l, i, v, nx, h[nx])
    <3>1. HasBelow(l, i) => h[i + 1] # B!Refused
      BY <1>4, <2>1
    <3> HIDE DEF nx, v
    <3> QED
      BY <1>4, <2>2, <3>1, BlockStepIs DEF nx, v
  <2> HIDE DEF nx, v
  <2>5. CASE ~B!GoesOn(l, i, nx)
    <3>1. \A m : BlockOn(l, i, v, nx, m) =
                   IF B!Ends(l, i, nx) THEN <<JoinTree(l, i, v, EmptyTree(l, i)), nx>> ELSE B!Refused
      BY <2>5 DEF BlockOn
    <3>2. BlockStep(l, g, i) = BlockStep(l, h, i)
      BY <2>4, <3>1
    <3>3. BlockStep(l, g, i) \in {B!Refused, <<JoinTree(l, i, v, EmptyTree(l, i)), nx>>}
      BY <2>4, <3>1
    <3> QED
      BY <2>3, <3>2, <3>3
  <2>6. CASE B!GoesOn(l, i, nx)
    <3>1. nx \in i + 1 .. n
      BY <1>1, <2>3, <2>6 DEF B!GoesOn
    <3>2. g[nx] = h[nx] /\ GoesForward(l, g, nx)
      BY <3>1
    <3>3. BlockStep(l, g, i) = BlockStep(l, h, i)
      BY <2>4, <3>2
    <3>4. CASE g[nx] = B!Refused
      <4>1. BlockStep(l, g, i) = B!Refused
        BY <2>4, <2>6, <3>4, Zenon DEF BlockOn
      <4> QED
        BY <3>3, <4>1
    <3>5. CASE g[nx] # B!Refused
      <4>1. g[nx][2] \in nx + 1 .. n + 1
        BY <3>2, <3>5 DEF GoesForward
      <4>2. g[nx][2] \in i + 1 .. n + 1
        BY <1>1, <3>1, <4>1
      <4>3. BlockStep(l, g, i) \in {B!Refused, <<JoinTree(l, i, v, g[nx][1]), g[nx][2]>>}
        BY <2>4, <2>6, Zenon DEF BlockOn
      <4> QED
        BY <3>3, <4>2, <4>3
    <3> QED
      BY <3>4, <3>5
  <2> QED
    BY <2>5, <2>6
<1> QED
  BY <1>2, <1>3, <1>4

IsBlockFrom(l, h, k) ==
  \A i \in k .. Len(l) : h[i] = BlockStep(l, h, i) /\ GoesForward(l, h, i)

LEMMA BlockFromExists ==
  ASSUME NEW l, IsLines(l)
  PROVE  \E h : IsBlockFrom(l, h, 1)
<1> DEFINE n == Len(l)
           T == {k \in 1 .. n + 1 : \E h : IsBlockFrom(l, h, k)}
<1>1. n \in Nat /\ n + 1 \in Nat /\ 1 \in Nat
  BY DEF IsLines
<1>2. ASSUME NEW k \in 1 .. n + 1, \A j \in k + 1 .. n + 1 : j \in T
      PROVE  k \in T
  <2>1. CASE k = n + 1
    <3>1. k .. n = {}
      BY <1>1, <2>1
    <3>2. \A h : IsBlockFrom(l, h, k)
      BY <3>1 DEF IsBlockFrom
    <3> QED
      BY <3>2
  <2>2. CASE k # n + 1
    <3>1. k \in 1 .. n /\ k + 1 \in k + 1 .. n + 1
      BY <1>1, <2>2
    <3>2. PICK h : IsBlockFrom(l, h, k + 1)
      BY <1>2, <3>1
    <3> DEFINE g == [j \in 1 .. n |-> IF j = k THEN BlockStep(l, h, k) ELSE h[j]]
    <3>3. g[k] = BlockStep(l, h, k) /\ \A j \in k + 1 .. n : g[j] = h[j]
      BY <1>1, <3>1
    <3>4. \A j \in k + 1 .. n : h[j] = BlockStep(l, h, j) /\ GoesForward(l, h, j)
      BY <3>2 DEF IsBlockFrom
    <3> HIDE DEF g
    <3>5. \A j \in k + 1 .. n : GoesForward(l, g, j)
      BY <3>3, <3>4 DEF GoesForward
    <3>6. ASSUME NEW i \in k .. n PROVE g[i] = BlockStep(l, g, i) /\ GoesForward(l, g, i)
      <4>1. i \in 1 .. n /\ \A j \in i + 1 .. n : j \in k + 1 .. n
        BY <1>1, <3>1
      <4>2. \A j \in i + 1 .. n : g[j] = h[j] /\ GoesForward(l, g, j)
        BY <3>3, <3>5, <4>1
      <4>3. /\ BlockStep(l, g, i) = BlockStep(l, h, i)
            /\ BlockStep(l, g, i) = B!Refused \/ BlockStep(l, g, i)[2] \in i + 1 .. n + 1
        BY <4>1, <4>2, BlockStepForward
      <4>4. g[i] = BlockStep(l, h, i)
        <5>1. i = k \/ i \in k + 1 .. n
          BY <1>1, <3>1
        <5> QED
          BY <3>3, <3>4, <5>1
      <4> QED
        BY <4>3, <4>4 DEF GoesForward
    <3>7. IsBlockFrom(l, g, k)
      BY <3>6 DEF IsBlockFrom
    <3> QED
      BY <3>7
  <2> QED
    BY <2>1, <2>2
<1>3. \A k \in 1 .. n + 1 : k \in T
  <2> HIDE DEF T
  <2> QED
    BY <1>1, <1>2, Backwards
<1> QED
  BY <1>1, <1>3

LEMMA BlockScans ==
  ASSUME NEW l, IsLines(l)
  PROVE  \E h : IsBlockScan(l, h) /\ B!Block(l) = h[1]
<1> DEFINE n == Len(l)
           h == CHOOSE h : h = [i \in 1 .. Len(l) |-> BlockStep(l, h, i)]
<1>1. B!Block(l) = h[1]
  BY DEF B!Block, BlockStep
<1>2. PICK f : IsBlockFrom(l, f, 1)
  BY BlockFromExists
<1> DEFINE g == [i \in 1 .. n |-> f[i]]
<1>3. \A i \in 1 .. n : g[i] = BlockStep(l, g, i)
  <2> SUFFICES ASSUME NEW i \in 1 .. n PROVE g[i] = BlockStep(l, g, i)
    OBVIOUS
  <2>1. \A k \in 1 .. n : f[k] = g[k] /\ f[k] = BlockStep(l, f, k) /\ GoesForward(l, f, k)
    BY <1>2 DEF IsBlockFrom
  <2>2. n \in Nat
    BY DEF IsLines
  <2> HIDE DEF g
  <2>3. \A k \in i + 1 .. n : f[k] = g[k] /\ GoesForward(l, f, k)
    BY <2>1, <2>2
  <2>4. BlockStep(l, f, i) = BlockStep(l, g, i)
    BY <2>3, BlockStepForward
  <2> QED
    BY <2>1, <2>4
<1>4. g = [i \in 1 .. n |-> BlockStep(l, g, i)]
  <2>1. g = [i \in 1 .. n |-> g[i]]
    OBVIOUS
  <2> HIDE DEF g
  <2> QED
    BY <1>3, <2>1, Zenon
<1>5. h = [i \in 1 .. Len(l) |-> BlockStep(l, h, i)]
  <2> HIDE DEF g, BlockStep
  <2> QED
    BY <1>4, Zenon
<1> HIDE DEF h
<1>6. IsBlockScan(l, h)
  BY <1>5, Zenon DEF IsBlockScan
<1> QED
  BY <1>1, <1>6

(* Every place among some lines is the place of one of them.               *)
NthIn(T) == \A k \in 1 .. Cardinality(T) : B!Nth(T, k) \in T

LEMMA NthBelongs ==
  ASSUME NEW n \in Nat, NEW T0 \in SUBSET (0 .. n)
  PROVE  NthIn(T0)
<1> DEFINE Small == {c \in 0 .. n + 1 : \A T \in SUBSET (0 .. n) : Cardinality(T) = c => NthIn(T)}
<1>1. \A T \in SUBSET (0 .. n) : IsFiniteSet(T) /\ Cardinality(T) \in 0 .. n + 1
  <2>1. IsFiniteSet(0 .. n) /\ Cardinality(0 .. n) = n + 1
    BY FS_Interval
  <2> SUFFICES ASSUME NEW T \in SUBSET (0 .. n)
               PROVE  IsFiniteSet(T) /\ Cardinality(T) \in 0 .. n + 1
    OBVIOUS
  <2>2. IsFiniteSet(T) /\ Cardinality(T) <= Cardinality(0 .. n)
    BY <2>1, FS_Subset
  <2>3. Cardinality(T) \in Nat
    BY <2>2, FS_CardinalityType
  <2> QED
    BY <2>1, <2>2, <2>3
<1>2. ASSUME NEW c \in 0 .. n + 1, \A b \in 0 .. c - 1 : b \in Small PROVE c \in Small
  <2> SUFFICES ASSUME NEW T \in SUBSET (0 .. n), Cardinality(T) = c, NEW k \in 1 .. c
               PROVE  B!Nth(T, k) \in T
    BY DEF NthIn
  <2>1. T # {} /\ T \in SUBSET Nat
    BY <1>1, FS_EmptySet
  <2> DEFINE m == B!Min(T)
             H == T \ {m}
  <2>2. m \in T /\ \A j \in T : m <= j
    BY <2>1, LeastIs
  <2>3. {m} \cup H = T /\ H \in SUBSET (0 .. n)
    BY <2>2
  <2>4. IsFirst(m, H)
    <3>1. IsFiniteSet(H) /\ H \in SUBSET Nat
      BY <1>1, <2>1, <2>3
    <3>2. \A j \in H : j \in T /\ j # m
      OBVIOUS
    <3> HIDE DEF m, H
    <3>3. ASSUME NEW j \in H PROVE j > m
      <4>1. j \in Nat /\ m \in Nat /\ m <= j /\ j # m
        BY <2>1, <2>2, <3>2
      <4> QED
        BY <4>1
    <3> QED
      BY <2>1, <2>2, <3>1, <3>3 DEF IsFirst
  <2> HIDE DEF m, H
  <2>5. Cardinality(H) \in Nat /\ c = Cardinality(H) + 1
    BY <2>3, <2>4, FirstCounts
  <2>6. B!Nth(T, 1) = m /\ \A p \in Nat \ {0} : B!Nth(T, p + 1) = B!Nth(H, p)
    <3>1. /\ B!Nth({m} \cup H, 1) = m
          /\ \A p \in Nat \ {0} : B!Nth({m} \cup H, p + 1) = B!Nth(H, p)
      BY <2>4, FirstNth
    <3> QED
      BY <2>3, <3>1
  <2>7. CASE k = 1
    BY <2>2, <2>6, <2>7
  <2>8. CASE k # 1
    <3> DEFINE p == k - 1
    <3>1. p \in 1 .. Cardinality(H) /\ p \in Nat \ {0} /\ k = p + 1
      BY <2>5, <2>8
    <3>2. Cardinality(H) \in 0 .. c - 1
      BY <2>5
    <3>3. Cardinality(H) \in Small
      BY <1>2, <3>2
    <3>4. NthIn(H)
      BY <2>3, <3>3
    <3> HIDE DEF p
    <3>5. B!Nth(H, p) \in H /\ B!Nth(T, k) = B!Nth(H, p)
      BY <2>6, <3>1, <3>4 DEF NthIn
    <3> QED
      BY <2>3, <3>5
  <2> QED
    BY <2>7, <2>8
<1>3. \A c \in 0 .. n + 1 : c \in Small
  <2>1. n + 1 \in Nat /\ 0 \in Nat
    OBVIOUS
  <2> HIDE DEF Small
  <2> QED
    BY <1>2, <2>1, Forwards
<1> QED
  BY <1>1, <1>3

LEMMA TogetherLocal ==
  ASSUME NEW l, NEW n \in Nat, NEW T \in SUBSET (0 .. n), NEW M, NEW N, \A j \in T : M[j] = N[j]
  PROVE  B!Together(l, T, M) = B!Together(l, T, N)
<1>1. CASE T = {}
  BY <1>1, Zenon DEF B!Together
<1>2. CASE T # {}
  <2>1. ListOf(T, M) = ListOf(T, N)
    <3>1. \A k \in 1 .. Cardinality(T) : M[B!Nth(T, k)] = N[B!Nth(T, k)]
      BY NthBelongs DEF NthIn
    <3> QED
      BY <3>1, Zenon DEF ListOf
  <2>2. MapOf(l, T, M) = MapOf(l, T, N)
    <3> DEFINE Chosen(key) == CHOOSE i \in T : l[i].key = key
               keys == {l[i].key : i \in T}
    <3>1. ASSUME NEW key \in keys PROVE M[Chosen(key)] = N[Chosen(key)]
      <4>1. \E i \in T : l[i].key = key
        BY <3>1
      <4>2. Chosen(key) \in T
        BY <4>1
      <4> QED
        BY <4>2
    <3>2. /\ MapOf(l, T, M) = [key \in keys |-> M[Chosen(key)]]
          /\ MapOf(l, T, N) = [key \in keys |-> N[Chosen(key)]]
      BY DEF MapOf
    <3> HIDE DEF Chosen, keys
    <3> QED
      BY <3>1, <3>2
  <2>3. \E i : B!Min(T) = i
    OBVIOUS
  <2> QED
    BY <1>2, <2>1, <2>2, <2>3, TogetherIs
<1> QED
  BY <1>1, <1>2

LEMMA OwnedIs ==
  ASSUME NEW l, IsLines(l), NEW i \in 0 .. Len(l)
  PROVE  /\ B!Owned(l, i) = {j \in 1 .. Len(l) : OwnersOf(l)[j] = i}
         /\ B!Owned(l, i) \in SUBSET (i + 1 .. Len(l))
<1>1. DOMAIN l = 1 .. Len(l) /\ Len(l) \in Nat
  BY DEF IsLines
<1>2. B!Owned(l, i) = {j \in 1 .. Len(l) : OwnersOf(l)[j] = i}
  BY <1>1 DEF B!Owned, OwnersOf
<1>3. ASSUME NEW j \in 1 .. Len(l), OwnersOf(l)[j] = i PROVE j \in i + 1 .. Len(l)
  <2>1. OwnersOf(l)[j] \in 0 .. j - 1
    BY LinesShape DEF IsShape, IsOwner
  <2> QED
    BY <1>1, <1>3, <2>1
<1> QED
  BY <1>2, <1>3

MeanStep(l, mean, i) ==
        IF i # 0 /\ l[i].says THEN <<"scalar", i>>
        ELSE B!Together(l, B!Owned(l, i), mean)

IsMeaning(l, M) == M = [i \in 0 .. Len(l) |-> MeanStep(l, M, i)]

LEMMA MeanStepLocal ==
  ASSUME NEW l, IsLines(l), NEW i \in 0 .. Len(l), NEW M, NEW N,
         \A j \in i + 1 .. Len(l) : M[j] = N[j]
  PROVE  MeanStep(l, M, i) = MeanStep(l, N, i)
<1> DEFINE T == B!Owned(l, i)
<1>1. Len(l) \in Nat
  BY DEF IsLines
<1>2. T \in SUBSET (i + 1 .. Len(l))
  BY OwnedIs
<1> HIDE DEF T
<1>3. T \in SUBSET (0 .. Len(l)) /\ \A j \in T : M[j] = N[j]
  BY <1>1, <1>2
<1>4. B!Together(l, T, M) = B!Together(l, T, N)
  BY <1>1, <1>3, TogetherLocal
<1> QED
  BY <1>4, Zenon DEF MeanStep, T

IsMeaningFrom(l, M, k) == \A i \in k .. Len(l) : M[i] = MeanStep(l, M, i)

LEMMA MeaningFromExists ==
  ASSUME NEW l, IsLines(l)
  PROVE  \E M : IsMeaningFrom(l, M, 0)
<1> DEFINE n == Len(l)
           T == {k \in 0 .. n + 1 : \E M : IsMeaningFrom(l, M, k)}
<1>1. n \in Nat /\ n + 1 \in Nat /\ 0 \in Nat
  BY DEF IsLines
<1>2. ASSUME NEW k \in 0 .. n + 1, \A j \in k + 1 .. n + 1 : j \in T
      PROVE  k \in T
  <2>1. CASE k = n + 1
    <3>1. k .. n = {}
      BY <1>1, <2>1
    <3>2. \A M : IsMeaningFrom(l, M, k)
      BY <3>1 DEF IsMeaningFrom
    <3> QED
      BY <3>2
  <2>2. CASE k # n + 1
    <3>1. k \in 0 .. n /\ k + 1 \in k + 1 .. n + 1
      BY <1>1, <2>2
    <3>2. PICK M : IsMeaningFrom(l, M, k + 1)
      BY <1>2, <3>1
    <3> DEFINE N == [j \in 0 .. n |-> IF j = k THEN MeanStep(l, M, k) ELSE M[j]]
    <3>3. N[k] = MeanStep(l, M, k) /\ \A j \in k + 1 .. n : N[j] = M[j]
      BY <1>1, <3>1
    <3>4. \A j \in k + 1 .. n : M[j] = MeanStep(l, M, j)
      BY <3>2 DEF IsMeaningFrom
    <3> HIDE DEF N
    <3>5. ASSUME NEW i \in k .. n PROVE N[i] = MeanStep(l, N, i)
      <4>1. i \in 0 .. n /\ \A j \in i + 1 .. n : j \in k + 1 .. n
        BY <1>1, <3>1
      <4>2. \A j \in i + 1 .. n : N[j] = M[j]
        BY <3>3, <4>1
      <4>3. MeanStep(l, N, i) = MeanStep(l, M, i)
        BY <4>1, <4>2, MeanStepLocal
      <4>4. i = k \/ i \in k + 1 .. n
        BY <1>1, <3>1
      <4>5. N[i] = MeanStep(l, M, i)
        BY <3>3, <3>4, <4>4
      <4> QED
        BY <4>3, <4>5
    <3>6. IsMeaningFrom(l, N, k)
      BY <3>5 DEF IsMeaningFrom
    <3> QED
      BY <3>6
  <2> QED
    BY <2>1, <2>2
<1>3. \A k \in 0 .. n + 1 : k \in T
  <2> HIDE DEF T
  <2> QED
    BY <1>1, <1>2, Backwards
<1> QED
  BY <1>1, <1>3

LEMMA MeaningExists ==
  ASSUME NEW l, IsLines(l)
  PROVE  \E M : /\ IsMeaning(l, M)
                /\ B!Meant(l) = IF B!IsDocument(l) THEN M[0] ELSE B!Refused
<1> DEFINE n == Len(l)
           M == CHOOSE M : M = [i \in 0 .. Len(l) |-> MeanStep(l, M, i)]
<1>1. B!Meant(l) = IF B!IsDocument(l) THEN M[0] ELSE B!Refused
  BY DEF B!Meant, MeanStep
<1>2. PICK f : IsMeaningFrom(l, f, 0)
  BY MeaningFromExists
<1> DEFINE g == [i \in 0 .. n |-> f[i]]
<1>3. \A i \in 0 .. n : g[i] = MeanStep(l, g, i)
  <2> SUFFICES ASSUME NEW i \in 0 .. n PROVE g[i] = MeanStep(l, g, i)
    OBVIOUS
  <2>1. \A k \in 0 .. n : f[k] = g[k] /\ f[k] = MeanStep(l, f, k)
    BY <1>2 DEF IsMeaningFrom
  <2>2. n \in Nat
    BY DEF IsLines
  <2> HIDE DEF g
  <2>3. \A k \in i + 1 .. n : f[k] = g[k]
    BY <2>1, <2>2
  <2>4. MeanStep(l, f, i) = MeanStep(l, g, i)
    BY <2>3, MeanStepLocal
  <2> QED
    BY <2>1, <2>4
<1>4. g = [i \in 0 .. n |-> MeanStep(l, g, i)]
  <2>1. g = [i \in 0 .. n |-> g[i]]
    OBVIOUS
  <2> HIDE DEF g
  <2> QED
    BY <1>3, <2>1, Zenon
<1>5. M = [i \in 0 .. Len(l) |-> MeanStep(l, M, i)]
  <2> HIDE DEF g, MeanStep
  <2> QED
    BY <1>4, Zenon
<1> HIDE DEF M
<1>6. IsMeaning(l, M)
  BY <1>5, Zenon DEF IsMeaning
<1> QED
  BY <1>1, <1>6

-----------------------------------------------------------------------------
(* What starts at a line of a document, told by the depths around it.      *)

Good(l, i) == IsGood(l, OwnersOf(l), i, EndsOf(l)[i])
RootsOf(l, i) == Roots(OwnersOf(l), EndsOf(l), i)
TreeOf(l, M, i) == B!Together(l, RootsOf(l, i), M)

BelowGood(l, i) == BelowIsGood(l, OwnersOf(l), EndsOf(l), NextsOf(l), i)
RestGood(l, i) == RestIsGood(l, OwnersOf(l), EndsOf(l), NextsOf(l), i)

(* Where the lines around line i are.                                      *)
LEMMA AroundLine ==
  ASSUME NEW l, IsLines(l), NEW i \in 1 .. Len(l)
  PROVE  /\ Len(l) \in Nat /\ OwnersOf(l)[i] \in 0 .. i - 1
         /\ NextsOf(l)[i] \in i + 1 .. EndsOf(l)[i] /\ EndsOf(l)[i] \in i + 1 .. Len(l) + 1
         /\ EndsOf(l)[i] # Len(l) + 1 => DepthsOf(l)[EndsOf(l)[i]] < DepthsOf(l)[i]
         /\ NextsOf(l)[i] < EndsOf(l)[i] =>
              /\ NextsOf(l)[i] \in 1 .. Len(l) /\ DepthsOf(l)[NextsOf(l)[i]] = DepthsOf(l)[i]
              /\ OwnersOf(l)[NextsOf(l)[i]] = OwnersOf(l)[i] /\ EndsOf(l)[NextsOf(l)[i]] = EndsOf(l)[i]
<1> DEFINE n == Len(l)
           d == DepthsOf(l)
           o == OwnersOf(l)
           e == EndsOf(l)
           f == NextsOf(l)
<1>1. n \in Nat /\ IsShape(n, d, o, e, f)
  BY LinesShape DEF IsLines
<1> HIDE DEF n, d, o, e, f
<1>2. i \in 1 .. n
  BY DEF n
<1>3. /\ f[i] \in i + 1 .. e[i] /\ e[i] \in i + 1 .. n + 1
      /\ f[i] < e[i] => /\ f[i] \in 1 .. n /\ d[f[i]] = d[i] /\ o[f[i]] = o[i]
                        /\ e[f[i]] = e[i]
  BY <1>1, <1>2, NextInBlock
<1>4. IsOwner(d, i, o[i]) /\ IsEnd(d, n, i, e[i])
  BY <1>1, <1>2 DEF IsShape
<1>5. o[i] \in 0 .. i - 1 /\ (e[i] # n + 1 => d[e[i]] < d[i])
  BY <1>4 DEF IsOwner, IsEnd
<1> QED
  BY <1>1, <1>3, <1>5 DEF n, d, o, e, f

LEMMA AroundBlock ==
  ASSUME NEW l, IsLines(l), NEW i \in 1 .. Len(l), NEW j \in i .. EndsOf(l)[i] - 1
  PROVE  /\ j \in 1 .. Len(l) /\ OwnersOf(l)[j] \in 0 .. j - 1
         /\ OwnersOf(l)[j] >= i \/ (OwnersOf(l)[j] = OwnersOf(l)[i] /\ DepthsOf(l)[j] = DepthsOf(l)[i])
         /\ j \in i + 1 .. NextsOf(l)[i] - 1 => OwnersOf(l)[j] \in i .. j - 1
<1> DEFINE n == Len(l)
           d == DepthsOf(l)
           o == OwnersOf(l)
           e == EndsOf(l)
           f == NextsOf(l)
<1>1. n \in Nat /\ IsShape(n, d, o, e, f)
  BY LinesShape DEF IsLines
<1> HIDE DEF n, d, o, e, f
<1>2. i \in 1 .. n /\ j \in i .. e[i] - 1
  BY DEF n, e
<1>3. j \in 1 .. n /\ o[j] \in 0 .. j - 1 /\ (o[j] >= i \/ (o[j] = o[i] /\ d[j] = d[i]))
  BY <1>1, <1>2, BlockOwned
<1>4. j \in i + 1 .. f[i] - 1 => o[j] \in i .. j - 1
  BY <1>1, <1>2, BelowOwned
<1> QED
  BY <1>3, <1>4 DEF n, d, o, e, f

LEMMA AroundChild ==
  ASSUME NEW l, IsLines(l), NEW i \in 1 .. Len(l), i + 1 < NextsOf(l)[i]
  PROVE  /\ i + 1 \in 1 .. Len(l) /\ OwnersOf(l)[i + 1] = i /\ DepthsOf(l)[i + 1] > DepthsOf(l)[i]
         /\ EndsOf(l)[i + 1] \in i + 2 .. NextsOf(l)[i]
         /\ EndsOf(l)[i + 1] < NextsOf(l)[i] =>
              /\ EndsOf(l)[i + 1] \in 1 .. Len(l) /\ OwnersOf(l)[EndsOf(l)[i + 1]] = i
              /\ DepthsOf(l)[EndsOf(l)[i + 1]] > DepthsOf(l)[i]
              /\ DepthsOf(l)[EndsOf(l)[i + 1]] < DepthsOf(l)[i + 1]
<1> DEFINE n == Len(l)
           d == DepthsOf(l)
           o == OwnersOf(l)
           e == EndsOf(l)
           f == NextsOf(l)
<1>1. n \in Nat /\ IsShape(n, d, o, e, f)
  BY LinesShape DEF IsLines
<1> HIDE DEF n, d, o, e, f
<1>2. i \in 1 .. n /\ i + 1 < f[i]
  BY DEF n, f
<1>3. /\ i + 1 \in 1 .. n /\ o[i + 1] = i /\ d[i + 1] > d[i] /\ e[i + 1] \in i + 2 .. f[i]
      /\ e[i + 1] < f[i] => /\ e[i + 1] \in 1 .. n /\ o[e[i + 1]] = i
                            /\ d[e[i + 1]] > d[i] /\ d[e[i + 1]] < d[i + 1]
  BY <1>1, <1>2, ChildBlock
<1> QED
  BY <1>3 DEF n, d, o, e, f

(* The lines of a block, from its first.                                   *)
LEMMA RootsSplit ==
  ASSUME NEW l, IsLines(l), NEW i \in 1 .. Len(l)
  PROVE  /\ NextsOf(l)[i] = EndsOf(l)[i] => RootsOf(l, i) = {i}
         /\ NextsOf(l)[i] < EndsOf(l)[i] =>
              /\ RootsOf(l, i) = {i} \cup RootsOf(l, NextsOf(l)[i])
              /\ IsFirst(i, RootsOf(l, NextsOf(l)[i])) /\ RootsOf(l, NextsOf(l)[i]) # {}
              /\ AreAlike(l, i, RootsOf(l, NextsOf(l)[i]))
              /\ \A k \in RootsOf(l, NextsOf(l)[i]) : k \in 1 .. Len(l) /\ DepthsOf(l)[k] = DepthsOf(l)[i]
<1> DEFINE n == Len(l)
           d == DepthsOf(l)
           o == OwnersOf(l)
           r == EndsOf(l)[i]
           m == NextsOf(l)[i]
<1>1. /\ n \in Nat /\ o[i] \in 0 .. i - 1 /\ m \in i + 1 .. r /\ r \in i + 1 .. n + 1
      /\ m < r => m \in 1 .. n /\ d[m] = d[i] /\ o[m] = o[i] /\ EndsOf(l)[m] = r
  BY AroundLine
<1>2. \A j \in i .. r - 1 :
        /\ j \in 1 .. n /\ o[j] \in 0 .. j - 1
        /\ o[j] >= i \/ (o[j] = o[i] /\ d[j] = d[i])
        /\ j \in i + 1 .. m - 1 => o[j] \in i .. j - 1
  BY AroundBlock
<1>3. RootsOf(l, i) = {j \in i .. r - 1 : o[j] = o[i]}
  BY DEF RootsOf, Roots
<1>4. m < r => RootsOf(l, m) = {j \in m .. r - 1 : o[j] = o[i]}
  BY <1>1 DEF RootsOf, Roots
<1> HIDE DEF n, d, o, r, m
<1>5. \A j \in i .. r - 1 : o[j] = o[i] => j = i \/ j \in m .. r - 1
  <2> SUFFICES ASSUME NEW j \in i .. r - 1, o[j] = o[i], j # i PROVE j \in m .. r - 1
    OBVIOUS
  <2>1. ~(j \in i + 1 .. m - 1)
    BY <1>1, <1>2
  <2> QED
    BY <1>1, <2>1
<1>6. i \in i .. r - 1
  BY <1>1
<1>7. m = r => RootsOf(l, i) = {i}
  BY <1>1, <1>3, <1>5, <1>6
<1>8. ASSUME m < r
      PROVE  /\ RootsOf(l, i) = {i} \cup RootsOf(l, m)
             /\ IsFirst(i, RootsOf(l, m)) /\ RootsOf(l, m) # {}
             /\ AreAlike(l, i, RootsOf(l, m))
             /\ \A k \in RootsOf(l, m) : k \in 1 .. n /\ d[k] = d[i]
  <2> DEFINE H == RootsOf(l, m)
  <2>1. H = {j \in m .. r - 1 : o[j] = o[i]}
    BY <1>4, <1>8
  <2> HIDE DEF H
  <2>2. RootsOf(l, i) = {i} \cup H
    <3>1. \A j : j \in RootsOf(l, i) <=> j \in {i} \cup H
      <4>1. \A j \in H : j \in i .. r - 1 /\ o[j] = o[i]
        BY <1>1, <2>1
      <4>2. \A j \in RootsOf(l, i) : j \in i .. r - 1 /\ (j = i \/ j \in H)
        BY <1>3, <1>5, <2>1
      <4> QED
        BY <1>3, <1>6, <4>1, <4>2
    <3> QED
      BY <3>1
  <2>3. m \in H
    BY <1>1, <1>8, <2>1
  <2>4. \A k \in H : k \in i .. r - 1 /\ k > i /\ o[k] = o[i]
    BY <1>1, <2>1
  <2>5. \A k \in H : k \in 1 .. n /\ d[k] = d[i]
    <3> SUFFICES ASSUME NEW k \in H PROVE k \in 1 .. n /\ d[k] = d[i]
      OBVIOUS
    <3>1. k \in i .. r - 1 /\ o[k] = o[i]
      BY <2>4
    <3> QED
      BY <1>1, <1>2, <3>1
  <2>6. IsFirst(i, H)
    <3>1. H \in SUBSET (1 .. n)
      BY <2>5
    <3>2. IsFiniteSet(1 .. n)
      BY <1>1, FS_Interval
    <3>3. IsFiniteSet(H)
      BY <3>1, <3>2, FS_Subset
    <3>4. H \in SUBSET Nat /\ i \in Nat
      BY <1>1, <3>1 DEF n
    <3> QED
      BY <2>4, <3>3, <3>4 DEF IsFirst
  <2>7. AreAlike(l, i, H)
    <3> SUFFICES ASSUME NEW k \in H PROVE l[k].item = l[i].item
      BY DEF AreAlike
    <3>1. k \in 1 .. Len(l) /\ DepthsOf(l)[k] = DepthsOf(l)[i]
      BY <2>5 DEF n, d
    <3> QED
      BY <3>1, DepthsCompare
  <2> QED
    BY <2>2, <2>3, <2>5, <2>6, <2>7 DEF H
<1> QED
  BY <1>7, <1>8 DEF n, d, r, m

(* What belongs to a line is the block below it, if that is all of it.     *)
LEMMA OwnedIsBlock ==
  ASSUME NEW l, IsLines(l), NEW i \in 1 .. Len(l)
  PROVE  /\ NextsOf(l)[i] = i + 1 => B!Owned(l, i) = {}
         /\ i + 1 < NextsOf(l)[i] /\ EndsOf(l)[i + 1] = NextsOf(l)[i] => B!Owned(l, i) = RootsOf(l, i + 1)
<1> DEFINE n == Len(l)
           d == DepthsOf(l)
           o == OwnersOf(l)
           e == EndsOf(l)
           f == NextsOf(l)
<1>1. n \in Nat /\ IsShape(n, d, o, e, f)
  BY LinesShape DEF IsLines
<1>2. B!Owned(l, i) = {j \in 1 .. n : o[j] = i}
  <2>1. i \in 0 .. Len(l)
    BY <1>1
  <2> QED
    BY <2>1, OwnedIs
<1>3. ASSUME i + 1 < f[i], e[i + 1] = f[i] PROVE B!Owned(l, i) = RootsOf(l, i + 1)
  <2>1. i + 1 \in 1 .. n /\ o[i + 1] = i
    BY <1>3, AroundChild
  <2>2. \A j \in i + 1 .. e[i + 1] - 1 : j \in 1 .. n
    BY <2>1, AroundBlock
  <2>3. RootsOf(l, i + 1) = {j \in i + 1 .. e[i + 1] - 1 : o[j] = i}
    BY <2>1 DEF RootsOf, Roots
  <2> HIDE DEF n, d, o, e, f
  <2>4. \A j \in 1 .. n : o[j] = i => j \in i + 1 .. f[i] - 1
    BY <1>1, OwnedBelow DEF n
  <2> QED
    BY <1>2, <1>3, <2>2, <2>3, <2>4
<1>4. ASSUME f[i] = i + 1 PROVE B!Owned(l, i) = {}
  <2> HIDE DEF n, d, o, e, f
  <2>1. \A j \in 1 .. n : o[j] = i => j \in i + 1 .. f[i] - 1
    BY <1>1, OwnedBelow DEF n
  <2>2. i + 1 .. f[i] - 1 = {}
    BY <1>1, <1>4 DEF n
  <2> QED
    BY <1>2, <2>1, <2>2
<1> QED
  BY <1>3, <1>4

(* From the last line to the first, what starts at a line is read as the   *)
(* tree of its lines, or it fails: it is refused, or it stops early, at a  *)
(* line that no entry above it can go on with.                             *)

(* A block that is no document is refused, or stops at an item that the    *)
(* lines above it, entries at its indentation, do not ask for.             *)
IsStuck(l, v, i) ==
  /\ v[2] \in i + 1 .. Len(l) /\ v # B!Refused
  /\ l[v[2]].indent = l[i].indent /\ l[v[2]].item /\ ~l[i].item

Fails(l, v, i) == v = B!Refused \/ IsStuck(l, v, i)

IsRead(l, M, h, i) ==
  /\ Good(l, i) => h[i] = <<TreeOf(l, M, i), EndsOf(l)[i]>>
  /\ ~Good(l, i) => Fails(l, h[i], i)

(* What a line says, or the block below it, is read as what it means.      *)
LEMMA ValueIsRead ==
  ASSUME NEW l, IsLines(l), NEW M, IsMeaning(l, M), NEW h, NEW i \in 1 .. Len(l),
         Holds(l, i), BelowGood(l, i), i + 1 < NextsOf(l)[i] => IsRead(l, M, h, i + 1)
  PROVE  BlockStep(l, h, i) = BlockOn(l, i, M[i], NextsOf(l)[i], h[NextsOf(l)[i]])
<1> DEFINE m == NextsOf(l)[i]
<1>1. Len(l) \in Nat /\ m \in i + 1 .. Len(l) + 1
  <2>1. /\ Len(l) \in Nat /\ m \in i + 1 .. EndsOf(l)[i]
        /\ EndsOf(l)[i] \in i + 1 .. Len(l) + 1
    BY AroundLine
  <2> HIDE DEF m
  <2> QED
    BY <2>1
<1>2. M[i] = IF l[i].says THEN <<"scalar", i>> ELSE B!Together(l, B!Owned(l, i), M)
  <2>1. i \in 0 .. Len(l) /\ i # 0
    BY <1>1
  <2>2. M[i] = MeanStep(l, M, i)
    BY <2>1 DEF IsMeaning
  <2> QED
    BY <2>1, <2>2 DEF MeanStep
<1>3. CASE i + 1 < m
  <2>1. Opens(l, i) /\ EndsOf(l)[i + 1] = m /\ IsGood(l, OwnersOf(l), i + 1, m)
    BY <1>3 DEF BelowGood, BelowIsGood
  <2>2. i + 1 \in 1 .. Len(l) /\ DepthsOf(l)[i + 1] > DepthsOf(l)[i]
    BY <1>3, AroundChild
  <2>3. HasBelow(l, i)
    <3>1. ~l[i].item /\ ~l[i].says /\ i < Len(l)
      BY <1>1, <2>1, <2>2 DEF Opens
    <3>2. B!HasChild(l, i)
      BY <2>2, <3>1, GuardsByDepth
    <3> QED
      BY <3>1, <3>2 DEF HasBelow
  <2>4. h[i + 1] = <<TreeOf(l, M, i + 1), m>>
    <3>1. Good(l, i + 1)
      BY <2>1 DEF Good
    <3> QED
      BY <1>3, <2>1, <3>1 DEF IsRead
  <2>5. h[i + 1] # B!Refused
    BY <2>4, NotRefused
  <2>6. M[i] = TreeOf(l, M, i + 1)
    <3>1. B!Owned(l, i) = RootsOf(l, i + 1)
      BY <1>3, <2>1, OwnedIsBlock
    <3> QED
      BY <1>2, <2>1, <3>1 DEF Opens, TreeOf
  <2>7. BlockNext(l, h, i) = m /\ BlockValue(l, h, i) = M[i]
    <3> HIDE DEF m
    <3>1. ~l[i].says
      BY <2>1 DEF Opens
    <3> QED
      BY <2>3, <2>4, <2>6, <3>1 DEF BlockNext, BlockValue
  <2> QED
    BY <2>5, <2>7, BlockStepIs
<1>4. CASE m = i + 1
  <2>1. ~HasBelow(l, i)
    <3> SUFFICES ASSUME HasBelow(l, i) PROVE FALSE
      OBVIOUS
    <3>1. ~l[i].item /\ B!HasChild(l, i)
      BY DEF HasBelow
    <3>2. i < Len(l) /\ DepthsOf(l)[i + 1] > DepthsOf(l)[i]
      BY <3>1, GuardsByDepth
    <3>3. m # Len(l) + 1 => DepthsOf(l)[m] <= DepthsOf(l)[i]
      <4>1. IsNext(DepthsOf(l), Len(l), i, m)
        BY LinesShape DEF IsShape
      <4> QED
        BY <4>1 DEF IsNext
    <3>4. DepthsOf(l)[i] \in Nat /\ DepthsOf(l)[i + 1] \in Nat
      <4>1. i + 1 \in 1 .. Len(l)
        BY <1>1, <3>2
      <4> QED
        BY <4>1, DepthsCompare
    <3> HIDE DEF m
    <3>5. m # Len(l) + 1
      BY <1>1, <1>4, <3>2
    <3> QED
      BY <1>4, <3>2, <3>3, <3>4, <3>5
  <2>2. BlockNext(l, h, i) = m
    BY <1>4, <2>1 DEF BlockNext
  <2>3. B!Owned(l, i) = {}
    BY <1>4, OwnedIsBlock
  <2>4. BlockValue(l, h, i) = M[i]
    BY <1>2, <2>1, <2>3, Zenon DEF BlockValue, B!Together
  <2> QED
    BY <2>1, <2>2, <2>4, BlockStepIs
<1> QED
  BY <1>1, <1>3, <1>4

(* Lines below that are not the value of line i are refused, there or here.*)
LEMMA BelowFails ==
  ASSUME NEW l, IsLines(l), NEW M, NEW h, NEW i \in 1 .. Len(l),
         Holds(l, i), ~BelowGood(l, i), IsRead(l, M, h, i + 1)
  PROVE  Fails(l, BlockStep(l, h, i), i)
<1> DEFINE m == NextsOf(l)[i]
           d == DepthsOf(l)
           r == EndsOf(l)[i + 1]
<1>1. i + 1 < m
  BY DEF BelowGood, BelowIsGood
<1>2. /\ i + 1 \in 1 .. Len(l) /\ d[i + 1] > d[i] /\ r \in i + 2 .. m
      /\ r < m => r \in 1 .. Len(l) /\ d[r] > d[i] /\ d[r] < d[i + 1]
  BY <1>1, AroundChild
<1>3. Len(l) \in Nat /\ m \in i + 1 .. Len(l) + 1
  <2>1. /\ Len(l) \in Nat /\ m \in i + 1 .. EndsOf(l)[i]
        /\ EndsOf(l)[i] \in i + 1 .. Len(l) + 1
    BY AroundLine
  <2> HIDE DEF m
  <2> QED
    BY <2>1
<1>4. \A k \in 1 .. Len(l) :
        /\ l[k].indent \in Nat /\ l[k].item \in BOOLEAN /\ l[k].says \in BOOLEAN /\ d[k] \in Nat
        /\ d[i] < d[k] <=> \/ l[i].indent < l[k].indent
                           \/ l[k].item /\ ~l[i].item /\ l[i].indent = l[k].indent
  BY DepthsCompare DEF IsLines
(* What stops at a deeper line is refused or stuck there.                  *)
<1>5. ASSUME NEW k \in i + 1 .. Len(l), d[k] > d[i], NEW v, NEW more,
             BlockStep(l, h, i) = BlockOn(l, i, v, k, more)
      PROVE  Fails(l, BlockStep(l, h, i), i)
  <2>1. k \in 1 .. Len(l)
    BY <1>3
  <2>2. /\ B!GoesOn(l, i, k) <=> d[k] = d[i]
        /\ B!Ends(l, i, k) <=> l[k].indent <= l[i].indent
    BY <2>1, GuardsByDepth
  <2>3. d[k] \in Nat /\ d[i] \in Nat
    BY <1>4, <2>1
  <2>4. ~B!GoesOn(l, i, k)
    BY <1>5, <2>2, <2>3
  <2> HIDE DEF d
  <2>5. CASE ~B!Ends(l, i, k)
    BY <1>5, <2>4, <2>5, Zenon DEF BlockOn, Fails
  <2>6. CASE B!Ends(l, i, k)
    <3>1. BlockStep(l, h, i) = <<JoinTree(l, i, v, EmptyTree(l, i)), k>>
      BY <1>5, <2>4, <2>6, Zenon DEF BlockOn
    <3>2. l[k].indent = l[i].indent /\ l[k].item /\ ~l[i].item
      BY <1>4, <1>5, <2>1, <2>2, <2>3, <2>6
    <3>3. BlockStep(l, h, i)[2] = k /\ BlockStep(l, h, i) # B!Refused
      BY <3>1, NotRefused
    <3>4. IsStuck(l, BlockStep(l, h, i), i)
      BY <1>5, <3>2, <3>3 DEF IsStuck
    <3> QED
      BY <3>4 DEF Fails
  <2> QED
    BY <2>5, <2>6
<1>6. CASE ~HasBelow(l, i)
  <2>1. BlockNext(l, h, i) = i + 1
    BY <1>6 DEF BlockNext
  <2>2. BlockStep(l, h, i) = BlockOn(l, i, BlockValue(l, h, i), i + 1, h[i + 1])
    BY <1>6, <2>1, BlockStepIs
  <2>3. i + 1 \in i + 1 .. Len(l)
    BY <1>2
  <2> QED
    BY <1>2, <1>5, <2>2, <2>3
<1>7. CASE HasBelow(l, i)
  <2>1. ~l[i].item /\ ~l[i].says
    BY <1>7 DEF HasBelow
  <2>2. CASE h[i + 1] = B!Refused
    BY <1>7, <2>2, BlockStepIs DEF Fails
  <2>3. CASE h[i + 1] # B!Refused
    <3> DEFINE k == h[i + 1][2]
    <3>1. BlockStep(l, h, i) = BlockOn(l, i, BlockValue(l, h, i), k, h[k])
      <4>1. BlockNext(l, h, i) = k
        BY <1>7 DEF BlockNext
      <4> QED
        BY <2>3, <4>1, BlockStepIs
    <3>2. k \in i + 1 .. Len(l) /\ d[k] > d[i]
      <4>1. CASE Good(l, i + 1)
        <5>1. k = r
          <6>1. h[i + 1] = <<TreeOf(l, M, i + 1), r>>
            BY <4>1 DEF IsRead
          <6> QED
            BY <6>1
        <5>2. r # m
          BY <1>1, <2>1, <4>1 DEF BelowGood, BelowIsGood, Good, Opens
        <5> HIDE DEF m, r, k
        <5>3. r < m
          BY <1>2, <1>3, <5>2
        <5> QED
          BY <1>2, <1>3, <5>1, <5>3
      <4>2. CASE ~Good(l, i + 1)
        <5>1. IsStuck(l, h[i + 1], i + 1)
          BY <2>3, <4>2 DEF IsRead, Fails
        <5>2. k \in (i + 1) + 1 .. Len(l) /\ l[k].indent = l[i + 1].indent /\ l[k].item /\ ~l[i + 1].item
          BY <5>1 DEF IsStuck
        <5> HIDE DEF k
        <5>3. l[i].indent < l[i + 1].indent
          BY <1>2, <1>4, <2>1, <5>2
        <5>4. k \in i + 1 .. Len(l) /\ k \in 1 .. Len(l)
          BY <1>3, <5>2
        <5>5. d[i] < d[k]
          BY <1>4, <5>2, <5>3, <5>4
        <5>6. d[k] \in Nat /\ d[i] \in Nat
          BY <1>4, <5>4
        <5> QED
          BY <5>4, <5>5, <5>6
      <4> QED
        BY <4>1, <4>2
    <3> HIDE DEF k
    <3> QED
      BY <1>5, <3>1, <3>2
  <2> QED
    BY <2>2, <2>3
<1> QED
  BY <1>6, <1>7

LEMMA KeysDiffer ==
  ASSUME NEW l, IsLines(l), NEW i \in 1 .. Len(l), Good(l, i)
  PROVE  l[i].item \/ HaveKeys(l, RootsOf(l, i))
<1> SUFFICES ASSUME ~l[i].item, NEW j \in RootsOf(l, i), NEW k \in RootsOf(l, i), j # k
             PROVE  l[j].key # l[k].key
  BY DEF HaveKeys
<1> DEFINE r == EndsOf(l)[i]
           o == OwnersOf(l)
<1>1. \A a \in RootsOf(l, i) : a \in i .. r - 1 /\ o[a] = o[i]
  BY DEF RootsOf, Roots
<1>2. i \in Nat /\ r \in Nat
  BY AroundLine
<1>3. \A a \in i .. r - 1 : \A b \in a + 1 .. r - 1 : o[a] = o[b] => Fits(l, a, b)
  BY DEF Good, IsGood
<1>4. \A a \in RootsOf(l, i) : l[a].item = l[i].item
  <2> SUFFICES ASSUME NEW a \in RootsOf(l, i), a # i PROVE l[i].item = l[a].item
    OBVIOUS
  <2> HIDE DEF r, o
  <2>1. i \in i .. r - 1 /\ a \in i + 1 .. r - 1 /\ o[i] = o[a]
    BY <1>1, <1>2
  <2> QED
    BY <1>3, <2>1 DEF Fits
<1> HIDE DEF r, o
<1>5. ASSUME NEW a \in RootsOf(l, i), NEW b \in RootsOf(l, i), a < b PROVE l[a].key # l[b].key
  <2>1. a \in i .. r - 1 /\ b \in a + 1 .. r - 1 /\ o[a] = o[b]
    BY <1>1, <1>2, <1>5
  <2>2. Fits(l, a, b)
    BY <1>3, <2>1
  <2> QED
    BY <1>4, <2>2 DEF Fits
<1>6. j \in Nat /\ k \in Nat
  BY <1>1, <1>2
<1>7. j < k \/ k < j
  BY <1>6
<1> QED
  BY <1>5, <1>7

(* A line that says what it means, and what follows it in its block.       *)
LEMMA RestIsRead ==
  ASSUME NEW l, IsLines(l), NEW M, NEW h, NEW i \in 1 .. Len(l),
         BlockStep(l, h, i) = BlockOn(l, i, M[i], NextsOf(l)[i], h[NextsOf(l)[i]]),
         NextsOf(l)[i] < EndsOf(l)[i] => IsRead(l, M, h, NextsOf(l)[i])
  PROVE  /\ Good(l, i) => BlockStep(l, h, i) = <<TreeOf(l, M, i), EndsOf(l)[i]>>
         /\ ~RestGood(l, i) => Fails(l, BlockStep(l, h, i), i)
<1> DEFINE m == NextsOf(l)[i]
           r == EndsOf(l)[i]
           d == DepthsOf(l)
           H == RootsOf(l, m)
           joined == JoinTree(l, i, M[i], TreeOf(l, M, m))
<1>1. /\ Len(l) \in Nat /\ m \in i + 1 .. r /\ r \in i + 1 .. Len(l) + 1
      /\ r # Len(l) + 1 => d[r] < d[i]
      /\ m < r => m \in 1 .. Len(l) /\ d[m] = d[i] /\ OwnersOf(l)[m] = OwnersOf(l)[i] /\ EndsOf(l)[m] = r
  BY AroundLine
<1>2. CASE m = r
  <2>1. ~B!GoesOn(l, i, r) /\ B!Ends(l, i, r)
    <3>1. CASE r = Len(l) + 1
      BY <3>1, GuardsByDepth
    <3>2. CASE r # Len(l) + 1
      <4> HIDE DEF r
      <4>1. r \in 1 .. Len(l) /\ d[r] < d[i]
        BY <1>1, <3>2
      <4>2. /\ B!GoesOn(l, i, r) <=> d[r] = d[i]
            /\ B!Ends(l, i, r) <=> l[r].indent <= l[i].indent
        BY <4>1, GuardsByDepth
      <4>3. /\ d[r] < d[i] <=> \/ l[r].indent < l[i].indent
                               \/ l[i].item /\ ~l[r].item /\ l[r].indent = l[i].indent
            /\ d[r] \in Nat /\ d[i] \in Nat
        BY <4>1, DepthsCompare
      <4>4. l[r].indent \in Nat /\ l[i].indent \in Nat
        BY <4>1 DEF IsLines
      <4> QED
        BY <4>1, <4>2, <4>3, <4>4
    <3> QED
      BY <3>1, <3>2
  <2>2. BlockStep(l, h, i) = <<JoinTree(l, i, M[i], EmptyTree(l, i)), r>>
    BY <1>2, <2>1, Zenon DEF BlockOn
  <2>3. JoinTree(l, i, M[i], EmptyTree(l, i)) = B!Together(l, {i}, M)
    <3>1. i \in Nat
      BY <1>1
    <3> QED
      BY <3>1, TogetherOne
  <2>4. RootsOf(l, i) = {i}
    BY <1>2, RootsSplit
  <2>5. RestGood(l, i)
    <3>1. ~(m < r)
      <4> HIDE DEF m, r
      <4> QED
        BY <1>1, <1>2
    <3> QED
      BY <3>1 DEF RestGood, RestIsGood
  <2> QED
    BY <2>2, <2>3, <2>4, <2>5 DEF TreeOf
<1>3. CASE m < r
  <2>1. m \in 1 .. Len(l) /\ d[m] = d[i] /\ EndsOf(l)[m] = r
    BY <1>1, <1>3
  <2>2. B!GoesOn(l, i, m)
    BY <2>1, GuardsByDepth
  <2>3. l[m].indent = l[i].indent /\ l[m].item = l[i].item
    BY <2>1, DepthsCompare
  <2>4. /\ RootsOf(l, i) = {i} \cup H /\ IsFirst(i, H) /\ H # {} /\ AreAlike(l, i, H)
        /\ \A k \in H : k \in 1 .. Len(l) /\ d[k] = d[i]
    BY <1>3, RootsSplit
  <2>5. IsRead(l, M, h, m)
    BY <1>3
  <2>6. /\ l[i].item \/ HaveKeys(l, {i} \cup H) => joined = B!Together(l, {i} \cup H, M)
        /\ ~l[i].item /\ (\E k \in H : l[k].key = l[i].key) => joined = B!Refused
    <3>1. IsTogether(l, i, H, M)
      BY <2>4, TogetherMore
    <3> QED
      BY <3>1, Zenon DEF IsTogether, TreeOf
  <2>7. Good(l, m) => h[m] = <<TreeOf(l, M, m), r>>
    BY <2>1, <2>5 DEF IsRead
  <2>8. h[m] = <<TreeOf(l, M, m), r>> /\ joined # B!Refused => BlockStep(l, h, i) = <<joined, r>>
    <3> SUFFICES ASSUME h[m] = <<TreeOf(l, M, m), r>>, joined # B!Refused
                 PROVE  BlockStep(l, h, i) = <<joined, r>>
      OBVIOUS
    <3>1. h[m] # B!Refused
      BY NotRefused
    <3>2. h[m][1] = TreeOf(l, M, m) /\ h[m][2] = r
      OBVIOUS
    <3> QED
      BY <2>2, <3>1, <3>2, Zenon DEF BlockOn
  <2>9. h[m] = <<TreeOf(l, M, m), r>> /\ joined = B!Refused => BlockStep(l, h, i) = B!Refused
    <3> SUFFICES ASSUME h[m] = <<TreeOf(l, M, m), r>>, joined = B!Refused
                 PROVE  BlockStep(l, h, i) = B!Refused
      OBVIOUS
    <3>2. h[m][1] = TreeOf(l, M, m)
      OBVIOUS
    <3> QED
      BY <2>2, <3>2, Zenon DEF BlockOn
  <2>10. ASSUME Good(l, i) PROVE BlockStep(l, h, i) = <<TreeOf(l, M, i), r>>
    <3>1. RestGood(l, i)
      BY <2>10, LinesShape, GoodParts DEF Good, RestGood
    <3>2. Good(l, m)
      BY <1>3, <2>1, <3>1 DEF RestGood, RestIsGood, Good
    <3>3. joined = B!Together(l, {i} \cup H, M)
      BY <2>4, <2>6, <2>10, KeysDiffer
    <3>4. joined # B!Refused
      BY <3>3, TogetherAccepted
    <3>5. joined = TreeOf(l, M, i)
      BY <2>4, <3>3 DEF TreeOf
    <3> QED
      BY <2>7, <2>8, <3>2, <3>4, <3>5
  <2>11. ASSUME ~RestGood(l, i) PROVE Fails(l, BlockStep(l, h, i), i)
    <3>1. CASE Good(l, m)
      <4>1. PICK k \in H : ~Fits(l, i, k)
        BY <1>3, <2>1, <2>11, <3>1 DEF RestGood, RestIsGood, Good, RootsOf
      <4>2. k \in 1 .. Len(l) /\ d[k] = d[i]
        BY <2>4
      <4>3. l[k].indent = l[i].indent /\ l[k].item = l[i].item
        BY <4>2, DepthsCompare
      <4>4. ~l[i].item /\ l[k].key = l[i].key
        BY <4>1, <4>3 DEF Fits
      <4>5. joined = B!Refused
        BY <2>6, <4>4
      <4> QED
        BY <2>7, <2>9, <3>1, <4>5 DEF Fails
    <3>2. CASE ~Good(l, m) /\ h[m] = B!Refused
      <4>1. BlockStep(l, h, i) = B!Refused
        BY <2>2, <3>2, Zenon DEF BlockOn
      <4> QED
        BY <4>1 DEF Fails
    <3>3. CASE ~Good(l, m) /\ h[m] # B!Refused
      <4>1. IsStuck(l, h[m], m)
        BY <2>5, <3>3 DEF IsRead, Fails
      <4> DEFINE k == h[m][2]
                 v == <<JoinTree(l, i, M[i], h[m][1]), k>>
      <4>2. BlockStep(l, h, i) \in {B!Refused, v}
        BY <2>2, <3>3, Zenon DEF BlockOn
      <4>3. k \in m + 1 .. Len(l) /\ l[k].indent = l[i].indent /\ l[k].item /\ ~l[i].item
        BY <2>3, <4>1 DEF IsStuck
      <4>4. v # B!Refused /\ v[2] = k
        BY NotRefused
      <4>5. k \in i + 1 .. Len(l)
        <5> HIDE DEF m, k, r
        <5> QED
          BY <1>1, <4>3
      <4> HIDE DEF v, k
      <4>6. IsStuck(l, v, i)
        BY <4>3, <4>4, <4>5 DEF IsStuck
      <4> QED
        BY <4>2, <4>6 DEF Fails
    <3> QED
      BY <3>1, <3>2, <3>3
  <2> QED
    BY <2>10, <2>11
<1> QED
  BY <1>1, <1>2, <1>3

(* From the last line to the first: what starts at a line is read as the   *)
(* tree of its lines, or fails.                                            *)
LEMMA BlocksAreRead ==
  ASSUME NEW l, IsLines(l), NEW M, IsMeaning(l, M), NEW h, IsBlockScan(l, h)
  PROVE  \A i \in 1 .. Len(l) : IsRead(l, M, h, i)
<1> DEFINE n == Len(l)
           T == {i \in 1 .. n : IsRead(l, M, h, i)}
<1>1. n \in Nat /\ 1 \in Nat
  BY DEF IsLines
<1>2. ASSUME NEW i \in 1 .. n, \A k \in i + 1 .. n : k \in T PROVE i \in T
  <2>1. h[i] = BlockStep(l, h, i)
    BY DEF IsBlockScan
  <2>2. /\ NextsOf(l)[i] \in i + 1 .. EndsOf(l)[i] /\ EndsOf(l)[i] \in i + 1 .. n + 1
        /\ NextsOf(l)[i] < EndsOf(l)[i] => NextsOf(l)[i] \in 1 .. n
    BY AroundLine
  <2>3. \A k \in i + 1 .. n : IsRead(l, M, h, k)
    BY <1>2
  <2>4. i + 1 < NextsOf(l)[i] => IsRead(l, M, h, i + 1)
    <3> SUFFICES ASSUME i + 1 < NextsOf(l)[i] PROVE IsRead(l, M, h, i + 1)
      OBVIOUS
    <3>1. i + 1 \in i + 1 .. n
      <4> HIDE DEF n
      <4> QED
        BY <1>1, <2>2
    <3> QED
      BY <2>3, <3>1
  <2>5. NextsOf(l)[i] < EndsOf(l)[i] => IsRead(l, M, h, NextsOf(l)[i])
    <3> SUFFICES ASSUME NextsOf(l)[i] < EndsOf(l)[i] PROVE IsRead(l, M, h, NextsOf(l)[i])
      OBVIOUS
    <3>1. NextsOf(l)[i] \in i + 1 .. n
      <4> HIDE DEF n
      <4> QED
        BY <1>1, <2>2
    <3> QED
      BY <2>3, <3>1
  <2>6. Good(l, i) => Holds(l, i) /\ BelowGood(l, i) /\ RestGood(l, i)
    BY LinesShape, GoodParts DEF Good, BelowGood, RestGood
  <2>7. Holds(l, i) /\ BelowGood(l, i) /\ RestGood(l, i) => Good(l, i)
    BY LinesShape, GoodWhole DEF Good, BelowGood, RestGood
  <2>8. CASE ~Holds(l, i)
    <3>1. BlockStep(l, h, i) = B!Refused
      BY <2>8, BlockStepIs
    <3> QED
      BY <2>1, <2>6, <2>8, <3>1 DEF IsRead, Fails
  <2>9. CASE Holds(l, i) /\ ~BelowGood(l, i)
    <3>1. i + 1 < NextsOf(l)[i]
      BY <2>9 DEF BelowGood, BelowIsGood
    <3>2. Fails(l, BlockStep(l, h, i), i)
      BY <2>4, <2>9, <3>1, BelowFails
    <3> QED
      BY <2>1, <2>6, <2>9, <3>2 DEF IsRead
  <2>10. CASE Holds(l, i) /\ BelowGood(l, i)
    <3>1. BlockStep(l, h, i) = BlockOn(l, i, M[i], NextsOf(l)[i], h[NextsOf(l)[i]])
      BY <2>4, <2>10, ValueIsRead
    <3>2. /\ Good(l, i) => BlockStep(l, h, i) = <<TreeOf(l, M, i), EndsOf(l)[i]>>
          /\ ~RestGood(l, i) => Fails(l, BlockStep(l, h, i), i)
      BY <2>5, <3>1, RestIsRead
    <3> QED
      BY <2>1, <2>7, <2>10, <3>2 DEF IsRead
  <2> QED
    BY <2>8, <2>9, <2>10
<1>3. \A i \in 1 .. n : i \in T
  <2> HIDE DEF T
  <2> QED
    BY <1>1, <1>2, Backwards
<1> QED
  BY <1>3

(* A document, as one block that ends with its last line.                  *)
LEMMA DocumentIs ==
  ASSUME NEW l, IsLines(l)
  PROVE  B!IsDocument(l) <=>
           /\ \A i \in 1 .. Len(l) : (OwnersOf(l)[i] # 0 => Opens(l, OwnersOf(l)[i])) /\ Holds(l, i)
           /\ \A i, j \in 1 .. Len(l) : i < j /\ OwnersOf(l)[i] = OwnersOf(l)[j] => Fits(l, i, j)
<1>1. DOMAIN l = 1 .. Len(l) /\ \A i \in 1 .. Len(l) : B!Owner(l, i) = OwnersOf(l)[i]
  BY DEF IsLines, OwnersOf
<1> DEFINE A(i) == (B!Owner(l, i) # 0 => Opens(l, B!Owner(l, i))) /\ Holds(l, i)
           C(i, j) == i < j /\ B!Owner(l, i) = B!Owner(l, j) => Fits(l, i, j)
<1>2. B!IsDocument(l) <=> (\A i \in DOMAIN l : A(i)) /\ (\A i, j \in DOMAIN l : C(i, j))
  BY Zenon DEF B!IsDocument, Opens, Holds, Fits
<1>3. \A i \in 1 .. Len(l) : A(i) <=> (OwnersOf(l)[i] # 0 => Opens(l, OwnersOf(l)[i])) /\ Holds(l, i)
  BY <1>1
<1>4. \A i, j \in 1 .. Len(l) :
        C(i, j) <=> (i < j /\ OwnersOf(l)[i] = OwnersOf(l)[j] => Fits(l, i, j))
  BY <1>1
<1> HIDE DEF A, C
<1> QED
  BY <1>1, <1>2, <1>3, <1>4

LEMMA DocumentIsBlock ==
  ASSUME NEW l, IsLines(l), Len(l) # 0
  PROVE  B!IsDocument(l) <=> EndsOf(l)[1] = Len(l) + 1 /\ Good(l, 1)
<1> DEFINE n == Len(l)
           o == OwnersOf(l)
           d == DepthsOf(l)
           r == EndsOf(l)[1]
<1>1. n \in Nat /\ 1 \in 1 .. n
  BY DEF IsLines
<1>2. /\ o[1] = 0 /\ r \in 2 .. n + 1 /\ (r # n + 1 => d[r] < d[1])
      /\ \A k \in 1 .. n : o[k] \in 0 .. k - 1 /\ d[k] \in Nat
  <2>1. /\ o[1] \in 0 .. 1 - 1 /\ r \in 1 + 1 .. n + 1 /\ (r # n + 1 => d[r] < d[1])
    <3>1. OwnersOf(l)[1] \in 0 .. 1 - 1
      BY <1>1, AroundLine
    <3>2. /\ EndsOf(l)[1] \in 1 + 1 .. Len(l) + 1
          /\ EndsOf(l)[1] # Len(l) + 1 => DepthsOf(l)[EndsOf(l)[1]] < DepthsOf(l)[1]
      BY <1>1, AroundLine
    <3> QED
      BY <3>1, <3>2
  <2>2. \A k \in 1 .. n : o[k] \in 0 .. k - 1
    BY AroundLine
  <2>3. \A k \in 1 .. n : d[k] \in Nat
    BY DepthsCompare
  <2> QED
    BY <2>1, <2>2, <2>3
<1>3. ASSUME B!IsDocument(l) PROVE r = n + 1
  <2> SUFFICES ASSUME r # n + 1 PROVE FALSE
    OBVIOUS
  <2>1. r \in 1 .. n /\ d[r] < d[1] /\ 1 < r
    <3> HIDE DEF n, r
    <3> QED
      BY <1>2, <1>1
  <2>2. \A k \in 1 + 1 .. r - 1 : d[k] >= d[1]
    <3>1. IsEnd(d, n, 1, r)
      BY <1>1, LinesShape DEF IsShape
    <3> QED
      BY <3>1 DEF IsEnd
  <2>3. o[r] = 0
    <3>1. o[r] \in 0 .. r - 1 /\ (o[r] # 0 => d[o[r]] < d[r])
      <4>1. IsOwner(d, r, o[r])
        BY <2>1, LinesShape DEF IsShape
      <4> QED
        BY <4>1 DEF IsOwner
    <3> HIDE DEF n, o, d, r
    <3>2. ASSUME o[r] # 0 PROVE FALSE
      <4>1. o[r] = 1 \/ o[r] \in 1 + 1 .. r - 1
        BY <1>1, <2>1, <3>1, <3>2
      <4>2. o[r] \in 1 .. n
        BY <1>1, <2>1, <3>1, <3>2
      <4>3. d[o[r]] >= d[1] /\ d[o[r]] \in Nat /\ d[1] \in Nat /\ d[r] \in Nat
        BY <1>1, <1>2, <2>1, <2>2, <4>1, <4>2
      <4> QED
        BY <2>1, <3>1, <3>2, <4>3
    <3> QED
      BY <3>2
  <2>4. Fits(l, 1, r)
    <3> HIDE DEF r
    <3>1. \A i, j \in 1 .. Len(l) : i < j /\ OwnersOf(l)[i] = OwnersOf(l)[j] => Fits(l, i, j)
      BY <1>3, DocumentIs
    <3> QED
      BY <1>1, <1>2, <2>1, <2>3, <3>1
  <2>5. d[r] = d[1]
    <3>1. l[r].indent = l[1].indent /\ l[r].item = l[1].item
      BY <2>4 DEF Fits
    <3> QED
      BY <1>1, <2>1, <3>1, DepthsCompare
  <2>6. d[1] \in Nat
    BY <1>1, <1>2
  <2> HIDE DEF n, o, d, r
  <2> QED
    BY <2>1, <2>5, <2>6
<1>4. ASSUME r = n + 1 PROVE B!IsDocument(l) <=> Good(l, 1)
  <2>1. 1 .. r - 1 = 1 .. n
    BY <1>1, <1>4
  <2>2. Good(l, 1) <=> \A j \in 1 .. n :
          /\ o[j] >= 1 => Opens(l, o[j])
          /\ Holds(l, j)
          /\ \A k \in j + 1 .. n : o[j] = o[k] => Fits(l, j, k)
    <3>1. r - 1 = n
      BY <1>1, <1>4
    <3> QED
      BY <3>1 DEF Good, IsGood
  <2>3. B!IsDocument(l) <=>
           /\ \A i \in 1 .. n : (o[i] # 0 => Opens(l, o[i])) /\ Holds(l, i)
           /\ \A i, j \in 1 .. n : i < j /\ o[i] = o[j] => Fits(l, i, j)
    BY DocumentIs
  <2> HIDE DEF n, o, d, r
  <2>4. \A j \in 1 .. n : o[j] >= 1 <=> o[j] # 0
    BY <1>2
  <2>5. \A i, j \in 1 .. n : i < j <=> j \in i + 1 .. n
    BY <1>1
  <2>6. \A i \in 1 .. n : \A j \in i + 1 .. n : j \in 1 .. n
    BY <1>1
  <2> QED
    BY <2>2, <2>3, <2>4, <2>5, <2>6
<1> QED
  BY <1>3, <1>4

(* What parse_yaml reads is what the document means.                       *)
LEMMA DocumentIsRead ==
  ASSUME NEW l, IsLines(l), l = << >> <=> Len(l) = 0
  PROVE  B!Parsed(l) = B!Meant(l)
<1>1. PICK M : IsMeaning(l, M) /\ B!Meant(l) = IF B!IsDocument(l) THEN M[0] ELSE B!Refused
  BY MeaningExists
<1>2. Len(l) \in Nat
  BY DEF IsLines
<1>3. M[0] = B!Together(l, B!Owned(l, 0), M)
  <2>1. 0 \in 0 .. Len(l)
    BY <1>2
  <2>2. M[0] = MeanStep(l, M, 0)
    BY <1>1, <2>1 DEF IsMeaning
  <2> QED
    BY <2>2 DEF MeanStep
<1>4. CASE Len(l) = 0
  <2>1. B!Parsed(l) = B!Null
    BY <1>4 DEF B!Parsed
  <2>2. B!IsDocument(l)
    <3>1. 1 .. Len(l) = {}
      BY <1>4
    <3> QED
      BY <3>1, DocumentIs
  <2>3. B!Owned(l, 0) = {}
    <3>1. B!Owned(l, 0) \in SUBSET (0 + 1 .. Len(l))
      BY <1>2, OwnedIs
    <3>2. 0 + 1 .. Len(l) = {}
      BY <1>4
    <3> QED
      BY <3>1, <3>2
  <2>4. M[0] = B!Null
    BY <1>3, <2>3, Zenon DEF B!Together
  <2> QED
    BY <1>1, <2>1, <2>2, <2>4
<1>5. CASE Len(l) # 0
  <2>1. PICK h : IsBlockScan(l, h) /\ B!Block(l) = h[1]
    BY BlockScans
  <2>2. 1 \in 1 .. Len(l)
    BY <1>2, <1>5
  <2>3. IsRead(l, M, h, 1)
    BY <1>1, <2>1, <2>2, BlocksAreRead
  <2>4. B!IsDocument(l) <=> EndsOf(l)[1] = Len(l) + 1 /\ Good(l, 1)
    BY <1>5, DocumentIsBlock
  <2>5. B!Parsed(l) = IF h[1] = B!Refused \/ h[1][2] # Len(l) + 1 THEN B!Refused ELSE h[1][1]
    BY <1>5, <2>1, Zenon DEF B!Parsed
  <2>6. CASE Good(l, 1)
    <3>1. h[1] = <<TreeOf(l, M, 1), EndsOf(l)[1]>>
      BY <2>3, <2>6 DEF IsRead
    <3>2. h[1] # B!Refused /\ h[1][1] = TreeOf(l, M, 1) /\ h[1][2] = EndsOf(l)[1]
      BY <3>1, NotRefused
    <3>3. CASE EndsOf(l)[1] # Len(l) + 1
      BY <1>1, <2>4, <2>5, <3>2, <3>3
    <3>4. CASE EndsOf(l)[1] = Len(l) + 1
      <4>1. B!Owned(l, 0) = RootsOf(l, 1)
        <5>1. B!Owned(l, 0) = {j \in 1 .. Len(l) : OwnersOf(l)[j] = 0}
          BY <1>2, OwnedIs
        <5>2. OwnersOf(l)[1] = 0
          <6>1. OwnersOf(l)[1] \in 0 .. 1 - 1
            BY <2>2, AroundLine
          <6> QED
            BY <6>1
        <5>3. EndsOf(l)[1] - 1 = Len(l)
          BY <1>2, <3>4
        <5> QED
          BY <5>1, <5>2, <5>3 DEF RootsOf, Roots
      <4> QED
        BY <1>1, <1>3, <2>4, <2>5, <2>6, <3>2, <3>4, <4>1 DEF TreeOf
    <3> QED
      BY <3>3, <3>4
  <2>7. CASE ~Good(l, 1)
    <3>1. h[1] = B!Refused \/ h[1][2] \in 1 + 1 .. Len(l)
      BY <2>3, <2>7 DEF IsRead, Fails, IsStuck
    <3>2. h[1] = B!Refused \/ h[1][2] # Len(l) + 1
      BY <1>2, <3>1
    <3> QED
      BY <1>1, <2>4, <2>5, <2>7, <3>2
  <2> QED
    BY <2>6, <2>7
<1> QED
  BY <1>4, <1>5

(* The lines that are read are lines of a document, or not, but always     *)
(* have an indentation that is a number.                                   *)
AllLines == [indent : Indents, item : BOOLEAN, key : Keys \cup {"none"}, says : BOOLEAN]

LEMMA LinesInvariant == Spec => [](lines \in Seq(AllLines))
<1>1. Init => lines \in Seq(AllLines)
  BY DEF Init
<1>2. lines \in Seq(AllLines) /\ [Write \/ AddLine]_<<text, lines>> => (lines \in Seq(AllLines))'
  <2> SUFFICES ASSUME lines \in Seq(AllLines), [Write \/ AddLine]_<<text, lines>>
               PROVE  lines' \in Seq(AllLines)
    OBVIOUS
  <2>1. CASE Write
    BY <2>1 DEF Write
  <2>2. CASE AddLine
    <3>1. PICK indent \in Indents, says \in BOOLEAN :
            \/ \E key \in Keys : lines' = Append(lines, B!Line(indent, FALSE, key, says))
            \/ lines' = Append(lines, B!Line(indent, TRUE, "none", says))
      BY <2>2 DEF AddLine
    <3>2. /\ \A key \in Keys : B!Line(indent, FALSE, key, says) \in AllLines
          /\ B!Line(indent, TRUE, "none", says) \in AllLines
      BY DEF B!Line, AllLines
    <3>3. PICK line : line \in AllLines /\ lines' = Append(lines, line)
      BY <3>1, <3>2, Zenon
    <3> HIDE DEF AllLines
    <3> QED
      BY <3>3
  <2>3. CASE UNCHANGED <<text, lines>>
    BY <2>3
  <2> QED
    BY <2>1, <2>2, <2>3
<1> QED
  BY <1>1, <1>2, PTL DEF Spec

(* A document is read as the tree its indentation draws, and refused       *)
(* exactly if it draws none (_block, parse_yaml): for documents of any     *)
(* number of lines, at any indentations, with any keys.                    *)
THEOREM ParserReadAsMeant == Spec => []ReadAsMeant
<1>1. lines \in Seq(AllLines) => ReadAsMeant
  <2> SUFFICES ASSUME lines \in Seq(AllLines) PROVE B!Parsed(lines) = B!Meant(lines)
    BY DEF ReadAsMeant
  <2>1. Len(lines) \in Nat /\ DOMAIN lines = 1 .. Len(lines) /\ (lines = << >> <=> Len(lines) = 0)
    OBVIOUS
  <2>2. \A i \in 1 .. Len(lines) :
          lines[i].indent \in Nat /\ lines[i].item \in BOOLEAN /\ lines[i].says \in BOOLEAN
    <3> SUFFICES ASSUME NEW i \in 1 .. Len(lines)
                 PROVE  lines[i].indent \in Nat /\ lines[i].item \in BOOLEAN /\ lines[i].says \in BOOLEAN
      OBVIOUS
    <3>1. lines[i] \in AllLines
      OBVIOUS
    <3> QED
      BY <3>1, IndentsAssumption DEF AllLines
  <2>3. IsLines(lines)
    BY <2>1, <2>2 DEF IsLines
  <2> QED
    BY <2>1, <2>3, DocumentIsRead
<1> QED
  BY <1>1, LinesInvariant, PTL

=============================================================================
