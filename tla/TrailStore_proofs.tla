-------------------------- MODULE TrailStore_proofs --------------------------
(***************************************************************************)
(* For any chains, number of events, of windows and of lines that come to  *)
(* harm: windows that arrive whole raise no alarm, a chain found clean was *)
(* delivered whole up to its head, checking all its lines at once would    *)
(* have found nothing either, and a chain that lost its end is reported.   *)
(***************************************************************************)
EXTENDS TrailStore, VerifyChain_proofs, SequenceTheorems

Hashes == {Genesis} \cup (Instances \X Nat)

Operations == {"start", "heartbeat", "shutdown"}

AnyEvent ==
  [readable : {TRUE}, instance : Instances, service : {Service, "?"}, seq : Nat, prev_hash : Hashes,
   hash : Hashes, intact : BOOLEAN, operation : Operations, ts : Nat]

AnyLine == AnyEvent \cup {Garbled}

AnyHead ==
  [service : {NoHead.service, Service, "?"}, seq : Int, hash : Hashes, ts : Nat, closed : BOOLEAN, ended : BOOLEAN]

Kinds == {"schema", "unterminated"} \cup ChainKinds

-----------------------------------------------------------------------------
(* The inductive invariant, in parts.                                      *)

CountShape == clock \in 0 .. MaxWindows /\ harm \in 0 .. MaxHarm

WrittenShape == written \in [Instances -> Seq(AnyEvent)] /\ \A i \in Instances : Len(written[i]) <= MaxEvents[i]

LinesShape == window \in Seq(AnyLine) /\ late \in Seq(AnyLine) /\ delivered \in Seq(AnyLine)

FoundShape == \A p \in found : p.kind \in Kinds

(* A chain as its emitter writes it.                                       *)
WrittenLinked ==
  \A i \in Instances : \A k \in 1 .. Len(written[i]) :
    LET e == written[i][k] IN
    /\ e.instance = i /\ e.service = Service /\ e.seq = k - 1 /\ e.intact
    /\ e.hash = HashOf(i, k - 1)
    /\ e.prev_hash = IF k = 1 THEN Genesis ELSE HashOf(i, k - 2)
    /\ e.operation = "shutdown" => k = Len(written[i])

(* A line that can be read has the instance and seq of an event that was   *)
(* written; if it is intact it is that event.                              *)
FromWritten(line) ==
  line.readable =>
    /\ line.seq < Len(written[line.instance])
    /\ line.intact => line = written[line.instance][line.seq + 1]

AllFromWritten(lines) == \A k \in 1 .. Len(lines) : FromWritten(lines[k])

LinesFromWritten == AllFromWritten(window) /\ AllFromWritten(late) /\ AllFromWritten(delivered)

HeadsShape ==
  /\ heads \in [Instances -> AnyHead]
  /\ \A i \in Instances : /\ heads[i].seq \in -1 .. Len(written[i]) - 1
                          /\ heads[i].seq = -1 <=> heads[i] = NoHead

(* A head is closed without its chain being ended only when its silence    *)
(* was reported, and no open head is older than the silence allows.        *)
SilenceTold ==
  \A i \in Instances :
    heads[i] # NoHead /\ ~heads[i].ended /\ (heads[i].closed \/ clock - 1 - heads[i].ts > Silence) =>
      \E p \in found : p.instance = i /\ p.kind = "unterminated"

(* A chain without a defect: its delivered lines are what was written up   *)
(* to its head, each event once, and the head stands at the last of them.  *)
CleanIsWhole ==
  \A i \in Instances : Defects(i) = {} =>
    /\ EachOnce(delivered, i, 0, heads[i].seq + 1)
    /\ \A n \in ByInstance(delivered, i) : delivered[n].intact
    /\ heads[i] # NoHead =>
         LET e == written[i][heads[i].seq + 1] IN
         heads[i].hash = e.hash /\ heads[i].service = Service
           /\ (heads[i].ended => e.operation = "shutdown")

(* As long as no line came to harm, the window holds what was written      *)
(* since the heads, each event once.                                       *)
UnharmedIsWhole ==
  harm = 0 =>
    /\ late = << >>
    /\ \A k \in 1 .. Len(window) : window[k].readable /\ window[k].intact
    /\ \A i \in Instances : EachOnce(window, i, heads[i].seq + 1, Len(written[i]))
    /\ \A p \in found : p.kind = "unterminated"

IInv ==
  /\ CountShape /\ WrittenShape /\ LinesShape /\ FoundShape
  /\ WrittenLinked /\ LinesFromWritten /\ HeadsShape
  /\ SilenceTold /\ CleanIsWhole /\ UnharmedIsWhole


-----------------------------------------------------------------------------
(* Lines put between others, and lines taken out.                          *)
Inserts(s, k, e, t) ==
  /\ Len(t) = Len(s) + 1
  /\ \A n \in 1 .. Len(s) + 1 : t[n] = IF n < k THEN s[n] ELSE IF n = k THEN e ELSE s[n - 1]

LEMMA InsertedAt ==
  ASSUME NEW S, NEW s \in Seq(S), NEW k \in 1 .. Len(s) + 1, NEW e \in S
  PROVE  InsertAt(s, k, e) \in Seq(S) /\ Inserts(s, k, e, InsertAt(s, k, e))
<1> DEFINE u == SubSeq(s, 1, k - 1)
           w == SubSeq(s, k, Len(s))
           t == InsertAt(s, k, e)
<1>1. /\ u \in Seq(S) /\ Len(u) = k - 1
      /\ \A n \in 1 .. k - 1 : u[n] = s[n]
  BY SubSeqProperties
<1>2. /\ w \in Seq(S) /\ Len(w) = Len(s) - k + 1
      /\ \A n \in 1 .. Len(s) - k + 1 : w[n] = s[k + n - 1]
  <2>1. \A n \in k .. Len(s) : s[n] \in S
    OBVIOUS
  <2>2. /\ w \in Seq(S) /\ Len(w) = IF k <= Len(s) THEN Len(s) - k + 1 ELSE 0
        /\ \A n \in 1 .. Len(s) - k + 1 : w[n] = s[k + n - 1]
    BY <2>1, SubSeqProperties
  <2> HIDE DEF w
  <2> QED
    BY <2>2
<1> DEFINE v == u \o << e >>
<1>3. t = v \o w
  BY DEF InsertAt
<1> HIDE DEF u, w, t
<1>4. /\ v \in Seq(S) /\ Len(v) = k
      /\ \A n \in 1 .. k : v[n] = IF n < k THEN s[n] ELSE e
  <2>1. << e >> \in Seq(S) /\ Len(<< e >>) = 1 /\ << e >>[1] = e
    OBVIOUS
  <2>2. /\ u \o << e >> \in Seq(S) /\ Len(u \o << e >>) = Len(u) + 1
        /\ \A n \in 1 .. Len(u) + 1 :
             (u \o << e >>)[n] = IF n <= Len(u) THEN u[n] ELSE << e >>[n - Len(u)]
    BY <1>1, <2>1, ConcatProperties
  <2>3. Len(u) + 1 = k
    BY <1>1
  <2>4. ASSUME NEW n \in 1 .. k
        PROVE  (u \o << e >>)[n] = IF n < k THEN s[n] ELSE e
    <3>1. (u \o << e >>)[n] = IF n <= Len(u) THEN u[n] ELSE << e >>[n - Len(u)]
      BY <2>2, <2>3
    <3>2. CASE n < k
      BY <1>1, <3>1, <3>2
    <3>3. CASE n = k
      <4>1. n - Len(u) = 1 /\ ~(n <= Len(u))
        BY <1>1, <3>3
      <4> QED
        BY <2>1, <3>1, <3>3, <4>1
    <3>4. n < k \/ n = k
      OBVIOUS
    <3> QED
      BY <3>2, <3>3, <3>4, Zenon
  <2> QED
    BY <2>2, <2>3, <2>4
<1> HIDE DEF v
<1>5. /\ t \in Seq(S) /\ Len(t) = Len(v) + Len(w)
      /\ \A n \in 1 .. Len(v) + Len(w) : t[n] = IF n <= Len(v) THEN v[n] ELSE w[n - Len(v)]
  <2>1. v \in Seq(S) /\ w \in Seq(S)
    BY <1>2, <1>4
  <2>2. /\ v \o w \in Seq(S)
        /\ Len(v \o w) = Len(v) + Len(w)
        /\ \A n \in 1 .. Len(v) + Len(w) : (v \o w)[n] = IF n <= Len(v) THEN v[n] ELSE w[n - Len(v)]
    BY <2>1, ConcatProperties, Zenon
  <2> QED
    BY <1>3, <2>2, Zenon
<1>6. Len(v) + Len(w) = Len(s) + 1
  BY <1>2, <1>4
<1>7. ASSUME NEW n \in 1 .. Len(s) + 1
      PROVE  t[n] = IF n < k THEN s[n] ELSE IF n = k THEN e ELSE s[n - 1]
  <2>1. t[n] = IF n <= k THEN v[n] ELSE w[n - k]
    BY <1>4, <1>5, <1>6
  <2>2. CASE n <= k
    BY <1>4, <2>1, <2>2
  <2>3. CASE n > k
    <3>1. n - k \in 1 .. Len(s) - k + 1 /\ k + (n - k) - 1 = n - 1 /\ ~(n <= k) /\ ~(n < k) /\ n # k
      BY <2>3
    <3>2. w[n - k] = s[n - 1]
      BY <1>2, <3>1
    <3> QED
      BY <2>1, <3>1, <3>2
  <2> QED
    BY <2>2, <2>3
<1> QED
  BY <1>5, <1>6, <1>7 DEF t, Inserts

LEMMA RemovedAt ==
  ASSUME NEW S, NEW s \in Seq(S), NEW k \in 1 .. Len(s)
  PROVE  LET t == RemoveAt(s, k) IN
         /\ t \in Seq(S)
         /\ \A n \in 1 .. Len(t) : \E m \in 1 .. Len(s) : t[n] = s[m]
<1> DEFINE u == SubSeq(s, 1, k - 1)
           w == SubSeq(s, k + 1, Len(s))
           t == RemoveAt(s, k)
<1>1. /\ u \in Seq(S) /\ Len(u) = k - 1
      /\ \A n \in 1 .. k - 1 : u[n] = s[n]
  BY SubSeqProperties
<1>2. /\ w \in Seq(S) /\ Len(w) = Len(s) - k
      /\ \A n \in 1 .. Len(s) - k : w[n] = s[k + n]
  <2>1. /\ w \in Seq(S) /\ Len(w) = IF k + 1 <= Len(s) THEN Len(s) - (k + 1) + 1 ELSE 0
        /\ \A n \in 1 .. Len(s) - (k + 1) + 1 : w[n] = s[(k + 1) + n - 1]
    BY SubSeqProperties
  <2> HIDE DEF w
  <2>2. Len(w) = Len(s) - k
    BY <2>1
  <2>3. ASSUME NEW n \in 1 .. Len(s) - k PROVE w[n] = s[k + n]
    <3>1. n \in 1 .. Len(s) - (k + 1) + 1 /\ (k + 1) + n - 1 = k + n
      OBVIOUS
    <3> QED
      BY <2>1, <3>1
  <2> QED
    BY <2>1, <2>2, <2>3
<1>3. t = u \o w
  BY DEF RemoveAt
<1> HIDE DEF u, w, t
<1>4. t \in Seq(S) /\ Len(t) = Len(s) - 1
  BY <1>1, <1>2, <1>3
<1>5. ASSUME NEW n \in 1 .. Len(t)
      PROVE  \E m \in 1 .. Len(s) : t[n] = s[m]
  <2>1. CASE n < k
    <3>1. t[n] = s[n] /\ n \in 1 .. Len(s)
      BY <1>1, <1>2, <1>3, <2>1
    <3> QED
      BY <3>1
  <2>2. CASE n >= k
    <3>1. t[n] = w[n - (k - 1)] /\ n - (k - 1) \in 1 .. Len(s) - k
      BY <1>1, <1>2, <1>3, <1>4, <2>2
    <3>2. k + (n - (k - 1)) = n + 1 /\ n + 1 \in 1 .. Len(s)
      BY <1>4, <2>2
    <3> QED
      BY <1>2, <3>1, <3>2
  <2> QED
    BY <2>1, <2>2
<1> QED
  BY <1>4, <1>5 DEF t


(* The events of a chain in lines one after the other are those of both.   *)
Joins(s, u, t, i) ==
  /\ \A n \in ByInstance(t, i) :
       \/ n \in ByInstance(s, i) /\ t[n] = s[n]
       \/ n > Len(s) /\ n - Len(s) \in ByInstance(u, i) /\ t[n] = u[n - Len(s)]
  /\ \A n \in ByInstance(s, i) : n \in ByInstance(t, i) /\ t[n] = s[n]
  /\ \A n \in ByInstance(u, i) : Len(s) + n \in ByInstance(t, i) /\ t[Len(s) + n] = u[n]

LEMMA JoinedEvents ==
  ASSUME NEW S, NEW s \in Seq(S), NEW u \in Seq(S), NEW i
  PROVE  s \o u \in Seq(S) /\ Len(s \o u) = Len(s) + Len(u) /\ Joins(s, u, s \o u, i)
<1> DEFINE t == s \o u
<1>1. /\ t \in Seq(S) /\ Len(t) = Len(s) + Len(u)
      /\ \A n \in 1 .. Len(s) + Len(u) : t[n] = IF n <= Len(s) THEN s[n] ELSE u[n - Len(s)]
  BY ConcatProperties
<1>2. Len(s) \in Nat /\ Len(u) \in Nat
  OBVIOUS
<1> HIDE DEF t
<1>3. ASSUME NEW n \in ByInstance(t, i)
      PROVE  \/ n \in ByInstance(s, i) /\ t[n] = s[n]
             \/ n > Len(s) /\ n - Len(s) \in ByInstance(u, i) /\ t[n] = u[n - Len(s)]
  <2>1. n \in 1 .. Len(s) + Len(u) /\ t[n].readable /\ t[n].instance = i
    BY <1>1 DEF ByInstance
  <2>2. CASE n <= Len(s)
    <3>1. t[n] = s[n] /\ n \in 1 .. Len(s)
      BY <1>1, <2>1, <2>2
    <3> QED
      BY <2>1, <3>1 DEF ByInstance
  <2>3. CASE n > Len(s)
    <3>1. t[n] = u[n - Len(s)] /\ n - Len(s) \in 1 .. Len(u)
      BY <1>1, <2>1, <2>3
    <3> QED
      BY <2>1, <2>3, <3>1 DEF ByInstance
  <2> QED
    BY <1>2, <2>1, <2>2, <2>3
<1>4. ASSUME NEW n \in ByInstance(s, i)
      PROVE  n \in ByInstance(t, i) /\ t[n] = s[n]
  <2>1. n \in 1 .. Len(s) /\ s[n].readable /\ s[n].instance = i
    BY DEF ByInstance
  <2>2. n \in 1 .. Len(s) + Len(u) /\ n <= Len(s)
    BY <1>2, <2>1
  <2>3. t[n] = s[n]
    BY <1>1, <2>2
  <2> QED
    BY <1>1, <2>1, <2>2, <2>3 DEF ByInstance
<1>5. ASSUME NEW n \in ByInstance(u, i)
      PROVE  Len(s) + n \in ByInstance(t, i) /\ t[Len(s) + n] = u[n]
  <2>1. n \in 1 .. Len(u) /\ u[n].readable /\ u[n].instance = i
    BY DEF ByInstance
  <2>2. Len(s) + n \in 1 .. Len(s) + Len(u) /\ ~(Len(s) + n <= Len(s)) /\ (Len(s) + n) - Len(s) = n
    BY <1>2, <2>1
  <2>3. t[Len(s) + n] = u[n]
    BY <1>1, <2>2
  <2> QED
    BY <1>1, <2>1, <2>2, <2>3 DEF ByInstance
<1> QED
  BY <1>1, <1>3, <1>4, <1>5 DEF t, Joins

LEMMA JoinedOnce ==
  ASSUME NEW S, NEW s \in Seq(S), NEW u \in Seq(S), NEW i,
         NEW v \in Int, NEW w \in Int, NEW x \in Int, v <= w, w <= x,
         EachOnce(s, i, v, w), EachOnce(u, i, w, x)
  PROVE  EachOnce(s \o u, i, v, x)
<1> DEFINE t == s \o u
<1>1. /\ \A n \in ByInstance(t, i) :
           \/ n \in ByInstance(s, i) /\ t[n] = s[n]
           \/ n > Len(s) /\ n - Len(s) \in ByInstance(u, i) /\ t[n] = u[n - Len(s)]
      /\ \A n \in ByInstance(s, i) : n \in ByInstance(t, i) /\ t[n] = s[n]
      /\ \A n \in ByInstance(u, i) : Len(s) + n \in ByInstance(t, i) /\ t[Len(s) + n] = u[n]
  <2>1. Joins(s, u, s \o u, i)
    BY JoinedEvents, Zenon
  <2> QED
    BY <2>1, Zenon DEF Joins
<1>2. /\ \A n \in ByInstance(s, i) : s[n].seq \in v .. w - 1
      /\ \A m, n \in ByInstance(s, i) : s[m].seq = s[n].seq => m = n
      /\ \A q \in v .. w - 1 : \E n \in ByInstance(s, i) : s[n].seq = q
  BY DEF EachOnce
<1>3. /\ \A n \in ByInstance(u, i) : u[n].seq \in w .. x - 1
      /\ \A m, n \in ByInstance(u, i) : u[m].seq = u[n].seq => m = n
      /\ \A q \in w .. x - 1 : \E n \in ByInstance(u, i) : u[n].seq = q
  BY DEF EachOnce
<1>4. /\ ByInstance(t, i) \subseteq Nat /\ ByInstance(s, i) \subseteq Nat /\ Len(s) \in Nat
      /\ ByInstance(u, i) \subseteq Nat
  BY DEF ByInstance
<1> HIDE DEF t
<1>5. ASSUME NEW n \in ByInstance(t, i)
      PROVE  t[n].seq \in v .. x - 1
  <2>1. CASE n \in ByInstance(s, i) /\ t[n] = s[n]
    <3>1. t[n].seq \in v .. w - 1
      BY <1>2, <2>1
    <3> QED
      BY <3>1
  <2>2. CASE n - Len(s) \in ByInstance(u, i) /\ t[n] = u[n - Len(s)]
    <3>1. t[n].seq \in w .. x - 1
      BY <1>3, <2>2
    <3> QED
      BY <3>1
  <2> QED
    BY <1>1, <2>1, <2>2
<1>6. ASSUME NEW m \in ByInstance(t, i), NEW n \in ByInstance(t, i), t[m].seq = t[n].seq
      PROVE  m = n
  <2> DEFINE Old(k) == k \in ByInstance(s, i) /\ t[k] = s[k]
             New(k) == k - Len(s) \in ByInstance(u, i) /\ t[k] = u[k - Len(s)]
  <2>1. (Old(m) \/ New(m)) /\ (Old(n) \/ New(n))
    BY <1>1
  <2>2. \A k \in ByInstance(t, i) : Old(k) => t[k].seq \in v .. w - 1
    BY <1>2
  <2>3. \A k \in ByInstance(t, i) : New(k) => t[k].seq \in w .. x - 1
    BY <1>3
  <2>4. Old(m) /\ Old(n) => m = n
    BY <1>2, <1>6
  <2>5. New(m) /\ New(n) => m = n
    <3> SUFFICES ASSUME New(m), New(n) PROVE m = n
      OBVIOUS
    <3>1. m - Len(s) = n - Len(s)
      BY <1>3, <1>6
    <3> QED
      BY <1>4, <3>1
  <2> HIDE DEF Old, New
  <2>6. ~(Old(m) /\ New(n)) /\ ~(New(m) /\ Old(n))
    BY <1>6, <2>2, <2>3
  <2> QED
    BY <2>1, <2>4, <2>5, <2>6
<1>7. ASSUME NEW q \in v .. x - 1
      PROVE  \E n \in ByInstance(t, i) : t[n].seq = q
  <2>1. CASE q < w
    <3>1. PICK n \in ByInstance(s, i) : s[n].seq = q
      BY <1>2, <2>1
    <3> QED
      BY <1>1, <3>1
  <2>2. CASE q >= w
    <3>1. PICK n \in ByInstance(u, i) : u[n].seq = q
      BY <1>3, <2>2
    <3> QED
      BY <1>1, <3>1
  <2> QED
    BY <2>1, <2>2
<1> QED
  BY <1>5, <1>6, <1>7 DEF EachOnce, t

(* A chain whose next event is put anywhere among the lines is still there *)
(* once each, and so is every other chain.                                 *)
LEMMA InsertedOnce ==
  ASSUME NEW S, NEW s \in Seq(S), NEW k \in 1 .. Len(s) + 1, NEW e \in S, e.readable, NEW i,
         NEW v \in Int, NEW w \in Int, v <= w, EachOnce(s, i, v, w),
         e.instance = i => e.seq = w
  PROVE  EachOnce(InsertAt(s, k, e), i, v, IF e.instance = i THEN w + 1 ELSE w)
<1> DEFINE t == InsertAt(s, k, e)
           Old(n) == IF n < k THEN n ELSE n - 1
           New(n) == IF n < k THEN n ELSE n + 1
           N == Len(s)
           x == IF e.instance = i THEN w + 1 ELSE w
<1>1. /\ Len(t) = N + 1
      /\ \A n \in 1 .. N + 1 : t[n] = IF n < k THEN s[n] ELSE IF n = k THEN e ELSE s[n - 1]
  <2>1. Inserts(s, k, e, InsertAt(s, k, e))
    BY InsertedAt
  <2> QED
    BY <2>1 DEF Inserts
<1>2. N \in Nat /\ k \in 1 .. N + 1
  OBVIOUS
<1> HIDE DEF t, N
<1>3. /\ \A n \in ByInstance(s, i) : s[n].seq \in v .. w - 1
      /\ \A m, n \in ByInstance(s, i) : s[m].seq = s[n].seq => m = n
      /\ \A q \in v .. w - 1 : \E n \in ByInstance(s, i) : s[n].seq = q
  BY DEF EachOnce
<1>4. ASSUME NEW n \in ByInstance(t, i), n # k
      PROVE  Old(n) \in ByInstance(s, i) /\ t[n] = s[Old(n)] /\ n \in Int
  <2>1. n \in 1 .. N + 1 /\ t[n].readable /\ t[n].instance = i
    BY <1>1 DEF ByInstance
  <2>2. Old(n) \in 1 .. N /\ t[n] = s[Old(n)]
    <3>1. CASE n < k
      BY <1>1, <1>2, <2>1, <3>1
    <3>2. CASE n > k
      BY <1>1, <1>2, <2>1, <3>2
    <3> QED
      BY <1>2, <1>4, <2>1, <3>1, <3>2
  <2> QED
    BY <2>1, <2>2 DEF ByInstance, N
<1>5. ASSUME NEW n \in ByInstance(s, i)
      PROVE  New(n) \in ByInstance(t, i) /\ t[New(n)] = s[n]
  <2>1. n \in 1 .. N /\ s[n].readable /\ s[n].instance = i
    BY DEF ByInstance, N
  <2>2. New(n) \in 1 .. N + 1 /\ t[New(n)] = s[n]
    <3>1. CASE n < k
      BY <1>1, <1>2, <2>1, <3>1
    <3>2. CASE n >= k
      <4>1. n + 1 \in 1 .. N + 1 /\ ~(n + 1 < k) /\ n + 1 # k /\ (n + 1) - 1 = n /\ ~(n < k)
        BY <1>2, <2>1, <3>2
      <4> QED
        BY <1>1, <4>1
    <3> QED
      BY <1>2, <2>1, <3>1, <3>2
  <2> QED
    BY <1>1, <2>1, <2>2 DEF ByInstance
<1>6. t[k] = e /\ (k \in ByInstance(t, i) <=> e.instance = i)
  <2>1. t[k] = e
    BY <1>1, <1>2
  <2> QED
    BY <1>1, <1>2, <2>1 DEF ByInstance
<1>7. ASSUME NEW n \in ByInstance(t, i)
      PROVE  t[n].seq \in v .. x - 1
  <2>1. CASE n = k
    BY <1>6, <2>1
  <2>2. CASE n # k
    <3>1. t[n].seq \in v .. w - 1
      BY <1>3, <1>4, <2>2
    <3> QED
      BY <3>1
  <2> QED
    BY <2>1, <2>2
<1>8. ASSUME NEW m \in ByInstance(t, i), NEW n \in ByInstance(t, i), t[m].seq = t[n].seq
      PROVE  m = n
  <2>1. ASSUME NEW l \in ByInstance(t, i), l # k
        PROVE  t[l].seq \in v .. w - 1
    BY <1>3, <1>4, <2>1
  <2>2. CASE m # k /\ n # k
    <3>1. Old(m) = Old(n)
      <4>1. /\ Old(m) \in ByInstance(s, i) /\ t[m] = s[Old(m)]
            /\ Old(n) \in ByInstance(s, i) /\ t[n] = s[Old(n)]
        BY <1>4, <2>2
      <4> HIDE DEF Old
      <4> QED
        BY <1>3, <1>8, <4>1
    <3>2. m \in Int /\ n \in Int
      BY <1>4, <2>2
    <3> QED
      BY <1>2, <2>2, <3>1, <3>2
  <2>3. k \in ByInstance(t, i) => t[k].seq = w
    BY <1>6
  <2>4. ~(m = k /\ n # k)
    <3> SUFFICES ASSUME m = k, n # k PROVE FALSE
      OBVIOUS
    <3>1. t[n].seq \in v .. w - 1 /\ t[n].seq = w
      BY <1>8, <2>1, <2>3
    <3> QED
      BY <3>1
  <2>5. ~(m # k /\ n = k)
    <3> SUFFICES ASSUME m # k, n = k PROVE FALSE
      OBVIOUS
    <3>1. t[m].seq \in v .. w - 1 /\ t[m].seq = w
      BY <1>8, <2>1, <2>3
    <3> QED
      BY <3>1
  <2> QED
    BY <2>2, <2>4, <2>5
<1>9. ASSUME NEW q \in v .. x - 1
      PROVE  \E n \in ByInstance(t, i) : t[n].seq = q
  <2>1. CASE q < w
    <3>1. PICK n \in ByInstance(s, i) : s[n].seq = q
      BY <1>3, <2>1
    <3> HIDE DEF New
    <3> QED
      BY <1>5, <3>1
  <2>2. CASE q >= w
    <3>1. e.instance = i /\ q = w
      BY <2>2
    <3> QED
      BY <1>6, <3>1
  <2> QED
    BY <2>1, <2>2
<1> QED
  BY <1>7, <1>8, <1>9 DEF EachOnce, t


-----------------------------------------------------------------------------
(* Lines that come from what was written.                                  *)
LEMMA ReadableLine ==
  /\ \A line \in AnyLine : line.readable => line \in AnyEvent
  /\ \A line \in AnyEvent : line.readable
  /\ Garbled \in AnyLine /\ ~Garbled.readable
<1>1. Garbled.readable = FALSE
  BY DEF Garbled
<1>2. \A line \in AnyEvent : line.readable = TRUE
  BY DEF AnyEvent
<1>3. \A line \in AnyLine : line \in AnyEvent \/ line = Garbled
  BY DEF AnyLine
<1> HIDE DEF AnyLine
<1> QED
  BY <1>1, <1>2, <1>3 DEF AnyLine

(* The events of a chain among them, in order.                             *)
LEMMA ChainOfLines ==
  ASSUME WrittenShape, NEW lines \in Seq(AnyLine), AllFromWritten(lines), NEW i \in Instances
  PROVE  LET chain == ChainOf(lines, i) IN
         /\ Len(chain) \in Nat /\ (Len(chain) = 0 => chain = << >>) /\ Seqs(lines, i)
         /\ \A k \in 1 .. Len(chain) :
              /\ chain[k] \in AnyEvent /\ chain[k].instance = i
              /\ chain[k].seq \in 0 .. Len(written[i]) - 1
              /\ \E n \in ByInstance(lines, i) : chain[k] = lines[n]
         /\ \A n \in ByInstance(lines, i) : \E k \in 1 .. Len(chain) : chain[k] = lines[n]
<1> DEFINE events == ByInstance(lines, i)
           chain  == ChainOf(lines, i)
<1>1. ASSUME NEW n \in events
      PROVE  lines[n] \in AnyEvent /\ lines[n].instance = i /\ lines[n].seq \in 0 .. Len(written[i]) - 1
  <2>1. n \in 1 .. Len(lines) /\ lines[n].readable /\ lines[n].instance = i
    BY DEF ByInstance
  <2>2. lines[n] \in AnyEvent
    BY <2>1, ReadableLine
  <2>3. lines[n].seq < Len(written[i])
    BY <2>1 DEF AllFromWritten, FromWritten
  <2>4. lines[n].seq \in Nat
    BY <2>2 DEF AnyEvent
  <2>5. Len(written[i]) \in Nat
    BY DEF WrittenShape
  <2> QED
    BY <2>1, <2>2, <2>3, <2>4, <2>5
<1>2. Len(lines) \in Nat
  OBVIOUS
<1>3. Seqs(lines, i)
  <2>1. \A n \in events : lines[n].seq \in Int
    BY <1>1
  <2> QED
    BY <2>1 DEF Seqs
<1>4. /\ Len(chain) = Cardinality(events) /\ Len(chain) \in Nat
      /\ DOMAIN chain = 1 .. Len(chain)
      /\ \A k \in 1 .. Len(chain) : \E n \in events :
           Place(lines, i, n) = k - 1 /\ chain[k] = lines[n]
      /\ \A n \in events : /\ Place(lines, i, n) + 1 \in 1 .. Len(chain)
                           /\ chain[Place(lines, i, n) + 1] = lines[n]
  BY <1>2, <1>3, ChainIsOrdered
<1>5. Len(chain) = 0 => chain = << >>
  <2> SUFFICES ASSUME Len(chain) = 0 PROVE chain = << >>
    OBVIOUS
  <2>1. Cardinality(events) = 0
    BY <1>4
  <2> DEFINE at(k) == lines[CHOOSE n \in events : Place(lines, i, n) = k - 1]
  <2>2. chain = [k \in 1 .. Cardinality(events) |-> at(k)]
    BY DEF ChainOf
  <2> HIDE DEF at, chain, events
  <2> QED
    BY <2>1, <2>2
<1> HIDE DEF events, chain
<1> QED
  BY <1>1, <1>3, <1>4, <1>5 DEF events, chain

(* A further event of a chain changes nothing about the lines.             *)
LEMMA LineKept ==
  ASSUME WrittenShape, NEW i \in Instances, NEW e \in AnyEvent,
         written' = [written EXCEPT ![i] = Append(@, e)]
  PROVE  /\ written' \in [Instances -> Seq(AnyEvent)]
         /\ \A j \in Instances :
              /\ Len(written[j]) \in Nat
              /\ Len(written'[j]) = IF j = i THEN Len(written[j]) + 1 ELSE Len(written[j])
              /\ \A k \in 1 .. Len(written[j]) : written'[j][k] = written[j][k]
         /\ written'[i][Len(written[i]) + 1] = e
         /\ \A line \in AnyLine : FromWritten(line) => FromWritten(line)'
<1>1. written \in [Instances -> Seq(AnyEvent)]
  BY DEF WrittenShape
<1>2. /\ written' \in [Instances -> Seq(AnyEvent)]
      /\ written'[i] = Append(written[i], e) /\ \A j \in Instances : j # i => written'[j] = written[j]
  BY <1>1
<1>3. /\ Len(Append(written[i], e)) = Len(written[i]) + 1
      /\ \A k \in 1 .. Len(written[i]) : Append(written[i], e)[k] = written[i][k]
      /\ Append(written[i], e)[Len(written[i]) + 1] = e
  BY <1>1, AppendProperties
<1>4. \A j \in Instances :
        /\ Len(written[j]) \in Nat
        /\ Len(written'[j]) = IF j = i THEN Len(written[j]) + 1 ELSE Len(written[j])
        /\ \A k \in 1 .. Len(written[j]) : written'[j][k] = written[j][k]
  <2> TAKE j \in Instances
  <2>1. Len(written[j]) \in Nat
    BY <1>1
  <2>2. CASE j = i
    BY <1>2, <1>3, <2>1, <2>2
  <2>3. CASE j # i
    BY <1>2, <2>1, <2>3
  <2> QED
    BY <2>2, <2>3
<1>5. ASSUME NEW line \in AnyLine, FromWritten(line)
      PROVE  FromWritten(line)'
  <2> SUFFICES ASSUME line.readable
               PROVE  /\ line.seq < Len(written'[line.instance])
                      /\ line.intact => line = written'[line.instance][line.seq + 1]
    BY DEF FromWritten
  <2>1. line \in AnyEvent
    BY ReadableLine
  <2> DEFINE j == line.instance
             q == line.seq
  <2>2. j \in Instances /\ q \in Nat
    BY <2>1 DEF AnyEvent
  <2>3. q < Len(written[j]) /\ (line.intact => line = written[j][q + 1])
    BY <1>5 DEF FromWritten
  <2> HIDE DEF j, q
  <2>4. q + 1 \in 1 .. Len(written[j]) /\ q < Len(written'[j])
    BY <1>4, <2>2, <2>3
  <2>5. written'[j][q + 1] = written[j][q + 1]
    BY <1>4, <2>2, <2>4
  <2> QED
    BY <2>3, <2>4, <2>5 DEF j, q
<1> QED
  BY <1>2, <1>3, <1>4, <1>5


-----------------------------------------------------------------------------
(* The invariant holds at the start and every step keeps it.               *)
LEMMA InitIsGood == ASSUME Init PROVE IInv
<1>1. CountShape /\ WrittenShape /\ LinesShape /\ FoundShape /\ WrittenLinked /\ LinesFromWritten
  <2>1. \A i \in Instances : written[i] = << >> /\ Len(written[i]) = 0
    BY DEF Init
  <2>2. CountShape
    BY StoreAssumption DEF Init, CountShape
  <2>3. WrittenShape
    <3>1. \A i \in Instances : MaxEvents[i] \in Nat
      BY StoreAssumption
    <3> QED
      BY <2>1, <3>1 DEF Init, WrittenShape
  <2>4. LinesShape
    BY DEF Init, LinesShape
  <2>5. FoundShape
    BY DEF Init, FoundShape
  <2>6. WrittenLinked
    BY <2>1 DEF WrittenLinked
  <2>7. LinesFromWritten
    BY DEF Init, LinesFromWritten, AllFromWritten
  <2> QED
    BY <2>2, <2>3, <2>4, <2>5, <2>6, <2>7
<1>2. \A i \in Instances : heads[i] = NoHead /\ heads[i].seq = -1
  BY DEF Init, NoHeads, NoHead
<1>3. HeadsShape
  <2>1. NoHead \in AnyHead
    BY DEF NoHead, AnyHead, Hashes
  <2>2. heads \in [Instances -> AnyHead]
    <3>1. heads = [i \in Instances |-> NoHead]
      BY DEF Init, NoHeads
    <3> HIDE DEF NoHead, AnyHead
    <3> QED
      BY <2>1, <3>1
  <2>3. \A i \in Instances : heads[i].seq \in -1 .. Len(written[i]) - 1
    <3> TAKE i \in Instances
    <3>1. Len(written[i]) = 0
      BY DEF Init
    <3> QED
      BY <1>2, <3>1
  <2> QED
    BY <1>2, <2>2, <2>3 DEF HeadsShape
<1>4. SilenceTold
  BY <1>2 DEF SilenceTold
<1>5. ASSUME NEW i \in Instances
      PROVE  EachOnce(<< >>, i, 0, 0) /\ ByInstance(<< >>, i) = {}
  BY DEF EachOnce, ByInstance
<1>6. CleanIsWhole
  <2>1. \A i \in Instances : heads[i].seq + 1 = 0
    BY <1>2
  <2> QED
    BY <1>2, <1>5, <2>1 DEF Init, CleanIsWhole
<1>7. UnharmedIsWhole
  <2>1. \A i \in Instances : heads[i].seq + 1 = 0 /\ Len(written[i]) = 0
    BY <1>2 DEF Init
  <2> QED
    BY <1>5, <2>1 DEF Init, UnharmedIsWhole
<1> QED
  BY <1>1, <1>3, <1>4, <1>6, <1>7 DEF IInv

LEMMA WriteKeeps == ASSUME IInv, NEW i \in Instances, Write(i) PROVE IInv'
<1> USE DEF IInv
<1> DEFINE L == Len(written[i])
<1>1. PICK operation \in IF written[i] = << >> THEN {"start"} ELSE {"heartbeat", "shutdown"},
           k \in 1 .. Len(window) + 1 :
        /\ written' = [written EXCEPT ![i] = Append(@, WrittenEvent(i, L, operation))]
        /\ window' = InsertAt(window, k, WrittenEvent(i, L, operation))
  BY DEF Write
<1> DEFINE event == WrittenEvent(i, L, operation)
<1>2. /\ ~Ended(i) /\ L < MaxEvents[i]
      /\ late' = late /\ delivered' = delivered /\ heads' = heads /\ found' = found
      /\ clock' = clock /\ harm' = harm
  BY DEF Write
<1>3. written \in [Instances -> Seq(AnyEvent)] /\ L \in Nat
  BY DEF WrittenShape
<1>4. /\ event.readable /\ event.instance = i /\ event.service = Service /\ event.seq = L
      /\ event.intact /\ event.hash = HashOf(i, L)
      /\ event.prev_hash = IF L = 0 THEN Genesis ELSE HashOf(i, L - 1)
      /\ event.operation = operation
  BY DEF WrittenEvent, Event
<1>5. event \in AnyEvent
  <2> DEFINE prev == IF L = 0 THEN Genesis ELSE HashOf(i, L - 1)
  <2>1. event = [readable |-> TRUE, instance |-> i, service |-> Service, seq |-> L, prev_hash |-> prev,
                 hash |-> HashOf(i, L), intact |-> TRUE, operation |-> operation, ts |-> clock]
    BY DEF WrittenEvent, Event
  <2>2. HashOf(i, L) \in Hashes /\ prev \in Hashes
    BY <1>3 DEF HashOf, Hashes
  <2>3. operation \in Operations /\ clock \in Nat
    BY StoreAssumption DEF Operations, CountShape
  <2> HIDE DEF prev, event, L
  <2> QED
    BY <1>3, <2>1, <2>2, <2>3 DEF AnyEvent
<1>6. PICK e \in AnyEvent :
        /\ e.readable /\ e.instance = i /\ e.service = Service /\ e.seq = L /\ e.intact
        /\ e.hash = HashOf(i, L) /\ e.prev_hash = IF L = 0 THEN Genesis ELSE HashOf(i, L - 1)
        /\ written' = [written EXCEPT ![i] = Append(@, e)] /\ window' = InsertAt(window, k, e)
  <2> HIDE DEF L
  <2> QED
    BY <1>1, <1>4, <1>5
<1>7. /\ written' \in [Instances -> Seq(AnyEvent)]
      /\ \A j \in Instances :
           /\ Len(written[j]) \in Nat
           /\ Len(written'[j]) = IF j = i THEN Len(written[j]) + 1 ELSE Len(written[j])
           /\ \A n \in 1 .. Len(written[j]) : written'[j][n] = written[j][n]
      /\ written'[i][Len(written[i]) + 1] = e
      /\ \A line \in AnyLine : FromWritten(line) => FromWritten(line)'
  BY <1>6, LineKept
<1>8. e \in AnyLine /\ window \in Seq(AnyLine)
  BY DEF AnyLine, LinesShape
<1>9. /\ window' \in Seq(AnyLine) /\ Len(window') = Len(window) + 1
      /\ \A n \in 1 .. Len(window) + 1 :
           window'[n] = IF n < k THEN window[n] ELSE IF n = k THEN e ELSE window[n - 1]
  <2>1. InsertAt(window, k, e) \in Seq(AnyLine) /\ Inserts(window, k, e, InsertAt(window, k, e))
    BY <1>8, InsertedAt
  <2> QED
    BY <1>6, <2>1 DEF Inserts
<1>10. CountShape'
  BY <1>2 DEF CountShape
<1>11. WrittenShape'
  <2>1. \A j \in Instances : MaxEvents[j] \in Nat /\ Len(written[j]) <= MaxEvents[j]
    BY StoreAssumption DEF WrittenShape
  <2>2. \A j \in Instances : Len(written'[j]) <= MaxEvents[j]
    BY <1>2, <1>7, <2>1
  <2> QED
    BY <1>7, <2>2 DEF WrittenShape
<1>12. LinesShape'
  BY <1>2, <1>9 DEF LinesShape
<1>13. FoundShape'
  BY <1>2 DEF FoundShape
<1>14. WrittenLinked'
  <2> SUFFICES ASSUME NEW j \in Instances, NEW n \in 1 .. Len(written'[j])
               PROVE  LET f == written'[j][n] IN
                      /\ f.instance = j /\ f.service = Service /\ f.seq = n - 1 /\ f.intact
                      /\ f.hash = HashOf(j, n - 1)
                      /\ f.prev_hash = IF n = 1 THEN Genesis ELSE HashOf(j, n - 2)
                      /\ f.operation = "shutdown" => n = Len(written'[j])
    BY DEF WrittenLinked
  <2>1. CASE n \in 1 .. Len(written[j])
    <3> DEFINE f == written[j][n]
    <3>1. /\ f.instance = j /\ f.service = Service /\ f.seq = n - 1 /\ f.intact
          /\ f.hash = HashOf(j, n - 1)
          /\ f.prev_hash = IF n = 1 THEN Genesis ELSE HashOf(j, n - 2)
          /\ f.operation = "shutdown" => n = Len(written[j])
      BY <2>1 DEF WrittenLinked
    <3>2. written'[j][n] = f
      BY <1>7, <2>1
    <3>3. f.operation = "shutdown" => n = Len(written'[j])
      <4>1. CASE j # i
        BY <1>7, <3>1, <4>1
      <4>2. CASE j = i
        <5>1. f.operation # "shutdown"
          <6> SUFFICES ASSUME f.operation = "shutdown" PROVE FALSE
            OBVIOUS
          <6>1. n = L /\ L > 0
            BY <1>3, <2>1, <3>1, <4>2
          <6>2. written[i] # << >> /\ Last(written[i]) = f
            BY <1>3, <4>2, <6>1 DEF Last
          <6> QED
            BY <1>2, <6>2 DEF Ended
        <5> QED
          BY <5>1
      <4> QED
        BY <4>1, <4>2
    <3> HIDE DEF f
    <3> QED
      BY <3>1, <3>2, <3>3
  <2>2. CASE n \notin 1 .. Len(written[j])
    <3>1. j = i /\ n = L + 1
      BY <1>7, <2>2
    <3>2. written'[j][n] = e /\ n = Len(written'[j])
      BY <1>7, <3>1
    <3>3. n - 1 = L /\ n - 2 = L - 1 /\ (n = 1 <=> L = 0)
      BY <1>3, <3>1
    <3> QED
      BY <1>6, <3>1, <3>2, <3>3
  <2> QED
    BY <2>1, <2>2
<1>15. LinesFromWritten'
  <2>1. FromWritten(e)'
    <3>1. e.seq < Len(written'[e.instance]) /\ e = written'[e.instance][e.seq + 1]
      BY <1>3, <1>6, <1>7
    <3> QED
      BY <3>1 DEF FromWritten
  <2>2. AllFromWritten(late)' /\ AllFromWritten(delivered)'
    <3>1. \A n \in 1 .. Len(late) : late[n] \in AnyLine /\ FromWritten(late[n])
      BY DEF LinesFromWritten, AllFromWritten, LinesShape
    <3>2. \A n \in 1 .. Len(delivered) : delivered[n] \in AnyLine /\ FromWritten(delivered[n])
      BY DEF LinesFromWritten, AllFromWritten, LinesShape
    <3>3. \A n \in 1 .. Len(late) : FromWritten(late[n])'
      BY <1>2, <1>7, <3>1
    <3>4. \A n \in 1 .. Len(delivered) : FromWritten(delivered[n])'
      BY <1>2, <1>7, <3>2
    <3> QED
      BY <1>2, <3>3, <3>4 DEF AllFromWritten
  <2>3. AllFromWritten(window)'
    <3>1. \A n \in 1 .. Len(window) : window[n] \in AnyLine /\ FromWritten(window[n])
      BY DEF LinesFromWritten, AllFromWritten, LinesShape
    <3>2. ASSUME NEW n \in 1 .. Len(window) + 1
          PROVE  \/ window'[n] = e
                 \/ \E m \in 1 .. Len(window) : window'[n] = window[m]
      <4>1. n < k => n \in 1 .. Len(window)
        BY <1>8
      <4>2. n > k => n - 1 \in 1 .. Len(window)
        BY <1>8
      <4>3. n < k \/ n = k \/ n > k
        OBVIOUS
      <4> QED
        BY <1>9, <4>1, <4>2, <4>3
    <3>3. ASSUME NEW n \in 1 .. Len(window') PROVE FromWritten(window[n])'
      <4>1. n \in 1 .. Len(window) + 1
        BY <1>9
      <4>2. CASE window'[n] = e
        BY <2>1, <4>2 DEF FromWritten
      <4>3. CASE window'[n] # e
        <5>1. PICK m \in 1 .. Len(window) : window'[n] = window[m]
          BY <3>2, <4>1, <4>3
        <5>2. PICK line \in AnyLine : line = window[m] /\ FromWritten(line)
          BY <3>1
        <5>3. FromWritten(line)' /\ window'[n] = line
          BY <1>7, <5>1, <5>2
        <5> QED
          BY <5>3 DEF FromWritten
      <4> QED
        BY <4>2, <4>3
    <3> QED
      BY <3>3 DEF AllFromWritten
  <2> QED
    BY <2>2, <2>3 DEF LinesFromWritten
<1>16. HeadsShape'
  <2>1. \A j \in Instances : heads[j].seq \in -1 .. Len(written'[j]) - 1
    <3> TAKE j \in Instances
    <3>1. heads[j].seq \in -1 .. Len(written[j]) - 1
      BY DEF HeadsShape
    <3> QED
      BY <1>7, <3>1, SMTT(30)
  <2> QED
    BY <1>2, <2>1 DEF HeadsShape
<1>17. SilenceTold'
  BY <1>2 DEF SilenceTold
<1>18. CleanIsWhole'
  <2> SUFFICES ASSUME NEW j \in Instances, Defects(j)' = {}
               PROVE  /\ EachOnce(delivered, j, 0, heads[j].seq + 1)
                      /\ \A n \in ByInstance(delivered, j) : delivered[n].intact
                      /\ heads[j] # NoHead =>
                           LET f == written'[j][heads[j].seq + 1] IN
                           heads[j].hash = f.hash /\ heads[j].service = Service
                             /\ (heads[j].ended => f.operation = "shutdown")
    BY <1>2 DEF CleanIsWhole
  <2>1. Defects(j) = {}
    BY <1>2 DEF Defects
  <2>2. heads[j] # NoHead => written'[j][heads[j].seq + 1] = written[j][heads[j].seq + 1]
    <3> SUFFICES ASSUME heads[j] # NoHead
                 PROVE  heads[j].seq + 1 \in 1 .. Len(written[j])
      BY <1>7
    <3> QED
      BY <1>7, SMTT(30) DEF HeadsShape
  <2> QED
    BY <2>1, <2>2 DEF CleanIsWhole
<1>19. UnharmedIsWhole'
  <2> SUFFICES ASSUME harm = 0
               PROVE  /\ late = << >>
                      /\ \A n \in 1 .. Len(window') : window'[n].readable /\ window'[n].intact
                      /\ \A j \in Instances : EachOnce(window', j, heads[j].seq + 1, Len(written'[j]))
                      /\ \A p \in found : p.kind = "unterminated"
    BY <1>2 DEF UnharmedIsWhole
  <2>1. /\ late = << >>
        /\ \A n \in 1 .. Len(window) : window[n].readable /\ window[n].intact
        /\ \A j \in Instances : EachOnce(window, j, heads[j].seq + 1, Len(written[j]))
        /\ \A p \in found : p.kind = "unterminated"
    BY DEF UnharmedIsWhole
  <2>2. ASSUME NEW n \in 1 .. Len(window')
        PROVE  window'[n].readable /\ window'[n].intact
    <3>1. n \in 1 .. Len(window) + 1
      BY <1>9
    <3>2. n < k => n \in 1 .. Len(window)
      BY <1>8
    <3>3. n > k => n - 1 \in 1 .. Len(window)
      BY <1>8, <3>1
    <3>4. n < k \/ n = k \/ n > k
      BY <3>1
    <3> QED
      BY <1>6, <1>9, <2>1, <3>1, <3>2, <3>3, <3>4
  <2>3. ASSUME NEW j \in Instances
        PROVE  EachOnce(window', j, heads[j].seq + 1, Len(written'[j]))
    <3> DEFINE v == heads[j].seq + 1
               w == Len(written[j])
    <3>1. v \in Int /\ w \in Int /\ v <= w
      BY <1>7 DEF HeadsShape
    <3>2. EachOnce(window, j, v, w) /\ (e.instance = j => e.seq = w)
      BY <1>6, <2>1
    <3>3. Len(written'[j]) = IF e.instance = j THEN w + 1 ELSE w
      BY <1>6, <1>7
    <3> HIDE DEF v, w
    <3>4. EachOnce(InsertAt(window, k, e), j, v, IF e.instance = j THEN w + 1 ELSE w)
      BY <1>6, <1>8, <3>1, <3>2, InsertedOnce
    <3> QED
      BY <1>6, <3>3, <3>4 DEF v
  <2> QED
    BY <2>1, <2>2, <2>3
<1> QED
  BY <1>10, <1>11, <1>12, <1>13, <1>14, <1>15, <1>16, <1>17, <1>18, <1>19


(* Lines that came to harm are still lines that come from what was written. *)
LEMMA HarmKeeps ==
  ASSUME IInv, Harm, window' \in Seq(AnyLine), late' \in Seq(AnyLine),
         AllFromWritten(window'), AllFromWritten(late')
  PROVE  IInv'
<1> USE DEF IInv
<1>1. /\ harm' = harm + 1 /\ harm < MaxHarm /\ written' = written /\ delivered' = delivered
      /\ heads' = heads /\ found' = found /\ clock' = clock
  BY DEF Harm
<1>2. CountShape'
  BY <1>1, StoreAssumption DEF CountShape
<1>3. WrittenShape' /\ FoundShape' /\ WrittenLinked' /\ HeadsShape' /\ SilenceTold'
  BY <1>1 DEF WrittenShape, FoundShape, WrittenLinked, HeadsShape, SilenceTold
<1>4. LinesShape'
  BY <1>1 DEF LinesShape
<1>5. LinesFromWritten'
  <2>1. AllFromWritten(window)' /\ AllFromWritten(late)'
    BY <1>1 DEF AllFromWritten, FromWritten
  <2>2. AllFromWritten(delivered)'
    BY <1>1 DEF AllFromWritten, FromWritten, LinesFromWritten
  <2> QED
    BY <2>1, <2>2 DEF LinesFromWritten
<1>6. CleanIsWhole'
  BY <1>1 DEF CleanIsWhole, Defects
<1>7. UnharmedIsWhole'
  <2>1. harm' # 0
    BY <1>1 DEF CountShape
  <2> QED
    BY <2>1 DEF UnharmedIsWhole
<1> QED
  BY <1>2, <1>3, <1>4, <1>5, <1>6, <1>7

LEMMA DamagedLine ==
  ASSUME NEW line \in AnyLine, line.readable, FromWritten(line), NEW other \in Damaged(line)
  PROVE  other \in AnyLine /\ FromWritten(other)
<1>1. line \in AnyEvent
  BY ReadableLine
<1>2. CASE other = Garbled
  BY <1>2, ReadableLine DEF FromWritten
<1>3. ASSUME NEW service \in {Service, "?"},
             other = [line EXCEPT !.service = service, !.intact = FALSE]
      PROVE  other \in AnyEvent /\ FromWritten(other)
  <2>1. other \in AnyEvent
    BY <1>1, <1>3 DEF AnyEvent
  <2>2. other.instance = line.instance /\ other.seq = line.seq /\ other.intact = FALSE
    BY <1>1, <1>3 DEF AnyEvent
  <2> QED
    BY <2>1, <2>2 DEF FromWritten
<1>4. CASE other = [line EXCEPT !.intact = FALSE]
  <2>1. other \in AnyEvent
    BY <1>1, <1>4 DEF AnyEvent
  <2>2. other.instance = line.instance /\ other.seq = line.seq /\ other.intact = FALSE
    BY <1>1, <1>4 DEF AnyEvent
  <2> QED
    BY <2>1, <2>2 DEF FromWritten, AnyLine
<1>5. CASE other = [line EXCEPT !.service = "?", !.intact = FALSE]
  BY <1>3, <1>5 DEF AnyLine
<1> QED
  BY <1>2, <1>4, <1>5 DEF Damaged

LEMMA HarmedLinesKeep == ASSUME IInv, Lose \/ Repeat \/ Damage \/ Delay PROVE IInv'
<1>1. /\ window \in Seq(AnyLine) /\ late \in Seq(AnyLine) /\ delivered \in Seq(AnyLine)
      /\ AllFromWritten(window) /\ AllFromWritten(late) /\ AllFromWritten(delivered)
  BY DEF IInv, LinesShape, LinesFromWritten
<1>2. ASSUME NEW k \in 1 .. Len(window)
      PROVE  RemoveAt(window, k) \in Seq(AnyLine) /\ AllFromWritten(RemoveAt(window, k))
  <2>1. /\ RemoveAt(window, k) \in Seq(AnyLine)
        /\ \A n \in 1 .. Len(RemoveAt(window, k)) : \E m \in 1 .. Len(window) :
             RemoveAt(window, k)[n] = window[m]
    BY <1>1, RemovedAt
  <2> QED
    BY <1>1, <2>1 DEF AllFromWritten
<1>3. ASSUME NEW lines \in Seq(AnyLine), AllFromWritten(lines), NEW line \in AnyLine, FromWritten(line)
      PROVE  Append(lines, line) \in Seq(AnyLine) /\ AllFromWritten(Append(lines, line))
  <2>1. /\ Append(lines, line) \in Seq(AnyLine) /\ Len(Append(lines, line)) = Len(lines) + 1
        /\ \A n \in 1 .. Len(lines) : Append(lines, line)[n] = lines[n]
        /\ Append(lines, line)[Len(lines) + 1] = line
    BY AppendProperties
  <2>2. ASSUME NEW n \in 1 .. Len(lines) + 1 PROVE FromWritten(Append(lines, line)[n])
    <3>1. n \in 1 .. Len(lines) \/ n = Len(lines) + 1
      OBVIOUS
    <3>2. CASE n \in 1 .. Len(lines)
      BY <1>3, <2>1, <3>2, Zenon DEF AllFromWritten
    <3>3. CASE n = Len(lines) + 1
      BY <1>3, <2>1, <3>3, Zenon
    <3> QED
      BY <3>1, <3>2, <3>3
  <2> QED
    BY <2>1, <2>2 DEF AllFromWritten
<1>4. \A k \in 1 .. Len(window) : window[k] \in AnyLine /\ FromWritten(window[k])
  BY <1>1 DEF AllFromWritten
<1>5. CASE Lose
  <2>1. Harm /\ late' = late /\ \E k \in 1 .. Len(window) : window' = RemoveAt(window, k)
    BY <1>5 DEF Lose
  <2> QED
    BY <1>1, <1>2, <2>1, HarmKeeps
<1>6. CASE Delay
  <2>1. PICK k \in 1 .. Len(window) :
             late' = Append(late, window[k]) /\ window' = RemoveAt(window, k) /\ Harm
    BY <1>6 DEF Delay
  <2>2. late' \in Seq(AnyLine) /\ AllFromWritten(late')
    BY <1>1, <1>3, <1>4, <2>1
  <2> QED
    BY <1>2, <2>1, <2>2, HarmKeeps
<1>7. CASE Repeat
  <2>1. PICK k \in 1 .. Len(window \o delivered) :
             window' = Append(window, (window \o delivered)[k]) /\ late' = late /\ Harm
    BY <1>7 DEF Repeat
  <2>2. (window \o delivered)[k] \in AnyLine /\ FromWritten((window \o delivered)[k])
    <3>1. /\ Len(window \o delivered) = Len(window) + Len(delivered)
          /\ \A n \in 1 .. Len(window) + Len(delivered) : (window \o delivered)[n] =
               IF n <= Len(window) THEN window[n] ELSE delivered[n - Len(window)]
      BY <1>1, ConcatProperties
    <3>2. CASE k <= Len(window)
      <4>1. (window \o delivered)[k] = window[k] /\ k \in 1 .. Len(window)
        BY <3>1, <3>2
      <4> QED
        BY <1>4, <4>1, Zenon
    <3>3. CASE k > Len(window)
      <4>1. Len(window) \in Nat /\ Len(delivered) \in Nat
        BY <1>1
      <4>2. (window \o delivered)[k] = delivered[k - Len(window)]
        BY <3>1, <3>3, <4>1
      <4>3. k - Len(window) \in 1 .. Len(delivered)
        BY <3>1, <3>3, <4>1
      <4>4. delivered[k - Len(window)] \in AnyLine /\ FromWritten(delivered[k - Len(window)])
        BY <1>1, <4>3 DEF AllFromWritten
      <4> QED
        BY <4>2, <4>4, Zenon
    <3>4. Len(window) \in Nat /\ k \in Int
      BY <1>1
    <3> QED
      BY <3>2, <3>3, <3>4
  <2>3. window' \in Seq(AnyLine) /\ AllFromWritten(window')
    BY <1>1, <1>3, <2>1, <2>2, Zenon
  <2> QED
    BY <1>1, <2>1, <2>3, HarmKeeps
<1>8. CASE Damage
  <2>1. PICK k \in 1 .. Len(window) : \E line \in Damaged(window[k]) :
             window[k].readable /\ window' = ReplaceAt(window, k, line) /\ late' = late /\ Harm
    BY <1>8 DEF Damage
  <2> PICK line \in Damaged(window[k]) :
             window[k].readable /\ window' = ReplaceAt(window, k, line) /\ late' = late /\ Harm
    BY <2>1
  <2>2. line \in AnyLine /\ FromWritten(line)
    BY <1>4, DamagedLine
  <2>3. /\ window' \in Seq(AnyLine) /\ Len(window') = Len(window)
        /\ \A n \in 1 .. Len(window) : window'[n] = IF n = k THEN line ELSE window[n]
    BY <1>1, <2>2, ExceptSeq DEF ReplaceAt
  <2>4. AllFromWritten(window')
    BY <1>4, <2>2, <2>3 DEF AllFromWritten
  <2> QED
    BY <1>1, <2>3, <2>4, HarmKeeps
<1> QED
  BY <1>5, <1>6, <1>7, <1>8


-----------------------------------------------------------------------------
(* What the check of a window finds of one chain.                          *)
CheckOf(i) == CheckChain(i, heads[i], ChainOf(window, i))

LEMMA OneWindow ==
  ASSUME IInv, NEW i \in Instances
  PROVE  /\ \A p \in CheckOf(i).problems : p.instance = i /\ p.kind \in ChainKinds
         /\ CheckOf(i).head \in AnyHead /\ CheckOf(i).head.seq \in -1 .. Len(written[i]) - 1
         /\ CheckOf(i).head.seq = -1 <=> CheckOf(i).head = NoHead
         /\ CheckOf(i).head = heads[i] \/ CheckOf(i).head.closed = CheckOf(i).head.ended
<1> DEFINE chain == ChainOf(window, i)
           r == CheckOf(i)
<1>1. /\ Len(chain) \in Nat
      /\ \A k \in 1 .. Len(chain) :
           chain[k] \in AnyEvent /\ chain[k].seq \in 0 .. Len(written[i]) - 1
  BY ChainOfLines DEF IInv, LinesShape, LinesFromWritten
<1>2. \A k \in 1 .. Len(chain) : chain[k].seq \in Nat
  BY <1>1
<1>3. /\ \A p \in r.problems : p.instance = i /\ p.kind \in ChainKinds
      /\ r.head = heads[i] \/ \E m \in 1 .. Len(chain) : r.head = HeadAt(chain[m])
  <2> HIDE DEF chain
  <2> QED
    BY <1>1, <1>2, CheckedTyped DEF CheckOf, chain
<1>4. /\ heads[i] \in AnyHead /\ heads[i].seq \in -1 .. Len(written[i]) - 1
      /\ heads[i].seq = -1 <=> heads[i] = NoHead
  BY DEF IInv, HeadsShape
<1> HIDE DEF r
<1>5. CASE r.head = heads[i]
  BY <1>3, <1>4, <1>5 DEF r
<1>6. CASE r.head # heads[i]
  <2>1. PICK m \in 1 .. Len(chain) : r.head = HeadAt(chain[m])
    BY <1>3, <1>6
  <2> DEFINE e == chain[m]
             over == (e.operation = "shutdown")
  <2>2. e \in AnyEvent /\ e.seq \in 0 .. Len(written[i]) - 1
    BY <1>1
  <2> HIDE DEF e
  <2>3. over \in BOOLEAN
    OBVIOUS
  <2>4. r.head = [service |-> e.service, seq |-> e.seq, hash |-> e.hash, ts |-> e.ts,
                  closed |-> over, ended |-> over]
    BY <2>1 DEF HeadAt, e
  <2> HIDE DEF over
  <2>5. r.head \in AnyHead /\ r.head.seq = e.seq /\ r.head.closed = r.head.ended
    BY <2>2, <2>3, <2>4 DEF AnyHead, AnyEvent
  <2>6. r.head.seq \in -1 .. Len(written[i]) - 1 /\ r.head.seq # -1
    BY <2>2, <2>5
  <2>7. NoHead.seq = -1
    BY Zenon DEF NoHead
  <2> QED
    BY <1>3, <2>5, <2>6, <2>7 DEF r
<1> QED
  BY <1>5, <1>6

(* A chain still without a defect: its lines in the window go on from its  *)
(* head one by one, and its new head stands at the last of them.           *)
LEMMA CleanWindow ==
  ASSUME IInv, NEW i \in Instances, Defects(i) = {}, CheckOf(i).problems = {}
  PROVE  LET new == CheckOf(i).head IN
         /\ heads[i].seq <= new.seq
         /\ EachOnce(window, i, heads[i].seq + 1, new.seq + 1)
         /\ \A n \in ByInstance(window, i) : window[n].intact
         /\ new # NoHead =>
              LET e == written[i][new.seq + 1] IN
              new.hash = e.hash /\ new.service = Service /\ (new.ended => e.operation = "shutdown")
<1> DEFINE chain == ChainOf(window, i)
           head == heads[i]
           new == CheckOf(i).head
<1>1. /\ Len(chain) \in Nat /\ (Len(chain) = 0 => chain = << >>) /\ Seqs(window, i)
      /\ \A k \in 1 .. Len(chain) :
           /\ chain[k] \in AnyEvent /\ chain[k].instance = i
           /\ chain[k].seq \in 0 .. Len(written[i]) - 1
           /\ \E n \in ByInstance(window, i) : chain[k] = window[n]
      /\ \A n \in ByInstance(window, i) : \E k \in 1 .. Len(chain) : chain[k] = window[n]
  BY ChainOfLines DEF IInv, LinesShape, LinesFromWritten
<1>2. head.seq \in Int /\ Len(window) \in Nat
  BY DEF IInv, HeadsShape, LinesShape
<1>3. /\ \A k \in 1 .. Len(chain) : chain[k].seq = head.seq + k /\ chain[k].intact
      /\ new = IF Len(chain) = 0 THEN head ELSE HeadAt(chain[Len(chain)])
  <2>1. \A k \in 1 .. Len(chain) : chain[k].seq \in Nat
    BY <1>1
  <2>2. CheckChain(i, head, chain).problems = {} /\ new = CheckChain(i, head, chain).head
    BY DEF CheckOf
  <2>3. Len(chain) \in Nat /\ (Len(chain) = 0 => chain = << >>) /\ head.seq \in Int
    BY <1>1, <1>2
  <2> HIDE DEF chain, head, new
  <2>4. /\ \A k \in 1 .. Len(chain) : chain[k].seq = head.seq + k /\ chain[k].intact
        /\ CheckChain(i, head, chain).head = IF Len(chain) = 0 THEN head ELSE HeadAt(chain[Len(chain)])
    BY ONLY <2>1, <2>2, <2>3, CleanIsConsecutive, SMTT(30)
  <2> QED
    BY <2>2, <2>4
<1>4. EachOnce(window, i, head.seq + 1, head.seq + 1 + Len(chain))
  <2> DEFINE v == head.seq + 1
  <2>1. v \in Int /\ \A k \in 1 .. Len(chain) : chain[k].seq = v + k - 1
    BY <1>2, <1>3
  <2> HIDE DEF v
  <2>2. EachOnce(window, i, v, v + Len(chain))
    BY <1>1, <1>2, <2>1, EachOnceOfOrder
  <2> QED
    BY <2>2 DEF v
<1>5. \A n \in ByInstance(window, i) : window[n].intact
  BY <1>1, <1>3
<1>6. new.seq = head.seq + Len(chain)
  <2>1. CASE Len(chain) = 0
    BY <1>2, <1>3, <2>1
  <2>2. CASE Len(chain) # 0
    <3>1. Len(chain) \in 1 .. Len(chain)
      BY <1>1, <2>2
    <3> HIDE DEF chain, head
    <3> QED
      BY <1>3, <2>2, <3>1 DEF HeadAt
  <2> QED
    BY <2>1, <2>2
<1>7. ASSUME new # NoHead
      PROVE  LET e == written[i][new.seq + 1] IN
             new.hash = e.hash /\ new.service = Service /\ (new.ended => e.operation = "shutdown")
  <2>1. CASE Len(chain) = 0
    BY <1>3, <1>7, <2>1 DEF IInv, CleanIsWhole
  <2>2. CASE Len(chain) # 0
    <3> DEFINE k == Len(chain)
               e == chain[k]
    <3>1. k \in 1 .. Len(chain)
      BY <1>1, <2>2
    <3>2. e \in AnyEvent /\ e.instance = i /\ e.intact /\ e.seq \in 0 .. Len(written[i]) - 1
      BY <1>1, <1>3, <3>1
    <3>3. FromWritten(e)
      <4>1. PICK n \in ByInstance(window, i) : e = window[n]
        BY <1>1, <3>1
      <4>2. n \in 1 .. Len(window)
        BY DEF ByInstance
      <4> HIDE DEF e
      <4> QED
        BY <4>1, <4>2 DEF IInv, LinesFromWritten, AllFromWritten
    <3> HIDE DEF e
    <3>4. e = written[i][e.seq + 1]
      BY <3>2, <3>3, ReadableLine DEF FromWritten
    <3>5. e.service = Service
      <4>1. e.seq + 1 \in 1 .. Len(written[i])
        BY <3>2
      <4> DEFINE q == e.seq + 1
      <4>2. written[i][q].service = Service
        BY <4>1 DEF IInv, WrittenLinked
      <4> QED
        BY <3>4, <4>2, Zenon
    <3>6. new = HeadAt(e)
      BY <1>3, <2>2 DEF e
    <3>7. /\ new.seq = e.seq /\ new.hash = e.hash /\ new.service = e.service
          /\ new.ended = (e.operation = "shutdown")
      BY <3>6 DEF HeadAt
    <3> HIDE DEF new
    <3> QED
      BY <3>4, <3>5, <3>7
  <2> QED
    BY <2>1, <2>2
<1>8. heads[i].seq <= new.seq /\ new.seq + 1 = head.seq + 1 + Len(chain)
  BY <1>1, <1>2, <1>6
<1> HIDE DEF chain
<1> QED
  BY <1>4, <1>5, <1>7, <1>8


(* A window that arrived whole raises nothing and brings the head to the   *)
(* end of what was written.                                                *)
LEMMA UnharmedWindow ==
  ASSUME IInv, NEW i \in Instances, harm = 0
  PROVE  CheckOf(i).problems = {} /\ CheckOf(i).head.seq + 1 = Len(written[i])
<1> DEFINE chain == ChainOf(window, i)
           head == heads[i]
           v == head.seq + 1
           W == Len(written[i])
           E(k) == written[i][k]
<1>1. Defects(i) = {}
  BY DEF IInv, UnharmedIsWhole, Defects
<1>2. /\ v \in Nat /\ W \in Nat /\ v <= W /\ (v = 0 <=> head = NoHead) /\ head.seq = v - 1
      /\ head.seq \in Int /\ head.seq >= -1 /\ Len(window) \in Nat
  <2>1. head.seq \in -1 .. W - 1 /\ (head.seq = -1 <=> head = NoHead)
    BY DEF IInv, HeadsShape
  <2>2. W \in Nat /\ Len(window) \in Nat
    BY DEF IInv, WrittenShape, LinesShape
  <2> HIDE DEF W, head
  <2> QED
    BY <2>1, <2>2
<1>3. EachOnce(window, i, v, W) /\ \A n \in 1 .. Len(window) : window[n].readable /\ window[n].intact
  BY DEF IInv, UnharmedIsWhole
<1>4. head # NoHead =>
        head.hash = E(v).hash /\ head.service = Service /\ (head.ended => E(v).operation = "shutdown")
  BY <1>1 DEF IInv, CleanIsWhole
<1>5. \A k \in 1 .. W :
        /\ E(k).service = Service /\ E(k).seq = k - 1 /\ E(k).intact /\ E(k).hash = HashOf(i, k - 1)
        /\ E(k).prev_hash = IF k = 1 THEN Genesis ELSE HashOf(i, k - 2)
        /\ E(k).operation = "shutdown" => k = W
  BY SMTT(30) DEF IInv, WrittenLinked
<1> HIDE DEF v, W, E
<1>6. /\ Len(chain) = W - v
      /\ \A k \in 1 .. W - v :
           /\ chain[k].seq = v + k - 1
           /\ \E n \in ByInstance(window, i) : chain[k] = window[n]
  BY <1>2, <1>3, OrderOfEachOnce
<1>7. ASSUME NEW k \in 1 .. W - v
      PROVE  chain[k] = E(v + k)
  <2>1. PICK n \in ByInstance(window, i) : chain[k] = window[n]
    BY <1>6
  <2>2. n \in 1 .. Len(window) /\ window[n].instance = i
    BY DEF ByInstance
  <2>3. window[n].readable /\ window[n].intact /\ FromWritten(window[n])
    BY <1>3, <2>2 DEF IInv, LinesFromWritten, AllFromWritten
  <2>4. window[n] = written[i][window[n].seq + 1]
    BY <2>2, <2>3 DEF FromWritten
  <2>5. window[n].seq + 1 = v + k
    BY <1>2, <1>6, <2>1
  <2> QED
    BY <2>1, <2>4, <2>5, Zenon DEF E
<1> HIDE DEF chain
<1>8. Linked(head, chain)
  <2> SUFFICES ASSUME NEW k \in 1 .. W - v
               PROVE  /\ chain[k].seq = head.seq + k /\ chain[k].intact
                      /\ chain[k].prev_hash = IF k = 1 THEN head.hash ELSE chain[k - 1].hash
                      /\ chain[k].service = IF head # NoHead THEN head.service ELSE chain[1].service
                      /\ IF k = 1 THEN ~head.ended ELSE chain[k - 1].operation # "shutdown"
    BY <1>6, Zenon DEF Linked
  <2>1. v + k \in 1 .. W /\ chain[k] = E(v + k)
    BY <1>2, <1>7
  <2>2. chain[k].seq = head.seq + k
    BY <1>2, <1>6
  <2>3. chain[k].intact /\ chain[k].service = Service
    BY <1>5, <2>1
  <2>4. IF head # NoHead THEN head.service = Service ELSE chain[1].service = Service
    <3>1. 1 \in 1 .. W - v /\ v + 1 \in 1 .. W
      BY <1>2
    <3>2. chain[1].service = Service
      BY <1>5, <1>7, <3>1
    <3> QED
      BY <1>4, <3>2
  <2>5. chain[k].prev_hash = IF v + k = 1 THEN Genesis ELSE HashOf(i, v + k - 2)
    <3>1. PICK m \in 1 .. W : m = v + k
      BY <2>1
    <3>2. chain[k].prev_hash = IF m = 1 THEN Genesis ELSE HashOf(i, m - 2)
      BY <1>5, <2>1, <3>1, ZenonT(60)
    <3>3. m - 2 = v + k - 2
      BY <1>2, <3>1
    <3> QED
      BY ONLY <3>1, <3>2, <3>3
  <2>6. CASE k = 1
    <3>1. CASE head = NoHead
      <4>1. v + k = 1
        BY <1>2, <2>6, <3>1
      <4>2. head.hash = Genesis /\ ~head.ended
        <5>1. NoHead.hash = Genesis /\ NoHead.ended = FALSE
          BY Zenon DEF NoHead
        <5> QED
          BY <3>1, <5>1
      <4> QED
        BY <2>2, <2>3, <2>4, <2>5, <2>6, <4>1, <4>2
    <3>2. CASE head # NoHead
      <4>1. v \in 1 .. W /\ v + k # 1 /\ v + k - 2 = v - 1 /\ v # W
        BY <1>2, <2>6, <3>2
      <4>2. head.hash = HashOf(i, v - 1) /\ E(v).operation # "shutdown"
        BY <1>4, <1>5, <3>2, <4>1
      <4>3. chain[k].prev_hash = head.hash
        BY <2>5, <4>1, <4>2
      <4>4. ~head.ended
        BY <1>4, <3>2, <4>2
      <4> QED
        BY <2>2, <2>3, <2>4, <2>6, <4>3, <4>4
    <3> QED
      BY <3>1, <3>2
  <2>7. CASE k # 1
    <3>1. k - 1 \in 1 .. W - v /\ v + (k - 1) \in 1 .. W
      BY <1>2, <2>7
    <3>2. v + (k - 1) # W /\ (v + (k - 1)) - 1 = v + k - 2 /\ v + k # 1
      BY <1>2, <2>7
    <3>3. chain[k - 1] = E(v + (k - 1))
      BY <1>7, <3>1
    <3>4. chain[k - 1].hash = HashOf(i, v + k - 2) /\ chain[k - 1].operation # "shutdown"
      BY <1>5, <3>1, <3>2, <3>3
    <3>5. chain[k].prev_hash = chain[k - 1].hash
      BY <2>5, <3>2, <3>4
    <3> QED
      BY <2>2, <2>3, <2>4, <2>7, <3>4, <3>5
  <2> QED
    BY <2>6, <2>7
<1>9. Len(chain) \in Nat
  BY <1>2, <1>6
<1>10. CheckOf(i).problems = {}
  <2>1. CheckChain(i, head, chain).problems = {}
    <3> HIDE DEF head
    <3> QED
      BY ONLY <1>2, <1>8, <1>9, ConsecutiveIsClean
  <2> QED
    BY <2>1 DEF CheckOf, chain
<1>11. CheckOf(i).head.seq + 1 = W
  <2>1. /\ EachOnce(window, i, v, CheckOf(i).head.seq + 1)
        /\ head.seq <= CheckOf(i).head.seq
    BY <1>1, <1>10, CleanWindow DEF v
  <2> DEFINE w == CheckOf(i).head.seq + 1
  <2>2. w \in Int /\ v <= w
    <3>1. CheckOf(i).head.seq \in Int
      BY OneWindow
    <3> QED
      BY <1>2, <2>1, <3>1
  <2> HIDE DEF w
  <2>3. Len(chain) = w - v
    <3>1. EachOnce(window, i, v, w)
      BY <2>1 DEF w
    <3> QED
      BY <1>2, <2>2, <3>1, OrderOfEachOnce DEF chain
  <2>4. w = W
    BY <1>2, <1>6, <2>2, <2>3
  <2> QED
    BY <2>4 DEF w
<1> QED
  BY <1>10, <1>11 DEF W


LEMMA VerifyKeeps == ASSUME IInv, VerifyWindow PROVE IInv'
<1> DEFINE report == Verify(window, heads, clock, Silence)
           new(i) == CheckOf(i).head
           quiet(i) == Silent(new(i), clock, Silence)
<1>1. /\ found' = found \cup report.problems /\ heads' = report.heads
      /\ delivered' = delivered \o window /\ window' = late /\ late' = << >>
      /\ clock' = clock + 1 /\ clock < MaxWindows /\ written' = written /\ harm' = harm
  BY DEF VerifyWindow
<1>2. ASSUME NEW i \in Instances
      PROVE  /\ \A p \in CheckOf(i).problems : p.instance = i /\ p.kind \in ChainKinds
             /\ new(i) \in AnyHead /\ new(i).seq \in -1 .. Len(written[i]) - 1
             /\ new(i).seq = -1 <=> new(i) = NoHead
             /\ new(i) = heads[i] \/ new(i).closed = new(i).ended
  BY OneWindow
<1>3. ASSUME NEW i \in Instances
      PROVE  /\ {p \in report.problems : p.instance = i} =
                  CheckOf(i).problems
                    \cup (IF quiet(i) THEN {ChainProblem(i, new(i).seq, "unterminated")} ELSE {})
             /\ heads'[i] = IF quiet(i) THEN ReportedHead(new(i)) ELSE new(i)
  <2>1. \A j \in Instances :
          \A p \in CheckChain(j, heads[j], ChainOf(window, j)).problems : p.instance = j
    BY <1>2 DEF CheckOf
  <2>2. "?" \notin Instances
    BY StoreAssumption
  <2>3. SaysOf(report, i, CheckChain(i, heads[i], ChainOf(window, i)), clock, Silence)
    BY <2>1, <2>2, OneChainOfVerify
  <2> HIDE DEF report
  <2> QED
    BY <1>1, <2>3 DEF SaysOf, CheckOf
<1>4. \A p \in report.problems :
        \/ \E i \in Instances : p \in CheckOf(i).problems
        \/ p.kind = "schema" /\ \E n \in 1 .. Len(window) : ~window[n].readable
        \/ p.kind = "unterminated"
  <2>1. ComesFrom(report, window, heads, clock, Silence)
    BY ProblemsOfVerify
  <2> HIDE DEF report
  <2> QED
    BY <2>1, Zenon DEF CheckOf, ComesFrom
<1>5. heads' = [i \in Instances |-> heads'[i]]
  <2>1. ComesFrom(report, window, heads, clock, Silence)
    BY ProblemsOfVerify
  <2> HIDE DEF report
  <2> QED
    BY <1>1, <2>1, Zenon DEF ComesFrom
<1> HIDE DEF report
<1>6. ASSUME NEW i \in Instances
      PROVE  /\ heads'[i] \in AnyHead /\ heads'[i].seq = new(i).seq
             /\ heads'[i].hash = new(i).hash /\ heads'[i].service = new(i).service
             /\ heads'[i].ts = new(i).ts
             /\ quiet(i) => heads'[i].ended = FALSE /\ new(i) # NoHead
             /\ ~quiet(i) => heads'[i] = new(i)
  <2>1. CASE quiet(i)
    <3> DEFINE h == new(i)
    <3>1. h \in AnyHead
      BY <1>2
    <3>2. heads'[i] = [h EXCEPT !.closed = TRUE, !.ended = FALSE]
      BY <1>3, <2>1 DEF ReportedHead
    <3>3. h # NoHead
      BY <2>1 DEF Silent
    <3> HIDE DEF h
    <3>4. /\ heads'[i] \in AnyHead /\ heads'[i].seq = h.seq
          /\ heads'[i].hash = h.hash /\ heads'[i].service = h.service
          /\ heads'[i].ts = h.ts /\ heads'[i].ended = FALSE
      BY <3>1, <3>2 DEF AnyHead
    <3> QED
      BY <2>1, <3>3, <3>4 DEF h
  <2>2. CASE ~quiet(i)
    <3>1. heads'[i] = new(i)
      BY <1>3, <2>2
    <3> QED
      BY <1>2, <2>2, <3>1
  <2> QED
    BY <2>1, <2>2
<1> HIDE DEF new, quiet
<1>7. CountShape'
  BY <1>1, StoreAssumption DEF IInv, CountShape
<1>8. WrittenShape' /\ WrittenLinked'
  BY <1>1 DEF IInv, WrittenShape, WrittenLinked
<1>9. LinesShape' /\ LinesFromWritten'
  <2>1. /\ window \in Seq(AnyLine) /\ late \in Seq(AnyLine) /\ delivered \in Seq(AnyLine)
        /\ AllFromWritten(window) /\ AllFromWritten(late) /\ AllFromWritten(delivered)
    BY DEF IInv, LinesShape, LinesFromWritten
  <2> DEFINE t == delivered \o window
  <2>2. /\ t \in Seq(AnyLine) /\ Len(t) = Len(delivered) + Len(window)
        /\ \A n \in 1 .. Len(delivered) + Len(window) :
             t[n] = IF n <= Len(delivered) THEN delivered[n] ELSE window[n - Len(delivered)]
    BY <2>1, ConcatProperties
  <2>3. Len(delivered) \in Nat /\ Len(window) \in Nat
    BY <2>1
  <2> HIDE DEF t
  <2>4. ASSUME NEW n \in 1 .. Len(t) PROVE FromWritten(t[n])
    <3>1. CASE n <= Len(delivered)
      <4>1. t[n] = delivered[n] /\ n \in 1 .. Len(delivered)
        BY <2>2, <2>3, <3>1
      <4> QED
        BY <2>1, <4>1 DEF AllFromWritten
    <3>2. CASE n > Len(delivered)
      <4>1. t[n] = window[n - Len(delivered)] /\ n - Len(delivered) \in 1 .. Len(window)
        BY <2>2, <2>3, <3>2
      <4> QED
        BY <2>1, <4>1 DEF AllFromWritten
    <3> QED
      BY <2>3, <3>1, <3>2
  <2>5. << >> \in Seq(AnyLine) /\ AllFromWritten(<< >>)
    BY DEF AllFromWritten
  <2>6. LinesShape'
    BY <1>1, <2>1, <2>2, <2>5 DEF LinesShape, t
  <2>7. \A lines : AllFromWritten(lines) <=> \A n \in 1 .. Len(lines) : FromWritten(lines[n])
    BY DEF AllFromWritten
  <2>8. AllFromWritten(window)' /\ AllFromWritten(late)'
    <3>1. window' = late /\ late' = << >> /\ written' = written
      BY <1>1
    <3>2. AllFromWritten(window)'
      BY <2>1, <3>1 DEF AllFromWritten, FromWritten
    <3>3. AllFromWritten(late)'
      BY <3>1 DEF AllFromWritten, FromWritten
    <3> QED
      BY <3>2, <3>3
  <2>9. AllFromWritten(delivered)'
    BY <1>1, <2>4 DEF AllFromWritten, FromWritten, t
  <2> QED
    BY <2>6, <2>8, <2>9 DEF LinesFromWritten
<1>10. FoundShape'
  <2>1. \A p \in report.problems : p.kind \in Kinds
    BY <1>2, <1>4 DEF Kinds
  <2> QED
    BY <1>1, <2>1 DEF IInv, FoundShape
<1>11. HeadsShape'
  <2>1. \A i \in Instances : heads'[i] \in AnyHead
    BY <1>6
  <2>2. heads' \in [Instances -> AnyHead]
    BY <1>5, <2>1
  <2>3. NoHead.seq = -1
    BY Zenon DEF NoHead
  <2>4. ASSUME NEW i \in Instances
        PROVE  heads'[i].seq \in -1 .. Len(written[i]) - 1 /\ (heads'[i].seq = -1 <=> heads'[i] = NoHead)
    BY <1>2, <1>6, <2>3
  <2> QED
    BY <1>1, <2>2, <2>4 DEF HeadsShape
<1>12. SilenceTold'
  <2> SUFFICES ASSUME NEW i \in Instances, heads'[i] # NoHead, ~heads'[i].ended,
                      heads'[i].closed \/ clock - heads'[i].ts > Silence
               PROVE  \E p \in found' : p.instance = i /\ p.kind = "unterminated"
    <3>1. clock' - 1 = clock
      BY <1>1 DEF IInv, CountShape
    <3> QED
      BY <3>1 DEF SilenceTold
  <2>1. CASE quiet(i)
    <3> DEFINE p == ChainProblem(i, new(i).seq, "unterminated")
    <3>1. p \in report.problems
      BY <1>3, <2>1
    <3>2. p.instance = i /\ p.kind = "unterminated"
      BY DEF ChainProblem
    <3> HIDE DEF p
    <3> QED
      BY <1>1, <3>1, <3>2
  <2>2. CASE ~quiet(i)
    <3>1. heads'[i] = new(i)
      BY <1>6, <2>2
    <3>2. new(i).closed
      BY <2>2, <3>1 DEF quiet, Silent
    <3>3. new(i) = heads[i]
      BY <1>2, <3>1, <3>2
    <3>4. \E p \in found : p.instance = i /\ p.kind = "unterminated"
      BY <3>1, <3>2, <3>3 DEF IInv, SilenceTold
    <3> QED
      BY <1>1, <3>4
  <2> QED
    BY <2>1, <2>2
<1>13. CleanIsWhole'
  <2> SUFFICES ASSUME NEW i \in Instances, Defects(i)' = {}
               PROVE  /\ EachOnce(delivered', i, 0, heads'[i].seq + 1)
                      /\ \A n \in ByInstance(delivered', i) : delivered'[n].intact
                      /\ heads'[i] # NoHead =>
                           LET e == written[i][heads'[i].seq + 1] IN
                           heads'[i].hash = e.hash /\ heads'[i].service = Service
                             /\ (heads'[i].ended => e.operation = "shutdown")
    BY <1>1, Zenon DEF CleanIsWhole
  <2>1. Defects(i) = {}
    BY <1>1 DEF Defects
  <2>2. CheckOf(i).problems = {}
    <3>1. \A p \in CheckOf(i).problems : p \in report.problems /\ p.kind # "unterminated" /\ p.instance = i
      BY <1>2, <1>3 DEF ChainKinds
    <3> QED
      BY <1>1, <3>1 DEF Defects
  <2>3. /\ heads[i].seq <= new(i).seq
        /\ EachOnce(window, i, heads[i].seq + 1, new(i).seq + 1)
        /\ \A n \in ByInstance(window, i) : window[n].intact
        /\ new(i) # NoHead =>
             LET e == written[i][new(i).seq + 1] IN
             new(i).hash = e.hash /\ new(i).service = Service
               /\ (new(i).ended => e.operation = "shutdown")
    BY <2>1, <2>2, CleanWindow DEF new
  <2>4. EachOnce(delivered, i, 0, heads[i].seq + 1) /\ \A n \in ByInstance(delivered, i) : delivered[n].intact
    BY <2>1 DEF IInv, CleanIsWhole
  <2>5. window \in Seq(AnyLine) /\ delivered \in Seq(AnyLine)
    BY DEF IInv, LinesShape
  <2>6. EachOnce(delivered', i, 0, heads'[i].seq + 1)
    <3> DEFINE v == heads[i].seq + 1
               w == new(i).seq + 1
    <3>1. v \in Nat /\ w \in Nat /\ 0 <= v /\ v <= w /\ heads'[i].seq + 1 = w
      <4>1. heads[i].seq \in -1 .. Len(written[i]) - 1
        BY DEF IInv, HeadsShape
      <4>2. new(i).seq \in -1 .. Len(written[i]) - 1
        BY <1>2
      <4>3. heads'[i].seq = new(i).seq
        BY <1>6
      <4> QED
        BY <2>3, <4>1, <4>2, <4>3
    <3>2. EachOnce(delivered, i, 0, v) /\ EachOnce(window, i, v, w)
      BY <2>3, <2>4
    <3> HIDE DEF v, w
    <3>3. EachOnce(delivered \o window, i, 0, w)
      BY <2>5, <3>1, <3>2, JoinedOnce
    <3> QED
      BY <1>1, <3>1, <3>3
  <2>7. \A n \in ByInstance(delivered', i) : delivered'[n].intact
    <3>1. Joins(delivered, window, delivered', i)
      BY <1>1, <2>5, JoinedEvents
    <3> TAKE n \in ByInstance(delivered', i)
    <3>2. CASE n \in ByInstance(delivered, i) /\ delivered'[n] = delivered[n]
      BY <2>4, <3>2
    <3>3. CASE n - Len(delivered) \in ByInstance(window, i) /\ delivered'[n] = window[n - Len(delivered)]
      BY <2>3, <3>3
    <3> QED
      BY <3>1, <3>2, <3>3, Zenon DEF Joins
  <2>8. ASSUME heads'[i] # NoHead
        PROVE  LET e == written[i][heads'[i].seq + 1] IN
               heads'[i].hash = e.hash /\ heads'[i].service = Service
                 /\ (heads'[i].ended => e.operation = "shutdown")
    <3>1. new(i) # NoHead
      BY <1>6, <2>8
    <3>2. CASE quiet(i)
      <4>1. heads'[i].ended = FALSE
        BY <1>6, <3>2
      <4> QED
        BY <1>6, <2>3, <3>1, <4>1
    <3>3. CASE ~quiet(i)
      BY <1>6, <2>3, <3>1, <3>3
    <3> QED
      BY <3>2, <3>3
  <2> QED
    BY <2>6, <2>7, <2>8
<1>14. UnharmedIsWhole'
  <2> SUFFICES ASSUME harm = 0
               PROVE  /\ late' = << >>
                      /\ \A k \in 1 .. Len(window') : window'[k].readable /\ window'[k].intact
                      /\ \A i \in Instances : EachOnce(window', i, heads'[i].seq + 1, Len(written[i]))
                      /\ \A p \in found' : p.kind = "unterminated"
    BY <1>1, Zenon DEF UnharmedIsWhole
  <2>1. /\ late = << >> /\ \A k \in 1 .. Len(window) : window[k].readable
        /\ \A p \in found : p.kind = "unterminated"
    BY DEF IInv, UnharmedIsWhole
  <2>2. \A i \in Instances : CheckOf(i).problems = {} /\ heads'[i].seq + 1 = Len(written[i])
    <3> TAKE i \in Instances
    <3>1. CheckOf(i).problems = {} /\ new(i).seq + 1 = Len(written[i])
      BY UnharmedWindow DEF new
    <3> QED
      BY <1>6, <3>1
  <2>3. window' = << >> /\ late' = << >>
    BY <1>1, <2>1
  <2>4. ASSUME NEW i \in Instances PROVE EachOnce(window', i, heads'[i].seq + 1, Len(written[i]))
    <3>1. Len(written[i]) \in Nat /\ ByInstance(window', i) = {}
      BY <2>3 DEF IInv, WrittenShape, ByInstance
    <3> QED
      BY <2>2, <3>1 DEF EachOnce
  <2>5. \A p \in found' : p.kind = "unterminated"
    BY <1>1, <1>4, <2>1, <2>2
  <2> QED
    BY <2>3, <2>4, <2>5
<1> QED
  BY <1>7, <1>8, <1>9, <1>10, <1>11, <1>12, <1>13, <1>14 DEF IInv


LEMMA IInvHolds == Spec => []IInv
<1>1. Init => IInv
  BY InitIsGood
<1>2. IInv /\ [Next]_vars => IInv'
  <2> SUFFICES ASSUME IInv, [Next]_vars PROVE IInv'
    OBVIOUS
  <2>1. ASSUME NEW i \in Instances, Write(i) PROVE IInv'
    BY <2>1, WriteKeeps
  <2>2. CASE Lose \/ Repeat \/ Damage \/ Delay
    BY <2>2, HarmedLinesKeep
  <2>3. CASE VerifyWindow
    BY <2>3, VerifyKeeps
  <2>4. CASE UNCHANGED vars
    <3> USE <2>4 DEF vars
    <3>1. CountShape' /\ WrittenShape' /\ LinesShape' /\ FoundShape' /\ WrittenLinked'
      BY DEF IInv, CountShape, WrittenShape, LinesShape, FoundShape, WrittenLinked
    <3>2. LinesFromWritten'
      BY DEF IInv, LinesFromWritten, AllFromWritten, FromWritten
    <3>3. HeadsShape' /\ SilenceTold'
      BY DEF IInv, HeadsShape, SilenceTold
    <3>4. CleanIsWhole'
      BY DEF IInv, CleanIsWhole, Defects
    <3>5. UnharmedIsWhole'
      BY DEF IInv, UnharmedIsWhole
    <3> QED
      BY <3>1, <3>2, <3>3, <3>4, <3>5 DEF IInv
  <2> QED
    BY <2>1, <2>2, <2>3, <2>4 DEF Next
<1> QED
  BY <1>1, <1>2, PTL DEF Spec

-----------------------------------------------------------------------------
(* What it means.                                                          *)

(* Every variable keeps its type: a head is at an event the emitter wrote, *)
(* and verify_chain reports only the kinds of problem it names.            *)
THEOREM TypeIsKept == Spec => []TypeOK
<1>1. IInv => TypeOK
  <2> SUFFICES ASSUME IInv PROVE TypeOK
    OBVIOUS
  <2>1. \A i \in Instances : Len(written[i]) <= MaxEvents[i] /\ Len(written[i]) \in Nat /\ MaxEvents[i] \in Nat
    BY StoreAssumption DEF IInv, WrittenShape
  <2>2. \A i \in Instances : heads[i].seq \in -1 .. MaxEvents[i] - 1
    <3> TAKE i \in Instances
    <3>1. heads[i].seq \in -1 .. Len(written[i]) - 1
      BY DEF IInv, HeadsShape
    <3> QED
      BY <2>1, <3>1
  <2>3. \A i \in Instances : heads[i].ended \in BOOLEAN
    BY DEF IInv, HeadsShape, AnyHead
  <2>4. \A p \in found : p.kind \in {"schema", "bad_hash", "broken_link", "seq_gap", "seq_repeat", "no_start",
                                     "service_mismatch", "after_shutdown", "unterminated"}
    BY DEF IInv, FoundShape, Kinds, ChainKinds
  <2> QED
    BY <2>1, <2>2, <2>3, <2>4 DEF TypeOK, IInv, CountShape
<1> QED
  BY <1>1, IInvHolds, PTL

(* Lines that all arrive, in whatever order and cut into whatever windows, *)
(* raise no problem but silence (verify_chain's docstring).                *)
THEOREM OrderIsNoProblem == Spec => []NoFalseAlarm
<1>1. IInv => NoFalseAlarm
  BY DEF IInv, UnharmedIsWhole, NoFalseAlarm
<1> QED
  BY <1>1, IInvHolds, PTL

(* A chain without a defect was delivered unharmed up to its head.         *)
THEOREM CleanIsComplete == Spec => []CleanMeansComplete
<1>1. ASSUME IInv PROVE CleanMeansComplete
  <2> SUFFICES ASSUME NEW i \in Instances, Defects(i) = {}, heads[i] # NoHead
               PROVE  /\ heads[i].seq < Len(written[i])
                      /\ heads[i].hash = written[i][heads[i].seq + 1].hash
                      /\ \A k \in 1 .. heads[i].seq + 1 : Arrived(written[i][k])
    BY DEF CleanMeansComplete
  <2>1. heads[i].seq \in -1 .. Len(written[i]) - 1 /\ Len(written[i]) \in Nat
    BY <1>1 DEF IInv, HeadsShape, WrittenShape
  <2>2. /\ EachOnce(delivered, i, 0, heads[i].seq + 1)
        /\ \A n \in ByInstance(delivered, i) : delivered[n].intact
        /\ heads[i].hash = written[i][heads[i].seq + 1].hash
    BY <1>1 DEF IInv, CleanIsWhole
  <2>3. ASSUME NEW k \in 1 .. heads[i].seq + 1
        PROVE  Arrived(written[i][k])
    <3>1. k - 1 \in 0 .. heads[i].seq + 1 - 1 /\ (k - 1) + 1 = k
      BY <2>1
    <3>2. PICK n \in ByInstance(delivered, i) : delivered[n].seq = k - 1
      <4> DEFINE w == heads[i].seq + 1
      <4>1. EachOnce(delivered, i, 0, w) /\ k - 1 \in 0 .. w - 1
        BY <2>1, <2>2, <3>1
      <4> HIDE DEF w
      <4> QED
        BY <4>1 DEF EachOnce
    <3>3. n \in 1 .. Len(delivered) /\ delivered[n].readable /\ delivered[n].instance = i
      BY DEF ByInstance
    <3>4. FromWritten(delivered[n])
      BY <1>1, <3>3 DEF IInv, LinesFromWritten, AllFromWritten
    <3>5. delivered[n] = written[i][delivered[n].seq + 1]
      BY <2>2, <3>3, <3>4 DEF FromWritten
    <3>6. delivered[n] = written[i][k]
      BY <3>1, <3>2, <3>5, Zenon
    <3> QED
      BY <3>3, <3>6 DEF Arrived
  <2> QED
    BY <2>1, <2>2, <2>3
<1> QED
  BY <1>1, IInvHolds, PTL

(* A chain without a defect that is reported as ended is the whole chain.  *)
THEOREM EndedIsWhole == Spec => []EndedMeansWhole
<1>1. ASSUME IInv PROVE EndedMeansWhole
  <2> SUFFICES ASSUME NEW i \in Instances, Defects(i) = {}, heads[i].ended
               PROVE  Ended(i) /\ heads[i].seq = Len(written[i]) - 1
    BY DEF EndedMeansWhole
  <2>1. heads[i] # NoHead
    <3>1. ~NoHead.ended
      BY Zenon DEF NoHead
    <3> QED
      BY <3>1
  <2>2. heads[i].seq \in 0 .. Len(written[i]) - 1 /\ Len(written[i]) \in Nat /\ written[i] \in Seq(AnyEvent)
    BY <1>1, <2>1 DEF IInv, HeadsShape, WrittenShape
  <2>3. written[i][heads[i].seq + 1].operation = "shutdown"
    BY <1>1, <2>1 DEF IInv, CleanIsWhole
  <2>4. heads[i].seq + 1 = Len(written[i])
    <3> DEFINE k == heads[i].seq + 1
    <3>1. k \in 1 .. Len(written[i])
      BY <2>2
    <3> HIDE DEF k
    <3>2. written[i][k].operation = "shutdown"
      BY <2>3 DEF k
    <3>3. k = Len(written[i])
      BY <1>1, <3>1, <3>2 DEF IInv, WrittenLinked
    <3> QED
      BY <3>3 DEF k
  <2>5. Ended(i)
    BY <2>2, <2>3, <2>4 DEF Ended, Last
  <2> QED
    BY <2>2, <2>4, <2>5
<1> QED
  BY <1>1, IInvHolds, PTL

(* Cutting the trail into windows hides nothing: a chain found clean       *)
(* window by window is clean when all its lines are checked at once.       *)
THEOREM WindowsAreEnough == Spec => []WindowsHideNothing
<1>1. ASSUME IInv PROVE WindowsHideNothing
  <2> SUFFICES ASSUME NEW i \in Instances, Defects(i) = {}
               PROVE  {p \in Verify(delivered, NoHeads, 0, Silence).problems : p.instance = i} = {}
    BY DEF WindowsHideNothing
  <2> DEFINE r(j) == CheckChain(j, NoHeads[j], ChainOf(delivered, j))
             chain == ChainOf(delivered, i)
             w == heads[i].seq + 1
  <2>1. delivered \in Seq(AnyLine) /\ AllFromWritten(delivered) /\ WrittenShape
    BY <1>1 DEF IInv, LinesShape, LinesFromWritten
  <2>2. ASSUME NEW j \in Instances
        PROVE  /\ \A p \in r(j).problems : p.instance = j
               /\ \/ r(j).head = NoHead
                  \/ \E e \in AnyEvent : r(j).head = HeadAt(e)
    <3> DEFINE events == ChainOf(delivered, j)
    <3>1. Len(events) \in Nat /\ \A k \in 1 .. Len(events) : events[k] \in AnyEvent /\ events[k].seq \in 0 .. Len(written[j]) - 1
      BY <2>1, ChainOfLines
    <3>2. \A k \in 1 .. Len(events) : events[k].seq \in Nat
      BY <3>1
    <3>3. NoHeads[j] = NoHead
      BY Zenon DEF NoHeads
    <3>4. /\ \A p \in r(j).problems : p.instance = j /\ p.kind \in ChainKinds
          /\ r(j).head = NoHeads[j] \/ \E m \in 1 .. Len(events) : r(j).head = HeadAt(events[m])
      <4> HIDE DEF events
      <4> QED
        BY <3>1, <3>2, CheckedTyped DEF events
    <3> HIDE DEF r
    <3> QED
      BY <3>1, <3>3, <3>4
  <2>3. SaysOf(Verify(delivered, NoHeads, 0, Silence), i, r(i), 0, Silence)
    <3>1. \A j \in Instances :
            \A p \in CheckChain(j, NoHeads[j], ChainOf(delivered, j)).problems : p.instance = j
      BY <2>2
    <3>2. "?" \notin Instances
      BY StoreAssumption
    <3> QED
      BY <3>1, <3>2, OneChainOfVerify
  <2>4. ~Silent(r(i).head, 0, Silence)
    <3>1. CASE r(i).head = NoHead
      BY <3>1 DEF Silent
    <3>2. ASSUME NEW e \in AnyEvent, r(i).head = HeadAt(e)
          PROVE  ~Silent(r(i).head, 0, Silence)
      <4>1. r(i).head.ts = e.ts /\ e.ts \in Nat /\ Silence \in Nat
        BY <3>2, StoreAssumption DEF HeadAt, AnyEvent
      <4>2. ~(0 - r(i).head.ts > Silence)
        BY <4>1
      <4> QED
        BY <4>2 DEF Silent
    <3> HIDE DEF r
    <3> QED
      BY <2>2, <3>1, <3>2
  <2>5. r(i).problems = {}
    <3>1. /\ EachOnce(delivered, i, 0, w) /\ \A n \in ByInstance(delivered, i) : delivered[n].intact
      BY <1>1 DEF IInv, CleanIsWhole
    <3>2. w \in 0 .. Len(written[i]) /\ Len(written[i]) \in Nat /\ Len(delivered) \in Nat
      BY <1>1, <2>1 DEF IInv, HeadsShape, WrittenShape
    <3>3. /\ Len(chain) = w
          /\ \A k \in 1 .. w : /\ chain[k].seq = k - 1
                               /\ \E n \in ByInstance(delivered, i) : chain[k] = delivered[n]
      <4>1. /\ Len(chain) = w - 0
            /\ \A k \in 1 .. w - 0 : /\ chain[k].seq = 0 + k - 1
                                     /\ \E n \in ByInstance(delivered, i) : chain[k] = delivered[n]
        <5> HIDE DEF w
        <5> QED
          BY <3>1, <3>2, OrderOfEachOnce
      <4> HIDE DEF w, chain
      <4> QED
        BY <3>2, <4>1
    <3> HIDE DEF w
    <3>4. ASSUME NEW k \in 1 .. w
          PROVE  chain[k] = written[i][k]
      <4>1. PICK n \in ByInstance(delivered, i) : chain[k] = delivered[n]
        BY <3>3
      <4>2. n \in 1 .. Len(delivered) /\ delivered[n].readable /\ delivered[n].instance = i
        BY DEF ByInstance
      <4>3. FromWritten(delivered[n])
        BY <2>1, <4>2 DEF AllFromWritten
      <4>4. delivered[n] = written[i][delivered[n].seq + 1]
        BY <3>1, <4>2, <4>3 DEF FromWritten
      <4>5. delivered[n].seq + 1 = k
        BY <3>3, <4>1
      <4> QED
        BY <4>1, <4>4, <4>5, Zenon
    <3> HIDE DEF chain
    <3>5. \A k \in 1 .. w :
            /\ chain[k].service = Service /\ chain[k].seq = k - 1 /\ chain[k].intact
            /\ chain[k].hash = HashOf(i, k - 1)
            /\ chain[k].prev_hash = IF k = 1 THEN Genesis ELSE HashOf(i, k - 2)
            /\ chain[k].operation = "shutdown" => k = Len(written[i])
      <4> TAKE k \in 1 .. w
      <4>1. k \in 1 .. Len(written[i])
        BY <3>2
      <4> QED
        BY <1>1, <3>4, <4>1, SMTT(30) DEF IInv, WrittenLinked
    <3>6. NoHead.seq = -1 /\ NoHead.hash = Genesis /\ NoHead.ended = FALSE
      BY Zenon DEF NoHead
    <3>7. Linked(NoHead, chain)
      <4> SUFFICES ASSUME NEW k \in 1 .. w
                   PROVE  /\ chain[k].seq = NoHead.seq + k /\ chain[k].intact
                          /\ chain[k].prev_hash = IF k = 1 THEN NoHead.hash ELSE chain[k - 1].hash
                          /\ chain[k].service = IF NoHead # NoHead THEN NoHead.service ELSE chain[1].service
                          /\ IF k = 1 THEN ~NoHead.ended ELSE chain[k - 1].operation # "shutdown"
        BY <3>3, Zenon DEF Linked
      <4>1. chain[k].seq = NoHead.seq + k /\ chain[k].intact
        BY <3>5, <3>6
      <4>2. chain[k].service = chain[1].service
        <5>1. 1 \in 1 .. w
          BY <3>2
        <5> QED
          BY <3>5, <5>1
      <4>3. CASE k = 1
        BY <3>5, <3>6, <4>1, <4>2, <4>3
      <4>4. CASE k # 1
        <5>1. k - 1 \in 1 .. w /\ k - 1 # Len(written[i]) /\ (k - 1) - 1 = k - 2
          BY <3>2, <4>4
        <5>2. chain[k - 1].hash = HashOf(i, k - 2) /\ chain[k - 1].operation # "shutdown"
          BY <3>5, <5>1
        <5>3. chain[k].prev_hash = chain[k - 1].hash
          BY <3>5, <4>4, <5>2
        <5> QED
          BY <4>1, <4>2, <4>4, <5>2, <5>3
      <4> QED
        BY <4>3, <4>4
    <3>8. CheckChain(i, NoHead, chain).problems = {}
      <4>1. NoHead.seq \in Int /\ NoHead.seq >= -1 /\ Len(chain) \in Nat
        BY <3>2, <3>3, <3>6
      <4> QED
        BY ONLY <3>7, <4>1, ConsecutiveIsClean
    <3>9. NoHeads[i] = NoHead
      BY Zenon DEF NoHeads
    <3> QED
      BY <3>8, <3>9 DEF chain
  <2> HIDE DEF r
  <2> QED
    BY <2>3, <2>4, <2>5 DEF SaysOf
<1> QED
  BY <1>1, IInvHolds, PTL

(* A chain that went silent for longer than allowed without ending is      *)
(* reported.                                                               *)
THEOREM LostEndIsTold == Spec => []LostEndIsNoticed
<1>1. IInv => LostEndIsNoticed
  BY DEF IInv, SilenceTold, LostEndIsNoticed
<1> QED
  BY <1>1, IInvHolds, PTL

=============================================================================
