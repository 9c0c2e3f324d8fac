------------------------- MODULE VerifyChain_proofs -------------------------
(***************************************************************************)
(* What verify_chain makes of lines, for every number of lines and chains: *)
(* the events of a chain are put in order without one lost or doubled; a   *)
(* chain without a problem has the seqs that its head says, and events     *)
(* linked one after another raise no problem.                              *)
(***************************************************************************)
EXTENDS VerifyChain, FiniteSetTheorems, TLAPS

LEMMA NatLeast ==
  ASSUME NEW T \in SUBSET Nat, NEW n \in T
  PROVE  \E m \in T : \A k \in T : m <= k
<1> DEFINE R == OpToRel(<, Nat)
<1>1. IsWellFoundedOn(R, Nat)
  BY NatLessThanWellFounded
<1>2. \A x, y \in Nat : y < x => <<y, x>> \in R
  BY DEF OpToRel
<1> HIDE DEF R
<1>3. PICK m \in T : \A y \in T : <<y, m>> \notin R
  BY <1>1, WFMin
<1>4. ASSUME NEW k \in T PROVE m <= k
  <2>1. m \in Nat /\ k \in Nat /\ ~(k < m)
    BY <1>2, <1>3
  <2> QED
    BY ONLY <2>1
<1> QED
  BY <1>4

-----------------------------------------------------------------------------
(* The order of the events of a chain.                                     *)

Seqs(lines, instance) == \A n \in ByInstance(lines, instance) : lines[n].seq \in Int

LEMMA FewEvents ==
  ASSUME NEW lines, Len(lines) \in Nat, NEW instance
  PROVE  /\ IsFiniteSet(ByInstance(lines, instance))
         /\ Cardinality(ByInstance(lines, instance)) \in Nat
         /\ ByInstance(lines, instance) \subseteq 1 .. Len(lines)
<1>1. ByInstance(lines, instance) \in SUBSET (1 .. Len(lines))
  BY DEF ByInstance
<1>2. IsFiniteSet(1 .. Len(lines))
  BY FS_Interval
<1>3. IsFiniteSet(ByInstance(lines, instance))
  BY <1>1, <1>2, FS_Subset
<1> QED
  BY <1>1, <1>3, FS_CardinalityType

(* The events of a chain have the places from 0 on, each one of its own.   *)
LEMMA Places ==
  ASSUME NEW lines, Len(lines) \in Nat, NEW instance, Seqs(lines, instance)
  PROVE  LET events == ByInstance(lines, instance) IN
         /\ \A n \in events : Place(lines, instance, n) \in 0 .. Cardinality(events) - 1
         /\ \A m, n \in events :
              Before(lines, m, n) => Place(lines, instance, m) < Place(lines, instance, n)
         /\ \A m, n \in events : m # n => Before(lines, m, n) \/ Before(lines, n, m)
<1> DEFINE events == ByInstance(lines, instance)
           Ahead(n) == {m \in events : Before(lines, m, n)}
<1>1. IsFiniteSet(events) /\ Cardinality(events) \in Nat /\ events \subseteq 1 .. Len(lines)
  BY FewEvents
<1>2. \A n \in events : n \in Int /\ lines[n].seq \in Int
  BY <1>1 DEF Seqs
<1>3. \A n \in events : Place(lines, instance, n) = Cardinality(Ahead(n))
  BY DEF Place
<1>4. \A n \in events : ~Before(lines, n, n)
  BY <1>2 DEF Before
<1>5. \A m, n \in events : m # n => Before(lines, m, n) \/ Before(lines, n, m)
  BY <1>2 DEF Before
<1>6. \A l, m, n \in events : Before(lines, l, m) /\ Before(lines, m, n) => Before(lines, l, n)
  <2> TAKE l, m, n \in events
  <2>1. /\ l \in Int /\ m \in Int /\ n \in Int
        /\ lines[l].seq \in Int /\ lines[m].seq \in Int /\ lines[n].seq \in Int
    BY <1>2
  <2> QED
    BY <2>1 DEF Before
<1>7. ASSUME NEW n \in events
      PROVE  IsFiniteSet(Ahead(n)) /\ Cardinality(Ahead(n)) \in 0 .. Cardinality(events) - 1
  <2>1. Ahead(n) \in SUBSET events /\ Ahead(n) # events
    BY <1>4
  <2> HIDE DEF Ahead, events
  <2>2. /\ IsFiniteSet(Ahead(n)) /\ Cardinality(Ahead(n)) <= Cardinality(events)
        /\ Cardinality(Ahead(n)) # Cardinality(events)
    BY <1>1, <2>1, FS_Subset
  <2>3. Cardinality(Ahead(n)) \in Nat
    BY <2>2, FS_CardinalityType
  <2> QED
    BY <1>1, <2>2, <2>3
<1>8. ASSUME NEW m \in events, NEW n \in events, Before(lines, m, n)
      PROVE  Cardinality(Ahead(m)) < Cardinality(Ahead(n))
  <2>1. Ahead(m) \in SUBSET Ahead(n)
    BY <1>6, <1>8
  <2>2. Ahead(m) # Ahead(n)
    BY <1>4, <1>8
  <2>3. IsFiniteSet(Ahead(m)) /\ IsFiniteSet(Ahead(n))
    BY <1>7
  <2> HIDE DEF Ahead, events
  <2>4. Cardinality(Ahead(m)) \in Nat /\ Cardinality(Ahead(n)) \in Nat
    BY <2>3, FS_CardinalityType
  <2>5. /\ Cardinality(Ahead(m)) <= Cardinality(Ahead(n))
        /\ Cardinality(Ahead(m)) # Cardinality(Ahead(n))
    BY <2>1, <2>2, <2>3, FS_Subset
  <2> QED
    BY <2>4, <2>5
<1> HIDE DEF Ahead, events
<1> QED
  BY <1>3, <1>5, <1>7, <1>8 DEF events

(* So a chain is its events in some order, none left out or doubled, with  *)
(* ascending seqs.                                                         *)
LEMMA ChainIsOrdered ==
  ASSUME NEW lines, Len(lines) \in Nat, NEW instance, Seqs(lines, instance)
  PROVE  LET events == ByInstance(lines, instance)
             chain  == ChainOf(lines, instance)
         IN /\ Len(chain) = Cardinality(events) /\ Len(chain) \in Nat
            /\ DOMAIN chain = 1 .. Len(chain)
            /\ \A k \in 1 .. Len(chain) : \E n \in events :
                 Place(lines, instance, n) = k - 1 /\ chain[k] = lines[n]
            /\ \A n \in events :
                 /\ Place(lines, instance, n) + 1 \in 1 .. Len(chain)
                 /\ chain[Place(lines, instance, n) + 1] = lines[n]
<1> DEFINE events == ByInstance(lines, instance)
           N == Cardinality(events)
           P(n) == Place(lines, instance, n)
           place == [n \in events |-> P(n) + 1]
           chain == ChainOf(lines, instance)
           At(k) == CHOOSE n \in events : P(n) = k - 1
<1>1. IsFiniteSet(events) /\ N \in Nat /\ events \subseteq 1 .. Len(lines)
  BY FewEvents
<1>2. \A n \in events : P(n) \in 0 .. N - 1
  BY Places
<1>3. \A m, n \in events : m # n => P(m) # P(n)
  <2> TAKE m, n \in events
  <2>1. P(m) \in Int /\ P(n) \in Int
    BY <1>2
  <2>2. /\ Before(lines, m, n) => P(m) < P(n)
        /\ Before(lines, n, m) => P(n) < P(m)
        /\ m # n => Before(lines, m, n) \/ Before(lines, n, m)
    BY Places
  <2> HIDE DEF P
  <2> QED
    BY <2>1, <2>2
<1>4. chain = [k \in 1 .. N |-> lines[At(k)]]
  BY DEF ChainOf
<1> HIDE DEF P, events, N, chain
<1>5. place \in Injection(events, 1 .. N)
  <2>1. place \in [events -> 1 .. N]
    BY <1>1, <1>2
  <2>2. \A m, n \in events : place[m] = place[n] => m = n
    <3> TAKE m, n \in events
    <3>1. P(m) \in Int /\ P(n) \in Int
      BY <1>2
    <3> QED
      BY <1>3, <3>1
  <2> QED
    BY <2>1, <2>2 DEF Injection, IsInjective
<1>6. place \in Surjection(events, 1 .. N)
  <2>1. IsFiniteSet(1 .. N) /\ Cardinality(1 .. N) = N
    BY <1>1, FS_Interval, SMTT(30)
  <2> QED
    BY <1>5, <2>1, FS_Injection DEF N
<1>7. \A k \in 1 .. N : \E n \in events : P(n) = k - 1
  <2> TAKE k \in 1 .. N
  <2>1. PICK n \in events : place[n] = k
    BY <1>6 DEF Surjection
  <2>2. P(n) \in Int /\ P(n) + 1 = k
    BY <1>2, <2>1
  <2>3. P(n) = k - 1
    BY <2>2
  <2> QED
    BY <2>3
<1>8. \A k \in 1 .. N : At(k) \in events /\ P(At(k)) = k - 1
  BY <1>7
<1>9. \A n \in events : P(n) + 1 \in 1 .. N /\ At(P(n) + 1) = n
  <2> TAKE n \in events
  <2>1. P(n) \in Int /\ P(n) + 1 \in 1 .. N /\ P(n) + 1 - 1 = P(n)
    BY <1>1, <1>2
  <2>2. At(P(n) + 1) \in events /\ P(At(P(n) + 1)) = P(n)
    BY <1>8, <2>1
  <2> HIDE DEF At
  <2> QED
    BY <1>3, <2>1, <2>2
<1> HIDE DEF At
<1>10. Len(chain) = N /\ DOMAIN chain = 1 .. N /\ \A k \in 1 .. N : chain[k] = lines[At(k)]
  BY <1>1, <1>4
<1> QED
  BY <1>1, <1>8, <1>9, <1>10 DEF N, P, events, chain

-----------------------------------------------------------------------------
(* Lines that carry the events of a chain from seq v to w - 1, each once.  *)
EachOnce(lines, instance, v, w) ==
  LET events == ByInstance(lines, instance) IN
  /\ \A n \in events : lines[n].seq \in v .. w - 1
  /\ \A m, n \in events : lines[m].seq = lines[n].seq => m = n
  /\ \A s \in v .. w - 1 : \E n \in events : lines[n].seq = s

(* In order, they are v, v + 1 and so on.                                  *)
LEMMA OrderOfEachOnce ==
  ASSUME NEW lines, Len(lines) \in Nat, NEW instance, NEW v \in Int, NEW w \in Int, v <= w,
         EachOnce(lines, instance, v, w)
  PROVE  LET chain == ChainOf(lines, instance) IN
         /\ Len(chain) = w - v /\ DOMAIN chain = 1 .. w - v
         /\ \A k \in 1 .. w - v :
              /\ chain[k].seq = v + k - 1
              /\ \E n \in ByInstance(lines, instance) : chain[k] = lines[n]
<1> DEFINE events == ByInstance(lines, instance)
           chain  == ChainOf(lines, instance)
           seqs(T) == [n \in T |-> lines[n].seq]
<1>1. IsFiniteSet(events)
  BY FewEvents
<1>2. /\ \A n \in events : lines[n].seq \in v .. w - 1
      /\ \A m, n \in events : lines[m].seq = lines[n].seq => m = n
      /\ \A s \in v .. w - 1 : \E n \in events : lines[n].seq = s
  BY DEF EachOnce
<1>3. Seqs(lines, instance)
  BY <1>2 DEF Seqs
<1>4. /\ Len(chain) = Cardinality(events) /\ Len(chain) \in Nat
      /\ DOMAIN chain = 1 .. Len(chain)
      /\ \A k \in 1 .. Len(chain) : \E n \in events :
           Place(lines, instance, n) = k - 1 /\ chain[k] = lines[n]
  BY <1>3, ChainIsOrdered
<1>5. ASSUME NEW T \in SUBSET events, NEW u \in v .. w, T = {n \in events : lines[n].seq < u}
      PROVE  Cardinality(T) = u - v
  <2>1. seqs(T) \in Bijection(T, v .. u - 1)
    <3>1. seqs(T) \in [T -> v .. u - 1]
      <4> SUFFICES ASSUME NEW n \in T PROVE lines[n].seq \in v .. u - 1
        OBVIOUS
      <4>1. lines[n].seq \in v .. w - 1 /\ lines[n].seq < u
        BY <1>2, <1>5
      <4> QED
        BY <4>1
    <3>2. \A m, n \in T : seqs(T)[m] = seqs(T)[n] => m = n
      BY <1>2
    <3>3. \A s \in v .. u - 1 : \E n \in T : seqs(T)[n] = s
      <4> TAKE s \in v .. u - 1
      <4>1. s \in v .. w - 1 /\ s < u
        OBVIOUS
      <4>2. PICK n \in events : lines[n].seq = s
        BY <1>2, <4>1
      <4>3. n \in T
        BY <1>5, <4>1, <4>2
      <4> QED
        BY <4>2, <4>3
    <3> QED
      BY <3>1, <3>2, <3>3 DEF Bijection, Injection, IsInjective, Surjection
  <2>2. IsFiniteSet(T)
    BY <1>1, <1>5, FS_Subset
  <2>3. ExistsBijection(T, v .. u - 1)
    BY <2>1 DEF ExistsBijection
  <2> HIDE DEF seqs
  <2>4. Cardinality(v .. u - 1) = Cardinality(T)
    BY <2>2, <2>3, FS_Bijection
  <2>5. Cardinality(v .. u - 1) = u - v
    <3>1. Cardinality(v .. u - 1) = IF v > u - 1 THEN 0 ELSE (u - 1) - v + 1
      BY u - 1 \in Int, FS_Interval
    <3> QED
      BY <3>1
  <2> QED
    BY <2>4, <2>5
<1>6. Cardinality(events) = w - v
  <2>1. events = {n \in events : lines[n].seq < w}
    <3>1. \A n \in events : lines[n].seq < w
      BY <1>2
    <3> HIDE DEF events
    <3> QED
      BY <3>1
  <2>2. w \in v .. w /\ events \in SUBSET events
    OBVIOUS
  <2> HIDE DEF events
  <2> QED
    BY <1>5, <2>1, <2>2
<1>7. ASSUME NEW n \in events
      PROVE  Place(lines, instance, n) = lines[n].seq - v
  <2> DEFINE T == {m \in events : lines[m].seq < lines[n].seq}
  <2>1. {m \in events : Before(lines, m, n)} = T
    <3> SUFFICES ASSUME NEW m \in events
                 PROVE  Before(lines, m, n) <=> lines[m].seq < lines[n].seq
      OBVIOUS
    <3>1. lines[m].seq = lines[n].seq => m = n
      BY <1>2
    <3>2. n \in Int
      BY DEF ByInstance
    <3> QED
      BY <3>1, <3>2 DEF Before
  <2>2. lines[n].seq \in v .. w
    BY <1>2
  <2>3. Cardinality(T) = lines[n].seq - v
    BY <1>5, <2>2
  <2> QED
    BY <2>1, <2>3 DEF Place
<1>8. ASSUME NEW k \in 1 .. w - v
      PROVE  chain[k].seq = v + k - 1 /\ \E n \in events : chain[k] = lines[n]
  <2>1. PICK n \in events : Place(lines, instance, n) = k - 1 /\ chain[k] = lines[n]
    BY <1>4, <1>6
  <2>2. lines[n].seq - v = k - 1 /\ lines[n].seq \in Int
    BY <1>2, <1>7, <2>1
  <2>3. lines[n].seq = v + k - 1
    BY <2>2
  <2> QED
    BY <2>1, <2>3
<1> QED
  BY <1>4, <1>6, <1>8

(* Where the seqs of a chain are v, v + 1 and so on, its lines carry each  *)
(* of them once.                                                           *)
LEMMA EachOnceOfOrder ==
  ASSUME NEW lines, Len(lines) \in Nat, NEW instance, Seqs(lines, instance), NEW v \in Int,
         \A k \in 1 .. Len(ChainOf(lines, instance)) : ChainOf(lines, instance)[k].seq = v + k - 1
  PROVE  EachOnce(lines, instance, v, v + Len(ChainOf(lines, instance)))
<1> DEFINE events == ByInstance(lines, instance)
           chain  == ChainOf(lines, instance)
           P(n)   == Place(lines, instance, n)
<1>1. /\ Len(chain) \in Nat
      /\ \A k \in 1 .. Len(chain) : \E n \in events : P(n) = k - 1 /\ chain[k] = lines[n]
      /\ \A n \in events : P(n) + 1 \in 1 .. Len(chain) /\ chain[P(n) + 1] = lines[n]
  BY ChainIsOrdered
<1>2. \A n \in events : P(n) \in Int
  BY Places
<1>3. \A m, n \in events : P(m) = P(n) => m = n
  <2> TAKE m, n \in events
  <2>1. /\ Before(lines, m, n) => P(m) < P(n)
        /\ Before(lines, n, m) => P(n) < P(m)
        /\ m # n => Before(lines, m, n) \/ Before(lines, n, m)
    BY Places
  <2>2. P(m) \in Int /\ P(n) \in Int
    BY <1>2
  <2> HIDE DEF P
  <2> QED
    BY <2>1, <2>2
<1>4. \A n \in events : lines[n].seq = v + P(n)
  <2> TAKE n \in events
  <2>1. P(n) + 1 \in 1 .. Len(chain) /\ chain[P(n) + 1] = lines[n]
    BY <1>1
  <2>2. chain[P(n) + 1].seq = v + (P(n) + 1) - 1
    BY <2>1
  <2>3. P(n) \in Int
    BY <1>2
  <2> HIDE DEF P, chain
  <2> QED
    BY <2>1, <2>2, <2>3
<1> HIDE DEF P, chain
<1>5. \A n \in events : lines[n].seq \in v .. v + Len(chain) - 1
  BY <1>1, <1>2, <1>4
<1>6. \A m, n \in events : lines[m].seq = lines[n].seq => m = n
  BY <1>2, <1>3, <1>4
<1>7. \A s \in v .. v + Len(chain) - 1 : \E n \in events : lines[n].seq = s
  <2> TAKE s \in v .. v + Len(chain) - 1
  <2>1. s - v + 1 \in 1 .. Len(chain)
    BY <1>1
  <2>2. PICK n \in events : P(n) = (s - v + 1) - 1
    BY <1>1, <2>1
  <2>3. v + P(n) = s
    BY <2>2
  <2> QED
    BY <1>4, <2>3
<1> QED
  BY <1>5, <1>6, <1>7 DEF EachOnce, chain

-----------------------------------------------------------------------------
(* The check of one chain, event by event.                                 *)

(* Induction up to n, over a set of numbers.                               *)
LEMMA UpTo ==
  ASSUME NEW n \in Nat, NEW T \in SUBSET (0 .. n), 0 \in T,
         \A k \in 1 .. n : k - 1 \in T => k \in T
  PROVE  \A k \in 0 .. n : k \in T
<1> SUFFICES ASSUME NEW i \in (0 .. n) \ T PROVE FALSE
  OBVIOUS
<1>1. PICK m \in (0 .. n) \ T : \A k \in (0 .. n) \ T : m <= k
  <2>1. (0 .. n) \ T \in SUBSET Nat
    OBVIOUS
  <2> QED
    BY <2>1, NatLeast
<1>2. m \in 1 .. n /\ m - 1 \in 0 .. n /\ ~(m <= m - 1)
  BY <1>1
<1>3. m - 1 \in T
  BY <1>1, <1>2
<1> QED
  BY <1>1, <1>2, <1>3

StateAfter(instance, head, chain, after, k) ==
  IF k = 0 THEN ChainStart(head, chain) ELSE CheckEvent(instance, head, after[k - 1], chain[k])

LEMMA StatesExist ==
  ASSUME NEW instance, NEW head, NEW chain, Len(chain) \in Nat
  PROVE  \E f : f = [k \in 0 .. Len(chain) |-> StateAfter(instance, head, chain, f, k)]
<1> DEFINE n == Len(chain)
           N(f, k) == StateAfter(instance, head, chain, f, k)
           Good(f, m) == f = [k \in 0 .. m |-> N(f, k)]
           T == {m \in 0 .. n : \E f : Good(f, m)}
<1>1. 0 \in T
  <2> DEFINE f == [k \in 0 .. 0 |-> ChainStart(head, chain)]
  <2>1. \A k \in 0 .. 0 : N(f, k) = ChainStart(head, chain)
    BY DEF StateAfter
  <2>2. Good(f, 0)
    <3> HIDE DEF N
    <3> QED
      BY <2>1
  <2>3. 0 \in 0 .. n
    OBVIOUS
  <2> HIDE DEF Good, f
  <2> QED
    BY <2>2, <2>3
<1>2. ASSUME NEW m \in 1 .. n, m - 1 \in T
      PROVE  m \in T
  <2>1. PICK f : Good(f, m - 1)
    <3> HIDE DEF Good
    <3> QED
      BY <1>2
  <2> DEFINE g == [k \in 0 .. m |-> IF k = m THEN N(f, m) ELSE f[k]]
  <2>2. /\ \A k \in 0 .. m - 1 : g[k] = f[k] /\ f[k] = N(f, k)
        /\ g[m] = N(f, m) /\ DOMAIN g = 0 .. m
    <3>1. \A k \in 0 .. m - 1 : k \in 0 .. m /\ k # m
      OBVIOUS
    <3>2. m \in 0 .. m
      OBVIOUS
    <3> HIDE DEF N
    <3> QED
      BY <2>1, <3>1, <3>2
  <2>3. \A k \in 0 .. m : N(g, k) = N(f, k)
    <3> TAKE k \in 0 .. m
    <3>1. k # 0 => g[k - 1] = f[k - 1]
      <4>1. k # 0 => k - 1 \in 0 .. m - 1
        OBVIOUS
      <4> HIDE DEF g, N
      <4> QED
        BY <2>2, <4>1
    <3> QED
      BY <3>1 DEF StateAfter
  <2>4. \A k \in 0 .. m : g[k] = N(g, k)
    <3> TAKE k \in 0 .. m
    <3>1. k = m \/ k \in 0 .. m - 1
      OBVIOUS
    <3> HIDE DEF g, N
    <3> QED
      BY <2>2, <2>3, <3>1
  <2>5. Good(g, m)
    <3>1. g = [k \in 0 .. m |-> g[k]]
      OBVIOUS
    <3> HIDE DEF g, N
    <3> QED
      BY <2>4, <3>1
  <2>6. m \in 0 .. n
    OBVIOUS
  <2> HIDE DEF Good, g
  <2> QED
    BY <2>5, <2>6
<1>3. n \in 0 .. n /\ T \in SUBSET (0 .. n)
  OBVIOUS
<1>4. \E f : Good(f, n)
  <2>1. n \in T
    <3> HIDE DEF T
    <3> QED
      BY <1>1, <1>2, <1>3, UpTo
  <2> HIDE DEF Good
  <2> QED
    BY <2>1
<1> QED
  BY <1>4

(* The local variables of the loop after each event, and what is reported. *)
IsCheck(instance, head, chain, after) ==
  /\ after[0] = ChainStart(head, chain)
  /\ \A k \in 1 .. Len(chain) : after[k] = CheckEvent(instance, head, after[k - 1], chain[k])

Report(head, c) ==
  [problems |-> c.problems,
   head |-> IF c.last = Unseen THEN head
            ELSE [service |-> c.service, seq |-> c.last.seq, hash |-> c.last.hash,
                  ts |-> c.last.ts, closed |-> c.closed, ended |-> c.ended]]

LEMMA CheckIsReported ==
  ASSUME NEW instance, NEW head, NEW chain, Len(chain) \in Nat, chain # << >>
  PROVE  \E after : /\ IsCheck(instance, head, chain, after)
                    /\ CheckChain(instance, head, chain) = Report(head, after[Len(chain)])
<1> DEFINE after == CHOOSE f : f = [k \in 0 .. Len(chain) |-> StateAfter(instance, head, chain, f, k)]
<1>1. CheckChain(instance, head, chain) = Report(head, after[Len(chain)])
  BY DEF CheckChain, Report, StateAfter
<1>2. after = [k \in 0 .. Len(chain) |-> StateAfter(instance, head, chain, after, k)]
  <2> HIDE DEF StateAfter
  <2> QED
    BY StatesExist, SMTT(30)
<1> HIDE DEF after
<1>3. \A k \in 0 .. Len(chain) : after[k] = StateAfter(instance, head, chain, after, k)
  <2> HIDE DEF StateAfter
  <2> QED
    BY <1>2
<1>4. after[0] = ChainStart(head, chain)
  <2>1. 0 \in 0 .. Len(chain)
    OBVIOUS
  <2> QED
    BY <1>3, <2>1 DEF StateAfter
<1>5. \A k \in 1 .. Len(chain) : after[k] = CheckEvent(instance, head, after[k - 1], chain[k])
  <2> TAKE k \in 1 .. Len(chain)
  <2>1. k \in 0 .. Len(chain) /\ k # 0
    OBVIOUS
  <2> QED
    BY <1>3, <2>1 DEF StateAfter
<1> QED
  BY <1>1, <1>4, <1>5 DEF IsCheck

StateFields == {"service", "expected", "prev", "closed", "ended", "last", "problems"}

ChainKinds == {"bad_hash", "broken_link", "seq_gap", "seq_repeat", "no_start",
               "service_mismatch", "after_shutdown"}

(* What one event does to each local variable.                             *)
LEMMA EventChecked ==
  ASSUME NEW instance, NEW head, NEW c, NEW e, DOMAIN c = StateFields
  PROVE  LET d == CheckEvent(instance, head, c, e) IN
         /\ DOMAIN d = StateFields /\ d.service = c.service /\ c.problems \subseteq d.problems
         /\ LeftOut(c, e) # "no" =>
              /\ d.problems = c.problems \cup {ChainProblem(instance, e.seq, LeftOut(c, e))}
              /\ d.last = c.last /\ d.closed = c.closed /\ d.ended = c.ended
         /\ LeftOut(c, e) = "no" =>
              /\ d.problems = c.problems \cup
                   {ChainProblem(instance, e.seq, kind) : kind \in Faults(head, c, e)}
              /\ d.expected = e.seq + 1 /\ d.prev = e.hash /\ d.last = e
              /\ d.closed = (e.operation = "shutdown") /\ d.ended = (e.operation = "shutdown")
<1> DEFINE out == LeftOut(c, e)
           faults == {ChainProblem(instance, e.seq, kind) : kind \in Faults(head, c, e)}
           kept == c.problems \cup {ChainProblem(instance, e.seq, out)}
           taken == c.problems \cup faults
           d == CheckEvent(instance, head, c, e)
<1>1. CASE out # "no"
  <2>1. d = [c EXCEPT !.problems = kept]
    BY <1>1 DEF CheckEvent
  <2> HIDE DEF d, kept
  <2>2. /\ DOMAIN d = StateFields /\ d.service = c.service /\ d.problems = kept
        /\ d.last = c.last /\ d.closed = c.closed /\ d.ended = c.ended
    BY <2>1 DEF StateFields
  <2> QED
    BY <1>1, <2>2 DEF d, kept
<1>2. CASE out = "no"
  <2> DEFINE expected == e.seq + 1
             over == (e.operation = "shutdown")
  <2>1. d = [c EXCEPT !.problems = taken, !.expected = expected, !.prev = e.hash, !.last = e,
                      !.closed = over, !.ended = over]
    BY <1>2 DEF CheckEvent
  <2> HIDE DEF d, taken, expected, over
  <2>2. /\ DOMAIN d = StateFields /\ d.service = c.service /\ d.problems = taken
        /\ d.expected = expected /\ d.prev = e.hash /\ d.last = e
        /\ d.closed = over /\ d.ended = over
    BY <2>1 DEF StateFields
  <2> QED
    BY <1>2, <2>2 DEF d, taken, expected, over
<1> QED
  BY <1>1, <1>2

(* A head that stands at an event.                                         *)
HeadAt(e) ==
  [service |-> e.service, seq |-> e.seq, hash |-> e.hash, ts |-> e.ts,
   closed |-> (e.operation = "shutdown"), ended |-> (e.operation = "shutdown")]

(* Whatever the lines: the problems are about this chain, and its head     *)
(* stays where it was or goes to one of the events.                        *)
LEMMA CheckedTyped ==
  ASSUME NEW instance, NEW head, NEW chain, Len(chain) \in Nat,
         \A k \in 1 .. Len(chain) : chain[k].seq \in Nat
  PROVE  LET r == CheckChain(instance, head, chain) IN
         /\ \A p \in r.problems : p.instance = instance /\ p.kind \in ChainKinds
         /\ \/ r.head = head
            \/ \E m \in 1 .. Len(chain) : r.head = HeadAt(chain[m])
<1> DEFINE n == Len(chain)
           r == CheckChain(instance, head, chain)
           AboutIt(c) == \A p \in c.problems : p.instance = instance /\ p.kind \in ChainKinds
           AtEvent(c) == \E m \in 1 .. n :
                           /\ c.last = chain[m] /\ chain[m].service = c.service
                           /\ c.closed = (chain[m].operation = "shutdown")
                           /\ c.ended = (chain[m].operation = "shutdown")
           Good(c) == DOMAIN c = StateFields /\ AboutIt(c) /\ (c.last = Unseen \/ AtEvent(c))
<1>1. CASE chain = << >>
  BY <1>1 DEF CheckChain
<1>2. CASE chain # << >>
  <2>1. PICK after : IsCheck(instance, head, chain, after) /\ r = Report(head, after[n])
    BY <1>2, CheckIsReported
  <2> DEFINE T == {k \in 0 .. n : Good(after[k])}
  <2>2. 0 \in T
    <3>1. after[0] = ChainStart(head, chain)
      BY <2>1 DEF IsCheck
    <3>2. Good(after[0])
      BY <3>1 DEF ChainStart, StateFields
    <3> HIDE DEF Good
    <3> QED
      BY <3>2
  <2>3. ASSUME NEW k \in 1 .. n, k - 1 \in T
        PROVE  k \in T
    <3> DEFINE c == after[k - 1]
               d == after[k]
               e == chain[k]
    <3>1. d = CheckEvent(instance, head, c, e)
      BY <2>1 DEF IsCheck
    <3>2. Good(c)
      <4> HIDE DEF Good
      <4> QED
        BY <2>3
    <3> HIDE DEF c, d
    <3>3. DOMAIN d = StateFields /\ d.service = c.service
      BY <3>1, <3>2, EventChecked
    <3>4. CASE LeftOut(c, e) # "no"
      <4>1. /\ d.problems = c.problems \cup {ChainProblem(instance, e.seq, LeftOut(c, e))}
            /\ d.last = c.last /\ d.closed = c.closed /\ d.ended = c.ended
        BY <3>1, <3>2, <3>4, EventChecked
      <4>2. LeftOut(c, e) \in ChainKinds
        BY <3>4 DEF LeftOut, ChainKinds
      <4>3. AboutIt(d)
        BY <3>2, <4>1, <4>2 DEF ChainProblem
      <4>4. AtEvent(c) => AtEvent(d)
        BY <3>3, <4>1
      <4> HIDE DEF AboutIt, AtEvent
      <4> QED
        BY <3>2, <3>3, <4>1, <4>3, <4>4 DEF d
    <3>5. CASE LeftOut(c, e) = "no"
      <4>1. /\ d.problems = c.problems \cup
                 {ChainProblem(instance, e.seq, kind) : kind \in Faults(head, c, e)}
            /\ d.last = e
            /\ d.closed = (e.operation = "shutdown") /\ d.ended = (e.operation = "shutdown")
        BY <3>1, <3>2, <3>5, EventChecked
      <4>2. Faults(head, c, e) \subseteq ChainKinds
        BY DEF Faults, ChainKinds
      <4>3. AboutIt(d)
        BY <3>2, <4>1, <4>2 DEF ChainProblem
      <4>4. e.service = c.service
        BY <3>5 DEF LeftOut
      <4>5. AtEvent(d)
        BY <3>3, <4>1, <4>4
      <4> HIDE DEF AboutIt, AtEvent
      <4> QED
        BY <3>3, <4>3, <4>5 DEF d
    <3> QED
      BY <3>4, <3>5
  <2>4. Good(after[n])
    <3>1. n \in T
      <4>1. n \in Nat /\ T \in SUBSET (0 .. n) /\ n \in 0 .. n
        OBVIOUS
      <4> HIDE DEF T, n
      <4> QED
        BY <2>2, <2>3, <4>1, UpTo
    <3> HIDE DEF Good
    <3> QED
      BY <3>1
  <2>5. r.problems = after[n].problems
    BY <2>1 DEF Report
  <2>6. CASE after[n].last = Unseen
    <3>1. r.head = head
      BY <2>1, <2>6 DEF Report
    <3> QED
      BY <2>4, <2>5, <3>1
  <2>7. CASE after[n].last # Unseen
    <3>1. PICK m \in 1 .. n :
               /\ after[n].last = chain[m] /\ chain[m].service = after[n].service
               /\ after[n].closed = (chain[m].operation = "shutdown")
               /\ after[n].ended = (chain[m].operation = "shutdown")
      BY <2>4, <2>7
    <3>2. r.head = HeadAt(chain[m])
      BY <2>1, <2>7, <3>1 DEF Report, HeadAt
    <3> HIDE DEF AtEvent
    <3> QED
      BY <2>4, <2>5, <3>1, <3>2
  <2> QED
    BY <2>6, <2>7
<1> QED
  BY <1>1, <1>2


(* A chain without a problem goes on from its head one by one, intact, and *)
(* its new head stands at its last event.                                  *)
LEMMA CleanIsConsecutive ==
  ASSUME NEW instance, NEW head, head.seq \in Int, NEW chain, Len(chain) \in Nat,
         Len(chain) = 0 => chain = << >>,
         \A k \in 1 .. Len(chain) : chain[k].seq \in Nat,
         CheckChain(instance, head, chain).problems = {}
  PROVE  /\ \A k \in 1 .. Len(chain) : chain[k].seq = head.seq + k /\ chain[k].intact
         /\ CheckChain(instance, head, chain).head =
              IF Len(chain) = 0 THEN head ELSE HeadAt(chain[Len(chain)])
<1> DEFINE n == Len(chain)
           r == CheckChain(instance, head, chain)
<1>1. CASE chain = << >>
  BY <1>1 DEF CheckChain
<1>2. CASE chain # << >>
  <2>1. PICK after : IsCheck(instance, head, chain, after) /\ r = Report(head, after[n])
    BY <1>2, CheckIsReported
  <2> DEFINE F == {k \in 0 .. n : DOMAIN after[k] = StateFields}
             B == {k \in 0 .. n : after[n - k].problems = {}}
             U(k) == /\ after[k].expected = head.seq + k + 1
                     /\ k # 0 => /\ after[k].last = chain[k] /\ after[k].service = chain[k].service
                                 /\ after[k].closed = (chain[k].operation = "shutdown")
                                 /\ after[k].ended = (chain[k].operation = "shutdown")
                                 /\ chain[k].seq = head.seq + k /\ chain[k].intact
             G == {k \in 0 .. n : U(k)}
  <2>2. \A k \in 1 .. n : after[k] = CheckEvent(instance, head, after[k - 1], chain[k])
    BY <2>1 DEF IsCheck
  <2>3. after[0] = ChainStart(head, chain)
    BY <2>1 DEF IsCheck
  <2>4. \A k \in 0 .. n : DOMAIN after[k] = StateFields
    <3>1. 0 \in F
      <4>1. DOMAIN ChainStart(head, chain) = StateFields
        BY DEF ChainStart, StateFields
      <4> QED
        BY <2>3, <4>1
    <3>2. ASSUME NEW k \in 1 .. n, k - 1 \in F PROVE k \in F
      BY <2>2, <3>2, EventChecked
    <3>3. F \in SUBSET (0 .. n)
      OBVIOUS
    <3>4. \A k \in 0 .. n : k \in F
      <4> HIDE DEF F
      <4> QED
        BY <3>1, <3>2, <3>3, UpTo
    <3> QED
      BY <3>4
  <2>5. \A k \in 1 .. n : after[k - 1].problems \subseteq after[k].problems
    <3> TAKE k \in 1 .. n
    <3>1. k - 1 \in 0 .. n
      OBVIOUS
    <3> QED
      BY <2>2, <2>4, <3>1, EventChecked
  <2>6. \A k \in 0 .. n : after[k].problems = {}
    <3>1. 0 \in B
      <4>1. n - 0 = n /\ 0 \in 0 .. n
        OBVIOUS
      <4> QED
        BY <2>1, <4>1 DEF Report
    <3>2. ASSUME NEW k \in 1 .. n, k - 1 \in B PROVE k \in B
      <4>1. n - (k - 1) \in 1 .. n /\ n - (k - 1) - 1 = n - k /\ k \in 0 .. n
        OBVIOUS
      <4>2. after[n - (k - 1)].problems = {}
        BY <3>2
      <4>3. after[n - k].problems \subseteq after[n - (k - 1)].problems
        BY <2>5, <4>1
      <4> QED
        BY <4>1, <4>2, <4>3
    <3>3. B \in SUBSET (0 .. n)
      OBVIOUS
    <3>4. \A k \in 0 .. n : k \in B
      <4> HIDE DEF B
      <4> QED
        BY <3>1, <3>2, <3>3, UpTo
    <3> TAKE k \in 0 .. n
    <3>5. n - k \in 0 .. n /\ n - (n - k) = k
      OBVIOUS
    <3> QED
      BY <3>4, <3>5
  <2>7. 0 \in G
    <3>1. after[0].expected = head.seq + 1
      BY <2>3 DEF ChainStart
    <3>2. U(0) /\ 0 \in 0 .. n
      BY <3>1
    <3> QED
      BY <3>2
  <2>8. ASSUME NEW k \in 1 .. n, k - 1 \in G
        PROVE  k \in G
    <3> DEFINE c == after[k - 1]
               d == after[k]
               e == chain[k]
    <3>1. d = CheckEvent(instance, head, c, e) /\ DOMAIN c = StateFields
      BY <2>2, <2>4
    <3>2. d.problems = {} /\ k \in 0 .. n
      BY <2>6
    <3>3. c.expected = head.seq + k
      BY <2>8
    <3> HIDE DEF c, d
    <3>4. LeftOut(c, e) = "no"
      <4> SUFFICES ASSUME LeftOut(c, e) # "no" PROVE FALSE
        OBVIOUS
      <4>1. d.problems = c.problems \cup {ChainProblem(instance, e.seq, LeftOut(c, e))}
        BY <3>1, EventChecked
      <4> QED
        BY <3>2, <4>1
    <3>5. /\ d.problems = c.problems \cup
               {ChainProblem(instance, e.seq, kind) : kind \in Faults(head, c, e)}
          /\ d.expected = e.seq + 1 /\ d.last = e /\ d.service = c.service
          /\ d.closed = (e.operation = "shutdown") /\ d.ended = (e.operation = "shutdown")
      BY <3>1, <3>4, EventChecked
    <3>6. Faults(head, c, e) = {}
      BY <3>2, <3>5
    <3>7. e.seq = c.expected /\ e.intact
      BY <3>6 DEF Faults
    <3>8. e.service = c.service
      BY <3>4 DEF LeftOut
    <3>9. d.expected = head.seq + k + 1 /\ e.seq = head.seq + k
      BY <3>3, <3>5, <3>7
    <3>10. U(k)
      BY <3>5, <3>7, <3>8, <3>9 DEF d
    <3> HIDE DEF U
    <3> QED
      BY <3>2, <3>10
  <2>9. \A k \in 0 .. n : U(k)
    <3>1. G \in SUBSET (0 .. n)
      OBVIOUS
    <3>2. \A k \in 0 .. n : k \in G
      <4> HIDE DEF G
      <4> QED
        BY <2>7, <2>8, <3>1, UpTo
    <3> HIDE DEF U
    <3> QED
      BY <3>2
  <2>10. \A k \in 1 .. n : chain[k].seq = head.seq + k /\ chain[k].intact
    BY <2>9
  <2>11. n \in 1 .. n
    BY <1>2
  <2>12. r.head = HeadAt(chain[n])
    <3>1. /\ after[n].last = chain[n] /\ after[n].service = chain[n].service
          /\ after[n].closed = (chain[n].operation = "shutdown")
          /\ after[n].ended = (chain[n].operation = "shutdown")
      BY <2>9, <2>11
    <3>2. chain[n] # Unseen
      BY <2>11 DEF Unseen
    <3> QED
      BY <2>1, <3>1, <3>2 DEF Report, HeadAt
  <2> QED
    BY <2>10, <2>11, <2>12
<1> QED
  BY <1>1, <1>2


(* Events as an emitter writes them after the head: numbered and linked    *)
(* one by one, of one service, intact, and none after a shutdown.          *)
Linked(head, chain) ==
  \A k \in 1 .. Len(chain) :
    /\ chain[k].seq = head.seq + k /\ chain[k].intact
    /\ chain[k].prev_hash = IF k = 1 THEN head.hash ELSE chain[k - 1].hash
    /\ chain[k].service = IF head # NoHead THEN head.service ELSE chain[1].service
    /\ IF k = 1 THEN ~head.ended ELSE chain[k - 1].operation # "shutdown"

(* They raise no problem.                                                  *)
LEMMA ConsecutiveIsClean ==
  ASSUME NEW instance, NEW head, head.seq \in Int, head.seq >= -1, NEW chain, Len(chain) \in Nat,
         Linked(head, chain)
  PROVE  CheckChain(instance, head, chain).problems = {}
<1> DEFINE n == Len(chain)
           r == CheckChain(instance, head, chain)
           S == IF head # NoHead THEN head.service ELSE chain[1].service
           U(c, k) == /\ DOMAIN c = StateFields /\ c.problems = {} /\ c.service = S
                      /\ c.expected = head.seq + k + 1
                      /\ c.prev = IF k = 0 THEN head.hash ELSE chain[k].hash
                      /\ c.ended = IF k = 0 THEN head.ended ELSE (chain[k].operation = "shutdown")
                      /\ c.last = IF k = 0 THEN Unseen ELSE chain[k]
<1>1. CASE chain = << >>
  BY <1>1 DEF CheckChain
<1>2. CASE chain # << >>
  <2>1. PICK after : IsCheck(instance, head, chain, after) /\ r = Report(head, after[n])
    BY <1>2, CheckIsReported
  <2> DEFINE G == {k \in 0 .. n : U(after[k], k)}
  <2>2. 0 \in G
    <3>1. after[0] = ChainStart(head, chain)
      BY <2>1 DEF IsCheck
    <3>2. U(after[0], 0) /\ 0 \in 0 .. n
      BY <3>1 DEF ChainStart, StateFields
    <3> QED
      BY <3>2
  <2>3. ASSUME NEW k \in 1 .. n, k - 1 \in G
        PROVE  k \in G
    <3> DEFINE c == after[k - 1]
               d == after[k]
               e == chain[k]
    <3>1. d = CheckEvent(instance, head, c, e) /\ U(c, k - 1) /\ k \in 0 .. n
      BY <2>1, <2>3 DEF IsCheck
    <3> HIDE DEF c, d
    <3>2. /\ e.seq = head.seq + k /\ e.intact /\ e.service = S
          /\ e.prev_hash = IF k = 1 THEN head.hash ELSE chain[k - 1].hash
          /\ IF k = 1 THEN ~head.ended ELSE chain[k - 1].operation # "shutdown"
      BY DEF Linked
    <3>3. c.service = S /\ c.expected = head.seq + k /\ c.prev = e.prev_hash /\ ~c.ended
      <4>1. k - 1 = 0 <=> k = 1
        OBVIOUS
      <4>2. c.service = S /\ c.prev = e.prev_hash
        BY <3>1, <3>2, <4>1
      <4>3. head.seq + (k - 1) + 1 = head.seq + k
        OBVIOUS
      <4>4. c.expected = head.seq + k
        BY <3>1, <4>3
      <4>5. CASE k = 1
        <5>1. c.ended = head.ended /\ ~head.ended
          BY <3>1, <3>2, <4>1, <4>5
        <5> QED
          BY <4>2, <4>4, <5>1
      <4>6. CASE k # 1
        <5>1. c.ended = (chain[k - 1].operation = "shutdown") /\ chain[k - 1].operation # "shutdown"
          BY <3>1, <3>2, <4>1, <4>6
        <5> QED
          BY <4>2, <4>4, <5>1
      <4> QED
        BY <4>5, <4>6
    <3>4. e.seq # c.last.seq
      <4>1. CASE k = 1
        BY <3>1, <3>2, <4>1 DEF Unseen
      <4>2. CASE k # 1
        <5>1. k - 1 \in 1 .. n /\ k - 1 # 0
          BY <4>2
        <5>2. c.last = chain[k - 1] /\ chain[k - 1].seq = head.seq + (k - 1)
          BY <3>1, <5>1 DEF Linked
        <5> QED
          BY <3>2, <5>2
      <4> QED
        BY <4>1, <4>2
    <3>5. LeftOut(c, e) = "no" /\ Faults(head, c, e) = {}
      BY <3>2, <3>3, <3>4 DEF LeftOut, Faults
    <3>6. /\ DOMAIN d = StateFields /\ d.service = c.service
          /\ d.problems = c.problems \cup
               {ChainProblem(instance, e.seq, kind) : kind \in Faults(head, c, e)}
          /\ d.expected = e.seq + 1 /\ d.prev = e.hash /\ d.last = e
          /\ d.ended = (e.operation = "shutdown")
      BY <3>1, <3>5, EventChecked
    <3>7. d.problems = {}
      BY <3>1, <3>5, <3>6
    <3>8. d.expected = head.seq + k + 1 /\ k # 0
      BY <3>2, <3>6
    <3>9. U(d, k)
      <4> HIDE DEF S
      <4> QED
        BY <3>3, <3>6, <3>7, <3>8
    <3> HIDE DEF U
    <3> QED
      BY <3>1, <3>9 DEF d
  <2>4. n \in G
    <3>1. G \in SUBSET (0 .. n) /\ n \in 0 .. n
      OBVIOUS
    <3> HIDE DEF G
    <3> QED
      BY <2>2, <2>3, <3>1, UpTo
  <2>5. after[n].problems = {}
    BY <2>4
  <2> QED
    BY <2>1, <2>5 DEF Report
<1> QED
  BY <1>1, <1>2

-----------------------------------------------------------------------------
(* What Verify says of one chain: what its check says, and that it was     *)
(* silent for too long.                                                    *)
SaysOf(report, i, r, now, silence) ==
  /\ {p \in report.problems : p.instance = i} =
       r.problems \cup (IF Silent(r.head, now, silence)
                        THEN {ChainProblem(i, r.head.seq, "unterminated")} ELSE {})
  /\ report.heads[i] = IF Silent(r.head, now, silence) THEN ReportedHead(r.head) ELSE r.head

LEMMA OneChainOfVerify ==
  ASSUME NEW lines, NEW hs, NEW now, NEW silence, NEW i \in Instances, "?" \notin Instances,
         \A j \in Instances : \A p \in CheckChain(j, hs[j], ChainOf(lines, j)).problems :
           p.instance = j
  PROVE  SaysOf(Verify(lines, hs, now, silence), i, CheckChain(i, hs[i], ChainOf(lines, i)), now, silence)
<1> DEFINE checked == [j \in Instances |-> CheckChain(j, hs[j], ChainOf(lines, j))]
           quiet == {j \in Instances : Silent(checked[j].head, now, silence)}
           ofChains == UNION {checked[j].problems : j \in Instances}
           schema == {ChainProblem("?", 0, "schema") : k \in {n \in 1 .. Len(lines) : ~lines[n].readable}}
           ends == {ChainProblem(j, checked[j].head.seq, "unterminated") : j \in quiet}
           report == Verify(lines, hs, now, silence)
<1>1. /\ report.problems = ofChains \cup schema \cup ends
      /\ report.heads = [j \in Instances |-> IF j \in quiet THEN ReportedHead(checked[j].head)
                                             ELSE checked[j].head]
  BY Zenon DEF Verify
<1>2. \A j \in Instances : \A p \in checked[j].problems : p.instance = j
  OBVIOUS
<1>3. \A p \in schema : p.instance = "?"
  BY DEF ChainProblem
<1>4. \A p \in ends : \E j \in quiet : p = ChainProblem(j, checked[j].head.seq, "unterminated") /\ p.instance = j
  BY DEF ChainProblem
<1>5. \A j \in quiet : ChainProblem(j, checked[j].head.seq, "unterminated") \in ends
  OBVIOUS
<1>6. i \in quiet <=> Silent(checked[i].head, now, silence)
  OBVIOUS
<1>7. ChainProblem(i, checked[i].head.seq, "unterminated").instance = i
  BY DEF ChainProblem
<1>8. checked[i] = CheckChain(i, hs[i], ChainOf(lines, i))
  OBVIOUS
<1> HIDE DEF checked, schema, ends, report
<1>9. {p \in report.problems : p.instance = i} =
        checked[i].problems
          \cup (IF i \in quiet THEN {ChainProblem(i, checked[i].head.seq, "unterminated")} ELSE {})
  <2> HIDE DEF quiet
  <2>1. ASSUME NEW p \in report.problems, p.instance = i
        PROVE  \/ p \in checked[i].problems
               \/ i \in quiet /\ p = ChainProblem(i, checked[i].head.seq, "unterminated")
    <3>1. CASE p \in ofChains
      BY <1>2, <2>1, <3>1
    <3>2. CASE p \in ends
      BY <1>4, <2>1, <3>2
    <3>3. p \notin schema
      BY <1>3, <2>1
    <3> QED
      BY <1>1, <3>1, <3>2, <3>3
  <2>2. checked[i].problems \subseteq report.problems
    BY <1>1
  <2>3. i \in quiet => ChainProblem(i, checked[i].head.seq, "unterminated") \in report.problems
    BY <1>1, <1>5
  <2> HIDE DEF ofChains
  <2> QED
    BY <1>2, <1>7, <2>1, <2>2, <2>3
<1>10. report.heads[i] = IF i \in quiet THEN ReportedHead(checked[i].head) ELSE checked[i].head
  BY <1>1
<1> QED
  BY <1>6, <1>8, <1>9, <1>10 DEF report, SaysOf


(* Where its problems come from, all chains taken together.                *)
ComesFrom(report, lines, hs, now, silence) ==
  /\ \A p \in report.problems :
       \/ \E i \in Instances : p \in CheckChain(i, hs[i], ChainOf(lines, i)).problems
       \/ p.kind = "schema" /\ \E n \in 1 .. Len(lines) : ~lines[n].readable
       \/ /\ p.kind = "unterminated"
          /\ \E i \in Instances : Silent(CheckChain(i, hs[i], ChainOf(lines, i)).head, now, silence)
  /\ \A n \in 1 .. Len(lines) : ~lines[n].readable => report.problems # {}
  /\ report.heads = [i \in Instances |-> report.heads[i]]

LEMMA ProblemsOfVerify ==
  ASSUME NEW lines, NEW hs, NEW now, NEW silence
  PROVE  ComesFrom(Verify(lines, hs, now, silence), lines, hs, now, silence)
<1> DEFINE checked == [j \in Instances |-> CheckChain(j, hs[j], ChainOf(lines, j))]
           quiet == {j \in Instances : Silent(checked[j].head, now, silence)}
           ofChains == UNION {checked[j].problems : j \in Instances}
           schema == {ChainProblem("?", 0, "schema") : k \in {n \in 1 .. Len(lines) : ~lines[n].readable}}
           ends == {ChainProblem(j, checked[j].head.seq, "unterminated") : j \in quiet}
           headOf(j) == IF j \in quiet THEN ReportedHead(checked[j].head) ELSE checked[j].head
           report == Verify(lines, hs, now, silence)
<1>1. report.problems = ofChains \cup schema \cup ends /\ report.heads = [j \in Instances |-> headOf(j)]
  BY DEF Verify
<1>2. \A p \in ofChains : \E j \in Instances : p \in CheckChain(j, hs[j], ChainOf(lines, j)).problems
  OBVIOUS
<1>3. \A p \in schema : p.kind = "schema" /\ \E n \in 1 .. Len(lines) : ~lines[n].readable
  <2> SUFFICES ASSUME NEW p \in schema
               PROVE  p.kind = "schema" /\ \E n \in 1 .. Len(lines) : ~lines[n].readable
    OBVIOUS
  <2>1. PICK n \in 1 .. Len(lines) : ~lines[n].readable /\ p = ChainProblem("?", 0, "schema")
    OBVIOUS
  <2> QED
    BY <2>1 DEF ChainProblem
<1>4. \A p \in ends :
        /\ p.kind = "unterminated"
        /\ \E j \in Instances : Silent(CheckChain(j, hs[j], ChainOf(lines, j)).head, now, silence)
  <2> SUFFICES ASSUME NEW p \in ends
               PROVE  /\ p.kind = "unterminated"
                      /\ \E j \in Instances :
                           Silent(CheckChain(j, hs[j], ChainOf(lines, j)).head, now, silence)
    OBVIOUS
  <2>1. PICK j \in quiet : p = ChainProblem(j, checked[j].head.seq, "unterminated")
    OBVIOUS
  <2>2. j \in Instances /\ Silent(checked[j].head, now, silence)
    OBVIOUS
  <2>3. checked[j] = CheckChain(j, hs[j], ChainOf(lines, j))
    BY <2>2
  <2> HIDE DEF ends, checked, quiet
  <2>4. p.kind = "unterminated"
    BY <2>1 DEF ChainProblem
  <2> QED
    BY <2>2, <2>3, <2>4
<1>5. ASSUME NEW n \in 1 .. Len(lines), ~lines[n].readable
      PROVE  schema # {}
  BY <1>5
<1> HIDE DEF headOf, ofChains, schema, ends, report
<1>6. report.heads = [i \in Instances |-> report.heads[i]]
  BY <1>1
<1>7. \A n \in 1 .. Len(lines) : ~lines[n].readable => report.problems # {}
  BY <1>1, <1>5
<1> QED
  BY <1>1, <1>2, <1>3, <1>4, <1>6, <1>7 DEF report, ComesFrom


-----------------------------------------------------------------------------
(* The lines of a chain that lacks nothing: n events, each once, in any    *)
(* order, linked from Genesis on and with nothing after a shutdown.        *)
Whole(lines, instance, n) ==
  LET events == ByInstance(lines, instance) IN
  /\ EachOnce(lines, instance, 0, n)
  /\ \A k \in events : lines[k].intact /\ lines[k].ts \in Nat
  /\ \A k \in events : lines[k].seq = 0 => lines[k].prev_hash = Genesis
  /\ \A k, l \in events : lines[k].service = lines[l].service
  /\ \A k, l \in events : lines[k].seq = lines[l].seq + 1 =>
       lines[k].prev_hash = lines[l].hash /\ lines[l].operation # "shutdown"

LEMMA WholeChainIsClean ==
  ASSUME NEW lines, Len(lines) \in Nat, NEW instance, NEW n \in Nat, Whole(lines, instance, n)
  PROVE  LET r == CheckChain(instance, NoHead, ChainOf(lines, instance)) IN
         r.problems = {} /\ r.head.ts \in Nat
<1> DEFINE chain == ChainOf(lines, instance)
           events == ByInstance(lines, instance)
<1>1. EachOnce(lines, instance, 0, n)
  BY DEF Whole
<1>2. /\ Len(chain) = n /\ DOMAIN chain = 1 .. n
      /\ \A k \in 1 .. n : chain[k].seq = k - 1 /\ \E l \in events : chain[k] = lines[l]
  <2>1. /\ Len(chain) = n - 0 /\ DOMAIN chain = 1 .. n - 0
        /\ \A k \in 1 .. n - 0 : chain[k].seq = 0 + k - 1 /\ \E l \in events : chain[k] = lines[l]
    BY <1>1, OrderOfEachOnce
  <2> HIDE DEF chain, events
  <2>2. n - 0 = n /\ \A k \in 1 .. n : 0 + k - 1 = k - 1
    OBVIOUS
  <2> QED
    BY <2>1, <2>2
<1>3. /\ \A k \in events : lines[k].intact /\ lines[k].ts \in Nat
      /\ \A k \in events : lines[k].seq = 0 => lines[k].prev_hash = Genesis
      /\ \A k, l \in events : lines[k].service = lines[l].service
      /\ \A k, l \in events : lines[k].seq = lines[l].seq + 1 =>
           lines[k].prev_hash = lines[l].hash /\ lines[l].operation # "shutdown"
  BY DEF Whole
<1>4. NoHead.seq = -1 /\ NoHead.hash = Genesis /\ NoHead.ended = FALSE /\ NoHead.ts = 0
  BY Zenon DEF NoHead
<1> HIDE DEF chain, events
<1>5. ASSUME NEW k \in 1 .. Len(chain)
      PROVE  /\ chain[k].seq = NoHead.seq + k /\ chain[k].intact
             /\ chain[k].prev_hash = IF k = 1 THEN NoHead.hash ELSE chain[k - 1].hash
             /\ chain[k].service = IF NoHead # NoHead THEN NoHead.service ELSE chain[1].service
             /\ IF k = 1 THEN ~NoHead.ended ELSE chain[k - 1].operation # "shutdown"
  <2>1. k \in 1 .. n /\ 1 \in 1 .. n
    BY <1>2
  <2>2. PICK l \in events : chain[k] = lines[l]
    BY <1>2, <2>1
  <2>3. PICK f \in events : chain[1] = lines[f]
    BY <1>2, <2>1
  <2>4. chain[k].seq = k - 1 /\ chain[k].seq = NoHead.seq + k
    BY <1>2, <1>4, <2>1
  <2>5. chain[k].intact /\ chain[k].service = chain[1].service
    BY <1>3, <2>2, <2>3
  <2>6. CASE k = 1
    <3>1. chain[k].prev_hash = Genesis
      BY <1>3, <2>2, <2>4, <2>6
    <3> QED
      BY <1>4, <2>4, <2>5, <2>6, <3>1
  <2>7. CASE k # 1
    <3>1. k - 1 \in 1 .. n
      BY <2>1, <2>7
    <3>2. PICK m \in events : chain[k - 1] = lines[m]
      BY <1>2, <3>1
    <3>3. lines[l].seq = lines[m].seq + 1
      <4>1. chain[k - 1].seq = (k - 1) - 1
        BY <1>2, <3>1
      <4>2. ((k - 1) - 1) + 1 = k - 1
        BY <2>1
      <4> QED
        BY <2>2, <2>4, <3>2, <4>1, <4>2
    <3>4. chain[k].prev_hash = chain[k - 1].hash /\ chain[k - 1].operation # "shutdown"
      BY <1>3, <2>2, <3>2, <3>3
    <3> QED
      BY <2>4, <2>5, <2>7, <3>4
  <2> QED
    BY <2>6, <2>7
<1>6. CheckChain(instance, NoHead, chain).problems = {}
  <2>1. Linked(NoHead, chain)
    BY <1>5 DEF Linked
  <2>2. Len(chain) \in Nat /\ NoHead.seq \in Int /\ NoHead.seq >= -1
    BY <1>2, <1>4
  <2> QED
    BY <2>1, <2>2, ConsecutiveIsClean
<1>7. CheckChain(instance, NoHead, chain).head.ts \in Nat
  <2>1. Len(chain) \in Nat /\ \A k \in 1 .. Len(chain) : chain[k].seq \in Nat
    BY <1>2
  <2>2. \/ CheckChain(instance, NoHead, chain).head = NoHead
        \/ \E m \in 1 .. Len(chain) : CheckChain(instance, NoHead, chain).head = HeadAt(chain[m])
    BY <2>1, CheckedTyped
  <2>3. \A m \in 1 .. Len(chain) : HeadAt(chain[m]).ts \in Nat
    BY <1>2, <1>3 DEF HeadAt
  <2> QED
    BY <1>4, <2>2, <2>3
<1> QED
  BY <1>6, <1>7 DEF chain

(* A log of whole chains, every line of it readable, passes verify_chain,  *)
(* however the lines of the chains are mixed.                              *)
THEOREM WholeLogPasses ==
  ASSUME NEW lines, Len(lines) \in Nat, NEW silence \in Nat,
         \A k \in 1 .. Len(lines) : lines[k].readable,
         \A i \in Instances : \E n \in Nat : Whole(lines, i, n)
  PROVE  Verify(lines, NoHeads, 0, silence).problems = {}
<1> DEFINE report == Verify(lines, NoHeads, 0, silence)
<1>1. ComesFrom(report, lines, NoHeads, 0, silence)
  BY ProblemsOfVerify
<1>2. ASSUME NEW i \in Instances
      PROVE  /\ CheckChain(i, NoHeads[i], ChainOf(lines, i)).problems = {}
             /\ ~Silent(CheckChain(i, NoHeads[i], ChainOf(lines, i)).head, 0, silence)
  <2>1. NoHeads[i] = NoHead
    BY Zenon DEF NoHeads
  <2>2. /\ CheckChain(i, NoHead, ChainOf(lines, i)).problems = {}
        /\ CheckChain(i, NoHead, ChainOf(lines, i)).head.ts \in Nat
    BY WholeChainIsClean
  <2>3. ~(0 - CheckChain(i, NoHead, ChainOf(lines, i)).head.ts > silence)
    BY <2>2
  <2> QED
    BY <2>1, <2>2, <2>3, Zenon DEF Silent
<1> HIDE DEF report
<1>3. \A p \in report.problems : FALSE
  BY <1>1, <1>2, Zenon DEF ComesFrom
<1> QED
  BY <1>3 DEF report

(* A line that cannot be read is told.                                     *)
LEMMA UnreadableIsTold ==
  ASSUME NEW lines, NEW hs, NEW now, NEW silence, NEW n \in 1 .. Len(lines), ~lines[n].readable
  PROVE  Verify(lines, hs, now, silence).problems # {}
<1>1. ComesFrom(Verify(lines, hs, now, silence), lines, hs, now, silence)
  BY ProblemsOfVerify
<1> QED
  BY <1>1, Zenon DEF ComesFrom

=============================================================================
