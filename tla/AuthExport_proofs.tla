-------------------------- MODULE AuthExport_proofs --------------------------
(***************************************************************************)
(* The export skips no row and implements its ledger, for every batch and  *)
(* round size and any number of attempts, databases, restores and faults.  *)
(***************************************************************************)
EXTENDS AuthExport, SequenceTheorems, TLAPS

(* What a query returns: the next rows of the file it reads, at most limit. *)
LEMMA NewAttemptsSpec ==
  ASSUME TypeOK, NEW after \in Nat, NEW limit \in Nat
  PROVE  /\ NewAttempts(after, limit) \in Seq(Rows)
         /\ Len(NewAttempts(after, limit)) <= limit
         /\ NewAttempts(after, limit) # << >> => after + Len(NewAttempts(after, limit)) <= Len(Seen.rows)
         /\ \A k \in 1 .. Len(NewAttempts(after, limit)) :
              /\ NewAttempts(after, limit)[k].id = after + k
              /\ NewAttempts(after, limit)[k].row = Seen.rows[after + k]
<1> DEFINE n == Least(Len(Seen.rows), after + limit) - after
           rows == NewAttempts(after, limit)
<1>1. Seen \in Databases /\ Len(Seen.rows) \in Nat /\ Seen.rows \in Seq(1 .. MaxLogins)
  BY DEF TypeOK, Seen, Databases
<1>2. n \in Int /\ n <= limit /\ after + n <= Len(Seen.rows)
  BY <1>1 DEF Least
<1>3. rows = [k \in 1 .. n |-> [id |-> after + k, row |-> Seen.rows[after + k]]]
  BY DEF NewAttempts
<1> HIDE DEF rows, n
<1>4. \A k \in 1 .. n : [id |-> after + k, row |-> Seen.rows[after + k]] \in Rows
  <2> SUFFICES ASSUME NEW k \in 1 .. n
               PROVE  [id |-> after + k, row |-> Seen.rows[after + k]] \in Rows
    OBVIOUS
  <2>1. after + k \in 1 .. Len(Seen.rows)
    BY <1>1, <1>2
  <2>2. Seen.rows[after + k] \in 1 .. MaxLogins
    BY <1>1, <2>1, ElementOfSeq
  <2> QED
    BY <2>1, <2>2 DEF Rows
<1>5. CASE n <= 0
  <2>1. 1 .. n = 1 .. 0
    BY <1>2, <1>5
  <2>2. rows = << >>
    BY <1>3, <2>1
  <2> QED
    BY <2>2 DEF rows
<1>6. CASE n > 0
  <2>1. n \in Nat
    BY <1>2, <1>6
  <2>2. rows \in [1 .. n -> Rows]
    BY <1>3, <1>4
  <2>3. rows \in Seq(Rows) /\ Len(rows) = n
    BY <2>1, <2>2
  <2>4. \A k \in 1 .. n : rows[k].id = after + k /\ rows[k].row = Seen.rows[after + k]
    BY <1>3
  <2> QED
    BY <1>2, <2>3, <2>4 DEF rows
<1> QED
  BY <1>2, <1>5, <1>6

-----------------------------------------------------------------------------
(* Type correctness.                                                       *)

LEMMA PositionsTyped ==
  ASSUME TypeOK
  PROVE  /\ Seen \in Databases
         /\ AdoptedPosition \in ExportState
         /\ RewoundPosition \in ExportState
         /\ batch # << >> => /\ Head(batch) \in Rows
                             /\ Tail(batch) \in Seq(Rows)
                             /\ RowPosition \in ExportState
<1>1. Seen \in Databases
  BY DEF TypeOK, Seen
<1>2. AdoptedPosition \in ExportState /\ RewoundPosition \in ExportState
  BY <1>1 DEF TypeOK, AdoptedPosition, RewoundPosition, ExportState, Databases
<1>3. ASSUME batch # << >>
      PROVE  Head(batch) \in Rows /\ Tail(batch) \in Seq(Rows)
  BY <1>3, HeadTailProperties DEF TypeOK, Rows
<1>4. ASSUME batch # << >>
      PROVE  RowPosition \in ExportState
  BY <1>3, <1>4 DEF TypeOK, RowPosition, ExportState, Rows
<1> QED
  BY <1>1, <1>2, <1>3, <1>4

LEMMA EventsTyped ==
  /\ \A n \in Nat : ConfigEvent(n) \in Ledger!Events /\ RewindEvent(n) \in Ledger!Events
  /\ \A r \in Rows : AuthEvent(r) \in Ledger!Events
  BY DEF ConfigEvent, RewindEvent, AuthEvent, Ledger!ConfigEvent, Ledger!RewindEvent,
         Ledger!AuthEvent, Ledger!Event, Ledger!Events, Rows

LEMMA BoundsTyped ==
  /\ BatchRows \in Nat /\ RoundRows \in Nat /\ MaxLogins \in Nat
  /\ MaxInstances \in Nat /\ MaxRestores \in Nat /\ MaxFaults \in Nat
  BY RowsAssumption, BoundsAssumption

LEMMA StartTyped ==
  Absent \in Databases /\ Start0 \in ExportState /\ << >> \in Seq(Rows) /\ 0 \in Nat
<1>1. << >> \in Seq(1 .. MaxLogins) /\ << >> \in Seq(Rows)
  OBVIOUS
<1>2. 0 \in Nat /\ 0 \in 0 .. MaxInstances
  BY BoundsTyped
<1>3. Absent \in Databases
  BY <1>1, <1>2 DEF Absent, Databases
<1>4. Start0 \in ExportState
  BY <1>2 DEF Start0, ExportState
<1> QED
  BY <1>1, <1>2, <1>3, <1>4

(* Rows in hand belong to a step between the query and the saved position. *)
BatchInHand == pc \in {"emit", "save"} => batch # << >>

LEMMA TypeInit == Init => TypeOK /\ BatchInHand
<1> SUFFICES ASSUME Init
             PROVE  TypeOK /\ BatchInHand
  OBVIOUS
<1>1. FlagsTyped
  BY Zenon DEF Init, FlagsTyped
<1> QED
  BY <1>1, StartTyped, BoundsTyped DEF Init, TypeOK, BatchInHand

(* The three flags, apart from the rest: they need no arithmetic.          *)
LEMMA FlagsStep == FlagsTyped /\ [Next]_vars => FlagsTyped'
<1> SUFFICES ASSUME FlagsTyped, [Next]_vars
             PROVE  FlagsTyped'
  OBVIOUS
<1>1. restored' \in BOOLEAN
  BY Zenon DEF FlagsTyped, Next, ExporterStep, Environment, StartUp, NotReady, Open, Adopt, Resume,
     Rewind, SaveRewind, Fetch, FetchNoMore, EmitRow, SaveRow, Stopped, Unreadable, Sigterm,
     Crash, SaveFails, Compared, CreateDatabase, LogIn, DeleteDatabase, TakeBackup,
     RestoreBackup, vars, environment
<1>2. stop' \in BOOLEAN
  BY Zenon DEF FlagsTyped, Next, ExporterStep, Environment, StartUp, NotReady, Open, Adopt, Resume,
     Rewind, SaveRewind, Fetch, FetchNoMore, EmitRow, SaveRow, Stopped, Unreadable, Sigterm,
     Crash, SaveFails, Down, CreateDatabase, LogIn, DeleteDatabase, TakeBackup,
     RestoreBackup, vars, Exporter
<1>3. Fetch => short' \in BOOLEAN
  <2>1. EndRound => short' \in BOOLEAN
    BY Zenon DEF EndRound
  <2>2. (Len(NewAttempts(mem.last_id, Limit)) < Limit) \in BOOLEAN
    OBVIOUS
  <2> QED
    BY <2>1, <2>2, Zenon DEF Fetch
<1>4. short' \in BOOLEAN
  BY <1>3, Zenon DEF FlagsTyped, Next, ExporterStep, Environment, StartUp, NotReady, Open, Adopt,
     Resume, Rewind, SaveRewind, FetchNoMore, EmitRow, SaveRow, Stopped, Unreadable, Sigterm,
     Crash, SaveFails, Down, EndRound, CreateDatabase, LogIn, DeleteDatabase, TakeBackup,
     RestoreBackup, vars, round, Exporter
<1> QED
  BY <1>1, <1>2, <1>4 DEF FlagsTyped

(* What the steps of the exporter leave well typed.                        *)
LEMMA TypeExporterStep ==
  ASSUME TypeOK, BatchInHand, FlagsTyped', ExporterStep \/ NotReady \/ Unreadable \/ Sigterm \/ Crash \/ SaveFails
  PROVE  TypeOK' /\ BatchInHand'
<1> USE DEF environment, round
<1>1. CASE StartUp
  <2>1. ConfigEvent(disk.last_id) \in Ledger!Events
    BY EventsTyped DEF TypeOK, ExportState
  <2> QED
    BY <1>1, <2>1 DEF StartUp, TypeOK, BatchInHand
<1>2. CASE Open
  BY <1>2 DEF Open, TypeOK, Databases, BatchInHand
<1>3. CASE Adopt
  BY <1>3, PositionsTyped DEF Adopt, Save, Compared, TypeOK, BatchInHand
<1>4. CASE Resume
  BY <1>4 DEF Resume, Compared, TypeOK, BatchInHand
<1>5. CASE Rewind
  <2>1. RewindEvent(mem.last_id) \in Ledger!Events
    BY EventsTyped DEF TypeOK, ExportState
  <2> QED
    BY <1>5, <2>1 DEF Rewind, TypeOK, BatchInHand
<1>6. CASE SaveRewind
  BY <1>6, PositionsTyped DEF SaveRewind, Save, Compared, TypeOK, BatchInHand
<1>7. CASE Fetch
  <2> DEFINE rows == NewAttempts(mem.last_id, Limit)
  <2>1. Limit \in Nat /\ mem.last_id \in Nat
    BY <1>7, StartTyped, BoundsTyped DEF Fetch, Limit, Least, TypeOK, ExportState
  <2>2. rows \in Seq(Rows)
    BY <2>1, NewAttemptsSpec
  <2>3. CASE rows = << >>
    BY <1>7, <2>3, StartTyped, BoundsTyped DEF Fetch, EndRound, TypeOK, BatchInHand
  <2>4. CASE rows # << >>
    BY <1>7, <2>2, <2>4 DEF Fetch, TypeOK, BatchInHand, Rows
  <2> QED
    BY <2>3, <2>4
<1>8. CASE FetchNoMore
  BY <1>8, StartTyped, BoundsTyped DEF FetchNoMore, EndRound, TypeOK, BatchInHand
<1>9. CASE EmitRow
  <2>1. AuthEvent(Head(batch)) \in Ledger!Events
    BY <1>9, EventsTyped, PositionsTyped DEF EmitRow, BatchInHand
  <2> QED
    BY <1>9, <2>1 DEF EmitRow, TypeOK, BatchInHand
<1>10. CASE SaveRow
  <2>1. RowPosition \in ExportState /\ Tail(batch) \in Seq(Rows)
    BY <1>10, PositionsTyped DEF SaveRow, BatchInHand
  <2>2. CASE stop \/ (Tail(batch) = << >> /\ short)
    <3>1. /\ UNCHANGED <<environment, trail, faults>>
          /\ mem' \in ExportState /\ disk' \in ExportState
          /\ pc' = "poll" /\ conn' = "closed" /\ orphan' = Absent /\ ident' = 0
          /\ batch' = << >> /\ exported' = 0
      BY <1>10, <2>1, <2>2 DEF SaveRow, Save, EndRound
    <3> QED
      BY <3>1, StartTyped, BoundsTyped DEF TypeOK, BatchInHand
  <2>3. CASE ~stop /\ ~(Tail(batch) = << >> /\ short)
    <3>1. /\ batch' = Tail(batch) /\ exported' = exported + 1
          /\ pc' = IF Tail(batch) = << >> THEN "fetch" ELSE "emit"
          /\ UNCHANGED <<conn, orphan, ident>>
      BY <1>10, <2>3, Zenon DEF SaveRow, EndRound
    <3>2. UNCHANGED <<environment, trail, faults>>
      BY <1>10, Zenon DEF SaveRow
    <3>3. mem' \in ExportState /\ disk' \in ExportState
      BY <1>10, <2>1, Zenon DEF SaveRow, Save
    <3>4. exported' \in Nat
      BY <3>1 DEF TypeOK
    <3> QED
      BY <2>1, <3>1, <3>2, <3>3, <3>4 DEF TypeOK, BatchInHand
  <2> QED
    BY <2>2, <2>3
<1>11. CASE Stopped
  BY <1>11, StartTyped, BoundsTyped DEF Stopped, Down, TypeOK, BatchInHand
<1>12. CASE NotReady
  BY <1>12 DEF NotReady, vars, TypeOK, BatchInHand
<1>13. CASE Unreadable
  BY <1>13, StartTyped, BoundsTyped DEF Unreadable, EndRound, TypeOK, BatchInHand
<1>14. CASE Sigterm
  BY <1>14, StartTyped, BoundsTyped DEF Sigterm, TypeOK, BatchInHand
<1>15. CASE Crash
  BY <1>15, StartTyped, BoundsTyped DEF Crash, Down, TypeOK, BatchInHand
<1>16. CASE SaveFails
  <2>1. disk' \in ExportState
    BY <1>16, PositionsTyped DEF SaveFails, BatchInHand, TypeOK
  <2> QED
    BY <1>16, <2>1, StartTyped, BoundsTyped
       DEF SaveFails, Down, TypeOK, BatchInHand
<1> QED
  BY <1>1, <1>2, <1>3, <1>4, <1>5, <1>6, <1>7, <1>8, <1>9, <1>10, <1>11, <1>12, <1>13, <1>14,
     <1>15, <1>16 DEF ExporterStep

LEMMA TypeEnvironment ==
  ASSUME TypeOK, BatchInHand, FlagsTyped', Environment
  PROVE  TypeOK' /\ BatchInHand'
<1> USE DEF Exporter
<1>1. CASE CreateDatabase
  BY <1>1, StartTyped, BoundsTyped DEF CreateDatabase, TypeOK, BatchInHand, Databases
<1>2. CASE LogIn
  <2>1. logins + 1 \in 1 .. MaxLogins
    BY <1>2, BoundsTyped, SMTT(30) DEF LogIn, TypeOK
  <2>4. db.rows \in Seq(1 .. MaxLogins) /\ db.inst \in 0 .. MaxInstances
    BY DEF TypeOK, Databases
  <2>2. Append(db.rows, logins + 1) \in Seq(1 .. MaxLogins)
    BY <2>1, <2>4
  <2>3. db' \in Databases
    BY <1>2, <2>2, <2>4 DEF LogIn, Databases, TypeOK
  <2> QED
    BY <1>2, <2>1, <2>3, StartTyped, BoundsTyped DEF LogIn, TypeOK, BatchInHand
<1>3. CASE DeleteDatabase
  BY <1>3, StartTyped, BoundsTyped DEF DeleteDatabase, Detach, TypeOK, BatchInHand
<1>4. CASE TakeBackup
  BY <1>4 DEF TakeBackup, TypeOK, BatchInHand
<1>5. CASE RestoreBackup
  BY <1>5, StartTyped, BoundsTyped DEF RestoreBackup, Detach, TypeOK, BatchInHand
<1> QED
  BY <1>1, <1>2, <1>3, <1>4, <1>5 DEF Environment

LEMMA TypeStep == TypeOK /\ BatchInHand /\ [Next]_vars => TypeOK' /\ BatchInHand'
<1>1. ASSUME TypeOK, BatchInHand, UNCHANGED vars
      PROVE  TypeOK' /\ BatchInHand'
  BY <1>1 DEF vars, environment, round, TypeOK, FlagsTyped, BatchInHand
<1> QED
  BY <1>1, FlagsStep, TypeExporterStep, TypeEnvironment DEF Next, TypeOK

(* Every variable of the export keeps its type, whatever happens to it.    *)
THEOREM ExportTypeCorrect == Spec => []TypeOK
  BY TypeInit, TypeStep, PTL DEF Spec

-----------------------------------------------------------------------------
(* The shape of a round, and the event before the position.                *)

LEMMA AppendLast ==
  ASSUME TypeOK, NEW e, trail' = Append(trail, e)
  PROVE  trail' # << >> /\ trail'[Len(trail')] = e
  BY DEF TypeOK

LEMMA BatchTail ==
  ASSUME TypeOK, batch # << >>
  PROVE  /\ Head(batch) = batch[1]
         /\ Len(batch) \in Nat \ {0}
         /\ Len(Tail(batch)) = Len(batch) - 1
         /\ \A k \in 1 .. Len(Tail(batch)) : Tail(batch)[k] = batch[k + 1]
  BY DEF TypeOK

(* A round that ends, and a process that ends, leave nothing in hand.      *)
LEMMA EndKeepsShape ==
  ASSUME ShapeInv, trail' = trail,
         \/ EndRound /\ Ledger!Settled' /\ mem' = disk' /\ pc # "down"
         \/ Down,
         disk'.database = 0 => disk'.last_id = 0
  PROVE  ExporterShape' /\ EventFirst' /\ BatchFollows'
<1>1. batch' = << >> /\ conn' = "closed" /\ orphan' = Absent /\ pc' \in {"down", "poll"}
  BY DEF EndRound, Down
<1>2. ExporterShape'
  BY <1>1 DEF ExporterShape, EndRound, Down
<1>3. EventFirst'
  BY <1>1 DEF ShapeInv, EventFirst, EndRound, Down
<1>4. BatchFollows'
  BY <1>1 DEF BatchFollows
<1> QED
  BY <1>2, <1>3, <1>4

(* Within a round there is a database to read.                             *)
LEMMA SeenExists ==
  ASSUME ShapeInv, pc \notin {"down", "poll"}
  PROVE  Seen.inst # 0 /\ ident # 0 /\ mem = disk
  BY DEF ShapeInv, TypeOK, ExporterShape, Seen

LEMMA ShapeExporterStep ==
  ASSUME ShapeInv, ExporterStep
  PROVE  ExporterShape' /\ EventFirst' /\ BatchFollows'
<1> USE DEF environment, round
<1>0. TypeOK /\ disk \in ExportState /\ disk.last_id \in Nat
  BY DEF ShapeInv, TypeOK, ExportState
<1>1. CASE StartUp
  <2>1. trail' # << >> /\ trail'[Len(trail')] = ConfigEvent(disk.last_id)
    BY <1>0, <1>1, AppendLast DEF StartUp
  <2>2. Ledger!Settled'
    BY <1>1, <2>1 DEF StartUp, Ledger!Settled, Ledger!LastEvent, Ledger!PositionAfter,
                      ConfigEvent, Ledger!ConfigEvent, Ledger!Event
  <2> QED
    BY <1>1, <2>1, <2>2 DEF StartUp, ShapeInv, ExporterShape, EventFirst, BatchFollows
<1>2. CASE Open
  BY <1>2 DEF Open, ShapeInv, ExporterShape, EventFirst, BatchFollows, Ledger!Settled,
              Ledger!LastEvent
<1>3. CASE Adopt
  <2>1. /\ disk' = [database |-> ident, last_id |-> disk.last_id] /\ mem' = disk'
        /\ ident # 0
        /\ pc = "reconcile" /\ pc' = "fetch" /\ UNCHANGED <<conn, orphan, ident, batch, trail, db>>
    BY <1>3, SeenExists DEF Adopt, Save, AdoptedPosition
  <2>2. disk'.database # 0 /\ disk'.last_id = disk.last_id
    BY <2>1
  <2> QED
    BY <2>1, <2>2 DEF ShapeInv, ExporterShape, EventFirst, BatchFollows, Ledger!Settled,
              Ledger!LastEvent
<1>4. CASE Resume
  <2>1. disk.database # 0 /\ mem = disk
    BY <1>4, SeenExists DEF Resume
  <2> QED
    BY <1>4, <2>1 DEF Resume, ShapeInv, ExporterShape, EventFirst, BatchFollows, Ledger!Settled,
              Ledger!LastEvent
<1>5. CASE Rewind
  <2>1. trail' # << >> /\ trail'[Len(trail')] = RewindEvent(disk.last_id)
    BY <1>0, <1>5, AppendLast DEF Rewind, ShapeInv, ExporterShape
  <2> QED
    BY <1>5, <2>1 DEF Rewind, ShapeInv, ExporterShape, EventFirst, BatchFollows
<1>6. CASE SaveRewind
  <2>1. Ledger!Settled'
    BY <1>6 DEF SaveRewind, Save, RewoundPosition, ShapeInv, EventFirst, Ledger!Settled,
                Ledger!LastEvent, Ledger!PositionAfter, RewindEvent, Ledger!RewindEvent, Ledger!Event
  <2> QED
    <3>1. /\ disk' = [database |-> ident, last_id |-> 0] /\ mem' = disk' /\ ident # 0
          /\ pc = "rewind" /\ pc' = "fetch" /\ UNCHANGED <<conn, orphan, ident, batch, trail, db>>
      BY <1>6, SeenExists DEF SaveRewind, Save, RewoundPosition
    <3>2. disk'.database # 0 /\ batch' = << >>
      BY <3>1 DEF ShapeInv, ExporterShape
    <3> QED
      BY <2>1, <3>1, <3>2 DEF ShapeInv, ExporterShape, EventFirst, BatchFollows, Ledger!Settled
<1>7. CASE Fetch
  <2> DEFINE rows == NewAttempts(mem.last_id, Limit)
  <2>1. Limit \in Nat /\ mem.last_id \in Nat /\ mem = disk
    BY <1>0, <1>7, BoundsTyped
       DEF Fetch, Limit, Least, TypeOK, ExportState, ShapeInv, ExporterShape
  <2>2. \A k \in 1 .. Len(rows) : rows[k].id = disk.last_id + k
    BY <1>0, <2>1, NewAttemptsSpec
  <2>3. CASE rows = << >>
    <3>1. Ledger!Settled'
      BY <1>7 DEF Fetch, ShapeInv, EventFirst, Ledger!Settled, Ledger!LastEvent
    <3> QED
      BY <1>7, <2>1, <2>3, <3>1, EndKeepsShape DEF Fetch, ShapeInv, ExporterShape
  <2>4. CASE rows # << >>
    <3>1. batch' = rows /\ pc' = "emit" /\ UNCHANGED <<conn, orphan, ident, environment, mem, disk, trail>>
      BY <1>7, <2>4 DEF Fetch
    <3>2. BatchFollows'
      BY <2>2, <3>1 DEF BatchFollows
    <3> HIDE DEF rows
    <3> QED
      BY <1>7, <2>4, <3>1, <3>2 DEF Fetch, ShapeInv, ExporterShape, EventFirst, Ledger!Settled,
              Ledger!LastEvent
  <2> QED
    BY <2>3, <2>4
<1>8. CASE FetchNoMore
  <2>1. Ledger!Settled'
    BY <1>8 DEF FetchNoMore, ShapeInv, EventFirst, Ledger!Settled, Ledger!LastEvent
  <2> QED
    BY <1>8, <2>1, EndKeepsShape DEF FetchNoMore, ShapeInv, ExporterShape
<1>9. CASE EmitRow
  <2>1. trail' # << >> /\ trail'[Len(trail')] = AuthEvent(Head(batch))
    BY <1>0, <1>9, AppendLast DEF EmitRow
  <2> QED
    BY <1>9, <2>1 DEF EmitRow, ShapeInv, ExporterShape, EventFirst, BatchFollows
<1>10. CASE SaveRow
  <2>1. batch # << >> /\ mem = disk
    BY <1>10 DEF SaveRow, ShapeInv, ExporterShape
  <2>2. disk' = RowPosition /\ mem' = disk' /\ disk'.last_id = disk.last_id + 1
        /\ disk'.database = disk.database /\ disk.database # 0
    BY <1>0, <1>10, <2>1, BatchTail DEF SaveRow, Save, RowPosition, ShapeInv, BatchFollows, ExporterShape
  <2>3. Ledger!Settled'
    <3>1. trail # << >> /\ trail[Len(trail)] = AuthEvent(Head(batch)) /\ trail' = trail
      BY <1>10 DEF SaveRow, ShapeInv, EventFirst
    <3> QED
      BY <2>2, <3>1 DEF RowPosition, Ledger!Settled, Ledger!LastEvent, Ledger!PositionAfter,
                        AuthEvent, Ledger!AuthEvent, Ledger!Event
  <2>4. CASE EndRound
    BY <1>10, <2>2, <2>3, <2>4, EndKeepsShape DEF SaveRow
  <2>5. CASE ~EndRound
    <3>1. /\ batch' = Tail(batch) /\ pc' = IF Tail(batch) = << >> THEN "fetch" ELSE "emit"
          /\ UNCHANGED <<conn, orphan, ident, environment, trail>>
      BY <1>10, <2>5 DEF SaveRow
    <3>2. BatchFollows'
      <4> SUFFICES ASSUME NEW k \in 1 .. Len(batch')
                   PROVE  batch'[k].id = disk'.last_id + k
        BY DEF BatchFollows
      <4>1. k + 1 \in 1 .. Len(batch) /\ batch'[k] = batch[k + 1]
        BY <1>0, <2>1, <3>1, BatchTail
      <4>2. batch[k + 1].id = disk.last_id + (k + 1)
        BY <4>1 DEF ShapeInv, BatchFollows
      <4> QED
        BY <1>0, <2>2, <4>1, <4>2
    <3> QED
      BY <1>10, <2>2, <2>3, <3>1, <3>2 DEF SaveRow, ShapeInv, ExporterShape, EventFirst, Ledger!Settled
  <2> QED
    BY <2>4, <2>5
<1>11. CASE Stopped
  BY <1>11, EndKeepsShape DEF Stopped, ShapeInv, ExporterShape
<1> QED
  BY <1>1, <1>2, <1>3, <1>4, <1>5, <1>6, <1>7, <1>8, <1>9, <1>10, <1>11 DEF ExporterStep

LEMMA ShapeOtherStep ==
  ASSUME ShapeInv, NotReady \/ Unreadable \/ Sigterm \/ Crash \/ SaveFails \/ Environment
  PROVE  ExporterShape' /\ EventFirst' /\ BatchFollows'
<1> USE DEF environment, round, Exporter
<1>0. TypeOK /\ disk.last_id \in Nat
  BY DEF ShapeInv, TypeOK, ExportState
<1>1. CASE NotReady
  BY <1>1 DEF NotReady, vars, ShapeInv, ExporterShape, EventFirst, BatchFollows, Ledger!Settled,
              Ledger!LastEvent
<1>2. CASE Unreadable
  <2>1. Ledger!Settled'
    BY <1>2 DEF Unreadable, ShapeInv, EventFirst, Ledger!Settled, Ledger!LastEvent
  <2> QED
    BY <1>2, <2>1, EndKeepsShape DEF Unreadable, ShapeInv, ExporterShape
<1>3. CASE Sigterm
  BY <1>3 DEF Sigterm, ShapeInv, ExporterShape, EventFirst, BatchFollows, Ledger!Settled,
              Ledger!LastEvent
<1>4. CASE Crash
  BY <1>4, EndKeepsShape DEF Crash, ShapeInv, ExporterShape
<1>5. CASE SaveFails
  <2>1. disk'.database = 0 => disk'.last_id = 0
    BY <1>5, <1>0 DEF SaveFails, ShapeInv, ExporterShape, AdoptedPosition, RewoundPosition, RowPosition
  <2> QED
    BY <1>5, <2>1, EndKeepsShape DEF SaveFails
<1>6. CASE Environment
  <2>1. UNCHANGED <<pc, ident, mem, disk, batch, trail>>
    BY <1>6 DEF Environment, CreateDatabase, LogIn, DeleteDatabase, TakeBackup, RestoreBackup
  <2>2. EventFirst' /\ BatchFollows'
    BY <2>1 DEF ShapeInv, EventFirst, BatchFollows, Ledger!Settled, Ledger!LastEvent
  <2>3. ExporterShape'
    <3>1. CASE CreateDatabase
      BY <2>1, <3>1, BoundsTyped DEF CreateDatabase, ShapeInv, TypeOK, ExporterShape
    <3>2. CASE LogIn
      BY <2>1, <3>2 DEF LogIn, ShapeInv, TypeOK, Databases, ExporterShape
    <3>3. CASE DeleteDatabase
      BY <2>1, <3>3 DEF DeleteDatabase, Detach, ShapeInv, TypeOK, ExporterShape
    <3>4. CASE TakeBackup
      BY <2>1, <3>4 DEF TakeBackup, ShapeInv, ExporterShape
    <3>5. CASE RestoreBackup
      BY <2>1, <3>5 DEF RestoreBackup, Detach, ShapeInv, ExporterShape
    <3> QED
      BY <1>6, <3>1, <3>2, <3>3, <3>4, <3>5 DEF Environment
  <2> QED
    BY <2>2, <2>3
<1> QED
  BY <1>1, <1>2, <1>3, <1>4, <1>5, <1>6

LEMMA ShapeStep == ShapeInv /\ [Next]_vars => ShapeInv'
<1>1. ShapeInv => BatchInHand
  BY DEF ShapeInv, ExporterShape, BatchInHand
<1>2. ASSUME ShapeInv, UNCHANGED vars
      PROVE  ExporterShape' /\ EventFirst' /\ BatchFollows'
  BY <1>2 DEF vars, environment, round, ShapeInv, ExporterShape, EventFirst, BatchFollows,
              Ledger!Settled, Ledger!LastEvent
<1>3. ShapeInv /\ [Next]_vars => ExporterShape' /\ EventFirst' /\ BatchFollows'
  BY <1>2, ShapeExporterStep, ShapeOtherStep DEF Next
<1> QED
  BY <1>1, <1>3, TypeStep DEF ShapeInv

LEMMA ShapeAlways == Spec => []ShapeInv
<1>1. Init => ShapeInv
  <2>1. Init => ExporterShape /\ EventFirst /\ BatchFollows
    BY DEF Init, ExporterShape, EventFirst, BatchFollows, Start0, Absent
  <2> QED
    BY <2>1, TypeInit DEF ShapeInv
<1> QED
  BY <1>1, ShapeStep, PTL DEF Spec

-----------------------------------------------------------------------------
(* The export implements its ledger.                                       *)

LEMMA RowIsNext ==
  ASSUME ShapeInv, pc \in {"emit", "save"}
  PROVE  /\ Head(batch).row \in 1 .. MaxLogins
         /\ Head(batch).id = disk.last_id + 1
         /\ AuthEvent(Head(batch)) = Ledger!AuthEvent(disk.last_id + 1, Head(batch).row)
         /\ RowPosition.last_id = disk.last_id + 1
         /\ RowPosition.database = disk.database
<1>1. batch # << >> /\ TypeOK /\ mem = disk
  BY DEF ShapeInv, ExporterShape
<1>2. Head(batch) \in Rows /\ Head(batch) = batch[1] /\ 1 \in 1 .. Len(batch)
  BY <1>1, PositionsTyped, BatchTail
<1>3. Head(batch).id = disk.last_id + 1
  BY <1>2 DEF ShapeInv, BatchFollows
<1> QED
  BY <1>1, <1>2, <1>3 DEF Rows, AuthEvent, RowPosition

LEMMA LedgerStep == ShapeInv /\ [Next]_vars => [Ledger!Next]_(Ledger!ledger)
<1> SUFFICES ASSUME ShapeInv, [Next]_vars
             PROVE  [Ledger!Next]_(Ledger!ledger)
  OBVIOUS
<1> USE DEF Ledger!ledger
<1>0. disk.last_id \in Nat
  BY DEF ShapeInv, TypeOK, ExportState
<1>1. CASE StartUp
  BY <1>1 DEF StartUp, ConfigEvent, Ledger!Next, Ledger!Announce
<1>2. CASE Adopt
  BY <1>2 DEF Adopt, Save, AdoptedPosition, ShapeInv, ExporterShape
<1>3. CASE Rewind
  BY <1>3 DEF Rewind, ShapeInv, ExporterShape, EventFirst, RewindEvent, Ledger!Next, Ledger!GiveUp
<1>4. ASSUME pc = "rewind", disk' = RewoundPosition, trail' = trail
      PROVE  Ledger!Next
  <2>1. trail # << >> /\ trail[Len(trail)] = RewindEvent(disk.last_id)
    BY <1>4 DEF ShapeInv, EventFirst
  <2> QED
    BY <1>4, <2>1 DEF RewoundPosition, RewindEvent, Ledger!LastEvent, Ledger!Next, Ledger!StartOver
<1>5. CASE EmitRow
  <2>1. Ledger!Settled /\ trail' = Append(trail, AuthEvent(Head(batch))) /\ UNCHANGED disk
    BY <1>5 DEF EmitRow, ShapeInv, EventFirst
  <2> QED
    BY <1>5, <2>1, RowIsNext DEF EmitRow, Ledger!Next, Ledger!Report
<1>6. ASSUME pc = "save", disk' = RowPosition, trail' = trail
      PROVE  Ledger!Next
  <2>1. trail # << >> /\ trail[Len(trail)] = AuthEvent(Head(batch))
    BY <1>6 DEF ShapeInv, EventFirst
  <2>2. trail[Len(trail)].kind = "auth" /\ trail[Len(trail)].at = disk.last_id + 1
    BY <1>6, <2>1, RowIsNext DEF Ledger!AuthEvent, Ledger!Event
  <2> QED
    BY <1>6, <2>1, <2>2, RowIsNext DEF Ledger!LastEvent, Ledger!Next, Ledger!Advance
<1>7. CASE SaveFails
  <2>1. trail' = trail
    BY <1>7 DEF SaveFails
  <2>2. CASE disk' = disk
    BY <2>1, <2>2
  <2>3. CASE pc = "reconcile" /\ mem.database = 0 /\ disk' = AdoptedPosition
    BY <2>1, <2>3 DEF AdoptedPosition, ShapeInv, ExporterShape
  <2> QED
    BY <1>4, <1>6, <1>7, <2>1, <2>2, <2>3 DEF SaveFails
<1>8. CASE Open \/ Resume \/ Fetch \/ FetchNoMore \/ Stopped \/ NotReady \/ Unreadable \/ Sigterm \/ Crash
  BY <1>8 DEF Open, Resume, Fetch, FetchNoMore, Stopped, NotReady, Unreadable, Sigterm, Crash, vars
<1>9. CASE Environment
  BY <1>9 DEF Environment, CreateDatabase, LogIn, DeleteDatabase, TakeBackup, RestoreBackup, Exporter
<1>10. CASE UNCHANGED vars
  BY <1>10 DEF vars
<1>11. CASE SaveRewind
  BY <1>4, <1>11 DEF SaveRewind, Save
<1>12. CASE SaveRow
  BY <1>6, <1>12 DEF SaveRow, Save
<1> QED
  BY <1>1, <1>2, <1>3, <1>5, <1>7, <1>8, <1>9, <1>10, <1>11, <1>12 DEF Next, ExporterStep

(* The export implements its ledger: each event before the position it     *)
(* stands for, over crashes, failed saves and replaced databases.          *)
THEOREM ExportImplementsLedger == Spec => ImplementsLedger
<1>1. Init => Ledger!Init
  BY DEF Init, Start0, Ledger!Init
<1> QED
  BY <1>1, ShapeAlways, LedgerStep, PTL DEF Spec, ImplementsLedger, Ledger!Spec

-----------------------------------------------------------------------------
(* What every implementation of the ledger inherits, said of the trail.    *)

(* The saved position is one a restart may resume from: the missing half of *)
(* TrailTellsPosition, which speaks of events only.                        *)
SavedIsTold ==
  IF trail = << >> THEN disk.last_id = 0
                   ELSE disk.last_id \in Ledger!ResumableAfter(Ledger!LastEvent)

LedgerInv == Ledger!TypeOK /\ Ledger!TrailTellsPosition /\ SavedIsTold

(* Appending event e to a trail that tells its position keeps it so when e *)
(* follows the last event, or is the first start.                          *)
LEMMA AppendFollows ==
  ASSUME Ledger!TypeOK, Ledger!TrailTellsPosition, NEW e \in Ledger!Events,
         trail' = Append(trail, e),
         IF trail = << >> THEN e = Ledger!ConfigEvent(0) ELSE Ledger!Follows(Ledger!LastEvent, e)
  PROVE  /\ Ledger!TrailTellsPosition' /\ Ledger!LastEvent' = e
         /\ trail' # << >> /\ trail' \in Seq(Ledger!Events)
<1> DEFINE n == Len(trail)
<1>1. n \in Nat /\ Len(trail') = n + 1 /\ trail' \in Seq(Ledger!Events)
  BY DEF Ledger!TypeOK
<1>2. \A k \in 1 .. n : trail'[k] = trail[k]
  BY DEF Ledger!TypeOK
<1>3. trail'[n + 1] = e
  BY DEF Ledger!TypeOK
<1>4. (trail = << >>) <=> (n = 0)
  BY DEF Ledger!TypeOK
<1>5. trail'[1] = Ledger!ConfigEvent(0)
  <2>1. CASE n = 0
    BY <2>1, <1>3, <1>4
  <2>2. CASE n # 0
    BY <2>2, <1>1, <1>2, <1>4 DEF Ledger!TrailTellsPosition
  <2> QED
    BY <2>1, <2>2
<1>6. ASSUME NEW k \in 2 .. (n + 1)
      PROVE  Ledger!Follows(trail'[k - 1], trail'[k])
  <2>1. CASE k <= n
    <3>1. trail'[k] = trail[k] /\ trail'[k - 1] = trail[k - 1]
      BY <2>1, <1>1, <1>2
    <3> QED
      BY <2>1, <3>1, <1>1 DEF Ledger!TrailTellsPosition
  <2>2. CASE k = n + 1
    <3>1. trail'[k - 1] = Ledger!LastEvent /\ trail'[k] = e /\ trail # << >>
      BY <2>2, <1>1, <1>2, <1>3, <1>4 DEF Ledger!LastEvent
    <3> QED
      BY <3>1
  <2> QED
    BY <1>1, <2>1, <2>2
<1>7. Ledger!LastEvent' = e /\ trail' # << >>
  BY <1>1, <1>3 DEF Ledger!LastEvent
<1> QED
  BY <1>1, <1>5, <1>6, <1>7 DEF Ledger!TrailTellsPosition

(* LedgerInv is inductive.                                                 *)
LEMMA LedgerInvStep == LedgerInv /\ [Ledger!Next]_(Ledger!ledger) => LedgerInv'
<1> SUFFICES ASSUME LedgerInv, [Ledger!Next]_(Ledger!ledger)
             PROVE  LedgerInv'
  OBVIOUS
<1> USE DEF LedgerInv
<1>0. trail # << >> => Ledger!LastEvent \in Ledger!Events
  BY DEF Ledger!TypeOK, Ledger!LastEvent
<1>1. CASE Ledger!Announce
  <2>1. Ledger!ConfigEvent(disk.last_id) \in Ledger!Events
    BY DEF Ledger!ConfigEvent, Ledger!Event, Ledger!Events, Ledger!TypeOK
  <2>2. IF trail = << >> THEN Ledger!ConfigEvent(disk.last_id) = Ledger!ConfigEvent(0)
                           ELSE Ledger!Follows(Ledger!LastEvent, Ledger!ConfigEvent(disk.last_id))
    BY DEF SavedIsTold, Ledger!Follows, Ledger!ConfigEvent, Ledger!Event
  <2>3. /\ Ledger!TrailTellsPosition' /\ Ledger!LastEvent' = Ledger!ConfigEvent(disk.last_id)
        /\ trail' # << >> /\ trail' \in Seq(Ledger!Events)
    BY <1>1, <2>1, <2>2, AppendFollows DEF Ledger!Announce
  <2>4. disk.last_id \in Ledger!ResumableAfter(Ledger!ConfigEvent(disk.last_id))
    BY DEF Ledger!ResumableAfter, Ledger!ConfigEvent, Ledger!Event
  <2> QED
    BY <1>1, <2>3, <2>4 DEF Ledger!Announce, SavedIsTold, Ledger!TypeOK, Ledger!ResumableAfter
<1>2. ASSUME NEW login \in 1 .. MaxLogins, Ledger!Report,
             trail' = Append(trail, Ledger!AuthEvent(disk.last_id + 1, login))
      PROVE  LedgerInv'
  <2>1. Ledger!AuthEvent(disk.last_id + 1, login) \in Ledger!Events
    BY DEF Ledger!AuthEvent, Ledger!Event, Ledger!Events, Ledger!TypeOK
  <2>2. /\ trail # << >> /\ disk.last_id' = disk.last_id
        /\ Ledger!Follows(Ledger!LastEvent, Ledger!AuthEvent(disk.last_id + 1, login))
    BY <1>2 DEF Ledger!Report, Ledger!Settled, Ledger!Follows, Ledger!AuthEvent, Ledger!Event
  <2>3. /\ Ledger!TrailTellsPosition' /\ Ledger!LastEvent' = Ledger!AuthEvent(disk.last_id + 1, login)
        /\ trail' # << >> /\ trail' \in Seq(Ledger!Events)
    BY <1>2, <2>1, <2>2, AppendFollows
  <2>4. disk.last_id \in Ledger!ResumableAfter(Ledger!AuthEvent(disk.last_id + 1, login))
    BY DEF Ledger!ResumableAfter, Ledger!AuthEvent, Ledger!Event, Ledger!TypeOK
  <2> QED
    BY <2>2, <2>3, <2>4 DEF SavedIsTold, Ledger!TypeOK, Ledger!ResumableAfter
<1>3. CASE Ledger!Advance
  BY <1>0, <1>3 DEF Ledger!Advance, SavedIsTold, Ledger!TypeOK, Ledger!TrailTellsPosition,
                    Ledger!ResumableAfter, Ledger!PositionAfter, Ledger!LastEvent, Ledger!Events
<1>4. CASE Ledger!GiveUp
  <2>1. Ledger!RewindEvent(disk.last_id) \in Ledger!Events
    BY DEF Ledger!RewindEvent, Ledger!Event, Ledger!Events, Ledger!TypeOK
  <2>2. /\ trail # << >> /\ disk.last_id' = disk.last_id
        /\ Ledger!Follows(Ledger!LastEvent, Ledger!RewindEvent(disk.last_id))
    BY <1>4 DEF Ledger!GiveUp, Ledger!Settled, Ledger!Follows, Ledger!RewindEvent, Ledger!Event
  <2>3. /\ Ledger!TrailTellsPosition' /\ Ledger!LastEvent' = Ledger!RewindEvent(disk.last_id)
        /\ trail' # << >> /\ trail' \in Seq(Ledger!Events)
    BY <1>4, <2>1, <2>2, AppendFollows DEF Ledger!GiveUp
  <2>4. disk.last_id \in Ledger!ResumableAfter(Ledger!RewindEvent(disk.last_id))
    BY DEF Ledger!ResumableAfter, Ledger!RewindEvent, Ledger!Event
  <2> QED
    BY <2>2, <2>3, <2>4 DEF SavedIsTold, Ledger!TypeOK, Ledger!ResumableAfter
<1>5. CASE Ledger!StartOver
  BY <1>5 DEF Ledger!StartOver, SavedIsTold, Ledger!TypeOK, Ledger!TrailTellsPosition,
              Ledger!ResumableAfter, Ledger!PositionAfter, Ledger!LastEvent, Ledger!RewindEvent, Ledger!Event
<1>6. CASE UNCHANGED Ledger!ledger
  BY <1>6 DEF Ledger!ledger, SavedIsTold, Ledger!TypeOK, Ledger!TrailTellsPosition, Ledger!LastEvent
<1> QED
  BY <1>1, <1>2, <1>3, <1>4, <1>5, <1>6 DEF Ledger!Next, Ledger!Report

LEMMA LedgerInvAlways == Ledger!Spec => []LedgerInv
<1>1. Ledger!Init => LedgerInv
  BY DEF Ledger!Init, LedgerInv, Ledger!TypeOK, Ledger!TrailTellsPosition, SavedIsTold
<1> QED
  BY <1>1, LedgerInvStep, PTL DEF Ledger!Spec

(* In every ledger the trail tells the position: order, gaps, repeats and  *)
(* new starts are readable from the events alone.                          *)
THEOREM LedgerTellsPosition == Ledger!Spec => []Ledger!TrailTellsPosition
  BY LedgerInvAlways, PTL DEF LedgerInv

(* Hence the trail of the export tells a reader where the export stood.    *)
THEOREM ExportTrailTellsPosition == Spec => []TrailTellsPosition
  BY ExportImplementsLedger, LedgerTellsPosition, PTL DEF ImplementsLedger, TrailTellsPosition

(* The saved position changes database only after the rewind was written.  *)
THEOREM ExportDatabaseChangeIsTold == Spec => DatabaseChangeIsTold
<1>1. ShapeInv /\ [Next]_vars =>
        [disk.database # 0 /\ disk'.database # disk.database
           => trail # << >> /\ trail[Len(trail)] = RewindEvent(disk.last_id)]_vars
  <2> SUFFICES ASSUME ShapeInv, Next, disk.database # 0, disk'.database # disk.database
               PROVE  trail # << >> /\ trail[Len(trail)] = RewindEvent(disk.last_id)
    OBVIOUS
  <2>1. pc = "rewind"
    <3>1. CASE SaveFails
      BY <3>1, RowIsNext DEF SaveFails, ShapeInv, ExporterShape
    <3>2. CASE SaveRow
      BY <3>2, RowIsNext DEF SaveRow, Save
    <3>3. CASE Adopt
      BY <3>3 DEF Adopt, ShapeInv, ExporterShape
    <3>4. CASE Environment
      BY <3>4 DEF Environment, CreateDatabase, LogIn, DeleteDatabase, TakeBackup, RestoreBackup, Exporter
    <3> QED
      BY <3>1, <3>2, <3>3, <3>4
         DEF Next, ExporterStep, StartUp, Open, Resume, Rewind, SaveRewind, Fetch, FetchNoMore,
             EmitRow, Stopped, NotReady, Unreadable, Sigterm, Crash, vars
  <2> QED
    BY <2>1 DEF ShapeInv, EventFirst
<1> QED
  BY <1>1, ShapeAlways, PTL DEF Spec, DatabaseChangeIsTold

-----------------------------------------------------------------------------
(* No row is skipped. Exporter steps change no database but may drop the   *)
(* orphan one; the environment's steps change no position.                 *)

LEMMA CopyTypes ==
  ASSUME TypeOK
  PROVE  /\ \A d \in Copies : d \in Databases /\ Len(d.rows) \in Nat /\ d.inst \in Nat
         /\ Seen \in Copies
         /\ instances \in Nat /\ disk.last_id \in Nat /\ disk.database \in Nat
         /\ Len(batch) \in Nat
         /\ Absent.inst = 0 /\ Absent.rows = << >> /\ Len(Absent.rows) = 0
<1>1. \A d \in Copies : d \in Databases
  BY DEF TypeOK, Copies
<1>2. \A d \in Databases : Len(d.rows) \in Nat /\ d.inst \in Nat
  BY BoundsTyped DEF Databases
<1>3. Absent.inst = 0 /\ Absent.rows = << >> /\ Len(Absent.rows) = 0
  BY DEF Absent
<1> QED
  BY <1>1, <1>2, <1>3, BoundsTyped DEF TypeOK, Copies, Seen, ExportState

(* Copies that only disappear keep agreeing.                               *)
LEMMA AgreeKept ==
  ASSUME TypeOK, CopiesAgree, Copies' \subseteq Copies \cup {Absent}
  PROVE  \A d, e \in Copies' : d.inst = e.inst =>
           \A id \in 1 .. Least(Len(d.rows), Len(e.rows)) : d.rows[id] = e.rows[id]
<1> SUFFICES ASSUME NEW d \in Copies', NEW e \in Copies', d.inst = e.inst,
                    NEW id \in 1 .. Least(Len(d.rows), Len(e.rows))
             PROVE  d.rows[id] = e.rows[id]
  OBVIOUS
<1>1. CASE d = Absent \/ e = Absent
  <2>1. \A c \in Copies' : Len(c.rows) \in Nat
    BY CopyTypes
  <2>2. Least(Len(d.rows), Len(e.rows)) <= 0
    BY <1>1, <2>1, CopyTypes DEF Least
  <2> QED
    BY <2>1, <2>2 DEF Least
<1>2. CASE d # Absent /\ e # Absent
  BY <1>2 DEF CopiesAgree
<1> QED
  BY <1>1, <1>2

(* A row that was exported stays exported.                                 *)
LEMMA ExportedKept ==
  ASSUME TypeOK, NEW login, IsExported(login),
         trail' = trail \/ \E e : trail' = Append(trail, e)
  PROVE  IsExported(login)'
<1>1. PICK k \in 1 .. Len(trail) : trail[k].kind = "auth" /\ trail[k].row = login
  BY DEF IsExported
<1>2. k \in 1 .. Len(trail') /\ trail'[k] = trail[k]
  BY SMTT(30) DEF TypeOK
<1> QED
  BY <1>1, <1>2 DEF IsExported

CopyInv == InstancesKnown /\ CopiesAgree /\ PositionOfSeen /\ NotAhead /\ BatchOfCopies /\ CopiesExported

Files == <<db, backup, restored, instances>>

Written == trail' = trail \/ \E e : trail' = Append(trail, e)

(* Steps that save nothing, fetch nothing and end nothing.                 *)
LEMMA CopyIdle ==
  ASSUME ExportInv, UNCHANGED <<Files, orphan, disk, batch>>, Written,
         \/ /\ conn' = conn /\ ident' = ident
            /\ \/ pc' \in {"down", "poll"}
               \/ pc \in {"reconcile", "rewind"} /\ pc' \in {"reconcile", "rewind"}
               \/ pc \in {"fetch", "emit", "save"} /\ pc' \in {"fetch", "emit", "save"}
         \/ conn' = "current" /\ ident' = db.inst /\ pc' = "reconcile"
  PROVE  CopyInv'
<1> USE DEF Files
<1>1. TypeOK /\ Copies' = Copies
  BY DEF ExportInv, ShapeInv, Copies
<1>2. InstancesKnown' /\ NotAhead' /\ BatchOfCopies'
  BY <1>1 DEF ExportInv, InstancesKnown, NotAhead, BatchOfCopies, Copies
<1>3. CopiesAgree'
  <2>1. conn' = "orphan" => conn = "orphan"
    OBVIOUS
  <2> QED
    BY <1>1, <2>1 DEF ExportInv, CopiesAgree
<1>4. PositionOfSeen'
  <2>1. CASE pc' = "reconcile" /\ conn' = "current" /\ ident' = db.inst
    BY <2>1 DEF PositionOfSeen, Reference, Seen
  <2>2. CASE pc' \in {"down", "poll"}
    BY <2>2 DEF PositionOfSeen
  <2>3. CASE Reference' = Reference /\ Seen' = Seen /\ pc \notin {"down", "poll"}
    BY <1>1, <2>3 DEF ExportInv, PositionOfSeen
  <2> QED
    BY <2>1, <2>2, <2>3 DEF Reference, Seen
<1>5. CopiesExported'
  BY <1>1, ExportedKept DEF ExportInv, CopiesExported, Written
<1> QED
  BY <1>2, <1>3, <1>4, <1>5 DEF CopyInv

(* Steps that end the round or the process and save nothing.               *)
LEMMA CopyEnd ==
  ASSUME ExportInv, UNCHANGED <<Files, disk, trail>>, EndRound \/ Down
  PROVE  CopyInv'
<1> USE DEF Files
<1>1. /\ TypeOK /\ Copies' \subseteq Copies \cup {Absent}
      /\ batch' = << >> /\ conn' = "closed" /\ orphan' = Absent /\ ident' = 0
      /\ pc' \in {"poll", "down"}
  BY DEF ExportInv, ShapeInv, Copies, EndRound, Down
<1>2. InstancesKnown'
  BY <1>1, CopyTypes DEF ExportInv, InstancesKnown
<1>3. CopiesAgree'
  BY <1>1, AgreeKept DEF ExportInv, CopiesAgree
<1>4. PositionOfSeen' /\ BatchOfCopies'
  BY <1>1 DEF PositionOfSeen, BatchOfCopies
<1>5. NotAhead'
  BY <1>1, CopyTypes DEF ExportInv, NotAhead
<1>6. CopiesExported'
  <2> SUFFICES ASSUME NEW d \in Copies', d.inst = disk.database,
                      NEW id \in 1 .. Least(Len(d.rows), disk.last_id)
               PROVE  IsExported(d.rows[id])'
    BY DEF CopiesExported
  <2>1. d # Absent
    BY <1>1, CopyTypes DEF Least
  <2>2. IsExported(d.rows[id])
    BY <1>1, <2>1 DEF ExportInv, CopiesExported
  <2> QED
    BY <1>1, <2>2, ExportedKept
<1> QED
  BY <1>2, <1>3, <1>4, <1>5, <1>6 DEF CopyInv

(* A position at the start of a database claims nothing.                   *)
LEMMA CopyZero ==
  ASSUME ExportInv, UNCHANGED <<db, backup, instances, trail>>,
         pc \in {"reconcile", "rewind"}, disk' = [database |-> ident, last_id |-> 0],
         \/ UNCHANGED <<conn, orphan, ident, batch>> /\ pc' = "fetch" /\ Compared
         \/ Down /\ restored' = restored
  PROVE  CopyInv'
<1>1. /\ TypeOK /\ Copies' \subseteq Copies \cup {Absent}
      /\ batch' = << >> /\ batch = << >> /\ disk'.last_id = 0 /\ disk'.database = ident
      /\ ident' \in {0, ident}
      /\ orphan' = Absent \/ (conn' = conn /\ orphan' = orphan)
      /\ (conn' = "orphan" => conn = "orphan")
  BY DEF ExportInv, ShapeInv, ExporterShape, Copies, Down
<1>6. ~restored' => ~restored \/ conn = "current"
  BY Zenon DEF Compared
<1>2. InstancesKnown'
  BY <1>1, CopyTypes DEF ExportInv, InstancesKnown
<1>3. CopiesAgree'
  <2>1. conn' = "orphan" /\ ~restored' => orphan'.inst # db'.inst
    BY <1>1, <1>6 DEF Down, ExportInv, CopiesAgree, ShapeInv, ExporterShape
  <2> QED
    BY <1>1, <2>1, AgreeKept DEF ExportInv, CopiesAgree
<1>4. PositionOfSeen' /\ BatchOfCopies' /\ NotAhead'
  <2>1. BatchOfCopies' /\ NotAhead'
    BY <1>1, CopyTypes DEF BatchOfCopies, NotAhead
  <2>2. PositionOfSeen'
    <3>1. CASE pc' = "down"
      BY <3>1 DEF PositionOfSeen
    <3>2. CASE pc' # "down"
      <4>1. UNCHANGED <<conn, orphan, ident>> /\ pc' = "fetch"
        BY <3>2 DEF Down
      <4>2. Seen' = Seen /\ Copies' = Copies /\ Reference' = Reference
        BY <1>1, <4>1 DEF Seen, Copies, Reference
      <4> QED
        BY <4>2 DEF ExportInv, PositionOfSeen
    <3> QED
      BY <3>1, <3>2
  <2> QED
    BY <2>1, <2>2
<1>5. CopiesExported'
  <2> SUFFICES ASSUME NEW d \in Copies'
               PROVE  1 .. Least(Len(d.rows), 0) = {}
    BY <1>1 DEF CopiesExported
  <2>1. Len(d.rows) \in Nat
    BY <1>1, CopyTypes
  <2> QED
    BY <2>1 DEF Least
<1> QED
  BY <1>2, <1>3, <1>4, <1>5 DEF CopyInv

(* The comparison of a round that may resume.                              *)
LEMMA CopyResume == ExportInv /\ Resume => CopyInv'
<1> SUFFICES ASSUME ExportInv, Resume
             PROVE  CopyInv'
  OBVIOUS
<1>1. /\ UNCHANGED <<db, backup, instances, orphan, conn, disk, batch, trail>>
      /\ TypeOK /\ Copies' = Copies /\ Seen' = Seen /\ batch = << >> /\ mem = disk
      /\ disk.database = ident /\ ident' = ident /\ disk.last_id <= Len(Seen.rows)
      /\ pc = "reconcile" /\ pc' = "fetch"
  <2>1. pc = "reconcile" /\ mem = disk /\ ~(Len(Seen.rows) < disk.last_id)
    BY DEF Resume, SequenceBehind, ExportInv, ShapeInv, ExporterShape
  <2>2. disk.last_id <= Len(Seen.rows)
    BY <2>1, CopyTypes DEF ExportInv, ShapeInv
  <2> QED
    BY <2>1, <2>2 DEF Resume, round, ExportInv, ShapeInv, ExporterShape, Copies, Seen
<1>2. ~restored' => ~restored \/ conn = "current"
  BY Zenon DEF Resume, Compared
<1>3. InstancesKnown' /\ BatchOfCopies' /\ CopiesExported'
  BY <1>1 DEF ExportInv, InstancesKnown, BatchOfCopies, CopiesExported, IsExported
<1>4. CopiesAgree'
  BY <1>1, <1>2 DEF ExportInv, CopiesAgree
<1>5. PositionOfSeen'
  BY <1>1 DEF ExportInv, PositionOfSeen, Reference, Seen
<1>6. NotAhead'
  <2> SUFFICES ASSUME ~restored', db.inst = disk.database
               PROVE  disk.last_id <= Len(db.rows)
    <3>1. Len(batch') = 0 /\ disk.last_id + 0 = disk.last_id
      BY <1>1, CopyTypes
    <3> QED
      BY <1>1, <3>1 DEF NotAhead
  <2>1. CASE conn = "current"
    BY <1>1, <2>1 DEF Seen
  <2>2. CASE conn # "current"
    BY <1>1, <1>2, <2>2, CopyTypes DEF ExportInv, NotAhead
  <2> QED
    BY <2>1, <2>2
<1> QED
  BY <1>3, <1>4, <1>5, <1>6 DEF CopyInv

(* A query that returns rows: they are rows of every copy that has them.   *)
LEMMA CopyFetch ==
  ASSUME ExportInv, Fetch, NewAttempts(mem.last_id, Limit) # << >>
  PROVE  CopyInv'
<1> DEFINE rows == NewAttempts(mem.last_id, Limit)
<1>1. /\ UNCHANGED <<db, backup, restored, instances, orphan, conn, disk, trail>>
      /\ ident' = ident /\ batch' = rows /\ pc = "fetch" /\ pc' = "emit"
      /\ TypeOK /\ Copies' = Copies /\ mem = disk
  BY DEF Fetch, environment, ExportInv, ShapeInv, ExporterShape, Copies
<1>2. Limit \in Nat /\ mem.last_id \in Nat
  BY <1>1, BoundsTyped DEF Fetch, Limit, Least, TypeOK, ExportState
<1>3. /\ rows \in Seq(Rows) /\ disk.last_id + Len(rows) <= Len(Seen.rows)
      /\ \A k \in 1 .. Len(rows) : rows[k].row = Seen.rows[disk.last_id + k]
  BY <1>1, <1>2, NewAttemptsSpec
<1> HIDE DEF rows
<1>4. InstancesKnown' /\ CopiesAgree' /\ CopiesExported'
  BY <1>1 DEF ExportInv, InstancesKnown, CopiesAgree, CopiesExported, IsExported
<1>5. PositionOfSeen'
  BY <1>1 DEF ExportInv, PositionOfSeen, Reference, Seen
<1>6. BatchOfCopies'
  <2> SUFFICES ASSUME NEW d \in Copies, d.inst = disk.database,
                      NEW k \in 1 .. Len(rows), disk.last_id + k <= Len(d.rows)
               PROVE  d.rows[disk.last_id + k] = rows[k].row
    BY <1>1 DEF BatchOfCopies
  <2>1. Seen.inst = d.inst /\ Seen \in Copies
    BY <1>1, CopyTypes DEF ExportInv, PositionOfSeen, Reference
  <2>2. disk.last_id + k \in 1 .. Least(Len(d.rows), Len(Seen.rows))
    BY <1>1, <1>3, CopyTypes DEF Least
  <2> QED
    BY <1>3, <2>1, <2>2 DEF ExportInv, CopiesAgree
<1>7. NotAhead'
  <2> SUFFICES ASSUME ~restored, db.inst = disk.database
               PROVE  disk.last_id + Len(rows) <= Len(db.rows)
    BY <1>1 DEF NotAhead
  <2>1. Seen.inst = db.inst
    BY <1>1 DEF ExportInv, PositionOfSeen, Reference, Copies
  <2>2. Seen = db
    BY <2>1 DEF Seen, ExportInv, CopiesAgree
  <2> QED
    BY <1>3, <2>2
<1> QED
  BY <1>4, <1>5, <1>6, <1>7 DEF CopyInv

(* A row's position is saved after its event was written: the row it       *)
(* claims is the one in hand, in every copy that has it.                   *)
LEMMA CopyRow ==
  ASSUME ExportInv, UNCHANGED <<Files, trail>>, pc = "save", disk' = RowPosition,
         \/ EndRound \/ Down
         \/ UNCHANGED <<conn, orphan, ident>> /\ batch' = Tail(batch) /\ pc' \in {"fetch", "emit"}
  PROVE  CopyInv'
<1> USE DEF Files
<1>1. /\ TypeOK /\ Copies' \subseteq Copies \cup {Absent} /\ batch # << >>
      /\ disk'.last_id = disk.last_id + 1 /\ disk'.database = disk.database
      /\ disk.database # 0
      /\ orphan' = Absent \/ (conn' = conn /\ orphan' = orphan)
      /\ (conn' = "orphan" => conn = "orphan" /\ orphan' = orphan)
      /\ batch' = << >> \/ batch' = Tail(batch)
      /\ pc' \in {"poll", "down"} \/ (pc' \in {"fetch", "emit"} /\ conn' = conn /\ orphan' = orphan)
      /\ ident' \in {0, ident}
  BY RowIsNext DEF ExportInv, ShapeInv, ExporterShape, Copies, EndRound, Down
<1>2. InstancesKnown'
  BY <1>1, CopyTypes DEF ExportInv, InstancesKnown
<1>3. CopiesAgree'
  BY <1>1, AgreeKept DEF ExportInv, CopiesAgree
<1>4. PositionOfSeen'
  <2> SUFFICES ASSUME pc' \in {"fetch", "emit"}, Seen'.inst # disk.database, NEW d \in Copies'
               PROVE  d.inst # disk.database
    BY <1>1 DEF PositionOfSeen, Reference, ExportInv, ShapeInv, TypeOK
  <2>1. Seen' = Seen /\ Copies' = Copies
    BY <1>1 DEF Seen, Copies
  <2> QED
    BY <2>1 DEF ExportInv, PositionOfSeen, Reference
<1>5. NotAhead'
  <2>1. Len(batch') <= Len(batch) - 1
    BY <1>1, BatchTail
  <2>2. Len(batch') \in Nat
    BY <1>1, PositionsTyped
  <2> QED
    BY <1>1, <2>1, <2>2, CopyTypes DEF ExportInv, NotAhead
<1>6. BatchOfCopies'
  <2> SUFFICES ASSUME NEW d \in Copies', d.inst = disk.database,
                      NEW k \in 1 .. Len(batch'), disk.last_id + 1 + k <= Len(d.rows)
               PROVE  d.rows[disk.last_id + 1 + k] = batch'[k].row
    BY <1>1 DEF BatchOfCopies
  <2>1. d \in Copies
    BY <1>1, CopyTypes
  <2>2. batch' = Tail(batch)
    BY <1>1
  <2>4. k \in Nat /\ k + 1 \in 1 .. Len(batch) /\ batch'[k] = batch[k + 1]
    BY <1>1, <2>2, BatchTail
  <2>5. disk.last_id \in Nat
    BY <1>1, CopyTypes
  <2>6. k \in Nat
    BY <2>4
  <2>3. disk.last_id + 1 + k = disk.last_id + (k + 1)
    BY ONLY <2>5, <2>6, SMT
  <2> QED
    BY <2>1, <2>3, <2>4 DEF ExportInv, BatchOfCopies
<1>7. CopiesExported'
  <2> SUFFICES ASSUME NEW d \in Copies', d.inst = disk.database,
                      NEW id \in 1 .. Least(Len(d.rows), disk.last_id + 1)
               PROVE  IsExported(d.rows[id])
    BY <1>1 DEF CopiesExported, IsExported
  <2>1. d \in Copies /\ Len(d.rows) \in Nat /\ disk.last_id \in Nat
    BY <1>1, CopyTypes
  <2>2. CASE id <= disk.last_id
    BY <2>1, <2>2 DEF ExportInv, CopiesExported, Least
  <2>3. CASE id > disk.last_id
    <3>1. id = disk.last_id + 1 /\ id <= Len(d.rows)
      BY <2>1, <2>3 DEF Least
    <3>2. d.rows[id] = Head(batch).row
      BY <1>1, <2>1, <3>1, BatchTail DEF ExportInv, BatchOfCopies
    <3>3. trail # << >> /\ trail[Len(trail)] = AuthEvent(Head(batch))
      BY DEF ExportInv, ShapeInv, EventFirst
    <3>4. Len(trail) \in 1 .. Len(trail)
      BY <1>1, <3>3 DEF TypeOK
    <3>5. trail[Len(trail)].kind = "auth" /\ trail[Len(trail)].row = Head(batch).row
      BY <3>3 DEF AuthEvent, Ledger!AuthEvent, Ledger!Event
    <3> QED
      BY <3>2, <3>4, <3>5 DEF IsExported
  <2> QED
    BY <2>1, <2>2, <2>3
<1> QED
  BY <1>2, <1>3, <1>4, <1>5, <1>6, <1>7 DEF CopyInv

(* Authelia and the operator: only a login adds a row, and it adds one the *)
(* position has not reached.                                               *)
LEMMA CopyEnvironment ==
  ASSUME ExportInv, Environment, QuietRestore
  PROVE  CopyInv'
<1> USE DEF Exporter
<1>0. TypeOK
  BY DEF ExportInv, ShapeInv
<1>1. CASE CreateDatabase
  <2>1. /\ db'.inst = instances + 1 /\ db'.rows = << >> /\ instances' = instances + 1
        /\ db.inst = 0 /\ Len(db'.rows) = 0
        /\ UNCHANGED <<backup, restored, conn, orphan, ident, pc, disk, batch, trail>>
    BY <1>1 DEF CreateDatabase
  <2>2. \A d \in Copies' : d \in Copies \/ d = db'
    BY <2>1 DEF Copies
  <2>3. \A d \in Copies : d.inst < db'.inst
    BY <1>0, <2>1, CopyTypes DEF ExportInv, InstancesKnown
  <2>4. disk.database < db'.inst /\ db'.inst # 0
    BY <1>0, <2>1, CopyTypes DEF ExportInv, InstancesKnown
  <2>5. InstancesKnown'
    <3>1. ident \in Nat /\ ident <= instances + 1
      BY <1>0, CopyTypes, BoundsTyped DEF ExportInv, InstancesKnown, TypeOK
    <3> QED
      BY <1>0, <2>1, <2>2, <2>3, <2>4, <3>1, CopyTypes DEF ExportInv, InstancesKnown
  <2>6. \A d \in Copies' : d.inst = disk.database => d \in Copies
    BY <1>0, <2>2, <2>4, CopyTypes
  <2>7. CopiesAgree'
    <3>1. \A d, e \in Copies' : d.inst = e.inst => d = e \/ (d \in Copies /\ e \in Copies)
      BY <1>0, <2>2, <2>3, CopyTypes
    <3>2. backup'.inst # db'.inst /\ (conn' = "orphan" => orphan'.inst # db'.inst)
      BY <1>0, <2>1, <2>3, CopyTypes DEF Copies
    <3> QED
      BY <3>1, <3>2 DEF ExportInv, CopiesAgree
  <2>8. PositionOfSeen'
    <3>1. pc \notin {"down", "poll"} => Seen' = Seen
      BY <2>1 DEF Seen, ExportInv, ShapeInv, TypeOK, ExporterShape
    <3>2. ident < db'.inst
      BY <1>0, <2>1, CopyTypes DEF ExportInv, InstancesKnown, TypeOK
    <3>3. \A d \in Copies' : d.inst = Reference => d \in Copies
      <4>1. ident # db'.inst /\ disk.database # db'.inst
        BY <1>0, <2>1, <2>4, <3>2, CopyTypes DEF TypeOK
      <4> QED
        BY <2>2, <4>1 DEF Reference
    <3> QED
      BY <2>1, <3>1, <3>3 DEF ExportInv, PositionOfSeen, Reference
  <2>9. NotAhead'
    BY <1>0, <2>1, <2>4, CopyTypes DEF NotAhead
  <2>10. BatchOfCopies' /\ CopiesExported'
    BY <2>1, <2>6 DEF ExportInv, BatchOfCopies, CopiesExported, IsExported
  <2> QED
    BY <2>5, <2>7, <2>8, <2>9, <2>10 DEF CopyInv
<1>2. CASE LogIn
  <2> DEFINE n == Len(db.rows)
  <2>1. /\ db' = [db EXCEPT !.rows = Append(@, logins + 1)] /\ db.inst # 0 /\ ~restored
        /\ UNCHANGED <<backup, restored, instances, conn, orphan, ident, pc, disk, batch, trail>>
    BY <1>2 DEF LogIn
  <2>2. db \in Databases /\ n \in Nat /\ db.rows \in Seq(1 .. MaxLogins)
    BY <1>0 DEF TypeOK, Databases
  <2>3. /\ db'.inst = db.inst /\ Len(db'.rows) = n + 1
        /\ \A id \in 1 .. n : db'.rows[id] = db.rows[id]
    BY <2>1, <2>2 DEF Databases
  <2> HIDE DEF n
  <2>4. \A d \in Copies' : d = db' \/ (d \in Copies /\ (d.inst = db.inst => d = backup))
    BY <1>0, <2>1, CopyTypes DEF Copies, ExportInv, ShapeInv, ExporterShape, CopiesAgree
  <2>5. backup.inst = db.inst => Len(backup.rows) <= n
    BY DEF ExportInv, CopiesAgree, n
  <2>6. InstancesKnown'
    BY <1>0, <2>1, <2>3, <2>4, CopyTypes DEF ExportInv, InstancesKnown, Copies
  <2>7. CopiesAgree'
    <3>1. ASSUME backup.inst = db.inst, NEW id \in 1 .. Len(backup.rows)
          PROVE  id \in 1 .. n /\ backup.rows[id] = db'.rows[id]
      <4>1. id \in 1 .. n /\ id \in 1 .. Least(Len(backup.rows), Len(db.rows))
        BY <1>0, <2>2, <2>5, <3>1, CopyTypes DEF Copies, Least, n
      <4>2. backup.rows[id] = db.rows[id]
        BY <3>1, <4>1 DEF ExportInv, CopiesAgree, Copies
      <4> QED
        BY <2>3, <4>1, <4>2
    <3>2. ASSUME NEW d \in Copies', NEW e \in Copies', d.inst = e.inst,
                 NEW id \in 1 .. Least(Len(d.rows), Len(e.rows))
          PROVE  d.rows[id] = e.rows[id]
      <4>1. CASE d = db' /\ e = db'
        BY <4>1
      <4>2. CASE d # db' /\ e # db'
        BY <2>4, <3>2, <4>2 DEF ExportInv, CopiesAgree
      <4>3. CASE d = db' /\ e # db'
        <5>1. e = backup /\ backup.inst = db.inst
          BY <2>3, <2>4, <3>2, <4>3
        <5>2. id \in 1 .. Len(backup.rows)
          BY <1>0, <2>2, <2>3, <4>3, <5>1, CopyTypes DEF Least, Copies
        <5> QED
          BY <3>1, <4>3, <5>1, <5>2
      <4>4. CASE d # db' /\ e = db'
        <5>1. d = backup /\ backup.inst = db.inst
          BY <2>3, <2>4, <3>2, <4>4
        <5>2. id \in 1 .. Len(backup.rows)
          BY <1>0, <2>2, <2>3, <4>4, <5>1, CopyTypes DEF Least, Copies
        <5> QED
          BY <3>1, <4>4, <5>1, <5>2
      <4> QED
        BY <4>1, <4>2, <4>3, <4>4
    <3>3. backup'.inst = db'.inst => Len(backup'.rows) <= Len(db'.rows)
      BY <1>0, <2>1, <2>2, <2>3, <2>5, CopyTypes DEF Copies
    <3>4. conn' = "orphan" /\ ~restored' => orphan'.inst # db'.inst
      BY <2>1, <2>3 DEF ExportInv, CopiesAgree
    <3> QED
      BY <3>2, <3>3, <3>4 DEF CopiesAgree
  <2>8. PositionOfSeen'
    <3>1. Seen'.inst = Seen.inst
      BY <2>1, <2>3 DEF Seen
    <3> QED
      BY <2>1, <2>3, <2>4, <3>1 DEF ExportInv, PositionOfSeen, Reference, Copies
  <2>9. NotAhead'
    BY <1>0, <2>1, <2>2, <2>3, CopyTypes DEF ExportInv, NotAhead, n
  <2>10. db.inst = disk.database => disk.last_id + Len(batch) <= n
    BY <2>1 DEF ExportInv, NotAhead, n
  <2>11. BatchOfCopies'
    <3> SUFFICES ASSUME NEW d \in Copies', d.inst = disk.database, NEW k \in 1 .. Len(batch),
                        disk.last_id + k <= Len(d.rows)
                 PROVE  d.rows[disk.last_id + k] = batch[k].row
      BY <2>1 DEF BatchOfCopies
    <3>1. CASE d = db'
      <4>1. disk.last_id + k \in 1 .. n
        BY <1>0, <2>2, <2>3, <2>10, <3>1, CopyTypes
      <4>2. db.rows[disk.last_id + k] = batch[k].row
        BY <1>0, <2>2, <2>3, <3>1, <4>1, CopyTypes DEF ExportInv, BatchOfCopies, Copies, n
      <4> QED
        BY <2>3, <3>1, <4>1, <4>2
    <3>2. CASE d # db'
      BY <2>4, <3>2 DEF ExportInv, BatchOfCopies
    <3> QED
      BY <3>1, <3>2
  <2>12. CopiesExported'
    <3> SUFFICES ASSUME NEW d \in Copies', d.inst = disk.database,
                        NEW id \in 1 .. Least(Len(d.rows), disk.last_id)
                 PROVE  IsExported(d.rows[id])
      BY <2>1 DEF CopiesExported, IsExported
    <3>1. CASE d = db'
      <4>1. id \in 1 .. n /\ id \in 1 .. Least(Len(db.rows), disk.last_id)
        BY <1>0, <2>2, <2>3, <2>10, <3>1, CopyTypes DEF Least, n
      <4>2. IsExported(db.rows[id])
        BY <2>3, <3>1, <4>1 DEF ExportInv, CopiesExported, Copies
      <4> QED
        BY <2>3, <3>1, <4>1, <4>2
    <3>2. CASE d # db'
      BY <2>4, <3>2 DEF ExportInv, CopiesExported
    <3> QED
      BY <3>1, <3>2
  <2> QED
    BY <2>6, <2>7, <2>8, <2>9, <2>11, <2>12 DEF CopyInv
<1>3. ASSUME DeleteDatabase \/ TakeBackup \/ RestoreBackup
      PROVE  CopyInv'
  <2>1. /\ Copies' \subseteq Copies \cup {Absent}
        /\ UNCHANGED <<instances, ident, pc, disk, batch, trail>>
    BY <1>3 DEF DeleteDatabase, TakeBackup, RestoreBackup, Detach, Copies
  <2>2. InstancesKnown'
    BY <1>0, <2>1, CopyTypes DEF ExportInv, InstancesKnown
  <2>3. \A d \in Copies' : d.inst = disk.database =>
          d \in Copies \/ (d = Absent /\ disk.last_id = 0 /\ batch = << >>)
    BY <1>0, <2>1, CopyTypes DEF ExportInv, ShapeInv, ExporterShape
  <2>4. PositionOfSeen'
    <3> SUFFICES ASSUME pc \notin {"down", "poll"}, Seen'.inst # Reference, NEW d \in Copies'
                 PROVE  d.inst # Reference
      BY <2>1 DEF PositionOfSeen, Reference
    <3>1. Reference # 0 /\ conn # "closed" /\ (conn = "current" => orphan = Absent)
      BY DEF ExportInv, ShapeInv, TypeOK, ExporterShape, Reference
    <3>2. Seen' = Seen \/ (RestoreBackup /\ conn = "current" /\ conn' = conn /\ orphan' = orphan)
      BY <1>3, <3>1 DEF DeleteDatabase, TakeBackup, RestoreBackup, Detach, Seen, ExportInv, ShapeInv, TypeOK
    <3>3. CASE Seen' = Seen
      BY <1>0, <2>1, <3>1, <3>3, CopyTypes DEF ExportInv, PositionOfSeen, Reference
    <3>4. CASE RestoreBackup /\ conn = "current" /\ conn' = conn /\ orphan' = orphan
      <4>1. db' = backup /\ backup' = backup /\ Seen' = backup /\ orphan' = Absent
        BY <3>1, <3>4 DEF RestoreBackup, Seen
      <4> QED
        BY <1>0, <3>1, <4>1, CopyTypes DEF Copies
    <3> QED
      BY <3>2, <3>3, <3>4
  <2>5. CopiesAgree'
    <3>1. backup'.inst = db'.inst => Len(backup'.rows) <= Len(db'.rows)
      BY <1>0, <1>3, CopyTypes
         DEF DeleteDatabase, TakeBackup, RestoreBackup, ExportInv, CopiesAgree, InstancesKnown, Copies
    <3>2. conn' = "orphan" /\ ~restored' => orphan'.inst # db'.inst
      BY <1>0, <1>3, CopyTypes
         DEF DeleteDatabase, TakeBackup, RestoreBackup, Detach, ExportInv, ShapeInv, ExporterShape,
             CopiesAgree
    <3> QED
      BY <1>0, <2>1, <3>1, <3>2, AgreeKept DEF ExportInv, CopiesAgree
  <2>6. NotAhead'
    <3>1. CASE DeleteDatabase
      <4>1. db' = Absent
        BY <3>1 DEF DeleteDatabase
      <4> QED
        BY <1>0, <2>1, <4>1, CopyTypes DEF NotAhead, ExportInv, ShapeInv, ExporterShape
    <3>2. CASE TakeBackup
      BY <2>1, <3>2 DEF TakeBackup, ExportInv, NotAhead
    <3>3. CASE RestoreBackup
      BY <3>3 DEF RestoreBackup, NotAhead
    <3> QED
      BY <1>3, <3>1, <3>2, <3>3
  <2>7. BatchOfCopies'
    BY <2>1, <2>3 DEF ExportInv, BatchOfCopies
  <2>8. CopiesExported'
    <3> SUFFICES ASSUME NEW d \in Copies', d.inst = disk.database,
                        NEW id \in 1 .. Least(Len(d.rows), disk.last_id)
                 PROVE  IsExported(d.rows[id])
      BY <2>1 DEF CopiesExported, IsExported
    <3>1. d \in Copies
      BY <1>0, <2>3, CopyTypes DEF Least
    <3> QED
      BY <3>1 DEF ExportInv, CopiesExported
  <2> QED
    BY <2>2, <2>4, <2>5, <2>6, <2>7, <2>8 DEF CopyInv
<1> QED
  BY <1>1, <1>2, <1>3 DEF Environment

LEMMA CopyStep == QuietRestore /\ ExportInv /\ [Next]_vars => CopyInv'
<1> SUFFICES ASSUME QuietRestore, ExportInv, [Next]_vars
             PROVE  CopyInv'
  OBVIOUS
<1> USE DEF environment, round, Files
<1>0. ShapeInv /\ mem.database = 0 /\ pc = "reconcile" => AdoptedPosition = [database |-> ident, last_id |-> 0]
  BY SeenExists DEF AdoptedPosition, ShapeInv, ExporterShape
<1>1. CASE StartUp \/ Open \/ Rewind \/ EmitRow
  BY <1>1, CopyIdle DEF StartUp, Open, Rewind, EmitRow, Written
<1>2. CASE UNCHANGED vars \/ Sigterm
  <2>1. pc \in {"down", "poll", "reconcile", "rewind", "fetch", "emit", "save"} /\ pc' = pc
    BY <1>2 DEF ExportInv, ShapeInv, TypeOK, vars, Sigterm
  <2>2. UNCHANGED <<Files, orphan, disk, batch, trail, conn, ident>>
    BY <1>2 DEF vars, Sigterm
  <2> QED
    BY <2>1, <2>2, CopyIdle DEF Written
<1>3. CASE Unreadable \/ FetchNoMore \/ Stopped \/ Crash
  BY <1>3, CopyEnd DEF Unreadable, FetchNoMore, Stopped, Crash
<1>4. CASE Adopt
  BY <1>0, <1>4, CopyZero DEF Adopt, Save, ExportInv
<1>5. CASE Resume
  BY <1>5, CopyResume
<1>6. CASE SaveRewind
  BY <1>6, CopyZero DEF SaveRewind, Save, RewoundPosition
<1>7. CASE Fetch
  <2>1. CASE NewAttempts(mem.last_id, Limit) = << >>
    BY <1>7, <2>1, CopyEnd DEF Fetch
  <2> QED
    BY <1>7, <2>1, CopyFetch
<1>8. CASE SaveRow
  BY <1>8, CopyRow DEF SaveRow, Save
<1>9. CASE SaveFails
  <2>1. CASE disk' = disk
    BY <1>9, <2>1, CopyEnd DEF SaveFails
  <2>2. CASE pc \in {"reconcile", "rewind"} /\ disk' = [database |-> ident, last_id |-> 0]
    BY <1>9, <2>2, CopyZero DEF SaveFails
  <2>3. CASE pc = "save" /\ disk' = RowPosition
    BY <1>9, <2>3, CopyRow DEF SaveFails
  <2> QED
    BY <1>0, <1>9, <2>1, <2>2, <2>3 DEF SaveFails, RewoundPosition, ExportInv
<1>10. CASE Environment
  BY <1>10, CopyEnvironment
<1> QED
  BY <1>1, <1>2, <1>3, <1>4, <1>5, <1>6, <1>7, <1>8, <1>9, <1>10 DEF Next, ExporterStep, NotReady

(* Nothing is skipped: with no login between a restore and the comparison  *)
(* that follows it, every row of the present database up to the saved      *)
(* position is in the trail.                                               *)
THEOREM ExportSkipsNothing == QuietRestore => (Spec => []NoneSkipped)
<1> SUFFICES ASSUME QuietRestore
             PROVE  Spec => []NoneSkipped
  OBVIOUS
<1>1. Init => ExportInv
  <2> SUFFICES ASSUME Init
               PROVE  ExportInv
    OBVIOUS
  <2>1. ExporterShape /\ EventFirst /\ BatchFollows
    BY DEF Init, ExporterShape, EventFirst, BatchFollows, Start0, Absent
  <2>2. TypeOK /\ \A d \in Copies : d = Absent
    BY TypeInit DEF Init, Copies
  <2>3. InstancesKnown
    BY <2>2, CopyTypes DEF Init, InstancesKnown, Start0
  <2>4. CopiesAgree /\ CopiesExported
    BY <2>2, CopyTypes DEF Init, CopiesAgree, CopiesExported, Least, Copies
  <2>5. PositionOfSeen /\ BatchOfCopies /\ NotAhead
    BY DEF Init, PositionOfSeen, BatchOfCopies, NotAhead, Start0, Absent
  <2> QED
    BY <2>1, <2>2, <2>3, <2>4, <2>5 DEF ExportInv, ShapeInv
<1>2. ExportInv /\ [Next]_vars => ExportInv'
  BY ShapeStep, CopyStep DEF ExportInv, CopyInv
<1>3. ExportInv => NoneSkipped
  BY DEF ExportInv, CopiesExported, NoneSkipped, Copies
<1> QED
  BY <1>1, <1>2, <1>3, PTL DEF Spec

-----------------------------------------------------------------------------
(* No rewind by mistake. While there was one database and no restore, what *)
(* the position refers to is never ahead of a file a connection may read,  *)
(* and a connection to a file that was deleted is the only way to one.     *)
OneDatabase ==
  /\ disk.database <= instances /\ ident <= instances
  /\ db.inst <= instances /\ orphan.inst <= instances
  /\ conn = "orphan" => db.inst = 0

NotAheadOfFiles ==
  \A d \in {db, orphan} :
    d.inst # 0 /\ d.inst = disk.database => disk.last_id + Len(batch) <= Len(d.rows)

NoRewindYet ==
  /\ pc # "rewind"
  /\ \A k \in 1 .. Len(trail) : trail[k].kind # "rewind"

Undisturbed == instances <= 1 /\ restores = 0

UndisturbedInv == Undisturbed => OneDatabase /\ NotAheadOfFiles /\ NoRewindYet

LEMMA FileTypes ==
  ASSUME TypeOK
  PROVE  /\ instances \in Nat /\ restores \in Nat
         /\ disk.database \in Nat /\ disk.last_id \in Nat /\ ident \in Nat
         /\ db.inst \in Nat /\ Len(db.rows) \in Nat
         /\ orphan.inst \in Nat /\ Len(orphan.rows) \in Nat
         /\ Seen.inst \in Nat /\ Len(Seen.rows) \in Nat
         /\ Len(batch) \in Nat
         /\ Absent.inst = 0 /\ Len(Absent.rows) = 0
<1>1. /\ instances \in Nat /\ restores \in Nat /\ Len(batch) \in Nat
      /\ disk.database \in Nat /\ disk.last_id \in Nat /\ ident \in Nat
  BY BoundsTyped DEF TypeOK, ExportState
<1>2. \A d \in Databases : d.inst \in Nat /\ Len(d.rows) \in Nat
  BY BoundsTyped DEF Databases
<1>3. db \in Databases /\ orphan \in Databases /\ Seen \in Databases
  BY DEF TypeOK, Seen
<1> QED
  BY <1>1, <1>2, <1>3 DEF Absent

(* In a round, the position is of the database that is read, and behind it. *)
LEMMA NothingToRewind ==
  ASSUME ShapeInv, Undisturbed, UndisturbedInv, pc \notin {"down", "poll"}
  PROVE  /\ ident = 1 /\ Seen.inst = 1
         /\ disk.database # 0 => disk.database = ident /\ ~SequenceBehind
<1>1. TypeOK /\ mem = disk /\ Seen.inst # 0 /\ ident # 0 /\ Seen \in {db, orphan}
  BY SeenExists DEF ShapeInv, Seen
<1>2. OneDatabase /\ NotAheadOfFiles /\ instances <= 1
  BY DEF Undisturbed, UndisturbedInv
<1>3. ident = 1 /\ Seen.inst = 1
  BY <1>1, <1>2, FileTypes DEF OneDatabase
<1>4. ASSUME disk.database # 0
      PROVE  disk.database = ident /\ ~SequenceBehind
  <2>1. disk.database = 1
    BY <1>1, <1>2, <1>4, FileTypes, SMTT(30) DEF OneDatabase
  <2>2. disk.last_id + Len(batch) <= Len(Seen.rows)
    BY <1>1, <1>2, <1>3, <2>1 DEF NotAheadOfFiles
  <2> QED
    BY <1>1, <1>3, <2>1, <2>2, FileTypes DEF SequenceBehind
<1> QED
  BY <1>3, <1>4

(* The position and the rows in hand come from the database that is read.  *)
LEMMA RoundIsUndisturbed ==
  ASSUME ShapeInv, Undisturbed, UndisturbedInv, UNCHANGED <<db, instances>>,
         \/ UNCHANGED <<conn, orphan, ident>> /\ pc \notin {"down", "poll"}
         \/ (EndRound \/ Down),
         \/ disk' = disk /\ batch' = batch
         \/ disk' \in {disk, [database |-> ident, last_id |-> 0]} /\ batch' = << >>
         \/ /\ disk' = [database |-> disk.database, last_id |-> disk.last_id + 1]
            /\ batch # << >> /\ batch' \in {<< >>, Tail(batch)}
         \/ disk' = disk /\ disk.database = ident /\ disk.last_id + Len(batch') <= Len(Seen.rows)
            /\ batch' \in Seq(Rows)
            /\ UNCHANGED <<conn, orphan, ident>>
  PROVE  OneDatabase' /\ NotAheadOfFiles'
<1>1. TypeOK /\ OneDatabase /\ NotAheadOfFiles /\ instances <= 1
  BY DEF ShapeInv, Undisturbed, UndisturbedInv
<1>2. orphan' = orphan \/ orphan' = Absent
  BY DEF EndRound, Down
<1>3. /\ disk'.database \in {disk.database, ident}
      /\ disk'.database \in Nat
  BY <1>1, FileTypes
<1>4. OneDatabase'
  BY <1>1, <1>2, <1>3, FileTypes, SMTT(30) DEF OneDatabase, EndRound, Down
<1>5. ASSUME NEW d \in {db, orphan}, d.inst # 0, d.inst = disk'.database
      PROVE  disk'.last_id + Len(batch') <= Len(d.rows)
  <2>0. Len(d.rows) \in Nat
    BY <1>1, FileTypes
  <2>1. CASE disk' = disk /\ batch' = batch
    BY <1>1, <1>5, <2>1 DEF NotAheadOfFiles
  <2>2. CASE disk' = disk /\ batch' = << >>
    BY <1>1, <1>5, <2>2, FileTypes, SMTT(30) DEF NotAheadOfFiles
  <2>3. CASE disk' = [database |-> ident, last_id |-> 0] /\ batch' = << >>
    BY <2>0, <2>3
  <2>4. CASE /\ disk' = [database |-> disk.database, last_id |-> disk.last_id + 1]
             /\ batch # << >> /\ batch' \in {<< >>, Tail(batch)}
    <3>1. disk.last_id + Len(batch) <= Len(d.rows)
      BY <1>1, <1>5, <2>4 DEF NotAheadOfFiles
    <3>2. Len(batch') \in Nat /\ Len(batch') + 1 <= Len(batch)
      BY <1>1, <2>4, BatchTail
    <3> QED
      <4>1. disk'.last_id = disk.last_id + 1
        BY <2>4
      <4>2. disk.last_id \in Nat /\ Len(batch) \in Nat
        BY <1>1, FileTypes
      <4> QED
        BY ONLY <2>0, <3>1, <3>2, <4>1, <4>2
  <2>5. CASE /\ disk' = disk /\ disk.database = ident
             /\ disk.last_id + Len(batch') <= Len(Seen.rows)
             /\ UNCHANGED <<conn, orphan, ident>>
    <3>1. d.inst <= 1 /\ d.inst \in Nat
      BY <1>1, FileTypes DEF OneDatabase
    <3>2. d = Seen
      BY <1>1, <1>5, <2>5 DEF OneDatabase, Seen, ShapeInv, ExporterShape, Absent
    <3> QED
      BY <2>5, <3>2
  <2> QED
    BY <2>1, <2>2, <2>3, <2>4, <2>5
<1>6. NotAheadOfFiles'
  <2> SUFFICES ASSUME NEW d \in {db, orphan'}, d.inst # 0, d.inst = disk'.database
               PROVE  disk'.last_id + Len(batch') <= Len(d.rows)
    BY DEF NotAheadOfFiles
  <2> QED
    BY <1>2, <1>5 DEF Absent
<1> QED
  BY <1>4, <1>6

LEMMA UndisturbedStep ==
  ASSUME ShapeInv, UndisturbedInv, [Next]_vars, Undisturbed'
  PROVE  OneDatabase' /\ NotAheadOfFiles' /\ NoRewindYet'
<1> USE DEF environment, round, Exporter
<1>0. TypeOK
  BY DEF ShapeInv
<1>1. Undisturbed /\ restores' = restores /\ instances <= instances'
  BY <1>0, FileTypes
     DEF Undisturbed, Next, ExporterStep, Environment, StartUp, NotReady, Open, Adopt, Resume,
         Rewind, SaveRewind, Fetch, FetchNoMore, EmitRow, SaveRow, Stopped, Unreadable, Sigterm,
         Crash, SaveFails, CreateDatabase, LogIn, DeleteDatabase, TakeBackup, RestoreBackup, vars
<1>2. OneDatabase /\ NotAheadOfFiles /\ NoRewindYet /\ instances <= 1
  BY <1>1 DEF UndisturbedInv, Undisturbed
<1>3. ASSUME trail' = trail, pc' # "rewind"
      PROVE  NoRewindYet'
  BY <1>2, <1>3 DEF NoRewindYet
<1>4. ASSUME NEW e, e.kind # "rewind", trail' = Append(trail, e), pc' # "rewind"
      PROVE  NoRewindYet'
  <2>1. \A k \in 1 .. Len(trail') : trail'[k] = e \/ (k \in 1 .. Len(trail) /\ trail'[k] = trail[k])
    BY <1>0, <1>4 DEF TypeOK
  <2> QED
    BY <1>2, <1>4, <2>1 DEF NoRewindYet
<1>5. CASE UNCHANGED vars \/ NotReady \/ Sigterm \/ TakeBackup
  <2>1. UNCHANGED <<db, orphan, conn, ident, disk, batch, trail, pc, instances>>
    BY <1>5 DEF vars, NotReady, Sigterm, TakeBackup
  <2>2. OneDatabase' /\ NotAheadOfFiles'
    BY <1>2, <2>1 DEF OneDatabase, NotAheadOfFiles
  <2> QED
    BY <1>2, <1>3, <2>1, <2>2 DEF NoRewindYet
<1>6. CASE StartUp
  <2>1. NoRewindYet'
    BY <1>4, <1>6 DEF StartUp, ConfigEvent, Ledger!ConfigEvent, Ledger!Event
  <2>2. UNCHANGED <<db, orphan, conn, ident, disk, batch, instances>>
    BY <1>6 DEF StartUp
  <2> QED
    BY <1>2, <2>1, <2>2 DEF OneDatabase, NotAheadOfFiles
<1>7. CASE Open
  BY <1>0, <1>2, <1>3, <1>7, FileTypes DEF Open, OneDatabase, NotAheadOfFiles
<1>8. CASE Unreadable \/ FetchNoMore \/ Stopped \/ Crash
  <2>1. trail' = trail /\ pc' # "rewind" /\ UNCHANGED <<db, instances, disk>> /\ batch' = << >>
    BY <1>8 DEF Unreadable, FetchNoMore, Stopped, Crash, EndRound, Down
  <2>2. EndRound \/ Down
    BY <1>8 DEF Unreadable, FetchNoMore, Stopped, Crash
  <2> QED
    BY <1>1, <1>3, <2>1, <2>2, RoundIsUndisturbed
<1>9. CASE Adopt
  <2>1. /\ disk' = [database |-> ident, last_id |-> 0]
        /\ batch = << >> /\ batch' = << >>
    BY <1>9 DEF Adopt, Save, AdoptedPosition, ShapeInv, ExporterShape
  <2>2. /\ UNCHANGED <<db, instances, conn, orphan, ident, trail>>
        /\ pc \notin {"down", "poll"} /\ pc' # "rewind"
    BY <1>9 DEF Adopt
  <2> QED
    BY <1>1, <1>3, <2>1, <2>2, RoundIsUndisturbed
<1>10. CASE Resume
  <2>1. /\ UNCHANGED <<db, instances, conn, orphan, ident, trail, disk, batch>>
        /\ pc \notin {"down", "poll"} /\ pc' # "rewind"
    BY <1>10 DEF Resume
  <2> QED
    BY <1>1, <1>3, <2>1, RoundIsUndisturbed
<1>11. CASE Rewind
  <2>1. disk = mem /\ disk.database # 0 /\ (disk.database # ident \/ SequenceBehind)
    BY <1>11, SeenExists DEF Rewind
  <2> QED
    BY <1>1, <1>11, <2>1, NothingToRewind DEF Rewind
<1>12. CASE SaveRewind
  BY <1>2, <1>12 DEF SaveRewind, NoRewindYet
<1>13. CASE Fetch
  <2>1. trail' = trail /\ pc' # "rewind" /\ UNCHANGED <<db, instances, disk>> /\ pc \notin {"down", "poll"}
    BY <1>13 DEF Fetch, EndRound
  <2>2. CASE NewAttempts(mem.last_id, Limit) = << >>
    <3>1. EndRound /\ batch' = << >>
      BY <1>13, <2>2 DEF Fetch, EndRound
    <3> QED
      BY <1>1, <1>3, <2>1, <3>1, RoundIsUndisturbed
  <2>3. CASE NewAttempts(mem.last_id, Limit) # << >>
    <3>1. mem = disk /\ disk.database = ident
      BY <1>1, <2>1, <1>13, NothingToRewind DEF Fetch, ShapeInv, ExporterShape
    <3>2. Limit \in Nat /\ mem.last_id \in Nat
      BY <1>0, <1>13, BoundsTyped DEF Fetch, Limit, Least, TypeOK, ExportState
    <3>3. batch' = NewAttempts(mem.last_id, Limit) /\ UNCHANGED <<conn, orphan, ident>>
      BY <1>13, <2>3 DEF Fetch
    <3>4. batch' \in Seq(Rows) /\ disk.last_id + Len(batch') <= Len(Seen.rows)
      BY <1>0, <2>3, <3>1, <3>2, <3>3, NewAttemptsSpec
    <3> QED
      BY <1>1, <1>3, <2>1, <3>1, <3>3, <3>4, RoundIsUndisturbed
  <2> QED
    BY <2>2, <2>3
<1>14. CASE EmitRow
  <2>1. NoRewindYet'
    BY <1>4, <1>14 DEF EmitRow, AuthEvent, Ledger!AuthEvent, Ledger!Event
  <2>2. UNCHANGED <<db, orphan, conn, ident, disk, batch, instances>>
    BY <1>14 DEF EmitRow
  <2> QED
    BY <1>2, <2>1, <2>2 DEF OneDatabase, NotAheadOfFiles
<1>15. ASSUME pc = "save"
       PROVE  /\ batch # << >> /\ mem = disk
              /\ RowPosition = [database |-> disk.database, last_id |-> disk.last_id + 1]
  <2>1. batch # << >> /\ mem = disk /\ Head(batch) = batch[1] /\ 1 \in 1 .. Len(batch)
    BY <1>0, <1>15, BatchTail DEF ShapeInv, ExporterShape
  <2>2. Head(batch).id = disk.last_id + 1
    BY <2>1 DEF ShapeInv, BatchFollows
  <2> QED
    BY <2>1, <2>2 DEF RowPosition
<1>16. CASE SaveRow
  <2>1. pc = "save" /\ disk' = RowPosition /\ UNCHANGED <<db, instances, trail>>
    BY <1>16 DEF SaveRow, Save
  <2>2. CASE EndRound
    <3>1. batch' = << >> /\ pc' # "rewind"
      BY <2>2 DEF EndRound
    <3> QED
      BY <1>1, <1>3, <1>15, <2>1, <2>2, <3>1, RoundIsUndisturbed
  <2>3. CASE batch' = Tail(batch) /\ UNCHANGED <<conn, orphan, ident>> /\ pc' \in {"fetch", "emit"}
    BY <1>1, <1>3, <1>15, <2>1, <2>3, RoundIsUndisturbed
  <2> QED
    BY <1>16, <2>2, <2>3 DEF SaveRow
<1>17. CASE SaveFails
  <2>1. Down /\ batch' = << >> /\ pc' # "rewind" /\ UNCHANGED <<db, instances, trail>> /\ pc # "rewind"
    BY <1>2, <1>17 DEF SaveFails, Down, NoRewindYet
  <2>2. CASE disk' = disk
    BY <1>1, <1>3, <2>1, <2>2, RoundIsUndisturbed
  <2>3. CASE pc = "reconcile" /\ mem.database = 0 /\ disk' = AdoptedPosition
    <3>1. disk' = [database |-> ident, last_id |-> 0]
      BY <2>3 DEF AdoptedPosition, ShapeInv, ExporterShape
    <3> QED
      BY <1>1, <1>3, <2>1, <3>1, RoundIsUndisturbed
  <2>4. CASE pc = "save" /\ disk' = RowPosition
    BY <1>1, <1>3, <1>15, <2>1, <2>4, RoundIsUndisturbed
  <2> QED
    BY <1>17, <2>1, <2>2, <2>3, <2>4 DEF SaveFails
<1>18. CASE CreateDatabase
  <2>1. instances' = instances + 1 /\ instances = 0
    BY <1>0, <1>18, FileTypes DEF CreateDatabase, Undisturbed
  <2>2. /\ db' = [inst |-> 1, rows |-> << >>]
        /\ UNCHANGED <<orphan, conn, ident, disk, batch, trail, pc>>
    BY <1>18, <2>1 DEF CreateDatabase
  <2>3. disk.database = 0 /\ orphan.inst = 0 /\ conn # "orphan"
    BY <1>0, <1>2, <2>1, FileTypes DEF OneDatabase, ShapeInv, ExporterShape
  <2>4. OneDatabase'
    BY <1>0, <1>2, <2>1, <2>2, <2>3, FileTypes DEF OneDatabase
  <2>5. NotAheadOfFiles'
    BY <2>2, <2>3 DEF NotAheadOfFiles
  <2> QED
    BY <1>2, <1>3, <2>2, <2>4, <2>5 DEF NoRewindYet
<1>19. CASE LogIn
  <2>1. /\ UNCHANGED <<orphan, conn, ident, disk, batch, trail, pc, instances>>
        /\ db'.inst = db.inst /\ Len(db'.rows) = Len(db.rows) + 1
    BY <1>0, <1>19 DEF LogIn, TypeOK, Databases
  <2>2. OneDatabase'
    BY <1>2, <2>1 DEF OneDatabase
  <2>3. NotAheadOfFiles'
    <3> SUFFICES ASSUME NEW d \in {db', orphan}, d.inst # 0, d.inst = disk.database
                 PROVE  disk.last_id + Len(batch) <= Len(d.rows)
      BY <2>1 DEF NotAheadOfFiles
    <3>1. CASE d = orphan
      BY <1>2, <3>1 DEF NotAheadOfFiles
    <3>2. CASE d = db'
      <4>1. disk.last_id + Len(batch) <= Len(db.rows)
        BY <1>2, <2>1, <3>2 DEF NotAheadOfFiles
      <4> QED
        BY <1>0, <2>1, <3>2, <4>1, FileTypes, SMTT(30)
    <3> QED
      BY <3>1, <3>2
  <2> QED
    BY <1>2, <1>3, <2>1, <2>2, <2>3 DEF NoRewindYet
<1>20. CASE DeleteDatabase
  <2>1. /\ UNCHANGED <<ident, disk, batch, trail, pc, instances>>
        /\ db' = Absent
        /\ orphan' \in {db, orphan}
    BY <1>20 DEF DeleteDatabase, Detach
  <2>2. OneDatabase'
    BY <1>0, <1>2, <2>1, FileTypes DEF OneDatabase
  <2>3. NotAheadOfFiles'
    BY <1>0, <1>2, <2>1, FileTypes DEF NotAheadOfFiles
  <2> QED
    BY <1>2, <1>3, <2>1, <2>2, <2>3 DEF NoRewindYet
<1>21. CASE RestoreBackup
  BY <1>0, <1>1, <1>21, FileTypes DEF RestoreBackup
<1> QED
  BY <1>5, <1>6, <1>7, <1>8, <1>9, <1>10, <1>11, <1>12, <1>13, <1>14, <1>16, <1>17, <1>18, <1>19,
     <1>20, <1>21 DEF Next, ExporterStep, Environment

(* A rewind is never a mistake: with one database and no restore, no crash, *)
(* failed save, locked or missing file makes the export start over.        *)
THEOREM ExportRewindsForCause == Spec => []NoSpuriousRewind
<1>1. Init => UndisturbedInv
  <2> SUFFICES ASSUME Init
               PROVE  OneDatabase /\ NotAheadOfFiles /\ NoRewindYet
    BY DEF UndisturbedInv
  <2> QED
    BY DEF Init, OneDatabase, NotAheadOfFiles, NoRewindYet, Start0, Absent
<1>2. ShapeInv /\ UndisturbedInv /\ [Next]_vars => UndisturbedInv'
  BY UndisturbedStep DEF UndisturbedInv
<1>3. UndisturbedInv => NoSpuriousRewind
  BY DEF UndisturbedInv, Undisturbed, NoRewindYet, NoSpuriousRewind
<1> QED
  BY <1>1, <1>2, <1>3, ShapeAlways, PTL DEF Spec

=============================================================================
