----------------------------- MODULE AuthExport -----------------------------
(***************************************************************************)
(* The export of Authelia's table authentication_logs into the audit trail *)
(* (src/audit/edge_audit.py: AuthLogExporter and the loop of serve), with  *)
(* the things that happen to it: Authelia keeps logging, its database is   *)
(* deleted or restored from a backup while a connection is open, a query   *)
(* finds the file locked, an event or the position cannot be written, the  *)
(* container is stopped or killed between any two steps and started again. *)
(*                                                                         *)
(* A login attempt is a number: the n-th attempt of the whole history.     *)
(* Nothing in the export looks at more of an attempt than its row id.      *)
(***************************************************************************)
EXTENDS Integers, Sequences

CONSTANTS
  BatchRows,      \* BATCH_ROWS: rows per query
  RoundRows,      \* ROUND_ROWS: rows per poll
  QuietRestore,   \* TRUE: after a restore nobody logs in before the exporter
                  \* has compared its position with the restored database
  MaxLogins,      \* bounds of the exploration: attempts in the history,
  MaxInstances,   \* databases Authelia creates,
  MaxRestores,    \* backups put back,
  MaxFaults       \* crashes, failed writes and stops

ASSUME RowsAssumption == BatchRows \in Nat \ {0} /\ RoundRows \in Nat \ {0}
ASSUME QuietAssumption == QuietRestore \in BOOLEAN
ASSUME BoundsAssumption ==
  /\ MaxLogins \in Nat
  /\ MaxInstances \in Nat
  /\ MaxRestores \in Nat
  /\ MaxFaults \in Nat

VARIABLES
  db,         \* the database file: which instance it is, and its rows in id order
  backup,     \* the last copy of it an operator kept
  restored,   \* a backup was put back and no poll has compared with it since
  pc,         \* where the exporter is
  conn,       \* its connection: "closed", to the "current" file, or to an
              \* "orphan" that was replaced under it
  orphan,     \* what an orphan connection still reads
  ident,      \* the identity database_id read when the round began
  mem,        \* AuthLogExporter._state
  disk,       \* auth-export.json, the saved position
  batch,      \* rows fetched and not yet exported
  short,      \* the query returned fewer rows than it asked for
  exported,   \* rows exported in this round
  stop,       \* the stop event: SIGTERM was received
  trail,      \* the events written, oldest first
  logins, instances, restores, faults   \* how often each happened

environment == <<db, backup, restored, logins, instances, restores>>
round       == <<conn, orphan, ident, batch, short, exported>>
vars        == <<environment, round, pc, mem, disk, stop, trail, faults>>

-----------------------------------------------------------------------------
(* Databases, positions and events.                                        *)

Absent == [inst |-> 0, rows |-> << >>]      \* no file, or no schema in it yet

Databases == [inst : 0 .. MaxInstances, rows : Seq(1 .. MaxLogins)]

ExportState == [database : 0 .. MaxInstances, last_id : Nat]

Start0 == [database |-> 0, last_id |-> 0]   \* ExportState(): nothing exported yet

(* The trail, read as the ledger the export promises.                      *)
Ledger == INSTANCE TrailLedger WITH
            Attempts <- 1 .. MaxLogins, written <- trail, saved <- disk.last_id

AuthEvent(r)   == Ledger!AuthEvent(r.id, r.row)
RewindEvent(n) == Ledger!RewindEvent(n)
ConfigEvent(n) == Ledger!ConfigEvent(n)

Rows == [id : Nat \ {0}, row : 1 .. MaxLogins]

IsExported(login) ==
  \E k \in 1 .. Len(trail) : trail[k].kind = "auth" /\ trail[k].row = login

Least(a, b) == IF a < b THEN a ELSE b

(* What the open connection reads: each query is a transaction of its own  *)
(* and sees the rows of that moment, but only of the file it opened.       *)
Seen == IF conn = "orphan" THEN orphan ELSE db

(* A defect: WHERE id >= after.                                            *)
NewAttempts_FromLast(after, limit) ==
  LET first == IF after = 0 THEN 1 ELSE after IN
  [k \in 1 .. (Least(Len(Seen.rows), first + limit - 1) - first + 1) |->
     [id |-> first + k - 1, row |-> Seen.rows[first + k - 1]]]

(* SELECT ... WHERE id > after ORDER BY id LIMIT limit                     *)
NewAttempts(after, limit) ==
  [k \in 1 .. (Least(Len(Seen.rows), after + limit) - after) |->
     [id |-> after + k, row |-> Seen.rows[after + k]]]

(* Two defects of the comparison: one id too lenient, one too strict.      *)
SequenceBehind_ByTwo   == Len(Seen.rows) + 1 < mem.last_id
SequenceBehind_OrEqual == Len(Seen.rows) <= mem.last_id

(* last_allocated_id(conn) < self._state.last_id                           *)
SequenceBehind == Len(Seen.rows) < mem.last_id

-----------------------------------------------------------------------------
Init ==
  /\ db = Absent /\ backup = Absent /\ restored = FALSE
  /\ pc = "down" /\ conn = "closed" /\ orphan = Absent /\ ident = 0
  /\ mem = Start0 /\ disk = Start0
  /\ batch = << >> /\ short = FALSE /\ exported = 0
  /\ stop = FALSE /\ trail = << >>
  /\ logins = 0 /\ instances = 0 /\ restores = 0 /\ faults = 0

(* serve up to its loop: the position is loaded, and the config.audit      *)
(* event tells where the export resumes. A start that fails on the way     *)
(* writes no event of this model and changes nothing.                      *)
StartUp ==
  /\ pc = "down"
  /\ mem' = disk
  /\ trail' = Append(trail, ConfigEvent(disk.last_id))
  /\ stop' = FALSE
  /\ pc' = "poll"
  /\ UNCHANGED <<environment, round, disk, faults>>

(* A defect: the rows of earlier rounds count against the cap.             *)
EndRound_KeepsCount ==
  /\ pc' = "poll"
  /\ conn' = "closed" /\ orphan' = Absent /\ ident' = 0
  /\ batch' = << >> /\ short' = FALSE /\ exported' = exported

(* The finally of poll: whatever ends a round closes the connection and    *)
(* drops what the round had in hand.                                       *)
EndRound ==
  /\ pc' = "poll"
  /\ conn' = "closed" /\ orphan' = Absent /\ ident' = 0
  /\ batch' = << >> /\ short' = FALSE /\ exported' = 0

(* poll finds no file, or no schema in it: it returns None.                *)
NotReady ==
  /\ pc = "poll" /\ ~stop
  /\ db.inst = 0
  /\ UNCHANGED vars

(* poll opens the file, finds a schema in it and notes whose it is: the    *)
(* identity is used until the round ends, whatever happens to the file.    *)
Open ==
  /\ pc = "poll" /\ ~stop
  /\ db.inst # 0
  /\ conn' = "current" /\ ident' = db.inst
  /\ pc' = "reconcile"
  /\ UNCHANGED <<environment, orphan, batch, short, exported, mem, disk, stop, trail, faults>>

(* The file is locked or damaged for a moment: sqlite3.Error ends the      *)
(* round and the loop tries again after the interval. In database_id a     *)
(* locked file counts as one without a schema, which comes to the same.    *)
Unreadable ==
  /\ pc \in {"reconcile", "fetch"}
  /\ EndRound
  /\ UNCHANGED <<environment, mem, disk, stop, trail, faults>>

(* The restored file has now been compared with, if it is the one open.    *)
Compared == restored' = (restored /\ conn # "current")

(* _save: the file first, then the memory.                                 *)
Save(position) ==
  /\ disk' = position
  /\ mem' = position

(* A defect: ids start over before the first one.                          *)
RewoundPosition_MinusOne == [database |-> ident, last_id |-> 0 - 1]

(* The positions _reconcile, _rewind and _export save.                     *)
AdoptedPosition == [database |-> ident, last_id |-> mem.last_id]
RewoundPosition == [database |-> ident, last_id |-> 0]
RowPosition     == [database |-> mem.database, last_id |-> Head(batch).id]

(* A defect: whatever database is there is adopted.                        *)
Adopt_Any ==
  /\ pc = "reconcile"
  /\ Save(AdoptedPosition)
  /\ Compared
  /\ pc' = "fetch"
  /\ UNCHANGED <<db, backup, logins, instances, restores, round, stop, trail, faults>>

(* _reconcile with a position that names no database yet: adopt this one.  *)
Adopt ==
  /\ pc = "reconcile"
  /\ mem.database = 0
  /\ Save(AdoptedPosition)
  /\ Compared
  /\ pc' = "fetch"
  /\ UNCHANGED <<db, backup, logins, instances, restores, round, stop, trail, faults>>

(* _reconcile with a position that still refers to this database.          *)
Resume ==
  /\ pc = "reconcile"
  /\ mem.database = ident
  /\ ~SequenceBehind
  /\ Compared
  /\ pc' = "fetch"
  /\ UNCHANGED <<db, backup, logins, instances, restores, round, mem, disk, stop, trail, faults>>

(* A defect: the position is given up without an event.                    *)
Rewind_Silent ==
  /\ pc = "reconcile"
  /\ mem.database # 0
  /\ mem.database # ident \/ SequenceBehind
  /\ pc' = "rewind"
  /\ UNCHANGED <<environment, round, mem, disk, stop, trail, faults>>

(* _rewind, reached when the database is another one or hands out ids      *)
(* again: first the event that says so ...                                 *)
Rewind ==
  /\ pc = "reconcile"
  /\ mem.database # 0
  /\ mem.database # ident \/ SequenceBehind
  /\ trail' = Append(trail, RewindEvent(mem.last_id))
  /\ pc' = "rewind"
  /\ UNCHANGED <<environment, round, mem, disk, stop, faults>>

(* ... then the position, at the start of this database.                   *)
SaveRewind ==
  /\ pc = "rewind"
  /\ Save(RewoundPosition)
  /\ Compared
  /\ pc' = "fetch"
  /\ UNCHANGED <<db, backup, logins, instances, restores, round, stop, trail, faults>>

-----------------------------------------------------------------------------
(* _export: query, then one event and one saved position per row.          *)

Limit == Least(BatchRows, RoundRows - exported)

Fetch ==
  /\ pc = "fetch"
  /\ exported < RoundRows /\ ~stop
  /\ LET rows == NewAttempts(mem.last_id, Limit) IN
       IF rows = << >>
         THEN EndRound
         ELSE /\ batch' = rows
              /\ short' = (Len(rows) < Limit)
              /\ pc' = "emit"
              /\ UNCHANGED <<conn, orphan, ident, exported>>
  /\ UNCHANGED <<environment, mem, disk, stop, trail, faults>>

FetchNoMore ==
  /\ pc = "fetch"
  /\ exported >= RoundRows \/ stop
  /\ EndRound
  /\ UNCHANGED <<environment, mem, disk, stop, trail, faults>>

EmitRow ==
  /\ pc = "emit"
  /\ trail' = Append(trail, AuthEvent(Head(batch)))
  /\ pc' = "save"
  /\ UNCHANGED <<environment, round, mem, disk, stop, faults>>

SaveRow ==
  /\ pc = "save"
  /\ Save(RowPosition)
  /\ \/ /\ stop \/ (Tail(batch) = << >> /\ short)
        /\ EndRound
     \/ /\ ~stop /\ ~(Tail(batch) = << >> /\ short)
        /\ batch' = Tail(batch)
        /\ exported' = exported + 1
        /\ pc' = IF Tail(batch) = << >> THEN "fetch" ELSE "emit"
        /\ UNCHANGED <<conn, orphan, ident, short>>
  /\ UNCHANGED <<environment, stop, trail, faults>>

-----------------------------------------------------------------------------
(* What ends the process: only the files survive.                          *)

Down ==
  /\ pc' = "down"
  /\ mem' = Start0
  /\ stop' = FALSE
  /\ conn' = "closed" /\ orphan' = Absent /\ ident' = 0
  /\ batch' = << >> /\ short' = FALSE /\ exported' = 0

(* A clean stop: serve leaves its loop between two rounds.                 *)
Stopped ==
  /\ pc = "poll" /\ stop
  /\ Down
  /\ UNCHANGED <<environment, disk, trail, faults>>

Sigterm ==
  /\ pc # "down" /\ ~stop
  /\ faults < MaxFaults
  /\ stop' = TRUE
  /\ faults' = faults + 1
  /\ UNCHANGED <<environment, round, pc, mem, disk, trail>>

(* The process is killed, or an event could not be written                 *)
(* (AuditWriteError: the row stays unexported and serve returns 1).        *)
Crash ==
  /\ pc # "down"
  /\ faults < MaxFaults
  /\ Down
  /\ faults' = faults + 1
  /\ UNCHANGED <<environment, disk, trail>>

(* save_state raises StateError and serve returns 1. The rename is atomic, *)
(* but the sync of the directory after it can fail too: then the file      *)
(* already holds the new position.                                         *)
SaveFails ==
  /\ faults < MaxFaults
  /\ \/ pc = "reconcile" /\ mem.database = 0 /\ disk' \in {disk, AdoptedPosition}
     \/ pc = "rewind" /\ disk' \in {disk, RewoundPosition}
     \/ pc = "save" /\ disk' \in {disk, RowPosition}
  /\ Down
  /\ faults' = faults + 1
  /\ UNCHANGED <<environment, trail>>

-----------------------------------------------------------------------------
(* Authelia and the operator.                                              *)

(* A connection to a file that is replaced keeps reading the old one.      *)
Detach ==
  IF conn = "current"
    THEN conn' = "orphan" /\ orphan' = db
    ELSE UNCHANGED <<conn, orphan>>

Exporter == <<pc, ident, mem, disk, batch, short, exported, stop, trail, faults>>

(* Authelia creates its database on its first start without one.           *)
CreateDatabase ==
  /\ db.inst = 0
  /\ instances < MaxInstances
  /\ instances' = instances + 1
  /\ db' = [inst |-> instances + 1, rows |-> << >>]
  /\ UNCHANGED <<backup, restored, logins, restores, conn, orphan, Exporter>>

(* Authelia logs one attempt under the next id of its sequence.            *)
LogIn ==
  /\ db.inst # 0
  /\ QuietRestore => ~restored
  /\ logins < MaxLogins
  /\ logins' = logins + 1
  /\ db' = [db EXCEPT !.rows = Append(@, logins + 1)]
  /\ UNCHANGED <<backup, restored, instances, restores, conn, orphan, Exporter>>

(* make nuke, or an operator who deletes db.sqlite3.                       *)
DeleteDatabase ==
  /\ db.inst # 0
  /\ db' = Absent
  /\ restored' = FALSE
  /\ Detach
  /\ UNCHANGED <<backup, logins, instances, restores, Exporter>>

TakeBackup ==
  /\ db.inst # 0
  /\ backup' = db
  /\ UNCHANGED <<db, restored, logins, instances, restores, conn, orphan, Exporter>>

(* The backup is put back: written over the file, which an open connection *)
(* then reads, or renamed into its place.                                  *)
RestoreBackup ==
  /\ backup.inst # 0
  /\ restores < MaxRestores
  /\ restores' = restores + 1
  /\ db' = backup
  /\ restored' = TRUE
  /\ \/ UNCHANGED <<conn, orphan>>
     \/ conn = "current" /\ Detach
  /\ UNCHANGED <<backup, logins, instances, Exporter>>

-----------------------------------------------------------------------------
ExporterStep ==
  \/ StartUp \/ Open \/ Adopt \/ Resume \/ Rewind \/ SaveRewind
  \/ Fetch \/ FetchNoMore \/ EmitRow \/ SaveRow \/ Stopped

Environment == CreateDatabase \/ LogIn \/ DeleteDatabase \/ TakeBackup \/ RestoreBackup

Next == ExporterStep \/ NotReady \/ Unreadable \/ Sigterm \/ Crash \/ SaveFails \/ Environment

Spec == Init /\ [][Next]_vars

(* The container runs (restart: unless-stopped), its loop never blocks for *)
(* good, and the database is not locked at every attempt to read it.       *)
Fairness ==
  /\ WF_vars(ExporterStep)
  /\ SF_vars(Adopt \/ Resume \/ Rewind)
  /\ SF_vars(Fetch)

FairSpec == Spec /\ Fairness

-----------------------------------------------------------------------------
FlagsTyped == restored \in BOOLEAN /\ short \in BOOLEAN /\ stop \in BOOLEAN

(* The values every variable takes.                                        *)
TypeOK ==
  /\ db \in Databases /\ backup \in Databases /\ orphan \in Databases
  /\ FlagsTyped
  /\ pc \in {"down", "poll", "reconcile", "rewind", "fetch", "emit", "save"}
  /\ conn \in {"closed", "current", "orphan"}
  /\ ident \in 0 .. MaxInstances
  /\ mem \in ExportState /\ disk \in ExportState
  /\ batch \in Seq(Rows)
  /\ exported \in Nat
  /\ trail \in Seq(Ledger!Events)
  /\ logins \in 0 .. MaxLogins /\ instances \in 0 .. MaxInstances
  /\ restores \in 0 .. MaxRestores /\ faults \in 0 .. MaxFaults

(* The promise of the export: whatever crashes, failed writes, deleted and *)
(* restored databases came before, every row of the present database up to *)
(* the saved position has an event in the trail (_rewind: "nothing is      *)
(* skipped").                                                              *)
NoneSkipped ==
  db.inst = disk.database =>
    \A id \in 1 .. Least(Len(db.rows), disk.last_id) : IsExported(db.rows[id])

(* Every step of the export is one of TrailLedger or invisible in it: the  *)
(* event first, then the position it stands for, over every restart        *)
(* (_rewind and _export emit before they _save).                           *)
ImplementsLedger == Ledger!Spec

(* A reader of the trail can tell gaps, repeats and new starts apart       *)
(* without the state volume: rows in order, a repeat only right after a    *)
(* restart, a new start only after the rewind that names it.               *)
TrailTellsPosition == Ledger!TrailTellsPosition

(* The saved position changes database only by adopting its first one or   *)
(* after a rewind was written.                                             *)
DatabaseChangeIsTold ==
  [][disk.database # 0 /\ disk'.database # disk.database
       => trail # << >> /\ trail[Len(trail)] = RewindEvent(disk.last_id)]_vars

(* A rewind is never a mistake of the exporter: as long as Authelia keeps  *)
(* one database and nobody restores it, no crash, failed save, locked file *)
(* or missing file makes _reconcile start over.                            *)
NoSpuriousRewind ==
  instances <= 1 /\ restores = 0 =>
    \A k \in 1 .. Len(trail) : trail[k].kind # "rewind"

(* Every attempt that stays in the database is recorded in the end, however *)
(* often the export is interrupted (poll, _export and the loop of serve).  *)
EveryLoginRecorded ==
  \A n \in 1 .. MaxLogins :
    (\E id \in 1 .. Len(db.rows) : db.rows[id] = n)
      ~> (IsExported(n) \/ ~\E id \in 1 .. Len(db.rows) : db.rows[id] = n)

-----------------------------------------------------------------------------
(* Why NoneSkipped holds. Copies of a database share the rows they both    *)
(* have; a rewind or a row's position follows its event; and unless a      *)
(* restore is still to be compared with, the position has not run ahead of *)
(* the database it refers to.                                              *)

Copies == {db, backup, orphan}

InstancesKnown ==
  /\ disk.database <= instances /\ ident <= instances
  /\ \A d \in Copies : d.inst <= instances /\ (d.inst = 0 => d = Absent)

ExporterShape ==
  /\ pc # "down" => mem = disk
  /\ (conn = "closed") <=> (pc \in {"down", "poll"})
  /\ conn # "orphan" => orphan = Absent
  /\ conn = "orphan" => orphan.inst # 0
  /\ conn = "current" => db.inst # 0
  /\ (batch # << >>) <=> (pc \in {"emit", "save"})
  /\ disk.database = 0 => disk.last_id = 0
  /\ pc \notin {"down", "poll"} => ident # 0
  /\ pc \in {"rewind", "fetch", "emit", "save"} => disk.database # 0

(* The event of a position about to be saved is the last one written.      *)
EventFirst ==
  /\ pc # "down" => trail # << >>
  /\ pc \in {"poll", "reconcile", "fetch", "emit"} => Ledger!Settled
  /\ pc = "rewind" => trail[Len(trail)] = RewindEvent(disk.last_id)
  /\ pc = "save" => trail[Len(trail)] = AuthEvent(Head(batch))

BatchFollows ==
  \A k \in 1 .. Len(batch) : batch[k].id = disk.last_id + k

CopiesAgree ==
  /\ \A d, e \in Copies : d.inst = e.inst =>
       \A id \in 1 .. Least(Len(d.rows), Len(e.rows)) : d.rows[id] = e.rows[id]
  /\ backup.inst = db.inst => Len(backup.rows) <= Len(db.rows)
  /\ conn = "orphan" /\ ~restored => orphan.inst # db.inst

(* A database overwritten under the connection is one there no longer is:  *)
(* neither the identity read before nor the position taken from it refers  *)
(* to any copy.                                                            *)
Reference == IF pc \in {"reconcile", "rewind"} THEN ident ELSE disk.database

PositionOfSeen ==
  pc \notin {"down", "poll"} /\ Seen.inst # Reference =>
    \A d \in Copies : d.inst # Reference

NotAhead ==
  ~restored /\ db.inst = disk.database => disk.last_id + Len(batch) <= Len(db.rows)

BatchOfCopies ==
  \A d \in Copies : d.inst = disk.database =>
    \A k \in 1 .. Len(batch) :
      disk.last_id + k <= Len(d.rows) => d.rows[disk.last_id + k] = batch[k].row

CopiesExported ==
  \A d \in Copies : d.inst = disk.database =>
    \A id \in 1 .. Least(Len(d.rows), disk.last_id) : IsExported(d.rows[id])

ShapeInv == TypeOK /\ ExporterShape /\ EventFirst /\ BatchFollows

ExportInv ==
  /\ ShapeInv /\ InstancesKnown /\ CopiesAgree /\ PositionOfSeen
  /\ NotAhead /\ BatchOfCopies /\ CopiesExported

=============================================================================
