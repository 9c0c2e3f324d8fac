----------------------------- MODULE ServeLoop -----------------------------
(***************************************************************************)
(* The process of auth-audit: one loop that exports the authentication log *)
(* and watches users.yml in turns (src/audit/edge_audit.py: serve), the    *)
(* stop it is asked for, its restarts, and the health check that looks at  *)
(* the file the loop touches (health). What a row or a change of accounts  *)
(* becomes is AuthExport's and UsersWatch's part: here a row is exported   *)
(* or waits, a version of users.yml is recorded or waits. Lines and chains *)
(* are AuditEmitter's: here a chain begins and ends, and has a thread for  *)
(* its heartbeats that may die alone.                                      *)
(*                                                                         *)
(* Time passes in ticks, wherever the process is, but no longer than a     *)
(* poll may last or the wait was set for.                                  *)
(***************************************************************************)
EXTENDS Integers

CONSTANTS
  Interval,    \* AUDIT_POLL_INTERVAL, in ticks
  LeastAge,    \* the minute that health grants at least
  RoundTime,   \* the longest a poll of the log takes,
  UsersTime,   \* and one of the users file
  BatchRows,   \* BATCH_ROWS: rows of one query
  RoundRows,   \* ROUND_ROWS: rows of one poll
  MaxWaiting,  \* bounds of the exploration: rows that wait in the log,
  MaxStops,    \* stops by an operator,
  MaxFaults    \* kills, failed writes and failed saves

ASSUME LoopAssumption ==
  /\ Interval \in Nat \ {0} /\ LeastAge \in Nat
  /\ RoundTime \in Nat /\ UsersTime \in Nat
  /\ BatchRows \in Nat \ {0} /\ RoundRows \in Nat \ {0}
  /\ MaxWaiting \in Nat /\ MaxStops \in Nat /\ MaxFaults \in Nat

VARIABLES
  at,        \* where the process is
  stop,      \* the Event that the handlers of SIGTERM and SIGINT set
  wanted,    \* the operator wants the container to run
  waiting,   \* rows of the log that are not exported
  log,       \* Authelia's database: "readable", "locked" or "absent"
  users,     \* users.yml: "known", "changed", or "raises" when the parser does
  round,     \* rows exported in this poll
  batch,     \* rows fetched and not exported yet,
  full,      \* and whether the query found as many as it asked for
  left,      \* ticks left of the wait
  spent,     \* ticks this poll has taken
  age,       \* ticks since the alive file was touched; OldAge: more, or no file
  status,    \* exit status of the process
  chain,     \* its chain in the trail: "none", "open" without a shutdown,
             \* "shut" with one, or "lone": the shutdown is all there is
  beating,   \* the thread of the heartbeats runs
  smooth,    \* since the last touch nothing kept a poll from reading the log (history)
  read,      \* ticks since the process last read the log; OldRead: more, or never (history)
  late,      \* rows exported after the stop was asked for (history),
  since,     \* and ticks since then; LongAgo: more (history)
  stops, faults   \* how often each happened

Poll     == <<round, batch, full, spent>>
Outside  == <<wanted, waiting, log, users>>
Alive    == <<age, smooth, read>>
Ending   == <<status, chain, beating>>
Stopping == <<late, since>>
Bounds   == <<stops, faults>>
vars == <<at, stop, Outside, Poll, left, Alive, Ending, Stopping, Bounds>>

(* health: three intervals, and a minute at least.                         *)
Tolerated == IF 3 * Interval > LeastAge THEN 3 * Interval ELSE LeastAge

OldAge  == Tolerated + 1
OldRead == Tolerated + RoundTime + 1
LongAgo == RoundTime + UsersTime + 1

Healthy == age <= Tolerated

(* The places of the while loop of serve.                                  *)
Looping == {"loop", "open", "fetch", "row", "users", "wait"}

-----------------------------------------------------------------------------
Init ==
  /\ at = "down" /\ stop = FALSE /\ wanted = TRUE
  /\ waiting \in 0 .. MaxWaiting
  /\ log \in {"readable", "absent"} /\ users \in {"known", "changed"}
  /\ round = 0 /\ batch = 0 /\ full = TRUE /\ spent = 0 /\ left = 0
  /\ age = OldAge /\ read = OldRead /\ smooth = FALSE
  /\ status = 0 /\ chain = "none" /\ beating = FALSE /\ late = 0 /\ since = 0
  /\ stops = 0 /\ faults = 0

(* docker compose up, or restart: unless-stopped.                          *)
Start ==
  /\ at = "down" /\ wanted
  /\ at' = "begin"
  /\ status' = 0 /\ chain' = "none"
  /\ UNCHANGED <<stop, Outside, Poll, left, Alive, beating, Stopping, Bounds>>

(* emitter.start, which starts the heartbeat, and config.audit.            *)
Begin ==
  /\ at = "begin"
  /\ at' = "loop" /\ chain' = "open" /\ beating' = TRUE
  /\ UNCHANGED <<stop, Outside, Poll, left, Alive, status, Stopping, Bounds>>

(* The process is gone, and with the container its tmpfs, /tmp, where the  *)
(* alive file was.                                                         *)
Gone ==
  /\ at' = "down" /\ stop' = FALSE
  /\ round' = 0 /\ batch' = 0 /\ full' = TRUE /\ spent' = 0 /\ left' = 0
  /\ age' = OldAge /\ read' = OldRead /\ smooth' = FALSE
  /\ beating' = FALSE /\ late' = 0 /\ since' = 0

(* An error that serve, or the interpreter, answers with the end of the    *)
(* process: the loop is left, the status is 1.                             *)
Fails ==
  /\ at' = "close" /\ status' = 1
  /\ UNCHANGED <<stop, Outside, Poll, left, Alive, Stopping>>

Fault == faults < MaxFaults /\ faults' = faults + 1 /\ UNCHANGED stops

(* The configuration, a state file or the stream is not usable.            *)
Refused ==
  /\ at = "begin"
  /\ Fault /\ Gone
  /\ status' \in {1, 2}
  /\ UNCHANGED <<Outside, chain>>

(* The start event cannot be written, or config.audit after it.            *)
BeginFails ==
  /\ at = "begin"
  /\ Fault /\ Fails
  /\ chain' \in {"none", "open"} /\ beating' = (chain' = "open")

(* A defect: the users file comes first.                                   *)
Following_UsersFirst(place) ==
  CASE place = "loop" -> "users" [] place = "users" -> "open" [] OTHER -> "wait"

(* The order of one turn of the loop.                                      *)
Following(place) ==
  CASE place = "loop" -> "open" [] place = "users" -> "wait" [] OTHER -> "users"

(* A defect: while True.                                                   *)
Turn_Forever ==
  /\ at = "loop"
  /\ at' = Following("loop")
  /\ round' = 0 /\ batch' = 0 /\ full' = TRUE /\ spent' = 0
  /\ UNCHANGED <<stop, Outside, left, Alive, Ending, Stopping, Bounds>>

(* while not stop.is_set()                                                 *)
Turn ==
  /\ at = "loop"
  /\ at' = IF stop THEN "close" ELSE Following("loop")
  /\ round' = 0 /\ batch' = 0 /\ full' = TRUE /\ spent' = 0
  /\ UNCHANGED <<stop, Outside, left, Alive, Ending, Stopping, Bounds>>

-----------------------------------------------------------------------------
(* exporter.poll                                                           *)

(* The database is there and tells its identity; reconcile.                *)
Open ==
  /\ at = "open" /\ log = "readable"
  /\ at' = "fetch" /\ read' = 0
  /\ UNCHANGED <<stop, Outside, Poll, left, age, smooth, Ending, Stopping, Bounds>>

(* A defect: the last query of a poll may pass its cap.                    *)
Limit_Uncapped == BatchRows

Limit == IF RoundRows - round < BatchRows THEN RoundRows - round ELSE BatchRows

(* A defect: no cap on the rows of a poll.                                 *)
GoesOn_Uncapped == full /\ ~stop

(* A defect: a full batch is followed by the next, stop or not.            *)
GoesOn_Regardless == full /\ round < RoundRows

(* Whether _export goes on to a query.                                     *)
GoesOn == full /\ round < RoundRows /\ ~stop

(* A file that was removed after it was opened can still be read.          *)
Fetch ==
  /\ at = "fetch" /\ log # "locked" /\ GoesOn
  /\ batch' = IF waiting < Limit THEN waiting ELSE Limit
  /\ full' = (waiting >= Limit)
  /\ at' = IF batch' = 0 THEN "fetch" ELSE "row"
  /\ read' = 0
  /\ UNCHANGED <<stop, Outside, round, spent, left, age, smooth, Ending, Stopping, Bounds>>

(* Event and position of a row.                                            *)
Row ==
  /\ at = "row"
  /\ waiting' = waiting - 1 /\ batch' = batch - 1 /\ round' = round + 1
  /\ at' = IF batch > 1 /\ ~stop THEN "row" ELSE "fetch"
  /\ late' = IF stop /\ late < 2 THEN late + 1 ELSE late
  /\ UNCHANGED <<stop, wanted, log, users, full, spent, left, Alive, Ending, since, Bounds>>

(* A defect: a poll that found no row counts as none.                      *)
Touch_Rows == IF round > 0 THEN age' = 0 /\ smooth' = TRUE ELSE UNCHANGED <<age, smooth>>

(* alive_file.touch, if the poll returned a number of rows.                *)
Touch == age' = 0 /\ smooth' = TRUE

(* _export returns.                                                        *)
Exported ==
  /\ at = "fetch" /\ ~GoesOn
  /\ Touch
  /\ at' = Following("open") /\ spent' = 0
  /\ UNCHANGED <<stop, Outside, round, batch, full, left, read, Ending, Stopping, Bounds>>

(* A defect: a poll that could not read the log touches the file as well.  *)
NotTouched_Touches == age' = 0 /\ smooth' = FALSE

NotTouched == smooth' = FALSE /\ UNCHANGED age

(* No database, no schema, or one that is locked while database_id looks   *)
(* at it: poll returns None. A query that fails: sqlite3.Error, and the    *)
(* rows exported before it do not make the round one that read the log.    *)
NotExported ==
  /\ \/ at = "open" /\ log # "readable"
     \/ at = "fetch" /\ log = "locked" /\ GoesOn
  /\ NotTouched
  /\ at' = Following("open") /\ spent' = 0
  /\ round' = 0 /\ batch' = 0 /\ full' = TRUE
  /\ UNCHANGED <<stop, Outside, left, read, Ending, Stopping, Bounds>>

(* An event or a position cannot be written, or the alive file.            *)
ExportFails ==
  /\ at \in {"open", "fetch", "row"}
  /\ Fault /\ Fails
  /\ UNCHANGED <<chain, beating>>

-----------------------------------------------------------------------------
(* users.poll, and stop.wait                                               *)

(* No wait after a full round.                                             *)
Pause == IF round = RoundRows THEN 0 ELSE Interval

UsersPolled ==
  /\ at = "users" /\ users # "raises"
  /\ users' = "known"
  /\ at' = Following("users") /\ left' = Pause /\ spent' = 0
  /\ UNCHANGED <<stop, wanted, waiting, log, round, batch, full, Alive, Ending, Stopping, Bounds>>

(* The parser raises what neither poll nor serve handles: the interpreter  *)
(* ends, and its exit hook closes the chain.                               *)
UsersRaises ==
  /\ at = "users" /\ users = "raises"
  /\ Fails
  /\ UNCHANGED <<chain, beating, Bounds>>

(* An event or the state of the watcher cannot be written.                 *)
UsersFails ==
  /\ at = "users" /\ users = "changed"
  /\ Fault /\ Fails
  /\ UNCHANGED <<chain, beating>>

(* A defect: time.sleep, which a stop does not end.                        *)
WaitOver_Sleeps == left = 0

(* stop.wait returns.                                                      *)
WaitOver == left = 0 \/ stop

Waited ==
  /\ at = "wait" /\ WaitOver
  /\ at' = "loop" /\ left' = 0
  /\ UNCHANGED <<stop, Outside, Poll, Alive, Ending, Stopping, Bounds>>

-----------------------------------------------------------------------------
(* A heartbeat cannot be written. Its thread ends, the error with it: the  *)
(* event is lost, serve goes on and may yet end with status 0.             *)
HeartbeatFails ==
  /\ at \in Looping /\ beating
  /\ beating' = FALSE
  /\ Fault
  /\ UNCHANGED <<at, stop, Outside, Poll, left, Alive, status, chain, Stopping>>

(* emitter.close writes the shutdown. An emitter counts as started before  *)
(* its start event is written: without that, the shutdown is alone.        *)
Close ==
  /\ at = "close"
  /\ Gone
  /\ chain' = IF chain = "open" THEN "shut" ELSE "lone"
  /\ UNCHANGED <<Outside, status, Bounds>>

(* The shutdown cannot be written.                                         *)
CloseFails ==
  /\ at = "close"
  /\ Fault /\ Gone
  /\ status' = 1
  /\ UNCHANGED <<Outside, chain>>

(* SIGKILL: out of memory, or a stop that took longer than docker waits.   *)
Kill ==
  /\ at # "down"
  /\ Fault /\ Gone
  /\ status' = 137
  /\ UNCHANGED <<Outside, chain>>

-----------------------------------------------------------------------------
(* docker compose stop: SIGTERM to the process, which is not restarted.    *)
StopContainer ==
  /\ wanted /\ stops < MaxStops
  /\ wanted' = FALSE /\ stop' = (at # "down") /\ stops' = stops + 1
  /\ UNCHANGED <<at, waiting, log, users, Poll, left, Alive, Ending, Stopping, faults>>

StartContainer ==
  /\ ~wanted /\ at = "down"
  /\ wanted' = TRUE
  /\ UNCHANGED <<at, stop, waiting, log, users, Poll, left, Alive, Ending, Stopping, Bounds>>

(* A login attempt, however often.                                         *)
LogIn ==
  /\ log = "readable" /\ waiting < MaxWaiting
  /\ waiting' = waiting + 1
  /\ UNCHANGED <<at, stop, wanted, log, users, Poll, left, Alive, Ending, Stopping, Bounds>>

(* Authelia creates, locks, unlocks its database; an operator removes it.  *)
LogBecomes ==
  /\ log' \in {"readable", "locked", "absent"} \ {log}
  /\ UNCHANGED <<at, stop, wanted, waiting, users, Poll, left, Alive, Ending, Stopping, Bounds>>

Edit ==
  /\ users' \in {"changed", "raises"} \ {users}
  /\ UNCHANGED <<at, stop, wanted, waiting, log, Poll, left, Alive, Ending, Stopping, Bounds>>

(* A tick of a poll, that does not outlast its time, or of the wait, that  *)
(* does not outlast what it was set for or a stop. The rest of the loop    *)
(* takes no time.                                                          *)
Tick ==
  /\ \/ at \in {"open", "fetch", "row"} /\ spent < RoundTime
     \/ at = "users" /\ spent < UsersTime
     \/ at = "wait" /\ ~WaitOver
  /\ spent' = IF at = "wait" THEN spent ELSE spent + 1
  /\ left' = IF at = "wait" THEN left - 1 ELSE left
  /\ age' = IF age < OldAge THEN age + 1 ELSE age
  /\ read' = IF read < OldRead THEN read + 1 ELSE read
  /\ since' = IF stop /\ since < LongAgo THEN since + 1 ELSE since
  /\ UNCHANGED <<at, stop, Outside, round, batch, full, smooth, Ending, late, Bounds>>

-----------------------------------------------------------------------------
Step ==
  \/ Start \/ Begin \/ Turn \/ Open \/ Fetch \/ Row \/ Exported \/ NotExported
  \/ UsersPolled \/ UsersRaises \/ Waited \/ Close

Trouble ==
  Refused \/ BeginFails \/ ExportFails \/ UsersFails \/ HeartbeatFails \/ CloseFails \/ Kill

Surroundings == StopContainer \/ StartContainer \/ LogIn \/ LogBecomes \/ Edit

Next == Step \/ Trouble \/ Surroundings \/ Tick

Spec == Init /\ [][Next]_vars

(* Docker restarts the container, the process goes on, and a wait ends.    *)
Fairness == WF_vars(Step) /\ WF_vars(Tick /\ at = "wait")

FairSpec == Spec /\ Fairness

-----------------------------------------------------------------------------
(* The types, and what the places of the loop have in common.              *)
TypeOK ==
  /\ at \in Looping \cup {"down", "begin", "close"}
  /\ stop \in BOOLEAN /\ wanted \in BOOLEAN
  /\ waiting \in 0 .. MaxWaiting
  /\ log \in {"readable", "locked", "absent"}
  /\ users \in {"known", "changed", "raises"}
  /\ round \in 0 .. RoundRows /\ batch \in 0 .. BatchRows /\ full \in BOOLEAN
  /\ left \in 0 .. Interval /\ spent \in Nat
  /\ age \in 0 .. OldAge /\ read \in 0 .. OldRead
  /\ status \in {0, 1, 2, 137} /\ chain \in {"none", "open", "shut", "lone"}
  /\ smooth \in BOOLEAN /\ beating \in BOOLEAN
  /\ late \in 0 .. 2 /\ since \in 0 .. LongAgo
  /\ stops \in 0 .. MaxStops /\ faults \in 0 .. MaxFaults

(* A turn of the loop is shorter than what health tolerates. Three         *)
(* intervals leave two for the polls, a minute leaves what is over of it.  *)
InTime == UsersTime + Interval + RoundTime <= Tolerated

(* As long as the log can be read at every poll, the health check does not *)
(* call the service unhealthy in between, however long it waited, however  *)
(* many or few logins there were (health; the touch after a poll).         *)
NoFalseAlarm == InTime /\ at \in Looping /\ smooth => Healthy

(* A service that is called healthy has read the log: no longer ago than   *)
(* what health tolerates and a poll takes. One that keeps going but finds  *)
(* the database locked or missing turns unhealthy (serve, 746-748).        *)
HealthyHasRead == Healthy => read <= Tolerated + RoundTime

(* From the stop to the end of the loop takes no longer than the poll of   *)
(* the log and the one of the users file that it may find under way or     *)
(* next: no wait, whatever its interval, and no second turn (serve,        *)
(* 741-750).                                                               *)
StopInTime == stop => since <= RoundTime + UsersTime

(* At most the row that was under way is exported once the stop is asked   *)
(* for, however long the backlog (_export, 536-544).                       *)
StopsShort == late <= 1

(* While the container is to run and its database can be read, the backlog *)
(* goes on to shrink: it is empty again and again, or rows are exported    *)
(* for ever. That holds with a users.yml at which every process ends.      *)
LoginsAreExported ==
  <>[](wanted /\ log = "readable") => []<>(waiting = 0) \/ []<><<Row>>_vars

(* An edit of users.yml is recorded, or undone by one the parser raises    *)
(* on, however many logins keep the export busy: a poll has a last row.    *)
EditsAreSeen == <>[]wanted => []<>(users # "changed")

(* A process that is told to stop ends, and one that ends with status 0    *)
(* has written its shutdown. That is all the status tells of the trail: a  *)
(* heartbeat that could not be written leaves it 0 (docstring of serve,    *)
(* 693-696; AuditEmitter._beat).                                           *)
StopEnds == stop ~> at = "down" /\ (status = 0 => chain = "shut")

=============================================================================
