---------------------------- MODULE AuditEmitter ----------------------------
(***************************************************************************)
(* The processes of the auth-audit container and the log they share: the   *)
(* service (PID 1, one emitter for its main thread and its heartbeat) and  *)
(* the one-event processes of `docker compose exec`, each with a hash      *)
(* chain of its own, all writing to the container's stdout under one flock *)
(* (src/audit/audit_event.py: AuditEmitter; src/audit/audit_runtime.py:    *)
(* ContainerAuditStream; src/audit/edge_audit.py: serve, admin).           *)
(*                                                                         *)
(* Time is left out: a lock wait may end with its timeout whenever another *)
(* process holds the lock, and a heartbeat may be due at any moment.       *)
(***************************************************************************)
EXTENDS Integers, Sequences, SequencesExt

CONSTANTS
  Services,   \* the runs of serve, one after another
  Admins,     \* the runs of admin
  None,       \* no process
  MaxTries,   \* bounds of the exploration: events each process tries to
              \* write before its shutdown,
  MaxParts,   \* lines the operating system takes in two parts,
  MaxFaults   \* failed writes, and processes killed

ASSUME EmitterAssumption ==
  /\ Services \cap Admins = {} /\ None \notin Services \cup Admins
  /\ MaxTries \in [Services \cup Admins -> Nat] /\ MaxParts \in Nat /\ MaxFaults \in Nat

Processes == Services \cup Admins
Threads   == {"main", "beat"}

VARIABLES
  chain,    \* AuditEmitter of each process: seq, prev, started, closing, closed,
            \* and how many events it has hashed
  at,       \* where each thread of each process is
  doing,    \* the operation of the event each thread is writing
  text,     \* ContainerAuditStream._pending, from write to the end of flush
  flock,    \* the process that holds CONTAINER_LOCK
  log,      \* the lines of the container's log
  cut,      \* the texts begun after the last line and not ended yet
  parts, faults   \* how many lines were taken in two parts, and what failed

vars == <<chain, at, doing, text, flock, log, cut, parts, faults>>

Trail == INSTANCE VerifyChain WITH Instances <- Processes, Genesis <- 0

-----------------------------------------------------------------------------
Running(p) == at[p]["main"] \notin {"new", "gone"}

(* Threads between the acquisition of the emitter's lock and its release.  *)
InLock == {"flock", "write", "rest"}

LockFree(p) == \A t \in Threads : at[p][t] \notin InLock

(* The next event of a chain: its hash is one no other event has.          *)
NextEvent(p, operation) ==
  Trail!Event(p, "edge-plane", chain[p].seq, chain[p].prev, chain[p].hashed + 1, TRUE, operation, 0)

Problems == Trail!Verify(log, Trail!NoHeads, 0, 0).problems

-----------------------------------------------------------------------------
NewChain == [seq |-> 0, prev |-> 0, started |-> FALSE, closing |-> FALSE, closed |-> FALSE, hashed |-> 0]

Init ==
  /\ chain = [p \in Processes |-> NewChain]
  /\ at = [p \in Processes |-> [main |-> "new", beat |-> "off"]]
  /\ doing = [p \in Processes |-> [main |-> "start", beat |-> "heartbeat"]]
  /\ text = [p \in Processes |-> << >>]
  /\ flock = None
  /\ log = << >> /\ cut = << >>
  /\ parts = 0 /\ faults = 0

(* start: called once, at the beginning of serve and of admin. The service *)
(* starts when the container does; docker compose exec needs it running.   *)
Start(p) ==
  /\ at[p]["main"] = "new"
  /\ IF p \in Services THEN \A q \in Processes : ~Running(q)
     ELSE \E q \in Services : Running(q)
  /\ chain' = [chain EXCEPT ![p].started = TRUE]
  /\ at' = [at EXCEPT ![p]["main"] = "lock"]
  /\ UNCHANGED <<doing, text, flock, log, cut, parts, faults>>

(* emit, called by the main thread: one event of an admin process, any     *)
(* number of the service.                                                  *)
Emit(p) ==
  /\ at[p]["main"] = "free"
  /\ p \in Admins => doing[p]["main"] = "start"
  /\ chain[p].hashed < MaxTries[p]
  /\ at' = [at EXCEPT ![p]["main"] = "lock"]
  /\ doing' = [doing EXCEPT ![p]["main"] = "event"]
  /\ UNCHANGED <<chain, text, flock, log, cut, parts, faults>>

(* _beat: the interval is over, or close has set the stop event.           *)
Beat(p) ==
  /\ at[p]["beat"] = "free"
  /\ IF chain[p].closing THEN at' = [at EXCEPT ![p]["beat"] = "off"]
     ELSE chain[p].hashed < MaxTries[p] /\ at' = [at EXCEPT ![p]["beat"] = "lock"]
  /\ UNCHANGED <<chain, doing, text, flock, log, cut, parts, faults>>

(* A defect: the heartbeat is waited for before it is told to stop.        *)
Close_JoinsFirst(p) ==
  /\ \/ at[p]["main"] = "failed"
     \/ at[p]["main"] = "free" /\ (p \in Admins => doing[p]["main"] = "event")
  /\ LockFree(p) /\ at[p]["beat"] = "off"
  /\ chain' = [chain EXCEPT ![p].closing = TRUE]
  /\ at' = [at EXCEPT ![p]["main"] = "lock"]
  /\ doing' = [doing EXCEPT ![p]["main"] = "shutdown"]
  /\ UNCHANGED <<text, flock, log, cut, parts, faults>>

(* close, up to the join of the heartbeat, whose timeout makes it go on    *)
(* whether the heartbeat ended or not. An admin process closes after its   *)
(* event or, at interpreter exit, after the event failed.                  *)
Close(p) ==
  /\ \/ at[p]["main"] = "failed"
     \/ at[p]["main"] = "free" /\ (p \in Admins => doing[p]["main"] = "event")
  /\ LockFree(p)
  /\ chain' = [chain EXCEPT ![p].closing = TRUE]
  /\ at' = [at EXCEPT ![p]["main"] = "lock"]
  /\ doing' = [doing EXCEPT ![p]["main"] = "shutdown"]
  /\ UNCHANGED <<text, flock, log, cut, parts, faults>>

-----------------------------------------------------------------------------
(* _append. Where a thread goes when its event was written, or could not   *)
(* be: the heartbeat ends, serve closes its chain, admin gives up.         *)

Written(p, t) ==
  IF t = "beat" THEN [at[p] EXCEPT !.beat = "free"]
  ELSE IF doing[p]["main"] = "shutdown" THEN [at[p] EXCEPT !.main = "done"]
  ELSE IF doing[p]["main"] = "start" /\ p \in Services THEN [main |-> "free", beat |-> "free"]
  ELSE [at[p] EXCEPT !.main = "free"]

(* A defect: serve goes on after a start that could not be written.        *)
Raised_GoesOn(p, t) ==
  IF t = "beat" THEN [at[p] EXCEPT !.beat = "off"]
  ELSE IF doing[p]["main"] = "shutdown" THEN [at[p] EXCEPT !.main = "done"]
  ELSE IF doing[p]["main"] = "start" THEN [at[p] EXCEPT !.main = "free"]
  ELSE [at[p] EXCEPT !.main = "failed"]

Raised(p, t) ==
  IF t = "beat" THEN [at[p] EXCEPT !.beat = "off"]
  ELSE IF doing[p]["main"] = "shutdown" \/ (doing[p]["main"] = "start" /\ p \in Admins)
    THEN [at[p] EXCEPT !.main = "done"]
  ELSE [at[p] EXCEPT !.main = "failed"]

(* A defect: the chain is left open after its shutdown event.              *)
ClosedBy_Never(p, t) == chain[p].closed

(* The finally of _append: after a shutdown event the chain is closed,     *)
(* whether the line was written or not.                                    *)
ClosedBy(p, t) == chain[p].closed \/ (t = "main" /\ doing[p]["main"] = "shutdown")

(* The emitter's lock is taken: a closed chain refuses the event, else it  *)
(* is hashed and its text handed to the stream.                            *)
Take(p, t) ==
  /\ at[p][t] = "lock"
  /\ LockFree(p)
  /\ IF chain[p].closed
       THEN at' = [at EXCEPT ![p] = Raised(p, t)] /\ UNCHANGED <<chain, text>>
       ELSE /\ text' = [text EXCEPT ![p] = Append(@, NextEvent(p, doing[p][t]))]
            /\ chain' = [chain EXCEPT ![p].hashed = @ + 1]
            /\ at' = [at EXCEPT ![p][t] = "flock"]
  /\ UNCHANGED <<doing, flock, log, cut, parts, faults>>

(* A defect: the lock file is not locked.                                  *)
Lock_Unguarded(p, t) ==
  /\ at[p][t] = "flock"
  /\ flock' = p
  /\ at' = [at EXCEPT ![p][t] = "write"]
  /\ UNCHANGED <<chain, doing, text, log, cut, parts, faults>>

Lock(p, t) ==
  /\ at[p][t] = "flock"
  /\ flock = None
  /\ flock' = p
  /\ at' = [at EXCEPT ![p][t] = "write"]
  /\ UNCHANGED <<chain, doing, text, log, cut, parts, faults>>

(* Two defects: the text stays in the stream; the chain goes on past it.   *)
Fail_KeepsText(p, t) ==
  /\ UNCHANGED text
  /\ chain' = [chain EXCEPT ![p].closed = ClosedBy(p, t)]
  /\ at' = [at EXCEPT ![p] = Raised(p, t)]

Fail_Advances(p, t) ==
  /\ text' = [text EXCEPT ![p] = << >>]
  /\ chain' = [chain EXCEPT ![p].seq = @ + 1, ![p].prev = Last(text[p]).hash, ![p].closed = ClosedBy(p, t)]
  /\ at' = [at EXCEPT ![p] = Raised(p, t)]

(* AuditWriteError: the text is dropped, the chain stays where it was.     *)
Fail(p, t) ==
  /\ text' = [text EXCEPT ![p] = << >>]
  /\ chain' = [chain EXCEPT ![p].closed = ClosedBy(p, t)]
  /\ at' = [at EXCEPT ![p] = Raised(p, t)]

(* TimeoutError: another process held the lock for too long.               *)
LockTimeout(p, t) ==
  /\ at[p][t] = "flock"
  /\ flock \notin {None, p}
  /\ Fail(p, t)
  /\ UNCHANGED <<doing, flock, log, cut, parts, faults>>

(* os.write may take a part of the text; the rest is written by the next.  *)
WritePart(p, t) ==
  /\ at[p][t] = "write"
  /\ parts < MaxParts
  /\ parts' = parts + 1
  /\ cut' = Append(cut, text[p])
  /\ at' = [at EXCEPT ![p][t] = "rest"]
  /\ UNCHANGED <<chain, doing, text, flock, log, faults>>

(* What a reader makes of a text that ends now: its lines, unless another  *)
(* text was begun before it and never ended. Then they are one line.       *)
LinesOf(p, t) ==
  IF cut = (IF at[p][t] = "rest" THEN << text[p] >> ELSE << >>) THEN text[p]
  ELSE << Trail!Garbled >> \o Tail(text[p])

(* The write that completes the text: the lock is released, and the chain  *)
(* advances past the event.                                                *)
WriteRest(p, t) ==
  /\ at[p][t] \in {"write", "rest"}
  /\ log' = log \o LinesOf(p, t) /\ cut' = << >>
  /\ flock' = None
  /\ text' = [text EXCEPT ![p] = << >>]
  /\ chain' = [chain EXCEPT ![p].seq = @ + 1, ![p].prev = Last(text[p]).hash, ![p].closed = ClosedBy(p, t)]
  /\ at' = [at EXCEPT ![p] = Written(p, t)]
  /\ UNCHANGED <<doing, parts, faults>>

(* OSError from os.write, before or after a part of the text.              *)
WriteFails(p, t) ==
  /\ at[p][t] \in {"write", "rest"}
  /\ faults < MaxFaults
  /\ faults' = faults + 1
  /\ flock' = None
  /\ Fail(p, t)
  /\ UNCHANGED <<doing, log, cut, parts>>

-----------------------------------------------------------------------------
(* The end of a process releases its lock; with the service, PID 1, every  *)
(* process of the container ends.                                          *)
Ends(gone) ==
  /\ at' = [q \in Processes |-> IF q \in gone THEN [main |-> "gone", beat |-> "off"] ELSE at[q]]
  /\ text' = [q \in Processes |-> IF q \in gone THEN << >> ELSE text[q]]
  /\ flock' = IF flock \in gone THEN None ELSE flock
  /\ UNCHANGED <<chain, doing, log, cut, parts>>

EndWith(p) == {p} \cup (IF p \in Services THEN {q \in Admins : Running(q)} ELSE {})

Exit(p) ==
  /\ at[p]["main"] = "done"
  /\ Ends(EndWith(p))
  /\ UNCHANGED faults

Kill(p) ==
  /\ Running(p)
  /\ faults < MaxFaults
  /\ faults' = faults + 1
  /\ Ends(EndWith(p))

-----------------------------------------------------------------------------
ThreadStep(p, t) ==
  Take(p, t) \/ Lock(p, t) \/ LockTimeout(p, t) \/ WritePart(p, t) \/ WriteRest(p, t)

ProcessStep(p) == Start(p) \/ Emit(p) \/ Beat(p) \/ Close(p) \/ Exit(p)

Next ==
  \E p \in Processes :
    \/ ProcessStep(p) \/ Kill(p)
    \/ \E t \in Threads : ThreadStep(p, t) \/ WriteFails(p, t)

Spec == Init /\ [][Next]_vars

(* The operating system runs every thread, and a lock wait is bounded.     *)
Fairness ==
  \A p \in Processes :
    /\ WF_vars(Exit(p)) /\ WF_vars(Close(p) /\ at[p]["main"] = "failed")
    /\ \A t \in Threads : WF_vars(ThreadStep(p, t))

FairSpec == Spec /\ Fairness

-----------------------------------------------------------------------------
(* The values every variable takes.                                        *)
TypeOK ==
  /\ \A p \in Processes :
       /\ chain[p].seq \in Nat /\ chain[p].hashed \in Nat
       /\ chain[p].prev \in 0 .. chain[p].hashed
       /\ {chain[p].started, chain[p].closing, chain[p].closed} \subseteq BOOLEAN
       /\ at[p]["main"] \in {"new", "lock", "free", "failed", "done", "gone"} \cup InLock
       /\ at[p]["beat"] \in {"off", "free", "lock"} \cup InLock
       /\ doing[p]["main"] \in {"start", "event", "shutdown"} /\ doing[p]["beat"] = "heartbeat"
       /\ Len(text[p]) <= 1
  /\ flock \in Processes \cup {None}
  /\ parts \in 0 .. MaxParts /\ faults \in 0 .. MaxFaults

(* Lines never interleave: while a process writes the rest of a line,      *)
(* nothing was written after its beginning (ContainerAuditStream: one      *)
(* whole write at a time), unless a process died over a line before.       *)
LinesNeverInterleave ==
  \A p \in Processes, t \in Threads : at[p][t] = "rest" => cut # << >> /\ Last(cut) = text[p]

(* As long as no line was cut for good, verify finds nothing wrong with    *)
(* any chain, at any moment: not after failed heartbeats, lock timeouts    *)
(* and dropped lines, nor with a heartbeat racing close (close: no other   *)
(* thread's event can follow it, and only one call writes it).             *)
LogVerifies ==
  (\A k \in 1 .. Len(log) : log[k].readable) => Problems = {}

(* An event whose emit returned is in the log, or verify finds the log not *)
(* whole, be it at this chain or another (_append advances the chain only  *)
(* after the write).                                                       *)
NothingLostUntold ==
  (\A p \in Processes : \A s \in 0 .. chain[p].seq - 1 :
     \E k \in 1 .. Len(log) : log[k].readable /\ log[k].instance = p /\ log[k].seq = s)
  \/ Problems # {}

(* The log holds a chain from its start event on, or its shutdown event    *)
(* alone, of a start that could not be written (start sets _started before *)
(* it emits, and close writes for whoever set it): never an event in the   *)
(* place of a start, nor anything else of a process that could not start.  *)
StartOrLoneEnd ==
  \A k, l \in 1 .. Len(log) :
    log[k].readable /\ log[k].seq = 0 /\ log[k].operation # "start" =>
      /\ log[k].operation = "shutdown"
      /\ log[l].readable /\ log[l].instance = log[k].instance => l = k

(* A service whose main thread failed to write ends: close waits neither   *)
(* for the heartbeat nor for a lock for good (serve exits and the          *)
(* container restarts).                                                    *)
FailureEnds ==
  \A p \in Services : at[p]["main"] = "failed" ~> at[p]["main"] = "gone"

(* docs/audit.md: "the long-running one beats every 60 s".                 *)
HeartbeatGoesOn ==
  \A p \in Services : at[p]["main"] = "free" => at[p]["beat"] # "off"

=============================================================================
