---------------------------- MODULE AdminChange ----------------------------
(***************************************************************************)
(* An account change an operator makes, and its record: operators run      *)
(* src/scripts/audit-admin.sh, which checks that the auth-audit container  *)
(* can record, runs the change under a trap, and has the container write   *)
(* one event (src/audit/edge_audit.py: check, admin). The container may    *)
(* stop and start between any two steps, and a signal may hit the script   *)
(* anywhere: an interrupt from the terminal reaches the command it runs    *)
(* too, and only while the trap is set does the script survive it.         *)
(***************************************************************************)
EXTENDS Naturals

CONSTANTS
  Operators,  \* the runs of the script
  MaxStops,   \* bounds of the exploration: stops of the container,
  MaxSignals, \* signals,
  MaxFailures \* events the container fails to write

ASSUME AdminAssumption == MaxStops \in Nat /\ MaxSignals \in Nat /\ MaxFailures \in Nat

VARIABLES
  container,  \* "up" or "down": auth-audit
  at,         \* where each script is
  named,      \* the scripts whose account name admin accepts; check does not look at it
  applied,    \* how much of the change was made: "no", "part", "all"
  hit,        \* the scripts an interrupt reached while their trap was set
  status,     \* status of the script, its exit status in the end
  told,       \* what the script said on stderr
  events,     \* the outcomes recorded of each change
  stops, signals, failures   \* how often each happened

vars == <<container, at, named, applied, hit, status, told, events, stops, signals, failures>>

Bounds == <<stops, signals, failures>>

-----------------------------------------------------------------------------
Init ==
  /\ container \in {"up", "down"}
  /\ at = [o \in Operators |-> "check"]
  /\ named \in SUBSET Operators
  /\ applied = [o \in Operators |-> "no"]
  /\ hit = {}
  /\ status = [o \in Operators |-> 0]
  /\ told = [o \in Operators |-> "nothing"]
  /\ events = [o \in Operators |-> {}]
  /\ stops = 0 /\ signals = 0 /\ failures = 0

Exit(o, code, message) ==
  /\ at' = [at EXCEPT ![o] = "exit"]
  /\ status' = [status EXCEPT ![o] = code]
  /\ told' = [told EXCEPT ![o] = message]

(* `edge_audit.py check` in the container.                                 *)
Check(o) ==
  /\ at[o] = "check"
  /\ IF container = "up" THEN at' = [at EXCEPT ![o] = "checked"] /\ UNCHANGED <<status, told>>
     ELSE Exit(o, 1, "nothing was changed")
  /\ UNCHANGED <<container, named, applied, hit, events, Bounds>>

(* trap 'status=130' INT, and the change begins.                           *)
Run(o) ==
  /\ at[o] = "checked"
  /\ at' = [at EXCEPT ![o] = "change"]
  /\ UNCHANGED <<container, named, applied, hit, status, told, events, Bounds>>

(* A defect: what a failed change left behind counts as success.           *)
Ended_Ignored(o) ==
  /\ applied' \in {[applied EXCEPT ![o] = a] : a \in {"no", "part", "all"}}
  /\ status' = [status EXCEPT ![o] = IF o \in hit THEN 130 ELSE 0]

(* How the command can end: all of the change made and status 0, or some   *)
(* of it and a failure; the trap's status replaces a 0.                    *)
Ended(o) ==
  \/ /\ applied' = [applied EXCEPT ![o] = "all"]
     /\ status' = [status EXCEPT ![o] = IF o \in hit THEN 130 ELSE 0]
  \/ /\ \E a \in {"no", "part", "all"} : applied' = [applied EXCEPT ![o] = a]
     /\ status' = [status EXCEPT ![o] = 2]

Change(o) ==
  /\ at[o] = "change"
  /\ Ended(o)
  /\ at' = [at EXCEPT ![o] = "changed"]
  /\ UNCHANGED <<container, named, hit, told, events, Bounds>>

(* trap - INT.                                                             *)
Untrap(o) ==
  /\ at[o] = "changed"
  /\ at' = [at EXCEPT ![o] = "record"]
  /\ UNCHANGED <<container, named, applied, hit, status, told, events, Bounds>>

(* A defect: an outcome of its own for an interrupt, which admin refuses.  *)
Outcome_Interrupted(o) ==
  IF status[o] = 0 THEN "ok" ELSE IF status[o] = 130 THEN "interrupted" ELSE "error"

Outcome(o) == IF status[o] = 0 THEN "ok" ELSE "error"

Written(o) == events' = [events EXCEPT ![o] = @ \cup {Outcome(o)}]

Unwritten == "record it by other means"

(* A defect: the status of admin is not looked at.                         *)
RecordFails_Silently(o) == Exit(o, status[o], "nothing")

RecordFails(o) == Exit(o, 1, Unwritten)

(* `edge_audit.py admin` in the container wrote start, event and shutdown. *)
Record(o) ==
  /\ at[o] = "record" /\ container = "up" /\ o \in named
  /\ Written(o)
  /\ Exit(o, status[o], "nothing")
  /\ UNCHANGED <<container, named, applied, hit, Bounds>>

(* No container, or an account name admin refuses (status 2).              *)
RecordRefused(o) ==
  /\ at[o] = "record" /\ (container = "down" \/ o \notin named)
  /\ RecordFails(o)
  /\ UNCHANGED <<container, named, applied, hit, events, Bounds>>

(* One of the three lines is not written, or the container ends meanwhile: *)
(* the event is written if only the shutdown failed.                       *)
RecordFailed(o) ==
  /\ at[o] = "record" /\ container = "up" /\ o \in named
  /\ failures < MaxFailures /\ failures' = failures + 1
  /\ RecordFails(o)
  /\ Written(o) \/ UNCHANGED events
  /\ UNCHANGED <<container, named, applied, hit, stops, signals>>

-----------------------------------------------------------------------------
Alive(o) == at[o] \notin {"exit", "killed"}

Trapped(o) == at[o] \in {"change", "changed"}

(* A defect: the trap leaves the status as it was.                         *)
Interrupt_KeepsStatus(o) ==
  /\ Trapped(o)
  /\ hit' = hit \cup {o}
  /\ UNCHANGED <<container, at, named, applied, status, told, events>>

(* SIGINT while the trap is set: the status is 130, whatever the command   *)
(* makes of it.                                                            *)
Interrupt(o) ==
  /\ Trapped(o)
  /\ hit' = hit \cup {o}
  /\ status' = [status EXCEPT ![o] = 130]
  /\ UNCHANGED <<container, at, named, applied, told, events>>

(* SIGINT without the trap, SIGTERM or SIGHUP: the script is gone. What it *)
(* was running may end or go on.                                           *)
Kill(o) ==
  /\ Alive(o)
  /\ at' = [at EXCEPT ![o] = "killed"]
  /\ IF at[o] = "change" THEN \E a \in {"no", "part", "all"} : applied' = [applied EXCEPT ![o] = a]
     ELSE UNCHANGED applied
  /\ IF at[o] = "record" /\ container = "up" /\ o \in named THEN Written(o) \/ UNCHANGED events
     ELSE UNCHANGED events
  /\ UNCHANGED <<container, named, hit, status, told>>

Signal(o) ==
  /\ signals < MaxSignals /\ signals' = signals + 1
  /\ Interrupt(o) \/ Kill(o)
  /\ UNCHANGED <<stops, failures>>

(* docker compose up, or restart: unless-stopped.                          *)
ContainerStarts ==
  /\ container = "down" /\ container' = "up"
  /\ UNCHANGED <<at, named, applied, hit, status, told, events, Bounds>>

ContainerStops ==
  /\ container = "up" /\ container' = "down"
  /\ stops < MaxStops /\ stops' = stops + 1
  /\ UNCHANGED <<at, named, applied, hit, status, told, events, signals, failures>>

-----------------------------------------------------------------------------
Script(o) ==
  Check(o) \/ Run(o) \/ Change(o) \/ Untrap(o) \/ Record(o) \/ RecordRefused(o) \/ RecordFailed(o)

Next ==
  \/ \E o \in Operators : Script(o) \/ Signal(o)
  \/ ContainerStarts \/ ContainerStops

Spec == Init /\ [][Next]_vars

-----------------------------------------------------------------------------
(* The values every variable takes.                                        *)

PlacesTyped ==
  /\ container \in {"up", "down"}
  /\ at \in [Operators -> {"check", "checked", "change", "changed", "record", "exit", "killed"}]

ScriptsTyped == named \subseteq Operators /\ hit \subseteq Operators

ResultsTyped ==
  /\ applied \in [Operators -> {"no", "part", "all"}]
  /\ status \in [Operators -> {0, 1, 2, 130}]

TracesTyped ==
  /\ told \in [Operators -> {"nothing", "nothing was changed", Unwritten}]
  /\ events \in [Operators -> SUBSET {"ok", "error"}]

BoundsKept ==
  stops \in 0 .. MaxStops /\ signals \in 0 .. MaxSignals /\ failures \in 0 .. MaxFailures

TypeOK == PlacesTyped /\ ScriptsTyped /\ ResultsTyped /\ TracesTyped /\ BoundsKept

(* The record never says more than what happened: an event ok, or a script *)
(* that exits with 0, is of a change made in full, and such a script has   *)
(* its event.                                                              *)
OkMeansChanged ==
  \A o \in Operators :
    /\ "ok" \in events[o] => applied[o] = "all"
    /\ at[o] = "exit" /\ status[o] = 0 => events[o] = {"ok"}

(* A script that was told of an interrupt never reports success: the event *)
(* of an interrupted change is error ("An interrupted change is still      *)
(* recorded, as error").                                                   *)
InterruptedIsNoSuccess ==
  \A o \in Operators : o \in hit => "ok" \notin events[o] /\ (at[o] = "exit" => status[o] # 0)

(* A script that comes to its end leaves no change without an event unless *)
(* it said so (docs/audit.md: the target fails loudly), and when it says   *)
(* that nothing was changed, nothing was.                                  *)
UnrecordedIsTold ==
  \A o \in Operators : at[o] = "exit" =>
    /\ applied[o] # "no" /\ events[o] = {} => told[o] = Unwritten /\ status[o] # 0
    /\ told[o] = "nothing was changed" => applied[o] = "no"

-----------------------------------------------------------------------------
(* Why these hold: what a script has set, done, recorded and said at each  *)
(* of its lines.                                                           *)

Untouched(o) ==
  at[o] \in {"check", "checked"} => o \notin hit /\ status[o] = 0

NotYetChanged(o) ==
  at[o] \in {"check", "checked", "change"} => applied[o] = "no"

NotYetRecorded(o) ==
  /\ at[o] \notin {"exit", "killed"} => events[o] = {} /\ told[o] = "nothing"
  /\ at[o] = "change" /\ o \notin hit => status[o] = 0

ZeroMeansChanged(o) ==
  at[o] \in {"changed", "record"} /\ status[o] = 0 => applied[o] = "all" /\ o \notin hit

ScriptShape ==
  \A o \in Operators :
    Untouched(o) /\ NotYetChanged(o) /\ NotYetRecorded(o) /\ ZeroMeansChanged(o)

AdminInv == TypeOK /\ ScriptShape /\ OkMeansChanged /\ InterruptedIsNoSuccess /\ UnrecordedIsTold

=============================================================================
