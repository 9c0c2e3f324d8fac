----------------------------- MODULE TrailStore -----------------------------
(***************************************************************************)
(* What a clean verification of the audit trail is worth. Emitters write   *)
(* chains (AuditEmitter._append: seq, prev_hash), a store brings the lines *)
(* in windows, in any order, and may lose, repeat, damage or delay some;   *)
(* each window is checked with the heads of the one before                 *)
(* (src/audit/audit_event.py: verify_chain, ChainReport.heads).            *)
(***************************************************************************)
EXTENDS VerifyChain, SequencesExt

CONSTANTS
  Silence,    \* windows an open chain may go without an event
  MaxEvents,  \* bounds of the exploration: events of each chain,
  MaxWindows, \* windows verified,
  MaxHarm     \* lines lost, repeated, damaged or delayed

ASSUME StoreAssumption ==
  /\ Silence \in Nat /\ MaxEvents \in [Instances -> Nat] /\ MaxWindows \in Nat /\ MaxHarm \in Nat
  /\ "?" \notin Instances           \* stands for no instance, in a problem

VARIABLES
  written,    \* the events of each chain, as the emitter wrote them
  window,     \* the lines that arrived since the last verification
  late,       \* lines that will arrive in a later window
  delivered,  \* the lines verified so far
  heads,      \* ChainReport.heads of the last verification
  found,      \* the problems of all verifications
  clock,      \* verifications so far: the time of this model
  harm        \* how many lines came to harm

vars == <<written, window, late, delivered, heads, found, clock, harm>>

Service == "edge-plane"

(* An event's content is told by its chain and its seq; so is its hash.    *)
HashOf(i, seq) == <<i, seq>>

WrittenEvent(i, seq, operation) ==
  Event(i, Service, seq, IF seq = 0 THEN Genesis ELSE HashOf(i, seq - 1), HashOf(i, seq),
        TRUE, operation, clock)

Ended(i) == written[i] # << >> /\ Last(written[i]).operation = "shutdown"

Damaged(line) ==
  {Garbled, [line EXCEPT !.intact = FALSE], [line EXCEPT !.service = "?", !.intact = FALSE]}

-----------------------------------------------------------------------------
Init ==
  /\ written = [i \in Instances |-> << >>]
  /\ window = << >> /\ late = << >> /\ delivered = << >>
  /\ heads = NoHeads
  /\ found = {}
  /\ clock = 0 /\ harm = 0

(* One event of a chain: start first, shutdown last. Its line takes any    *)
(* place among those that arrive with it.                                  *)
Write(i) ==
  /\ ~Ended(i)
  /\ Len(written[i]) < MaxEvents[i]
  /\ \E operation \in IF written[i] = << >> THEN {"start"} ELSE {"heartbeat", "shutdown"} :
       LET event == WrittenEvent(i, Len(written[i]), operation) IN
         /\ written' = [written EXCEPT ![i] = Append(@, event)]
         /\ \E k \in 1 .. Len(window) + 1 : window' = InsertAt(window, k, event)
  /\ UNCHANGED <<late, delivered, heads, found, clock, harm>>

Harm ==
  /\ harm < MaxHarm
  /\ harm' = harm + 1
  /\ UNCHANGED <<written, delivered, heads, found, clock>>

Lose ==
  /\ \E k \in 1 .. Len(window) : window' = RemoveAt(window, k)
  /\ UNCHANGED late
  /\ Harm

(* A line is delivered again, in its own window or in a later one.         *)
Repeat ==
  /\ \E k \in 1 .. Len(window \o delivered) : window' = Append(window, (window \o delivered)[k])
  /\ UNCHANGED late
  /\ Harm

Damage ==
  /\ \E k \in 1 .. Len(window) :
       window[k].readable /\ \E line \in Damaged(window[k]) : window' = ReplaceAt(window, k, line)
  /\ UNCHANGED late
  /\ Harm

Delay ==
  /\ \E k \in 1 .. Len(window) :
       late' = Append(late, window[k]) /\ window' = RemoveAt(window, k)
  /\ Harm

(* verify_chain over the window, with the last heads as checkpoints.       *)
VerifyWindow ==
  /\ clock < MaxWindows
  /\ LET report == Verify(window, heads, clock, Silence) IN
       /\ found' = found \cup report.problems
       /\ heads' = report.heads
  /\ delivered' = delivered \o window
  /\ window' = late /\ late' = << >>
  /\ clock' = clock + 1
  /\ UNCHANGED <<written, harm>>

Next ==
  \/ \E i \in Instances : Write(i)
  \/ Lose \/ Repeat \/ Damage \/ Delay
  \/ VerifyWindow

Spec == Init /\ [][Next]_vars

-----------------------------------------------------------------------------
(* The values every variable takes.                                        *)
TypeOK ==
  /\ \A i \in Instances : Len(written[i]) <= MaxEvents[i]
  /\ \A i \in Instances : heads[i].seq \in -1 .. MaxEvents[i] - 1 /\ heads[i].ended \in BOOLEAN
  /\ \A p \in found : p.kind \in {"schema", "bad_hash", "broken_link", "seq_gap", "seq_repeat", "no_start",
                                  "service_mismatch", "after_shutdown", "unterminated"}
  /\ clock \in 0 .. MaxWindows /\ harm \in 0 .. MaxHarm

Defects(i) == {p \in found : p.instance = i /\ p.kind # "unterminated"}

Arrived(event) == \E k \in 1 .. Len(delivered) : delivered[k] = event

(* Order alone is never a problem: events may arrive interleaved across    *)
(* chains and out of order within a window, and windows may cut a chain    *)
(* anywhere (verify_chain's docstring).                                    *)
NoFalseAlarm == harm = 0 => \A p \in found : p.kind = "unterminated"

(* A chain without a defect is whole up to its head: every event the       *)
(* emitter wrote up to there was delivered unharmed, and the head is the   *)
(* event the emitter wrote at that place (ChainHead: the last verified     *)
(* position).                                                              *)
CleanMeansComplete ==
  \A i \in Instances : Defects(i) = {} /\ heads[i] # NoHead =>
    /\ heads[i].seq < Len(written[i])
    /\ heads[i].hash = written[i][heads[i].seq + 1].hash
    /\ \A k \in 1 .. heads[i].seq + 1 : Arrived(written[i][k])

(* A chain without a defect that is reported as ended is the whole chain:  *)
(* nothing was written after what the reader has (ChainHead.ended).        *)
EndedMeansWhole ==
  \A i \in Instances : Defects(i) = {} /\ heads[i].ended =>
    Ended(i) /\ heads[i].seq = Len(written[i]) - 1

(* Cutting the trail into windows hides nothing: a chain found clean       *)
(* window by window is clean when all its lines are checked at once.       *)
WindowsHideNothing ==
  \A i \in Instances : Defects(i) = {} =>
    {p \in Verify(delivered, NoHeads, 0, Silence).problems : p.instance = i} = {}

(* A chain that lost its end is noticed: if the reader heard nothing of it *)
(* for longer than allowed and it did not end, that was reported (silence, *)
(* ChainHead.closed).                                                      *)
LostEndIsNoticed ==
  \A i \in Instances :
    heads[i] # NoHead /\ ~heads[i].ended /\ clock - 1 - heads[i].ts > Silence =>
      \E p \in found : p.instance = i /\ p.kind = "unterminated"

=============================================================================
