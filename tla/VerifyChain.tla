----------------------------- MODULE VerifyChain -----------------------------
(***************************************************************************)
(* How a reader checks the hash chains of audit lines                      *)
(* (src/audit/audit_event.py: verify_chain, _schema_problem; `auth-audit   *)
(* verify` runs it over a container's log, the audit store over one window *)
(* of lines after another, with the heads of the last one as checkpoints). *)
(*                                                                         *)
(* A line is Garbled, or an event with the fields verify_chain looks at.   *)
(* A hash is a value that tells events apart; intact says that it is the   *)
(* hash of the event's content. Problems are a set: their order and how    *)
(* often the same one is found are left out.                               *)
(***************************************************************************)
EXTENDS Integers, Sequences, FiniteSets

CONSTANTS
  Instances,  \* the chains
  Genesis     \* GENESIS_HASH

Garbled == [readable |-> FALSE]       \* a line _schema_problem rejects

Event(instance, service, seq, prev, hash, intact, operation, ts) ==
  [readable |-> TRUE, instance |-> instance, service |-> service, seq |-> seq, prev_hash |-> prev,
   hash |-> hash, intact |-> intact, operation |-> operation, ts |-> ts]

ChainProblem(instance, seq, kind) == [instance |-> instance, seq |-> seq, kind |-> kind]

(* A defect: no event before the first one, counted wrongly.               *)
NoHead_Earlier == [service |-> "", seq |-> -2, hash |-> Genesis, ts |-> 0, closed |-> FALSE, ended |-> FALSE]

(* No checkpoint: a chain is expected to start at seq 0 after GENESIS_HASH. *)
NoHead == [service |-> "", seq |-> -1, hash |-> Genesis, ts |-> 0, closed |-> FALSE, ended |-> FALSE]

NoHeads == [i \in Instances |-> NoHead]

-----------------------------------------------------------------------------
(* Where the events of a chain are among the lines, and how many of them   *)
(* go before one of them: in seq order, the same seq as they arrived.      *)

ByInstance(lines, instance) ==
  {n \in 1 .. Len(lines) : lines[n].readable /\ lines[n].instance = instance}

Before(lines, m, n) ==
  lines[m].seq < lines[n].seq \/ (lines[m].seq = lines[n].seq /\ m < n)

Place(lines, instance, n) ==
  Cardinality({m \in ByInstance(lines, instance) : Before(lines, m, n)})

ChainOf(lines, instance) ==
  LET events == ByInstance(lines, instance)
  IN [k \in 1 .. Cardinality(events) |-> lines[CHOOSE n \in events : Place(lines, instance, n) = k - 1]]

Unseen == [seq |-> -1]                \* last, before the first event

(* A defect: the next window must begin with the checkpoint itself.        *)
ChainStart_AtHead(head, chain) ==
  [service |-> IF head # NoHead THEN head.service ELSE chain[1].service,
   expected |-> IF head # NoHead THEN head.seq ELSE 0, prev |-> head.hash,
   closed |-> head.closed, ended |-> head.ended, last |-> Unseen, problems |-> {}]

ChainStart(head, chain) ==
  [service |-> IF head # NoHead THEN head.service ELSE chain[1].service,
   expected |-> head.seq + 1, prev |-> head.hash,
   closed |-> head.closed, ended |-> head.ended, last |-> Unseen, problems |-> {}]

(* Why an event is left out of the chain, if it is.                        *)
LeftOut(c, e) ==
  IF e.service # c.service THEN "service_mismatch"
  ELSE IF e.seq = c.last.seq THEN "seq_repeat"
  ELSE IF c.ended /\ e.seq >= c.expected THEN "after_shutdown"
  ELSE "no"

(* A defect: a gap at the front of a window is not looked for.             *)
Faults_NoFirstGap(head, c, e) ==
  (IF e.seq # c.expected
     THEN IF c.last = Unseen THEN {} ELSE {"seq_gap"}
     ELSE IF e.prev_hash # c.prev THEN {"broken_link"} ELSE {})
  \cup (IF e.intact THEN {} ELSE {"bad_hash"})

(* Another: a gap between the events of a window.                          *)
Faults_NoInnerGap(head, c, e) ==
  (IF e.seq # c.expected
     THEN IF c.last = Unseen THEN {"seq_gap"} ELSE {}
     ELSE IF e.prev_hash # c.prev THEN {"broken_link"} ELSE {})
  \cup (IF e.intact THEN {} ELSE {"bad_hash"})

(* What is wrong with an event that is taken into the chain.               *)
Faults(head, c, e) ==
  (IF e.seq # c.expected
     THEN {IF head = NoHead /\ c.last = Unseen THEN "no_start" ELSE "seq_gap"}
     ELSE IF e.prev_hash # c.prev THEN {"broken_link"} ELSE {})
  \cup (IF e.intact THEN {} ELSE {"bad_hash"})

CheckEvent(instance, head, c, e) ==
  IF LeftOut(c, e) # "no"
    THEN [c EXCEPT !.problems = @ \cup {ChainProblem(instance, e.seq, LeftOut(c, e))}]
    ELSE [c EXCEPT !.problems = @ \cup {ChainProblem(instance, e.seq, kind) : kind \in Faults(head, c, e)},
                   !.expected = e.seq + 1, !.prev = e.hash, !.last = e,
                   !.closed = (e.operation = "shutdown"), !.ended = (e.operation = "shutdown")]

CheckChain(instance, head, chain) ==
  LET after[k \in 0 .. Len(chain)] ==
        IF k = 0 THEN ChainStart(head, chain)
        ELSE CheckEvent(instance, head, after[k - 1], chain[k])
      c == after[Len(chain)]
  IN IF chain = << >> THEN [problems |-> {}, head |-> head]
     ELSE [problems |-> c.problems,
           head |-> IF c.last = Unseen THEN head
                    ELSE [service |-> c.service, seq |-> c.last.seq, hash |-> c.last.hash,
                          ts |-> c.last.ts, closed |-> c.closed, ended |-> c.ended]]

-----------------------------------------------------------------------------
(* All chains of a window. Without a silence to look for, no chain is open *)
(* for too long: pass now = 0.                                             *)

(* A defect: one window too patient.                                       *)
Silent_Late(head, now, silence) == head # NoHead /\ ~head.closed /\ now - head.ts > silence + 1

Silent(head, now, silence) == head # NoHead /\ ~head.closed /\ now - head.ts > silence

(* A head reported as unterminated counts as closed, but it may resume.    *)
ReportedHead_Ended(head) == [head EXCEPT !.closed = TRUE, !.ended = TRUE]
ReportedHead(head)       == [head EXCEPT !.closed = TRUE, !.ended = FALSE]

Verify(lines, heads, now, silence) ==
  LET checked == [i \in Instances |-> CheckChain(i, heads[i], ChainOf(lines, i))]
      quiet   == {i \in Instances : Silent(checked[i].head, now, silence)}
  IN [problems |-> (UNION {checked[i].problems : i \in Instances})
                   \cup {ChainProblem("?", 0, "schema") : k \in {n \in 1 .. Len(lines) : ~lines[n].readable}}
                   \cup {ChainProblem(i, checked[i].head.seq, "unterminated") : i \in quiet},
      heads |-> [i \in Instances |->
                   IF i \in quiet THEN ReportedHead(checked[i].head)
                   ELSE checked[i].head]]

=============================================================================
