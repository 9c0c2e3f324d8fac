----------------------------- MODULE TrailLedger -----------------------------
(***************************************************************************)
(* What the export of the authentication log promises a reader of the      *)
(* trail, whatever the database, the container and the disk do: an event   *)
(* is written before the position it stands for is saved, one at a time,   *)
(* so the trail alone tells where the export stands                        *)
(* (src/audit/edge_audit.py: _rewind, _export; serve's config.audit).      *)
(***************************************************************************)
EXTENDS Integers, Sequences

CONSTANT Attempts          \* the login attempts an event can be about

VARIABLES
  written,    \* the events, oldest first
  saved       \* the saved position: the row id of the last row done with

ledger == <<written, saved>>

Event(kind, at, row) == [kind |-> kind, at |-> at, row |-> row]

ConfigEvent(n)       == Event("config", n, 0)    \* criteria.resume_after_id
RewindEvent(n)       == Event("rewind", n, 0)    \* criteria.previous_last_id
AuthEvent(id, login) == Event("auth", id, login) \* criteria.log_id

Events == [kind : {"auth", "rewind", "config"}, at : Nat, row : Attempts \cup {0}]

LastEvent == written[Len(written)]

(* The position a reader attributes to the running export after event e.   *)
PositionAfter(e) == IF e.kind = "rewind" THEN 0 ELSE e.at

(* What a restart may resume from after event e: the process ended before  *)
(* or after the position was saved.                                        *)
ResumableAfter(e) ==
  {PositionAfter(e)} \cup (IF e.kind = "auth" THEN {e.at - 1} ELSE {e.at})

(* The last event written has been followed by its position.               *)
Settled == written # << >> /\ PositionAfter(LastEvent) = saved

-----------------------------------------------------------------------------
Init == written = << >> /\ saved = 0

(* A start announces the position it resumes from.                         *)
Announce ==
  /\ written' = Append(written, ConfigEvent(saved))
  /\ UNCHANGED saved

(* A row's event is written, then its id becomes the position.             *)
Report ==
  /\ Settled
  /\ \E login \in Attempts : written' = Append(written, AuthEvent(saved + 1, login))
  /\ UNCHANGED saved

Advance ==
  /\ written # << >> /\ LastEvent.kind = "auth" /\ LastEvent.at = saved + 1
  /\ saved' = saved + 1
  /\ UNCHANGED written

(* The ids start over: first the event that names the position given up.   *)
GiveUp ==
  /\ Settled
  /\ written' = Append(written, RewindEvent(saved))
  /\ UNCHANGED saved

StartOver ==
  /\ written # << >> /\ LastEvent = RewindEvent(saved)
  /\ saved' = 0
  /\ UNCHANGED written

Next == Announce \/ Report \/ Advance \/ GiveUp \/ StartOver

Spec == Init /\ [][Next]_ledger

-----------------------------------------------------------------------------
TypeOK == written \in Seq(Events) /\ saved \in Nat

Follows(e, f) ==
  /\ f.kind = "auth"   => f.at = PositionAfter(e) + 1
  /\ f.kind = "rewind" => f.at = PositionAfter(e)
  /\ f.kind = "config" => f.at \in ResumableAfter(e)

(* The trail alone tells what happened to the export: rows come in order   *)
(* with no gap, a row is repeated only right after a restart (and only the *)
(* last one), a restart announces the position it resumes from, and the    *)
(* ids start over only after an auth_log.rewind that names the position    *)
(* given up (serve's resume_after_id, _rewind's previous_last_id).         *)
TrailTellsPosition ==
  /\ written # << >> => written[1] = ConfigEvent(0)
  /\ \A k \in 2 .. Len(written) : Follows(written[k - 1], written[k])

=============================================================================
