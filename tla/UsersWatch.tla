----------------------------- MODULE UsersWatch -----------------------------
(***************************************************************************)
(* The record of account changes made in authelia/users.yml                *)
(* (src/audit/users_file.py: UsersFileWatcher, polled by the loop of serve *)
(* in src/audit/edge_audit.py). An editor or Authelia may write the file   *)
(* between any two steps of a round, and the container may be stopped or   *)
(* killed there.                                                           *)
(*                                                                         *)
(* A version of the file is a record: its kind, and its accounts if it can *)
(* be itemised. Its digest is the version itself. Of an account's other    *)
(* attributes only one value is kept, and of its password another.         *)
(***************************************************************************)
EXTENDS Integers, SequencesExt

CONSTANTS
  Names,      \* account names, as numbers in their alphabetical order
  Groups,     \* group names, likewise
  Versions,   \* what users.yml may hold, other than being missing
  ChunkIds,   \* MAX_TARGET_IDS: names per event
  QuietCrash, \* TRUE: a round is only cut off while the file is as it was
              \* read, and the file stays so until the next round is over
  MaxEdits,   \* bounds of the exploration: versions written,
  MaxStops,   \* stops between two rounds,
  MaxFaults   \* rounds cut off

Account == [groups : SUBSET Groups, disabled : BOOLEAN, password : Nat, profile : Nat]

ASSUME WatchAssumption ==
  /\ Names \subseteq Nat /\ IsFiniteSet(Names)
  /\ Groups \subseteq Nat /\ IsFiniteSet(Groups)
  /\ \A v \in Versions :
       /\ v.kind \in {"accounts", "refused", "raises"}
       /\ v.kind = "accounts" =>
            DOMAIN v.accounts \subseteq Names /\ \A n \in DOMAIN v.accounts : v.accounts[n] \in Account
  /\ ChunkIds \in Nat \ {0} /\ QuietCrash \in BOOLEAN
  /\ MaxEdits \in Nat /\ MaxStops \in Nat /\ MaxFaults \in Nat

VARIABLES
  file,       \* users.yml
  pc,         \* where the watcher is: "down", "poll", "emit" or "save"
  known,      \* users-file.json; while the service runs, also its memory
  pending,    \* _pending: the unreadable version of the last round
  next,       \* the state to save at the end of this round
  todo,       \* events of this round not written yet
  trail,      \* the account events written
  torn,       \* a round was cut off and none completed since
  held,       \* versions the file had since a round last ended (history)
  itemised,   \* lengths of the trail at which a version became known (history)
  edits, stops, faults   \* how often each happened

vars == <<file, pc, known, pending, next, todo, trail, torn, held, itemised, edits, stops, faults>>

Missing == [kind |-> "missing"]
NoVersion == [kind |-> "none"]
NoAccounts == << >>                   \* the function on no account

(* History: the version, if there is something to tell of it.              *)
Tellable(version) == IF version.kind \in {"accounts", "refused"} THEN {version} ELSE {}

(* UsersState(): no version itemised, none recorded as unparsed.           *)
UsersState == [version |-> NoVersion, unparsed |-> NoVersion]

-----------------------------------------------------------------------------
(* Events, by operation.                                                   *)

Change(operation, name, groups, disabled) ==
  [operation |-> operation, ids |-> <<name>>, groups |-> groups, disabled |-> disabled]

Listing(operation, ids, groups) ==
  [operation |-> operation, ids |-> ids, groups |-> groups, disabled |-> FALSE]

Unparsed(version) == [operation |-> "account.unparsed", version |-> version]

(* A set of names in order: of its k-th name, k - 1 are smaller.           *)
Sorted(S) == [k \in 1 .. Cardinality(S) |-> CHOOSE n \in S : Cardinality({m \in S : m < n}) = k - 1]

(* A defect: a flag that changes with the groups is left to a next round.  *)
ChangesOf_FirstOnly(name, old, new) ==
  IF old.groups # new.groups THEN <<Change("account.groups", name, new.groups, FALSE)>>
  ELSE IF old.disabled # new.disabled
    THEN <<Change(IF new.disabled THEN "account.disable" ELSE "account.enable", name, {}, FALSE)>>
  ELSE << >>

(* The changes of an account that is in both versions.                     *)
ChangesOf(name, old, new) ==
  (IF old.groups # new.groups THEN <<Change("account.groups", name, new.groups, FALSE)>> ELSE << >>)
  \o (IF old.disabled # new.disabled
        THEN <<Change(IF new.disabled THEN "account.disable" ELSE "account.enable", name, {}, FALSE)>>
        ELSE << >>)
  \o (IF old.password # new.password THEN <<Change("account.password", name, {}, FALSE)>> ELSE << >>)
  \o (IF old.profile # new.profile THEN <<Change("account.profile", name, {}, FALSE)>> ELSE << >>)

(* diff_accounts: account by account, in the order of their names.         *)
DiffAccounts(before, after) ==
  LET names == Sorted(DOMAIN before \cup DOMAIN after)
      Of(n) == IF n \notin DOMAIN before
                 THEN <<Change("account.create", n, after[n].groups, after[n].disabled)>>
               ELSE IF n \notin DOMAIN after THEN <<Change("account.delete", n, {}, FALSE)>>
               ELSE ChangesOf(n, before[n], after[n])
  IN FlattenSeq([k \in 1 .. Len(names) |-> Of(names[k])])

(* _chunked: a list of names, continued in events of its own.             *)
Chunked(operation, continued, names, groups) ==
  LET ids == Sorted(names)
      chunks == (Len(ids) + ChunkIds - 1) \div ChunkIds
      Chunk(k) == SubSeq(ids, (k - 1) * ChunkIds + 1, IF k * ChunkIds < Len(ids) THEN k * ChunkIds ELSE Len(ids))
  IN [k \in 1 .. (IF chunks = 0 THEN 1 ELSE chunks) |->
        Listing(IF k = 1 THEN operation ELSE continued, Chunk(k), groups)]

(* _baseline; a continued event takes its group from the first it names.   *)
Baseline(accounts) ==
  LET names == DOMAIN accounts
      groups == Sorted(UNION {accounts[n].groups : n \in names})
      Members(g) == {n \in names : g \in accounts[n].groups}
      disabled == {n \in names : accounts[n].disabled}
  IN Chunked("account.baseline", "account.baseline.ids", names, {})
     \o FlattenSeq([k \in 1 .. Len(groups) |->
                      Chunked("account.baseline.group", "account.baseline.group.ids",
                              Members(groups[k]), {groups[k]})])
     \o (IF disabled = {} THEN << >>
         ELSE Chunked("account.baseline.disabled", "account.baseline.disabled.ids", disabled, {}))

-----------------------------------------------------------------------------
Init ==
  /\ file \in Versions \cup {Missing}
  /\ pc = "down"
  /\ known = UsersState /\ next = UsersState
  /\ pending = NoVersion
  /\ todo = << >> /\ trail = << >>
  /\ torn = FALSE
  /\ held = Tellable(file) /\ itemised = {}
  /\ edits = 0 /\ stops = 0 /\ faults = 0

Environment == <<file, edits, stops, faults>>

(* serve loads the state; _pending and a round in progress are gone.       *)
StartUp ==
  /\ pc = "down"
  /\ pc' = "poll"
  /\ UNCHANGED <<Environment, held, itemised, known, pending, next, todo, trail, torn>>

(* A defect: a missing file is taken for one without accounts.             *)
ReadMissing_AsEmpty ==
  /\ pc = "poll" /\ file = Missing
  /\ \/ known.version = NoVersion /\ UNCHANGED vars
     \/ /\ known.version # NoVersion
        /\ todo' = DiffAccounts(known.version.accounts, NoAccounts)
        /\ next' = [version |-> [kind |-> "accounts", accounts |-> NoAccounts], unparsed |-> NoVersion]
        /\ pc' = IF todo' = << >> THEN "save" ELSE "emit"
        /\ UNCHANGED <<Environment, held, itemised, known, pending, trail, torn>>

(* poll: the file cannot be read. What was pending stays so.               *)
ReadMissing ==
  /\ pc = "poll" /\ file = Missing
  /\ UNCHANGED vars

(* poll: the version itemised last.                                        *)
ReadSame ==
  /\ pc = "poll" /\ file = known.version
  /\ pending' = NoVersion
  /\ torn' = FALSE /\ held' = Tellable(file)
  /\ UNCHANGED <<Environment, itemised, pc, known, next, todo, trail>>

(* poll: a version that can be itemised, the first or a new one.           *)
ReadChanged ==
  /\ pc = "poll" /\ file.kind = "accounts" /\ file # known.version
  /\ pending' = NoVersion
  /\ todo' = IF known.version = NoVersion THEN Baseline(file.accounts)
             ELSE DiffAccounts(known.version.accounts, file.accounts)
  /\ next' = [version |-> file, unparsed |-> NoVersion]
  /\ pc' = IF todo' = << >> THEN "save" ELSE "emit"
  /\ UNCHANGED <<Environment, held, itemised, known, trail, torn>>

(* A defect: the version seen is not remembered.                           *)
ReadRefused_Unremembered ==
  /\ pc = "poll" /\ file.kind = "refused"
  /\ file = pending /\ known.unparsed # file
  /\ todo' = <<Unparsed(file)>>
  /\ next' = [known EXCEPT !.unparsed = file]
  /\ pc' = "emit"
  /\ UNCHANGED <<Environment, held, itemised, known, pending, trail, torn>>

(* _unreadable: once seen, it is recorded if it is there the next time,    *)
(* unless it was.                                                          *)
ReadRefused ==
  /\ pc = "poll" /\ file.kind = "refused"
  /\ \/ /\ file # pending
        /\ pending' = file
        /\ UNCHANGED <<pc, next, todo>>
     \/ /\ file = pending /\ known.unparsed # file
        /\ todo' = <<Unparsed(file)>>
        /\ next' = [known EXCEPT !.unparsed = file]
        /\ pc' = "emit"
        /\ UNCHANGED pending
     \/ /\ file = pending /\ known.unparsed = file
        /\ UNCHANGED <<pc, pending, next, todo>>
  /\ UNCHANGED <<Environment, held, itemised, known, trail, torn>>

(* A defect: the events of the round that was cut off are still written.   *)
Down_KeepsTodo ==
  /\ pc' = "down"
  /\ pending' = NoVersion /\ next' = UsersState /\ UNCHANGED todo

(* The end of the process: memory is lost, the files stay.                 *)
Down ==
  /\ pc' = "down"
  /\ pending' = NoVersion /\ next' = UsersState /\ todo' = << >>

(* poll: parsing raises an error that neither poll nor serve handles: the  *)
(* OverflowError or ValueError of chr, the UnicodeEncodeError of _digest.  *)
ReadRaises ==
  /\ pc = "poll" /\ file.kind = "raises"
  /\ Down
  /\ UNCHANGED <<Environment, held, itemised, known, trail, torn>>

EmitChange ==
  /\ pc = "emit"
  /\ trail' = Append(trail, Head(todo))
  /\ todo' = Tail(todo)
  /\ pc' = IF Tail(todo) = << >> THEN "save" ELSE "emit"
  /\ UNCHANGED <<Environment, held, itemised, known, pending, next, torn>>

(* History: whether the round found a version that can be itemised.        *)
Itemised == IF next.unparsed = NoVersion THEN itemised \cup {Len(trail)} ELSE itemised

(* A defect: a version is known without what was recorded as unparsed.     *)
Save_ForgetsUnparsed ==
  /\ pc = "save"
  /\ known' = [next EXCEPT !.unparsed = NoVersion]
  /\ itemised' = Itemised
  /\ pc' = "poll" /\ next' = UsersState
  /\ torn' = FALSE /\ held' = Tellable(file)
  /\ UNCHANGED <<Environment, pending, todo, trail>>

(* save_users_state; Authelia or an editor may have written since the      *)
(* file was read: the next round compares with the version that was read.  *)
Save ==
  /\ pc = "save"
  /\ known' = next
  /\ itemised' = Itemised
  /\ pc' = "poll" /\ next' = UsersState
  /\ torn' = FALSE /\ held' = Tellable(file)
  /\ UNCHANGED <<Environment, pending, todo, trail>>

-----------------------------------------------------------------------------
(* serve stops, or is killed, between two rounds.                          *)
Stopped ==
  /\ pc = "poll"
  /\ stops < MaxStops
  /\ stops' = stops + 1
  /\ Down
  /\ UNCHANGED <<file, known, trail, torn, held, itemised, edits, faults>>

(* The process is killed, an event cannot be written, or the state cannot  *)
(* be saved (its rename is the last step that can fail).                   *)
Crash ==
  /\ pc \in {"emit", "save"}
  /\ faults < MaxFaults
  /\ QuietCrash => file \in {next.version, next.unparsed}
  /\ faults' = faults + 1
  /\ torn' = TRUE
  /\ Down
  /\ UNCHANGED <<file, known, trail, held, itemised, edits, stops>>

(* An editor or Authelia writes the file, or moves it away for a moment.   *)
Edit ==
  /\ edits < MaxEdits
  /\ QuietCrash => ~torn
  /\ edits' = edits + 1
  /\ file' \in (Versions \cup {Missing}) \ {file}
  /\ held' = held \cup Tellable(file')
  /\ UNCHANGED <<pc, known, pending, next, todo, trail, torn, itemised, stops, faults>>

-----------------------------------------------------------------------------
Poll == ReadSame \/ ReadChanged \/ ReadRefused \/ ReadRaises

Next ==
  \/ StartUp \/ Poll \/ ReadMissing \/ EmitChange \/ Save
  \/ Stopped \/ Crash \/ Edit

Spec == Init /\ [][Next]_vars

(* The container is restarted whenever it ended (restart: unless-stopped), *)
(* and its loop polls again and again.                                     *)
Fairness == WF_vars(StartUp \/ Poll \/ EmitChange \/ Save)

FairSpec == Spec /\ Fairness

-----------------------------------------------------------------------------
(* What a reader of the trail believes: which accounts there are, with     *)
(* which groups, and which of them are disabled.                           *)

View(accounts) == [n \in DOMAIN accounts |-> [groups |-> accounts[n].groups, disabled |-> accounts[n].disabled]]

Believing(belief, event) ==
  LET named == IF event.operation = "account.unparsed" THEN {} ELSE ToSet(event.ids)
      New(others, groups, disabled) ==
        [n \in named \cup others |->
           IF n \in named THEN [groups |-> groups, disabled |-> disabled] ELSE belief[n]]
      Set(field, value) == [n \in DOMAIN belief |->
                              IF n \in named THEN [belief[n] EXCEPT ![field] = value] ELSE belief[n]]
  IN CASE event.operation = "account.baseline" -> New({}, {}, FALSE)
       [] event.operation = "account.baseline.ids" -> New(DOMAIN belief, {}, FALSE)
       [] event.operation \in {"account.baseline.group", "account.baseline.group.ids"} ->
            [n \in DOMAIN belief |->
               IF n \in named THEN [belief[n] EXCEPT !.groups = @ \cup event.groups] ELSE belief[n]]
       [] event.operation \in {"account.baseline.disabled", "account.baseline.disabled.ids", "account.disable"} ->
            Set("disabled", TRUE)
       [] event.operation = "account.enable" -> Set("disabled", FALSE)
       [] event.operation = "account.groups" -> Set("groups", event.groups)
       [] event.operation = "account.create" -> New(DOMAIN belief, event.groups, event.disabled)
       [] event.operation = "account.delete" -> [n \in DOMAIN belief \ named |-> belief[n]]
       [] OTHER -> belief

Belief(events) ==
  LET believed[k \in 0 .. Len(events)] ==
        IF k = 0 THEN NoAccounts ELSE Believing(believed[k - 1], events[k])
  IN  believed[Len(events)]

-----------------------------------------------------------------------------
(* The values every variable takes.                                        *)
TypeOK ==
  /\ file \in Versions \cup {Missing}
  /\ pc \in {"down", "poll", "emit", "save"}
  /\ \A s \in {known, next} :
       /\ s.version = NoVersion \/ (s.version \in Versions /\ s.version.kind = "accounts")
       /\ s.unparsed = NoVersion \/ (s.unparsed \in Versions /\ s.unparsed.kind = "refused")
  /\ pending = NoVersion \/ (pending \in Versions /\ pending.kind = "refused")
  /\ (todo # << >>) <=> (pc = "emit")
  /\ torn \in BOOLEAN
  /\ edits \in 0 .. MaxEdits /\ stops \in 0 .. MaxStops /\ faults \in 0 .. MaxFaults

(* Between rounds, the trail alone tells which accounts there are, with    *)
(* which groups, and which are disabled: exactly as in the version saved,  *)
(* over clean restarts, edits during a round, and rounds cut off and done  *)
(* again (docs/audit.md: "a restart neither repeats nor misses a change"). *)
TrailTellsAccounts ==
  pc \in {"poll", "down"} /\ ~torn /\ known.version # NoVersion =>
    Belief(trail) = View(known.version.accounts)

(* As long as nothing is cut off, no restart and no sequence of versions   *)
(* records anything twice: every event of an account's existence, groups   *)
(* or flag tells something new, and the same unreadable version is not     *)
(* recorded twice in a row, unless the file could be itemised in between   *)
(* without a change to tell of.                                            *)
NothingToldTwice ==
  faults = 0 =>
    \A k \in 2 .. Len(trail) :
      /\ trail[k].operation = "account.unparsed" => trail[k] # trail[k - 1] \/ k - 1 \in itemised
      /\ trail[k].operation \in {"account.create", "account.delete", "account.groups",
                                 "account.enable", "account.disable"} =>
           Belief(SubSeq(trail, 1, k)) # Belief(SubSeq(trail, 1, k - 1))

(* What an event tells of an account that it names.                        *)
TrueOfAccount(event, account) ==
  /\ event.operation \in {"account.create", "account.groups"} => account.groups = event.groups
  /\ event.operation = "account.create" => account.disabled = event.disabled
  /\ event.operation \in {"account.baseline.group", "account.baseline.group.ids"} =>
       event.groups \subseteq account.groups
  /\ event.operation \in {"account.disable", "account.baseline.disabled", "account.baseline.disabled.ids"} =>
       account.disabled
  /\ event.operation = "account.enable" => ~account.disabled

(* An event that is true of a version: of every account that it names, or  *)
(* of the version itself.                                                  *)
TrueOf(event, version) ==
  IF event.operation = "account.unparsed" THEN version.kind = "refused" /\ event.version = version
  ELSE /\ version.kind = "accounts"
       /\ \A n \in ToSet(event.ids) :
            IF event.operation = "account.delete" THEN n \notin DOMAIN version.accounts
            ELSE n \in DOMAIN version.accounts /\ TrueOfAccount(event, version.accounts[n])

(* The events of one round are true of one version, which the file held    *)
(* since the round before: a round tells of nothing that was there before  *)
(* that, of no mixture of what it read and what was written since, and of  *)
(* no deletion because the file was missing or could not be itemised when  *)
(* it was read (docs/audit.md: "A missing file is never taken for deleted  *)
(* accounts"). A file that was half written may parse: then it is a        *)
(* version, and what it lacks is told as deleted.                          *)
RoundTellsOneVersion ==
  [][trail' # trail =>
       \E v \in held : \A event \in {Last(trail')} \cup ToSet(todo') : TrueOf(event, v)]_vars

(* A version that stays is dealt with in the end: itemised and known, or   *)
(* recorded as unparsed (poll, _unreadable and the loop of serve).         *)
Recorded(v) == known.version = v \/ known.unparsed = v

LastingVersionIsRecorded ==
  \A v \in Versions : v.kind # "raises" => (file = v ~> file # v \/ Recorded(v))

(* docs/audit.md: "A version of the file that the parser cannot read ...   *)
(* is recorded once, as account.unparsed", whatever made it unreadable.    *)
UnreadableIsRecorded ==
  \A v \in Versions : v.kind # "accounts" => (file = v ~> file # v \/ Recorded(v))

=============================================================================
