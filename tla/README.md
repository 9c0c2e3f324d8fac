# A verification project for edge-plane

edge-plane is the login plane of a set of internal web applications: a Caddy
gateway, Authelia as its forward-auth provider, and `auth-audit`, a Python
service that turns logins and account changes into hash-chained audit events.
The part with state, concurrency and failure handling of its own is
`auth-audit`, in `src/audit` and `src/scripts/audit-admin.sh`: this project is
about it. Authelia, editors, the operator and docker are its environment.

## 1. Inventory

| Component | State | Operations | Interacts with | Correct when |
|---|---|---|---|---|
| Login export, `edge_audit.py`: `AuthLogExporter`, `serve` | position (`auth-export.json`): database identity, last row id; stop flag; one open connection | poll, reconcile, rewind, export, save | reads Authelia's `authentication_logs`; writes through the emitter | no attempt is skipped; the trail alone shows repeats, gaps and new starts; every attempt is recorded in the end |
| Emitter, `audit_event.py`: `AuditEmitter` | seq, previous hash, started/closing/closed, heartbeat thread | start, emit, heartbeat, close | one per process; writes to a stream under its own lock | a chain never has two events of one seq, nothing follows its shutdown |
| Container stream, `audit_runtime.py`: `ContainerAuditStream` | pending text, lock file | write, flush, acquire, close | all processes of the container write PID 1's stdout | lines never mix; a failed line is never repeated later |
| Verification, `audit_event.py`: `verify_chain`; `edge_audit.py`: `verify` | heads carried from window to window | check a window | the audit store, or an operator with a log | a clean report is a whole chain, and order alone is no defect |
| Users watcher, `users_file.py`: `UsersFileWatcher` | `users-file.json`: version, accounts, unparsed version; pending version | poll, baseline, diff, unreadable, save | reads `users.yml`, which editors and Authelia write; writes through the emitter | the trail alone tells accounts, groups and flags |
| Operator's changes, `audit-admin.sh`; `check`, `admin` | status of the change, trap | check, change, record | `docker compose exec` into the container | no change without a record or a loud failure |
| Parser, `users_file.py`: `parse_yaml` | none | split into lines, scan quotes and brackets, nest | the watcher's poll; `check` | a file is read as YAML reads it, or refused |
| Loop, `edge_audit.py`: `serve`, `health` | alive file, stop flag, wait | start, turn, touch, wait, stop, close | runs export and watcher in turns on one emitter; docker restarts and checks it | neither source starves the other; health is right; a stop ends it in time, and its exit status tells whether the chain was closed |
| Gateway, `Caddyfile`; rules, `configuration.yml` | none of its own; Authelia's session | strip identity, forward_auth, inject, route | browsers, Authelia, upstreams | no route passes on an identity the client made up |
| Password change and codes, `landing/index.html`, `authcode/index.html` | page state; one notification file | request a code, confirm, change | Authelia's API | a code is only used for the request it belongs to |
| Release bundle, `bundle-lib.sh`, `bundle_images.sh` | HEAD of the work tree | checkout a tag, build, restore | git, docker | the tree is put back when anything fails |

The behaviours that are hard to test, each with its line and the properties
that watch it, are in `PROJECT.json` under "hazards".

## 2. Modules

| Module | Models | Kind |
|---|---|---|
| `TrailLedger` | what a reader of the login trail relies on | abstract specification |
| `AuthExport` | the login export, with Authelia and the operator around it | implements `TrailLedger` |
| `AuditEmitter` | processes, threads, chain, lock, log | uses `VerifyChain` as its judge |
| `VerifyChain` | `verify_chain`, as operators on sequences of lines | pure |
| `TrailStore` | a trail that reaches the reader in windows, with losses | uses `VerifyChain` |
| `UsersWatch` | the users watcher | state machine |
| `UsersScalars` | scans and scalars of the parser of `users.yml` | pure |
| `UsersBlocks` | how the parser nests lines | pure |
| `ServeLoop` | the loop over both sources in time, health, restarts | state machine, composes export and watcher |
| `AdminChange` | `audit-admin.sh` with check and admin | state machine |
| `AuthExport_proofs`, `VerifyChain_proofs`, `TrailStore_proofs`, `AuditEmitter_proofs`, `UsersWatch_proofs`, `UsersParser_proofs`, `AdminChange_proofs`, `ServeLoop_proofs` | proofs | TLAPS |
| `MC...` | small instances where a cfg cannot write the constants | |

### AuthExport

A login attempt is a number. `db` is Authelia's database: which instance it is
and its rows, whose place is their id. `mem` is `AuthLogExporter._state`,
`disk` the position file, `ident` the identity `database_id` read when the
round began, `conn` what the connection reads: the current file, or one that
was replaced under it (SQLite keeps the old inode). `pc` walks through `poll`:
"poll" (between rounds), "reconcile", "rewind" (the event is written, the
position is not), "fetch", "emit", "save".

One action per step between which something else may happen: every query, every
event, every save. `EndRound` is the `finally` of `poll`. `Crash` stands for a
kill and for `AuditWriteError` (both lose memory and keep the files);
`SaveFails` for `StateError`, after which the file holds either position, since
the sync of the directory comes after the rename. `Stopped` is the only clean
way out. `LogIn`, `CreateDatabase`, `DeleteDatabase`, `TakeBackup` and
`RestoreBackup` belong to Authelia and the operator. A restore writes over
the open file or replaces it.

`QuietRestore` names the assumption under which nothing is skipped: nobody logs
in between a restore and the comparison that follows it. Without it, run
`restore_overtaken` shows the rows that are lost.

### AuditEmitter

`at[p][t]` is where thread `t` of process `p` is: waiting for the emitter's
lock ("lock"), for the container's ("flock"), writing ("write", "rest"). A
hash is a number no other event of the chain has. `log` is what a reader sees
of the container's log and `cut` the texts begun and not ended: when a line
is written after the part of another, they become one unreadable line
(`LinesOf`). `Close` is `close` up to the join of the heartbeat; the join has a
timeout, so it never waits for good, and the heartbeat may still be under way.
A service is PID 1: when it ends, all processes in the container end.
Verification of `log` by `VerifyChain` is the judge of the properties.

### VerifyChain and TrailStore

`VerifyChain` translates `verify_chain`: order by seq, checkpoint, service,
repeat, shutdown, gap, link, hash, silence. `ChainOf` says what `sorted` does by
the place of each line (`Place`: what has a lower seq, or the same and came
before), and `CheckChain` runs the loop as a function of how many lines were
judged (`after`), with the local variables of the loop in a record: both so that
they can be reasoned about for logs of any length. A line either passes `_schema_problem` or is
`Garbled`; `intact` says that the hash is the hash of the content. `TrailStore`
writes chains as the emitter does, delivers their lines in any order, loses,
repeats, damages and delays some, and verifies window after window with the
heads as checkpoints, as the docstring of `ChainReport.heads` prescribes. A
damaged line keeps its hash: no store is assumed to compute a matching one.

### UsersWatch

A version of `users.yml` is a record with its accounts, or one the parser
refuses (`UsersFileError`), or one on which it raises something else. `poll` is
split where another writer can come between: reading and deciding
(`ReadSame`, `ReadChanged`, `ReadRefused`, `ReadRaises`, `ReadMissing`), one
`EmitChange` per event, `Save`. `known` is the state file and also the memory,
which agree whenever the service runs. `QuietCrash` names the assumption under
which the trail tells the accounts: a round is only cut off while the file is as
it was read, and the file stays so until the next round is over.

`Belief` is what a reader makes of the trail, event by event. `itemised` is a
history variable: behind which events of the trail a round found a version that
could be itemised, with or without a change to tell of. `held` is another: the
versions that the file has had since a round last ended. No action depends on
either.

A version is whatever the file holds when it is read. Writers rewrite it in
place, and a file that was cut at a line boundary, or holds `users:` alone so far,
parses (`users_file.py:484-485`, `532-533`): its missing accounts are recorded as
deleted and, a round later, as created. The model has such a version (`Bare` in
`MCUsersWatch`), and `RoundTellsOneVersion` takes what it says for true. The docs
promise otherwise of a missing file only (docs/audit.md:223-225), and so does the
property.

What `Sorted` says by ranks is `sorted` of the source: the prover does not know
the sorting operators of the library.

### UsersScalars, UsersBlocks

`UsersScalars` holds `_split_key`, `_strip_comment`, `_scalar`, `_lines` and
their scans, as functions on the positions of a text over the characters the
scans tell apart. What a text is read as is a pair of a kind and a value, or
`Refused` (`UsersFileError`). `UsersBlocks` holds `_block` and `parse_yaml` on
lines of which only indentation, kind, key and whether they say anything are
kept. Each module ends with what it is measured by, written without the scans:
where a quote closes by the runs before it (`Closing`), how a writer quotes a
string (`Quoted`), all ways to cut a sequence into items (`Separations`), and the
tree that indentation draws (`Owner`, `IsDocument`, `Meant`). Pieces between cuts
(`NextCut`, `Piece`, `Between`), the quoting of a string and the meaning of the
lines of a document are recursive functions on positions too, so that they can
be reasoned about. `MCUsersParser` lets a text
grow by a character and a document by a line.

The measures cover what the parser accepts on purpose. `IsQuotedItem` and
`IsPlain` take for an item only what is a quoted or a plain scalar in YAML. Where
the parser differs from YAML without saying so, one case is a finding
(`apostrophes`). Others were met while modelling. The parser accepts them too,
although the header of `users_file.py` says that what is outside its subset is
refused; no property affirms or denies how it reads them: a comment sign within a
one-line sequence (`[a #b]`, read as the list of `a #b`), a colon within one (`[a: b]`,
read as the list of `a: b`, although mappings in block sequences are refused at
317-319), a dash alone or a colon first in an item, a plain key or value that
holds `: ` or ` #` (`a # n: b`, `displayname: a: b`), a document after `---`
(merged with the first), a comment sign directly behind a closing quote or
bracket, and text behind a closing quote within a sequence (`['a' 'b']`,
`['a'b]`).

### ServeLoop

`at` is where `serve` is: "begin" (configuration, state files, `start`), "loop"
(the `while` condition), "open", "fetch" and "row" (the poll of the export, up to
its queries and its rows), "users" (the watcher's poll), "wait", "close", "down".
What a row or a change becomes is `AuthExport`'s and `UsersWatch`'s part; here a
row is exported or waits and a version is recorded or waits, so that what the two
do to each other can be seen: which one keeps the other waiting, which one's
failure ends both, and which one health looks at. `Tick` is time, in which a poll
lasts at most `RoundTime` or `UsersTime`, and a wait as long as it was set for.
`age` is how long ago the alive file was touched. The file is on a tmpfs and goes
with the container. `read`, `smooth`, `late` and `since` record what happened,
for the properties; no action of the code depends on them.

The heartbeat is a thread that may die alone (`HeartbeatFails`): its event is lost,
its error is swallowed, and `serve` may still end with status 0. So the status
does not tell whether everything was written. What it tells is part of `StopEnds`:
status 0 after a stop means that the shutdown was written. A process whose start
event could not be written ends with a shutdown alone ("lone") and status 1.

### AdminChange

`at[o]` follows the lines of the script. An interrupt while the trap is set
leaves the status at 130 (`Interrupt`); any other signal, or an interrupt without
the trap, ends the script (`Kill`), and what it was running may end or go on.
`RecordFailed` includes the case that only admin's shutdown line failed: the
event is there although the operator is told otherwise.

## 3. Runs

| Run | Question | Instance |
|---|---|---|
| `auth_export` | Does the export keep its promises whatever fails? | see `AuthExport.cfg`; batch smaller than round, so that both limits are met |
| `restore_overtaken` (violation) | Is nothing skipped after a restore? | no `QuietRestore` |
| `audit_emitter` | Do lines, chains and processes survive each other? | a service that tries three events and an admin process, one partial write, one failed write or kill |
| `heartbeat_ends` (violation) | Does the service beat as long as it runs? | one failure |
| `trail_store` | What is a clean report worth? | two chains of three and one events, three windows, two lines harmed |
| `users_watch` | Does the trail tell the accounts? | two accounts, one group, four versions that can be itemised (two of them differ in a comment only, one has no accounts), one refused, one that raises; three edits, one stop, one round cut off |
| `users_crash` (violation) | Does a restart miss nothing? | no `QuietCrash` |
| `users_unreadable` (violation) | Is whatever cannot be read recorded? | the version that raises |
| `users_parser` | Does the parser read what YAML reads, or refuse? | texts of up to four of thirteen characters; documents of up to four lines, three indentations, two keys |
| `apostrophes` (violation) | Is what is outside the subset refused? | texts of up to five of letter, apostrophe and comma |
| `serve_loop` | Do both sources, health and the stop get along in one loop? | interval of 1, polls of a tick each, a tolerance of 3; batch 2, poll 3, three rows that wait; one stop, two faults |
| `admin_change` | What does the record of a change mean? | two operators, two stops, two signals, one failed write |

The bounds are small because each mechanism needs few of a kind: a second
instance of a database to be told from the first, a row more than a batch, a
second process to compete for the lock, a third event so that a chain has a
middle, a second window after a harmed one, a turn of the loop that takes all the time
health tolerates, a text with an escape between two quotes. Each property is shown to have
teeth by a mutant of the modelled code (`PROJECT.json`, "mutants"; the
operators before each definition, named after it), found on the same instance.

### Properties

- `AuthExport`: `NoneSkipped` (every row of the present database up to the saved
  position has its event), `ImplementsLedger` and `TrailTellsPosition`
  (refinement of `TrailLedger`: the event first, then its position),
  `DatabaseChangeIsTold`, `NoSpuriousRewind`, `EveryLoginRecorded`.
- `AuditEmitter`: `LinesNeverInterleave`, `LogVerifies` (at every moment, as long
  as no line was cut for good), `NothingLostUntold` (a lost line shows as a problem
  of the log, if not of its own chain), `StartOrLoneEnd` (a chain
  begins with its start, or is a shutdown alone), `FailureEnds`.
- `TrailStore`: `NoFalseAlarm`, `CleanMeansComplete`, `EndedMeansWhole`,
  `WindowsHideNothing`, `LostEndIsNoticed`.
- `UsersWatch`: `TrailTellsAccounts` (the trail, replayed, gives accounts, groups
  and flags of the version saved), `NothingToldTwice`, `RoundTellsOneVersion` (the
  events of a round are all true of one version that the file had since the round
  before: none because it was missing, none of a version long gone, no mixture),
  `LastingVersionIsRecorded`.
- Parser: `QuotesClose`, `QuotedIsRead` (any string between quotes is read as
  that string, wherever it stands), `SequencesSeparate` (a one-line sequence of
  YAML's scalars is read as these), `ReadAsMeant`.
- `ServeLoop`: `NoFalseAlarm` (healthy as long as every poll reads the log),
  `HealthyHasRead` (its converse, up to the time of a poll), `StopInTime` (from the
  stop on, no longer than a poll of each source, whatever the interval and the
  backlog), `StopsShort` (one row at most), `LoginsAreExported`, `EditsAreSeen`,
  `StopEnds` (and status 0 means a chain with its shutdown).
- `AdminChange`: `OkMeansChanged`, `InterruptedIsNoSuccess`, `UnrecordedIsTold`.

### Fairness

`AuthExport` assumes weak fairness of the exporter's steps (the container is
restarted, `restart: unless-stopped`; the loop waits at most one interval) and
strong fairness of the comparison and of the query, which may be locked often
but not always. `UsersWatch` assumes weak fairness of start, poll, event and
save. `AuditEmitter` assumes that every thread runs, that a lock wait ends
(its timeout) and that a service that failed goes on to `close`. `ServeLoop`
assumes weak fairness of the process's own steps as a whole (docker restarts it,
`restart: unless-stopped`, and it goes on) and of time while it waits; nothing is
assumed of logins, edits, locks and the operator, so `EditsAreSeen` holds
however busy the log is. Faults and
stops are bounded, so that liveness is about what follows them. Safety is
checked with no fairness at all.

### What the violation runs show

1. `restore_overtaken`: a restored database that logins bring past the saved
   position before the next poll passes the comparison, and rows are skipped
   (docs/audit.md: "none is skipped").
2. `heartbeat_ends`: `_beat` returns on its first failed heartbeat and the
   service goes on without one (docs/audit.md: "beats every 60 s").
3. `users_crash`: events of a version that was not saved are never taken back
   when the file changes before the restart (docs/audit.md: "a restart neither
   repeats nor misses a change").
4. `users_unreadable`: an error of the parser other than `UsersFileError` ends
   the service at every restart.
5. `apostrophes`: `[o'brien, d'arcy]` is read as one group, since a quote is taken
   for the beginning of a string anywhere in a one-line sequence (header of
   `users_file.py`: "refused rather than guessed at").

One more sentence of the docs needs an exception. docs/audit.md:205 says "Every
chain starts with a `lifecycle` / `start` event"; `close` after a `start` whose
line could not be written writes a shutdown as seq 0. That event looks like any
other shutdown, only the process ends with status 1 (`edge_audit.py:754-761`,
`audit_event.py:427-428` and `447-448`). `StartOrLoneEnd` states, and the proofs show for every instance, that this lone
shutdown is the only exception.

`NoFalseAlarm` holds under `InTime`: polls and interval fit into what health
tolerates. The code does not enforce that. A poll of the full 10,000 rows, each
with a sync of the position, may outlast the minute on slow storage; a service
that works off a long backlog can then be called unhealthy between two polls.

## 4. Proofs

`AuthExport_proofs` proves, for the abstract ledger, that the trail tells the
position, and for the export, for
every batch and round size and every bound, from `RowsAssumption`,
`QuietAssumption` and `BoundsAssumption` only:

- `ExportTypeCorrect`: the type invariant;
- `ExportImplementsLedger`: initial states map to initial states, and every step
  is a step of the ledger or invisible in it;
- `ExportTrailTellsPosition`: by the refinement and the ledger's theorem;
- `ExportDatabaseChangeIsTold`: an action property;
- `ExportSkipsNothing`: `QuietRestore => []NoneSkipped`.

The argument for the last one is the invariant `ExportInv` at the end of
`AuthExport.tla`. `NoneSkipped` alone is not inductive: a rewind or a backup
brings back rows that were exported from another copy. So the invariant speaks
of all copies of a database (file, backup, orphaned connection): copies of the
same instance agree on the ids both have (`CopiesAgree`); what is exported is
exported for all of them (`CopiesExported`); the batch in hand is what each of
them has at those ids (`BatchOfCopies`); the position has not run ahead of its
database unless a restore is still to be compared with (`NotAhead`); and when a
database was overwritten under the connection, nothing refers to it any more
(`PositionOfSeen`). `EventFirst` says which event is the last one at every `pc`,
which is what makes the refinement work.

`ExportRewindsForCause` shows that a position that refers to the database it
was read from is not given up while nobody replaces or restores it
(`NoSpuriousRewind`). Its invariant says that while undisturbed there is one
database (`OneDatabase`), the position is not ahead of the file
(`NotAheadOfFiles`), and no rewind is under way (`NoRewindYet`).

`AuditEmitter_proofs` proves for any number of services, admin processes,
events, partial writes and failures, from `EmitterAssumption`: the types, that
lines never interleave, and `StartOrLoneEnd`. `LinesNeverInterleave` is about the log
only; what makes it inductive is who is where: a process has one thread in its
emitter's lock and a text exactly then (`OneInLock`), the container's lock is held
by who writes (`OneHolds`), the text is the next event of its chain
(`TextIsNext`). `StartOrLoneEnd` needs that nothing but start and shutdown is
tried before a chain's first event (`Unstarted`), that lines are numbered below
the chain (`LinesNumbered`), and that a process whose shutdown stands alone writes
no more (`LoneEnds`).

`UsersWatch_proofs` proves the types and all three safety properties for all
names, groups and versions, from `WatchAssumption`; `TrailTellsAccounts` under
`QuietCrash`, which run `users_crash` shows to be needed. The parts of its first
invariant, `Inv`, are the shape of state and queue (`Shape`), the counters
(`Counts`), what is queued while a round is under way (`Queued`), and that all that
is queued is true of one version that the file has had since the last round
(`Sourced`): the version read, of which `ChangesTrue` and `BaselineTrue` show it for
a difference and for a first list. `RoundTellsOneVersion` follows for each event
that is written and those behind it.

For the other two the events of a round are described without the sorting, cutting
and joining that made their sequence: those of a difference as a set in which no
event is there twice (`DiffEvents`, `DiffWhole`), those of a first list by what they
name, with the names first (`IsBaseline`, `BaselineWhole`). The invariant `ToldInv`
then speaks of the reader's belief. Every difference between it and the version
read still has its event in the queue: `Owed` during a difference, `OwedBase`
during a first list. An event that is written settles its difference and no
other (`OwedStep`, `BaseStep`), so an empty queue leaves none (`OwedNothing`,
`BaseDone`). A round that is cut off leaves a belief between two versions; the next
one takes the same difference again from the version saved, and what is told for
a second time changes nothing, provided the file is the same (`QuietCrash`). For
`NothingToldTwice` the queue holds each event once and each of them is still
news to the reader (`NewsFirst`, `NewsStays`), and the unreadable version recorded
last is the one remembered unless a version could be itemised since.

The attempt to prove a stricter `NothingToldTwice` failed, and showed that the
stricter form is false: after an unreadable version was recorded, an edit that
changes no account (a comment) followed by the same unreadable version records it
again with no event in between, since the state of an itemised version starts
without an unparsed one (`users_file.py:693`). The property now says so by means of
`itemised`, and the instance has two versions that differ in a comment only.

`UsersParser_proofs` proves `QuotesClose`, `SequencesSeparate` and `QuotedIsRead`
for texts of every length over any characters, and `ReadAsMeant` for documents of
any number of lines, at any indentations, with any keys. `QuotedIsRead` needs
`CharsAssumption`, that the mark of a refused text is no character, `ReadAsMeant`
needs `IndentsAssumption`, that indentations are numbers. The parser is its scans,
and a scan is a recursive function on the positions of a text. The module first
shows that such functions exist, and with the values their steps compute
(`Recursion`, from `NatLeast` and `Computed`), and then reasons from the end of the
text back (`Backwards`), as the scans do:

- where a quote closes: `JumpFrom`, `StopFrom` and `GoFrom` say what each of the
  three ways on of the scan leaves of the positions where YAML may close the
  quote, and `ScanEnds` follows them back;
- a sequence read item by item: a quote that fills a text is the same quote
  wherever that text stands in a longer one (`QuoteStands`), so a scan over a
  whole sequence passes over an item in one go (`IsSpan`, `SpanPasses`) and stops
  at the separating commas and at the closing bracket only (`FlowEndIs`,
  `CommasAre`); the pieces between them are the items (`BetweenAre`). Without
  quotes, a text that holds another collection ends there (`BareFlowEnd`), and one
  with an item missing or not supported is cut at that item and refused for it
  (`PieceRefused`, `NoSequenceRefused`);
- what is written is read back: at each character of a string, what is left of
  it to write is what stands in the text from there on (`IsLeft`), so the scan
  for the end (`QuotedEnds`) and those for the inside (`SingleReads`,
  `DoubleReads`) step over a character with what escapes it; comments, dashes,
  colons and brackets around the quote change nothing (`ValueRead`, `ItemRead`,
  `EntryRead`, `PairRead`);
- a document read as the tree its indentation draws: only depths count, where an
  item is deeper than the entry at its indentation (`DepthsOf`, `GuardsByDepth`). To
  whom a line belongs, where its block ends and what follows it there are three
  searches in the depths, and fit together (`IsShape`: `BlockOwned`, `NextInBlock`,
  `ChildBlock`, `OwnedBelow`). Whether a block is a document (`GoodParts`,
  `GoodWhole`) and what it means (`TogetherOne`, `TogetherMore`) can then be told from
  its first line, the block below it and the rest of the block, which is the way
  `_block` goes. What fails to be a document need not be refused at once: an item
  behind an entry at the same indentation ends the block there, and is refused
  only by the lines above or by `parse_yaml`. The induction therefore carries that
  `_block` returns the tree and the end of the block, or has refused, or stopped at
  such an item (`IsRead`, `IsStuck`, `BlocksAreRead`).

`ServeLoop_proofs` proves, from `LoopAssumption`, the types, `NoFalseAlarm`,
`HealthyHasRead`, `StopInTime` and `StopsShort` for every interval, tolerance,
duration of polls and cap. Its invariant follows one turn of the loop: what is
left of batch and cap (`Counted`), the time of a poll (`Timed`), the age of the
alive file at each place (`Aged`), how long the log was read before it was
touched (`Looked`), the rows after a stop (`Stopped`) and the time since
(`StopTimed`).

`AdminChange_proofs` proves the type invariant and the three properties of
`AdminChange` for any number of operators, stops, signals and failures, from
`ScriptShape`: what each script has done, set and said at each of its lines.

Where a recursive function has to be followed through a sequence of any length,
the proofs take the least number at which it goes wrong (`NatLeast`, from the
well-foundedness of the naturals), since the library's induction theorems cannot
be instantiated by the installed provers.

`VerifyChain_proofs` holds what is true of `verify_chain` on logs of any length:
`ChainOf` has each line of an instance at its one place, in the order of seq; a
chain in which every line follows the one before is told of nothing
(`WholeChainIsClean`, and for a log of such chains `WholeLogPasses`); and the
converse, which is what a verification is for: where a chain is told of nothing,
each of its lines is unaltered, the next in number and linked to the one
before, from the checkpoint on. A report consists of what its chains and its
unreadable lines are told of (`ComesFrom`).

`TrailStore_proofs` proves the type invariant and all five properties of
`TrailStore` for any chains, any number of windows and of lines that come to harm,
from `StoreAssumption`. Its invariant says what an emitter has written
(`WrittenLinked`), that a line that can be read and is intact is an event that was
written (`LinesFromWritten`), where the heads stand (`HeadsShape`), that the
silence of a chain was told (`SilenceTold`), and the two parts that carry the
result from window to window: of a chain without a defect, what was delivered is
all that was written up to its head, each event once (`CleanIsWhole`), and as long
as no line came to harm, the window holds what was written since (`UnharmedIsWhole`).

For the emitter, `EmitterLogVerifies` and `EmitterNothingLostUntold` rest on the
same lemmas: the lines of a process in the log are numbered upwards, each linked
to the one before and a first one to none, with nothing behind a shutdown
(`FromGenesis`, `LinesClimb`, `LinesFollow`, `EndIsLast`), what a process has in
hand continues them (`TextGoesOn`), and a number is only missing where a line was
cut for good (`NoneMissing`).

Only model-checked: liveness (`EveryLoginRecorded`, `FailureEnds`,
`LastingVersionIsRecorded`, `LoginsAreExported`, `EditsAreSeen`, `StopEnds`), since
fairness is out of the prover's reach.

## 5. Not modelled

- JSON, timestamps, caps on texts and lists, wording of events: no property is
  about them. `_schema_problem` is a predicate. Of the accounts a parsed file
  holds (`accounts_from`, `to_json`, `from_json`) groups and the flag are kept.
- Of the parser: tabs, `---`, empty lines, the empty mapping `{}`, the words
  true, false and null, numbers and hexadecimal escapes.
- Hashing: a hash is a value that tells events apart.
- Configuration errors before the first event (`Settings`, intervals, version
  file, damaged state files): only that the process ends with status 1 or 2
  (`Refused` in `ServeLoop`).
- The stdout mode of the stream: the deployment selects "container".
- Purpose binding helpers in `audit_event.py`: this service does not use them.
- The gateway and Authelia's access rules: declarations, whose meaning is Caddy's
  and Authelia's. There is no state and no step in this repository to model;
  that identity headers are removed on every route is listed as a hazard.
- The password change page: which code Authelia accepts after a second request is
  not documented by this repository (docs/2026-07-28-rollout-readiness-design.md:124
  drives an "undocumented but live-verified" API), and a model would rest on a guess.
- The release bundle scripts: vendored verbatim from another repository,
  sequential, around git and docker.
- Landing page, style checks, smoke test, client setup: no state of their own.

## 6. Plan

1. done: `AuthExport`/`TrailLedger`, `VerifyChain`/`TrailStore`, `AuditEmitter`,
   `UsersWatch`, `AdminChange`, `ServeLoop`, the parser, and the proofs of section 4.
2. next, in the model: the stdout mode of the stream beside the container's, to
   state what the latter is for; `check` and `verify` as commands with their exit
   statuses.
3. in proofs, nothing is left of the safety properties; a theorem would follow each
   property added to the model.
