# A formal model of rrs-connector

`rrs-connector` is started every hour, reads what each registered site wrote to
its Robonomics datalog, downloads and decrypts the reports announced there, hands
them to an admin layer as files, says when a site has gone silent, and deletes
old files. It is one short-lived process over one SQLite file and one directory
tree; everything that makes it hard happens *between* its commits, between its
runs, and in a datalog that overwrites itself.

This directory holds TLA+ modules of that behaviour, TLC configurations that
check small instances of them, and proofs, checked by TLAPS, of the most
important safety properties for every value of the constants. Source lines below
are relative to the repository (`src/rrs_connector/...`).

## The system

### Parts

| Part | State it keeps | Operations |
|---|---|---|
| Datalog of a site (external) | a ring of `WindowSize` slots, `WindowSize - 1` live | a site appends a record; the oldest is overwritten |
| Datalog reader (`robonomics/datalog_reader.py`, `retry.py`) | none | `list_new_records`: what is at or after a timestamp, and whether the ring still reaches it |
| Sender collection (`pipeline.py:129-211`, sender loop of `run_once`) | rows, cursor, last signal and heartbeat of each site (SQLite) | `backfill_signal`, read, `add_datalog_entry`, `record_signal`, `mark_sender_scanned` |
| Watchdog (`watchdog.py`, `pipeline.py:214-256`) | `silent_since` (SQLite), service report directories | `silence_issue`, `back_issue`, `write_service_report`, `mark_silent` |
| Report processing (`pipeline.py:286-470`) | status of each event, artifact row (SQLite); report directory | `process_reports`, `process_report` |
| Recipient keys, decryptor, fetcher, manifest (`reports/`) | keys loaded in this run; `archive.zip`, `decrypted.partial/`, `decrypted/`, `manifest.json` | choose and load a key; stage, decrypt, swap; download and rename; write last |
| Retention (`reports/retention.py`) | none of its own | deletes files past their age, clears the row that names them |
| State store (`state/`) | SQLite, one session and one commit per operation | about fifteen operations; `sync_senders` |
| Run-once pass (`pipeline.py:490-624`) | what has failed in this run | `sync_senders`; collection and watch of each enabled site, then processing, then retention; the exit code |
| Fetch command (`fetch.py`) | a directory of its own; no store | choose reports by CID or by the datalog; download, decrypt; the exit code |
| Key generation, Proton Pass (`keygen.py`, `proton_pass.py`) | items in the vault (external) | create, read back, announce; load a key by vault or by share |
| CLI, configuration, database initialisation, deployment | see "Not modelled" | |

The registry says which sites are enabled. Collection turns records into rows;
the watchdog reads the signal columns that collection fills; processing takes up
the rows with a pending status; retention takes up the artifact rows that
processing fills. They share nothing else than SQLite and the report directories,
and the admin layer sees only the directories. The fetch command and key generation are
given by a person; `fetch` uses the same fetcher, recipient keys and decryptor on a
directory of its own, and the keys of all commands come from Proton Pass.

### What is hard, and what makes it correct

*Collection.* A record is read, stored, taken for a signal and passed by the cursor
in four separate commits. The ring may drop records between two runs; slots and
block times repeat; two records may share a block; records that are not text
occupy the ring; any commit may be the last one of a run. Correct means: from the
first scan of a site on, a record is stored, or a gap warning covers it, or the
next read will still do one of the two; a record gets one row; the cursor moves
only over stored records; the signals follow the rows.

*Watchdog.* It judges by columns that an earlier run may have left half filled, by
a clock read before the chain was, and its file is on disk before the store knows
of it. Correct means: no false alarm, every return answers a reported silence, and
a silence is told.

*Processing.* A run may stop in any of six statuses with any subset of the files
there; the next one has other keys, a fuller queue and the same disk. Correct
means: a report is delivered whole, once, or rejected for good; none is stuck.

*Retention.* Two independent ages, three kinds of files, rows that name them, and a
crash between a deletion and its row. Correct means: nothing goes early, and a row
does not name an archive some run would still need; and what is past its age does go.

*The run as a whole.* The registry of this run is not that of the last one, sites
fail one by one, and the reports half-way belong to any of them. Correct means: the
exit code does not call a run good that left a site unread, and a report announced
by a site arrives whatever happens to the others.

*Downloads.* Gateways fail, refuse, break off or send something else; the process
may die with half a file. Correct means: the archive appears at once and whole, and
nothing is given up before every gateway was tried.

*Fetch.* One command may fetch many reports, over what an earlier command left, with
other keys; each archive has members sealed for different people. Correct means:
the right reports, the right verdict on each, and an exit code that tells.

*New keys.* `pass-cli` may fail after storing, or store a mangled seed. Correct
means: nobody is told an address whose seed cannot be read.

`PROJECT.json` lists each hazard at its line with the properties that cover it,
and those no property covers yet.

## The modules

| Module | Models | Extends |
|---|---|---|
| `Datalog` | the ring of each site and `list_new_records` | |
| `Collection` | the sender loop and `collect_sender_events` | `Datalog` |
| `Copy` | what the store is of a datalog to those who read it: the abstract specification | |
| `Watchdog` | `watch_sender` after each collection | `Collection` |
| `Reports` | `process_reports`, `process_report`, `apply_retention` | |
| `Handover` | what the admin layer is promised: the abstract specification | |
| `Connector` | `run_once`: the registry, then collection, then processing and retention, then the exit code | `Collection`, an instance of `Reports` |
| `Fetcher` | `download_report` | |
| `Download` | what a download is to its caller: the abstract specification | |
| `Recipients` | what an archive is: its recipients, the key chosen, whether it decrypts (no state) | |
| `Keygen` | `create_recipient_key`, `load_integrator_account` | |
| `Fetch` | the fetch command | `Fetcher`, `Recipients`, `Keygen` |
| `CollectionProofs`, `SignalProofs` | theorems about `Collection` | `Collection`; the first |
| `WatchdogProofs` | theorems about `Watchdog` | `Watchdog`, `SignalProofs` |
| `ReportsProofs`, `HandoverProofs` | theorems about `Reports`; that it implements `Handover` | `Reports`; the first |
| `ConnectorProofs` | theorems about `Connector` | `Connector`, `SignalProofs`, an instance of `HandoverProofs` |
| `FetcherProofs` | theorems about `Fetcher` | `Fetcher` |
| `FetchProofs` | theorems about `Keygen`, `Fetch` and their composition | `Fetch`, `FetcherProofs` |
| `MCCollection`, `MCWatchdog`, `MCReports`, `MCConnector`, `MCFetch` | constants of the small instances | their module |

Definitions named in a comment as *Mutant of X* are wrong versions of `X`, a
plausible slip each; a run's property must fail when `X` is replaced by one.

### Datalog

`chain[s]` is everything site `s` ever published, so a record is known by its
position. `Slot(i)` is `(i - 1) % WindowSize` and only the last `WindowSize - 1`
positions are `Live`. A record has a block time and a kind: `report`, `beat`,
`other` (text that is neither; stored as ignored) or `junk` (not text: dropped by
`as_record`). `Publish` lets a block take up to two records of a site, as the
README says of the sites ("Event identity and cursor"). `NewRecords(s, start)` is
what a read returns: everything at or after `start`, or the latest record when
there is no `start`. `ReachedCursor` looks only at the oldest record left.
The walk around the ring by index and the paging of reads are abstracted.

### Collection

| Code | Model |
|---|---|
| `sender.last_scanned_datalog_timestamp` | `scanned[s]`, the position of the cursor's record; only its time (`Cursor`) is used |
| `DatalogEntryRecord` rows | `entries[s]`, in insertion order; `Known` compares `(slot, time)` of one sender |
| `last_signal_at`, `last_heartbeat_at` | `lastSignal`, `lastBeat`; `RecordSignal` never moves back |
| `for sender in sender_records` | `queue`, `Visit`; sites are visited in any order |
| `backfill_signal` row by row | `Backfill` |
| `list_new_records` and the gap warning | `Read`, which extends `warned` |
| `add_datalog_entry` record by record | `Store` |
| `record_signal`, `mark_sender_scanned` | `Signal`, then `Mark` |
| an exception in one site's turn; a crash | `Fail` keeps the queue, `Crash` empties it |

`base`, `warned` and `joined` are history variables: the first position a site's
first scan returned, how far gap warnings reach, and the chain's length at the
first completed collection. Nothing in the behaviour depends on them. The chain
and the clock move between any two steps.

### Copy

A site writes records, text or not (`Write`). The store takes each text record at most
once (`Take`), raises a warning that tells of all that has left the ring, and only if
the last record passed over has left it too (`Announce`), and passes over records only
when everything from the first one of the copy on has its row or was told of (`Pass`).
`Collection` maps its chain, rows, warnings, `base` and cursor to these variables.

### Watchdog

`now` is the time `run_once` takes at its start. The turn of a site goes on after
`collected`: `ReportBack` or `ReportSilent` puts a service report on disk (a
directory named by site, type and `now`, so that the same name is replaced), and
`MarkSilent` is a later step that commits `silentSince`. `Stop` may come in
between. `since` is the last signal the issue file quotes.

### Reports

One step per commit and per change of the disk. `status[r]` is the event's status
(`absent` before it is collected); `archivePath`, `decryptedDir`, `metaPath` and
`processedAt` are the columns of the artifact row; `archive`, `staging`,
`decrypted` and `manifest` are the files. `decrypted/` may be `partial` because
`rmtree` removes file by file. A run takes the pending reports by sender and time,
with the `integrator_addresses` and the keys of that run:

`Pick` → `Download` → `RecordArchive` → `MarkFetched` → `Choose` → `LoadKey` →
`Stage` → `DecryptMembers` → (`ClearOutput`) → `RenameStaging` → `WriteManifest` →
`RecordArtifacts` → `MarkProcessed`

`Pick` goes to `Choose` at once when the status is past FETCHING and the archive
is there. The errors of the code are actions too: `DownloadFails` (back to NEW),
`ArchiveUnreadable` (an `OSError` that the code takes for an invalid archive:
FAILED), `KeyUnavailable` (FETCHED), `Unexpected` (any other exception: NEW),
`Crash`. What a report *is* - whom it is sealed for, too large, torn,
undecryptable - is a constant. `BeginRetention` to `EndRun` are `apply_retention`
with its own clock: each file is deleted in one step and its column cleared in
another.

### Handover

Three phases (`pending`, `delivered`, `rejected`), the parts of a delivered report
that are still there, and the day it was processed. `Deliver` and `Reject` happen
once; `Lapse` takes a part only when its age has come. `Reports` maps its statuses,
files and row to these variables (`Phase`, `Kept`, `Since`), and `HandsOver` says
that it implements `Handover!Spec`.

### Connector

`Begin(registry)` is `sync_senders` and the list of enabled senders; a registry is any
of `Registries`, so that sites come and go. Then the steps of `Collection`, sites in
the order of their rows; then `BeginReports`, which lists every pending report of
whatever site; then the steps of `Reports`; then `Finish` with `ExitCode`. The two
modules meet in `Events`: the step that stores the row of a record that announces a
report makes that report `new`, and a record that has its row changes nothing
(`add_datalog_entry`). `SiteFails` notes the failure and leaves the other sites their
turn, `ReportWaitsForKey` notes a key, `Die` is a crash or an exception that nothing
catches. `Reports` is an instance (`R`) with its day and faults replaced, so its
actions are those of its own module. `upTo` is history: what each site had published
when the run started, and `clean` says that the run has met no failure. The watch of a site is not here: its exceptions are caught, it
touches neither module, and `Watchdog` has it over `Collection`.

### Fetcher, Download

`Call`, then one `Open`, `Complete`, `Retry`, `Refuse`, `TooLarge`, `Break` or `GiveUp` per
step of the loop over `gateway` and `attempt`, and `Return`. A GET is two steps, so
that it may break, or the process may die (`Die`), with `archive.zip.partial` half
written. The code does not compare what it receives with the CID, so a GET may end
in any body of `Bodies`. `asked` and `refused` are history. `Download` has one step for
the whole: `archive` changes once, when the outcome is `done`, or not at all.

### Recipients

The body of an archive is a sequence of members; a member says whom its envelope
names, whether it is a sound package, whether the site did seal it, and its file
name. `Recipients` is the intersection over members, `ChosenKey` the first of our
addresses in it or how `choose` fails (the first faulty member decides: a damaged one
raises what nobody expects), `Decrypts` what `_decrypt_members` asks of every member.
`IsSoundFor` is the reference: what a reader of the docs would call a report for us.

### Keygen

`Generate`, `GetTemplate`, `CreateItem`, `Verify`, with `Abandon` when the process dies and
`Grant` when the person gives the connector's token the item. `CreateItem` stores
nothing, the seed or a mangled one, and `pass-cli` reports success or failure whatever
it stored. `FieldAnswers` is what a read returns: what is there, or unavailable.

### Fetch

`FetchCids` or `FetchLast` starts a command with some configured addresses; `ReadDatalog`
and `ReadFails` are the read with its attempts; `Walk` goes back record by record;
`Prepare` ends the command if nothing was asked. Then for each report `NextReport`, the
steps of `Fetcher` if there is no archive, `Choose`, `LoadKey`, `Stage`, `DecryptMembers`,
`ClearOutput`, `RenameStaging`, and `Finish` with the exit code. `Conclude` is the `except`
of the loop (download and decryption errors); any other exception (`Fail`, a key that
cannot be loaded, a damaged member) ends the command with code 1. `Killed` may come
anywhere, and the next command starts over what is on disk. Between commands a person
may make a key. Ring and paging are left out: the walk sees a list of records.

## The runs

Distinct states are those of the complete search.

| Run | Question | Instance | States |
|---|---|---|---|
| `collection_ring` | `NoSilentLoss`, `StoredOnce`, `SignalsFollowRows`, `CursorNeverAheadOfRows`, `KeepsCopy`, `TypeOK`, and the inductive invariant `IInv` | one site, 3 slots (2 live), 4 records of 3 kinds, 2 per block, 3 block times, one interruption anywhere | 977 163 |
| `connector` | `ZeroTells`, `CleanRunDelivers`, `RunAdvances`, `HandsOver`, `ConnectorTypeOK`, and under fairness `ReportsArrive`, `CollectedSettles` | two sites with the same slots and times, one with a `history_from` later than its first records, the other in and out of the registry; 2 records and 1, 2 block times, one interruption anywhere | 229 997 |
| `fetch_command` | `VerdictIsRight`, `RequestedAreNewest`, `ExitTellsAll`, `GivesUpAfterAll`, `DownloadsAtOnce`, `AnnouncedIsStored`, `CommandAdvances`, `FetchTypeOK`, and `CommandEnds` under fairness | two commands, by CID (14 kinds of archive) or by a datalog of 3 records; two keys, one of them new; two gateways, two attempts | 502 740 |
| `watchdog_silence` | `NoFalseAlarm`, `NoMissedAlarm`, `ReportsAnswer`, `WatchTypeOK`, and `SilenceIsTold` under fairness | one site, reports, heartbeats and junk, 2 records, 5 block times, silence after 2, one interruption | 174 367 |
| `reports_crash` | `KeptUntilExpiry`, `MissingIsExpired`, `HandsOver`, `TypeOK`, `IInv`, and `ExpiredAreRemoved` under fairness | one report, two configurations of keys, ages 1 and 2, 3 days, three faults | 14 870 |
| `reports_live` | `KeptUntilExpiry`, `HandsOver`, and `PendingSettles` under fairness | three reports (sound, too large, undecryptable), decrypted files for ever, archive 1 day, two faults | 236 797 |
| `collection_firstrun` | violates `OnlyFirstRunSkips` | one site, 3 records, no faults | |
| `collection_history` | violates `HistoryIsWhole` | one site, `history_from` = 2, 4 records, no faults | |
| `watchdog_once` | violates `SilentOnce` | as `watchdog_silence`, heartbeats only | |
| `reports_manifest` | violates `ManifestMeansComplete` | one report, one fault | |
| `reports_diskerror` | violates `FailsForWhatItIs` | one report, one fault | |
| `reports_torn` | violates `TornArchiveFails` | one torn report, no faults | |

### Bounds, and why they are enough

* `WindowSize = 3`, `MaxRecords = 4`: two records are live, so the ring wraps and
  a slot is reused while the row of its first record is in the store.
  `MaxPerBlock = 2` gives the cursor's record a neighbour of the same time.
* `MaxClock`: each block time is a tick; three are needed for "cursor, equal,
  later". The watchdog needs more (a silence, its report, a return, and another
  silence): five, with `SilenceAfter = 2`.
* `MaxInterrupts = 1`: an interruption leaves rows, signal and cursor out of step,
  and the next run must mend it; it may come at any step of any run. The proofs
  show that more do not matter for safety.
* `MaxFaults = 3` for one report: enough to fail after the manifest, again during
  the replacement, and once in retention. Two for three reports, whose rows and
  files do not touch each other.
* `MaxDay = 3` with ages 1 and 2 lets decrypted files and archive go in different
  passes and the directory after both.
* `watchdog_silence` has two records, which never fill the ring; that the ring changes
  nothing for `ReportsAnswer`, `NoFalseAlarm` and `NoMissedAlarm` is proved.
* `connector`: the second site, which comes and goes, publishes once. `OnlyBetween`
  gives the sites their turns while no site is collected and no report processed: what
  a site does could be noticed only by a later read, and `collection_ring` has a site
  that publishes at any step. Time goes on only before the second site has published
  and while the first has something to publish: two block times are enough to tell the
  records of the first site's history from those before it; the larger ring is in
  `collection_ring`. All keys load or not (the faults), and the kinds of a report are
  in `reports_live`. Nothing expires in this run (the ages are 0), so the part of
  `RunAdvances` about a removal of old files is exercised by its proof only.
* `fetch_command`: two gateways and two attempts are the least at which counting per
  gateway and counting overall differ; two commands, so that the second runs over any
  remains of the first; the same CID asked for twice, so that a report is fetched
  again within one command; archives of up to three members with `MaxMembers = 2`. A
  report taken from the datalog has one of two bodies, one asked for by CID any.
* `MaxRecords`, `MaxClock`, `MaxDay`, `MaxInterrupts`, `MaxFaults` and `MaxCommands` bound the
  environment only. Once they are used up the system goes on running empty runs,
  so no run disables the deadlock check.

### Fairness

The timer (`deploy/rrs-connector.timer`: hourly, `Persistent=true`) starts run
after run, and a run that is not stopped goes on, so every step of a run and the
start of the next are weakly fair. In `Watchdog`, `SF` on starting a run with site `s` enabled
says that the registry keeps naming `s`: a site taken out is owed nothing.
Faults, crashes, publishing and time have no fairness; faults are finite in
number, which is what "in the end" means when failures stop. `systemd` starts one
`Type=oneshot` process at a time, so no module has two processes.

In `Connector` the steps of a run (`GoOn`) and the start of the next one, with some
registry, are weakly fair; `ReportsArrive` owes something only to a site that every
registry names. A fetch command that was started goes on (`WF` on `Command`), because its
requests have timeouts; nobody has to give one.

## What the runs show

The properties, each stated in full above its definition:

* `NoSilentLoss` - no record is lost without a gap warning, from the first scan on,
  through any interruption. It is the reason for `>=` in the reader, for the order
  of the writes, and for the sender and time in a row's identity.
* `ReportsArrive` - the report such a record announces is in the end processed or
  rejected, or the record is warned about, unless the ring holds nothing readable;
  `CollectedSettles` - also when its site is no longer enabled.
* `ZeroTells` - exit code 0 means that every enabled site was read and no report waits
  half-way. Excused is what the reading of a run does pass over: what lies before a
  site's first scan or before the history asked for, and what junk has overwritten
  (`IsExcused`). It does *not* mean that no report failed: see below.
* `KeepsCopy` - the same seen from those who read the store: it is a copy with announced
  gaps, and there is no false alarm of a gap while the cursor's record is in the ring.
* `SignalsFollowRows`, `CursorNeverAheadOfRows`, `StoredOnce` - the columns a later
  run trusts agree with the rows.
* `CleanRunDelivers` - one run without a failure is enough to mend what runs before it
  left: it exits with 0, leaves no report pending of whatever site, and has settled
  what the enabled sites had announced. It says in how many runs, which
  `ReportsArrive` and `CollectedSettles` do not.
* `RunAdvances`, `CommandAdvances` - every step of a run, and of a fetch command,
  failures and retries included, leaves less before it: phases, then sites or
  reports, then the steps of a turn, then what is left for the step. No order of
  failures makes a report be taken twice in a run or a gateway be asked for ever. A
  removal may find nothing to remove, which leaves all as it was.
* `NoMissedAlarm` - a site that has a heartbeat among its rows and only old ones leaves
  its turn with its silence told and remembered, or told to be back, even if the rows
  were stored by a run that died before it recorded them: the safety half of
  `SilenceIsTold`, with no fairness and no assumption on other runs.
* `NoFalseAlarm`, `ReportsAnswer`, `SilenceIsTold` - the watchdog as above. A false
  alarm is one that a record this run found in the ring contradicts. A row that a
  killed run stored without its signal, and whose record junk has pushed out of the
  ring before the next read, tells nothing until a newer text record is read.
* `KeptUntilExpiry`, `MissingIsExpired` - files and rows of a processed report are
  there until their age has come, and only then may a row name a missing archive.
* `HandsOver` - delivered whole and once, or rejected for good.
* `ExpiredAreRemoved` - and after that they do go, although the pass may die between
  a file and its row.
* `VerdictIsRight`, `RequestedAreNewest`, `ExitTellsAll` - the fetch command gets the
  right reports, judges each archive as the reference does, and its exit code tells;
  `CommandEnds` - it ends.
* `GivesUpAfterAll`, `DownloadsAtOnce` - a download tries everything it should, and is
  one change of one file.
* `AnnouncedIsStored` - an address printed for a person has its seed in the vault.
* `PendingSettles` - no status and no set of files a crash leaves is a dead end.

Six statements of the repository do not hold; each is a run with a counterexample
of a few steps (`PROJECT.json`, `findings`):

1. "A sender's first run reads only its latest record" (`README.md:85`): a site
   registered with an empty datalog skips records in *later* runs too, since an
   empty read sets no cursor.
2. With `history_from` "every record from that moment on is read" (`README.md:86`):
   not when the ring has wrapped past that moment, and then there is no warning,
   because the warning asks for a cursor.
3. A silent site "gets a `site_silent` report, once" (`README.md:260`): twice, if a
   run stops between the report and `mark_silent`.
4. A directory with a manifest "is complete and safe to read" (`README.md:211`): not
   while a report that failed after `write_manifest` is processed again.
5. Disk errors "keep the event `NEW`" (`README.md:153`): those while the archive is
   read make it FAILED.
6. An invalid archive "is permanent" (`README.md:150-152`): one with a damaged member
   goes back to NEW in every run.

Three smaller ones are not runs. `README.md:344` lists "a non-zero exit code on processing
errors", and a run all of whose reports FAILED, or went back to NEW, exits with 0
(`pipeline.py:120` asks for failed sites and missing keys only). The gap warning is also raised when the ring
dropped the cursor's own record and nothing after it (`pipeline.py:158`), although
nothing was lost. And between the deletion of a file and its column the store
points at files that are not there (`README.md:201`), until the next pass;
`MissingIsExpired` shows that an archive is missing under its row only when its
age has come, so that the pass will clear the row.

## What is proved

For every set of sites, ring size, `history_from`, number of reports, keys, ages,
gateways, attempts, archives, commands and bounds; checked by `tlapm` on each of the
eight `*Proofs` modules.

**Collection** (`CollectionProofs`): `Spec => []IInv`, and from it `[]TypeOK`,
`[]NoSilentLoss`; and `[]StoredOnce`. Assumed: the ring has at least two slots
(`WindowAssumption`), a block holds one or two records of a site
(`BlockAssumption`), and the shapes of the other constants.

`NoSilentLoss` is not inductive: it speaks of the next read, and a step of the
middle of a scan knows nothing of what the scan left out. `IInv` adds

* `ChainInOrder`: times never go back, and three records in a row do not have one
  time (this is where the bound of two per block is used: `Known` compares slot and
  time, and with a ring of two slots a third record of a block would be taken for
  the first);
* `SeenIsStored`: every text record between `base` and the cursor is stored or
  covered by a warning;
* `ScanIsWhole`: while a scan is in hand, every text record after the cursor and up
  to its last one is in the scan or covered by the warning the read raised, what
  the store loop has passed is stored, and its last record is not before the cursor.

`ReadIsWhole` shows that a read makes `ScanIsWhole` true (what the ring dropped
after the cursor is warned about), `SeenStep` that `Mark` turns it into
`SeenIsStored`, and `LossIsNoticed` that a record after the cursor is read next
time or makes the oldest record left newer than the cursor. `RowsAreUnique` rests
on `KnownIsStored`: a stored position is always found. `CollectionCopies` (`KeepsCopy`)
maps each step of `Collection` to one of `Copy` or a stutter (`StepCopies`): publishing to
`Write`, `Store` of an unknown record to `Take` (`StoreTakes`), a `Read` that warns to
`Announce` (`WarningIsTrue`: were the cursor's record in the ring, the oldest readable
record would be no younger), and `Mark` to `Pass` (`MarkPasses`).

**Reports** (`ReportsProofs`): `Spec => []IInv`, and from it `[]TypeOK`,
`[]KeptUntilExpiry`, `[]MissingIsExpired`. `IInv` adds `WorkIsPending` (what is in
hand or still to come has a pending status, so a settled report is never
reopened), `FilesByStep` (what each step of `process_report` has made) and
`FetchedHasRow` (an archive a run may resume from has its row). `ExpiredStays` and
`DueIsExpired` link retention's own, older clock to the day of the invariant.

**Signals** (`SignalProofs`): `[]SignalsFollowRows` and `CursorNeverAheadOfRows` over
`Spec`. `SignalInv` says what the steps between the commits still owe: a scan that
returned something ends no earlier than any row (`ReadEndsLate`: what is stored is in
the ring, and then read, or older than all that is), so `record_signal` with the last
of the scan covers the rows; and a stored heartbeat is known, or the backfill or the
scan in hand still has it to tell. That part is needed because an interruption may
leave rows without their signal, and the backfill only looks for one heartbeat.
`CursorMoves` shows that the cursor's step is forward and onto a row.

**Watchdog** (`WatchdogProofs`): `[]WatchTypeOK` and `[]ReportsAnswer` over `WatchSpec`, whose
steps are steps or stutters of `Spec` (`WatchCollects`), so that the invariants above
hold below it. The difficulty is that a report replaces another of the same site, kind
and time. `WatchInv` shows that both tell of the same silence: at its writing all that
could be read and is older than the run was read (`ReadIsJudged`), so nothing that may
yet be recorded lies between the last signal and the report (`SilencesAreOld`,
`NothingBetween`), and what the store remembers is on disk. `FromHistory` keeps what is
older than `history_from` out of it. That a scan has a last record (`LastExists`) uses
that the naturals are well founded. For `NoFalseAlarm`, `HeardStep` shows that what a run
found in the ring is, by the time the site is judged, no later than the last signal or
older than `history_from`, and `BeatStep` that a heartbeat the store remembers has its row.
`NoMissedAlarm` needs the other direction: a stored heartbeat is known by the time the
site is judged (`SignalInv`), the last signal is the time of some row (`SignalIsStored`,
with `RecordsRow` for the backfill and for the scan), and a report that is not yet
remembered is on disk (`IssueIsWritten`, `BackIsWritten`). A turn that ends without a
report then had a silence of this very signal, which `ReportsAnswer` finds on disk.

**Handover** (`HandoverProofs`): `Spec => HandsOver`. `DeliveryInv` adds to `IInv` that a
processing time is not in the future and that no file of a processed report is there
without the column that names it (so removing its directory takes nothing that counts);
`StepImplements` maps `MarkProcessed` to `Deliver`, the steps that end in FAILED to
`Reject`, the deletions to `Lapse`, and everything else to a stutter - the replacement
of files of a report processed again among them, since it is still pending.

**Fetcher** (`FetcherProofs`): `[]FetcherTypeOK`, `[]GivesUpAfterAll` and `DownloadsAtOnce`. `LoopIsTold`
says that every gateway before the one asked is used up and that this one was asked
once for each attempt; `Complete` is the one step of `Download` that changes a file.

**Keygen** (in `FetchProofs`): `[]AnnouncedIsStored`; it needs `MakingIsNew`: the item
being overwritten is none of a key in service.

**Fetch** (`FetchProofs`): `[]FetchTypeOK`, `ExitTellsAll`, and that the command composes its parts:
`FetchSpec => FetcherSpec /\ KeygenSpec` (`CommandComposes`), so that what is proved of
downloads and keys holds in the command (`CommandKeepsContracts`). `FetchInv` says that
the report in hand is the first without a verdict, and that what was fetched is whole
unless this very report is being fetched again (the same CID may be asked for twice).
`[]VerdictIsRight` follows from `VerdictInv`: the key in hand is the one chosen for the
archive in hand, and each way a step can end a report is what `IsSoundFor` says of its
members. `[]RequestedAreNewest` rests on `WalkInv`: the walk has gone through a suffix of
the datalog and taken every report in it, so the first that it has not taken is older;
that no other set of that size is newer is counted with finite sets (`AscendingCounts`,
`WalkedIsNewest`). `CommandAdvances` is described below.

**Connector** (`ConnectorProofs`): `ZeroTells`, `[]ConnectorTypeOK` and `HandsOver`. The steps of
a run are steps or stutters of `Collection!Spec` (`CollectionGoesOn`), so that what is
proved there holds below it. For `ZeroTells`, `RunInv` says of each enabled site whose turn
is over that what it had written when the run began is stored, warned about or excused
(`Told`); of the site in hand, that what is not is in the scan that has still to be stored
and marked (`IsComing`: `ReadOnBrings` and `FirstReadBrings` show that a read makes it so,
`MarkTells` and `NothingTells` that the end of a turn makes it `Told`); and of the reports
that are half-way, that each is in hand or still to come (`HalfwayIsPending`), so that none
is when retention begins. For `HandsOver`, every step is one of the processing, for which
the lemmas of `HandoverProofs` are used through an instance (`P`), or it only turns reports
that were `absent` into `new` ones (`Arrive`), which `Handover` does not see. The second half
rests on `EventsHaveRows`: a report has an event exactly if its record has its row
(`RowsBringEvents`), which is why reading a record again cannot open a delivered report.
`RunsCollect` says that the whole connector implements `Collection`, and `RunsLoseNothing`
carries `NoSilentLoss`, `StoredOnce` and `SignalsFollowRows` over to whole runs, as
`RunsCopy` does `KeepsCopy`.

`CleanRunDelivers` adds `CleanIsLeft` to the invariant: while no failure was met, no site was
left out and no key is missing, and what is pending is in hand or still to come. That
a turn without a failure settles its report, and takes nothing from the others, is
`WorkGoesOn`, which the half-way part of `ZeroTells` uses too.

`RunAdvances` and `CommandAdvances` are the part of termination that can be proved: each
step goes down in an order without infinite descents (naturals, and sets by inclusion,
finite since sites, rows and reports are; the first difference decides). They have a lemma for each part of a run
(`CollectAdvances`, `ReportAdvances`, `RemovalAdvances`) and of a command
(`GetAdvances`, `ConcludeAdvances`). That a step is taken at all is fairness, and stays
with TLC.

**Only model-checked**: liveness (`ReportsArrive`, `CollectedSettles`, `SilenceIsTold`,
`PendingSettles`, `ExpiredAreRemoved`, `CommandEnds`), which this prover does not reach.

## Not modelled

* Database initialisation, configuration, logging, file modes, argument parsing: no
  behaviour over time. Their results are the constants and initial states.
* `pass-cli`, the chain, gateways, the system's timer: external, modelled by what the
  code sees of them.
* Contents of records, manifests and issue files, byte counts, delays, messages, logs;
  the cryptography.
* Whether a body is the one its CID names: the code does not compare them. A gateway
  that answers an error page with status 200 gives an archive that is rejected, and the
  model allows it; no property says otherwise.
* A report row without a CID (`pipeline.py:302-306`), which no caller creates.
* Two processes at once. The unit allows one; a manual `run-once` beside it would find
  the statuses and directories the first is changing, and nothing is claimed of that.
* A site whose `client_id` changes: a report has one directory in the model.
* The files of a report that FAILED or was never processed: no code promises their
  removal, and `ExpiredAreRemoved` speaks of processed reports.

## Plan

Everything planned for the modules is done but for these, which would be next:

1. An abstract specification of the alarms of a site, for `Watchdog` to implement.
2. The watch of a site inside `Connector`: its failures are caught and it touches
   neither of the two parts, so the properties of `Watchdog` should carry over.
3. A second process beside the timer's, to show what holds without `Type=oneshot`.

## Running

    tlc -config Collection_ring.cfg MCCollection.tla
    tlapm CollectionProofs.tla

and likewise for the other configurations (`Collection_*`: `MCCollection`;
`Watchdog_*`: `MCWatchdog`; `Reports_*`: `MCReports`; `Connector_run`: `MCConnector`;
`Fetch_command`: `MCFetch`). The longest run takes about two minutes.
