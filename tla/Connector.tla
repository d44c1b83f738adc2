----------------------------- MODULE Connector -----------------------------
(***************************************************************************)
(* run_once: the registry is written to the store, every enabled site is   *)
(* collected (module Collection), all pending reports are processed and    *)
(* old files removed (module Reports), and the run ends with an exit code. *)
(*                                                                         *)
(* The two modules meet in the rows: a stored record that announces a      *)
(* report is a NEW report event.  They share the faults.  The watchdog,    *)
(* whose failures are caught and which touches neither, is in Watchdog.    *)
(***************************************************************************)
EXTENDS Collection

CONSTANTS
    NumSites,        \* sites, in the order of their rows
    Registries,      \* the sets of sites a registry may enable
    Keys,            \* recipient addresses
    Configs,         \* integrator_addresses a run may be configured with
    Envelope,        \* [reports -> SUBSET Keys], whom a report is sealed for
    TooLarge,        \* reports over the size limit
    Torn,            \* reports with an unreadable member
    Undecryptable,   \* reports that no key decrypts
    KeepDecrypted,   \* RRS_KEEP_DECRYPTED_DAYS
    KeepArchive      \* RRS_KEEP_ARCHIVE_DAYS

ASSUME SitesAssumption ==
    /\ NumSites \in Nat /\ Senders = 1 .. NumSites
    /\ Registries \subseteq SUBSET Senders

ASSUME SettingsAssumption ==
    /\ Configs \subseteq Seq(Keys)
    /\ Envelope \in [1 .. NumSites * MaxRecords -> SUBSET Keys]
    /\ KeepDecrypted \in Nat /\ KeepArchive \in Nat

VARIABLES
    \* the store and the report directories
    enabled,         \* sites whose enabled column is set
    status, archivePath, decryptedDir, metaPath, processedAt,
    archive, staging, decrypted, manifest,
    \* the running process
    step, cur, pending, addresses, loaded, stamp,
    failed,          \* a site's collection has failed
    keyUnavailable,  \* a report needs a key that cannot be loaded
    exit,            \* exit code of the last run, NoCode until it ends
    \* history
    upTo,            \* [Senders -> records published when the run started]
    clean            \* the run has met no failure

NumReports == NumSites * MaxRecords

\* process_reports takes the reports of a site together, in order of time.
Report(s, i) == (s - 1) * MaxRecords + i

R == INSTANCE Reports WITH
        todo <- pending, day <- 1, MaxDay <- 1,
        faults <- interrupts, MaxFaults <- MaxInterrupts

collection == <<chain, clock, store, process, history>>
row == <<archivePath, decryptedDir, metaPath, processedAt>>
disk == <<archive, staging, decrypted, manifest>>
processing == <<step, cur, pending, addresses, loaded, stamp>>
reports == <<status, row, disk, processing>>
outcome == <<failed, keyUnavailable, exit>>
connector == <<collection, interrupts, enabled, reports, outcome, upTo, clean>>

\* A run in progress, or one that was killed.
NoCode == -1

\* Site s has announced its i-th record's report in a row of the store.
IsEvent(s, i) == i \in Stored(s) /\ chain[s][i].kind = "report"

ConnectorInit ==
    /\ Init
    /\ R!Init
    /\ enabled = {}
    /\ failed = FALSE
    /\ keyUnavailable = FALSE
    /\ exit = 0
    /\ upTo = [s \in Senders |-> 0]
    /\ clean = TRUE

Environment ==
    /\ TickStep \/ \E s \in Senders : PublishStep(s)
    /\ UNCHANGED <<enabled, reports, outcome, upTo, clean>>

\* Mutant of Begin: the senders are listed before they are synchronized.
BeginBeforeSync(registry) ==
    /\ exit # NoCode
    /\ StartRun(enabled)
    /\ enabled' = registry
    /\ failed' = FALSE
    /\ keyUnavailable' = FALSE
    /\ exit' = NoCode
    /\ upTo' = [s \in Senders |-> Len(chain[s])]
    /\ clean' = TRUE
    /\ UNCHANGED reports

\* sync_senders: the registry decides what is enabled, whatever was before;
\* get_enabled_sender_records lists it.
Begin(registry) ==
    /\ exit # NoCode
    /\ StartRun(registry)
    /\ enabled' = registry
    /\ failed' = FALSE
    /\ keyUnavailable' = FALSE
    /\ exit' = NoCode
    /\ upTo' = [s \in Senders |-> Len(chain[s])]
    /\ clean' = TRUE
    /\ UNCHANGED reports

\* Mutant of Events: a record read again is a new event.
EventsOfScan ==
    [r \in R!Reports |->
        IF \E i \in todo \ todo' : r = Report(current, i) THEN "new" ELSE status[r]]

\* A record that gets its row now becomes a NEW event if it announces a report.
Events ==
    [r \in R!Reports |->
        IF \E s \in Senders : \E i \in Positions(s) :
            r = Report(s, i) /\ ~IsEvent(s, i) /\ IsEvent(s, i)'
        THEN "new" ELSE status[r]]

CollectStep ==
    /\ exit = NoCode /\ step = "idle"
    /\ Collect \/ \E s \in Senders : (\A other \in queue : s <= other) /\ Visit(s)
    /\ status' = IF pc = "store" THEN Events ELSE status
    /\ UNCHANGED <<enabled, row, disk, processing, outcome, upTo, clean>>

\* Mutant of SiteFails: the failure is logged and forgotten.
SiteFailsUntold ==
    /\ step = "idle"
    /\ Fail
    /\ clean' = FALSE
    /\ UNCHANGED <<enabled, reports, outcome, upTo>>

\* The next site has its turn all the same.
SiteFails ==
    /\ step = "idle"
    /\ Fail
    /\ failed' = TRUE
    /\ clean' = FALSE
    /\ UNCHANGED <<enabled, reports, keyUnavailable, exit, upTo>>

\* Mutant of BeginReports: the reports of enabled sites only.
BeginReportsOfEnabled(config) ==
    /\ exit = NoCode /\ step = "idle" /\ pc = "idle" /\ queue = {}
    /\ pending' = {r \in R!Reports : status[r] \in R!Pending /\
                      \E s \in enabled : \E i \in Positions(s) : r = Report(s, i)}
    /\ addresses' = config
    /\ step' = "next"
    /\ UNCHANGED <<collection, interrupts, enabled, status, row, disk, cur, loaded, stamp,
                   outcome, upTo, clean>>

\* All sites have had their turn; every pending report is listed, of whatever site.
BeginReports(config) ==
    /\ exit = NoCode /\ step = "idle" /\ pc = "idle" /\ queue = {}
    /\ R!StartRun(config, {})
    /\ UNCHANGED <<collection, enabled, outcome, upTo, clean>>

ProcessStep ==
    /\ R!Process \/ (R!Retention /\ step' # "idle")
    /\ UNCHANGED <<collection, enabled, outcome, upTo, clean>>

ReportFails ==
    /\ R!DownloadFails \/ R!ArchiveUnreadable \/ R!Unexpected
    /\ clean' = FALSE
    /\ UNCHANGED <<collection, enabled, outcome, upTo>>

ReportWaitsForKey ==
    /\ R!KeyUnavailable
    /\ keyUnavailable' = TRUE
    /\ clean' = FALSE
    /\ UNCHANGED <<collection, enabled, failed, exit, upTo>>

\* exit_code.
ExitCode == IF failed \/ keyUnavailable THEN 3 ELSE 0

End(code) ==
    /\ exit' = code
    /\ upTo' = [s \in Senders |-> 0]
    /\ failed' = FALSE
    /\ keyUnavailable' = FALSE
    /\ clean' = TRUE

\* The retention pass is over, or has failed, which does not fail the run.
Finish ==
    /\ \/ R!EndRun
       \/ step \in {"retain", "expire"} /\ R!Crash
    /\ End(ExitCode)
    /\ UNCHANGED <<collection, enabled>>

\* The process dies, or an exception that nothing catches ends the run.
Die ==
    /\ \/ step = "idle" /\ Crash /\ UNCHANGED reports
       \/ R!Crash /\ UNCHANGED collection
    /\ End(1)
    /\ UNCHANGED enabled

GoOn == CollectStep \/ (\E config \in Configs : BeginReports(config)) \/ ProcessStep \/ Finish

ConnectorNext ==
    \/ Environment
    \/ \E registry \in Registries : Begin(registry)
    \/ GoOn
    \/ SiteFails
    \/ ReportFails
    \/ ReportWaitsForKey
    \/ Die

ConnectorSpec == ConnectorInit /\ [][ConnectorNext]_connector

\* The timer starts run after run, and a run goes on.
ConnectorFairness ==
    WF_connector(GoOn) /\ WF_connector(\E registry \in Registries : Begin(registry))

FairConnectorSpec == ConnectorSpec /\ ConnectorFairness
----------------------------------------------------------------------------

\* A row that announces a report has its event, and only it has; the process is
\* in one phase of its run at a time.
ConnectorTypeOK ==
    /\ TypeOK
    /\ R!TypeOK
    /\ enabled \in SUBSET Senders
    /\ queue \subseteq enabled
    /\ exit \in {NoCode, 0, 1, 3}
    /\ step # "idle" => pc = "idle" /\ queue = {} /\ exit = NoCode
    /\ pc # "idle" => exit = NoCode
    /\ \A s \in Senders : \A i \in 1 .. MaxRecords :
        status[Report(s, i)] # "absent" <=> i \in Positions(s) /\ IsEvent(s, i)

\* What the reading of a run may have passed over: record i, there when it
\* started, is skipped by the site's first scan, is older than the history asked
\* for, or is overwritten by junk.
IsExcused(s, i) ==
    \/ scanned[s] # None /\ i < base[s]
    \/ scanned[s] = None /\ Time(s, i) < HistoryFrom[s]
    \/ i < Oldest(s) /\ \E j \in i + 1 .. Len(chain[s]) : ~IsText(s, j)

\* A run that exits with 0 has read every enabled site: what a site had written
\* when the run started has its row or a gap warning, and no report it knows of
\* waits half-way for a key (RunOnceResult.exit_code, on which the alert of the
\* systemd unit rests).
ZeroTells ==
    [][exit = NoCode /\ exit' = 0 =>
        /\ \A s \in enabled : \A i \in 1 .. upTo[s] :
            IsText(s, i) => i \in Stored(s) \/ i <= warned[s] \/ IsExcused(s, i)
        /\ \A r \in R!Reports : status'[r] \notin {"fetching", "fetched", "decrypting"}]_connector

\* One run without a failure is enough: it exits with 0 and leaves no report
\* pending, whatever runs that failed or were killed before have left and whether
\* its site is still enabled; and what an enabled site had announced when it began
\* is processed or rejected, lost with a warning or excused (run_once).  Torn
\* archives are retried for ever.
CleanRunDelivers ==
    [][exit = NoCode /\ clean /\ exit' \notin {NoCode, 1} =>
        /\ exit' = 0
        /\ \A r \in R!Reports \ Torn : status'[r] \in {"absent", "processed", "failed"}
        /\ \A s \in enabled : \A i \in 1 .. upTo[s] : chain[s][i].kind = "report" =>
             \/ status'[Report(s, i)] \in {"processed", "failed"}
             \/ Report(s, i) \in Torn
             \/ i <= warned[s] \/ IsExcused(s, i)]_connector

\* A report is delivered whole and once although its record may be read, and its
\* site enabled and disabled, many times (add_datalog_entry keeps the row and the
\* status of a record it knows).
HandsOver == R!HandsOver

\* What a run has before it, the weightiest first: its phases, the sites or reports
\* of this phase, the steps of this one's turn, and what is left for this step.
PhasesLeft == IF step = "idle" THEN 2 ELSE IF step \in {"retain", "expire"} THEN 0 ELSE 1

TurnsLeft == IF step = "idle" THEN queue ELSE pending

StepsLeft ==
    IF step = "idle"
    THEN [backfill |-> 4, store |-> 3, mark |-> 2, collected |-> 1, idle |-> 0][pc]
    ELSE [fetch |-> 11, record |-> 10, fetched |-> 9, choose |-> 8, key |-> 7,
          stage |-> 6, members |-> 5, swap |-> 4, manifest |-> 3, artifacts |-> 2,
          processed |-> 1, next |-> 0, expire |-> 1, retain |-> 0][step]

Remains(r) ==
    {part \in {"archive", "staging", "files", "all files", "manifest", "archivePath",
               "decryptedDir", "metaPath"} :
        \/ part = "archive" /\ archive[r]
        \/ part = "staging" /\ staging[r]
        \/ part = "files" /\ decrypted[r] # "none"
        \/ part = "all files" /\ decrypted[r] = "complete"
        \/ part = "manifest" /\ manifest[r]
        \/ part = "archivePath" /\ archivePath[r]
        \/ part = "decryptedDir" /\ decryptedDir[r]
        \/ part = "metaPath" /\ metaPath[r]}

PartsLeft ==
    IF step = "idle" THEN todo
    ELSE IF step \in {"swap", "expire"} THEN Remains(cur) ELSE {}

Shrinks(set, smaller) == smaller \subseteq set /\ smaller # set

\* Every step of a run leaves less before it, be it one that fails: no site and no
\* report has two turns in a run, a report that goes back to NEW waits for the next
\* run, and no run goes on for ever (run_once, process_reports, apply_retention).
RunAdvances ==
    [][exit = NoCode /\ exit' = NoCode /\ UNCHANGED <<chain, clock>> =>
        \/ PhasesLeft' < PhasesLeft
        \/ /\ PhasesLeft' = PhasesLeft
           /\ \/ Shrinks(TurnsLeft, TurnsLeft')
              \/ /\ TurnsLeft' = TurnsLeft
                 /\ \/ StepsLeft' < StepsLeft
                    \/ StepsLeft' = StepsLeft /\ Shrinks(PartsLeft, PartsLeft')]_connector

\* A report its site announces after the first scan reaches the admin layer or is
\* rejected, or a gap warning covers it, if the site stays in the registry and
\* faults stop, whatever happens to the other sites.
ReportsArrive ==
    \A s \in Senders : (\A registry \in Registries : s \in registry) =>
        \A i \in 1 .. MaxRecords :
            (scanned[s] # None /\ base[s] <= i /\ i <= Len(chain[s])
                 /\ chain[s][i].kind = "report")
              ~> (status[Report(s, i)] \in {"processed", "failed"} \/ i <= warned[s]
                    \/ Readable(s) = {})

\* A collected report is processed or rejected even if its site is disabled or
\* removed from the registry (process_reports lists by status, and get_sender_
\* record_by_id does not ask for enabled).
CollectedSettles ==
    \A r \in R!Reports \ Torn :
        status[r] \in R!Pending ~> status[r] \in {"processed", "failed"}
=============================================================================
