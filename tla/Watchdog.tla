------------------------------ MODULE Watchdog ------------------------------
(***************************************************************************)
(* Silence as an event: after a site is collected, the same run judges it  *)
(* by its last signal and heartbeat, and reports it silent or back.        *)
(*                                                                         *)
(* The module adds watch_sender to Collection, between the end of a site's *)
(* collection and the next site.  The service report is on disk before the *)
(* store remembers it, and a run may stop between the two.                 *)
(***************************************************************************)
EXTENDS Collection

CONSTANT SilenceAfter   \* SILENCE_AFTER, in block times

ASSUME SilenceAssumption == SilenceAfter \in Nat \ {0}

VARIABLES
    silentSince,   \* [Senders -> timestamp or None], the store's column
    reports,       \* service report directories that have their manifest
    issue,         \* "none", or the type written and not yet remembered
    now,           \* the time of the run
    heard          \* history: position up to which this site's chain was read

watchVars == <<silentSince, reports, issue, now, heard>>
allVars == <<vars, watchVars>>

\* A directory is named by site, type and run time; since is in its issue file.
ServiceReport ==
    [site : Senders, type : {"site_silent", "site_back"}, at : Nat, since : Nat]

\* back_issue: a site reported silent has spoken again.
IsBack(s) == silentSince[s] # None /\ silentSince[s] < lastSignal[s]

\* Mutant of IsSilent: a site is judged by its heartbeats alone.
IsSilentByBeat(s) ==
    /\ lastBeat[s] # None
    /\ silentSince[s] = None
    /\ lastBeat[s] + SilenceAfter <= now

\* Mutant of IsSilent: later than SILENCE_AFTER.
IsSilentLater(s) ==
    /\ lastBeat[s] # None
    /\ lastSignal[s] # None
    /\ silentSince[s] = None
    /\ lastSignal[s] + SilenceAfter < now

\* silence_issue: heartbeats known, not reported yet, and quiet for long enough.
IsSilent(s) ==
    /\ lastBeat[s] # None
    /\ lastSignal[s] # None
    /\ silentSince[s] = None
    /\ lastSignal[s] + SilenceAfter <= now

\* write_service_report replaces what a directory of that name held.
WriteReport(report) ==
    reports' = {report} \cup
        {r \in reports : r.site # report.site \/ r.type # report.type \/ r.at # report.at}

----------------------------------------------------------------------------

WatchInit ==
    /\ Init
    /\ silentSince = [s \in Senders |-> None]
    /\ reports = {}
    /\ issue = "none"
    /\ now = 1
    /\ heard = 0

\* Mutant of StartWatchedRun: local time taken for UTC, east of Greenwich.
StartRunInLocalTime ==
    /\ \E enabled \in SUBSET Senders : StartRun(enabled)
    /\ now' = clock + 1
    /\ UNCHANGED <<silentSince, reports, issue, heard>>

\* run_once takes the time once, before the first sender.
StartWatchedRun ==
    /\ \E enabled \in SUBSET Senders : StartRun(enabled)
    /\ now' = clock
    /\ UNCHANGED <<silentSince, reports, issue, heard>>

ReadChain ==
    /\ Read
    /\ heard' = Len(chain[current])
    /\ UNCHANGED <<silentSince, reports, issue, now>>

\* The other steps of a collection, and those of sites and time.
VisitSite(s) == Visit(s) /\ UNCHANGED watchVars

CollectOn ==
    /\ Backfill \/ Store \/ Signal \/ Mark \/ NothingNew
    /\ UNCHANGED watchVars

SitesGoOn ==
    /\ TickStep \/ \E s \in Senders : PublishStep(s)
    /\ UNCHANGED watchVars

\* watch_sender: the site has come back.
ReportBack ==
    /\ pc = "collected" /\ issue = "none"
    /\ IsBack(current)
    /\ WriteReport([site |-> current, type |-> "site_back", at |-> now,
                    since |-> silentSince[current]])
    /\ issue' = "site_back"
    /\ UNCHANGED <<vars, silentSince, now, heard>>

\* watch_sender: the site has gone silent.
ReportSilent ==
    /\ pc = "collected" /\ issue = "none"
    /\ ~IsBack(current)
    /\ IsSilent(current)
    /\ WriteReport([site |-> current, type |-> "site_silent", at |-> now,
                    since |-> lastSignal[current]])
    /\ issue' = "site_silent"
    /\ UNCHANGED <<vars, silentSince, now, heard>>

\* Mutant of MarkSilent: the time of the report, not of the last signal.
MarkSilentNow ==
    /\ pc = "collected" /\ issue # "none"
    /\ silentSince' = [silentSince EXCEPT ![current] =
           IF issue = "site_silent" THEN now ELSE None]
    /\ issue' = "none"
    /\ Leave
    /\ UNCHANGED <<reports, now, heard>>

\* mark_silent, and on to the next sender.
MarkSilent ==
    /\ pc = "collected" /\ issue # "none"
    /\ silentSince' = [silentSince EXCEPT ![current] =
           IF issue = "site_silent" THEN lastSignal[current] ELSE None]
    /\ issue' = "none"
    /\ Leave
    /\ UNCHANGED <<reports, now, heard>>

NoIssue ==
    /\ issue = "none"
    /\ ~IsBack(current) /\ ~IsSilent(current)
    /\ Leave
    /\ UNCHANGED watchVars

\* A site whose collection or watch failed is not judged further in this run.
Stop ==
    /\ Fail \/ Crash
    /\ issue' = "none"
    /\ UNCHANGED <<silentSince, reports, now, heard>>

Watch == ReportBack \/ ReportSilent \/ MarkSilent \/ NoIssue

WatchNext ==
    \/ SitesGoOn
    \/ StartWatchedRun
    \/ \E s \in Senders : VisitSite(s)
    \/ ReadChain
    \/ CollectOn
    \/ Watch
    \/ Stop

WatchSpec == WatchInit /\ [][WatchNext]_allVars

\* As in Collection: a run goes on, and every site is in run after run.
WatchFairness ==
    /\ WF_allVars(ReadChain \/ CollectOn \/ Watch)
    /\ \A s \in Senders : WF_allVars(VisitSite(s))
    /\ \A s \in Senders :
        SF_allVars(StartWatchedRun /\ \E enabled \in SUBSET Senders :
                      s \in enabled /\ StartRun(enabled))

FairWatchSpec == WatchSpec /\ WatchFairness
----------------------------------------------------------------------------

\* Rows, signals, reports and the run's time are of the kinds the code gives them;
\* an issue is pending only while its site's turn lasts.
WatchTypeOK ==
    /\ TypeOK
    /\ silentSince \in [Senders -> Nat]
    /\ reports \subseteq ServiceReport
    /\ issue \in {"none", "site_silent", "site_back"}
    /\ issue # "none" => pc = "collected"
    /\ now \in 1 .. clock
    /\ heard \in 0 .. MaxRecords

\* What this run's read of the chain of s found in the ring.
Heard(s) ==
    {i \in Positions(s) : IsText(s, i) /\ i <= heard /\ heard <= i + WindowSize - 2}

\* No false alarm: a site is reported silent only if nothing this run found in its
\* datalog is younger than SILENCE_AFTER, and it has sent a heartbeat that is
\* stored - whatever earlier runs left undone, and whatever is in the ring beside
\* (watch_sender judges by columns that record_signal and backfill_signal fill).
NoFalseAlarm ==
    [][\A r \in reports' \ reports : r.type = "site_silent" =>
        /\ \E i \in Stored(r.site) : IsBeat(r.site, i)
        /\ \A i \in Heard(r.site) : Time(r.site, i) + SilenceAfter <= now]_allVars

\* No missed alarm: when a site that has a heartbeat among its rows and none of them
\* younger than SILENCE_AFTER has had its turn, its silence since the last signal is
\* remembered and its report is on disk, unless this turn told that it was back -
\* whatever earlier runs stored without recording it (watch_sender).
NoMissedAlarm ==
    [][/\ pc = "collected" /\ pc' = "idle" /\ interrupts' = interrupts
       /\ \E i \in Stored(current) : IsBeat(current, i)
       /\ \A i \in Stored(current) : Time(current, i) + SilenceAfter <= now
       => \E r \in reports :
            /\ r.site = current
            /\ \/ /\ r.type = "site_silent" /\ r.since = lastSignal[current]
                  /\ silentSince'[current] = r.since
               \/ r.type = "site_back" /\ r.at = now]_allVars

\* The store remembers a silence only if its report is on disk, and a site_back
\* always answers an earlier site_silent of the same silence
\* (write_service_report before mark_silent, mark_silent with the last signal).
ReportsAnswer ==
    /\ \A s \in Senders : silentSince[s] # None =>
        /\ silentSince[s] <= lastSignal[s]
        /\ \E r \in reports :
              r.site = s /\ r.type = "site_silent" /\ r.since = silentSince[s]
    /\ \A b \in reports : b.type = "site_back" =>
        \E r \in reports : /\ r.site = b.site
                           /\ r.type = "site_silent"
                           /\ r.since = b.since
                           /\ r.at <= b.at

\* A site that has sent a heartbeat and stays quiet for SILENCE_AFTER is reported
\* in the end, and one remembered as silent that speaks is reported back, as long
\* as it is enabled and failures stop.
SilenceIsTold ==
    \A s \in Senders : \A t \in 1 .. MaxClock :
        /\ (lastBeat[s] # None /\ lastSignal[s] = t /\ t + SilenceAfter <= clock)
              ~> (\/ lastSignal[s] # t
                  \/ \E r \in reports :
                        r.site = s /\ r.type = "site_silent" /\ r.since = t)
        /\ (silentSince[s] = t /\ t < lastSignal[s])
              ~> (\E r \in reports :
                     r.site = s /\ r.type = "site_back" /\ r.since = t)

\* "gets a site_silent report, once" (README, "Service reports: a site gone
\* silent, and back"): one silence has one report.
SilentOnce ==
    \A q, r \in reports :
        q.type = "site_silent" /\ r.type = "site_silent" /\ q.site = r.site
            /\ q.since = r.since => q = r
=============================================================================
