------------------------------- MODULE Fetch -------------------------------
(***************************************************************************)
(* The fetch command: given CIDs, or a site's last reports by its datalog, *)
(* downloaded and decrypted one after the other into a directory of their  *)
(* own.  A person may give the command again over the same directory, with *)
(* other keys, and make a recipient key in between (module Keygen).        *)
(***************************************************************************)
EXTENDS Fetcher, Recipients, Keygen, SequencesExt

CONSTANTS
    Requests,      \* lists of CIDs a person may ask for
    Logs,          \* what a site's datalog may come to hold: reports and others
    MaxLast,       \* bound: reports asked for with --last
    Configs,       \* integrator_addresses a command may be configured with
    MaxReads,      \* datalog_request_max_attempts
    MaxCommands    \* bound: commands given

\* A directory is named by a CID, or by the slot and time of a record: here, by
\* its position in the datalog.
ASSUME FetchAssumption ==
    /\ Requests \subseteq Seq(Targets)
    /\ Configs \subseteq Seq(Keys)
    /\ Keys \cap {"rejected", "unexpected"} = {}
    /\ \A t \in Targets : \A body \in Bodies[t] \ {NotZip} :
        Len(body) \in Nat /\ DOMAIN body = 1 .. Len(body)
    /\ \A entries \in Logs :
        entries \in Seq({"report", "other"}) /\ DOMAIN entries \subseteq Targets
    /\ MaxLast \in Nat
    /\ MaxReads \in Nat \ {0}
    /\ MaxCommands \in Nat

VARIABLES
    log,         \* the datalog in the end
    published,   \* how much of it is written
    \* the directory of the command
    staging,     \* [Targets -> BOOLEAN], decrypted.partial/
    decrypted,   \* [Targets -> {"none", "partial", "whole"}], decrypted/
    \* the running command
    step,        \* what it does next
    addresses,   \* its configured recipient addresses, in order
    last,        \* reports asked for with --last
    reads,       \* attempts at the datalog
    unread,      \* records the walk has still to come to
    requested,   \* directories of the reports to fetch, oldest first
    verdicts,    \* how those done ended: "fetched", or why not
    loaded,      \* keys it has loaded
    exit,        \* exit code of the last command, NoCode until then
    commands     \* commands given so far

site == <<log, published>>
files == <<staging, decrypted>>
walk == <<last, reads, unread>>
command == <<step, addresses, walk, requested, verdicts, loaded, exit, commands>>
fetchVars == <<download, keygen, site, files, command>>

\* A command that runs, or was killed.
NoCode == -1

Working == {"fetch", "choose", "key", "stage", "members", "swap"}

\* The report in hand.
Current == requested[Len(verdicts) + 1]

FetchInit ==
    /\ FetcherInit
    /\ KeygenInit
    /\ log \in Logs
    /\ published = 0
    /\ staging = [t \in Targets |-> FALSE]
    /\ decrypted = [t \in Targets |-> "none"]
    /\ step = "idle"
    /\ addresses = <<>>
    /\ last = 0
    /\ reads = 0
    /\ unread = 0
    /\ requested = <<>>
    /\ verdicts = <<>>
    /\ loaded = {}
    /\ exit = NoCode
    /\ commands = 0

\* A command starts with keys that were announced; it remembers no other one.
Start ==
    /\ step = "idle" /\ making = "idle"
    /\ commands < MaxCommands
    /\ commands' = commands + 1
    /\ addresses' \in {config \in Configs : ToSet(config) \subseteq announced}
    /\ exit' = NoCode
    /\ UNCHANGED <<download, keygen, site, files, reads, unread, verdicts, loaded>>

FetchCids ==
    /\ Start
    /\ requested' \in Requests
    /\ step' = "prepare"
    /\ UNCHANGED last

FetchLast ==
    /\ Start
    /\ last' \in 1 .. MaxLast
    /\ step' = "chain"
    /\ UNCHANGED requested

\* The command ends; what it held in memory is gone.
Exit(code) ==
    /\ exit' = code
    /\ step' = "idle"
    /\ addresses' = <<>>
    /\ last' = 0
    /\ reads' = 0
    /\ unread' = 0
    /\ requested' = <<>>
    /\ verdicts' = <<>>
    /\ loaded' = {}
    /\ UNCHANGED commands

\* read_records: all that was written until then.
ReadDatalog ==
    /\ step = "chain"
    /\ published' \in published .. Len(log)
    /\ unread' = published'
    /\ step' = "walk"
    /\ UNCHANGED <<download, keygen, log, files, addresses, last, reads, requested,
                   verdicts, loaded, exit, commands>>

\* with_retries: a TransportError is repeated, and the last one raised.
ReadFails ==
    /\ step = "chain"
    /\ IF reads + 1 < MaxReads
       THEN /\ reads' = reads + 1
            /\ UNCHANGED <<step, addresses, last, unread, requested, verdicts, loaded,
                           exit, commands>>
       ELSE Exit(1)
    /\ UNCHANGED <<download, keygen, site, files>>

\* Mutant of Walk: the last records, whatever they are.
WalkRecords ==
    /\ step = "walk"
    /\ IF unread = 0 \/ published - unread = last
       THEN step' = "prepare" /\ UNCHANGED <<unread, requested>>
       ELSE /\ unread' = unread - 1
            /\ requested' = IF log[unread] = "report" THEN <<unread>> \o requested
                                                      ELSE requested
            /\ UNCHANGED step
    /\ UNCHANGED <<download, keygen, site, files, addresses, last, reads, verdicts,
                   loaded, exit, commands>>

\* requested_from_datalog walks back until it has enough reports.
Walk ==
    /\ step = "walk"
    /\ IF unread = 0 \/ Len(requested) = last
       THEN step' = "prepare" /\ UNCHANGED <<unread, requested>>
       ELSE /\ unread' = unread - 1
            /\ requested' = IF log[unread] = "report" THEN <<unread>> \o requested
                                                      ELSE requested
            /\ UNCHANGED step
    /\ UNCHANGED <<download, keygen, site, files, addresses, last, reads, verdicts,
                   loaded, exit, commands>>

\* Nothing to fetch is exit code 3; otherwise the root directory is made.
Prepare ==
    /\ step = "prepare"
    /\ IF requested = <<>>
       THEN Exit(3)
       ELSE /\ step' = "next"
            /\ last' = 0 /\ reads' = 0 /\ unread' = 0
            /\ UNCHANGED <<addresses, requested, verdicts, loaded, exit, commands>>
    /\ UNCHANGED <<download, keygen, site, files>>

Go(next) ==
    /\ step' = next
    /\ UNCHANGED <<addresses, walk, requested, verdicts, loaded, exit, commands>>

\* The report in hand ends with this verdict; the loop goes on.
Conclude(verdict) ==
    /\ verdicts' = Append(verdicts, verdict)
    /\ step' = "next"
    /\ UNCHANGED <<addresses, walk, requested, loaded, exit, commands>>

\* An archive that is there is not downloaded again.
NextReport ==
    /\ step = "next"
    /\ Len(verdicts) < Len(requested)
    /\ IF archive[Current] = None
       THEN Call(Current) /\ Go("fetch")
       ELSE Go("choose") /\ UNCHANGED download
    /\ UNCHANGED <<asked, refused, keygen, site, files>>

FetchOn == step = "fetch" /\ Get /\ UNCHANGED <<keygen, site, files, command>>

\* Mutant of Downloaded: a report that could not be downloaded is tried again.
DownloadedOrAgain ==
    /\ step = "fetch"
    /\ get \in Ended
    /\ Return
    /\ CASE get = "done" -> Go("choose")
         [] get \in {"unavailable", "toolarge"} -> Go("next")
         [] get = "error" -> Exit(1)
    /\ UNCHANGED <<keygen, site, files>>

\* How download_report ended; its unexpected errors end the command.
Downloaded ==
    /\ step = "fetch"
    /\ get \in Ended
    /\ Return
    /\ CASE get = "done" -> Go("choose")
         [] get \in {"unavailable", "toolarge"} -> Conclude("download")
         [] get = "error" -> Exit(1)
    /\ UNCHANGED <<keygen, site, files>>

\* Our key the archive is sealed for; an OSError counts as a bad archive.
Choose ==
    /\ step = "choose"
    /\ LET choice == ChosenKey(archive[Current], addresses)
       IN  \/ choice = "rejected" /\ Conclude("decrypt")
           \/ choice = "unexpected" /\ Exit(1)
           \/ choice \in Keys /\ Go("key")
           \/ Conclude("read")
    /\ UNCHANGED <<download, keygen, site, files>>

\* RecipientKeys.account; a key that cannot be loaded ends the command.
LoadKey ==
    /\ step = "key"
    /\ LET key == ChosenKey(archive[Current], addresses)
       IN  \/ /\ key \in loaded \/ Loads(key)
              /\ loaded' = loaded \cup {key}
              /\ step' = "stage"
              /\ UNCHANGED <<addresses, walk, requested, verdicts, exit, commands>>
           \/ key \notin loaded /\ Exit(1)
    /\ UNCHANGED <<download, keygen, site, files>>

Stage ==
    /\ step = "stage"
    /\ staging' = [staging EXCEPT ![Current] = TRUE]
    /\ Go("members")
    /\ UNCHANGED <<download, keygen, site, decrypted>>

\* _decrypt_members, all or nothing.
DecryptMembers ==
    /\ step = "members"
    /\ \/ /\ Decrypts(archive[Current], ChosenKey(archive[Current], addresses))
          /\ Go("swap")
          /\ UNCHANGED staging
       \/ /\ \/ /\ ~Decrypts(archive[Current], ChosenKey(archive[Current], addresses))
                /\ Conclude("decrypt")
             \/ Conclude("read")
          /\ staging' = [staging EXCEPT ![Current] = FALSE]
    /\ UNCHANGED <<download, keygen, site, decrypted>>

\* The files of an earlier command are removed one by one.
ClearOutput ==
    /\ step = "swap"
    /\ decrypted[Current] # "none"
    /\ \E left \in {"partial", "none"} :
        decrypted' = [decrypted EXCEPT ![Current] = left]
    /\ UNCHANGED <<download, keygen, site, staging, command>>

RenameStaging ==
    /\ step = "swap"
    /\ decrypted[Current] = "none"
    /\ decrypted' = [decrypted EXCEPT ![Current] = "whole"]
    /\ staging' = [staging EXCEPT ![Current] = FALSE]
    /\ Conclude("fetched")
    /\ UNCHANGED <<download, keygen, site>>

\* Mutant of ExitCode: success if something was fetched.
ExitCodeOfAny == IF \E n \in DOMAIN verdicts : verdicts[n] = "fetched" THEN 0 ELSE 3

ExitCode == IF \A n \in DOMAIN verdicts : verdicts[n] = "fetched" THEN 0 ELSE 3

Finish ==
    /\ step = "next"
    /\ Len(verdicts) = Len(requested)
    /\ Exit(ExitCode)
    /\ UNCHANGED <<download, keygen, site, files>>

\* Any other exception ends the command; decrypt_archive removes its staging.
Fail ==
    /\ step \in {"chain", "prepare", "next", "choose", "stage", "members", "swap"}
    /\ step = "next" => Len(verdicts) < Len(requested)
    /\ Exit(1)
    /\ staging' = IF step \in {"members", "swap"}
                  THEN [staging EXCEPT ![Current] = FALSE] ELSE staging
    /\ UNCHANGED <<download, keygen, site, decrypted>>

\* The process dies.
Killed ==
    /\ step # "idle"
    /\ Exit(NoCode)
    /\ IF step = "fetch" THEN Die ELSE UNCHANGED download
    /\ UNCHANGED <<keygen, site, files>>

\* A person makes a key between two commands.
MakeKeyBetween == step = "idle" /\ MakeKey /\ UNCHANGED <<download, site, files, command>>

Command ==
    \/ ReadDatalog \/ ReadFails \/ Walk \/ Prepare \/ NextReport \/ FetchOn
    \/ Downloaded \/ Choose \/ LoadKey \/ Stage \/ DecryptMembers \/ ClearOutput
    \/ RenameStaging \/ Finish

FetchNext == FetchCids \/ FetchLast \/ Command \/ Fail \/ Killed \/ MakeKeyBetween

FetchSpec == FetchInit /\ [][FetchNext]_fetchVars

\* A command that was started goes on: its requests have timeouts.
FairFetchSpec == FetchSpec /\ WF_fetchVars(Command)
----------------------------------------------------------------------------

\* Files, counters, verdicts and keys are of the kinds the code gives them, and
\* what the command works on is one of the requested.
FetchTypeOK ==
    /\ FetcherTypeOK
    /\ KeygenTypeOK
    /\ log \in Logs /\ published \in 0 .. Len(log)
    /\ staging \in [Targets -> BOOLEAN]
    /\ decrypted \in [Targets -> {"none", "partial", "whole"}]
    /\ step \in Working \cup {"idle", "chain", "walk", "prepare", "next"}
    /\ addresses \in {<<>>} \cup Configs
    /\ last \in 0 .. MaxLast /\ reads \in 0 .. MaxReads - 1 /\ unread \in 0 .. published
    /\ \A n \in DOMAIN requested : requested[n] \in Targets
    /\ \A n \in DOMAIN verdicts : verdicts[n] \in {"fetched", "download", "decrypt", "read"}
    /\ step \in Working => Current \in Targets
    /\ step \in Working \ {"fetch"} => archive[Current] # None
    /\ loaded \subseteq announced
    /\ exit \in {NoCode, 0, 1, 3}
    /\ commands \in 0 .. MaxCommands

\* --last N takes the newest N reports the datalog holds, oldest first, whatever
\* other records lie between them, and all there are if there are fewer
\* (requested_from_datalog).
RequestedAreNewest ==
    step = "prepare" /\ last > 0 =>
        LET reports == {i \in 1 .. published : log[i] = "report"}
        IN  /\ ToSet(requested) =
                 {i \in reports : Cardinality({j \in reports : j >= i}) <= last}
            /\ \A m, n \in DOMAIN requested : m < n => requested[m] < requested[n]

\* A report is fetched only if its archive is sound for a key of ours, and is
\* refused for its contents only if it is sound for none: the key chosen by the
\* envelopes is one that opens every member, whatever other keys are configured
\* (archive_recipients, RecipientKeys.choose, _decrypt_members).
VerdictIsRight ==
    \A n \in DOMAIN verdicts : verdicts[n] \in {"fetched", "decrypt"} =>
        (verdicts[n] = "fetched" <=>
            \E key \in ToSet(addresses) : IsSoundFor(archive[requested[n]], key))

\* Exit code 0 means that every report asked for is there, whole; 3 that each was
\* tried, and that those called fetched are whole - also when the directory held
\* the remains of an earlier command that failed or was killed (fetch,
\* FetchResult.exit_code, main).
ExitTellsAll ==
    [][step # "idle" /\ exit' \in {0, 3} =>
        /\ Len(verdicts) = Len(requested)
        /\ \A n \in DOMAIN verdicts : verdicts[n] = "fetched" =>
               decrypted[requested[n]] = "whole" /\ ~staging[requested[n]]
        /\ exit' = 0 =>
               requested # <<>> /\ \A n \in DOMAIN verdicts : verdicts[n] = "fetched"]_fetchVars

\* What a running command has before it, the weightiest first: the parts of the
\* command, the attempts, records or reports of this part, the steps of this report,
\* the gateways or remains of this step, attempts at this gateway, and its answer.
PartsLeft ==
    CASE step = "chain" -> 3 [] step = "walk" -> 2 [] step = "prepare" -> 1 [] OTHER -> 0

ItemsLeft ==
    CASE step = "chain" -> MaxReads - reads
      [] step = "walk" -> unread
      [] OTHER -> Len(requested) - Len(verdicts)

StepsLeft ==
    CASE step = "next" -> 6 [] step = "fetch" -> 5 [] step = "choose" -> 4
      [] step = "key" -> 3 [] step = "stage" -> 2 [] step = "members" -> 1
      [] OTHER -> 0

TriesLeft ==
    IF step = "swap"
    THEN CASE decrypted[Current] = "whole" -> 2
           [] decrypted[Current] = "partial" -> 1
           [] OTHER -> 0
    ELSE NumGateways + 1 - gateway

AnswerLeft == CASE get = "ask" -> 2 [] get = "receive" -> 1 [] OTHER -> 0

Ahead == <<PartsLeft, ItemsLeft, StepsLeft, TriesLeft, MaxAttempts - attempt, AnswerLeft>>

\* Every step of a command leaves less before it, in the order of tuples of
\* naturals: no attempt, gateway, record or report comes twice, and no command goes
\* on for ever (with_retries, download_report, requested_from_datalog, fetch).
CommandAdvances ==
    [][step # "idle" /\ step' # "idle" =>
        \E n \in DOMAIN Ahead :
            /\ Ahead'[n] \in 0 .. Ahead[n] - 1
            /\ \A m \in 1 .. n - 1 : Ahead'[m] = Ahead[m]]_fetchVars

\* A command ends, however gateways and nodes fail: every repetition is bounded
\* (with_retries, download_report).
CommandEnds == step # "idle" ~> step = "idle"
=============================================================================
