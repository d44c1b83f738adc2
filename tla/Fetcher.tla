------------------------------ MODULE Fetcher ------------------------------
(***************************************************************************)
(* download_report: one archive from the configured IPFS gateways, each    *)
(* asked in order and up to MaxAttempts times, streamed to a temporary     *)
(* name and moved into place when complete.                                *)
(*                                                                         *)
(* A GET is two steps, its start and its end, so that a failure or the     *)
(* death of the process may find the temporary file half written.  Nothing *)
(* ties what a gateway sends to the CID asked for, and the code does not   *)
(* compare them: a GET may end in any body.                                *)
(***************************************************************************)
EXTENDS Integers

CONSTANTS
    Targets,       \* report directories
    Bodies,        \* [Targets -> complete bodies, within the limit, a gateway may send]
    None,          \* no file
    NumGateways,   \* ipfs_gateways
    MaxAttempts    \* ipfs_download_max_attempts

ASSUME FetcherAssumption ==
    /\ Targets # {}
    /\ NumGateways \in Nat
    /\ MaxAttempts \in Nat \ {0}
    /\ \A t \in Targets : None \notin Bodies[t]

VARIABLES
    archive,   \* [Targets -> body of archive.zip, or None]
    partial,   \* [Targets -> BOOLEAN], archive.zip.partial is there
    target,    \* the directory it downloads to
    gateway,   \* position of the gateway asked
    attempt,   \* attempt at that gateway
    get,       \* "off", where the GET stands, or how the download ended
    \* history
    asked,     \* [Gateways -> GETs started there]
    refused    \* gateways that answered with a status not worth a retry

Gateways == 1 .. NumGateways

loop == <<target, gateway, attempt>>
tally == <<asked, refused>>
download == <<archive, partial, loop, get, tally>>

Ended == {"off", "done", "unavailable", "toolarge", "error"}

FetcherInit ==
    /\ archive = [t \in Targets |-> None]
    /\ partial = [t \in Targets |-> FALSE]
    /\ target = CHOOSE t \in Targets : TRUE
    /\ gateway = 1
    /\ attempt = 1
    /\ get = "off"
    /\ asked = [g \in Gateways |-> 0]
    /\ refused = {}

\* download_report is called for the archive of t.
Call(t) ==
    /\ get = "off"
    /\ target' = t
    /\ get' = "ask"
    /\ UNCHANGED <<archive, partial, gateway, attempt, tally>>

\* Mutant of Open: straight into archive.zip.
OpenInPlace ==
    /\ get = "ask"
    /\ gateway \in Gateways
    /\ asked' = [asked EXCEPT ![gateway] = @ + 1]
    /\ \E body \in Bodies[target] : archive' = [archive EXCEPT ![target] = body]
    /\ get' = "receive"
    /\ UNCHANGED <<partial, loop, refused>>

\* The gateway answers with status 200; the temporary file is opened.
Open ==
    /\ get = "ask"
    /\ gateway \in Gateways
    /\ asked' = [asked EXCEPT ![gateway] = @ + 1]
    /\ partial' = [partial EXCEPT ![target] = TRUE]
    /\ get' = "receive"
    /\ UNCHANGED <<archive, loop, refused>>

\* The body is complete and takes its name.
Complete ==
    /\ get = "receive"
    /\ \E body \in Bodies[target] : archive' = [archive EXCEPT ![target] = body]
    /\ partial' = [partial EXCEPT ![target] = FALSE]
    /\ get' = "done"
    /\ UNCHANGED <<loop, tally>>

\* A GET that fails before its body counts as asked, and none leaves a temporary file.
GetFails ==
    /\ get \in {"ask", "receive"}
    /\ gateway \in Gateways
    /\ asked' = IF get = "ask" THEN [asked EXCEPT ![gateway] = @ + 1] ELSE asked
    /\ partial' = [partial EXCEPT ![target] = FALSE]
    /\ UNCHANGED <<archive, target>>

NextGateway == gateway' = gateway + 1 /\ attempt' = 1

\* Mutant of Retry: the attempts are counted over all gateways.
RetryOverall ==
    /\ GetFails
    /\ IF attempt < MaxAttempts
       THEN attempt' = attempt + 1 /\ gateway' = gateway
       ELSE gateway' = NumGateways + 1 /\ attempt' = 1
    /\ get' = "ask"
    /\ UNCHANGED refused

\* Mutant of Retry: an attempt is not counted.
RetryForever ==
    /\ GetFails
    /\ UNCHANGED <<gateway, attempt>>
    /\ get' = "ask"
    /\ UNCHANGED refused

\* The network fails, the stream breaks, or the status is worth a retry.
Retry ==
    /\ GetFails
    /\ IF attempt < MaxAttempts
       THEN attempt' = attempt + 1 /\ gateway' = gateway
       ELSE NextGateway
    /\ get' = "ask"
    /\ UNCHANGED refused

\* Any other HTTP status: the next gateway.
Refuse ==
    /\ get = "ask"
    /\ GetFails
    /\ NextGateway
    /\ refused' = refused \cup {gateway}
    /\ UNCHANGED get

\* The declared or the received size is over the limit: no other gateway is asked.
TooLarge ==
    /\ GetFails
    /\ get' = "toolarge"
    /\ UNCHANGED <<gateway, attempt, refused>>

\* Any other exception, such as an OSError on the temporary file.
Break ==
    /\ GetFails
    /\ get' = "error"
    /\ UNCHANGED <<gateway, attempt, refused>>

\* Every gateway has failed.
GiveUp ==
    /\ get = "ask"
    /\ gateway \notin Gateways
    /\ get' = "unavailable"
    /\ UNCHANGED <<archive, partial, loop, tally>>

\* The caller goes on; the counters were the call's own.
Return ==
    /\ get' = "off"
    /\ gateway' = 1
    /\ attempt' = 1
    /\ asked' = [g \in Gateways |-> 0]
    /\ refused' = {}
    /\ UNCHANGED <<archive, partial, target>>

\* The process dies and leaves what is on disk.
Die == get # "off" /\ Return

Get == Open \/ Complete \/ Retry \/ Refuse \/ TooLarge \/ Break \/ GiveUp

FetcherNext == (\E t \in Targets : Call(t)) \/ Get \/ (get \in Ended \ {"off"} /\ Return) \/ Die

FetcherSpec == FetcherInit /\ [][FetcherNext]_download
----------------------------------------------------------------------------

\* Files, counters and outcomes are of the kinds the code gives them.
FetcherTypeOK ==
    /\ DOMAIN archive = Targets
    /\ \A t \in Targets : archive[t] \in Bodies[t] \cup {None}
    /\ partial \in [Targets -> BOOLEAN]
    /\ target \in Targets
    /\ gateway \in 1 .. NumGateways + 1
    /\ attempt \in 1 .. MaxAttempts
    /\ get \in Ended \cup {"ask", "receive"}
    /\ asked \in [Gateways -> 0 .. MaxAttempts]
    /\ refused \in SUBSET Gateways

\* Every gateway before the one asked is used up, and this one was asked once
\* for each attempt: what the loop must keep for GivesUpAfterAll.
LoopIsTold ==
    /\ \A g \in Gateways : g < gateway => g \in refused \/ asked[g] = MaxAttempts
    /\ gateway \in Gateways =>
        asked[gateway] = IF get \in {"off", "ask"} THEN attempt - 1 ELSE attempt
    /\ \A g \in Gateways : g > gateway => asked[g] = 0
    /\ get = "unavailable" => gateway \notin Gateways

\* A download is called unavailable only after every gateway has refused it or
\* has failed MaxAttempts times, and no gateway is asked more often: the report
\* goes back to NEW, or fails in fetch, for nothing less (download_report).
GivesUpAfterAll ==
    get = "unavailable" =>
        \A g \in Gateways : g \in refused \/ asked[g] = MaxAttempts

Progress == IF get \in {"ask", "receive"} THEN "running" ELSE get

Contract == INSTANCE Download WITH outcome <- Progress

\* Through whatever gateways answer, a download is one change of one file: from
\* what was there to a complete body, exactly when it ends "done"; the step that
\* process_report and fetch_report rely on (_stream_to_file and its os.replace).
DownloadsAtOnce == Contract!Spec
=============================================================================
