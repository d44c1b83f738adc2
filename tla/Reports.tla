------------------------------ MODULE Reports ------------------------------
(***************************************************************************)
(* From a NEW report event to files the admin layer may read, and their    *)
(* removal: process_reports and process_report of a run, the retention     *)
(* pass that ends it, the statuses and artifact rows in SQLite, and the    *)
(* report directories on disk.                                             *)
(*                                                                         *)
(* Each commit and each change of the disk is a step, so a crash may come  *)
(* between any two of them.  Reports are numbered in the order of          *)
(* process_reports: by sender and timestamp.                               *)
(***************************************************************************)
EXTENDS Integers, Sequences

CONSTANTS
    NumReports,      \* reports the sites publish
    Keys,            \* recipient addresses
    Configs,         \* integrator_addresses a run may be configured with
    Envelope,        \* [Reports -> SUBSET Keys], whom a report is sealed for
    TooLarge,        \* reports over the size limit
    Torn,            \* reports whose archive opens but has an unreadable member
    Undecryptable,   \* reports that no key decrypts
    KeepDecrypted,   \* RRS_KEEP_DECRYPTED_DAYS
    KeepArchive,     \* RRS_KEEP_ARCHIVE_DAYS
    MaxDay,          \* bound: days
    MaxFaults        \* bound: failures of disk, network, key store or process

Reports == 1 .. NumReports

ASSUME ReportsAssumption ==
    /\ NumReports \in Nat
    /\ Configs \subseteq Seq(Keys)
    /\ Envelope \in [Reports -> SUBSET Keys]

ASSUME AgesAssumption == KeepDecrypted \in Nat /\ KeepArchive \in Nat

ASSUME LimitsAssumption == MaxDay \in Nat \ {0} /\ MaxFaults \in Nat

VARIABLES
    \* SQLite
    status,      \* [Reports -> Statuses]
    archivePath, \* [Reports -> BOOLEAN], the artifact row's archive_path is set
    decryptedDir,\* [Reports -> BOOLEAN], and its decrypted_dir
    metaPath,    \* [Reports -> BOOLEAN], and its meta_path
    processedAt, \* [Reports -> day of processing, 0 for NULL]
    \* the report's directory
    archive,     \* [Reports -> BOOLEAN], archive.zip, whole when it is there
    staging,     \* [Reports -> BOOLEAN], decrypted.partial/
    decrypted,   \* [Reports -> {"none", "partial", "complete"}], decrypted/
    manifest,    \* [Reports -> BOOLEAN], manifest.json
    \* the running process
    step,        \* what it does next
    cur,         \* the report in hand
    todo,        \* reports the current loop has still to come to
    addresses,   \* its configured recipient addresses, in order
    loaded,      \* keys it has loaded
    stamp,       \* the time it takes from the clock: processed_at, then now
    \* the environment
    day,
    faults

row == <<archivePath, decryptedDir, metaPath, processedAt>>
store == <<status, row>>
disk == <<archive, staging, decrypted, manifest>>
process == <<step, cur, todo, addresses, loaded, stamp>>
vars == <<store, disk, process, day, faults>>

\* Mutant of Pending: a report a crash left in DECRYPTING is not taken up.
PendingButDecrypting == {"new", "fetching", "fetched"}

\* Mutant of Pending: failed reports are tried again.
PendingOrFailed == {"new", "fetching", "fetched", "decrypting", "failed"}

Pending == {"new", "fetching", "fetched", "decrypting"}

\* "absent": not collected from the datalog yet.
Statuses == Pending \cup {"absent", "processed", "failed"}

Working == {"fetch", "record", "fetched", "choose", "key", "stage", "members",
            "swap", "manifest", "artifacts", "processed"}

Steps == Working \cup {"idle", "next", "retain", "expire"}

\* choose: our first configured address the archive is sealed for.
IsChosen(key, r) ==
    \E n \in DOMAIN addresses :
        /\ addresses[n] = key
        /\ key \in Envelope[r]
        /\ \A m \in 1 .. n - 1 : addresses[m] \notin Envelope[r]

IsForUs(r) == \E n \in DOMAIN addresses : addresses[n] \in Envelope[r]

\* Mutant of OlderThan: one day early.
OlderThanDayBefore(at, days, now) == at # 0 /\ days # 0 /\ at + days - 1 <= now

\* older_than: 0 days keeps for ever, and so does a missing processed_at.
OlderThan(at, days, now) == at # 0 /\ days # 0 /\ at + days <= now

DecryptedDue(r) ==
    decryptedDir[r] /\ OlderThan(processedAt[r], KeepDecrypted, stamp)

\* Mutant of ArchiveDue: the age of the decrypted files.
ArchiveDueWithDecrypted(r) ==
    archivePath[r] /\ OlderThan(processedAt[r], KeepDecrypted, stamp)

ArchiveDue(r) ==
    archivePath[r] /\ OlderThan(processedAt[r], KeepArchive, stamp)

\* Mutant of DirectoryDue: as soon as the decrypted files are gone.
DirectoryDueEarly(r) == ~decryptedDir[r] /\ metaPath[r]

DirectoryDue(r) == ~decryptedDir[r] /\ ~archivePath[r] /\ metaPath[r]

HasFiles(r) ==
    archive[r] \/ staging[r] \/ decrypted[r] # "none" \/ manifest[r]

----------------------------------------------------------------------------

Init ==
    /\ status = [r \in Reports |-> "absent"]
    /\ archivePath = [r \in Reports |-> FALSE]
    /\ decryptedDir = [r \in Reports |-> FALSE]
    /\ metaPath = [r \in Reports |-> FALSE]
    /\ processedAt = [r \in Reports |-> 0]
    /\ archive = [r \in Reports |-> FALSE]
    /\ staging = [r \in Reports |-> FALSE]
    /\ decrypted = [r \in Reports |-> "none"]
    /\ manifest = [r \in Reports |-> FALSE]
    /\ step = "idle"
    /\ cur = 0
    /\ todo = {}
    /\ addresses = <<>>
    /\ loaded = {}
    /\ stamp = 0
    /\ day = 1
    /\ faults = 0

NextDay ==
    /\ day < MaxDay
    /\ day' = day + 1
    /\ UNCHANGED <<store, disk, process, faults>>

\* A run: collection adds new report events, then all pending ones are listed.
StartRun(config, collected) ==
    /\ step = "idle"
    /\ \A r \in collected : status[r] = "absent"
    /\ status' = [r \in Reports |-> IF r \in collected THEN "new" ELSE status[r]]
    /\ todo' = {r \in Reports : status'[r] \in Pending}
    /\ addresses' = config
    /\ loaded' = {}
    /\ step' = "next"
    /\ UNCHANGED <<row, disk, cur, stamp, day, faults>>

\* A report's turn ends with this status; the loop goes on.
Settle(outcome) ==
    /\ status' = [status EXCEPT ![cur] = outcome]
    /\ step' = "next"

\* Mutant of Pick: resume by the status, without looking for the archive.
PickByStatus ==
    /\ step = "next"
    /\ \E r \in todo :
        /\ \A q \in todo : r <= q
        /\ cur' = r
        /\ todo' = todo \ {r}
        /\ IF status[r] = "new"
           THEN /\ status' = [status EXCEPT ![r] = "fetching"]
                /\ step' = "fetch"
           ELSE /\ UNCHANGED status
                /\ step' = "choose"
    /\ UNCHANGED <<row, disk, addresses, loaded, stamp, day, faults>>

\* Mutant of Pick: the pending reports are listed anew at every turn.
PickAnew ==
    /\ step = "next"
    /\ \E r \in todo :
        /\ \A q \in todo : r <= q
        /\ cur' = r
        /\ IF status[r] \in {"new", "fetching"} \/ ~archive[r]
           THEN /\ status' = [status EXCEPT ![r] = "fetching"]
                /\ step' = "fetch"
           ELSE /\ UNCHANGED status
                /\ step' = "choose"
    /\ todo' = {q \in Reports : status'[q] \in Pending}
    /\ UNCHANGED <<row, disk, addresses, loaded, stamp, day, faults>>

\* process_report begins: resume from the archive, or fetch it (again).
Pick ==
    /\ step = "next"
    /\ \E r \in todo :
        /\ \A q \in todo : r <= q
        /\ cur' = r
        /\ todo' = todo \ {r}
        /\ IF status[r] \in {"new", "fetching"} \/ ~archive[r]
           THEN /\ status' = [status EXCEPT ![r] = "fetching"]
                /\ step' = "fetch"
           ELSE /\ UNCHANGED status
                /\ step' = "choose"
    /\ UNCHANGED <<row, disk, addresses, loaded, stamp, day, faults>>

\* download_report: the file appears under its name only when complete.
Download ==
    /\ step = "fetch"
    /\ IF cur \in TooLarge
       THEN Settle("failed") /\ UNCHANGED archive
       ELSE /\ archive' = [archive EXCEPT ![cur] = TRUE]
            /\ step' = "record"
            /\ UNCHANGED status
    /\ UNCHANGED <<row, staging, decrypted, manifest, cur, todo, addresses, loaded,
                   stamp, day, faults>>

RecordArchive ==
    /\ step = "record"
    /\ archivePath' = [archivePath EXCEPT ![cur] = TRUE]
    /\ step' = "fetched"
    /\ UNCHANGED <<status, decryptedDir, metaPath, processedAt, disk, cur, todo,
                   addresses, loaded, stamp, day, faults>>

MarkFetched ==
    /\ step = "fetched"
    /\ status' = [status EXCEPT ![cur] = "fetched"]
    /\ step' = "choose"
    /\ UNCHANGED <<row, disk, cur, todo, addresses, loaded, stamp, day, faults>>

\* RecipientKeys.choose; an unreadable member is an error it does not expect.
Choose ==
    /\ step = "choose"
    /\ \/ cur \in Torn /\ Settle("new")
       \/ cur \notin Torn /\ ~IsForUs(cur) /\ Settle("failed")
       \/ cur \notin Torn /\ IsForUs(cur) /\ step' = "key" /\ UNCHANGED status
    /\ UNCHANGED <<row, disk, cur, todo, addresses, loaded, stamp, day, faults>>

\* RecipientKeys.account loads a key once per run; then DECRYPTING.
LoadKey ==
    /\ step = "key"
    /\ \E key \in Keys : IsChosen(key, cur) /\ loaded' = loaded \cup {key}
    /\ status' = [status EXCEPT ![cur] = "decrypting"]
    /\ step' = "stage"
    /\ UNCHANGED <<row, disk, cur, todo, addresses, stamp, day, faults>>

\* decrypt_archive clears what an earlier attempt left and starts a new one.
Stage ==
    /\ step = "stage"
    /\ staging' = [staging EXCEPT ![cur] = TRUE]
    /\ step' = "members"
    /\ UNCHANGED <<store, archive, decrypted, manifest, cur, todo, addresses,
                   loaded, stamp, day, faults>>

DecryptMembers ==
    /\ step = "members"
    /\ IF cur \in Undecryptable
       THEN /\ Settle("failed")
            /\ staging' = [staging EXCEPT ![cur] = FALSE]
       ELSE /\ step' = "swap"
            /\ UNCHANGED <<status, staging>>
    /\ UNCHANGED <<row, archive, decrypted, manifest, cur, todo, addresses, loaded,
                   stamp, day, faults>>

\* rmtree, file by file, of a directory the report had already.
RemoveDecrypted(r) ==
    /\ decrypted[r] # "none"
    /\ \E left \in {"partial", "none"} :
        decrypted' = [decrypted EXCEPT ![r] = left]

ClearOutput ==
    /\ step = "swap"
    /\ RemoveDecrypted(cur)
    /\ UNCHANGED <<store, archive, staging, manifest, process, day, faults>>

RenameStaging ==
    /\ step = "swap"
    /\ decrypted[cur] = "none"
    /\ decrypted' = [decrypted EXCEPT ![cur] = "complete"]
    /\ staging' = [staging EXCEPT ![cur] = FALSE]
    /\ step' = "manifest"
    /\ UNCHANGED <<store, archive, manifest, cur, todo, addresses, loaded, stamp,
                   day, faults>>

WriteManifest ==
    /\ step = "manifest"
    /\ manifest' = [manifest EXCEPT ![cur] = TRUE]
    /\ stamp' = day
    /\ step' = "artifacts"
    /\ UNCHANGED <<store, archive, staging, decrypted, cur, todo, addresses, loaded,
                   day, faults>>

RecordArtifacts ==
    /\ step = "artifacts"
    /\ decryptedDir' = [decryptedDir EXCEPT ![cur] = TRUE]
    /\ metaPath' = [metaPath EXCEPT ![cur] = TRUE]
    /\ processedAt' = [processedAt EXCEPT ![cur] = stamp]
    /\ step' = "processed"
    /\ UNCHANGED <<status, archivePath, disk, cur, todo, addresses, loaded, stamp,
                   day, faults>>

MarkProcessed ==
    /\ step = "processed"
    /\ Settle("processed")
    /\ UNCHANGED <<row, disk, cur, todo, addresses, loaded, stamp, day, faults>>

----------------------------------------------------------------------------
\* Failures.

Fault == faults < MaxFaults /\ faults' = faults + 1

\* Every gateway failed: back to NEW.
DownloadFails ==
    /\ step = "fetch"
    /\ Fault
    /\ Settle("new")
    /\ UNCHANGED <<row, disk, cur, todo, addresses, loaded, stamp, day>>

\* An OSError reading the archive is taken for an invalid archive: FAILED.
ArchiveUnreadable ==
    /\ step \in {"choose", "members"}
    /\ Fault
    /\ Settle("failed")
    /\ staging' = [staging EXCEPT ![cur] = @ /\ step = "choose"]
    /\ UNCHANGED <<row, archive, decrypted, manifest, cur, todo, addresses, loaded,
                   stamp, day>>

\* Mutant of KeyUnavailable: a status of its own, which DatalogStatus has not.
KeyUnavailableMarked ==
    /\ step = "key"
    /\ \E key \in Keys : IsChosen(key, cur) /\ key \notin loaded
    /\ Fault
    /\ Settle("key_unavailable")
    /\ UNCHANGED <<row, disk, cur, todo, addresses, loaded, stamp, day>>

\* A key that cannot be loaded leaves the report FETCHED for the next run.
KeyUnavailable ==
    /\ step = "key"
    /\ \E key \in Keys : IsChosen(key, cur) /\ key \notin loaded
    /\ Fault
    /\ Settle("fetched")
    /\ UNCHANGED <<row, disk, cur, todo, addresses, loaded, stamp, day>>

\* Any other exception: back to NEW; decrypt_archive removes its staging.
Unexpected ==
    /\ step \in Working
    /\ Fault
    /\ Settle("new")
    /\ staging' = [staging EXCEPT ![cur] = @ /\ step \notin {"members", "swap"}]
    /\ UNCHANGED <<row, archive, decrypted, manifest, cur, todo, addresses, loaded,
                   stamp, day>>

\* A run is over; what it held in memory is gone.
Over ==
    /\ step' = "idle"
    /\ cur' = 0
    /\ todo' = {}
    /\ addresses' = <<>>
    /\ loaded' = {}
    /\ stamp' = 0

\* The process dies, or an exception ends its retention pass.
Crash ==
    /\ step # "idle"
    /\ Fault
    /\ Over
    /\ UNCHANGED <<store, disk, day>>

----------------------------------------------------------------------------
\* apply_retention.

\* A pass has nothing to go through when both kinds are kept for ever.
BeginRetention ==
    /\ step = "next"
    /\ todo = {}
    /\ stamp' = day
    /\ todo' = IF KeepDecrypted = 0 /\ KeepArchive = 0 THEN {} ELSE Reports
    /\ step' = "retain"
    /\ UNCHANGED <<store, disk, cur, addresses, loaded, day, faults>>

NextRow ==
    /\ step = "retain"
    /\ \E r \in todo :
        /\ cur' = r
        /\ todo' = todo \ {r}
    /\ step' = "expire"
    /\ UNCHANGED <<store, disk, addresses, loaded, stamp, day, faults>>

ExpireDecrypted ==
    /\ step = "expire"
    /\ DecryptedDue(cur)
    /\ RemoveDecrypted(cur)
    /\ UNCHANGED <<store, archive, staging, manifest, process, day, faults>>

ForgetDecrypted ==
    /\ step = "expire"
    /\ DecryptedDue(cur)
    /\ decrypted[cur] = "none"
    /\ decryptedDir' = [decryptedDir EXCEPT ![cur] = FALSE]
    /\ UNCHANGED <<status, archivePath, metaPath, processedAt, disk, process, day, faults>>

ExpireArchive ==
    /\ step = "expire"
    /\ ~DecryptedDue(cur)
    /\ ArchiveDue(cur)
    /\ archive[cur]
    /\ archive' = [archive EXCEPT ![cur] = FALSE]
    /\ UNCHANGED <<store, staging, decrypted, manifest, process, day, faults>>

\* Mutant of ForgetArchive: meta_path is cleared with it.
ForgetArchiveAndMeta ==
    /\ step = "expire"
    /\ ~DecryptedDue(cur)
    /\ ArchiveDue(cur)
    /\ ~archive[cur]
    /\ archivePath' = [archivePath EXCEPT ![cur] = FALSE]
    /\ metaPath' = [metaPath EXCEPT ![cur] = FALSE]
    /\ UNCHANGED <<status, decryptedDir, processedAt, disk, process, day, faults>>

ForgetArchive ==
    /\ step = "expire"
    /\ ~DecryptedDue(cur)
    /\ ArchiveDue(cur)
    /\ ~archive[cur]
    /\ archivePath' = [archivePath EXCEPT ![cur] = FALSE]
    /\ UNCHANGED <<status, decryptedDir, metaPath, processedAt, disk, process, day, faults>>

RemoveDirectory ==
    /\ step = "expire"
    /\ DirectoryDue(cur)
    /\ HasFiles(cur)
    /\ archive' = [archive EXCEPT ![cur] = FALSE]
    /\ staging' = [staging EXCEPT ![cur] = FALSE]
    /\ decrypted' = [decrypted EXCEPT ![cur] = "none"]
    /\ manifest' = [manifest EXCEPT ![cur] = FALSE]
    /\ UNCHANGED <<store, process, day, faults>>

ForgetDirectory ==
    /\ step = "expire"
    /\ DirectoryDue(cur)
    /\ ~HasFiles(cur)
    /\ metaPath' = [metaPath EXCEPT ![cur] = FALSE]
    /\ UNCHANGED <<status, archivePath, decryptedDir, processedAt, disk, process, day, faults>>

RowDone ==
    /\ step = "expire"
    /\ ~DecryptedDue(cur) /\ ~ArchiveDue(cur) /\ ~DirectoryDue(cur)
    /\ step' = "retain"
    /\ UNCHANGED <<store, disk, cur, todo, addresses, loaded, stamp, day, faults>>

EndRun ==
    /\ step = "retain"
    /\ todo = {}
    /\ Over
    /\ UNCHANGED <<store, disk, day, faults>>

Process ==
    \/ Pick \/ Download \/ RecordArchive \/ MarkFetched \/ Choose \/ LoadKey
    \/ Stage \/ DecryptMembers \/ ClearOutput \/ RenameStaging \/ WriteManifest
    \/ RecordArtifacts \/ MarkProcessed

Retention ==
    \/ BeginRetention \/ NextRow \/ ExpireDecrypted \/ ForgetDecrypted
    \/ ExpireArchive \/ ForgetArchive \/ RemoveDirectory \/ ForgetDirectory
    \/ RowDone \/ EndRun

Failure == DownloadFails \/ ArchiveUnreadable \/ KeyUnavailable \/ Unexpected \/ Crash

Run ==
    \E config \in Configs : \E collected \in SUBSET Reports : StartRun(config, collected)

Next == NextDay \/ Run \/ Process \/ Retention \/ Failure

Spec == Init /\ [][Next]_vars

\* The timer starts run after run, and a run goes on.
Fairness == WF_vars(Run) /\ WF_vars(Process) /\ WF_vars(Retention)

FairSpec == Spec /\ Fairness
----------------------------------------------------------------------------

\* Statuses, rows, files and the process are of the kinds the code gives them,
\* and a report is in hand exactly while one is worked on.
TypeOK ==
    /\ status \in [Reports -> Statuses]
    /\ archivePath \in [Reports -> BOOLEAN]
    /\ decryptedDir \in [Reports -> BOOLEAN]
    /\ metaPath \in [Reports -> BOOLEAN]
    /\ processedAt \in [Reports -> Nat]
    /\ archive \in [Reports -> BOOLEAN]
    /\ staging \in [Reports -> BOOLEAN]
    /\ decrypted \in [Reports -> {"none", "partial", "complete"}]
    /\ manifest \in [Reports -> BOOLEAN]
    /\ step \in Steps
    /\ cur \in Reports \cup {0}
    /\ step \in Working \cup {"expire"} => cur \in Reports
    /\ todo \in SUBSET Reports
    /\ addresses \in Seq(Keys)
    /\ loaded \in SUBSET Keys
    /\ stamp \in 0 .. day
    /\ day \in 1 .. MaxDay
    /\ faults \in 0 .. MaxFaults

\* A report processed `days` days ago or earlier; 0 days is never.
Expired(r, days) == processedAt[r] # 0 /\ days # 0 /\ day - processedAt[r] >= days

\* A processed report is there for the admin layer until its age has come:
\* the manifest, every decrypted file, the archive, and the rows that say so,
\* whatever crashed or was retried on the way (process_report, apply_retention).
KeptUntilExpiry ==
    \A r \in Reports : status[r] = "processed" =>
        /\ processedAt[r] # 0
        /\ ~Expired(r, KeepDecrypted) =>
             decrypted[r] = "complete" /\ manifest[r] /\ decryptedDir[r] /\ metaPath[r]
        /\ ~Expired(r, KeepArchive) =>
             archive[r] /\ manifest[r] /\ archivePath[r] /\ metaPath[r]

\* A row names an archive that is not there only when its age has come and the
\* next retention pass will clear it: a report that still needs its archive, of
\* any status, is never left with a row and no file (upsert_report_artifact
\* after the download, clear_report_artifact_paths after the deletion).
MissingIsExpired ==
    \A r \in Reports :
        archivePath[r] /\ ~archive[r] => Expired(r, KeepArchive)

\* The inductive invariant of the proofs, by parts.

\* What is in hand or still to come is pending, and comes once.
WorkIsPending ==
    /\ step \in Working => status[cur] \in Pending /\ cur \notin todo
    /\ step \in Working \cup {"next"} => \A r \in todo : status[r] \in Pending

\* What process_report has made of the report in hand by each of its steps.
FilesByStep ==
    /\ step \in {"fetch", "record"} => status[cur] = "fetching"
    /\ step \in Working \ {"fetch"} => archive[cur]
    /\ step \in Working \ {"fetch", "record"} => archivePath[cur]
    /\ step \in {"manifest", "artifacts", "processed"} => decrypted[cur] = "complete"
    /\ step \in {"artifacts", "processed"} => manifest[cur]
    /\ step = "artifacts" => stamp # 0
    /\ step = "processed" =>
         decryptedDir[cur] /\ metaPath[cur] /\ processedAt[cur] # 0

\* An archive a run may resume from has its row.
FetchedHasRow ==
    \A r \in Reports :
        status[r] \in {"fetched", "decrypting"} /\ archive[r] => archivePath[r]

\* The invariant a step preserves.
IInv ==
    /\ TypeOK
    /\ WorkIsPending
    /\ FilesByStep
    /\ FetchedHasRow
    /\ KeptUntilExpiry
    /\ MissingIsExpired

Phase ==
    [r \in Reports |->
        CASE status[r] = "processed" -> "delivered"
          [] status[r] = "failed" -> "rejected"
          [] OTHER -> "pending"]

Kept ==
    [r \in Reports |->
        IF status[r] # "processed" THEN {}
        ELSE {part \in {"decrypted", "archive"} :
                IF part = "archive" THEN archive[r] ELSE decrypted[r] = "complete"}]

Since == [r \in Reports |-> IF status[r] = "processed" THEN processedAt[r] ELSE 0]

Promise == INSTANCE Handover WITH phase <- Phase, kept <- Kept, since <- Since

\* A report is delivered whole and once, or rejected for good, and what was
\* delivered goes only when its age has come (the contract of README, "Contract
\* with the admin layer" and "Retention", as process_report and apply_retention
\* carry it out).
HandsOver == Promise!Spec

\* A pending report is processed or failed in the end, whatever state a crash
\* left it in, once faults stop (process_reports takes up all four pending
\* statuses); a torn archive is the exception, see TornArchiveFails.
PendingSettles ==
    \A r \in Reports \ Torn :
        status[r] \in Pending ~> status[r] \in {"processed", "failed"}

\* Nothing of a delivered report outlives both ages: the whole directory goes, even
\* when a pass died between a deletion and its row, once faults stop and runs go on
\* (apply_retention and the columns it leaves set until a file is gone).
ExpiredAreRemoved ==
    \A r \in Reports :
        status[r] = "processed" /\ Expired(r, KeepDecrypted) /\ Expired(r, KeepArchive)
            ~> ~HasFiles(r)

\* What the docs say, which the code does not keep.

\* "A directory that has [a manifest] is complete and safe to read" (README,
\* "Contract with the admin layer"); for files that are kept for ever.
ManifestMeansComplete ==
    \A r \in Reports :
        manifest[r] /\ KeepDecrypted = 0 => decrypted[r] = "complete"

\* "Unexpected errors (for example, disk errors) keep the event NEW" (README,
\* "Processing states"): a report fails for good only for what it is.
FailsForWhatItIs ==
    [][\A r \in Reports : status[r] # "failed" /\ status'[r] = "failed" =>
        r \in TooLarge \cup Undecryptable \/ ~IsForUs(r)]_vars

\* "An invalid archive ... is permanent: the event becomes FAILED ... and is not
\* retried" (README, "Processing states"): with no fault, a report whose archive
\* was fetched does not go back to NEW.
TornArchiveFails ==
    [][\A r \in Reports : status[r] = "fetched" => status'[r] # "new"]_vars
=============================================================================
