--------------------------- MODULE HandoverProofs ---------------------------
(***************************************************************************)
(* Reports implements Handover, for every number of reports, keys, ages    *)
(* and faults: whatever crashes and is retried, a step of the connector is *)
(* one step of what the admin layer is promised, or none.                  *)
(***************************************************************************)
EXTENDS ReportsProofs

\* A time of processing is not in the future.
Dated == \A r \in Reports : processedAt[r] <= day

\* No file of a processed report is there without the column that names it, so
\* the removal of its directory takes nothing that counts.
FilesAreNamed ==
    \A r \in Reports : status[r] = "processed" =>
        (archive[r] => archivePath[r]) /\ (decrypted[r] = "complete" => decryptedDir[r])

DeliveryInv == IInv /\ Dated /\ FilesAreNamed

\* The report in hand is not settled, and what is settled is not in hand.
LEMMA InHand ==
    ASSUME TypeOK, WorkIsPending, step \in Working
    PROVE  cur \in Reports /\ status[cur] \notin {"processed", "failed"}
  BY DEF TypeOK, WorkIsPending, Pending

LEMMA DatedStep ==
    ASSUME TypeOK, Dated, [Next]_vars
    PROVE  Dated'
<1> SUFFICES ASSUME NEW r \in Reports
             PROVE  processedAt'[r] <= day'
  BY DEF Dated
<1>1. /\ day \in Nat /\ day' \in {day, day + 1} /\ processedAt[r] \in Nat
      /\ stamp \in Nat /\ stamp <= day /\ processedAt[r] <= day
      /\ processedAt \in [Reports -> Nat]
  BY DayStep, LimitsAssumption DEF TypeOK, Dated
<1>2. CASE RecordArtifacts
  BY <1>1, <1>2 DEF RecordArtifacts
<1>3. CASE ~RecordArtifacts
  <2>1. processedAt' = processedAt
    BY <1>3 DEF Next, Run, Process, Retention, Failure, vars, store, row, NextDay,
       StartRun, Pick, Download, RecordArchive, MarkFetched, Choose, LoadKey, Stage,
       DecryptMembers, ClearOutput, RenameStaging, WriteManifest, MarkProcessed,
       DownloadFails, ArchiveUnreadable, KeyUnavailable, Unexpected, Crash,
       BeginRetention, NextRow, ExpireDecrypted, ForgetDecrypted, ExpireArchive,
       ForgetArchive, RemoveDirectory, ForgetDirectory, RowDone, EndRun
  <2> QED
    BY <1>1, <2>1
<1> QED
  BY <1>2, <1>3

LEMMA NamedStep ==
    ASSUME TypeOK, WorkIsPending, FilesByStep, FilesAreNamed, [Next]_vars
    PROVE  FilesAreNamed'
<1> SUFFICES ASSUME NEW r \in Reports, status'[r] = "processed"
             PROVE  /\ archive'[r] => archivePath'[r]
                    /\ decrypted'[r] = "complete" => decryptedDir'[r]
  BY DEF FilesAreNamed
<1> USE DEF row
<1>1. /\ archive \in [Reports -> BOOLEAN] /\ archivePath \in [Reports -> BOOLEAN]
      /\ decryptedDir \in [Reports -> BOOLEAN]
      /\ status \in [Reports -> Statuses]
      /\ decrypted \in [Reports -> {"none", "partial", "complete"}]
      /\ step = "expire" => cur \in Reports
  BY DEF TypeOK
<1>2. status[r] = "processed" =>
        (archive[r] => archivePath[r]) /\ (decrypted[r] = "complete" => decryptedDir[r])
  BY DEF FilesAreNamed
<1>3. CASE Process \/ Failure
  <2>1. CASE r # cur
    BY <1>2, <1>3, <2>1, OthersUntouched
  <2>2. CASE r = cur /\ step \in Working
    <3>1. status[cur] # "processed"
      BY <2>2, InHand
    <3>2. CASE MarkProcessed
      BY <1>1, <2>2, <3>2 DEF MarkProcessed, FilesByStep, Working, disk
    <3>3. CASE ~MarkProcessed
      BY <1>1, <1>3, <2>2, <3>1, <3>3
      DEF Process, Failure, Settle, Working, Statuses, store, Pick, Download,
          RecordArchive, MarkFetched, Choose, LoadKey, Stage, DecryptMembers,
          ClearOutput, RenameStaging, WriteManifest, RecordArtifacts, DownloadFails,
          ArchiveUnreadable, KeyUnavailable, Unexpected, Crash
    <3> QED
      BY <3>2, <3>3
  <2>3. CASE step \notin Working
    <3>1. Pick \/ Crash
      BY <1>3, <2>3
      DEF Process, Failure, Working, Pick, Download, RecordArchive, MarkFetched,
          Choose, LoadKey, Stage, DecryptMembers, ClearOutput, RenameStaging,
          WriteManifest, RecordArtifacts, MarkProcessed, DownloadFails,
          ArchiveUnreadable, KeyUnavailable, Unexpected
    <3> QED
      BY <1>1, <1>2, <3>1 DEF Pick, Crash, store, disk
  <2> QED
    BY <2>1, <2>2, <2>3
<1>4. CASE ExpireDecrypted
  BY <1>1, <1>2, <1>4 DEF ExpireDecrypted, RemoveDecrypted, store
<1>5. CASE ForgetDecrypted
  BY <1>1, <1>2, <1>5 DEF ForgetDecrypted, disk
<1>6. CASE ExpireArchive
  BY <1>1, <1>2, <1>6 DEF ExpireArchive, store
<1>7. CASE ForgetArchive
  BY <1>1, <1>2, <1>7 DEF ForgetArchive, disk
<1>8. CASE RemoveDirectory
  BY <1>1, <1>2, <1>8 DEF RemoveDirectory, store
<1>9. CASE ForgetDirectory \/ RowDone \/ EndRun \/ BeginRetention \/ NextRow
  BY <1>2, <1>9
  DEF ForgetDirectory, RowDone, EndRun, BeginRetention, NextRow, store, disk
<1>10. CASE Run
  BY <1>2, <1>10 DEF Run, StartRun, disk
<1>11. CASE NextDay \/ UNCHANGED vars
  BY <1>2, <1>11 DEF NextDay, vars, store, disk
<1> QED
  BY <1>3, <1>4, <1>5, <1>6, <1>7, <1>8, <1>9, <1>10, <1>11 DEF Next, Retention

LEMMA DeliveryInit == Init => DeliveryInv
<1> SUFFICES ASSUME Init PROVE DeliveryInv
  OBVIOUS
<1>1. Dated
  BY DEF Init, Dated
<1>2. FilesAreNamed
  BY DEF Init, FilesAreNamed
<1> QED
  BY <1>1, <1>2, InvInit DEF DeliveryInv

LEMMA DeliveryStep ==
    ASSUME DeliveryInv, [Next]_vars
    PROVE  DeliveryInv'
  BY TypeStep, WorkStep, FilesStep, FetchedStep, KeptStep, MissingStep, DatedStep,
     NamedStep
  DEF DeliveryInv, IInv

LEMMA DeliveryInvariance == Spec => []DeliveryInv
  BY DeliveryInit, DeliveryStep, PTL DEF Spec

----------------------------------------------------------------------------
\* The steps of Handover.

USE DEF Promise!Age

\* A step that settles nothing and takes no file that counts is no step there.
LEMMA Quiet ==
    ASSUME day' = day,
           \A r \in Reports :
               /\ status'[r] = "processed" <=> status[r] = "processed"
               /\ status'[r] = "failed" <=> status[r] = "failed"
               /\ status[r] = "processed" =>
                    /\ archive'[r] <=> archive[r]
                    /\ decrypted'[r] = "complete" <=> decrypted[r] = "complete"
                    /\ processedAt'[r] = processedAt[r]
    PROVE  UNCHANGED <<Phase, Kept, Since, day>>
  BY DEF Phase, Kept, Since

\* The report in hand fails: Reject.
LEMMA Rejected ==
    ASSUME TypeOK, WorkIsPending, step \in Working,
           status' = [status EXCEPT ![cur] = "failed"],
           UNCHANGED <<archive, decrypted, processedAt, day>>
    PROVE  Promise!Next
<1>1. cur \in Reports /\ status[cur] \notin {"processed", "failed"}
  BY InHand
<1>2. status \in [Reports -> Statuses]
  BY DEF TypeOK
<1>3. Phase[cur] = "pending" /\ Phase' = [Phase EXCEPT ![cur] = "rejected"]
  BY <1>1, <1>2 DEF Phase
<1>4. Kept' = Kept /\ Since' = Since
  BY <1>1, <1>2 DEF Kept, Since
<1> QED
  BY <1>1, <1>3, <1>4 DEF Promise!Next, Promise!Reject

\* The report in hand is processed: Deliver.
LEMMA Delivered ==
    ASSUME TypeOK, WorkIsPending, FilesByStep, Dated, MarkProcessed
    PROVE  Promise!Next
<1> USE DEF MarkProcessed, Settle, row, disk
<1>1. /\ cur \in Reports /\ status[cur] \notin {"processed", "failed"}
      /\ archive[cur] /\ decrypted[cur] = "complete" /\ processedAt[cur] # 0
  BY InHand DEF FilesByStep, Working
<1>2. /\ status \in [Reports -> Statuses] /\ status' = [status EXCEPT ![cur] = "processed"]
      /\ processedAt[cur] \in 1 .. day
  BY <1>1, LimitsAssumption DEF TypeOK, Dated
<1>3. Phase[cur] = "pending" /\ Phase' = [Phase EXCEPT ![cur] = "delivered"]
  BY <1>1, <1>2 DEF Phase
<1>4. Kept' = [Kept EXCEPT ![cur] = {"decrypted", "archive"}]
  BY <1>1, <1>2 DEF Kept
<1>5. Since' = [Since EXCEPT ![cur] = processedAt[cur]]
  BY <1>1, <1>2 DEF Since
<1> QED
  BY <1>1, <1>2, <1>3, <1>4, <1>5 DEF Promise!Next, Promise!Deliver

\* Retention takes the decrypted files of a processed report: Lapse.
LEMMA DecryptedLapse ==
    ASSUME TypeOK, ExpireDecrypted
    PROVE  Promise!Next \/ UNCHANGED <<Phase, Kept, Since, day>>
<1> USE DEF ExpireDecrypted, RemoveDecrypted, store, row
<1>1. /\ cur \in Reports
      /\ decrypted \in [Reports -> {"none", "partial", "complete"}]
      /\ decrypted'[cur] # "complete"
      /\ \A r \in Reports : r # cur => decrypted'[r] = decrypted[r]
      /\ UNCHANGED <<status, processedAt, archive, day>>
  BY DEF TypeOK
<1>2. CASE status[cur] = "processed" /\ decrypted[cur] = "complete"
  <2>1. /\ KeepDecrypted # 0
        /\ processedAt[cur] + KeepDecrypted <= day
    <3>1. stamp <= day /\ stamp \in Int /\ day \in Int /\ processedAt[cur] \in Nat
      BY <1>1, LimitsAssumption DEF TypeOK
    <3> QED
      BY <3>1, AgesAssumption DEF DecryptedDue, OlderThan
  <2>2. Phase' = Phase /\ Since' = Since /\ Since[cur] = processedAt[cur]
    BY <1>1, <1>2 DEF Phase, Since
  <2>3. "decrypted" \in Kept[cur] /\ Kept' = [Kept EXCEPT ![cur] = @ \ {"decrypted"}]
    <3>1. "decrypted" \in Kept[cur]
      BY <1>1, <1>2 DEF Kept
    <3>2. Kept'[cur] = Kept[cur] \ {"decrypted"}
      BY <1>1, <1>2 DEF Kept
    <3>3. \A r \in Reports : r # cur => Kept'[r] = Kept[r]
      BY <1>1 DEF Kept
    <3>4. /\ Kept = [r \in Reports |-> Kept[r]]
          /\ Kept' = [r \in Reports |-> Kept'[r]]
      BY DEF Kept
    <3> QED
      BY <1>1, <3>1, <3>2, <3>3, <3>4
  <2> QED
    BY <1>1, <2>1, <2>2, <2>3 DEF Promise!Next, Promise!Lapse
<1>3. CASE status[cur] # "processed" \/ decrypted[cur] # "complete"
  BY <1>1, <1>3, Quiet
<1> QED
  BY <1>2, <1>3

\* Retention takes the archive of a processed report: Lapse.
LEMMA ArchiveLapse ==
    ASSUME TypeOK, ExpireArchive
    PROVE  Promise!Next \/ UNCHANGED <<Phase, Kept, Since, day>>
<1> USE DEF ExpireArchive, store, row
<1>1. /\ cur \in Reports
      /\ archive[cur] /\ ~archive'[cur]
      /\ \A r \in Reports : r # cur => archive'[r] = archive[r]
      /\ UNCHANGED <<status, processedAt, decrypted, day>>
  BY DEF TypeOK
<1>2. CASE status[cur] = "processed"
  <2>1. /\ KeepArchive # 0
        /\ processedAt[cur] + KeepArchive <= day
    <3>1. stamp <= day /\ stamp \in Int /\ day \in Int /\ processedAt[cur] \in Nat
      BY <1>1, LimitsAssumption DEF TypeOK
    <3> QED
      BY <3>1, AgesAssumption DEF ArchiveDue, OlderThan
  <2>2. Phase' = Phase /\ Since' = Since /\ Since[cur] = processedAt[cur]
    BY <1>1, <1>2 DEF Phase, Since
  <2>3. "archive" \in Kept[cur] /\ Kept' = [Kept EXCEPT ![cur] = @ \ {"archive"}]
    BY <1>1, <1>2 DEF Kept
  <2> QED
    BY <1>1, <2>1, <2>2, <2>3 DEF Promise!Next, Promise!Lapse
<1>3. CASE status[cur] # "processed"
  BY <1>1, <1>3, Quiet
<1> QED
  BY <1>2, <1>3

\* process_report: a step settles the report in hand or nothing.
LEMMA ProcessImplements ==
    ASSUME DeliveryInv, Process \/ Failure
    PROVE  Promise!Next \/ UNCHANGED <<Phase, Kept, Since, day>>
<1> USE DEF row
<1>1. /\ TypeOK /\ WorkIsPending /\ FilesByStep /\ Dated
      /\ status \in [Reports -> Statuses]
      /\ cur \in Reports \cup {0}
      /\ day' = day
  BY DEF DeliveryInv, IInv, TypeOK, Process, Failure, Pick, Download, RecordArchive,
     MarkFetched, Choose, LoadKey, Stage, DecryptMembers, ClearOutput, RenameStaging,
     WriteManifest, RecordArtifacts, MarkProcessed, DownloadFails, ArchiveUnreadable,
     KeyUnavailable, Unexpected, Crash
<1>2. CASE MarkProcessed
  BY <1>1, <1>2, Delivered
<1>3. CASE step \in Working /\ status' = [status EXCEPT ![cur] = "failed"]
             /\ UNCHANGED <<archive, decrypted, processedAt>>
  BY <1>1, <1>3, Rejected
<1>4. CASE Pick
  <2>1. UNCHANGED <<archive, decrypted, processedAt>>
    BY <1>4 DEF Pick, disk
  <2>2. \A r \in Reports :
          \/ status'[r] = status[r]
          \/ status'[r] = "fetching" /\ status[r] \in Pending
    <3>1. \A r \in todo : status[r] \in Pending
      BY <1>1, <1>4 DEF WorkIsPending, Pick
    <3> QED
      BY <1>1, <1>4, <3>1 DEF Pick
  <2> QED
    BY <1>1, <2>1, <2>2, Quiet DEF Pending
<1>5. CASE Crash
  BY <1>1, <1>5, Quiet DEF Crash, store, disk
<1>6. CASE /\ step \in Working
           /\ status' = status \/ \E s \in Pending : status' = [status EXCEPT ![cur] = s]
           /\ \A r \in Reports : r # cur =>
                archive'[r] = archive[r] /\ decrypted'[r] = decrypted[r]
                  /\ processedAt'[r] = processedAt[r]
  <2>1. cur \in Reports /\ status[cur] \notin {"processed", "failed"}
    BY <1>1, <1>6, InHand
  <2>2. status'[cur] \notin {"processed", "failed"}
    BY <1>1, <1>6, <2>1 DEF Pending
  <2>3. \A r \in Reports : r # cur => status'[r] = status[r]
    BY <1>1, <1>6, <2>1
  <2> QED
    BY <1>1, <1>6, <2>1, <2>2, <2>3, Quiet
<1>7. CASE Process /\ ~Pick /\ ~MarkProcessed
  <2>1. step \in Working
    BY <1>7 DEF Process, Working, Download, RecordArchive, MarkFetched, Choose,
       LoadKey, Stage, DecryptMembers, ClearOutput, RenameStaging, WriteManifest,
       RecordArtifacts
  <2>2. \A r \in Reports : r # cur =>
          archive'[r] = archive[r] /\ decrypted'[r] = decrypted[r]
            /\ processedAt'[r] = processedAt[r]
    BY <1>1, <1>7, OthersUntouched
  <2>3. CASE (Download \/ Choose \/ DecryptMembers) /\ status' = [status EXCEPT ![cur] = "failed"]
    <3>1. \/ archive' = archive
          \/ UNCHANGED status
      BY <2>3 DEF Download, Choose, DecryptMembers, disk
    <3>2. status[cur] # "failed" /\ cur \in Reports
      BY <1>1, <2>1, InHand
    <3>3. UNCHANGED <<archive, decrypted, processedAt>>
      BY <1>1, <2>3, <3>1, <3>2 DEF Download, Choose, DecryptMembers, disk
    <3> QED
      BY <1>3, <2>1, <2>3, <3>3
  <2>4. \/ (Download \/ Choose \/ DecryptMembers) /\ status' = [status EXCEPT ![cur] = "failed"]
        \/ status' = status \/ \E s \in Pending : status' = [status EXCEPT ![cur] = s]
    BY <1>7 DEF Process, Settle, Pending, store, Download, RecordArchive, MarkFetched,
       Choose, LoadKey, Stage, DecryptMembers, ClearOutput, RenameStaging,
       WriteManifest, RecordArtifacts
  <2> QED
    BY <1>6, <2>1, <2>2, <2>3, <2>4
<1>8. CASE DownloadFails \/ KeyUnavailable \/ Unexpected
  <2>1. /\ step \in Working
        /\ \E s \in Pending : status' = [status EXCEPT ![cur] = s]
        /\ UNCHANGED <<archive, decrypted, processedAt>>
    BY <1>8 DEF DownloadFails, KeyUnavailable, Unexpected, Settle, Working, Pending, disk
  <2> QED
    BY <1>6, <2>1
<1>9. CASE ArchiveUnreadable
  BY <1>3, <1>9 DEF ArchiveUnreadable, Settle, Working
<1> QED
  BY <1>2, <1>4, <1>5, <1>7, <1>8, <1>9 DEF Failure

\* apply_retention: a step takes one part of one delivered report, or nothing.
LEMMA RetentionImplements ==
    ASSUME DeliveryInv, Retention
    PROVE  Promise!Next \/ UNCHANGED <<Phase, Kept, Since, day>>
<1> USE DEF row
<1>1. TypeOK /\ KeptUntilExpiry /\ FilesAreNamed
  BY DEF DeliveryInv, IInv
<1>2. CASE ExpireDecrypted
  BY <1>1, <1>2, DecryptedLapse
<1>3. CASE ExpireArchive
  BY <1>1, <1>3, ArchiveLapse
<1>4. CASE RemoveDirectory
  <2>1. /\ cur \in Reports /\ ~decryptedDir[cur] /\ ~archivePath[cur]
        /\ UNCHANGED <<status, processedAt, day>>
        /\ ~archive'[cur] /\ decrypted'[cur] # "complete"
        /\ \A r \in Reports : r # cur =>
              archive'[r] = archive[r] /\ decrypted'[r] = decrypted[r]
    BY <1>1, <1>4 DEF RemoveDirectory, DirectoryDue, TypeOK, store
  <2>2. status[cur] = "processed" => ~archive[cur] /\ decrypted[cur] # "complete"
    BY <1>1, <2>1 DEF FilesAreNamed
  <2> QED
    BY <2>1, <2>2, Quiet
<1>5. CASE \/ BeginRetention \/ NextRow \/ ForgetDecrypted \/ ForgetArchive
           \/ ForgetDirectory \/ RowDone \/ EndRun
  BY <1>5, Quiet
  DEF BeginRetention, NextRow, ForgetDecrypted, ForgetArchive, ForgetDirectory,
      RowDone, EndRun, store, disk
<1> QED
  BY <1>2, <1>3, <1>4, <1>5 DEF Retention

LEMMA StepImplements ==
    ASSUME DeliveryInv, [Next]_vars
    PROVE  [Promise!Next]_<<Phase, Kept, Since, day>>
<1>1. CASE Process \/ Failure
  BY <1>1, ProcessImplements
<1>2. CASE Retention
  BY <1>2, RetentionImplements
<1>3. CASE Run
  <2>1. PICK config \in Configs, collected \in SUBSET Reports : StartRun(config, collected)
    BY <1>3 DEF Run
  <2> QED
    BY <2>1, Quiet DEF StartRun, disk, row
<1>4. CASE NextDay
  BY <1>4 DEF NextDay, store, row, disk, Phase, Kept, Since, Promise!Next, Promise!NextDay
<1>5. CASE UNCHANGED vars
  BY <1>5, Quiet DEF vars, store, row, disk
<1> QED
  BY <1>1, <1>2, <1>3, <1>4, <1>5 DEF Next

LEMMA InitImplements == Init => Promise!Init
  BY DEF Init, Promise!Init, Phase, Kept, Since

\* The connector implements Handover: every report is delivered whole and once, or
\* rejected for good, and what was delivered goes only when its age has come.
THEOREM ConnectorHandsOver == Spec => HandsOver
  BY InitImplements, StepImplements, DeliveryInvariance, PTL
  DEF Spec, HandsOver, Promise!Spec
=============================================================================
