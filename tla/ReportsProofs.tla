--------------------------- MODULE ReportsProofs ---------------------------
(***************************************************************************)
(* The invariants of Reports for every number of reports, set of keys,     *)
(* ages and number of faults.                                              *)
(***************************************************************************)
EXTENDS Reports, TLAPS

LEMMA TypeInit == Init => TypeOK
  BY LimitsAssumption
  DEF Init, TypeOK, Statuses, Steps, Working

LEMMA TypeStep ==
    ASSUME TypeOK, [Next]_vars
    PROVE  TypeOK'
<1> USE DEF TypeOK, Statuses, Pending, Steps, Working, row
<1>1. CASE NextDay
  BY <1>1, LimitsAssumption DEF NextDay, store, disk, process
<1>2. ASSUME NEW config \in Configs, NEW collected \in SUBSET Reports,
             StartRun(config, collected)
      PROVE  TypeOK'
  <2>1. /\ status' \in [Reports -> Statuses]
        /\ todo' \in SUBSET Reports
    BY <1>2 DEF StartRun
  <2>2. /\ addresses' \in Seq(Keys)
        /\ loaded' \in SUBSET Keys
    BY <1>2, ReportsAssumption DEF StartRun
  <2>3. /\ step' = "next"
        /\ UNCHANGED <<row, disk, cur, stamp, day, faults>>
    BY <1>2 DEF StartRun
  <2> QED
    BY <2>1, <2>2, <2>3 DEF disk
<1>3. CASE Pick
  BY <1>3 DEF Pick, disk
<1>4. CASE Download
  BY <1>4 DEF Download, Settle
<1>5. CASE RecordArchive
  BY <1>5 DEF RecordArchive, disk
<1>6. CASE MarkFetched
  BY <1>6 DEF MarkFetched, disk
<1>7. CASE Choose
  BY <1>7 DEF Choose, Settle, disk
<1>8. CASE LoadKey
  BY <1>8 DEF LoadKey, disk
<1>9. CASE Stage
  BY <1>9 DEF Stage, store
<1>10. CASE DecryptMembers
  BY <1>10 DEF DecryptMembers, Settle
<1>11. CASE ClearOutput
  BY <1>11 DEF ClearOutput, RemoveDecrypted, store, process
<1>12. CASE RenameStaging
  BY <1>12 DEF RenameStaging, store
<1>13. CASE WriteManifest
  BY <1>13 DEF WriteManifest, store
<1>14. CASE RecordArtifacts
  BY <1>14 DEF RecordArtifacts, disk
<1>15. CASE MarkProcessed
  BY <1>15 DEF MarkProcessed, Settle, disk
<1>16. CASE BeginRetention
  BY <1>16 DEF BeginRetention, store, disk
<1>17. CASE NextRow
  BY <1>17 DEF NextRow, store, disk
<1>18. CASE ExpireDecrypted
  BY <1>18 DEF ExpireDecrypted, RemoveDecrypted, store, process
<1>19. CASE ForgetDecrypted \/ ForgetArchive \/ ForgetDirectory
  BY <1>19 DEF ForgetDecrypted, ForgetArchive, ForgetDirectory, disk, process
<1>20. CASE ExpireArchive \/ RemoveDirectory
  BY <1>20 DEF ExpireArchive, RemoveDirectory, store, process
<1>21. CASE RowDone
  BY <1>21 DEF RowDone, store, disk
<1>22. CASE EndRun
  BY <1>22 DEF EndRun, Over, store, disk
<1>23. CASE DownloadFails \/ KeyUnavailable
  <2>1. /\ status' \in [Reports -> Statuses]
        /\ step' = "next"
        /\ UNCHANGED <<row, disk, cur, todo, addresses, loaded, stamp, day>>
    BY <1>23 DEF DownloadFails, KeyUnavailable, Settle
  <2>2. faults' \in 0 .. MaxFaults
    BY <1>23, LimitsAssumption DEF DownloadFails, KeyUnavailable, Fault
  <2> QED
    BY <2>1, <2>2 DEF disk
<1>24. CASE ArchiveUnreadable \/ Unexpected
  <2>1. /\ status' \in [Reports -> Statuses]
        /\ step' = "next"
        /\ UNCHANGED <<row, archive, decrypted, manifest, cur, todo, addresses,
                       loaded, stamp, day>>
    BY <1>24 DEF ArchiveUnreadable, Unexpected, Settle
  <2>2. faults' \in 0 .. MaxFaults
    BY <1>24, LimitsAssumption DEF ArchiveUnreadable, Unexpected, Fault
  <2>3. staging' \in [Reports -> BOOLEAN]
    BY <1>24 DEF ArchiveUnreadable, Unexpected
  <2> QED
    BY <2>1, <2>2, <2>3
<1>25. CASE Crash
  BY <1>25, LimitsAssumption DEF Crash, Over, Fault, store, disk
<1>26. CASE UNCHANGED vars
  BY <1>26 DEF vars, store, disk, process
<1> QED
  BY <1>1, <1>2, <1>3, <1>4, <1>5, <1>6, <1>7, <1>8, <1>9, <1>10, <1>11, <1>12,
     <1>13, <1>14, <1>15, <1>16, <1>17, <1>18, <1>19, <1>20, <1>21, <1>22, <1>23,
     <1>24, <1>25, <1>26
  DEF Next, Run, Process, Retention, Failure

----------------------------------------------------------------------------

LEMMA WorkStep ==
    ASSUME TypeOK, WorkIsPending, [Next]_vars
    PROVE  WorkIsPending'
<1> USE DEF Working, Pending
<1>1. status \in [Reports -> Statuses]
      /\ (step \in Working => cur \in Reports)
      /\ todo \in SUBSET Reports
  BY DEF TypeOK
<1>2. CASE UNCHANGED <<status, step, cur, todo>>
  BY <1>2 DEF WorkIsPending
<1>3. CASE /\ UNCHANGED <<status, cur, todo>>
           /\ step \in Working /\ step' \in Working
  BY <1>3 DEF WorkIsPending
<1>4. CASE /\ step \in Working /\ step' \in Working \cup {"next"}
           /\ UNCHANGED <<cur, todo>>
           /\ \E outcome \in Statuses :
                /\ status' = [status EXCEPT ![cur] = outcome]
                /\ step' \in Working => outcome \in Pending
  BY <1>1, <1>4 DEF WorkIsPending
<1>5. CASE step' \in {"idle", "retain", "expire"}
  BY <1>5 DEF WorkIsPending
<1>6. CASE Pick
  <2>1. PICK r \in todo :
          /\ cur' = r
          /\ todo' = todo \ {r}
          /\ \/ status' = [status EXCEPT ![r] = "fetching"] /\ step' = "fetch"
             \/ status' = status /\ step' = "choose"
    BY <1>6 DEF Pick
  <2>2. step = "next"
    BY <1>6 DEF Pick
  <2> QED
    BY <1>1, <2>1, <2>2 DEF WorkIsPending
<1>7. ASSUME NEW config \in Configs, NEW collected \in SUBSET Reports,
             StartRun(config, collected)
      PROVE  WorkIsPending'
  BY <1>7 DEF StartRun, WorkIsPending
<1> QED
  <2>1. ASSUME NextDay \/ ClearOutput \/ ExpireDecrypted \/ ForgetDecrypted
               \/ ExpireArchive \/ ForgetArchive \/ RemoveDirectory
               \/ ForgetDirectory \/ UNCHANGED vars
        PROVE  UNCHANGED <<status, step, cur, todo>>
    BY <2>1 DEF NextDay, ClearOutput, ExpireDecrypted, ForgetDecrypted,
       ExpireArchive, ForgetArchive, RemoveDirectory, ForgetDirectory, vars, store,
       process
  <2>2. ASSUME RecordArchive \/ Stage \/ RenameStaging \/ WriteManifest
               \/ RecordArtifacts
        PROVE  /\ UNCHANGED <<status, cur, todo>>
               /\ step \in Working /\ step' \in Working
    BY <2>2 DEF RecordArchive, Stage, RenameStaging, WriteManifest,
       RecordArtifacts, store
  <2>3. ASSUME MarkFetched \/ LoadKey \/ MarkProcessed \/ DownloadFails
               \/ ArchiveUnreadable \/ KeyUnavailable \/ Unexpected
        PROVE  /\ step \in Working /\ step' \in Working \cup {"next"}
               /\ UNCHANGED <<cur, todo>>
               /\ \E outcome \in Statuses :
                    /\ status' = [status EXCEPT ![cur] = outcome]
                    /\ step' \in Working => outcome \in Pending
    BY <2>3 DEF MarkFetched, LoadKey, MarkProcessed, DownloadFails,
       ArchiveUnreadable, KeyUnavailable, Unexpected, Settle, Statuses
  <2>4. ASSUME Download \/ Choose \/ DecryptMembers
        PROVE  \/ /\ UNCHANGED <<status, cur, todo>>
                  /\ step \in Working /\ step' \in Working
               \/ /\ step \in Working /\ step' \in Working \cup {"next"}
                  /\ UNCHANGED <<cur, todo>>
                  /\ \E outcome \in Statuses :
                       /\ status' = [status EXCEPT ![cur] = outcome]
                       /\ step' \in Working => outcome \in Pending
    BY <2>4 DEF Download, Choose, DecryptMembers, Settle, Statuses
  <2>5. ASSUME BeginRetention \/ NextRow \/ RowDone \/ EndRun \/ Crash
        PROVE  step' \in {"idle", "retain", "expire"}
    BY <2>5 DEF BeginRetention, NextRow, RowDone, EndRun, Crash, Over
  <2> QED
    BY <1>2, <1>3, <1>4, <1>5, <1>6, <1>7, <2>1, <2>2, <2>3, <2>4, <2>5
    DEF Next, Run, Process, Retention, Failure

LEMMA FilesStep ==
    ASSUME TypeOK, FetchedHasRow, WorkIsPending, FilesByStep, [Next]_vars
    PROVE  FilesByStep'
<1> USE DEF FilesByStep, Working, row
<1>1. /\ step \in Working => cur \in Reports
      /\ status \in [Reports -> Statuses]
      /\ archive \in [Reports -> BOOLEAN]
      /\ decrypted \in [Reports -> {"none", "partial", "complete"}]
      /\ manifest \in [Reports -> BOOLEAN]
      /\ archivePath \in [Reports -> BOOLEAN]
      /\ decryptedDir \in [Reports -> BOOLEAN]
      /\ metaPath \in [Reports -> BOOLEAN]
      /\ processedAt \in [Reports -> Nat]
  BY DEF TypeOK
<1>2. CASE UNCHANGED <<step, cur, stamp, status, archive, decrypted, manifest, row>>
  BY <1>2
<1>3. CASE step' \notin Working
  BY <1>3
<1>4. CASE Pick
  <2>1. PICK r \in todo :
          /\ cur' = r
          /\ \/ step' = "fetch" /\ status' = [status EXCEPT ![r] = "fetching"]
             \/ step' = "choose" /\ status[r] \notin {"new", "fetching"} /\ archive[r]
    BY <1>4 DEF Pick
  <2>2. status[r] \in Pending /\ r \in Reports
    BY <1>4, <2>1 DEF Pick, WorkIsPending, TypeOK
  <2>3. UNCHANGED <<archive, archivePath>>
    BY <1>4 DEF Pick, disk
  <2>4. step' = "choose" => archivePath[r]
    BY <2>1, <2>2 DEF FetchedHasRow, Pending
  <2> QED
    BY <1>1, <2>1, <2>2, <2>3, <2>4
<1>5. CASE Download
  BY <1>1, <1>5 DEF Download, Settle
<1>6. CASE RecordArchive
  BY <1>1, <1>6 DEF RecordArchive, disk
<1>7. CASE MarkFetched
  BY <1>1, <1>7 DEF MarkFetched, disk
<1>8. CASE Choose
  BY <1>1, <1>8 DEF Choose, Settle, disk
<1>9. CASE LoadKey
  BY <1>1, <1>9 DEF LoadKey, disk
<1>10. CASE Stage
  BY <1>1, <1>10 DEF Stage, store
<1>11. CASE DecryptMembers
  BY <1>1, <1>11 DEF DecryptMembers, Settle
<1>12. CASE ClearOutput
  BY <1>1, <1>12 DEF ClearOutput, RemoveDecrypted, store, process
<1>13. CASE RenameStaging
  BY <1>1, <1>13 DEF RenameStaging, store
<1>14. CASE WriteManifest
  BY <1>1, <1>14 DEF WriteManifest, store, TypeOK
<1>15. CASE RecordArtifacts
  BY <1>1, <1>15 DEF RecordArtifacts, disk
<1> QED
  <2>1. ASSUME NextDay \/ UNCHANGED vars
        PROVE  UNCHANGED <<step, cur, stamp, status, archive, decrypted, manifest,
                           row>>
    BY <2>1 DEF NextDay, vars, store, disk, process
  <2>2. ASSUME \/ \E config \in Configs, collected \in SUBSET Reports :
                    StartRun(config, collected)
               \/ MarkProcessed \/ Retention \/ Failure
        PROVE  step' \notin Working
    BY <2>2 DEF StartRun, MarkProcessed, Settle, Retention, BeginRetention, NextRow,
       ExpireDecrypted, ForgetDecrypted, ExpireArchive, ForgetArchive,
       RemoveDirectory, ForgetDirectory, RowDone, EndRun, Over, Failure,
       DownloadFails, ArchiveUnreadable, KeyUnavailable, Unexpected, Crash, process
  <2> QED
    BY <1>2, <1>3, <1>4, <1>5, <1>6, <1>7, <1>8, <1>9, <1>10, <1>11, <1>12, <1>13,
       <1>14, <1>15, <2>1, <2>2
    DEF Next, Run, Process

LEMMA FetchedStep ==
    ASSUME TypeOK, WorkIsPending, FilesByStep, FetchedHasRow, [Next]_vars
    PROVE  FetchedHasRow'
<1> USE DEF FetchedHasRow, row
<1>1. /\ status \in [Reports -> Statuses]
      /\ archive \in [Reports -> BOOLEAN]
      /\ archivePath \in [Reports -> BOOLEAN]
      /\ step \in Working \cup {"expire"} => cur \in Reports
  BY DEF TypeOK
<1>2. CASE UNCHANGED <<archive, archivePath>>
           /\ \A r \in Reports :
                status'[r] \in {"fetched", "decrypting"} =>
                    status[r] \in {"fetched", "decrypting"} \/ archivePath[r]
  BY <1>2
<1>3. CASE Download
  BY <1>1, <1>3 DEF Download, Settle, FilesByStep, Working
<1>4. CASE RecordArchive
  BY <1>1, <1>4 DEF RecordArchive, disk
<1>5. CASE MarkFetched \/ LoadKey \/ KeyUnavailable
  <2>1. archivePath[cur] /\ cur \in Reports
    BY <1>1, <1>5 DEF MarkFetched, LoadKey, KeyUnavailable, FilesByStep, Working
  <2>2. UNCHANGED <<archive, archivePath>>
    BY <1>5 DEF MarkFetched, LoadKey, KeyUnavailable, disk
  <2>3. \E outcome \in Statuses : status' = [status EXCEPT ![cur] = outcome]
    BY <1>5 DEF MarkFetched, LoadKey, KeyUnavailable, Settle, Statuses, Pending
  <2> QED
    BY <1>1, <2>1, <2>2, <2>3
<1>6. CASE ExpireArchive \/ RemoveDirectory
  BY <1>1, <1>6 DEF ExpireArchive, RemoveDirectory, store
<1>7. CASE ForgetArchive
  BY <1>1, <1>7 DEF ForgetArchive, disk
<1>8. CASE Pick
  <2>1. UNCHANGED <<archive, archivePath>>
    BY <1>8 DEF Pick, disk
  <2>2. \A r \in Reports : status'[r] \in {"fetched", "decrypting"} =>
                             status[r] \in {"fetched", "decrypting"}
    BY <1>1, <1>8 DEF Pick, TypeOK
  <2> QED
    BY <1>2, <2>1, <2>2
<1> QED
  <2>1. ASSUME \/ NextDay \/ UNCHANGED vars
               \/ Stage \/ ClearOutput \/ RenameStaging \/ WriteManifest
               \/ RecordArtifacts \/ BeginRetention \/ NextRow \/ ExpireDecrypted
               \/ ForgetDecrypted \/ ForgetDirectory \/ RowDone \/ EndRun \/ Crash
        PROVE  UNCHANGED <<status, archive, archivePath>>
    BY <2>1 DEF NextDay, vars, Stage, ClearOutput, RenameStaging, WriteManifest,
       RecordArtifacts, BeginRetention, NextRow, ExpireDecrypted, ForgetDecrypted,
       ForgetDirectory, RowDone, EndRun, Crash, store, disk
  <2>2. ASSUME \/ Choose \/ DecryptMembers \/ MarkProcessed
               \/ DownloadFails \/ ArchiveUnreadable \/ Unexpected
        PROVE  /\ UNCHANGED <<archive, archivePath>>
               /\ \/ UNCHANGED status
                  \/ \E outcome \in {"new", "failed", "processed"} :
                        status' = [status EXCEPT ![cur] = outcome]
    BY <2>2 DEF Choose, DecryptMembers, MarkProcessed, DownloadFails,
       ArchiveUnreadable, Unexpected, Settle, disk
  <2>3. ASSUME NEW config \in Configs, NEW collected \in SUBSET Reports,
               StartRun(config, collected)
        PROVE  FetchedHasRow'
    BY <1>2, <2>3 DEF StartRun, disk
  <2>4. ASSUME UNCHANGED <<archive, archivePath>>,
               \E outcome \in {"new", "failed", "processed"} :
                   status' = [status EXCEPT ![cur] = outcome]
        PROVE  FetchedHasRow'
    BY <1>1, <2>4
  <2> QED
    BY <1>2, <1>3, <1>4, <1>5, <1>6, <1>7, <1>8, <2>1, <2>2, <2>3, <2>4
    DEF Next, Run, Process, Retention, Failure

----------------------------------------------------------------------------

\* A report once expired stays so, and what retention finds due has expired.
LEMMA DueIsExpired ==
    ASSUME TypeOK, NEW r \in Reports
    PROVE  /\ DecryptedDue(r) => Expired(r, KeepDecrypted)
           /\ ArchiveDue(r) => Expired(r, KeepArchive)
<1>1. stamp \in Nat /\ day \in Nat /\ stamp <= day /\ processedAt[r] \in Nat
  BY LimitsAssumption DEF TypeOK
<1> QED
  BY <1>1, AgesAssumption DEF DecryptedDue, ArchiveDue, OlderThan, Expired

LEMMA DirectoryIsExpired ==
    ASSUME KeptUntilExpiry, NEW r \in Reports, status[r] = "processed",
           DirectoryDue(r)
    PROVE  Expired(r, KeepDecrypted) /\ Expired(r, KeepArchive)
  BY DEF KeptUntilExpiry, DirectoryDue

LEMMA ExpiredStays ==
    ASSUME TypeOK, NEW r \in Reports, NEW days \in Nat, Expired(r, days),
           processedAt'[r] = processedAt[r], day' \in {day, day + 1}
    PROVE  Expired(r, days)'
<1>1. day \in Nat /\ processedAt[r] \in Nat
  BY LimitsAssumption DEF TypeOK
<1> QED
  BY <1>1 DEF Expired

LEMMA DayStep ==
    ASSUME [Next]_vars
    PROVE  day' \in {day, day + 1}
  BY DEF Next, Run, Process, Retention, Failure, vars, NextDay, StartRun, Pick,
     Download, RecordArchive, MarkFetched, Choose, LoadKey, Stage, DecryptMembers,
     ClearOutput, RenameStaging, WriteManifest, RecordArtifacts, MarkProcessed,
     DownloadFails, ArchiveUnreadable, KeyUnavailable, Unexpected, Crash,
     BeginRetention, NextRow, ExpireDecrypted, ForgetDecrypted, ExpireArchive,
     ForgetArchive, RemoveDirectory, ForgetDirectory, RowDone, EndRun

\* A working step leaves the rows and files of the other reports alone.
LEMMA OthersUntouched ==
    ASSUME TypeOK, NEW r \in Reports, r # cur, Process \/ Failure
    PROVE  /\ archive'[r] = archive[r] /\ decrypted'[r] = decrypted[r]
           /\ manifest'[r] = manifest[r] /\ archivePath'[r] = archivePath[r]
           /\ decryptedDir'[r] = decryptedDir[r] /\ metaPath'[r] = metaPath[r]
           /\ processedAt'[r] = processedAt[r]
           /\ status'[r] # "processed" \/ status[r] = "processed"
<1> USE DEF row, disk, store
<1>1. /\ status \in [Reports -> Statuses]
      /\ archive \in [Reports -> BOOLEAN]
      /\ decrypted \in [Reports -> {"none", "partial", "complete"}]
      /\ manifest \in [Reports -> BOOLEAN]
      /\ archivePath \in [Reports -> BOOLEAN]
      /\ decryptedDir \in [Reports -> BOOLEAN]
      /\ metaPath \in [Reports -> BOOLEAN]
      /\ processedAt \in [Reports -> Nat]
  BY DEF TypeOK
<1>2. CASE Pick
  BY <1>1, <1>2 DEF Pick, TypeOK
<1>3. CASE Failure
  BY <1>1, <1>3 DEF Failure, DownloadFails, ArchiveUnreadable, KeyUnavailable,
     Unexpected, Crash, Settle
<1>4. CASE Download \/ RecordArchive \/ MarkFetched \/ Choose \/ LoadKey \/ Stage
  BY <1>1, <1>4 DEF Download, RecordArchive, MarkFetched, Choose, LoadKey, Stage,
     Settle
<1>5. CASE DecryptMembers \/ ClearOutput \/ RenameStaging \/ WriteManifest
  BY <1>1, <1>5 DEF DecryptMembers, ClearOutput, RemoveDecrypted, RenameStaging,
     WriteManifest, Settle
<1>6. CASE RecordArtifacts \/ MarkProcessed
  BY <1>1, <1>6 DEF RecordArtifacts, MarkProcessed, Settle
<1> QED
  BY <1>2, <1>3, <1>4, <1>5, <1>6 DEF Process

LEMMA KeptStep ==
    ASSUME TypeOK, WorkIsPending, FilesByStep, KeptUntilExpiry, [Next]_vars
    PROVE  KeptUntilExpiry'
<1> SUFFICES ASSUME NEW r \in Reports, status'[r] = "processed"
             PROVE  /\ processedAt'[r] # 0
                    /\ ~Expired(r, KeepDecrypted)' =>
                         decrypted'[r] = "complete" /\ manifest'[r]
                         /\ decryptedDir'[r] /\ metaPath'[r]
                    /\ ~Expired(r, KeepArchive)' =>
                         archive'[r] /\ manifest'[r] /\ archivePath'[r]
                         /\ metaPath'[r]
  BY DEF KeptUntilExpiry
<1>1. day' \in {day, day + 1} /\ KeepDecrypted \in Nat /\ KeepArchive \in Nat
  BY DayStep, AgesAssumption
<1>2. CASE /\ status[r] = "processed"
           /\ archive'[r] = archive[r] /\ decrypted'[r] = decrypted[r]
           /\ manifest'[r] = manifest[r] /\ archivePath'[r] = archivePath[r]
           /\ decryptedDir'[r] = decryptedDir[r] /\ metaPath'[r] = metaPath[r]
           /\ processedAt'[r] = processedAt[r]
  BY <1>1, <1>2, ExpiredStays DEF KeptUntilExpiry
<1>3. CASE r = cur /\ step \in Working /\ (Process \/ Failure)
  <2>1. status[r] # "processed" /\ status[r] \in Statuses
    BY <1>3 DEF WorkIsPending, Pending, TypeOK
  <2>2. MarkProcessed
    <3>1. CASE Pick
      BY <1>3, <3>1 DEF Pick, Working
    <3>2. CASE Failure
      BY <1>3, <2>1, <3>2 DEF Failure, DownloadFails, ArchiveUnreadable,
         KeyUnavailable, Unexpected, Crash, Settle, store, TypeOK
    <3>3. CASE \/ Download \/ RecordArchive \/ MarkFetched \/ Choose \/ LoadKey
               \/ Stage \/ DecryptMembers \/ ClearOutput \/ RenameStaging
               \/ WriteManifest \/ RecordArtifacts
      BY <1>3, <2>1, <3>3 DEF Download, RecordArchive, MarkFetched, Choose,
         LoadKey, Stage, DecryptMembers, ClearOutput, RenameStaging, WriteManifest,
         RecordArtifacts, Settle, store, TypeOK
    <3> QED
      BY <1>3, <3>1, <3>2, <3>3 DEF Process
  <2>3. /\ archive[r] /\ archivePath[r] /\ decrypted[r] = "complete" /\ manifest[r]
        /\ decryptedDir[r] /\ metaPath[r] /\ processedAt[r] # 0
    BY <1>3, <2>2 DEF MarkProcessed, FilesByStep, Working
  <2> QED
    BY <2>2, <2>3 DEF MarkProcessed, row, disk
<1>4. CASE r = cur /\ step = "expire" /\ Retention
  <2>1. status[r] = "processed" /\ processedAt' = processedAt
    BY <1>4 DEF Retention, BeginRetention, NextRow, ExpireDecrypted,
       ForgetDecrypted, ExpireArchive, ForgetArchive, RemoveDirectory,
       ForgetDirectory, RowDone, EndRun, store, row
  <2>2. CASE ExpireDecrypted \/ ForgetDecrypted
    <3>1. Expired(r, KeepDecrypted)'
      BY <1>1, <1>4, <2>1, <2>2, DueIsExpired, ExpiredStays
      DEF ExpireDecrypted, ForgetDecrypted
    <3>2. /\ UNCHANGED <<archive, manifest, archivePath, metaPath>>
      BY <2>2 DEF ExpireDecrypted, ForgetDecrypted, store, row, disk
    <3> QED
      BY <1>1, <2>1, <3>1, <3>2, ExpiredStays DEF KeptUntilExpiry
  <2>3. CASE ExpireArchive \/ ForgetArchive
    <3>1. Expired(r, KeepArchive)'
      BY <1>1, <1>4, <2>1, <2>3, DueIsExpired, ExpiredStays
      DEF ExpireArchive, ForgetArchive
    <3>2. UNCHANGED <<decrypted, manifest, decryptedDir, metaPath>>
      BY <2>3 DEF ExpireArchive, ForgetArchive, store, row, disk
    <3> QED
      BY <1>1, <2>1, <3>1, <3>2, ExpiredStays DEF KeptUntilExpiry
  <2>4. CASE RemoveDirectory \/ ForgetDirectory
    <3>1. Expired(r, KeepDecrypted)' /\ Expired(r, KeepArchive)'
      BY <1>1, <1>4, <2>1, <2>4, DirectoryIsExpired, ExpiredStays
      DEF RemoveDirectory, ForgetDirectory
    <3> QED
      BY <2>1, <3>1 DEF KeptUntilExpiry
  <2>5. CASE BeginRetention \/ NextRow \/ RowDone \/ EndRun
    BY <1>2, <2>1, <2>5 DEF BeginRetention, NextRow, RowDone, EndRun, store, row,
       disk
  <2> QED
    BY <1>4, <2>2, <2>3, <2>4, <2>5 DEF Retention
<1>5. CASE r # cur /\ (Process \/ Failure)
  BY <1>2, <1>5, OthersUntouched
<1>6. CASE Retention /\ (r # cur \/ step # "expire")
  <2>1. cur \in Reports \/ step # "expire"
    BY DEF TypeOK
  <2>2. status' = status /\ processedAt' = processedAt
    BY <1>6 DEF Retention, BeginRetention, NextRow, ExpireDecrypted,
       ForgetDecrypted, ExpireArchive, ForgetArchive, RemoveDirectory,
       ForgetDirectory, RowDone, EndRun, store, row
  <2>3. CASE BeginRetention \/ NextRow \/ RowDone \/ EndRun
    BY <1>2, <2>2, <2>3 DEF BeginRetention, NextRow, RowDone, EndRun, store, row,
       disk
  <2>4. CASE ExpireDecrypted \/ ForgetDecrypted \/ ExpireArchive \/ ForgetArchive
    <3>1. r # cur
      BY <1>6, <2>4 DEF ExpireDecrypted, ForgetDecrypted, ExpireArchive,
         ForgetArchive
    <3> QED
      BY <1>2, <2>2, <2>4, <3>1 DEF ExpireDecrypted, ForgetDecrypted,
         ExpireArchive, ForgetArchive, RemoveDecrypted, store, row, disk, TypeOK
  <2>5. CASE RemoveDirectory \/ ForgetDirectory
    <3>1. r # cur
      BY <1>6, <2>5 DEF RemoveDirectory, ForgetDirectory
    <3> QED
      BY <1>2, <2>2, <2>5, <3>1 DEF RemoveDirectory, ForgetDirectory, store, row,
         disk, TypeOK
  <2> QED
    BY <1>6, <2>3, <2>4, <2>5 DEF Retention
<1>7. CASE Run \/ NextDay \/ UNCHANGED vars
  BY <1>2, <1>7 DEF Run, StartRun, NextDay, vars, store, row, disk, TypeOK
<1>8. CASE r = cur /\ step \notin Working /\ (Process \/ Failure)
  <2>1. CASE Pick
    <3>1. PICK q \in todo : status' = status \/ status' = [status EXCEPT ![q] = "fetching"]
      BY <2>1 DEF Pick
    <3> QED
      BY <1>2, <2>1, <3>1 DEF Pick, row, disk, TypeOK
  <2>2. CASE Crash
    BY <1>2, <2>2 DEF Crash, store, row, disk
  <2> QED
    BY <1>8, <2>1, <2>2 DEF Process, Failure, Download, RecordArchive, MarkFetched,
       Choose, LoadKey, Stage, DecryptMembers, ClearOutput, RenameStaging,
       WriteManifest, RecordArtifacts, MarkProcessed, DownloadFails,
       ArchiveUnreadable, KeyUnavailable, Unexpected, Working
<1> QED
  BY <1>3, <1>4, <1>5, <1>6, <1>7, <1>8 DEF Next

LEMMA MissingStep ==
    ASSUME TypeOK, FilesByStep, MissingIsExpired, [Next]_vars
    PROVE  MissingIsExpired'
<1> SUFFICES ASSUME NEW r \in Reports, archivePath'[r], ~archive'[r]
             PROVE  Expired(r, KeepArchive)'
  BY DEF MissingIsExpired
<1>1. day' \in {day, day + 1} /\ KeepArchive \in Nat
  BY DayStep, AgesAssumption
<1>2. CASE /\ archive'[r] = archive[r] /\ archivePath'[r] = archivePath[r]
           /\ processedAt'[r] = processedAt[r]
  BY <1>1, <1>2, ExpiredStays DEF MissingIsExpired
<1>3. CASE Process \/ Failure
  <2>1. CASE r # cur
    BY <1>2, <1>3, <2>1, OthersUntouched
  <2>2. CASE r = cur /\ (RecordArchive \/ RecordArtifacts)
    BY <2>2 DEF RecordArchive, RecordArtifacts, FilesByStep, Working, disk
  <2>3. CASE \/ Pick \/ MarkFetched \/ Choose \/ LoadKey \/ Stage
             \/ DecryptMembers \/ ClearOutput \/ RenameStaging \/ WriteManifest
             \/ MarkProcessed \/ Failure
    <3>1. UNCHANGED <<archive, archivePath, processedAt>>
      BY <2>3 DEF Pick, MarkFetched, Choose, LoadKey, Stage, DecryptMembers,
         ClearOutput, RenameStaging, WriteManifest, MarkProcessed, Failure,
         DownloadFails, ArchiveUnreadable, KeyUnavailable, Unexpected, Crash, store,
         row, disk
    <3> QED
      BY <1>2, <3>1
  <2>4. CASE r = cur /\ Download
    <3>1. UNCHANGED <<archivePath, processedAt>> /\ archive \in [Reports -> BOOLEAN]
      BY <2>4 DEF Download, row, TypeOK
    <3>2. archive'[r] \/ archive' = archive
      BY <2>4, <3>1 DEF Download
    <3> QED
      BY <1>2, <3>1, <3>2
  <2> QED
    BY <1>3, <2>1, <2>2, <2>3, <2>4 DEF Process
<1>4. CASE ExpireArchive
  <2>1. r # cur => archive'[r] = archive[r]
    BY <1>4 DEF ExpireArchive, TypeOK
  <2>2. archivePath' = archivePath /\ processedAt' = processedAt
    BY <1>4 DEF ExpireArchive, store, row
  <2>3. CASE r = cur
    BY <1>1, <1>4, <2>2, <2>3, DueIsExpired, ExpiredStays DEF ExpireArchive
  <2> QED
    BY <1>2, <2>1, <2>2, <2>3
<1>5. CASE ForgetArchive
  BY <1>2, <1>5 DEF ForgetArchive, disk, TypeOK
<1>6. CASE RemoveDirectory
  BY <1>2, <1>6 DEF RemoveDirectory, DirectoryDue, store, row, TypeOK
<1>7. CASE \/ BeginRetention \/ NextRow \/ ExpireDecrypted \/ ForgetDecrypted
           \/ ForgetDirectory \/ RowDone \/ EndRun \/ Run \/ NextDay
           \/ UNCHANGED vars
  <2>1. UNCHANGED <<archive, archivePath, processedAt>>
    BY <1>7 DEF BeginRetention, NextRow, ExpireDecrypted, ForgetDecrypted,
       ForgetDirectory, RowDone, EndRun, Run, StartRun, NextDay, vars, store, row,
       disk
  <2> QED
    BY <1>2, <2>1
<1> QED
  BY <1>3, <1>4, <1>5, <1>6, <1>7 DEF Next, Retention

----------------------------------------------------------------------------

LEMMA InvInit == Init => IInv
<1> SUFFICES ASSUME Init PROVE IInv
  OBVIOUS
<1>1. TypeOK
  BY TypeInit
<1>2. WorkIsPending /\ FilesByStep
  BY DEF Init, WorkIsPending, FilesByStep, Working
<1>3. FetchedHasRow /\ KeptUntilExpiry /\ MissingIsExpired
  BY DEF Init, FetchedHasRow, KeptUntilExpiry, MissingIsExpired
<1> QED
  BY <1>1, <1>2, <1>3 DEF IInv

\* The inductive invariant holds in every reachable state: types, what is in
\* hand, what process_report has made of it, and the two file properties.
THEOREM Invariance == Spec => []IInv
<1>1. Init => IInv
  BY InvInit
<1>2. IInv /\ [Next]_vars => IInv'
  BY TypeStep, WorkStep, FilesStep, FetchedStep, KeptStep, MissingStep DEF IInv
<1> QED
  BY <1>1, <1>2, PTL DEF Spec

\* Statuses, rows, files and the process keep their kinds.
THEOREM TypeCorrect == Spec => []TypeOK
<1>1. IInv => TypeOK
  BY DEF IInv
<1> QED
  BY <1>1, Invariance, PTL

\* A processed report's files and rows are there until their age has come.
THEOREM FilesAreKept == Spec => []KeptUntilExpiry
<1>1. IInv => KeptUntilExpiry
  BY DEF IInv
<1> QED
  BY <1>1, Invariance, PTL

\* A row without its archive is one retention is about to clear.
THEOREM RowsHaveArchives == Spec => []MissingIsExpired
<1>1. IInv => MissingIsExpired
  BY DEF IInv
<1> QED
  BY <1>1, Invariance, PTL
=============================================================================
