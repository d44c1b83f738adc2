--------------------------- MODULE WatchdogProofs ---------------------------
(***************************************************************************)
(* A site_back answers a site_silent, what the store remembers of a        *)
(* silence is on disk, no alarm is false and none is missed: for every     *)
(* registry, ring, silence time and number of interruptions.               *)
(*                                                                         *)
(* The difficulty is that a report replaces one of the same name, from a   *)
(* run of the same time.  The two tell of the same silence, because all    *)
(* that was published before the first was written had been read by then.  *)
(***************************************************************************)
EXTENDS Watchdog, SignalProofs

\* A site's chain is no longer than its bound.
ChainsAreBounded == \A s \in Senders : Len(chain[s]) <= MaxRecords

\* With history_from nothing older is read, stored or remembered.
FromHistory ==
    /\ \A s \in Senders : HistoryFrom[s] # None =>
        /\ \A i \in Stored(s) : HistoryFrom[s] <= Time(s, i)
        /\ scanned[s] # None => HistoryFrom[s] <= Time(s, scanned[s])
        /\ lastSignal[s] # None => HistoryFrom[s] <= lastSignal[s]
    /\ HistoryFrom[current] # None =>
        \A i \in todo \cup records : HistoryFrom[current] <= Time(current, i)

BeforeHistory(s, i) == HistoryFrom[s] # None /\ Time(s, i) < HistoryFrom[s]

\* The scan, and then the last signal, covers all that can still be read and is
\* older than the run.
ReadIsJudged ==
    /\ pc = "store" =>
        \A i \in Readable(current) :
            \/ \E last \in records : i <= last
            \/ Time(current, i) >= now
            \/ BeforeHistory(current, i)
    /\ pc \in {"mark", "collected"} =>
        \A i \in Readable(current) :
            \/ Time(current, i) <= lastSignal[current]
            \/ Time(current, i) >= now
            \/ BeforeHistory(current, i)

Silences == {r \in reports : r.type = "site_silent"}

\* A silence is reported SilenceAfter after its last signal, and only signals
\* from the time of its report on can follow.
SilencesAreOld ==
    \A r \in Silences :
        /\ r.since + SilenceAfter <= r.at
        /\ r.at <= now
        /\ lastBeat[r.site] # None
        /\ lastSignal[r.site] = r.since \/ lastSignal[r.site] >= r.at

\* Nothing that can still be read, or is about to be recorded, falls between.
NothingBetween ==
    \A r \in Silences :
        /\ \A i \in Readable(r.site) : Time(r.site, i) <= r.since \/ Time(r.site, i) >= r.at
        /\ pc = "store" /\ current = r.site =>
            \A i \in records : Time(r.site, i) <= r.since \/ Time(r.site, i) >= r.at

\* A site that was reported silent has a heartbeat, so nothing is backfilled.
NoBackfillOfSilent ==
    pc = "backfill" /\ todo # {} => \A r \in Silences : r.site # current

\* What is written and not yet remembered is on disk.
IssueIsWritten ==
    issue = "site_silent" =>
        \E r \in Silences : r.site = current /\ r.since = lastSignal[current]

WatchInv ==
    /\ WatchTypeOK
    /\ ChainsAreBounded
    /\ FromHistory
    /\ ReadIsJudged
    /\ SilencesAreOld
    /\ NothingBetween
    /\ NoBackfillOfSilent
    /\ IssueIsWritten
    /\ ReportsAnswer

----------------------------------------------------------------------------

\* The watchdog only adds to collection: each of its steps is one or none of it.
LEMMA WatchCollects == [WatchNext]_allVars => [Next]_vars
  BY DEF WatchNext, allVars, SitesGoOn, StartWatchedRun, VisitSite, ReadChain, CollectOn,
         Watch, ReportBack, ReportSilent, MarkSilent, NoIssue, Stop, Next, Collect

\* A set of positions that is not empty has a last one.
LEMMA LastExists ==
    ASSUME NEW n \in Nat, NEW S \in SUBSET (1 .. n), S # {}
    PROVE  \E x \in S : \A y \in S : y <= x
<1> DEFINE Rest == {n - i : i \in S}
<1>1. \A k \in Rest : k \in Nat
  OBVIOUS
<1>2. Rest # {}
  OBVIOUS
<1>3. Rest \in SUBSET Nat
  BY <1>1
<1>4. PICK m \in Rest : \A k \in Rest : m <= k
  BY <1>2, <1>3, FirstExists
<1>5. PICK x \in S : m = n - x
  BY <1>4
<1>6. \A y \in S : y <= x
  <2> TAKE y \in S
  <2>1. m <= n - y
    BY <1>4
  <2> QED
    BY <1>5, <2>1
<1> QED
  BY <1>6

\* What can be read after a publication could be read before, or is new.
LEMMA PublishReadable ==
    ASSUME TypeOK, NEW r \in Senders, PublishStep(r), NEW s \in Senders,
           NEW i \in Readable(s)'
    PROVE  \/ i \in Readable(s) /\ Time(s, i)' = Time(s, i)
           \/ Time(s, i)' = clock
<1>1. /\ Len(chain[s]) \in Nat /\ Len(chain'[s]) \in Nat
      /\ s = r => Len(chain'[s]) = Len(chain[s]) + 1
      /\ s # r => Len(chain'[s]) = Len(chain[s])
      /\ \A j \in Positions(s) : chain'[s][j] = chain[s][j]
      /\ chain'[r][Len(chain[r]) + 1].ts = clock
  BY PublishGrows, PublishKeeps
<1>2. /\ Oldest(s) \in Nat \ {0} /\ Oldest(s)' \in Nat \ {0}
      /\ Oldest(s) <= Oldest(s)'
  BY <1>1, WindowAssumption DEF Oldest
<1>3. /\ i \in Oldest(s)' .. Len(chain'[s])
      /\ chain'[s][i].kind # "junk"
  BY DEF Readable, Live, IsText
<1>4. CASE i <= Len(chain[s])
  BY <1>1, <1>2, <1>3, <1>4 DEF Readable, Live, IsText, Positions, Time
<1>5. CASE ~(i <= Len(chain[s]))
  <2>1. s = r /\ i = Len(chain[r]) + 1
    BY <1>1, <1>2, <1>3, <1>5
  <2> QED
    BY <1>1, <2>1 DEF Time
<1> QED
  BY <1>4, <1>5

\* A report takes the place of those of its name, and of no other.
LEMMA ReportWritten ==
    ASSUME NEW report, WriteReport(report)
    PROVE  /\ report \in reports'
           /\ \A r \in reports' : r = report \/ r \in reports
           /\ \A r \in reports :
                \/ r \in reports'
                \/ r.site = report.site /\ r.type = report.type /\ r.at = report.at
  BY DEF WriteReport

----------------------------------------------------------------------------

LEMMA BoundStep ==
    ASSUME TypeOK, ChainsAreBounded, [Next]_vars
    PROVE  ChainsAreBounded'
<1>1. CASE chain' = chain
  BY <1>1 DEF ChainsAreBounded
<1>2. ASSUME NEW r \in Senders, PublishStep(r)
      PROVE  ChainsAreBounded'
  <2>1. Len(chain[r]) < MaxRecords
    BY <1>2 DEF PublishStep, Publish
  <2>2. \A t \in Senders : /\ Len(chain[t]) \in Nat /\ Len(chain'[t]) \in Nat
                           /\ t = r => Len(chain'[t]) = Len(chain[t]) + 1
                           /\ t # r => Len(chain'[t]) = Len(chain[t])
    BY <1>2, PublishGrows
  <2>3. ASSUME NEW s \in Senders
        PROVE  Len(chain'[s]) <= MaxRecords
    <3>1. Len(chain[s]) <= MaxRecords /\ MaxRecords \in Nat
      BY BoundsAssumption DEF ChainsAreBounded
    <3>2. CASE s = r
      BY <2>1, <2>2, <3>1, <3>2
    <3>3. CASE s # r
      BY <2>2, <3>1, <3>3
    <3> QED
      BY <3>2, <3>3
  <2> QED
    BY <2>3 DEF ChainsAreBounded
<1> QED
  BY <1>1, <1>2
  DEF Next, Collect, TickStep, Tick, StartRun, Visit, Backfill, Read, Store, Signal, Mark,
      NothingNew, Leave, Fail, Crash, Interrupt, vars

LEMMA WatchTypeInit == WatchInit => WatchTypeOK
  BY TypeInit, BoundsAssumption DEF WatchInit, WatchTypeOK, Init, DatalogInit, None

\* A written report is of the kind its name and issue file give it.
LEMMA ReportIsTyped ==
    ASSUME WatchTypeOK, NEW type \in {"site_silent", "site_back"}, NEW since \in Nat,
           WriteReport([site |-> current, type |-> type, at |-> now, since |-> since])
    PROVE  reports' \subseteq ServiceReport
<1>1. [site |-> current, type |-> type, at |-> now, since |-> since] \in ServiceReport
  BY DEF WatchTypeOK, TypeOK, ServiceReport
<1> QED
  BY <1>1, ReportWritten DEF WatchTypeOK

LEMMA WatchTypeStep ==
    ASSUME IInv, WatchTypeOK, ChainsAreBounded, [WatchNext]_allVars
    PROVE  WatchTypeOK'
<1>1. TypeOK'
  BY WatchCollects, TypeStep
<1>2. /\ silentSince \in [Senders -> Nat] /\ reports \subseteq ServiceReport
      /\ issue \in {"none", "site_silent", "site_back"}
      /\ issue # "none" => pc = "collected"
      /\ now \in 1 .. clock /\ heard \in 0 .. MaxRecords
      /\ lastSignal \in [Senders -> Nat] /\ clock \in Nat /\ current \in Senders
  BY DEF WatchTypeOK, TypeOK
<1>3. CASE SitesGoOn
  <2>1. /\ UNCHANGED <<silentSince, reports, issue, now, heard, pc>>
        /\ clock' = clock \/ clock' = clock + 1
    BY <1>3 DEF SitesGoOn, watchVars, TickStep, Tick, PublishStep, Publish, process
  <2> QED
    BY <1>1, <1>2, <2>1 DEF WatchTypeOK
<1>4. CASE StartWatchedRun
  <2>1. /\ UNCHANGED <<silentSince, reports, issue, heard, pc, clock>>
        /\ now' = clock
    BY <1>4 DEF StartWatchedRun, StartRun
  <2> QED
    BY <1>1, <1>2, <2>1 DEF WatchTypeOK
<1>5. ASSUME NEW s \in Senders, VisitSite(s)
      PROVE  WatchTypeOK'
  BY <1>1, <1>2, <1>5 DEF WatchTypeOK, VisitSite, Visit, watchVars
<1>6. CASE ReadChain
  <2>1. Len(chain[current]) \in 0 .. MaxRecords
    BY <1>2, BoundsAssumption DEF ChainsAreBounded, IInv, TypeOK
  <2> QED
    BY <1>1, <1>2, <1>6, <2>1 DEF WatchTypeOK, ReadChain, Read
<1>7. CASE CollectOn
  BY <1>1, <1>2, <1>7
  DEF WatchTypeOK, CollectOn, watchVars, Backfill, Store, Signal, Mark, NothingNew
<1>8. CASE ReportBack
  <2>1. silentSince[current] \in Nat
    BY <1>2
  <2>2. reports' \subseteq ServiceReport
    BY <1>8, <2>1, ReportIsTyped DEF ReportBack
  <2> QED
    BY <1>1, <1>2, <1>8, <2>2 DEF WatchTypeOK, ReportBack, vars, process
<1>9. CASE ReportSilent
  <2>1. lastSignal[current] \in Nat
    BY <1>2
  <2>2. reports' \subseteq ServiceReport
    BY <1>9, <2>1, ReportIsTyped DEF ReportSilent
  <2> QED
    BY <1>1, <1>2, <1>9, <2>2 DEF WatchTypeOK, ReportSilent, vars, process
<1>10. CASE MarkSilent
  BY <1>1, <1>2, <1>10 DEF WatchTypeOK, MarkSilent, Leave, None
<1>11. CASE NoIssue
  BY <1>1, <1>2, <1>11 DEF WatchTypeOK, NoIssue, Leave, watchVars
<1>12. CASE Stop
  BY <1>1, <1>2, <1>12 DEF WatchTypeOK, Stop, Fail, Crash, Interrupt
<1>13. CASE UNCHANGED allVars
  BY <1>1, <1>2, <1>13 DEF WatchTypeOK, allVars, vars, watchVars, process
<1> QED
  BY <1>3, <1>4, <1>5, <1>6, <1>7, <1>8, <1>9, <1>10, <1>11, <1>12, <1>13
  DEF WatchNext, Watch

----------------------------------------------------------------------------

\* What is read is not older than history_from: the cursor is not, either.
LEMMA ReadFromHistory ==
    ASSUME IInv, FromHistory, Read, HistoryFrom[current] # None, NEW i \in records'
    PROVE  HistoryFrom[current] <= Time(current, i)
<1> USE DEF None
<1>1. /\ current \in Senders /\ Len(chain[current]) \in Nat
      /\ scanned[current] \in 0 .. Len(chain[current])
      /\ HistoryFrom[current] \in Nat
  BY HistoryAssumption DEF IInv, TypeOK, RowsInChain
<1>2. /\ StartOfRead(current) \in Nat \ {0}
      /\ HistoryFrom[current] <= StartOfRead(current)
  <2>1. CASE scanned[current] = None
    BY <1>1, <2>1 DEF StartOfRead, Cursor
  <2>2. CASE scanned[current] # None
    <3>1. scanned[current] \in Positions(current)
      BY <1>1, <2>2 DEF Positions
    <3>2. Time(current, scanned[current]) \in Nat \ {0}
      BY <1>1, <3>1, RecordAt DEF IInv
    <3> QED
      BY <1>1, <2>2, <3>2 DEF StartOfRead, Cursor, FromHistory
  <2> QED
    BY <2>1, <2>2
<1>3. i \in Readable(current) /\ Time(current, i) >= StartOfRead(current)
  BY <1>2 DEF Read, NewRecords
<1>4. Time(current, i) \in Nat
  <2>1. Oldest(current) \in Nat \ {0}
    BY <1>1, WindowAssumption DEF Oldest
  <2>2. i \in Positions(current)
    BY <1>1, <1>3, <2>1 DEF Readable, Live, Positions
  <2> QED
    BY <1>1, <2>2, RecordAt DEF IInv
<1> QED
  BY <1>1, <1>2, <1>3, <1>4

LEMMA HistoryStep ==
    ASSUME IInv, FromHistory, [Next]_vars
    PROVE  FromHistory'
<1> USE DEF None
<1>1. /\ TypeOK /\ ScanIsWhole /\ ScanInChain /\ RowsInChain /\ current \in Senders
      /\ scanned \in [Senders -> Nat] /\ lastSignal \in [Senders -> Nat]
      /\ lastBeat \in [Senders -> Nat]
  BY DEF IInv, TypeOK
<1>2. HistoryFrom \in [Senders -> Nat]
  BY HistoryAssumption
<1> DEFINE Kept(s) ==
        HistoryFrom[s] # None =>
            /\ \A i \in Stored(s) : HistoryFrom[s] <= Time(s, i)
            /\ scanned[s] # None => HistoryFrom[s] <= Time(s, scanned[s])
            /\ lastSignal[s] # None => HistoryFrom[s] <= lastSignal[s]
           Scan ==
        HistoryFrom[current] # None =>
            \A i \in todo \cup records : HistoryFrom[current] <= Time(current, i)
<1>3. Scan /\ \A s \in Senders : Kept(s)
  BY DEF FromHistory
<1>4. Scan' /\ (\A s \in Senders : Kept(s)') => FromHistory'
  BY DEF FromHistory
<1>5. ASSUME UNCHANGED <<chain, entries, scanned, lastSignal>>
      PROVE  \A s \in Senders : Kept(s)'
  BY <1>3, <1>5 DEF Stored, Time
<1>6. CASE TickStep \/ UNCHANGED vars
  <2>1. UNCHANGED <<chain, entries, scanned, lastSignal, current, todo, records>>
    BY <1>6 DEF TickStep, Tick, vars, store, process
  <2> QED
    BY <1>3, <1>4, <1>5, <2>1 DEF Time
<1>7. ASSUME NEW r \in Senders, PublishStep(r)
      PROVE  FromHistory'
  <2>1. UNCHANGED <<entries, scanned, lastSignal, current, todo, records>>
    BY <1>7 DEF PublishStep, store, process
  <2>2. \A s \in Senders : \A i \in Positions(s) : chain'[s][i] = chain[s][i]
    BY <1>1, <1>7, PublishKeeps
  <2>3. Scan'
    BY <1>1, <1>3, <2>1, <2>2 DEF ScanInChain, Time
  <2>4. ASSUME NEW s \in Senders
        PROVE  Kept(s)'
    <3>1. Stored(s)' = Stored(s) /\ Stored(s) \subseteq Positions(s)
      BY <1>1, <2>1 DEF Stored, RowsInChain
    <3>2. scanned[s] # None => scanned[s] \in Positions(s)
      <4>1. scanned[s] \in 0 .. Len(chain[s]) /\ Len(chain[s]) \in Nat
        BY <1>1 DEF TypeOK, RowsInChain
      <4> QED
        BY <4>1 DEF Positions
    <3> QED
      BY <1>3, <2>1, <2>2, <3>1, <3>2 DEF Time
  <2> QED
    BY <1>4, <2>3, <2>4
<1>8. CASE \/ \E enabled \in SUBSET Senders : StartRun(enabled)
           \/ NothingNew \/ Leave \/ Fail \/ Crash
  <2>1. UNCHANGED <<chain, entries, scanned, lastSignal, current>>
    BY <1>8 DEF StartRun, NothingNew, Leave, Fail, Crash, Interrupt, store
  <2>2. todo' \cup records' \subseteq todo \cup records
    BY <1>8 DEF StartRun, NothingNew, Leave, Fail, Crash, Interrupt
  <2>3. Scan'
    BY <1>3, <2>1, <2>2 DEF Time
  <2> QED
    BY <1>4, <1>5, <2>1, <2>3
<1>9. ASSUME NEW s \in Senders, Visit(s)
       PROVE  FromHistory'
  <2>1. /\ UNCHANGED <<chain, entries, scanned, lastSignal>>
        /\ current' = s /\ records' = {} /\ todo' \subseteq Stored(s)
    BY <1>1, <1>9 DEF Visit, store, ScanIsWhole
  <2>2. Scan'
    BY <1>3, <2>1 DEF Time
  <2> QED
    BY <1>4, <1>5, <2>1, <2>2
<1>10. CASE Backfill
  <2>1. PICK i \in todo :
          RecordSignal(current, Time(current, i),
              IF IsBeat(current, i) THEN Time(current, i) ELSE None)
    BY <1>10 DEF Backfill
  <2>2. /\ UNCHANGED <<chain, entries, scanned, current, records>>
        /\ todo' \subseteq todo
    BY <1>10 DEF Backfill
  <2>3. HistoryFrom[current] # None => HistoryFrom[current] <= Time(current, i)
    BY <1>1, <1>3, <2>1
  <2>4. Time(current, i) \in Nat
    BY <1>1, <2>1, RecordAt DEF ScanInChain
  <2>5. Scan'
    BY <1>3, <2>2 DEF Time
  <2> QED
    BY <1>1, <1>2, <1>3, <1>4, <2>1, <2>2, <2>3, <2>4, <2>5
    DEF RecordSignal, Later, Stored, Time
<1>11. CASE Read
  <2>1. UNCHANGED <<chain, entries, scanned, lastSignal, current>> /\ todo' = records'
    BY <1>11 DEF Read, store
  <2>2. Scan'
    BY <1>11, <2>1, ReadFromHistory DEF Time
  <2> QED
    BY <1>4, <1>5, <2>1, <2>2
<1>12. CASE Store
  <2>1. PICK i \in todo :
          \A s \in Senders :
             Stored(s)' = Stored(s) \cup (IF s = current THEN {i} ELSE {})
    BY <1>1, <1>12, StoreAddsRow DEF IInv
  <2>2. /\ UNCHANGED <<chain, scanned, lastSignal, current, records>>
        /\ todo' \subseteq todo
    BY <1>12 DEF Store
  <2> QED
    BY <1>3, <1>4, <2>1, <2>2 DEF Time
<1>13. CASE Signal
  <2>1. PICK last \in records :
          \/ \E beat \in records :
                RecordSignal(current, Time(current, last), Time(current, beat))
          \/ RecordSignal(current, Time(current, last), None)
    BY <1>13 DEF Signal
  <2>2. UNCHANGED <<chain, entries, scanned, current, todo, records>>
    BY <1>13 DEF Signal
  <2>3. /\ Time(current, last) \in Nat
        /\ HistoryFrom[current] # None => HistoryFrom[current] <= Time(current, last)
    BY <1>1, <1>3, <2>1, <2>2, RecordAt DEF ScanInChain
  <2>4. lastSignal' = [lastSignal EXCEPT ![current] = Later(@, Time(current, last))]
    BY <2>1 DEF RecordSignal
  <2>5. Scan'
    BY <1>3, <2>2 DEF Time
  <2>6. \A s \in Senders : Kept(s)'
    BY <1>1, <1>2, <1>3, <2>2, <2>3, <2>4 DEF Later, Stored, Time
  <2> QED
    BY <1>4, <2>5, <2>6
<1>14. CASE Mark
  <2>1. PICK last \in records : scanned' = [scanned EXCEPT ![current] = last]
    BY <1>14 DEF Mark
  <2>2. UNCHANGED <<chain, entries, lastSignal, current, todo, records>>
    BY <1>14 DEF Mark
  <2>3. HistoryFrom[current] # None => HistoryFrom[current] <= Time(current, last)
    BY <1>3, <2>1, <2>2
  <2> QED
    BY <1>1, <1>3, <1>4, <2>1, <2>2, <2>3 DEF Stored, Time
<1> QED
  BY <1>6, <1>7, <1>8, <1>10, <1>11, <1>12, <1>13, <1>14, <1>9
  DEF Next, Collect

----------------------------------------------------------------------------

\* A read comes to the end of what can be read, or to history_from.
LEMMA ReadCovers ==
    ASSUME IInv, Read, NEW i \in Readable(current)
    PROVE  (\E last \in records' : i <= last) \/ BeforeHistory(current, i)
<1> USE DEF None
<1>1. /\ TypeOK /\ ChainInOrder /\ current \in Senders /\ Len(chain[current]) \in Nat
      /\ scanned[current] \in 0 .. Len(chain[current])
      /\ HistoryFrom[current] \in Nat
  BY HistoryAssumption DEF IInv, TypeOK, RowsInChain
<1>2. records' = NewRecords(current, StartOfRead(current))
  BY DEF Read
<1>3. Oldest(current) \in Nat \ {0}
  BY <1>1, WindowAssumption DEF Oldest
<1>4. /\ Readable(current) \in SUBSET (1 .. Len(chain[current]))
      /\ i \in Positions(current) /\ i \in Nat /\ i >= Oldest(current)
  BY <1>1, <1>3 DEF Readable, Live, Positions
<1>5. Time(current, i) \in Nat \ {0}
  BY <1>1, <1>4, RecordAt
<1>6. CASE scanned[current] = None /\ HistoryFrom[current] = None
  <2>1. PICK x \in Readable(current) : \A y \in Readable(current) : y <= x
    BY <1>1, <1>4, LastExists
  <2>2. StartOfRead(current) = None
    BY <1>6 DEF StartOfRead, Cursor
  <2>3. x \in records'
    BY <1>2, <2>1, <2>2 DEF NewRecords
  <2> QED
    BY <2>1, <2>3
<1>7. CASE scanned[current] = None /\ HistoryFrom[current] # None
  <2>1. StartOfRead(current) = HistoryFrom[current]
    BY <1>7 DEF StartOfRead, Cursor
  <2>2. CASE Time(current, i) >= HistoryFrom[current]
    <3>1. i \in records'
      BY <1>2, <1>7, <2>1, <2>2 DEF NewRecords
    <3> QED
      BY <1>4, <3>1
  <2>3. CASE ~(Time(current, i) >= HistoryFrom[current])
    BY <1>1, <1>5, <1>7, <2>3 DEF BeforeHistory
  <2> QED
    BY <2>2, <2>3
<1>8. CASE scanned[current] # None
  <2>1. /\ scanned[current] \in Positions(current)
        /\ Time(current, scanned[current]) \in Nat \ {0}
    <3>1. scanned[current] \in Positions(current)
      BY <1>1, <1>8 DEF Positions
    <3> QED
      BY <1>1, <3>1, RecordAt
  <2>2. StartOfRead(current) = Time(current, scanned[current])
    BY <1>8, <2>1 DEF StartOfRead, Cursor
  <2>3. CASE Time(current, i) >= Time(current, scanned[current])
    <3>1. i \in records'
      BY <1>2, <2>1, <2>2, <2>3 DEF NewRecords
    <3> QED
      BY <1>4, <3>1
  <2>4. CASE ~(Time(current, i) >= Time(current, scanned[current]))
    <3>1. i < scanned[current]
      BY <1>1, <1>4, <1>5, <2>1, <2>4 DEF ChainInOrder, Positions
    <3>2. IsText(current, scanned[current])
      BY <1>1, <1>8 DEF IInv, SeenIsStored
    <3>3. scanned[current] \in Readable(current)
      BY <1>1, <1>3, <1>4, <3>1, <3>2 DEF Readable, Live
    <3>4. scanned[current] \in records'
      BY <1>2, <2>1, <2>2, <3>3 DEF NewRecords
    <3> QED
      BY <1>1, <1>4, <3>1, <3>4
  <2> QED
    BY <2>3, <2>4
<1> QED
  BY <1>6, <1>7, <1>8

LEMMA JudgedStep ==
    ASSUME IInv, WatchTypeOK, ReadIsJudged, [WatchNext]_allVars
    PROVE  ReadIsJudged'
<1> USE DEF None
<1>1. /\ TypeOK /\ ChainInOrder /\ ScanInChain /\ RowsInChain /\ current \in Senders
      /\ lastSignal \in [Senders -> Nat] /\ lastBeat \in [Senders -> Nat]
      /\ now \in 1 .. clock /\ clock \in Nat /\ Len(chain[current]) \in Nat
  BY DEF IInv, TypeOK, WatchTypeOK
<1>2. CASE UNCHANGED <<chain, current, pc, records, lastSignal, now>>
  <2>1. Readable(current)' = Readable(current)
    BY <1>2 DEF Readable, Live, Oldest, IsText
  <2> QED
    BY <1>2, <2>1 DEF ReadIsJudged, BeforeHistory, Time
<1>3. CASE pc' \in {"idle", "backfill"}
  BY <1>3 DEF ReadIsJudged
<1>4. ASSUME NEW r \in Senders, PublishStep(r), UNCHANGED now
      PROVE  ReadIsJudged'
  <2>1. UNCHANGED <<current, pc, records, lastSignal, now>>
    BY <1>4 DEF PublishStep, store, process
  <2>2. \A i \in Readable(current)' :
           \/ i \in Readable(current) /\ Time(current, i)' = Time(current, i)
           \/ Time(current, i)' = clock
    <3>1. \A s \in Senders : \A i \in Readable(s)' :
             \/ i \in Readable(s) /\ Time(s, i)' = Time(s, i)
             \/ Time(s, i)' = clock
      BY <1>1, <1>4, PublishReadable
    <3>2. current' = current
      BY <2>1
    <3> QED
      BY <1>1, <3>1, <3>2 DEF Readable, Live, Oldest, IsText, Time
  <2>3. clock >= now
    BY <1>1
  <2> QED
    BY <2>1, <2>2, <2>3 DEF ReadIsJudged, BeforeHistory
<1>5. CASE ReadChain
  <2>1. /\ Read /\ pc' = "store" /\ UNCHANGED <<chain, current>>
    BY <1>5 DEF ReadChain, Read
  <2>2. Readable(current)' = Readable(current)
    BY <2>1 DEF Readable, Live, Oldest, IsText
  <2>3. \A i \in Readable(current) :
           (\E last \in records' : i <= last) \/ BeforeHistory(current, i)
    BY <2>1, ReadCovers
  <2>4. \A i : BeforeHistory(current, i)' <=> BeforeHistory(current, i)
    BY <2>1 DEF BeforeHistory, Time
  <2> QED
    BY <2>1, <2>2, <2>3, <2>4 DEF ReadIsJudged
<1>6. CASE Signal /\ UNCHANGED now
  <2>1. PICK last \in records :
          /\ \A i \in records : i <= last
          /\ \/ \E beat \in records :
                  RecordSignal(current, Time(current, last), Time(current, beat))
             \/ RecordSignal(current, Time(current, last), None)
    BY <1>6 DEF Signal
  <2>2. /\ UNCHANGED <<chain, current, records>>
        /\ pc = "store" /\ pc' = "mark"
    BY <1>6 DEF Signal
  <2>3. /\ last \in Positions(current) /\ records \subseteq Positions(current)
        /\ Time(current, last) \in Nat
    BY <1>1, <2>1, RecordAt DEF ScanInChain
  <2>4. /\ lastSignal'[current] \in Nat
        /\ Time(current, last) <= lastSignal'[current]
    BY <1>1, <2>1, <2>3 DEF RecordSignal, Later
  <2>5. Readable(current)' = Readable(current)
    BY <2>2 DEF Readable, Live, Oldest, IsText
  <2>6. Readable(current) \subseteq Positions(current)
    BY <1>1, WindowAssumption DEF Readable, Live, Oldest, Positions
  <2>7. ASSUME NEW i \in Readable(current)
        PROVE  \/ Time(current, i) <= lastSignal'[current]
               \/ Time(current, i) >= now
               \/ BeforeHistory(current, i)
    <3>1. ASSUME NEW other \in records, i <= other
          PROVE  Time(current, i) <= lastSignal'[current]
      <4>1. i \in Positions(current) /\ i <= last
        BY <2>1, <2>3, <2>6, <3>1 DEF Positions
      <4>2. Time(current, i) <= Time(current, last)
        BY <1>1, <2>3, <4>1 DEF ChainInOrder
      <4>3. Time(current, i) \in Nat
        BY <1>1, <4>1, RecordAt
      <4> QED
        BY <2>3, <2>4, <4>2, <4>3
    <3> QED
      BY <2>2, <3>1 DEF ReadIsJudged
  <2> QED
    BY <1>6, <2>2, <2>5, <2>7 DEF ReadIsJudged, BeforeHistory, Time
<1>7. CASE (Mark \/ NothingNew) /\ UNCHANGED now
  <2>1. /\ UNCHANGED <<chain, current, records, lastSignal>>
        /\ pc' = "collected"
        /\ pc = "mark" \/ (pc = "store" /\ records = {})
    BY <1>7 DEF Mark, NothingNew, store
  <2>2. Readable(current)' = Readable(current)
    BY <2>1 DEF Readable, Live, Oldest, IsText
  <2> QED
    BY <1>7, <2>1, <2>2 DEF ReadIsJudged, BeforeHistory, Time
<1> QED
  <2>1. CASE SitesGoOn
    BY <1>2, <1>4, <2>1
    DEF SitesGoOn, watchVars, TickStep, Tick, store, process
  <2>2. CASE StartWatchedRun \/ (\E s \in Senders : VisitSite(s)) \/ MarkSilent
             \/ NoIssue \/ Stop
    BY <1>3, <2>2
    DEF StartWatchedRun, StartRun, VisitSite, Visit, MarkSilent, NoIssue, Leave, Stop, Fail,
        Crash, Interrupt
  <2>3. CASE CollectOn
    <3>1. now' = now
      BY <2>3 DEF CollectOn, watchVars
    <3>2. CASE Backfill
      BY <1>3, <3>2 DEF Backfill
    <3>3. CASE Store
      BY <1>2, <3>1, <3>3 DEF Store
    <3> QED
      BY <1>6, <1>7, <2>3, <3>1, <3>2, <3>3 DEF CollectOn
  <2>4. CASE ReportBack \/ ReportSilent \/ UNCHANGED allVars
    BY <1>2, <2>4
    DEF ReportBack, ReportSilent, allVars, vars, watchVars, store, process
  <2> QED
    BY <1>5, <2>1, <2>2, <2>3, <2>4 DEF WatchNext, Watch

----------------------------------------------------------------------------

LEMMA SilenceIsTyped ==
    ASSUME WatchTypeOK, NEW r \in Silences
    PROVE  /\ r \in reports /\ r.type = "site_silent"
           /\ r.site \in Senders /\ r.since \in Nat /\ r.at \in Nat
<1>1. r \in reports /\ r \in ServiceReport /\ r.type = "site_silent"
  BY DEF Silences, WatchTypeOK
<1> QED
  BY <1>1 DEF ServiceReport

\* A signal recorded after a silence was reported is not from before its report.
LEMMA SignalIsLater ==
    ASSUME IInv, WatchTypeOK, SilencesAreOld, NothingBetween, NoBackfillOfSilent,
           [Next]_vars, NEW r \in Silences
    PROVE  lastSignal'[r.site] = r.since \/ lastSignal'[r.site] >= r.at
<1> USE DEF None
<1>1. /\ TypeOK /\ ScanInChain /\ current \in Senders
      /\ lastSignal \in [Senders -> Nat] /\ SilenceAfter \in Nat \ {0}
  BY SilenceAssumption DEF IInv, TypeOK
<1>2. r.site \in Senders /\ r.since \in Nat /\ r.at \in Nat
  BY SilenceIsTyped
<1>3. /\ r.since + SilenceAfter <= r.at
      /\ lastSignal[r.site] = r.since \/ lastSignal[r.site] >= r.at
  BY DEF SilencesAreOld
<1>4. CASE lastSignal' = lastSignal
  BY <1>3, <1>4
<1>5. CASE Backfill
  <2>1. pc = "backfill" /\ todo # {}
    BY <1>5 DEF Backfill
  <2>2. r.site # current
    BY <2>1 DEF NoBackfillOfSilent
  <2>3. PICK signal : lastSignal' = [lastSignal EXCEPT ![current] = Later(@, signal)]
    BY <1>5 DEF Backfill, RecordSignal
  <2> QED
    BY <1>1, <1>2, <1>3, <2>2, <2>3
<1>6. CASE Signal
  <2>1. PICK last \in records :
          lastSignal' = [lastSignal EXCEPT ![current] = Later(@, Time(current, last))]
    BY <1>6 DEF Signal, RecordSignal
  <2>2. pc = "store"
    BY <1>6 DEF Signal
  <2>3. CASE r.site # current
    BY <1>1, <1>2, <1>3, <2>1, <2>3
  <2>4. CASE r.site = current
    <3>1. Time(current, last) \in Nat
      BY <1>1, <2>1, RecordAt DEF ScanInChain
    <3>2. Time(current, last) <= r.since \/ Time(current, last) >= r.at
      BY <2>1, <2>2, <2>4 DEF NothingBetween
    <3>3. lastSignal'[current] = Later(lastSignal[current], Time(current, last))
      BY <1>1, <2>1
    <3> QED
      BY <1>1, <1>2, <1>3, <2>4, <3>1, <3>2, <3>3 DEF Later
  <2> QED
    BY <2>3, <2>4
<1> QED
  BY <1>4, <1>5, <1>6
  DEF Next, Collect, TickStep, PublishStep, StartRun, Visit, Read, Store, NothingNew,
      Mark, Leave, Fail, Crash, Interrupt, vars, store

\* The parts of the invariant about silences already reported, while reports stay
\* or a site_back is written.
LEMMA OldSilences ==
    ASSUME IInv, WatchTypeOK, SilencesAreOld, NothingBetween, NoBackfillOfSilent,
           [WatchNext]_allVars, NEW r \in Silences
    PROVE  /\ r.at <= now'
           /\ lastBeat'[r.site] # None
           /\ lastSignal'[r.site] = r.since \/ lastSignal'[r.site] >= r.at
<1>1. r.site \in Senders /\ r.at \in Nat
  BY SilenceIsTyped
<1>2. [Next]_vars
  BY WatchCollects
<1>3. now \in 1 .. clock /\ clock \in Nat
  BY DEF WatchTypeOK, TypeOK
<1>4. now' = now \/ now' = clock
  BY DEF WatchNext, allVars, watchVars, SitesGoOn, StartWatchedRun, VisitSite, ReadChain,
         CollectOn, Watch, ReportBack, ReportSilent, MarkSilent, NoIssue, Stop
<1>5. r.at <= now /\ lastBeat[r.site] # None
  BY DEF SilencesAreOld
<1> QED
  BY <1>1, <1>2, <1>3, <1>4, <1>5, SignalsGrow, SignalIsLater

\* What can be read was so before, or is as new as the run.
LEMMA NewIsLate ==
    ASSUME IInv, WatchTypeOK, [WatchNext]_allVars, NEW s \in Senders, NEW i \in Readable(s)'
    PROVE  \/ i \in Readable(s) /\ Time(s, i)' = Time(s, i)
           \/ Time(s, i)' >= now
<1>1. TypeOK /\ now \in 1 .. clock /\ clock \in Nat
  BY DEF IInv, TypeOK, WatchTypeOK
<1>2. CASE UNCHANGED chain
  BY <1>2 DEF Readable, Live, Oldest, IsText, Time
<1>3. ASSUME NEW r \in Senders, PublishStep(r)
      PROVE  \/ i \in Readable(s) /\ Time(s, i)' = Time(s, i)
             \/ Time(s, i)' >= now
  <2>1. \/ i \in Readable(s) /\ Time(s, i)' = Time(s, i)
        \/ Time(s, i)' = clock
    BY <1>1, <1>3, PublishReadable
  <2> QED
    BY <1>1, <2>1
<1>4. [Next]_vars
  BY WatchCollects
<1> QED
  BY <1>2, <1>3, <1>4
  DEF Next, Collect, TickStep, Tick, StartRun, Visit, Backfill, Read, Store, Signal, Mark,
      NothingNew, Leave, Fail, Crash, Interrupt, vars

\* What a run is about to record is the scan it had, or was readable.
LEMMA ScanIsKept ==
    ASSUME IInv, WatchTypeOK, [WatchNext]_allVars, pc' = "store", NEW i \in records'
    PROVE  /\ current' = current
           /\ Time(current, i)' = Time(current, i)
           /\ \/ pc = "store" /\ i \in records
              \/ i \in Readable(current)
<1>1. /\ TypeOK /\ ScanInChain /\ current \in Senders
  BY DEF IInv, TypeOK
<1>2. [Next]_vars
  BY WatchCollects
<1>3. CASE UNCHANGED <<chain, pc, records, current>>
  BY <1>3 DEF Time
<1>4. ASSUME NEW r \in Senders, PublishStep(r)
      PROVE  /\ current' = current /\ Time(current, i)' = Time(current, i)
             /\ pc = "store" /\ i \in records
  <2>1. UNCHANGED <<pc, records, current>>
    BY <1>4 DEF PublishStep, process
  <2>2. chain'[current][i] = chain[current][i]
    BY <1>1, <1>4, <2>1, PublishKeeps DEF ScanInChain
  <2> QED
    BY <2>1, <2>2 DEF Time
<1>5. CASE Read
  BY <1>5 DEF Read, NewRecords, Time
<1> QED
  BY <1>2, <1>3, <1>4, <1>5
  DEF Next, Collect, TickStep, Tick, StartRun, Visit, Backfill, Store, Signal, Mark,
      NothingNew, Leave, Fail, Crash, Interrupt, vars, process

\* A silence is reported on all there was to read, SilenceAfter after the last of it.
LEMMA SilenceIsFounded ==
    ASSUME IInv, WatchTypeOK, FromHistory, ReadIsJudged, ReportSilent
    PROVE  /\ lastBeat[current] # None /\ lastSignal[current] \in Nat
           /\ lastSignal[current] + SilenceAfter <= now
           /\ \A i \in Readable(current) :
                Time(current, i) <= lastSignal[current] \/ Time(current, i) >= now
<1>1. /\ TypeOK /\ current \in Senders /\ lastSignal[current] \in Nat
      /\ Len(chain[current]) \in Nat /\ HistoryFrom[current] \in Nat
  BY HistoryAssumption DEF IInv, TypeOK
<1>2. /\ pc = "collected" /\ lastBeat[current] # None /\ lastSignal[current] # None
      /\ lastSignal[current] + SilenceAfter <= now
  BY DEF ReportSilent, IsSilent
<1>3. ASSUME NEW i \in Readable(current)
      PROVE  Time(current, i) <= lastSignal[current] \/ Time(current, i) >= now
  <2>1. Oldest(current) \in Nat \ {0}
    BY <1>1, WindowAssumption DEF Oldest
  <2>2. i \in Positions(current)
    BY <1>1, <1>3, <2>1 DEF Readable, Live, Positions
  <2>3. Time(current, i) \in Nat
    BY <1>1, <2>2, RecordAt
  <2>4. \/ Time(current, i) <= lastSignal[current]
        \/ Time(current, i) >= now
        \/ BeforeHistory(current, i)
    BY <1>2, <1>3 DEF ReadIsJudged
  <2>5. BeforeHistory(current, i) => Time(current, i) <= lastSignal[current]
    BY <1>1, <1>2, <2>3 DEF BeforeHistory, FromHistory
  <2> QED
    BY <2>4, <2>5
<1> QED
  BY <1>1, <1>2, <1>3

\* A silence that is on disk after a step was there before, or is being reported.
LEMMA NewSilence ==
    ASSUME [WatchNext]_allVars, NEW r \in Silences', r \notin Silences
    PROVE  /\ ReportSilent
           /\ r = [site |-> current, type |-> "site_silent", at |-> now,
                   since |-> lastSignal[current]]
<1>1. r \in reports' /\ r.type = "site_silent" /\ r \notin reports
  BY DEF Silences
<1>2. CASE ReportBack
  <2>1. r = [site |-> current, type |-> "site_back", at |-> now,
             since |-> silentSince[current]]
    BY <1>1, <1>2, ReportWritten DEF ReportBack
  <2> QED
    BY <1>1, <2>1
<1>3. CASE ReportSilent
  BY <1>1, <1>3, ReportWritten DEF ReportSilent
<1> QED
  BY <1>1, <1>2, <1>3
  DEF WatchNext, allVars, watchVars, SitesGoOn, StartWatchedRun, VisitSite, ReadChain,
      CollectOn, Watch, MarkSilent, NoIssue, Stop

LEMMA SilenceStep ==
    ASSUME IInv, WatchTypeOK, FromHistory, ReadIsJudged, SilencesAreOld, NothingBetween,
           NoBackfillOfSilent, [WatchNext]_allVars
    PROVE  SilencesAreOld' /\ NothingBetween'
<1>1. ASSUME NEW r \in Silences', r \notin Silences
      PROVE  /\ UNCHANGED <<chain, lastBeat, lastSignal, now, pc>>
             /\ pc = "collected" /\ r.site = current /\ r.since = lastSignal[current]
             /\ r.at = now /\ now \in Nat
             /\ lastBeat[current] # None
             /\ lastSignal[current] + SilenceAfter <= now
             /\ \A i \in Readable(current) :
                  Time(current, i) <= lastSignal[current] \/ Time(current, i) >= now
  <2>1. /\ ReportSilent
        /\ r = [site |-> current, type |-> "site_silent", at |-> now,
                since |-> lastSignal[current]]
    BY <1>1, NewSilence
  <2>2. /\ UNCHANGED <<chain, lastBeat, lastSignal, now, pc>> /\ pc = "collected"
    BY <2>1 DEF ReportSilent, vars, store, process
  <2>3. now \in Nat
    BY DEF WatchTypeOK, TypeOK
  <2> QED
    BY <2>1, <2>2, <2>3, SilenceIsFounded
<1>2. SilencesAreOld'
  <2> SUFFICES ASSUME NEW r \in Silences'
               PROVE  /\ r.since + SilenceAfter <= r.at
                      /\ r.at <= now'
                      /\ lastBeat'[r.site] # None
                      /\ lastSignal'[r.site] = r.since \/ lastSignal'[r.site] >= r.at
    BY DEF SilencesAreOld
  <2>1. CASE r \in Silences
    BY <2>1, OldSilences DEF SilencesAreOld
  <2>2. CASE r \notin Silences
    BY <1>1, <2>2
  <2> QED
    BY <2>1, <2>2
<1>3. NothingBetween'
  <2>1. ASSUME NEW r \in Silences', NEW i \in Readable(r.site)'
        PROVE  Time(r.site, i)' <= r.since \/ Time(r.site, i)' >= r.at
    <3>1. CASE r \in Silences
      <4>1. /\ r.site \in Senders /\ r.at \in Nat
            /\ r.at <= now /\ now \in 1 .. clock
        BY <3>1, SilenceIsTyped DEF SilencesAreOld, WatchTypeOK
      <4>2. CASE i \in Readable(r.site) /\ Time(r.site, i)' = Time(r.site, i)
        BY <3>1, <4>2 DEF NothingBetween
      <4>3. CASE Time(r.site, i)' >= now
        <5>1. Time(r.site, i)' \in Nat
          <6>1. TypeOK'
            BY WatchCollects, TypeStep
          <6>2. Len(chain'[r.site]) \in Nat
            BY <4>1, <6>1 DEF TypeOK
          <6>3. Oldest(r.site)' \in Nat \ {0}
            BY <6>2, WindowAssumption DEF Oldest
          <6>4. i \in 1 .. Len(chain'[r.site])
            BY <2>1, <6>2, <6>3 DEF Readable, Live
          <6>5. chain'[r.site] \in Seq(Record)
            BY <4>1, <6>1 DEF TypeOK
          <6>6. chain'[r.site][i] \in Record
            BY <6>4, <6>5
          <6> QED
            BY <6>6 DEF Time, Record
        <5> QED
          BY <4>1, <4>3, <5>1
      <4> QED
        BY <2>1, <4>1, <4>2, <4>3, NewIsLate
    <3>2. CASE r \notin Silences
      <4>1. /\ i \in Readable(r.site) /\ Time(r.site, i)' = Time(r.site, i)
        BY <1>1, <2>1, <3>2 DEF Readable, Live, Oldest, IsText, Time
      <4> QED
        BY <1>1, <3>2, <4>1
    <3> QED
      BY <3>1, <3>2
  <2>2. ASSUME NEW r \in Silences', pc' = "store", current' = r.site, NEW i \in records'
        PROVE  Time(r.site, i)' <= r.since \/ Time(r.site, i)' >= r.at
    <3>1. r \in Silences
      BY <1>1, <2>2
    <3>2. /\ current = r.site /\ Time(r.site, i)' = Time(r.site, i)
          /\ (pc = "store" /\ i \in records) \/ i \in Readable(r.site)
      BY <2>2, ScanIsKept
    <3> QED
      BY <3>1, <3>2 DEF NothingBetween
  <2> QED
    BY <2>1, <2>2 DEF NothingBetween
<1> QED
  BY <1>2, <1>3

\* Rows are gone through again only for a site with no heartbeat, and no such
\* site was ever reported silent.
LEMMA BackfillStep ==
    ASSUME IInv, WatchTypeOK, SilencesAreOld, NoBackfillOfSilent, [WatchNext]_allVars
    PROVE  NoBackfillOfSilent'
<1> SUFFICES ASSUME pc' = "backfill", todo' # {}, NEW r \in Silences'
             PROVE  r.site # current'
  BY DEF NoBackfillOfSilent
<1>1. r \in Silences
  BY NewSilence DEF ReportSilent, vars, process
<1>2. CASE pc = "backfill" /\ todo # {} /\ current' = current
  BY <1>1, <1>2 DEF NoBackfillOfSilent
<1>3. ASSUME NEW s \in Senders, Visit(s)
      PROVE  r.site # current'
  BY <1>1, <1>3 DEF Visit, SilencesAreOld
<1>4. [Next]_vars
  BY WatchCollects
<1> QED
  BY <1>2, <1>3, <1>4
  DEF Next, Collect, TickStep, PublishStep, StartRun, Backfill, Read, Store, Signal, Mark,
      NothingNew, Leave, Fail, Crash, Interrupt, vars, process

----------------------------------------------------------------------------

\* A silence stays on disk: its report is only replaced by one that tells of it.
LEMMA SilenceStays ==
    ASSUME IInv, WatchTypeOK, FromHistory, ReadIsJudged, SilencesAreOld,
           [WatchNext]_allVars, NEW r \in Silences
    PROVE  \E q \in Silences' : q.site = r.site /\ q.since = r.since /\ q.at = r.at
<1>1. /\ r \in reports /\ r.type = "site_silent" /\ r.at \in Nat /\ r.since \in Nat
      /\ lastSignal[r.site] = r.since \/ lastSignal[r.site] >= r.at
  BY SilenceIsTyped DEF SilencesAreOld
<1>2. CASE r \in reports'
  BY <1>1, <1>2 DEF Silences
<1>3. CASE ReportBack
  <2>1. r \in reports'
    BY <1>1, <1>3, ReportWritten DEF ReportBack
  <2> QED
    BY <1>2, <2>1
<1>4. CASE ReportSilent /\ r \notin reports'
  <2> DEFINE new == [site |-> current, type |-> "site_silent", at |-> now,
                     since |-> lastSignal[current]]
  <2>1. new \in reports' /\ r.site = current /\ r.at = now
    BY <1>1, <1>4, ReportWritten DEF ReportSilent
  <2>2. lastSignal[current] \in Nat /\ lastSignal[current] + SilenceAfter <= now
    BY <1>4, SilenceIsFounded
  <2>3. lastSignal[current] = r.since
    BY <1>1, <2>1, <2>2, SilenceAssumption
  <2>4. new \in Silences' /\ new.site = r.site /\ new.since = r.since /\ new.at = r.at
    BY <2>1, <2>3 DEF Silences
  <2> QED
    BY <2>4
<1> QED
  BY <1>1, <1>2, <1>3, <1>4
  DEF WatchNext, allVars, watchVars, SitesGoOn, StartWatchedRun, VisitSite, ReadChain,
      CollectOn, Watch, MarkSilent, NoIssue, Stop

LEMMA IssueStep ==
    ASSUME IInv, WatchTypeOK, IssueIsWritten, [WatchNext]_allVars
    PROVE  IssueIsWritten'
<1> SUFFICES ASSUME issue' = "site_silent"
             PROVE  \E r \in Silences' : r.site = current' /\ r.since = lastSignal'[current']
  BY DEF IssueIsWritten
<1>1. CASE issue = "site_silent" /\ UNCHANGED <<reports, current, lastSignal>>
  BY <1>1 DEF IssueIsWritten, Silences
<1>2. CASE ReportSilent
  <2>1. [site |-> current, type |-> "site_silent", at |-> now,
         since |-> lastSignal[current]] \in Silences'
    BY <1>2, ReportWritten DEF ReportSilent, Silences
  <2> QED
    BY <1>2, <2>1 DEF ReportSilent, vars, store, process
<1>3. issue # "none" => pc = "collected"
  BY DEF WatchTypeOK
<1> QED
  BY <1>1, <1>2, <1>3
  DEF WatchNext, allVars, vars, watchVars, store, process, SitesGoOn, TickStep, PublishStep,
      StartWatchedRun, StartRun, VisitSite, Visit, ReadChain, Read, CollectOn, Backfill,
      Store, Signal, Mark, NothingNew, Watch, ReportBack, MarkSilent, NoIssue, Stop

LEMMA AnswerStep ==
    ASSUME IInv, WatchInv, [WatchNext]_allVars
    PROVE  ReportsAnswer'
<1>1. /\ WatchTypeOK /\ FromHistory /\ ReadIsJudged /\ SilencesAreOld /\ IssueIsWritten
      /\ ReportsAnswer
  BY DEF WatchInv
<1>2. /\ silentSince \in [Senders -> Nat] /\ lastSignal \in [Senders -> Nat]
      /\ current \in Senders
  BY <1>1 DEF WatchTypeOK, TypeOK
<1>3. \A r \in Silences : \E q \in Silences' :
         q.site = r.site /\ q.since = r.since /\ q.at = r.at
  BY <1>1, SilenceStays
<1>4. ASSUME NEW s \in Senders, silentSince'[s] # None
      PROVE  /\ silentSince'[s] <= lastSignal'[s]
             /\ \E r \in Silences' : r.site = s /\ r.since = silentSince'[s]
  <2>1. CASE silentSince'[s] = silentSince[s]
    <3>1. /\ silentSince[s] <= lastSignal[s]
          /\ \E r \in Silences : r.site = s /\ r.since = silentSince[s]
      BY <1>1, <1>4, <2>1 DEF ReportsAnswer, Silences
    <3>2. lastSignal[s] <= lastSignal'[s] /\ lastSignal'[s] \in Nat
      <4>1. TypeOK'
        BY WatchCollects, TypeStep
      <4> QED
        BY <4>1, WatchCollects, SignalsGrow DEF TypeOK
    <3> QED
      BY <1>2, <1>3, <2>1, <3>1, <3>2
  <2>2. CASE MarkSilent /\ s = current
    <3>1. issue = "site_silent" /\ silentSince'[s] = lastSignal[s]
      BY <1>2, <1>4, <2>2 DEF MarkSilent
    <3>2. lastSignal' = lastSignal
      BY <2>2 DEF MarkSilent, Leave, store
    <3>3. \E r \in Silences : r.site = s /\ r.since = lastSignal[s]
      BY <1>1, <2>2, <3>1 DEF IssueIsWritten
    <3> QED
      BY <1>2, <1>3, <3>1, <3>2, <3>3
  <2>3. CASE MarkSilent /\ s # current
    BY <1>2, <2>1, <2>3 DEF MarkSilent
  <2> QED
    BY <2>1, <2>2, <2>3
    DEF WatchNext, allVars, watchVars, SitesGoOn, StartWatchedRun, VisitSite, ReadChain,
        CollectOn, Watch, ReportBack, ReportSilent, NoIssue, Stop
<1>5. ASSUME NEW b \in reports', b.type = "site_back"
      PROVE  \E r \in Silences' : r.site = b.site /\ r.since = b.since /\ r.at <= b.at
  <2>1. CASE b \in reports
    BY <1>1, <1>3, <1>5, <2>1 DEF ReportsAnswer, Silences
  <2>2. CASE ReportBack /\ b \notin reports
    <3>1. b = [site |-> current, type |-> "site_back", at |-> now,
               since |-> silentSince[current]]
      BY <1>5, <2>2, ReportWritten DEF ReportBack
    <3>2. silentSince[current] # None
      BY <2>2 DEF ReportBack, IsBack
    <3>3. PICK r \in Silences : r.site = current /\ r.since = silentSince[current]
      BY <1>1, <1>2, <3>2 DEF ReportsAnswer, Silences
    <3>4. r.at <= now
      BY <1>1, <3>3 DEF SilencesAreOld
    <3> QED
      BY <1>3, <3>1, <3>3, <3>4
  <2>3. CASE ReportSilent /\ b \notin reports
    BY <1>5, <2>3, ReportWritten DEF ReportSilent
  <2> QED
    BY <1>5, <2>1, <2>2, <2>3
    DEF WatchNext, allVars, watchVars, SitesGoOn, StartWatchedRun, VisitSite, ReadChain,
        CollectOn, Watch, MarkSilent, NoIssue, Stop
<1> QED
  BY <1>4, <1>5 DEF ReportsAnswer, Silences

----------------------------------------------------------------------------

LEMMA WatchInvInit == WatchInit => WatchInv
<1> SUFFICES ASSUME WatchInit PROVE WatchInv
  OBVIOUS
<1>1. /\ Init /\ silentSince = [s \in Senders |-> None] /\ reports = {}
      /\ issue = "none"
  BY DEF WatchInit
<1>2. /\ pc = "idle" /\ records = {} /\ todo = {}
      /\ entries = [s \in Senders |-> <<>>] /\ scanned = [s \in Senders |-> None]
      /\ lastSignal = [s \in Senders |-> None] /\ chain = [s \in Senders |-> <<>>]
  BY <1>1 DEF Init, DatalogInit
<1>3. ChainsAreBounded
  <2>1. ASSUME NEW s \in Senders
        PROVE  Len(chain[s]) <= MaxRecords
    <3>1. chain[s] = <<>>
      BY <1>2, Zenon
    <3> QED
      BY <3>1, BoundsAssumption
  <2> QED
    BY <2>1, Zenon DEF ChainsAreBounded
<1>4. FromHistory
  BY <1>2 DEF FromHistory, Stored
<1>5. SilencesAreOld /\ NothingBetween /\ NoBackfillOfSilent /\ IssueIsWritten
  BY <1>1 DEF SilencesAreOld, NothingBetween, NoBackfillOfSilent, IssueIsWritten, Silences
<1>6. ReportsAnswer
  BY <1>1 DEF ReportsAnswer
<1> QED
  BY <1>2, <1>3, <1>4, <1>5, <1>6, WatchTypeInit DEF WatchInv, ReadIsJudged

\* Every step of a run, of the sites and of time keeps the invariant.
THEOREM WatchInvariance == WatchSpec => [](IInv /\ WatchInv)
<1>1. WatchInit => Init
  BY DEF WatchInit
<1>2. [WatchNext]_allVars => [Next]_vars
  BY WatchCollects
<1>3. IInv /\ WatchInv /\ [WatchNext]_allVars => WatchInv'
  <2> SUFFICES ASSUME IInv, WatchInv, [WatchNext]_allVars
               PROVE  WatchInv'
    OBVIOUS
  <2>1. WatchTypeOK' /\ ChainsAreBounded'
    BY <1>2, WatchTypeStep, BoundStep DEF WatchInv, WatchTypeOK
  <2>2. FromHistory' /\ ReadIsJudged'
    BY <1>2, HistoryStep, JudgedStep DEF WatchInv
  <2>3. SilencesAreOld' /\ NothingBetween' /\ NoBackfillOfSilent'
    BY SilenceStep, BackfillStep DEF WatchInv
  <2>4. IssueIsWritten' /\ ReportsAnswer'
    BY IssueStep, AnswerStep DEF WatchInv
  <2> QED
    BY <2>1, <2>2, <2>3, <2>4 DEF WatchInv
<1>4. WatchSpec => Spec
  BY <1>1, <1>2, PTL DEF WatchSpec, Spec
<1> QED
  BY Invariance, WatchInvInit, <1>3, <1>4, PTL DEF WatchSpec

\* Rows, signals, reports and the run's time are of their kinds, and an issue is
\* pending only in its site's turn, however runs and sites interleave.
THEOREM WatchTypeCorrect == WatchSpec => []WatchTypeOK
<1>1. WatchInv => WatchTypeOK
  BY DEF WatchInv
<1> QED
  BY WatchInvariance, <1>1, PTL

\* A silence that the store remembers is on disk, and a site_back answers a
\* site_silent of the same silence, although reports replace those of their name
\* and a run may stop between a report and the store (watch_sender,
\* write_service_report, mark_silent).
THEOREM BackAnswersSilence == WatchSpec => []ReportsAnswer
<1>1. WatchInv => ReportsAnswer
  BY DEF WatchInv
<1> QED
  BY WatchInvariance, <1>1, PTL

----------------------------------------------------------------------------
\* No false alarm.

\* A heartbeat is remembered only if its row is stored, which is why the columns
\* may be trusted, and the backfill goes through rows of its site.
BeatIsStored ==
    /\ \A s \in Senders : lastBeat[s] # None => \E i \in Stored(s) : IsBeat(s, i)
    /\ pc = "backfill" => todo \subseteq Stored(current)

\* What this run found in the ring is covered by its scan, and then by the last
\* signal, or is older than history_from.
HeardIsJudged ==
    /\ pc \in {"store", "mark", "collected"} => heard <= Len(chain[current])
    /\ pc = "store" => \A i \in Heard(current) :
        (\E last \in records : i <= last) \/ BeforeHistory(current, i)
    /\ pc \in {"mark", "collected"} => \A i \in Heard(current) :
        Time(current, i) <= lastSignal[current] \/ BeforeHistory(current, i)

LEMMA BeatStep ==
    ASSUME IInv, BeatIsStored, [Next]_vars
    PROVE  BeatIsStored'
<1> USE DEF None
<1>1. /\ TypeOK /\ ScanIsWhole /\ current \in Senders
      /\ lastBeat \in [Senders -> Nat]
  BY DEF IInv, TypeOK
<1>2. ASSUME UNCHANGED <<chain, entries, lastBeat>>,
             pc' = "backfill" => pc = "backfill" /\ current' = current /\ todo' \subseteq todo
      PROVE  BeatIsStored'
  <2>1. \A s : Stored(s)' = Stored(s) /\ \A i : IsBeat(s, i)' <=> IsBeat(s, i)
    BY <1>2 DEF Stored, IsBeat
  <2>2. pc' = "backfill" => todo' \subseteq Stored(current)'
    BY <1>2, <2>1 DEF BeatIsStored
  <2> QED
    BY <1>2, <2>1, <2>2 DEF BeatIsStored
<1>3. ASSUME NEW r \in Senders, PublishStep(r)
      PROVE  BeatIsStored'
  <2>1. UNCHANGED <<entries, lastBeat, pc, current, todo>>
    BY <1>3 DEF PublishStep, store, process
  <2>2. \A s \in Senders :
           Stored(s)' = Stored(s) /\ \A i \in Stored(s) : IsBeat(s, i)' <=> IsBeat(s, i)
    BY <1>1, <1>3, PublishKeepsRows
  <2>3. pc' = "backfill" => todo' \subseteq Stored(current)'
    BY <1>1, <2>1, <2>2 DEF BeatIsStored, Stored
  <2> QED
    BY <2>1, <2>2, <2>3 DEF BeatIsStored
<1>4. ASSUME NEW s \in Senders, Visit(s)
      PROVE  BeatIsStored'
  <2>1. /\ UNCHANGED <<chain, entries, lastBeat>> /\ current' = s
        /\ todo' \subseteq Stored(s)
    BY <1>4 DEF Visit, store
  <2>2. \A t : Stored(t)' = Stored(t) /\ \A i : IsBeat(t, i)' <=> IsBeat(t, i)
    BY <2>1 DEF Stored, IsBeat
  <2>3. todo' \subseteq Stored(current)'
    BY <2>1, <2>2
  <2> QED
    BY <2>1, <2>2, <2>3 DEF BeatIsStored
<1>5. CASE Backfill
  <2>1. PICK i \in todo :
           RecordSignal(current, Time(current, i),
               IF IsBeat(current, i) THEN Time(current, i) ELSE None)
    BY <1>5 DEF Backfill
  <2>2. /\ UNCHANGED <<chain, entries, current>> /\ pc = "backfill"
        /\ todo' \subseteq todo
    BY <1>5 DEF Backfill
  <2>3. \A t : Stored(t)' = Stored(t) /\ \A j : IsBeat(t, j)' <=> IsBeat(t, j)
    BY <2>2 DEF Stored, IsBeat
  <2>4. i \in Stored(current)
    BY <2>1, <2>2 DEF BeatIsStored
  <2>5. lastBeat'[current] # None => lastBeat[current] # None \/ IsBeat(current, i)
    BY <1>1, <2>1 DEF RecordSignal, Later
  <2>6. \A s \in Senders : s # current => lastBeat'[s] = lastBeat[s]
    BY <1>1, <2>1 DEF RecordSignal
  <2>7. ASSUME NEW s \in Senders, lastBeat'[s] # None
        PROVE  \E j \in Stored(s)' : IsBeat(s, j)'
    BY <2>3, <2>4, <2>5, <2>6, <2>7 DEF BeatIsStored
  <2>8. (pc = "backfill" => todo \subseteq Stored(current))'
    BY <2>2, <2>3 DEF BeatIsStored
  <2> QED
    BY <2>7, <2>8 DEF BeatIsStored
<1>6. CASE Store
  <2>1. UNCHANGED <<chain, lastBeat>> /\ pc' = "store"
    BY <1>6 DEF Store
  <2>2. \A s \in Senders : Stored(s) \subseteq Stored(s)'
    BY <1>1, <1>6, StoreAddsRow DEF IInv
  <2>3. \A s, i : IsBeat(s, i)' <=> IsBeat(s, i)
    BY <2>1 DEF IsBeat
  <2> QED
    BY <2>1, <2>2, <2>3 DEF BeatIsStored
<1>7. CASE Signal
  <2>1. /\ UNCHANGED <<chain, entries, current>> /\ pc = "store" /\ pc' = "mark"
        /\ todo = {}
    BY <1>7 DEF Signal
  <2>2. \A t : Stored(t)' = Stored(t) /\ \A j : IsBeat(t, j)' <=> IsBeat(t, j)
    BY <2>1 DEF Stored, IsBeat
  <2>3. records \subseteq Stored(current)
    BY <1>1, <2>1 DEF ScanIsWhole
  <2>4. \/ \E beat \in records : IsBeat(current, beat)
        \/ lastBeat' = lastBeat
    BY <1>1, <1>7 DEF Signal, RecordSignal, Later
  <2>5. \A s \in Senders : s # current => lastBeat'[s] = lastBeat[s]
    BY <1>1, <1>7 DEF Signal, RecordSignal
  <2>6. ASSUME NEW s \in Senders, lastBeat'[s] # None
        PROVE  \E j \in Stored(s)' : IsBeat(s, j)'
    BY <2>2, <2>3, <2>4, <2>5, <2>6 DEF BeatIsStored
  <2> QED
    BY <2>1, <2>6 DEF BeatIsStored
<1>8. CASE UNCHANGED vars
  BY <1>2, <1>8 DEF vars, store, process
<1> QED
  BY <1>2, <1>3, <1>4, <1>5, <1>6, <1>7, <1>8
  DEF Next, Collect, TickStep, Tick, StartRun, Read, Mark, NothingNew, Leave, Fail, Crash,
      Interrupt, store, process

\* What was read stays as it is while the site publishes.
LEMMA HeardStays ==
    ASSUME TypeOK, WatchTypeOK, NEW r \in Senders, PublishStep(r),
           heard <= Len(chain[current]), heard' = heard
    PROVE  /\ heard' <= Len(chain'[current])
           /\ \A i \in Heard(current)' :
                i \in Heard(current) /\ Time(current, i)' = Time(current, i)
<1>1. current \in Senders /\ current' = current /\ heard \in Nat
  BY BoundsAssumption DEF TypeOK, WatchTypeOK, PublishStep, process
<1>2. /\ Len(chain[current]) \in Nat /\ Len(chain'[current]) \in Nat
      /\ Len(chain[current]) <= Len(chain'[current])
  BY <1>1, PublishGrows
<1>3. \A i \in Positions(current) : chain'[current][i] = chain[current][i]
  BY <1>1, PublishKeeps
<1>4. ASSUME NEW i \in Heard(current)'
      PROVE  i \in Heard(current) /\ Time(current, i)' = Time(current, i)
  <2>1. i \in 1 .. Len(chain'[current]) /\ i <= heard /\ heard <= i + WindowSize - 2
    BY <1>1, <1>4 DEF Heard, Positions
  <2>2. i \in Positions(current)
    BY <1>1, <1>2, <2>1 DEF Positions
  <2>3. IsText(current, i)'
    BY <1>4 DEF Heard
  <2> QED
    BY <1>1, <1>3, <2>1, <2>2, <2>3 DEF Heard, IsText, Time
<1> QED
  BY <1>1, <1>2, <1>4

LEMMA HeardStep ==
    ASSUME IInv, WatchTypeOK, HeardIsJudged, [WatchNext]_allVars
    PROVE  HeardIsJudged'
<1> USE DEF None
<1>1. /\ TypeOK /\ ChainInOrder /\ ScanInChain /\ current \in Senders
      /\ lastSignal \in [Senders -> Nat] /\ Len(chain[current]) \in Nat
      /\ heard \in Nat
  BY BoundsAssumption DEF IInv, TypeOK, WatchTypeOK
<1>2. CASE UNCHANGED <<chain, current, pc, records, lastSignal, heard>>
  <2>1. Heard(current)' = Heard(current)
    BY <1>2 DEF Heard, Positions, IsText
  <2> QED
    BY <1>2, <2>1 DEF HeardIsJudged, BeforeHistory, Time
<1>3. CASE pc' \in {"idle", "backfill"}
  BY <1>3 DEF HeardIsJudged
<1>4. ASSUME NEW r \in Senders, PublishStep(r), UNCHANGED heard
      PROVE  HeardIsJudged'
  <2>1. UNCHANGED <<current, pc, records, lastSignal>>
    BY <1>4 DEF PublishStep, store, process
  <2>2. CASE pc \in {"store", "mark", "collected"}
    <3>1. heard <= Len(chain[current])
      BY <2>2 DEF HeardIsJudged
    <3>2. /\ heard' <= Len(chain'[current])
          /\ \A i \in Heard(current)' :
                i \in Heard(current) /\ Time(current, i)' = Time(current, i)
      BY <1>1, <1>4, <3>1, HeardStays
    <3> QED
      BY <2>1, <3>2 DEF HeardIsJudged, BeforeHistory
  <2>3. CASE pc \notin {"store", "mark", "collected"}
    BY <2>1, <2>3 DEF HeardIsJudged
  <2> QED
    BY <2>2, <2>3
<1>5. CASE ReadChain
  <2>1. /\ Read /\ pc' = "store" /\ UNCHANGED <<chain, current>>
        /\ heard' = Len(chain[current])
    BY <1>5 DEF ReadChain, Read
  <2>2. ASSUME NEW i \in Heard(current)'
        PROVE  i \in Readable(current)
    <3>1. /\ i \in 1 .. Len(chain[current]) /\ IsText(current, i)
          /\ Len(chain[current]) <= i + WindowSize - 2
      BY <2>1, <2>2 DEF Heard, Positions, IsText
    <3>2. i >= Oldest(current) /\ Oldest(current) \in Nat
      BY <1>1, <3>1, WindowAssumption DEF Oldest
    <3> QED
      BY <1>1, <3>1, <3>2 DEF Readable, Live
  <2>3. \A i \in Readable(current) :
           (\E last \in records' : i <= last) \/ BeforeHistory(current, i)
    BY <2>1, ReadCovers
  <2>4. \A i : BeforeHistory(current, i)' <=> BeforeHistory(current, i)
    BY <2>1 DEF BeforeHistory, Time
  <2> QED
    BY <1>1, <2>1, <2>2, <2>3, <2>4 DEF HeardIsJudged
<1>6. CASE Signal /\ UNCHANGED heard
  <2>1. PICK last \in records :
          /\ \A i \in records : i <= last
          /\ \/ \E beat \in records :
                  RecordSignal(current, Time(current, last), Time(current, beat))
             \/ RecordSignal(current, Time(current, last), None)
    BY <1>6 DEF Signal
  <2>2. /\ UNCHANGED <<chain, current, records>>
        /\ pc = "store" /\ pc' = "mark"
    BY <1>6 DEF Signal
  <2>3. /\ last \in Positions(current) /\ records \subseteq Positions(current)
        /\ Time(current, last) \in Nat
    BY <1>1, <2>1, RecordAt DEF ScanInChain
  <2>4. /\ lastSignal'[current] \in Nat
        /\ Time(current, last) <= lastSignal'[current]
    BY <1>1, <2>1, <2>3 DEF RecordSignal, Later
  <2>5. Heard(current)' = Heard(current)
    BY <1>6, <2>2 DEF Heard, Positions, IsText
  <2>6. ASSUME NEW i \in Heard(current)
        PROVE  Time(current, i) <= lastSignal'[current] \/ BeforeHistory(current, i)
    <3>1. ASSUME NEW other \in records, i <= other
          PROVE  Time(current, i) <= lastSignal'[current]
      <4>1. i \in Positions(current) /\ i <= last
        BY <2>1, <2>3, <2>6, <3>1 DEF Heard, Positions
      <4>2. Time(current, i) <= Time(current, last) /\ Time(current, i) \in Nat
        BY <1>1, <2>3, <4>1, RecordAt DEF ChainInOrder
      <4> QED
        BY <2>3, <2>4, <4>2
    <3> QED
      BY <2>2, <2>6, <3>1 DEF HeardIsJudged
  <2> QED
    BY <1>6, <2>2, <2>5, <2>6 DEF HeardIsJudged, BeforeHistory, Time
<1>7. CASE (Mark \/ NothingNew) /\ UNCHANGED heard
  <2>1. /\ UNCHANGED <<chain, current, records, lastSignal>>
        /\ pc' = "collected"
        /\ pc = "mark" \/ (pc = "store" /\ records = {})
    BY <1>7 DEF Mark, NothingNew, store
  <2>2. Heard(current)' = Heard(current)
    BY <1>7, <2>1 DEF Heard, Positions, IsText
  <2> QED
    BY <1>7, <2>1, <2>2 DEF HeardIsJudged, BeforeHistory, Time
<1> QED
  <2>1. CASE SitesGoOn
    BY <1>2, <1>4, <2>1 DEF SitesGoOn, watchVars, TickStep, Tick, store, process
  <2>2. CASE StartWatchedRun \/ (\E s \in Senders : VisitSite(s)) \/ MarkSilent
             \/ NoIssue \/ Stop
    BY <1>3, <2>2
    DEF StartWatchedRun, StartRun, VisitSite, Visit, MarkSilent, NoIssue, Leave, Stop, Fail,
        Crash, Interrupt
  <2>3. CASE CollectOn
    <3>1. heard' = heard
      BY <2>3 DEF CollectOn, watchVars
    <3>2. CASE Backfill
      BY <1>3, <3>2 DEF Backfill
    <3>3. CASE Store
      BY <1>2, <3>1, <3>3 DEF Store
    <3> QED
      BY <1>6, <1>7, <2>3, <3>1, <3>2, <3>3 DEF CollectOn
  <2>4. CASE ReportBack \/ ReportSilent \/ UNCHANGED allVars
    BY <1>2, <2>4
    DEF ReportBack, ReportSilent, allVars, vars, watchVars, store, process
  <2> QED
    BY <1>5, <2>1, <2>2, <2>3, <2>4 DEF WatchNext, Watch

\* A site is reported silent only if all that the run found in its datalog is at
\* least SILENCE_AFTER old and a heartbeat of it is stored, for every registry,
\* ring, history and number of interruptions (silence_issue, by columns that may
\* be from an earlier run).
THEOREM NoAlarmIsFalse == WatchSpec => NoFalseAlarm
<1> DEFINE AllQuiet ==
        \A r \in reports' \ reports : r.type = "site_silent" =>
            /\ \E i \in Stored(r.site) : IsBeat(r.site, i)
            /\ \A i \in Heard(r.site) : Time(r.site, i) + SilenceAfter <= now
<1>1. WatchInit => Init /\ BeatIsStored /\ HeardIsJudged
  BY DEF WatchInit, Init, BeatIsStored, HeardIsJudged
<1>2. IInv /\ BeatIsStored /\ [WatchNext]_allVars => BeatIsStored'
  BY BeatStep, WatchCollects
<1>3. IInv /\ WatchInv /\ HeardIsJudged /\ [WatchNext]_allVars => HeardIsJudged'
  BY HeardStep DEF WatchInv
<1>4. ASSUME IInv, WatchInv, BeatIsStored, HeardIsJudged, [WatchNext]_allVars
      PROVE  AllQuiet
  <2> SUFFICES ASSUME NEW r \in reports' \ reports, r.type = "site_silent"
               PROVE  /\ \E i \in Stored(r.site) : IsBeat(r.site, i)
                      /\ \A i \in Heard(r.site) : Time(r.site, i) + SilenceAfter <= now
    OBVIOUS
  <2>1. r \in Silences' /\ r \notin Silences
    BY DEF Silences
  <2>2. ReportSilent /\ r.site = current
    BY <1>4, <2>1, NewSilence
  <2>3. /\ lastBeat[current] # None /\ lastSignal[current] \in Nat
        /\ lastSignal[current] # None /\ lastSignal[current] + SilenceAfter <= now
        /\ pc = "collected"
    BY <1>4, <2>2, SilenceIsFounded DEF ReportSilent, IsSilent, WatchInv
  <2>4. current \in Senders /\ now \in Nat /\ HistoryFrom[current] \in Nat /\ TypeOK
    BY <1>4, HistoryAssumption DEF IInv, TypeOK, WatchInv, WatchTypeOK, None
  <2>5. \E i \in Stored(current) : IsBeat(current, i)
    BY <1>4, <2>3, <2>4 DEF BeatIsStored
  <2>6. ASSUME NEW i \in Heard(current)
        PROVE  Time(current, i) + SilenceAfter <= now
    <3>1. Time(current, i) \in Nat
      BY <2>4, <2>6, RecordAt DEF Heard
    <3>2. Time(current, i) <= lastSignal[current] \/ BeforeHistory(current, i)
      BY <1>4, <2>3, <2>6 DEF HeardIsJudged
    <3>3. BeforeHistory(current, i) => Time(current, i) <= lastSignal[current]
      BY <1>4, <2>3, <2>4, <3>1 DEF BeforeHistory, FromHistory, WatchInv
    <3> QED
      BY <2>3, <2>4, <3>1, <3>2, <3>3, SilenceAssumption
  <2> QED
    BY <2>2, <2>5, <2>6
<1> HIDE DEF AllQuiet
<1>5. IInv /\ WatchInv /\ BeatIsStored /\ HeardIsJudged /\ [WatchNext]_allVars
        => [AllQuiet]_allVars
  BY <1>4
<1>6. WatchSpec => [](BeatIsStored /\ HeardIsJudged)
  BY WatchInvariance, <1>1, <1>2, <1>3, PTL DEF WatchSpec
<1>7. WatchSpec => [][AllQuiet]_allVars
  BY WatchInvariance, <1>5, <1>6, PTL DEF WatchSpec
<1> QED
  BY <1>7 DEF NoFalseAlarm, AllQuiet

----------------------------------------------------------------------------
\* No missed alarm.

\* The last signal is the time of a row, and a site with a heartbeat has one.
SignalIsStored ==
    \A s \in Senders :
        /\ lastSignal[s] # None => \E i \in Stored(s) : Time(s, i) = lastSignal[s]
        /\ lastBeat[s] # None => lastSignal[s] # None

\* A site_back that is not yet remembered is on disk, too.
BackIsWritten ==
    issue = "site_back" =>
        \E r \in reports : r.site = current /\ r.type = "site_back" /\ r.at = now

\* A signal recorded for a row is that of a row, as was the one before.
LEMMA RecordsRow ==
    ASSUME TypeOK, SignalIsStored, UNCHANGED <<chain, entries>>,
           NEW i \in Stored(current), NEW beat \in Nat,
           RecordSignal(current, Time(current, i), beat)
    PROVE  SignalIsStored'
<1> USE DEF None
<1>1. /\ current \in Senders /\ lastSignal \in [Senders -> Nat]
      /\ lastBeat \in [Senders -> Nat]
  BY DEF TypeOK
<1>2. Time(current, i) \in Nat \ {0}
  BY <1>1, RecordAt DEF TypeOK, RowsInChain
<1>3. \A s : Stored(s)' = Stored(s) /\ \A j : Time(s, j)' = Time(s, j)
  BY DEF Stored, Time
<1>4. ASSUME NEW s \in Senders, s # current
      PROVE  lastSignal'[s] = lastSignal[s] /\ lastBeat'[s] = lastBeat[s]
  BY <1>1, <1>4 DEF RecordSignal
<1>5. lastSignal'[current] = Later(lastSignal[current], Time(current, i))
  BY <1>1 DEF RecordSignal
<1>6. CASE lastSignal[current] < Time(current, i)
  <2>1. lastSignal'[current] = Time(current, i) /\ lastSignal'[current] # None
    BY <1>2, <1>5, <1>6 DEF Later
  <2> QED
    BY <1>3, <1>4, <2>1 DEF SignalIsStored
<1>7. CASE ~(lastSignal[current] < Time(current, i))
  <2>1. lastSignal'[current] = lastSignal[current] /\ lastSignal[current] # None
    BY <1>1, <1>2, <1>5, <1>7 DEF Later
  <2> QED
    BY <1>3, <1>4, <2>1 DEF SignalIsStored
<1> QED
  BY <1>6, <1>7

LEMMA SignalStoredStep ==
    ASSUME IInv, BeatIsStored, SignalIsStored, [Next]_vars
    PROVE  SignalIsStored'
<1>1. /\ TypeOK /\ ScanIsWhole /\ current \in Senders
  BY DEF IInv, TypeOK
<1>2. CASE UNCHANGED <<chain, entries, lastSignal, lastBeat>>
  BY <1>2 DEF SignalIsStored, Stored, Time
<1>3. ASSUME NEW r \in Senders, PublishStep(r)
      PROVE  SignalIsStored'
  <2>1. UNCHANGED <<lastSignal, lastBeat>>
    BY <1>3 DEF PublishStep, store
  <2>2. \A s \in Senders :
           Stored(s)' = Stored(s) /\ \A i \in Stored(s) : Time(s, i)' = Time(s, i)
    BY <1>1, <1>3, PublishKeepsRows
  <2> QED
    BY <2>1, <2>2 DEF SignalIsStored
<1>4. CASE Backfill
  <2>1. PICK i \in todo :
           RecordSignal(current, Time(current, i),
               IF IsBeat(current, i) THEN Time(current, i) ELSE None)
    BY <1>4 DEF Backfill
  <2>2. UNCHANGED <<chain, entries>> /\ i \in Stored(current)
    BY <1>4, <2>1 DEF Backfill, BeatIsStored
  <2>3. Time(current, i) \in Nat
    BY <1>1, <2>2, RecordAt DEF TypeOK, RowsInChain
  <2>4. (IF IsBeat(current, i) THEN Time(current, i) ELSE None) \in Nat
    BY <2>3 DEF None
  <2> QED
    BY <1>1, <2>1, <2>2, <2>4, RecordsRow
<1>5. CASE Store
  <2>1. UNCHANGED <<chain, lastSignal, lastBeat>>
    BY <1>5 DEF Store
  <2>2. \A s \in Senders : Stored(s) \subseteq Stored(s)'
    BY <1>1, <1>5, StoreAddsRow DEF IInv
  <2> QED
    BY <2>1, <2>2 DEF SignalIsStored, Time
<1>6. CASE Signal
  <2>1. /\ UNCHANGED <<chain, entries>>
        /\ \A i \in records : i \in Stored(current)
    BY <1>1, <1>6 DEF Signal, ScanIsWhole
  <2>2. PICK last \in records :
          \/ \E beat \in records :
                RecordSignal(current, Time(current, last), Time(current, beat))
          \/ RecordSignal(current, Time(current, last), None)
    BY <1>6 DEF Signal
  <2>3. \A i \in records : Time(current, i) \in Nat
    BY <1>1, <2>1, RecordAt DEF TypeOK, RowsInChain
  <2>4. PICK beat \in Nat : RecordSignal(current, Time(current, last), beat)
    BY <2>2, <2>3 DEF None
  <2> QED
    BY <1>1, <2>1, <2>4, RecordsRow
<1> QED
  BY <1>2, <1>3, <1>4, <1>5, <1>6
  DEF Next, Collect, TickStep, Tick, StartRun, Visit, Read, Mark, NothingNew, Leave, Fail,
      Crash, Interrupt, vars, store, process

LEMMA BackStep ==
    ASSUME WatchTypeOK, BackIsWritten, [WatchNext]_allVars
    PROVE  BackIsWritten'
<1> SUFFICES ASSUME issue' = "site_back"
             PROVE  \E r \in reports' :
                       r.site = current' /\ r.type = "site_back" /\ r.at = now'
  BY DEF BackIsWritten
<1>1. CASE issue = "site_back" /\ UNCHANGED <<reports, current, now>>
  BY <1>1 DEF BackIsWritten
<1>2. CASE ReportBack
  <2>1. [site |-> current, type |-> "site_back", at |-> now,
         since |-> silentSince[current]] \in reports'
    BY <1>2, ReportWritten DEF ReportBack
  <2> QED
    BY <1>2, <2>1 DEF ReportBack, vars, process
<1>3. issue # "none" => pc = "collected"
  BY DEF WatchTypeOK
<1> QED
  BY <1>1, <1>2, <1>3
  DEF WatchNext, allVars, vars, watchVars, store, process, SitesGoOn, TickStep, PublishStep,
      StartWatchedRun, StartRun, VisitSite, Visit, ReadChain, Read, CollectOn, Backfill,
      Store, Signal, Mark, NothingNew, Watch, ReportSilent, MarkSilent, NoIssue, Stop

\* A turn that was not interrupted ends where the watch of the site ends.
LEMMA TurnEndsWatched ==
    ASSUME WatchTypeOK, [WatchNext]_allVars, pc = "collected", pc' = "idle",
           interrupts' = interrupts
    PROVE  MarkSilent \/ NoIssue
<1>1. interrupts \in Nat
  BY InterruptsAssumption DEF WatchTypeOK, TypeOK
<1>2. ~Stop
  BY <1>1 DEF Stop, Fail, Crash, Interrupt
<1> QED
  BY <1>2
  DEF WatchNext, allVars, vars, process, SitesGoOn, TickStep, PublishStep, StartWatchedRun,
      StartRun, VisitSite, Visit, ReadChain, Read, CollectOn, Backfill, Store, Signal, Mark,
      NothingNew, Watch, ReportBack, ReportSilent

\* Whatever earlier runs stored without recording it, a site with a heartbeat and
\* nothing but old rows is told to be silent in its turn, or was before and still
\* is, or is told to be back (watch_sender, silence_issue, back_issue).
THEOREM NoAlarmIsMissed == WatchSpec => NoMissedAlarm
<1> DEFINE Told ==
        /\ pc = "collected" /\ pc' = "idle" /\ interrupts' = interrupts
        /\ \E i \in Stored(current) : IsBeat(current, i)
        /\ \A i \in Stored(current) : Time(current, i) + SilenceAfter <= now
        => \E r \in reports :
             /\ r.site = current
             /\ \/ /\ r.type = "site_silent" /\ r.since = lastSignal[current]
                   /\ silentSince'[current] = r.since
                \/ r.type = "site_back" /\ r.at = now
<1>1. WatchInit => Init /\ BeatIsStored /\ SignalIsStored /\ BackIsWritten
  BY DEF WatchInit, Init, BeatIsStored, SignalIsStored, BackIsWritten
<1>2. IInv /\ BeatIsStored /\ SignalIsStored /\ [WatchNext]_allVars
        => BeatIsStored' /\ SignalIsStored'
  BY BeatStep, SignalStoredStep, WatchCollects
<1>3. WatchInv /\ BackIsWritten /\ [WatchNext]_allVars => BackIsWritten'
  BY BackStep DEF WatchInv
<1>4. ASSUME IInv, WatchInv, SignalInv, SignalIsStored, BackIsWritten, [WatchNext]_allVars
      PROVE  Told
  <2> SUFFICES ASSUME pc = "collected", pc' = "idle", interrupts' = interrupts,
                      \E i \in Stored(current) : IsBeat(current, i),
                      \A i \in Stored(current) : Time(current, i) + SilenceAfter <= now
               PROVE  \E r \in reports :
                        /\ r.site = current
                        /\ \/ /\ r.type = "site_silent" /\ r.since = lastSignal[current]
                              /\ silentSince'[current] = r.since
                           \/ r.type = "site_back" /\ r.at = now
    OBVIOUS
  <2>1. /\ WatchTypeOK /\ ReportsAnswer /\ IssueIsWritten /\ current \in Senders
        /\ lastSignal \in [Senders -> Nat] /\ silentSince \in [Senders -> Nat]
        /\ issue \in {"none", "site_silent", "site_back"}
    BY <1>4 DEF WatchInv, WatchTypeOK, TypeOK
  <2>2. lastBeat[current] # None /\ lastSignal[current] # None
    BY <1>4, <2>1 DEF SignalInv, BeatIsKnown, SignalIsStored
  <2>3. lastSignal[current] + SilenceAfter <= now
    BY <1>4, <2>1, <2>2 DEF SignalIsStored
  <2>4. CASE MarkSilent
    <3>1. CASE issue = "site_silent"
      BY <1>4, <2>1, <2>4, <3>1 DEF MarkSilent, IssueIsWritten, Silences
    <3>2. CASE issue = "site_back"
      BY <1>4, <3>2 DEF BackIsWritten
    <3> QED
      BY <2>1, <2>4, <3>1, <3>2 DEF MarkSilent
  <2>5. CASE NoIssue
    <3>1. silentSince[current] # None /\ ~(silentSince[current] < lastSignal[current])
      BY <2>2, <2>3, <2>5 DEF NoIssue, IsSilent, IsBack
    <3>2. silentSince[current] <= lastSignal[current]
      BY <2>1, <3>1 DEF ReportsAnswer
    <3>3. silentSince[current] = lastSignal[current]
      BY <2>1, <3>1, <3>2
    <3>4. silentSince' = silentSince
      BY <2>5 DEF NoIssue, watchVars
    <3> QED
      BY <2>1, <3>1, <3>3, <3>4 DEF ReportsAnswer
  <2> QED
    BY <1>4, <2>1, <2>4, <2>5, TurnEndsWatched
<1> HIDE DEF Told
<1>5. IInv /\ WatchInv /\ SignalInv /\ SignalIsStored /\ BackIsWritten
        /\ [WatchNext]_allVars => [Told]_allVars
  BY <1>4
<1>6. WatchSpec => Spec
  BY <1>1, WatchCollects, PTL DEF WatchSpec, Spec
<1>7. WatchSpec => []SignalInv
  BY SignalInvariance, <1>6, PTL
<1>8. WatchSpec => [](BeatIsStored /\ SignalIsStored /\ BackIsWritten)
  BY WatchInvariance, <1>1, <1>2, <1>3, PTL DEF WatchSpec
<1>9. WatchSpec => [][Told]_allVars
  BY WatchInvariance, <1>5, <1>7, <1>8, PTL DEF WatchSpec
<1> QED
  BY <1>9 DEF NoMissedAlarm, Told
=============================================================================
