---------------------------- MODULE SignalProofs ----------------------------
(***************************************************************************)
(* Signals and cursors are in step with the rows of a site, for every      *)
(* registry, ring and number of interruptions: record_signal covers what a *)
(* scan stored, backfill_signal what an earlier run left unrecorded, and   *)
(* mark_sender_scanned passes over nothing that has no row.                *)
(***************************************************************************)
EXTENDS CollectionProofs

\* Only text of a site has a row (as_record drops the rest).
RowsAreText == \A s \in Senders : \A i \in Stored(s) : IsText(s, i)

\* A scan that returned something ends no earlier than any row.
ScanEndsLate ==
    pc \in {"store", "mark"} /\ records # {} =>
        \A i \in Stored(current) : \E last \in records : i <= last

\* From record_signal on, the last signal covers the rows.
SignalIsLate ==
    pc \in {"mark", "collected"} /\ records # {} =>
        \A i \in Stored(current) : Time(current, i) <= lastSignal[current]

\* A stored heartbeat is known, or the backfill or the scan still has it to tell.
BeatIsKnown ==
    /\ pc = "backfill" =>
        \A i \in Stored(current) : IsBeat(current, i) => lastBeat[current] # None \/ i \in todo
    /\ pc = "store" =>
        \A i \in Stored(current) : IsBeat(current, i) => lastBeat[current] # None \/ i \in records
    /\ pc \in {"mark", "collected"} =>
        \A i \in Stored(current) : IsBeat(current, i) => lastBeat[current] # None

SignalInv == RowsAreText /\ ScanEndsLate /\ SignalIsLate /\ BeatIsKnown

\* What is read covers all rows: those still in the ring are read or older than
\* what is, those gone from it are older.
LEMMA ReadEndsLate ==
    ASSUME IInv, RowsAreText, Read, records' # {}, NEW i \in Stored(current)
    PROVE  \E last \in records' : i <= last
<1> USE DEF None
<1>1. /\ TypeOK /\ ChainInOrder /\ current \in Senders
      /\ i \in Positions(current) /\ IsText(current, i)
      /\ Len(chain[current]) \in Nat
  BY DEF IInv, TypeOK, RowsInChain, RowsAreText
<1>2. records' = NewRecords(current, StartOfRead(current))
  BY DEF Read
<1>3. PICK r : r \in records'
  OBVIOUS
<1>4. Oldest(current) \in Nat \ {0}
  BY <1>1, WindowAssumption DEF Oldest
<1>5. r \in Readable(current) /\ r \in Positions(current) /\ r >= Oldest(current)
  BY <1>1, <1>2, <1>3, <1>4 DEF NewRecords, Readable, Live, Positions
<1>6. i \in Nat /\ r \in Nat
  BY <1>1, <1>5 DEF Positions
<1>7. CASE i < Oldest(current)
  BY <1>3, <1>4, <1>5, <1>6, <1>7
<1>8. CASE ~(i < Oldest(current))
  <2>1. i \in Readable(current)
    BY <1>1, <1>4, <1>6, <1>8 DEF Readable, Live, Positions
  <2>2. CASE StartOfRead(current) = None
    <3>1. i <= r
      BY <1>2, <1>3, <2>1, <2>2 DEF NewRecords
    <3> QED
      BY <1>3, <3>1
  <2>3. CASE StartOfRead(current) # None
    <3>1. /\ Time(current, i) \in Nat /\ Time(current, r) \in Nat
          /\ StartOfRead(current) \in Nat
      <4>1. scanned[current] # None => scanned[current] \in Positions(current)
        BY <1>1 DEF TypeOK, RowsInChain, Positions
      <4>2. Cursor(current) \in Nat
        BY <1>1, <4>1, RecordAt DEF Cursor
      <4> QED
        BY <1>1, <1>5, <4>2, RecordAt, HistoryAssumption DEF StartOfRead
    <3>2. Time(current, r) >= StartOfRead(current)
      BY <1>2, <1>3, <2>3 DEF NewRecords
    <3>3. CASE Time(current, i) >= StartOfRead(current)
      <4>1. i \in records'
        BY <1>2, <2>1, <2>3, <3>3 DEF NewRecords
      <4> QED
        BY <1>6, <4>1
    <3>4. CASE Time(current, i) < StartOfRead(current)
      <4>1. ~(r <= i)
        BY <1>1, <1>5, <3>1, <3>2, <3>4 DEF ChainInOrder
      <4> QED
        BY <1>3, <1>6, <4>1
    <3> QED
      BY <3>1, <3>3, <3>4
  <2> QED
    BY <2>2, <2>3
<1> QED
  BY <1>7, <1>8

\* Rows, times and kinds of stored records stay while a site writes.
LEMMA PublishKeepsRows ==
    ASSUME TypeOK, NEW r \in Senders, PublishStep(r), NEW s \in Senders
    PROVE  /\ Stored(s)' = Stored(s)
           /\ \A i \in Stored(s) : /\ IsText(s, i)' <=> IsText(s, i)
                                   /\ IsBeat(s, i)' <=> IsBeat(s, i)
                                   /\ Time(s, i)' = Time(s, i)
<1>1. \A i \in Positions(s) : chain'[s][i] = chain[s][i]
  BY PublishKeeps
<1>2. Stored(s)' = Stored(s)
  BY DEF PublishStep, store, Stored
<1>3. Stored(s) \subseteq Positions(s)
  BY DEF TypeOK, RowsInChain
<1> QED
  BY <1>1, <1>2, <1>3 DEF IsText, IsBeat, Time

LEMMA SignalInvStep ==
    ASSUME IInv, SignalInv, [Next]_vars
    PROVE  SignalInv'
<1> USE DEF None
<1>1. /\ TypeOK /\ ChainInOrder /\ ScanIsWhole /\ ScanInChain /\ RowsInChain
      /\ RowsAreText /\ ScanEndsLate /\ SignalIsLate /\ BeatIsKnown
      /\ current \in Senders
      /\ lastSignal \in [Senders -> Nat] /\ lastBeat \in [Senders -> Nat]
  BY DEF IInv, TypeOK, SignalInv
<1>2. \A s \in Senders : \A i \in Stored(s) : Time(s, i) \in Nat \ {0} /\ i \in Nat
  BY <1>1, RecordAt DEF RowsInChain, Positions
<1>3. CASE UNCHANGED <<chain, entries, lastSignal, lastBeat, current, pc, records, todo>>
  <2>1. RowsAreText'
    BY <1>1, <1>3 DEF RowsAreText, Stored, IsText
  <2>2. /\ Stored(current)' = Stored(current)
        /\ \A i : /\ IsBeat(current, i)' <=> IsBeat(current, i)
                  /\ Time(current, i)' = Time(current, i)
    BY <1>3 DEF Stored, IsBeat, Time
  <2>3. ScanEndsLate' /\ SignalIsLate' /\ BeatIsKnown'
    BY <1>1, <1>3, <2>2 DEF ScanEndsLate, SignalIsLate, BeatIsKnown
  <2> QED
    BY <2>1, <2>3 DEF SignalInv
<1>4. ASSUME NEW r \in Senders, PublishStep(r)
      PROVE  SignalInv'
  <2>1. UNCHANGED <<lastSignal, lastBeat, current, pc, records, todo>>
    BY <1>4 DEF PublishStep, store, process
  <2>2. \A s \in Senders :
          /\ Stored(s)' = Stored(s)
          /\ \A i \in Stored(s) : /\ IsText(s, i)' <=> IsText(s, i)
                                  /\ IsBeat(s, i)' <=> IsBeat(s, i)
                                  /\ Time(s, i)' = Time(s, i)
    BY <1>1, <1>4, PublishKeepsRows
  <2>3. /\ Stored(current)' = Stored(current)
        /\ \A i \in Stored(current) : /\ IsBeat(current, i)' <=> IsBeat(current, i)
                                      /\ Time(current, i)' = Time(current, i)
    <3>1. Stored(current)' = Stored(current)
      BY <1>4, <2>1 DEF PublishStep, store, Stored
    <3>2. \A i \in Stored(current) : chain'[current][i] = chain[current][i]
      BY <1>1, <1>4, PublishKeeps DEF RowsInChain
    <3> QED
      BY <2>1, <3>1, <3>2 DEF IsBeat, Time
  <2>4. RowsAreText'
    BY <1>1, <2>2 DEF RowsAreText
  <2>5. ScanEndsLate'
    BY <1>1, <2>1, <2>3 DEF ScanEndsLate
  <2>6. SignalIsLate'
    BY <1>1, <2>1, <2>3 DEF SignalIsLate
  <2>7. BeatIsKnown'
    BY <1>1, <2>1, <2>3 DEF BeatIsKnown
  <2> QED
    BY <2>4, <2>5, <2>6, <2>7 DEF SignalInv
<1>5. ASSUME NEW enabled \in SUBSET Senders, StartRun(enabled)
      PROVE  SignalInv'
  <2>1. UNCHANGED <<chain, entries, lastSignal, lastBeat, current, pc, records, todo>>
    BY <1>5 DEF StartRun, store
  <2> QED
    BY <1>3, <2>1
<1>6. ASSUME NEW s \in Senders, Visit(s)
      PROVE  SignalInv'
  <2>1. /\ UNCHANGED <<chain, entries, lastBeat>>
        /\ current' = s /\ pc' = "backfill"
        /\ todo' = IF lastBeat[s] = None THEN Stored(s) ELSE {}
    BY <1>6 DEF Visit, store
  <2>2. RowsAreText'
    BY <1>1, <2>1 DEF RowsAreText, IsText, Stored
  <2>3. \A i \in Stored(s) : lastBeat[s] # None \/ i \in todo'
    BY <2>1
  <2>4. Stored(current)' = Stored(s)
    BY <2>1 DEF Stored
  <2>5. BeatIsKnown'
    BY <2>1, <2>3, <2>4 DEF BeatIsKnown
  <2> QED
    BY <2>1, <2>2, <2>5 DEF SignalInv, ScanEndsLate, SignalIsLate
<1>7. CASE Backfill
  <2>1. PICK i \in todo :
          /\ todo' = todo \ {i}
          /\ RecordSignal(current, Time(current, i),
                 IF IsBeat(current, i) THEN Time(current, i) ELSE None)
    BY <1>7 DEF Backfill
  <2>2. /\ UNCHANGED <<chain, entries, current, pc, records>>
        /\ pc = "backfill"
    BY <1>7 DEF Backfill
  <2>3. Time(current, i) \in Nat \ {0}
    BY <1>1, <2>1, RecordAt DEF ScanInChain
  <2>4. /\ lastBeat[current] # None => lastBeat'[current] # None
        /\ IsBeat(current, i) => lastBeat'[current] # None
    BY <1>1, <2>1, <2>3 DEF RecordSignal, Later
  <2>5. \A t : Stored(t)' = Stored(t)
    BY <2>2 DEF Stored
  <2> QED
    BY <1>1, <2>1, <2>2, <2>4, <2>5
    DEF SignalInv, RowsAreText, ScanEndsLate, SignalIsLate, BeatIsKnown, IsText, IsBeat
<1>8. CASE Read
  <2>1. /\ UNCHANGED <<chain, entries, lastBeat, current>>
        /\ pc = "backfill" /\ todo = {} /\ pc' = "store"
    BY <1>8 DEF Read, store
  <2>2. \A t : Stored(t)' = Stored(t)
    BY <2>1 DEF Stored
  <2>3. ScanEndsLate'
    BY <1>1, <1>8, <2>1, <2>2, ReadEndsLate DEF ScanEndsLate
  <2> QED
    BY <1>1, <2>1, <2>2, <2>3
    DEF SignalInv, RowsAreText, SignalIsLate, BeatIsKnown, IsText, IsBeat
<1>9. CASE Store
  <2>1. PICK i \in todo :
          \A s \in Senders :
             Stored(s)' = Stored(s) \cup (IF s = current THEN {i} ELSE {})
    BY <1>1, <1>9, StoreAddsRow
  <2>2. /\ UNCHANGED <<chain, lastBeat, current, pc, records>>
        /\ pc = "store"
    BY <1>9 DEF Store
  <2>3. i \in records /\ IsText(current, i) /\ i \in Nat
    BY <1>1, <2>1, <2>2 DEF ScanIsWhole, ScanInChain, Positions
  <2>4. RowsAreText'
    BY <1>1, <2>1, <2>2, <2>3 DEF RowsAreText, IsText
  <2>5. Stored(current)' = Stored(current) \cup {i}
    BY <1>1, <2>1, <2>2
  <2> QED
    BY <1>1, <2>2, <2>3, <2>4, <2>5
    DEF SignalInv, ScanEndsLate, SignalIsLate, BeatIsKnown, IsBeat
<1>10. CASE Signal
  <2>1. PICK last \in records :
          /\ \A i \in records : i <= last
          /\ \/ \E beat \in records :
                  RecordSignal(current, Time(current, last), Time(current, beat))
             \/ /\ \A i \in records : ~IsBeat(current, i)
                /\ RecordSignal(current, Time(current, last), None)
    BY <1>10 DEF Signal
  <2>2. /\ UNCHANGED <<chain, entries, current, records>>
        /\ pc = "store" /\ pc' = "mark"
    BY <1>10 DEF Signal
  <2>3. \A t : Stored(t)' = Stored(t)
    BY <2>2 DEF Stored
  <2>4. /\ records \subseteq Positions(current)
        /\ \A i \in records : Time(current, i) \in Nat \ {0} /\ i \in Nat
    BY <1>1, RecordAt DEF ScanInChain, Positions
  <2>5. \A i \in Stored(current) : i <= last
    <3> TAKE i \in Stored(current)
    <3>1. PICK other \in records : i <= other
      BY <1>1, <2>1, <2>2 DEF ScanEndsLate
    <3> QED
      BY <1>1, <1>2, <2>1, <2>4, <3>1
  <2>6. \A i \in Stored(current) : Time(current, i) <= Time(current, last)
    BY <1>1, <2>1, <2>4, <2>5 DEF ChainInOrder, RowsInChain
  <2>7. lastSignal'[current] >= Time(current, last)
    BY <1>1, <2>1, <2>4 DEF RecordSignal, Later
  <2>8. SignalIsLate'
    <3>1. lastSignal'[current] \in Nat
      BY <1>1, <2>1, <2>4 DEF RecordSignal, Later
    <3>2. \A i \in Stored(current) : Time(current, i) <= lastSignal'[current]
      BY <1>1, <1>2, <2>1, <2>4, <2>6, <2>7, <3>1
    <3> QED
      BY <2>2, <2>3, <3>2 DEF SignalIsLate, Time
  <2>9. /\ lastBeat[current] # None => lastBeat'[current] # None
        /\ (\E i \in records : IsBeat(current, i)) => lastBeat'[current] # None
    <3>1. CASE \E beat \in records :
                  RecordSignal(current, Time(current, last), Time(current, beat))
      BY <1>1, <2>4, <3>1 DEF RecordSignal, Later
    <3>2. CASE /\ \A i \in records : ~IsBeat(current, i)
               /\ RecordSignal(current, Time(current, last), None)
      BY <1>1, <3>2 DEF RecordSignal, Later
    <3> QED
      BY <2>1, <3>1, <3>2
  <2>10. BeatIsKnown'
    BY <1>1, <2>2, <2>3, <2>9 DEF BeatIsKnown, IsBeat
  <2>11. ScanEndsLate' /\ RowsAreText'
    BY <1>1, <2>2, <2>3 DEF ScanEndsLate, RowsAreText, IsText
  <2> QED
    BY <2>8, <2>10, <2>11 DEF SignalInv
<1>11. CASE Mark \/ NothingNew
  <2>1. /\ UNCHANGED <<chain, entries, lastSignal, lastBeat, current, records>>
        /\ pc' = "collected"
        /\ pc = "mark" \/ (pc = "store" /\ records = {})
    BY <1>11 DEF Mark, NothingNew, store
  <2>2. \A t : Stored(t)' = Stored(t)
    BY <2>1 DEF Stored
  <2> QED
    BY <1>1, <2>1, <2>2
    DEF SignalInv, RowsAreText, ScanEndsLate, SignalIsLate, BeatIsKnown, IsText, IsBeat, Time
<1>12. CASE Leave \/ Fail \/ Crash
  <2>1. UNCHANGED <<chain, entries>> /\ pc' = "idle"
    BY <1>12 DEF Leave, Fail, Crash, Interrupt, store
  <2> QED
    BY <1>1, <2>1
    DEF SignalInv, RowsAreText, ScanEndsLate, SignalIsLate, BeatIsKnown, IsText, Stored
<1>13. CASE TickStep \/ UNCHANGED vars
  BY <1>3, <1>13 DEF TickStep, Tick, vars, store, process
<1> QED
  BY <1>4, <1>5, <1>6, <1>7, <1>8, <1>9, <1>10, <1>11, <1>12, <1>13 DEF Next, Collect

THEOREM SignalInvariance == Spec => [](IInv /\ SignalInv)
<1>1. Init => SignalInv
  <2> SUFFICES ASSUME Init PROVE SignalInv
    OBVIOUS
  <2>1. pc = "idle" /\ \A s \in Senders : entries[s] = <<>>
    BY DEF Init
  <2>2. RowsAreText
    BY <2>1 DEF RowsAreText, Stored
  <2> QED
    BY <2>1, <2>2 DEF SignalInv, ScanEndsLate, SignalIsLate, BeatIsKnown
<1> QED
  BY Invariance, SignalInvStep, <1>1, PTL DEF Spec

\* After a collection the last signal is no older than any row its scan could
\* have told of, and a stored heartbeat is known as one, wherever earlier runs
\* stopped (record_signal, backfill_signal).
THEOREM SignalsAreInStep == Spec => []SignalsFollowRows
<1>1. SignalInv => SignalsFollowRows
  BY DEF SignalInv, SignalIsLate, BeatIsKnown, SignalsFollowRows
<1> QED
  BY SignalInvariance, <1>1, PTL

----------------------------------------------------------------------------

\* record_signal only moves forward, whoever calls it.
LEMMA SignalsGrow ==
    ASSUME IInv, [Next]_vars, NEW s \in Senders
    PROVE  /\ lastSignal[s] <= lastSignal'[s]
           /\ lastBeat[s] # None => lastBeat'[s] # None
<1>1. /\ lastSignal \in [Senders -> Nat] /\ lastBeat \in [Senders -> Nat]
      /\ current \in Senders
  BY DEF IInv, TypeOK
<1>2. CASE UNCHANGED <<lastSignal, lastBeat>>
  BY <1>1, <1>2
<1>3. CASE Backfill \/ Signal
  <2>1. \A i \in todo \cup records : Time(current, i) \in Nat
    BY <1>1, RecordAt DEF IInv, TypeOK, ScanInChain
  <2>2. \E signal \in Nat, beat \in Nat : RecordSignal(current, signal, beat)
    <3>1. CASE Backfill
      BY <2>1, <3>1 DEF Backfill, None
    <3>2. CASE Signal
      BY <2>1, <3>2 DEF Signal, None
    <3> QED
      BY <1>3, <3>1, <3>2
  <2> QED
    BY <1>1, <2>2 DEF RecordSignal, Later, None
<1> QED
  BY <1>2, <1>3
  DEF Next, Collect, TickStep, PublishStep, StartRun, Visit, Read, Store, NothingNew,
      Mark, Leave, Fail, Crash, Interrupt, vars, store

\* mark_sender_scanned moves the cursor forward, over nothing that can still be
\* read and has no row.
LEMMA CursorMoves ==
    ASSUME IInv, Mark
    PROVE  /\ \A s \in Senders : s # current => scanned'[s] = scanned[s]
           /\ scanned[current] <= scanned'[current]
           /\ \A i \in Readable(current) :
                i <= scanned'[current] /\ Time(current, i) >= Cursor(current)
                    /\ base'[current] <= i
                  => i \in Stored(current)
<1> USE DEF None
<1>1. /\ TypeOK /\ ChainInOrder /\ SeenIsStored /\ ScanIsWhole
      /\ RowsInChain /\ ScanInChain
  BY DEF IInv, TypeOK
<1>2. PICK last \in records : /\ \A i \in records : i <= last
                              /\ scanned' = [scanned EXCEPT ![current] = last]
  BY DEF Mark
<1>3. PICK first \in records :
        base' = IF base[current] = None
                THEN [base EXCEPT ![current] = first] ELSE base
  BY DEF Mark
<1>4. /\ current \in Senders
      /\ scanned \in [Senders -> Nat] /\ base \in [Senders -> Nat]
      /\ Len(chain[current]) \in Nat
  BY <1>1 DEF TypeOK
<1>5. pc = "mark" /\ todo = {} /\ records \subseteq Stored(current)
  BY <1>1 DEF Mark, ScanIsWhole
<1>6. scanned[current] <= last
  BY <1>1, <1>2, <1>5 DEF ScanIsWhole
<1>7. ASSUME NEW i \in Readable(current), i <= last, base'[current] <= i
      PROVE  i \in Stored(current)
  <2>1. /\ i \in Positions(current) /\ IsText(current, i)
        /\ i >= Oldest(current) /\ Oldest(current) \in Nat
    BY <1>4, WindowAssumption DEF Readable, Live, Positions, Oldest
  <2>2. warned[current] \in 0 .. Oldest(current) - 1
    BY <1>1, <1>4 DEF RowsInChain
  <2>3. ~(i <= warned[current])
    BY <2>1, <2>2 DEF Positions
  <2>4. scanned[current] \in Nat /\ base[current] \in Nat /\ i \in Nat
    BY <1>4, <2>1 DEF Positions
  <2>5. CASE scanned[current] = None
    <3>1. base'[current] = first
      BY <1>1, <1>3, <1>4, <2>5 DEF RowsInChain
    <3>2. i \in records
      BY <1>1, <1>2, <1>3, <1>5, <1>7, <2>1, <2>5, <3>1 DEF ScanIsWhole
    <3> QED
      BY <1>5, <3>2
  <2>6. CASE scanned[current] # None /\ scanned[current] < i
    <3>1. i \in records
      BY <1>1, <1>2, <1>5, <1>7, <2>1, <2>3, <2>6 DEF ScanIsWhole
    <3> QED
      BY <1>5, <3>1
  <2>7. CASE scanned[current] # None /\ ~(scanned[current] < i)
    <3>1. base'[current] = base[current]
      BY <1>1, <1>3, <1>4, <2>7 DEF RowsInChain
    <3>2. i \in base[current] .. scanned[current]
      BY <1>7, <2>4, <2>7, <3>1
    <3> QED
      BY <1>1, <1>4, <2>1, <2>3, <2>7, <3>2 DEF SeenIsStored
  <2> QED
    BY <2>5, <2>6, <2>7
<1> QED
  BY <1>2, <1>4, <1>6, <1>7

\* No step takes a cursor or a signal back, and a cursor only moves to a record
\* whose scan is stored whole (mark_sender_scanned, record_signal).
THEOREM CursorsFollowRows == Spec => CursorNeverAheadOfRows
<1> DEFINE Move(s) ==
        /\ scanned[s] <= scanned'[s]
        /\ lastSignal[s] <= lastSignal'[s]
        /\ scanned[s] # scanned'[s] =>
              \A i \in Readable(s) :
                 i <= scanned'[s] /\ Time(s, i) >= Cursor(s) /\ base'[s] <= i
                    => i \in Stored(s)
<1>1. ASSUME IInv, [Next]_vars
      PROVE  \A s \in Senders : Move(s)
  <2>1. /\ scanned \in [Senders -> Nat] /\ lastSignal \in [Senders -> Nat]
        /\ current \in Senders
    BY <1>1 DEF IInv, TypeOK
  <2>2. CASE UNCHANGED <<scanned, lastSignal>>
    BY <2>1, <2>2
  <2>3. CASE Mark
    <3>1. lastSignal' = lastSignal
      BY <2>3 DEF Mark
    <3> QED
      BY <1>1, <2>1, <2>3, <3>1, CursorMoves
  <2>4. CASE Backfill \/ Signal
    <3>1. scanned' = scanned
      BY <2>4 DEF Backfill, Signal
    <3> QED
      BY <1>1, <2>1, <3>1, SignalsGrow
  <2> QED
    BY <1>1, <2>2, <2>3, <2>4
    DEF Next, Collect, TickStep, PublishStep, StartRun, Visit, Read, Store, NothingNew,
        Leave, Fail, Crash, Interrupt, vars, store
<1>2. IInv /\ [Next]_vars => [\A s \in Senders : Move(s)]_vars
  BY <1>1
<1> QED
  BY Invariance, <1>2, PTL DEF Spec, CursorNeverAheadOfRows
=============================================================================
