-------------------------- MODULE CollectionProofs --------------------------
(***************************************************************************)
(* The invariants of Collection for every registry, ring size of at least  *)
(* two slots and number of records: what is stored, scanned and warned of  *)
(* accounts for every record from the first one read, and Collection       *)
(* implements Copy.                                                        *)
(***************************************************************************)
EXTENDS Collection, TLAPS, WellFoundedInduction

\* A position of a site holds a record with a block time.
LEMMA RecordAt ==
    ASSUME TypeOK, NEW s \in Senders, NEW i \in Positions(s)
    PROVE  /\ i \in Nat \ {0}
           /\ Time(s, i) \in Nat \ {0}
<1>1. chain[s] \in Seq(Record)
  BY DEF TypeOK
<1>2. i \in 1 .. Len(chain[s]) /\ Len(chain[s]) \in Nat
  BY <1>1 DEF Positions
<1>3. chain[s][i] \in Record
  BY <1>1, <1>2
<1> QED
  BY <1>2, <1>3 DEF Time, Record, None

\* Two neighbours of the ring have different slots (Slot, the pallet's ring).
LEMMA NeighbourSlots ==
    ASSUME NEW i \in Nat \ {0}
    PROVE  Slot(i) # Slot(i + 1)
<1> DEFINE x == i - 1
           q == x \div WindowSize
           r == (x + 1) \div WindowSize
<1>1. WindowSize \in Nat /\ WindowSize >= 2 /\ x \in Nat
  BY WindowAssumption
<1>2. x = WindowSize * q + (x % WindowSize) /\ q \in Int
  BY <1>1
<1>3. x + 1 = WindowSize * r + ((x + 1) % WindowSize) /\ r \in Int
  BY <1>1
<1>4. ASSUME x % WindowSize = (x + 1) % WindowSize
      PROVE  FALSE
  <2> HIDE DEF x, q, r
  <2>1. WindowSize * r - WindowSize * q = 1
    BY <1>1, <1>2, <1>3, <1>4
  <2>2. WindowSize * (r - q) = 1
    BY <2>1, <1>1, <1>2, <1>3
  <2>3. r - q >= 1 \/ r - q <= 0
    BY <1>2, <1>3
  <2>4. r - q >= 1 => WindowSize * (r - q) >= WindowSize
    BY <1>1, <1>2, <1>3
  <2>5. r - q <= 0 => WindowSize * (r - q) <= 0
    BY <1>1, <1>2, <1>3
  <2> QED
    BY <1>1, <2>2, <2>3, <2>4, <2>5
<1> QED
  BY <1>1, <1>4 DEF Slot

\* A row with a record's slot and block time is that record's own row
\* (add_datalog_entry looks no further).
LEMMA KnownIsStored ==
    ASSUME TypeOK, ChainInOrder, NEW s \in Senders,
           NEW i \in Positions(s), Known(s, i)
    PROVE  i \in Stored(s)
<1>1. PICK e \in Stored(s) : Slot(e) = Slot(i) /\ Time(s, e) = Time(s, i)
  BY DEF Known
<1>2. e \in Positions(s)
  BY DEF TypeOK, RowsInChain
<1>3. e \in Nat \ {0} /\ i \in Nat \ {0}
  BY <1>2 DEF Positions
<1>4. ~(i + 1 < e) /\ ~(e + 1 < i)
  <2>1. Time(s, e) \in Nat /\ Time(s, i) \in Nat
    BY <1>2, RecordAt
  <2> QED
    BY <1>1, <1>2, <2>1 DEF ChainInOrder
<1>5. e # i + 1 /\ i # e + 1
  BY <1>1, <1>3, NeighbourSlots
<1> QED
  BY <1>1, <1>3, <1>4, <1>5

\* A publication keeps every record of every site where it is.
LEMMA PublishKeeps ==
    ASSUME TypeOK, NEW s \in Senders, PublishStep(s)
    PROVE  /\ chain' \in [Senders -> Seq(Record)]
           /\ \A t \in Senders :
                /\ Len(chain[t]) \in Nat
                /\ Len(chain'[t]) = Len(chain[t]) + (IF t = s THEN 1 ELSE 0)
                /\ \A i \in Positions(t) : chain'[t][i] = chain[t][i]
           /\ chain'[s][Len(chain[s]) + 1].ts = clock
<1>1. PICK kind \in Kinds : Publish(s, kind)
  BY DEF PublishStep
<1> DEFINE rec == [ts |-> clock, kind |-> kind]
<1>2. rec \in Record
  BY DEF TypeOK, Record
<1>3. chain' = [chain EXCEPT ![s] = Append(chain[s], rec)]
  BY <1>1 DEF Publish
<1>4. chain \in [Senders -> Seq(Record)]
  BY DEF TypeOK
<1> HIDE DEF rec
<1>5. chain'[s] = Append(chain[s], rec) /\ chain[s] \in Seq(Record)
  BY <1>3, <1>4
<1>6. chain'[s] \in Seq(Record)
  BY <1>2, <1>5
<1>7. ASSUME NEW t \in Senders, t # s
      PROVE  chain'[t] = chain[t] /\ chain[t] \in Seq(Record)
  BY <1>3, <1>4, <1>7
<1>8. chain' \in [Senders -> Seq(Record)]
  BY <1>3, <1>4, <1>2
<1>9. /\ Len(chain[s]) \in Nat
      /\ Len(chain'[s]) = Len(chain[s]) + 1
      /\ \A i \in Positions(s) : chain'[s][i] = chain[s][i]
      /\ chain'[s][Len(chain[s]) + 1] = rec
  BY <1>2, <1>5 DEF Positions
<1>10. ASSUME NEW t \in Senders
       PROVE  /\ Len(chain[t]) \in Nat
              /\ Len(chain'[t]) = Len(chain[t]) + (IF t = s THEN 1 ELSE 0)
              /\ \A i \in Positions(t) : chain'[t][i] = chain[t][i]
  <2>1. CASE t = s
    BY <1>9, <2>1
  <2>2. CASE t # s
    <3>1. chain'[t] = chain[t] /\ Len(chain[t]) \in Nat
      BY <1>7, <2>2
    <3> QED
      BY <2>2, <3>1
  <2> QED
    BY <2>1, <2>2
<1>11. rec.ts = clock
  BY DEF rec
<1> QED
  BY <1>8, <1>9, <1>10, <1>11

\* A publication makes one chain longer, by one record.
LEMMA PublishGrows ==
    ASSUME TypeOK, NEW r \in Senders, PublishStep(r), NEW s \in Senders
    PROVE  /\ Len(chain[s]) \in Nat /\ Len(chain'[s]) \in Nat
           /\ s = r => Len(chain'[s]) = Len(chain[s]) + 1
           /\ s # r => Len(chain'[s]) = Len(chain[s])
<1>1. /\ Len(chain[s]) \in Nat
      /\ Len(chain'[s]) = Len(chain[s]) + (IF s = r THEN 1 ELSE 0)
  BY PublishKeeps
<1>2. CASE s = r
  BY <1>1, <1>2
<1>3. CASE s # r
  BY <1>1, <1>3
<1> QED
  BY <1>2, <1>3

\* Storing a record adds its row, or finds that it has one.
LEMMA StoreAddsRow ==
    ASSUME TypeOK, ChainInOrder, Store
    PROVE  \E i \in todo :
             /\ \A j \in todo : i <= j
             /\ todo' = todo \ {i}
             /\ entries' \in [Senders -> Seq(Nat \ {0})]
             /\ \A s \in Senders :
                  Stored(s)' = Stored(s) \cup (IF s = current THEN {i} ELSE {})
<1>1. PICK i \in todo :
        /\ \A j \in todo : i <= j
        /\ todo' = todo \ {i}
        /\ entries' = IF Known(current, i) THEN entries
                      ELSE [entries EXCEPT ![current] = Append(@, i)]
  BY DEF Store
<1>2. i \in Positions(current) /\ i \in Nat \ {0} /\ current \in Senders
  BY DEF TypeOK, ScanInChain, Positions
<1>3. entries \in [Senders -> Seq(Nat \ {0})]
  BY DEF TypeOK
<1>4. CASE Known(current, i)
  <2>1. entries' = entries
    BY <1>1, <1>4
  <2>2. i \in Stored(current)
    BY <1>2, <1>4, KnownIsStored
  <2>3. \A s \in Senders : Stored(s)' = Stored(s)
    BY <2>1 DEF Stored
  <2>4. \A s \in Senders :
           Stored(s)' = Stored(s) \cup (IF s = current THEN {i} ELSE {})
    BY <2>2, <2>3
  <2> QED
    BY <1>1, <1>3, <2>1, <2>4
<1>5. CASE ~Known(current, i)
  <2>1. entries' = [entries EXCEPT ![current] = Append(entries[current], i)]
    BY <1>1, <1>5
  <2>2. entries' \in [Senders -> Seq(Nat \ {0})]
    BY <1>2, <1>3, <2>1
  <2>3. /\ entries[current] \in Seq(Nat \ {0})
        /\ entries'[current] = Append(entries[current], i)
    BY <1>2, <1>3, <2>1
  <2>4. ASSUME NEW s \in Senders, s = current
        PROVE  Stored(s)' = Stored(s) \cup {i}
    <3> DEFINE n == Len(entries[current])
    <3>1. /\ n \in Nat
          /\ DOMAIN entries[current] = 1 .. n
          /\ DOMAIN entries'[current] = 1 .. n + 1
          /\ entries'[current][n + 1] = i
          /\ \A k \in 1 .. n : entries'[current][k] = entries[current][k]
      BY <1>2, <2>3
    <3>2. 1 .. n + 1 = (1 .. n) \cup {n + 1}
      BY <3>1
    <3>3. Stored(s)' = {entries'[current][k] : k \in 1 .. n + 1}
      BY <2>4, <3>1 DEF Stored
    <3>4. Stored(s) = {entries[current][k] : k \in 1 .. n}
      BY <2>4, <3>1 DEF Stored
    <3> HIDE DEF n
    <3> QED
      BY <3>1, <3>2, <3>3, <3>4
  <2>5. ASSUME NEW s \in Senders, s # current
        PROVE  Stored(s)' = Stored(s)
    BY <1>3, <2>1, <2>5 DEF Stored
  <2>6. \A s \in Senders :
           Stored(s)' = Stored(s) \cup (IF s = current THEN {i} ELSE {})
    BY <2>4, <2>5
  <2> QED
    BY <1>1, <2>2, <2>6
<1> QED
  BY <1>4, <1>5

----------------------------------------------------------------------------

LEMMA TypeInit == Init => TypeOK
  BY BoundsAssumption, InterruptsAssumption, WindowAssumption
  DEF Init, DatalogInit, TypeOK, RowsInChain, ScanInChain, Stored, Positions,
      Oldest, Steps, None

\* What the rows and the scan point to stays there while nobody writes them.
LEMMA RowsStay ==
    ASSUME RowsInChain, UNCHANGED <<chain, entries, scanned, base, warned>>
    PROVE  RowsInChain'
  BY DEF RowsInChain, Stored, Positions, Oldest

LEMMA ScanStays ==
    ASSUME ScanInChain, UNCHANGED <<chain, current>>,
           todo' \subseteq todo \cup records, records' \subseteq records
    PROVE  ScanInChain'
  BY DEF ScanInChain, Positions

LEMMA TypeStep ==
    ASSUME IInv, [Next]_vars
    PROVE  TypeOK'
<1> USE DEF None
<1>1. TypeOK /\ ChainInOrder /\ SeenIsStored /\ ScanIsWhole
      /\ RowsInChain /\ ScanInChain
  BY DEF IInv, TypeOK
<1>2. CASE TickStep
  BY <1>1, <1>2, RowsStay, ScanStays
  DEF TypeOK, TickStep, Tick, store, process, history
<1>3. ASSUME NEW s \in Senders, PublishStep(s)
      PROVE  TypeOK'
  <2>1. chain' \in [Senders -> Seq(Record)]
    BY <1>1, <1>3, PublishKeeps
  <2>2. clock' = clock /\ UNCHANGED <<store, process, interrupts, history>>
    BY <1>3 DEF PublishStep, Publish
  <2>3. \A t \in Senders : /\ Len(chain[t]) \in Nat
                           /\ Len(chain'[t]) \in Nat
                           /\ Len(chain[t]) <= Len(chain'[t])
    <3> TAKE t \in Senders
    <3>1. /\ Len(chain[t]) \in Nat
          /\ Len(chain'[t]) = Len(chain[t]) + (IF t = s THEN 1 ELSE 0)
      BY <1>1, <1>3, PublishKeeps
    <3>2. CASE t = s
      BY <3>1, <3>2
    <3>3. CASE t # s
      BY <3>1, <3>3
    <3> QED
      BY <3>2, <3>3
  <2>4. \A t \in Senders : Positions(t) \subseteq Positions(t)'
    BY <2>3 DEF Positions
  <2>5. \A t \in Senders : Stored(t)' = Stored(t)
    BY <2>2 DEF store, Stored
  <2>6. RowsInChain'
    <3>1. \A t \in Senders : /\ Oldest(t) <= Oldest(t)'
                              /\ Oldest(t) \in Nat
                              /\ Oldest(t)' \in Nat
      BY <2>3, WindowAssumption DEF Oldest
    <3>2. \A t \in Senders : warned[t] \in 0 .. Oldest(t) - 1
      BY <1>1 DEF RowsInChain
    <3>3. \A t \in Senders : warned[t] \in 0 .. Oldest(t)' - 1
      BY <3>1, <3>2
    <3> QED
      BY <1>1, <2>2, <2>3, <2>4, <2>5, <3>3 DEF RowsInChain, store, history
  <2>7. ScanInChain'
    BY <1>1, <2>2, <2>4 DEF TypeOK, ScanInChain, process
  <2> QED
    BY <1>1, <2>1, <2>2, <2>6, <2>7 DEF TypeOK, store, process, history
<1>4. ASSUME NEW enabled \in SUBSET Senders, StartRun(enabled)
      PROVE  TypeOK'
  BY <1>1, <1>4, RowsStay, ScanStays DEF TypeOK, StartRun, store, history
<1>5. ASSUME NEW s \in Senders, Visit(s)
      PROVE  TypeOK'
  <2>1. pc = "idle" => records = {}
    BY <1>1 DEF ScanIsWhole
  <2>2. todo' \subseteq Positions(s)
    BY <1>1, <1>5 DEF Visit, RowsInChain
  <2>3. ScanInChain'
    BY <1>5, <2>1, <2>2 DEF Visit, ScanInChain, Positions
  <2>4. RowsInChain'
    BY <1>1, <1>5, RowsStay DEF Visit, store, history
  <2> QED
    BY <1>1, <1>5, <2>3, <2>4 DEF TypeOK, Visit, store, history, Steps
<1>6. CASE Backfill
  <2>1. PICK signal \in Nat, beat \in Nat : RecordSignal(current, signal, beat)
    <3>1. \A i \in todo : Time(current, i) \in Nat
      BY <1>1, RecordAt DEF TypeOK, ScanInChain
    <3> QED
      BY <1>6, <3>1 DEF Backfill
  <2>2. /\ lastSignal' \in [Senders -> Nat]
        /\ lastBeat' \in [Senders -> Nat]
    BY <1>1, <2>1 DEF TypeOK, RecordSignal, Later
  <2>3. /\ UNCHANGED <<chain, clock, entries, scanned, queue, current, pc,
                       records, interrupts, history>>
        /\ todo' \subseteq todo
    BY <1>6 DEF Backfill
  <2>4. RowsInChain' /\ ScanInChain'
    BY <1>1, <2>3, RowsStay, ScanStays DEF history
  <2> QED
    BY <1>1, <2>2, <2>3, <2>4 DEF TypeOK, history
<1>7. CASE Read
  <2>1. records' \subseteq Positions(current)
    BY <1>1, <1>7, WindowAssumption
    DEF Read, NewRecords, Readable, Live, Oldest, Positions
  <2>2. ScanInChain'
    BY <1>1, <1>7, <2>1 DEF Read, ScanInChain, Positions
  <2>3. /\ warned' \in [Senders -> Nat]
        /\ \A s \in Senders : warned'[s] \in 0 .. Oldest(s) - 1
    <3>1. Len(chain[current]) \in Nat
      BY <1>1 DEF TypeOK
    <3>2. Oldest(current) - 1 \in Nat
      BY <3>1, WindowAssumption DEF Oldest
    <3>3. current \in Senders /\ warned \in [Senders -> Nat]
      BY <1>1 DEF TypeOK
    <3>4. \A s \in Senders : warned[s] \in 0 .. Oldest(s) - 1
      BY <1>1 DEF RowsInChain
    <3>5. \/ warned' = [warned EXCEPT ![current] = Oldest(current) - 1]
          \/ warned' = warned
      BY <1>7 DEF Read
    <3> QED
      BY <3>2, <3>3, <3>4, <3>5
  <2>4. UNCHANGED <<chain, clock, store, queue, current, interrupts, base, joined>>
    BY <1>7 DEF Read
  <2>5. RowsInChain'
    BY <1>1, <2>3, <2>4 DEF RowsInChain, store, Stored, Positions, Oldest
  <2>6. pc' \in Steps
    BY <1>7 DEF Read, Steps
  <2> QED
    BY <1>1, <2>2, <2>3, <2>4, <2>5, <2>6 DEF TypeOK, store
<1>8. CASE Store
  <2>1. PICK i \in todo :
          /\ todo' = todo \ {i}
          /\ entries' \in [Senders -> Seq(Nat \ {0})]
          /\ \A s \in Senders :
               Stored(s)' = Stored(s) \cup (IF s = current THEN {i} ELSE {})
    BY <1>1, <1>8, StoreAddsRow
  <2>2. UNCHANGED <<chain, clock, scanned, lastSignal, lastBeat, queue, current,
                    pc, records, interrupts, history>>
    BY <1>8 DEF Store
  <2>3. i \in Positions(current)
    BY <1>1 DEF ScanInChain
  <2>4. RowsInChain'
    BY <1>1, <2>1, <2>2, <2>3 DEF RowsInChain, history, Positions, Oldest
  <2>5. ScanInChain'
    BY <1>1, <2>1, <2>2, ScanStays
  <2> QED
    BY <1>1, <2>1, <2>2, <2>4, <2>5 DEF TypeOK, history
<1>9. CASE Signal
  <2>1. PICK signal \in Nat, beat \in Nat : RecordSignal(current, signal, beat)
    <3>1. \A i \in records : Time(current, i) \in Nat
      BY <1>1, RecordAt DEF TypeOK, ScanInChain
    <3> QED
      BY <1>9, <3>1 DEF Signal
  <2>2. /\ lastSignal' \in [Senders -> Nat]
        /\ lastBeat' \in [Senders -> Nat]
    BY <1>1, <2>1 DEF TypeOK, RecordSignal, Later
  <2>3. /\ UNCHANGED <<chain, clock, entries, scanned, queue, current, records,
                       todo, interrupts, history>>
        /\ pc' \in Steps
    BY <1>9 DEF Signal, Steps
  <2>4. RowsInChain' /\ ScanInChain'
    BY <1>1, <2>3, RowsStay, ScanStays DEF history
  <2> QED
    BY <1>1, <2>2, <2>3, <2>4 DEF TypeOK, history
<1>10. CASE Mark
  <2>1. PICK last \in records :
          /\ \A i \in records : i <= last
          /\ scanned' = [scanned EXCEPT ![current] = last]
    BY <1>10 DEF Mark
  <2>2. PICK first \in records :
          base' = IF base[current] = None
                  THEN [base EXCEPT ![current] = first] ELSE base
    BY <1>10 DEF Mark
  <2>3. /\ current \in Senders
        /\ Len(chain[current]) \in Nat
        /\ scanned \in [Senders -> Nat]
        /\ base \in [Senders -> Nat]
    BY <1>1 DEF TypeOK
  <2>4. /\ last \in 1 .. Len(chain[current])
        /\ first \in 1 .. last
    BY <1>1, <2>1, <2>3 DEF ScanInChain, Positions
  <2>5. scanned[current] <= last
    BY <1>1, <1>10, <2>1 DEF Mark, ScanIsWhole
  <2>6. /\ UNCHANGED <<chain, clock, entries, lastSignal, lastBeat, queue,
                       current, records, todo, interrupts, warned>>
        /\ pc' \in Steps
    BY <1>10 DEF Mark, Steps
  <2>7. /\ scanned' \in [Senders -> Nat]
        /\ base' \in [Senders -> Nat]
    BY <2>1, <2>2, <2>3, <2>4
  <2>8. \A s \in Senders :
          /\ scanned'[s] \in 0 .. Len(chain[s])
          /\ base'[s] \in 0 .. scanned'[s]
          /\ base'[s] = None <=> scanned'[s] = None
    BY <1>1, <2>1, <2>2, <2>3, <2>4, <2>5 DEF RowsInChain
  <2>9. RowsInChain'
    BY <1>1, <2>6, <2>8 DEF RowsInChain, Stored, Positions, Oldest
  <2>10. ScanInChain'
    BY <1>1, <2>6, ScanStays
  <2>11. joined' \in [Senders -> Nat]
    BY <1>1, <1>10, <2>3 DEF TypeOK, Mark, Join
  <2> QED
    BY <1>1, <2>6, <2>7, <2>9, <2>10, <2>11 DEF TypeOK
<1>11. CASE NothingNew
  <2>1. joined' \in [Senders -> Nat]
    BY <1>1, <1>11 DEF TypeOK, NothingNew, Join
  <2>2. RowsInChain' /\ ScanInChain'
    BY <1>1, <1>11, RowsStay, ScanStays DEF NothingNew, store
  <2> QED
    BY <1>1, <1>11, <2>1, <2>2 DEF TypeOK, NothingNew, store, Steps
<1>12. CASE Leave
  BY <1>1, <1>12, RowsStay, ScanStays DEF TypeOK, Leave, store, history, Steps
<1>13. ASSUME NEW rest \in SUBSET queue, Interrupt(rest)
       PROVE  TypeOK'
  BY <1>1, <1>13, InterruptsAssumption, RowsStay, ScanStays
  DEF TypeOK, Interrupt, store, history, Steps
<1>14. CASE Fail \/ Crash
  BY <1>13, <1>14 DEF Fail, Crash
<1>15. CASE UNCHANGED vars
  BY <1>1, <1>15, RowsStay, ScanStays DEF TypeOK, vars, store, process, history
<1> QED
  BY <1>2, <1>3, <1>4, <1>5, <1>6, <1>7, <1>8, <1>9, <1>10, <1>11, <1>12,
     <1>14, <1>15
  DEF Next, Collect

----------------------------------------------------------------------------

LEMMA ChainStep ==
    ASSUME IInv, [Next]_vars
    PROVE  ChainInOrder'
<1>1. TypeOK /\ ChainInOrder
  BY DEF IInv
<1>2. CASE UNCHANGED <<chain, clock>>
  BY <1>1, <1>2 DEF ChainInOrder, Positions, Time
<1>3. CASE TickStep
  <2>1. chain' = chain /\ clock' = clock + 1 /\ clock \in Nat
    BY <1>1, <1>3 DEF TickStep, Tick, TypeOK
  <2>2. SUFFICES ASSUME NEW s \in Senders, NEW i \in Positions(s),
                        NEW j \in Positions(s)
                 PROVE  /\ Time(s, i) <= clock + 1
                        /\ i <= j => Time(s, i) <= Time(s, j)
                        /\ i + 1 < j => Time(s, i) < Time(s, j)
    BY <2>1 DEF ChainInOrder, Positions, Time
  <2>3. Time(s, i) \in Nat /\ Time(s, i) <= clock
    BY <1>1, RecordAt DEF ChainInOrder
  <2> QED
    BY <1>1, <2>1, <2>3 DEF ChainInOrder
<1>4. ASSUME NEW r \in Senders, PublishStep(r)
      PROVE  ChainInOrder'
  <2> DEFINE n == Len(chain[r])
  <2>1. /\ n \in Nat
        /\ \A t \in Senders :
             Len(chain'[t]) = Len(chain[t]) + (IF t = r THEN 1 ELSE 0)
        /\ \A t \in Senders : \A i \in Positions(t) : chain'[t][i] = chain[t][i]
        /\ chain'[r][n + 1].ts = clock
    BY <1>1, <1>4, PublishKeeps
  <2>2. clock' = clock /\ clock \in Nat
    BY <1>1, <1>4 DEF PublishStep, Publish, TypeOK
  <2>3. SUFFICES ASSUME NEW s \in Senders, NEW i \in Positions(s)',
                        NEW j \in Positions(s)'
                 PROVE  /\ chain'[s][i].ts <= clock
                        /\ i <= j => chain'[s][i].ts <= chain'[s][j].ts
                        /\ i + 1 < j => chain'[s][i].ts < chain'[s][j].ts
    BY <2>2 DEF ChainInOrder, Time
  <2>4. \A k \in Positions(s) : /\ chain'[s][k].ts = Time(s, k)
                                /\ Time(s, k) \in Nat
                                /\ Time(s, k) <= clock
    BY <1>1, <2>1, RecordAt DEF ChainInOrder, Time
  <2>5. CASE i \in Positions(s) /\ j \in Positions(s)
    BY <1>1, <2>4, <2>5 DEF ChainInOrder
  <2>6. CASE s # r
    <3>1. Len(chain'[s]) = Len(chain[s]) + (IF s = r THEN 1 ELSE 0)
          /\ Len(chain[s]) \in Nat
      BY <1>1, <2>1 DEF TypeOK
    <3>2. Len(chain'[s]) = Len(chain[s])
      BY <2>6, <3>1
    <3>3. i \in Positions(s) /\ j \in Positions(s)
      BY <3>2 DEF Positions
    <3> QED
      BY <2>5, <3>3
  <2>7. CASE s = r
    <3>1. i \in 1 .. n + 1 /\ j \in 1 .. n + 1 /\ Positions(s) = 1 .. n
      BY <2>1, <2>7 DEF Positions
    <3>2. chain'[s][n + 1].ts = clock
      BY <2>1, <2>7
    <3>3. CASE i \in 1 .. n /\ j = n + 1 /\ i + 1 < j
      <4>1. MaxPerBlock \in {1, 2} /\ n >= 2
        BY <3>1, <3>3, <2>1, BlockAssumption
      <4>2. Time(s, n - MaxPerBlock + 1) < clock
        BY <1>4, <2>7, <4>1 DEF PublishStep, Publish, BlockHasRoom
      <4>3. n - MaxPerBlock + 1 \in Positions(s) /\ i <= n - MaxPerBlock + 1
            /\ i \in Positions(s)
        BY <2>1, <3>1, <3>3, <4>1
      <4>4. Time(s, i) <= Time(s, n - MaxPerBlock + 1)
        BY <1>1, <4>3 DEF ChainInOrder
      <4>5. Time(s, i) \in Nat /\ Time(s, n - MaxPerBlock + 1) \in Nat
        BY <2>4, <4>3
      <4> QED
        BY <2>2, <2>4, <3>2, <3>3, <4>2, <4>3, <4>4, <4>5
    <3>4. CASE ~(i \in 1 .. n /\ j = n + 1 /\ i + 1 < j)
      <4>1. \/ i \in 1 .. n /\ j \in 1 .. n
            \/ i = n + 1 /\ j \in 1 .. n + 1
            \/ i = n /\ i \in 1 .. n /\ j = n + 1
        BY <2>1, <3>1, <3>4
      <4>2. CASE i \in 1 .. n /\ j \in 1 .. n
        BY <2>5, <3>1, <4>2
      <4>3. CASE i = n + 1 /\ j \in 1 .. n + 1
        BY <2>1, <2>2, <3>2, <4>3
      <4>4. CASE i = n /\ i \in 1 .. n /\ j = n + 1
        BY <2>1, <2>2, <2>4, <3>1, <3>2, <4>4
      <4> QED
        BY <4>1, <4>2, <4>3, <4>4
    <3> QED
      BY <3>3, <3>4
  <2> QED
    BY <2>6, <2>7
<1> QED
  BY <1>2, <1>3, <1>4
  DEF Next, vars, Collect, StartRun, Visit, Backfill, Read, Store, Signal, Mark,
      NothingNew, Leave, Fail, Crash, Interrupt

----------------------------------------------------------------------------

\* A record two places after the cursor's is of a later block.
LEMMA PastTheCursor ==
    ASSUME TypeOK, ChainInOrder, NEW s \in Senders, scanned[s] # None,
           NEW i \in Positions(s), scanned[s] < i
    PROVE  /\ Cursor(s) \in Nat \ {0}
           /\ Cursor(s) = Time(s, scanned[s])
           /\ Cursor(s) <= Time(s, i)
           /\ scanned[s] + 1 < i => Cursor(s) < Time(s, i)
<1>1. scanned[s] \in Positions(s)
  <2>1. Len(chain[s]) \in Nat
    BY DEF TypeOK
  <2>2. scanned[s] \in 0 .. Len(chain[s])
    BY DEF TypeOK, RowsInChain
  <2> QED
    BY <2>1, <2>2 DEF Positions, None
<1>2. Cursor(s) = Time(s, scanned[s])
  BY DEF Cursor
<1>3. Cursor(s) \in Nat \ {0}
  BY <1>1, <1>2, RecordAt
<1>4. i \in Nat /\ scanned[s] \in Nat
  BY <1>1 DEF Positions
<1> QED
  BY <1>1, <1>2, <1>3, <1>4 DEF ChainInOrder

\* A text record after the cursor that the next read would not return has left
\* the ring, and then the ring holds nothing as old as the cursor: the check of
\* list_new_records cannot miss a loss.
LEMMA LossIsNoticed ==
    ASSUME TypeOK, ChainInOrder, NEW s \in Senders, scanned[s] # None,
           NEW i \in Positions(s), scanned[s] < i, IsText(s, i),
           i \notin NewRecords(s, Cursor(s))
    PROVE  /\ i < Oldest(s)
           /\ Readable(s) # {} => ~ReachedCursor(s, Cursor(s))
<1>1. /\ Cursor(s) \in Nat \ {0}
      /\ Cursor(s) <= Time(s, i)
  BY PastTheCursor
<1>2. Time(s, i) \in Nat /\ i \in Nat /\ Len(chain[s]) \in Nat
  <2>1. Time(s, i) \in Nat /\ i \in Nat
    BY RecordAt
  <2>2. Len(chain[s]) \in Nat
    BY DEF TypeOK
  <2> QED
    BY <2>1, <2>2
<1>3. Oldest(s) \in Nat
  BY <1>2, WindowAssumption DEF Oldest
<1>4. i < Oldest(s)
  BY <1>1, <1>2, <1>3 DEF NewRecords, Readable, Live, Positions, None
<1>5. ASSUME NEW m \in Readable(s)
      PROVE  Cursor(s) < Time(s, m)
  <2>1. m \in Positions(s) /\ Oldest(s) <= m
    BY <1>2, <1>3, WindowAssumption DEF Readable, Live, Positions, Oldest
  <2>2. scanned[s] + 1 < m /\ scanned[s] < m
    <3>1. scanned[s] \in Nat /\ m \in Nat
      BY <2>1 DEF Positions, TypeOK
    <3> QED
      BY <1>2, <1>3, <1>4, <2>1, <3>1
  <2> QED
    BY <2>1, <2>2, PastTheCursor
<1>6. \A m \in Readable(s) : Time(s, m) \in Nat
  BY <1>2, <1>3, WindowAssumption, RecordAt DEF Readable, Live, Positions, Oldest
<1> QED
  BY <1>1, <1>4, <1>5, <1>6 DEF ReachedCursor, None

\* The inductive invariant says enough.
LEMMA NoSilentLossFollows == IInv => NoSilentLoss
<1> SUFFICES ASSUME TypeOK, ChainInOrder, SeenIsStored,
                    NEW s \in Senders, scanned[s] # None,
                    NEW i \in Positions(s), base[s] <= i, IsText(s, i)
             PROVE  i \in Stored(s) \/ i <= warned[s] \/ NextReadTells(s, i)
  BY DEF IInv, NoSilentLoss
<1>1. CASE i <= scanned[s]
  <2>1. i \in base[s] .. scanned[s]
    BY <1>1 DEF Positions, TypeOK
  <2> QED
    BY <2>1 DEF SeenIsStored
<1>2. CASE scanned[s] < i
  <2>1. ASSUME i \notin NewRecords(s, Cursor(s)), Readable(s) # {}
        PROVE  ~ReachedCursor(s, Cursor(s))
    BY <1>2, <2>1, LossIsNoticed
  <2> QED
    BY <2>1 DEF NextReadTells
<1>3. i \in Int /\ scanned[s] \in Int
  BY DEF Positions, TypeOK
<1> QED
  BY <1>1, <1>2, <1>3

----------------------------------------------------------------------------

LEMMA SeenStep ==
    ASSUME IInv, [Next]_vars
    PROVE  SeenIsStored'
<1> USE DEF None
<1>1. TypeOK /\ ChainInOrder /\ SeenIsStored /\ ScanIsWhole
  BY DEF IInv
<1>2. CASE UNCHANGED <<chain, entries, scanned, base, warned>>
  BY <1>1, <1>2 DEF SeenIsStored, IsText, Stored
<1>3. ASSUME NEW r \in Senders, PublishStep(r)
      PROVE  SeenIsStored'
  <2>1. \A t \in Senders : \A i \in Positions(t) : chain'[t][i] = chain[t][i]
    BY <1>1, <1>3, PublishKeeps
  <2>2. UNCHANGED <<entries, scanned, base, warned>>
    BY <1>3 DEF PublishStep, store, history
  <2>3. \A t \in Senders : Stored(t)' = Stored(t)
    BY <2>2 DEF Stored
  <2>4. SUFFICES ASSUME NEW s \in Senders, scanned[s] # None
                 PROVE  /\ IsText(s, scanned[s])'
                        /\ \A i \in base[s] .. scanned[s] :
                             IsText(s, i)' => i \in Stored(s) \/ i <= warned[s]
    BY <2>2, <2>3 DEF SeenIsStored
  <2>5. base[s] .. scanned[s] \subseteq Positions(s) /\ scanned[s] \in Positions(s)
    <3>1. Len(chain[s]) \in Nat
      BY <1>1 DEF TypeOK
    <3>2. /\ scanned[s] \in 0 .. Len(chain[s])
          /\ base[s] \in 0 .. scanned[s]
          /\ base[s] = None <=> scanned[s] = None
      BY <1>1 DEF RowsInChain, TypeOK
    <3> QED
      BY <2>4, <3>1, <3>2 DEF Positions
  <2>6. \A i \in Positions(s) : IsText(s, i)' <=> IsText(s, i)
    BY <2>1 DEF IsText
  <2>7. scanned'[s] = scanned[s]
    BY <2>2
  <2> QED
    BY <1>1, <2>4, <2>5, <2>6, <2>7 DEF SeenIsStored
<1>4. CASE Read
  <2>1. UNCHANGED <<chain, entries, scanned, base>>
    BY <1>4 DEF Read, store
  <2>2. /\ \A s \in Senders : warned[s] \in 0 .. Oldest(s) - 1
        /\ warned \in [Senders -> Nat]
        /\ current \in Senders
    BY <1>1 DEF TypeOK, RowsInChain
  <2>3. \/ warned' = [warned EXCEPT ![current] = Oldest(current) - 1]
        \/ warned' = warned
    BY <1>4 DEF Read
  <2>4. \A s \in Senders : \A i \in Nat : i <= warned[s] => i <= warned'[s]
    <3> SUFFICES ASSUME NEW s \in Senders, NEW i \in Nat, i <= warned[s]
                 PROVE  i <= warned'[s]
      OBVIOUS
    <3>1. Oldest(s) \in Int
      BY <1>1, WindowAssumption DEF Oldest, TypeOK
    <3> QED
      BY <2>2, <2>3, <3>1
  <2>5. \A s \in Senders : Stored(s)' = Stored(s)
    BY <2>1 DEF Stored
  <2>6. ASSUME NEW s \in Senders, NEW i \in base[s] .. scanned[s]
        PROVE  i \in Nat
    <3>1. base[s] \in Nat /\ scanned[s] \in Nat
      BY <1>1 DEF TypeOK
    <3> QED
      BY <3>1
  <2> QED
    BY <1>1, <2>1, <2>4, <2>5, <2>6 DEF SeenIsStored, IsText
<1>5. CASE Store
  <2>1. \A s \in Senders : Stored(s) \subseteq Stored(s)'
    BY <1>1, <1>5, StoreAddsRow
  <2>2. UNCHANGED <<chain, scanned, base, warned>>
    BY <1>5 DEF Store, history
  <2> QED
    BY <1>1, <2>1, <2>2 DEF SeenIsStored, IsText
<1>6. CASE Mark
  <2>1. PICK last \in records :
          /\ \A i \in records : i <= last
          /\ scanned' = [scanned EXCEPT ![current] = last]
    BY <1>6 DEF Mark
  <2>2. PICK first \in records :
          base' = IF base[current] = None
                  THEN [base EXCEPT ![current] = first] ELSE base
    BY <1>6 DEF Mark
  <2>3. /\ current \in Senders
        /\ scanned \in [Senders -> Nat]
        /\ base \in [Senders -> Nat]
        /\ base[current] = None <=> scanned[current] = None
        /\ records \subseteq Positions(current)
        /\ Len(chain[current]) \in Nat
    BY <1>1 DEF TypeOK, RowsInChain, ScanInChain
  <2>4. /\ pc = "mark"
        /\ UNCHANGED <<chain, entries, warned>>
    BY <1>6 DEF Mark
  <2>5. \A s \in Senders : Stored(s)' = Stored(s)
    BY <2>4 DEF Stored
  <2>6. \A i \in records : i \in Stored(current) /\ IsText(current, i)
    BY <1>1, <2>4 DEF ScanIsWhole
  <2>7. ASSUME NEW i \in base'[current] .. last, IsText(current, i)
        PROVE  i \in Stored(current) \/ i <= warned[current]
    <3>1. last \in Nat /\ first \in Nat /\ i \in Int /\ last \in Positions(current)
      BY <2>1, <2>2, <2>3 DEF Positions
    <3>2. CASE scanned[current] = None
      <4>1. first <= i /\ i <= last
        BY <2>2, <2>3, <3>1, <3>2, <2>7
      <4>2. i \in Positions(current)
        BY <2>3, <3>1, <4>1 DEF Positions
      <4>3. i \in records
        BY <1>1, <2>1, <2>2, <2>4, <2>7, <3>2, <4>1, <4>2 DEF ScanIsWhole
      <4> QED
        BY <2>6, <4>3
    <3>3. CASE scanned[current] # None
      <4>1. base' = base /\ base[current] \in 1 .. scanned[current]
        BY <1>1, <2>2, <2>3, <3>3 DEF TypeOK, RowsInChain
      <4>2. i \in Positions(current) /\ i <= last
        BY <2>3, <2>7, <3>1, <4>1 DEF Positions
      <4>3. CASE i <= scanned[current]
        <5>1. i \in base[current] .. scanned[current]
          BY <2>3, <2>7, <3>1, <4>1, <4>3
        <5> QED
          BY <1>1, <2>3, <2>7, <3>3, <5>1 DEF SeenIsStored
      <4>4. CASE scanned[current] < i
        BY <1>1, <2>1, <2>4, <2>6, <2>7, <3>3, <4>2, <4>4 DEF ScanIsWhole
      <4> QED
        BY <2>3, <3>1, <4>3, <4>4
    <3> QED
      BY <3>2, <3>3
  <2>8. SUFFICES ASSUME NEW s \in Senders, scanned'[s] # None
                 PROVE  /\ IsText(s, scanned'[s])
                        /\ \A i \in base'[s] .. scanned'[s] :
                             IsText(s, i) => i \in Stored(s) \/ i <= warned[s]
    BY <2>4, <2>5 DEF SeenIsStored, IsText
  <2>9. CASE s = current
    BY <2>1, <2>3, <2>6, <2>7, <2>9
  <2>10. CASE s # current
    <3>1. scanned'[s] = scanned[s] /\ base'[s] = base[s]
      BY <2>1, <2>2, <2>3, <2>10
    <3> QED
      BY <1>1, <2>8, <3>1 DEF SeenIsStored
  <2> QED
    BY <2>9, <2>10
<1> QED
  <2>1. ASSUME \/ TickStep
               \/ \E enabled \in SUBSET Senders : StartRun(enabled)
               \/ \E s \in Senders : Visit(s)
               \/ Backfill \/ Signal \/ NothingNew \/ Leave \/ Fail \/ Crash
               \/ UNCHANGED vars
        PROVE  UNCHANGED <<chain, entries, scanned, base, warned>>
    BY <2>1
    DEF vars, store, history, TickStep, Tick, StartRun, Visit,
        Backfill, Signal, NothingNew, Leave, Fail, Crash, Interrupt
  <2> QED
    BY <1>2, <1>3, <1>4, <1>5, <1>6, <2>1 DEF Next, Collect

----------------------------------------------------------------------------

\* What a read returns is whole: it ends no earlier than the cursor, and the
\* text it passes over after the cursor has left the ring with a warning.
LEMMA ReadIsWhole ==
    ASSUME TypeOK, ChainInOrder, SeenIsStored, Read
    PROVE  ScanIsWhole'
<1> USE DEF None
<1> DEFINE R == NewRecords(current, StartOfRead(current))
<1>1. /\ records' = R /\ todo' = R /\ pc' = "store"
      /\ UNCHANGED <<chain, entries, scanned, current>>
  BY DEF Read, store
<1>2. current \in Senders /\ Len(chain[current]) \in Nat
      /\ scanned[current] \in 0 .. Len(chain[current])
  BY DEF TypeOK, RowsInChain
<1>3. Oldest(current) \in Nat \ {0}
  BY <1>2, WindowAssumption DEF Oldest
<1>4. R \subseteq Readable(current)
      /\ \A i \in Readable(current) : i \in Positions(current) /\ IsText(current, i)
                                      /\ i >= Oldest(current)
  BY <1>2, <1>3 DEF NewRecords, Readable, Live, Positions
<1>5. ASSUME scanned[current] # None
      PROVE  StartOfRead(current) = Cursor(current) /\ Cursor(current) # None
             /\ scanned[current] \in Positions(current)
  <2>1. scanned[current] \in Positions(current)
    BY <1>2, <1>5 DEF Positions
  <2>2. Cursor(current) = Time(current, scanned[current])
    BY <1>5 DEF Cursor
  <2> QED
    BY <1>2, <2>1, <2>2, RecordAt DEF StartOfRead
<1>6. ASSUME NEW last \in R, \A i \in R : i <= last
      PROVE  scanned[current] <= last
  <2>1. last \in Positions(current) /\ last >= Oldest(current)
    BY <1>4
  <2>2. ASSUME scanned[current] # None, last < scanned[current]
        PROVE  scanned[current] \in R
    <3>1. scanned[current] \in Live(current)
      BY <1>2, <1>3, <1>5, <2>1, <2>2 DEF Live, Positions
    <3>2. IsText(current, scanned[current])
      BY <1>2, <2>2 DEF SeenIsStored
    <3>3. Time(current, scanned[current]) >= Cursor(current)
      BY <1>2, <1>5, <2>2, RecordAt DEF Cursor
    <3> QED
      BY <1>5, <2>2, <3>1, <3>2, <3>3 DEF NewRecords, Readable
  <2> QED
    BY <1>2, <1>6, <2>1, <2>2 DEF Positions
<1>7. ASSUME NEW i \in Positions(current), NEW b \in R,
             IsText(current, i), i <= b,
             scanned[current] # None, scanned[current] < i, i \notin R
      PROVE  i <= warned'[current]
  <2>1. i < Oldest(current) /\ ~ReachedCursor(current, Cursor(current))
    BY <1>2, <1>4, <1>5, <1>7, LossIsNoticed
  <2>2. warned' = [warned EXCEPT ![current] = Oldest(current) - 1]
    BY <1>5, <1>7, <2>1 DEF Read
  <2>3. warned'[current] = Oldest(current) - 1
    BY <1>2, <2>2 DEF TypeOK
  <2> QED
    BY <1>3, <2>1, <2>3 DEF Positions
<1>8. ASSUME NEW i \in Positions(current), NEW a \in R, NEW b \in R,
             IsText(current, i), a <= i, i <= b, scanned[current] = None
      PROVE  i \in R
  <2>1. i \in Readable(current)
    BY <1>2, <1>3, <1>4, <1>8 DEF Readable, Live, Positions
  <2>2. StartOfRead(current) = HistoryFrom[current]
    BY <1>8 DEF StartOfRead, Cursor
  <2>3. CASE HistoryFrom[current] = None
    <3>1. a \in Int /\ i \in Int
      BY <1>4, <1>8 DEF Positions
    <3>2. i <= a
      BY <1>8, <2>1, <2>2, <2>3 DEF NewRecords
    <3>3. i = a
      BY <1>8, <3>1, <3>2
    <3> QED
      BY <1>8, <3>3
  <2>4. CASE HistoryFrom[current] # None
    <3>1. a \in Positions(current) /\ Time(current, a) >= HistoryFrom[current]
      BY <1>4, <1>8, <2>2, <2>4 DEF NewRecords
    <3>2. Time(current, a) <= Time(current, i)
      BY <1>2, <1>8, <3>1 DEF ChainInOrder
    <3>3. /\ Time(current, a) \in Nat /\ Time(current, i) \in Nat
          /\ HistoryFrom[current] \in Nat
      BY <1>2, <3>1, RecordAt, HistoryAssumption
    <3> QED
      BY <2>1, <2>2, <2>4, <3>1, <3>2, <3>3 DEF NewRecords
  <2> QED
    BY <2>3, <2>4
<1> HIDE DEF R
<1>9. \A i \in R : IsText(current, i)
  BY <1>4
<1> QED
  BY <1>1, <1>6, <1>7, <1>8, <1>9 DEF ScanIsWhole, IsText, Positions

LEMMA ScanStep ==
    ASSUME IInv, [Next]_vars
    PROVE  ScanIsWhole'
<1>1. TypeOK /\ ChainInOrder /\ SeenIsStored /\ ScanIsWhole
  BY DEF IInv
<1>2. CASE UNCHANGED <<chain, entries, scanned, warned, current, pc, records, todo>>
  BY <1>1, <1>2 DEF ScanIsWhole, IsText, Stored, Positions
<1>3. ASSUME NEW r \in Senders, PublishStep(r)
      PROVE  ScanIsWhole'
  <2>1. \A t \in Senders : \A i \in Positions(t) : chain'[t][i] = chain[t][i]
    BY <1>1, <1>3, PublishKeeps
  <2>2. UNCHANGED <<entries, scanned, warned, current, pc, records, todo>>
    BY <1>3 DEF PublishStep, store, process, history
  <2>3. \A t \in Senders : Stored(t)' = Stored(t)
    BY <2>2 DEF Stored
  <2>4. current \in Senders /\ records \subseteq Positions(current)
    BY <1>1 DEF TypeOK, ScanInChain
  <2>5. \A i \in Positions(current) : IsText(current, i)' <=> IsText(current, i)
    BY <2>1, <2>2, <2>4 DEF IsText
  <2>6. \A i \in Positions(current)' : \A b \in records :
           i <= b => i \in Positions(current)
    BY <2>2, <2>4 DEF Positions
  <2>7. \A i \in records : IsText(current, i) => IsText(current, i)'
    BY <2>4, <2>5
  <2> QED
    BY <1>1, <2>2, <2>3, <2>4, <2>5, <2>6, <2>7 DEF ScanIsWhole
<1>4. ASSUME NEW enabled \in SUBSET Senders, StartRun(enabled)
      PROVE  ScanIsWhole'
  BY <1>1, <1>4 DEF StartRun, ScanIsWhole
<1>5. ASSUME NEW s \in Senders, Visit(s)
      PROVE  ScanIsWhole'
  BY <1>1, <1>5 DEF Visit, ScanIsWhole
<1>6. CASE Backfill
  BY <1>1, <1>6 DEF Backfill, ScanIsWhole
<1>7. CASE Read
  BY <1>1, <1>7, ReadIsWhole
<1>8. CASE Store
  <2>1. PICK i \in todo :
          /\ todo' = todo \ {i}
          /\ \A s \in Senders :
               Stored(s)' = Stored(s) \cup (IF s = current THEN {i} ELSE {})
    BY <1>1, <1>8, StoreAddsRow
  <2>2. /\ UNCHANGED <<chain, scanned, warned, current, pc, records>>
        /\ pc = "store"
    BY <1>8 DEF Store, history
  <2>3. Stored(current)' = Stored(current) \cup {i}
    BY <1>1, <2>1, <2>2 DEF TypeOK
  <2>4. Positions(current)' = Positions(current)
        /\ \A j : IsText(current, j)' <=> IsText(current, j)
    BY <2>2 DEF Positions, IsText
  <2> QED
    BY <1>1, <2>1, <2>2, <2>3, <2>4 DEF ScanIsWhole
<1>9. CASE Signal
  <2>1. /\ UNCHANGED <<chain, entries, scanned, warned, current, records, todo>>
        /\ pc = "store" /\ pc' = "mark" /\ todo = {}
    BY <1>9 DEF Signal, history
  <2>2. /\ Stored(current)' = Stored(current)
        /\ Positions(current)' = Positions(current)
        /\ \A j : IsText(current, j)' <=> IsText(current, j)
    BY <2>1 DEF Positions, IsText, Stored
  <2> QED
    BY <1>1, <2>1, <2>2 DEF ScanIsWhole
<1>10. CASE Mark \/ NothingNew
  BY <1>10 DEF Mark, NothingNew, ScanIsWhole
<1>11. CASE Leave \/ Fail \/ Crash
  BY <1>11 DEF Leave, Fail, Crash, Interrupt, ScanIsWhole
<1> QED
  <2>1. TickStep \/ UNCHANGED vars =>
          UNCHANGED <<chain, entries, scanned, warned, current, pc, records, todo>>
    BY DEF TickStep, Tick, vars, store, process, history
  <2> QED
    BY <1>2, <1>3, <1>4, <1>5, <1>6, <1>7, <1>8, <1>9, <1>10, <1>11, <2>1
    DEF Next, Collect

----------------------------------------------------------------------------

LEMMA InvInit == Init => IInv
<1> SUFFICES ASSUME Init PROVE IInv
  OBVIOUS
<1>1. TypeOK
  BY TypeInit
<1>2. \A s \in Senders : Positions(s) = {}
  <2> TAKE s \in Senders
  <2>1. chain[s] = <<>>
    BY DEF Init, DatalogInit
  <2>2. Len(<<>>) = 0 /\ 1 .. 0 = {}
    OBVIOUS
  <2> QED
    BY <2>1, <2>2, Zenon DEF Positions
<1> QED
  BY <1>1, <1>2 DEF IInv, ChainInOrder, SeenIsStored, ScanIsWhole, Init

\* The strengthened invariant holds of every behaviour.
THEOREM Invariance == Spec => []IInv
<1>1. IInv /\ [Next]_vars => IInv'
  BY TypeStep, ChainStep, SeenStep, ScanStep DEF IInv
<1> QED
  BY InvInit, <1>1, PTL DEF Spec

\* Rows, cursors and signals keep their kinds and refer to published records,
\* for every registry, ring size and number of failures.
THEOREM TypeCorrect == Spec => []TypeOK
<1>1. IInv => TypeOK
  BY DEF IInv
<1> QED
  BY Invariance, <1>1, PTL

\* However runs fail or crash between the store's commits, and however fast the
\* ring turns, a record is stored, warned about, or still told by the next read
\* (collect_sender_events and list_new_records).
THEOREM LossIsNeverSilent == Spec => []NoSilentLoss
  BY Invariance, NoSilentLossFollows, PTL

\* A step adds no second row of a record: the row it would repeat is the one
\* add_datalog_entry finds.
LEMMA StoredOnceStep ==
    ASSUME TypeOK, StoredOnce, [Next]_vars
    PROVE  StoredOnce'
<1>1. CASE UNCHANGED entries
  BY <1>1 DEF StoredOnce
<1>2. CASE Store
  <2>1. PICK i \in todo :
          entries' = IF Known(current, i) THEN entries
                     ELSE [entries EXCEPT ![current] = Append(@, i)]
    BY <1>2 DEF Store
  <2>2. CASE Known(current, i)
    BY <2>1, <2>2 DEF StoredOnce
  <2>3. CASE ~Known(current, i)
    <3>1. entries' = [entries EXCEPT ![current] = Append(entries[current], i)]
      BY <2>1, <2>3
    <3>2. i \notin Stored(current)
      BY <2>3 DEF Known
    <3>3. current \in Senders /\ entries \in [Senders -> Seq(Nat \ {0})]
          /\ i \in Nat \ {0}
      BY DEF TypeOK, ScanInChain, Positions
    <3> DEFINE n == Len(entries[current])
    <3>4. entries[current] \in Seq(Nat \ {0})
          /\ entries'[current] = Append(entries[current], i)
      BY <3>1, <3>3
    <3>5. /\ n \in Nat
          /\ DOMAIN entries[current] = 1 .. n
          /\ DOMAIN entries'[current] = 1 .. n + 1
          /\ entries'[current][n + 1] = i
          /\ \A k \in 1 .. n : entries'[current][k] = entries[current][k]
      BY <3>3, <3>4
    <3>6. \A k \in 1 .. n : entries[current][k] # i
      BY <3>2, <3>5 DEF Stored
    <3>7. \A k, m \in 1 .. n : entries[current][k] = entries[current][m] => k = m
      BY <3>3, <3>5 DEF StoredOnce
    <3> HIDE DEF n
    <3>8. \A k, m \in 1 .. n + 1 :
            entries'[current][k] = entries'[current][m] => k = m
      <4>1. \A k \in 1 .. n + 1 : k \in 1 .. n \/ k = n + 1
        BY <3>5
      <4> QED
        BY <3>5, <3>6, <3>7, <4>1
    <3>9. \A s \in Senders : s # current => entries'[s] = entries[s]
      BY <3>1, <3>3
    <3> QED
      BY <3>5, <3>8, <3>9 DEF StoredOnce
  <2> QED
    BY <2>2, <2>3
<1> QED
  BY <1>1, <1>2
  DEF Next, vars, store, history, Collect, TickStep, PublishStep, StartRun, Visit,
      Backfill, Read, Signal, Mark, NothingNew, Leave, Fail, Crash, Interrupt

\* Reading again, at the cursor or after a failure, never makes a second row of a
\* record (add_datalog_entry).
THEOREM RowsAreUnique == Spec => []StoredOnce
<1>1. Init => StoredOnce
  BY DEF Init, StoredOnce
<1>2. TypeOK /\ StoredOnce /\ [Next]_vars => StoredOnce'
  BY StoredOnceStep
<1> QED
  BY TypeCorrect, <1>1, <1>2, PTL DEF Spec

----------------------------------------------------------------------------
\* The store is a copy of what the sites write.

\* A set of naturals that is not empty has a first one.
LEMMA FirstExists ==
    ASSUME NEW S \in SUBSET Nat, S # {}
    PROVE  \E x \in S : \A y \in S : x <= y
<1> DEFINE Below == {ss \in Nat \X Nat : ss[1] < ss[2]}
<1>1. IsWellFoundedOn(Below, Nat)
  BY NatLessThanWellFounded DEF OpToRel
<1>2. \A x, y \in Nat : y < x => <<y, x>> \in Below
  OBVIOUS
<1> HIDE DEF Below
<1>3. PICK m \in S : \A k \in S : ~(<<k, m>> \in Below)
  BY <1>1, WFMin
<1>4. ASSUME NEW k \in S
      PROVE  m <= k
  <2>1. k \in Nat /\ m \in Nat
    OBVIOUS
  <2>2. ~(k < m)
    BY <1>2, <1>3, <2>1, Zenon
  <2> QED
    BY <2>1, <2>2
<1> QED
  BY <1>4

\* A warning is raised only if the cursor's record has left the ring.
LEMMA WarningIsTrue ==
    ASSUME IInv, Cursor(current) # None, ~ReachedCursor(current, Cursor(current))
    PROVE  scanned[current] # None /\ scanned[current] <= Oldest(current) - 1
<1>1. /\ TypeOK /\ ChainInOrder /\ SeenIsStored /\ current \in Senders
      /\ Len(chain[current]) \in Nat
  BY DEF IInv, TypeOK
<1>2. /\ scanned[current] # None /\ Cursor(current) = Time(current, scanned[current])
      /\ scanned[current] \in Positions(current) /\ IsText(current, scanned[current])
  BY <1>1 DEF Cursor, SeenIsStored, TypeOK, RowsInChain, Positions, None
<1>3. Oldest(current) \in Nat \ {0}
  BY <1>1, WindowAssumption DEF Oldest
<1>4. SUFFICES ASSUME scanned[current] >= Oldest(current)
               PROVE  FALSE
  BY <1>1, <1>2, <1>3 DEF Positions
<1>5. scanned[current] \in Readable(current)
  BY <1>1, <1>2, <1>3, <1>4 DEF Readable, Live, Positions
<1>6. Readable(current) \subseteq Positions(current)
  BY <1>1, <1>3 DEF Readable, Live, Positions
<1>7. PICK i \in Readable(current) : \A j \in Readable(current) : i <= j
  <2>1. Readable(current) \in SUBSET Nat /\ Readable(current) # {}
    BY <1>5, <1>6 DEF Positions
  <2> QED
    BY <2>1, FirstExists
<1>8. Time(current, i) <= Time(current, scanned[current])
  BY <1>1, <1>2, <1>5, <1>6, <1>7 DEF ChainInOrder
<1> QED
  BY <1>2, <1>7, <1>8 DEF ReachedCursor

LEMMA StoreTakes ==
    ASSUME IInv, Store
    PROVE  \/ entries' = entries
           \/ \E i \in TextOf(current) \ Stored(current) :
                entries' = [entries EXCEPT ![current] = Append(@, i)]
<1>1. /\ \A i \in todo : i \in Positions(current) /\ IsText(current, i)
  BY DEF IInv, TypeOK, ScanInChain, ScanIsWhole, Store
<1>2. PICK i \in todo : entries' = IF Known(current, i) THEN entries
                                   ELSE [entries EXCEPT ![current] = Append(@, i)]
  BY DEF Store
<1>3. CASE Known(current, i)
  BY <1>2, <1>3
<1>4. CASE ~Known(current, i)
  <2>1. i \notin Stored(current)
    BY <1>4 DEF Known
  <2> QED
    BY <1>1, <1>2, <1>4, <2>1 DEF TextOf
<1> QED
  BY <1>3, <1>4

\* Everything from the first record of the copy to the one the cursor moves to has
\* its row or a warning.
LEMMA MarkPasses ==
    ASSUME IInv, Mark
    PROVE  \E n \in TextOf(current) \cap Stored(current) :
             /\ scanned[current] <= n
             /\ scanned' = [scanned EXCEPT ![current] = n]
             /\ \E m \in Stored(current) :
                  /\ base' = IF base[current] = 0
                             THEN [base EXCEPT ![current] = m] ELSE base
                  /\ \A i \in TextOf(current) : base'[current] <= i /\ i <= n =>
                       i \in Stored(current) \/ i <= warned[current]
<1> USE DEF None
<1>1. /\ TypeOK /\ SeenIsStored /\ ScanIsWhole /\ RowsInChain /\ ScanInChain
      /\ current \in Senders /\ scanned \in [Senders -> Nat] /\ base \in [Senders -> Nat]
      /\ Len(chain[current]) \in Nat
  BY DEF IInv, TypeOK
<1>2. PICK n \in records : /\ \A i \in records : i <= n
                           /\ scanned' = [scanned EXCEPT ![current] = n]
  BY DEF Mark
<1>3. PICK m \in records :
        base' = IF base[current] = None THEN [base EXCEPT ![current] = m] ELSE base
  BY DEF Mark
<1>4. pc = "mark" /\ todo = {} /\ records \subseteq Stored(current)
  BY <1>1 DEF Mark, ScanIsWhole
<1>5. records \subseteq TextOf(current)
  BY <1>1, <1>4 DEF ScanInChain, ScanIsWhole, TextOf
<1>6. scanned[current] <= n
  BY <1>1, <1>2, <1>4 DEF ScanIsWhole
<1>7. ASSUME NEW i \in TextOf(current), base'[current] <= i, i <= n
      PROVE  i \in Stored(current) \/ i <= warned[current]
  <2>1. i \in Positions(current) /\ IsText(current, i) /\ i \in Nat
    BY DEF TextOf, Positions
  <2>2. CASE scanned[current] = None
    <3>1. base'[current] = m
      BY <1>1, <1>3, <2>2 DEF RowsInChain
    <3>2. i \in records
      BY <1>1, <1>2, <1>3, <1>4, <1>7, <2>1, <2>2, <3>1 DEF ScanIsWhole
    <3> QED
      BY <1>4, <3>2
  <2>3. CASE scanned[current] # None /\ scanned[current] < i
    BY <1>1, <1>2, <1>4, <1>7, <2>1, <2>3 DEF ScanIsWhole
  <2>4. CASE scanned[current] # None /\ ~(scanned[current] < i)
    <3>1. base'[current] = base[current]
      BY <1>1, <1>3, <2>4 DEF RowsInChain
    <3>2. i \in base[current] .. scanned[current]
      BY <1>1, <1>7, <2>1, <2>4, <3>1
    <3> QED
      BY <1>1, <2>1, <2>4, <3>2 DEF SeenIsStored
  <2> QED
    BY <2>2, <2>3, <2>4
<1> QED
  BY <1>2, <1>3, <1>4, <1>5, <1>6, <1>7

\* A publication is one record more, which may be text.
LEMMA PublishWrites ==
    ASSUME TypeOK, NEW r \in Senders, PublishStep(r)
    PROVE  /\ Len(chain'[r]) = Len(chain[r]) + 1
           /\ \A s \in Senders : s # r =>
                Len(chain'[s]) = Len(chain[s]) /\ TextOf(s)' = TextOf(s)
           /\ TextOf(r)' \in {TextOf(r), TextOf(r) \cup {Len(chain[r]) + 1}}
<1>1. \A s \in Senders : \A i \in Positions(s) : chain'[s][i] = chain[s][i]
  BY PublishKeeps
<1>2. \A s \in Senders : /\ Len(chain[s]) \in Nat
                         /\ s = r => Len(chain'[s]) = Len(chain[s]) + 1
                         /\ s # r => Len(chain'[s]) = Len(chain[s])
  BY PublishGrows
<1>3. \A s \in Senders : \A i \in Positions(s) : IsText(s, i)' <=> IsText(s, i)
  BY <1>1 DEF IsText
<1>4. ASSUME NEW s \in Senders, s # r
      PROVE  TextOf(s)' = TextOf(s)
  <2>1. Positions(s)' = Positions(s)
    BY <1>2, <1>4 DEF Positions
  <2>2. \A i : i \in TextOf(s)' <=> i \in TextOf(s)
    BY <1>3, <2>1 DEF TextOf
  <2> QED
    BY <2>2
<1>5. TextOf(r)' \in {TextOf(r), TextOf(r) \cup {Len(chain[r]) + 1}}
  <2>1. PICK n : n = Len(chain[r]) + 1
    OBVIOUS
  <2>2. Positions(r)' = Positions(r) \cup {n} /\ n \notin Positions(r)
    BY <1>2, <2>1 DEF Positions
  <2>3. CASE IsText(r, n)'
    <3>1. TextOf(r)' = TextOf(r) \cup {n}
      BY <1>3, <2>2, <2>3 DEF TextOf
    <3> QED
      BY <2>1, <3>1
  <2>4. CASE ~IsText(r, n)'
    <3>1. TextOf(r)' = TextOf(r)
      BY <1>3, <2>2, <2>4 DEF TextOf
    <3> QED
      BY <3>1
  <2> QED
    BY <2>3, <2>4
<1> QED
  BY <1>2, <1>4, <1>5

LEMMA StepCopies ==
    ASSUME IInv, [Next]_vars
    PROVE  [Replica!Next]_(Replica!vars)
<1> USE DEF None
<1> DEFINE written == [s \in Senders |-> Len(chain[s])]
           text == [s \in Senders |-> TextOf(s)]
<1>1. TypeOK /\ ChainInOrder /\ current \in Senders
  BY DEF IInv, TypeOK
<1>2. ASSUME UNCHANGED chain PROVE UNCHANGED <<written, text>>
  <2>1. \A s : TextOf(s)' = TextOf(s)
    BY <1>2 DEF TextOf, Positions, IsText
  <2> QED
    BY <1>2, <2>1
<1>3. \A s \in Senders : text[s] = TextOf(s) /\ Replica!Copied(s) = Stored(s)
  BY DEF Replica!Copied, Stored
<1>4. ASSUME NEW r \in Senders, PublishStep(r)
      PROVE  Replica!Write(r)
  <2>1. UNCHANGED <<entries, warned, base, scanned>>
    BY <1>4 DEF PublishStep, store, history
  <2>2. /\ Len(chain'[r]) = Len(chain[r]) + 1
        /\ \A s \in Senders : s # r =>
             Len(chain'[s]) = Len(chain[s]) /\ TextOf(s)' = TextOf(s)
        /\ TextOf(r)' \in {TextOf(r), TextOf(r) \cup {Len(chain[r]) + 1}}
    BY <1>1, <1>4, PublishWrites
  <2>3. written' = [written EXCEPT ![r] = @ + 1]
    BY <2>2
  <2>4. text' \in {text, [text EXCEPT ![r] = @ \cup {written[r] + 1}]}
    <3>1. CASE TextOf(r)' = TextOf(r)
      BY <2>2, <3>1
    <3>2. CASE TextOf(r)' = TextOf(r) \cup {Len(chain[r]) + 1}
      BY <2>2, <3>2
    <3> QED
      BY <2>2, <3>1, <3>2
  <2> QED
    BY <2>1, <2>3, <2>4 DEF Replica!Write
<1>5. CASE Store
  <2>1. UNCHANGED <<chain, warned, base, scanned>>
    BY <1>5 DEF Store, history
  <2>2. CASE entries' = entries
    BY <1>2, <2>1, <2>2 DEF Replica!vars
  <2>3. CASE entries' # entries
    <3>1. PICK i \in TextOf(current) \ Stored(current) :
            entries' = [entries EXCEPT ![current] = Append(@, i)]
      BY <1>5, <2>3, StoreTakes
    <3>2. i \in text[current] /\ Replica!Take(current, i)
      BY <1>1, <1>2, <1>3, <2>1, <3>1 DEF Replica!Take
    <3> QED
      BY <1>1, <3>2 DEF Replica!Next
  <2> QED
    BY <2>2, <2>3
<1>6. CASE Read
  <2>1. UNCHANGED <<chain, entries, base, scanned>>
    BY <1>6 DEF Read, store
  <2>2. CASE warned' = warned
    BY <1>2, <2>1, <2>2 DEF Replica!vars
  <2>3. CASE warned' # warned
    <3>1. /\ Cursor(current) # None /\ ~ReachedCursor(current, Cursor(current))
          /\ warned' = [warned EXCEPT ![current] = Oldest(current) - 1]
      BY <1>6, <2>3 DEF Read
    <3>2. scanned[current] # None /\ scanned[current] <= Oldest(current) - 1
      BY <3>1, WarningIsTrue
    <3>3. Replica!Gone(current) = Oldest(current) - 1
      <4>1. Len(chain[current]) \in Nat /\ written[current] = Len(chain[current])
        BY <1>1 DEF TypeOK
      <4> QED
        BY <4>1, WindowAssumption DEF Replica!Gone, Oldest
    <3>4. Replica!Announce(current)
      BY <1>2, <2>1, <3>1, <3>2, <3>3 DEF Replica!Announce
    <3> QED
      BY <1>1, <3>4 DEF Replica!Next
  <2> QED
    BY <2>2, <2>3
<1>7. CASE Mark
  <2>1. UNCHANGED <<chain, entries, warned>>
    BY <1>7 DEF Mark
  <2>2. PICK n \in TextOf(current) \cap Stored(current) :
          /\ scanned[current] <= n
          /\ scanned' = [scanned EXCEPT ![current] = n]
          /\ \E m \in Stored(current) :
               /\ base' = IF base[current] = 0
                          THEN [base EXCEPT ![current] = m] ELSE base
               /\ \A i \in TextOf(current) : base'[current] <= i /\ i <= n =>
                    i \in Stored(current) \/ i <= warned[current]
    BY <1>7, MarkPasses
  <2>3. n \in text[current] /\ Replica!Pass(current, n)
    BY <1>1, <1>2, <1>3, <2>1, <2>2 DEF Replica!Pass
  <2> QED
    BY <1>1, <2>3 DEF Replica!Next
<1>8. CASE UNCHANGED <<chain, entries, warned, base, scanned>>
  BY <1>2, <1>8 DEF Replica!vars
<1> QED
  BY <1>1, <1>4, <1>5, <1>6, <1>7, <1>8
  DEF Next, Collect, TickStep, Tick, StartRun, Visit, Backfill, Signal, NothingNew, Join,
      Leave, Fail, Crash, Interrupt, Replica!Next, vars, store, history

LEMMA CopyBegins == Init => Replica!Init
<1> SUFFICES ASSUME Init PROVE Replica!Init
  OBVIOUS
<1>1. chain = [s \in Senders |-> <<>>]
  BY DEF Init, DatalogInit
<1>2. ASSUME NEW s \in Senders
      PROVE  Len(chain[s]) = 0 /\ TextOf(s) = {}
  <2>1. chain[s] = <<>>
    BY <1>1, Zenon
  <2> QED
    BY <2>1 DEF TextOf, Positions
<1> QED
  BY <1>2 DEF Init, Replica!Init, None

\* Whatever fails between two commits, and however often records are read again,
\* the store is a copy with one row for each record, announced gaps and no false
\* warning: collection implements Copy (collect_sender_events).
THEOREM CollectionCopies == Spec => KeepsCopy
<1>1. Init => Replica!Init
  BY CopyBegins
<1>2. IInv /\ [Next]_vars => [Replica!Next]_(Replica!vars)
  BY StepCopies
<1> QED
  BY <1>1, <1>2, Invariance, PTL DEF Spec, KeepsCopy, Replica!Spec
=============================================================================
