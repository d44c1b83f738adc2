-------------------------- MODULE ConnectorProofs --------------------------
(***************************************************************************)
(* For every number of sites, registries, ring size, history, keys and     *)
(* number of failures: what exit code 0 of a run says, namely that the     *)
(* sites that are enabled are read to where they stood when the run        *)
(* started and no report was left half-way; that a run without a failure   *)
(* delivers all that is pending, and each step is one towards its end; and *)
(* that collection and processing together implement Handover.             *)
(***************************************************************************)
EXTENDS Connector, SignalProofs, WellFoundedInduction

\* What is proved of the processing of reports holds of it within a run.
P == INSTANCE HandoverProofs WITH
        todo <- pending, day <- 1, MaxDay <- 1,
        faults <- interrupts, MaxFaults <- MaxInterrupts

\* A run goes through its phases one after the other.
RunInOrder ==
    /\ enabled \in SUBSET Senders /\ queue \subseteq enabled
    /\ step # "idle" => pc = "idle" /\ queue = {} /\ exit = NoCode
    /\ pc # "idle" => exit = NoCode
    /\ upTo \in [Senders -> Nat]
    /\ \A s \in Senders : upTo[s] <= Len(chain[s])

\* A record that has left the ring while junk was written after it.
IsOverwritten(s, i) == i < Oldest(s) /\ \E j \in i + 1 .. Len(chain[s]) : ~IsText(s, j)

IsTold(s, i) == i \in Stored(s) \/ i <= warned[s] \/ IsExcused(s, i)

\* What a site had written when the run started.
Told(s) == \A i \in 1 .. upTo[s] : IsText(s, i) => IsTold(s, i)

\* The same while the scan in hand has still to be stored and marked.
IsComing(i) ==
    \/ i \in Stored(current) \cup records
    \/ i <= warned[current]
    \/ IsOverwritten(current, i)
    \/ scanned[current] # None /\ i < base[current]
    \/ /\ scanned[current] = None
       /\ \A first \in records : i < first
       /\ records = {} => Time(current, i) < HistoryFrom[current]

\* The scan in hand brings what is not there yet, and a site whose turn is over
\* is told of.
SitesAreTold ==
    /\ pc \in {"store", "mark"} =>
        \A i \in 1 .. upTo[current] : IsText(current, i) => IsComing(i)
    /\ exit = NoCode /\ ~failed =>
        \A s \in enabled \ queue : s # current \/ pc \in {"idle", "collected"} => Told(s)

Halfway == {"fetching", "fetched", "decrypting"}

\* A report that is half-way is in hand or has still its turn to come.
HalfwayIsPending ==
    /\ step \in R!Steps
    /\ exit = NoCode /\ ~keyUnavailable /\ step # "idle" =>
        \A r \in R!Reports : status[r] \in Halfway =>
            \/ step \in R!Working \cup {"next"} /\ r \in pending
            \/ step \in R!Working /\ r = cur

\* In a run without a failure every pending report is in hand or has still its turn
\* to come; torn ones go back to NEW.
CleanIsLeft ==
    exit = NoCode /\ clean =>
        /\ ~failed /\ ~keyUnavailable
        /\ step # "idle" => \A r \in R!Reports \ Torn : status[r] \in R!Pending =>
             \/ step \in R!Working \cup {"next"} /\ r \in pending
             \/ step \in R!Working /\ r = cur

RunInv == IInv /\ RunInOrder /\ SitesAreTold /\ status \in [R!Reports -> R!Statuses]
              /\ HalfwayIsPending /\ CleanIsLeft

ChainsAreBounded == \A s \in Senders : Len(chain[s]) <= MaxRecords

\* A row that announces a report has its event, and only it has.
EventsHaveRows ==
    \A s \in Senders : \A i \in 1 .. MaxRecords :
        status[Report(s, i)] # "absent" <=> i \in Positions(s) /\ IsEvent(s, i)

\* Collection and processing together.
WholeInv == RunInv /\ exit \in {NoCode, 0, 1, 3} /\ ChainsAreBounded /\ EventsHaveRows
                /\ P!DeliveryInv

----------------------------------------------------------------------------

\* A set of positions that is not empty has a last one.
LEMMA LastExists ==
    ASSUME NEW n \in Nat, NEW S \in SUBSET (1 .. n), S # {}
    PROVE  \E x \in S : \A y \in S : y <= x
<1> DEFINE Below == {ss \in Nat \X Nat : ss[1] < ss[2]}
           Left == {n - x : x \in S}
<1>1. IsWellFoundedOn(Below, Nat)
  BY NatLessThanWellFounded DEF OpToRel
<1>2. \A x, y \in Nat : y < x => <<y, x>> \in Below
  OBVIOUS
<1>3. Left \in SUBSET Nat /\ Left # {}
  <2>1. ASSUME NEW x \in S PROVE n - x \in Nat /\ n - x \in Left
    OBVIOUS
  <2>2. PICK x \in S : TRUE
    OBVIOUS
  <2> QED
    BY <2>1, <2>2
<1> HIDE DEF Below, Left
<1>4. PICK least \in Left : \A other \in Left : ~(<<other, least>> \in Below)
  BY <1>1, <1>3, WFMin
<1>5. PICK x \in S : least = n - x
  BY <1>4 DEF Left
<1>6. ASSUME NEW y \in S PROVE y <= x
  <2>1. n - y \in Left /\ least \in Nat /\ n - y \in Nat
    BY <1>3, <1>4 DEF Left
  <2>2. ~(n - y < least)
    BY <1>2, <1>4, <2>1
  <2> QED
    BY <1>5, <2>1, <2>2
<1> QED
  BY <1>6

\* What a step of the collection does to sites it is not marking.
LEMMA NothingIsTakenBack ==
    ASSUME IInv, [Next]_vars, NEW s \in Senders
    PROVE  /\ Len(chain[s]) \in Nat /\ Len(chain'[s]) \in Nat
           /\ Len(chain[s]) <= Len(chain'[s])
           /\ \A i \in Positions(s) : chain'[s][i] = chain[s][i]
           /\ Stored(s) \subseteq Stored(s)'
           /\ warned[s] <= warned'[s]
           /\ ~Mark \/ s # current => scanned'[s] = scanned[s] /\ base'[s] = base[s]
<1>1. TypeOK /\ ChainInOrder /\ RowsInChain
  BY DEF IInv, TypeOK
<1>2. Len(chain[s]) \in Nat /\ warned[s] \in 0 .. Oldest(s) - 1 /\ Oldest(s) \in Nat
  <2>1. Len(chain[s]) \in Nat /\ warned[s] \in 0 .. Oldest(s) - 1
    BY <1>1 DEF TypeOK, RowsInChain
  <2>2. Oldest(s) \in Nat
    BY <2>1, WindowAssumption DEF Oldest
  <2> QED
    BY <2>1, <2>2
<1> DEFINE ChainKept == /\ Len(chain'[s]) \in Nat /\ Len(chain[s]) <= Len(chain'[s])
                        /\ \A i \in Positions(s) : chain'[s][i] = chain[s][i]
           RowsKept == Stored(s) \subseteq Stored(s)'
           WarnedKept == warned[s] <= warned'[s]
           CursorKept == ~Mark \/ s # current =>
                             scanned'[s] = scanned[s] /\ base'[s] = base[s]
<1> SUFFICES ChainKept /\ RowsKept /\ WarnedKept /\ CursorKept
  BY <1>2
<1>3. /\ chain' = chain => ChainKept
      /\ entries' = entries => RowsKept
      /\ warned' = warned => WarnedKept
      /\ UNCHANGED <<scanned, base>> => CursorKept
  BY <1>2 DEF Stored
<1>4. ASSUME NEW t \in Senders, PublishStep(t)
      PROVE  ChainKept /\ UNCHANGED <<entries, scanned, base, warned>>
  <2>1. /\ Len(chain'[s]) = Len(chain[s]) + (IF s = t THEN 1 ELSE 0)
        /\ \A i \in Positions(s) : chain'[s][i] = chain[s][i]
    BY <1>1, <1>4, PublishKeeps
  <2>2. UNCHANGED <<entries, scanned, base, warned>>
    BY <1>4 DEF PublishStep, store, history
  <2>3. CASE s = t
    BY <1>2, <2>1, <2>2, <2>3
  <2>4. CASE s # t
    BY <1>2, <2>1, <2>2, <2>4
  <2> QED
    BY <2>3, <2>4
<1>5. CASE Read
  <2>1. UNCHANGED <<chain, entries, scanned, base>>
    BY <1>5 DEF Read, store
  <2>2. \/ warned' = [warned EXCEPT ![current] = Oldest(current) - 1]
        \/ warned' = warned
    BY <1>5 DEF Read
  <2>3. warned'[s] \in {warned[s], Oldest(s) - 1}
    BY <1>1, <2>2 DEF TypeOK
  <2>4. WarnedKept
    BY <1>2, <2>3
  <2> QED
    BY <1>3, <2>1, <2>4
<1>6. CASE Store
  <2>1. RowsKept
    BY <1>1, <1>6, StoreAddsRow
  <2>2. UNCHANGED <<chain, scanned, base, warned>>
    BY <1>6 DEF Store, history
  <2> QED
    BY <1>3, <2>1, <2>2
<1>7. CASE Mark
  <2>1. UNCHANGED <<chain, entries, warned>>
    BY <1>7 DEF Mark
  <2>2. s # current => scanned'[s] = scanned[s] /\ base'[s] = base[s]
    BY <1>1, <1>7 DEF Mark, TypeOK
  <2>3. CursorKept
    BY <1>7, <2>2
  <2> QED
    BY <1>3, <2>1, <2>3
<1>8. \/ \E t \in Senders : PublishStep(t)
      \/ Read \/ Store \/ Mark
      \/ UNCHANGED <<chain, entries, scanned, base, warned>>
  BY DEF Next, Collect, TickStep, Tick, StartRun, Visit, Backfill, Signal, NothingNew,
         Leave, Fail, Crash, Interrupt, vars, store, history
<1> HIDE DEF ChainKept, RowsKept, WarnedKept, CursorKept
<1> QED
  BY <1>3, <1>4, <1>5, <1>6, <1>7, <1>8

\* What a site is told of stays told while nothing is taken back.
LEMMA OverwrittenStays ==
    ASSUME NEW s \in Senders, NEW i \in Positions(s),
           Len(chain[s]) \in Nat, Len(chain'[s]) \in Nat,
           Len(chain[s]) <= Len(chain'[s]),
           \A j \in Positions(s) : chain'[s][j] = chain[s][j]
    PROVE  /\ IsOverwritten(s, i) => IsOverwritten(s, i)'
           /\ IsText(s, i)' <=> IsText(s, i)
           /\ Time(s, i)' = Time(s, i)
<1>1. i \in Nat /\ i >= 1
  BY DEF Positions
<1>2. Oldest(s) <= Oldest(s)' /\ Oldest(s) \in Int /\ Oldest(s)' \in Int
  BY WindowAssumption DEF Oldest
<1>3. ASSUME NEW j \in i + 1 .. Len(chain[s]), ~IsText(s, j)
      PROVE  j \in i + 1 .. Len(chain'[s]) /\ ~IsText(s, j)'
  <2>1. j \in Positions(s)
    BY <1>1, <1>3 DEF Positions
  <2> QED
    BY <1>1, <1>3, <2>1 DEF IsText
<1>4. ASSUME IsOverwritten(s, i) PROVE IsOverwritten(s, i)'
  <2>1. i < Oldest(s)'
    BY <1>1, <1>2, <1>4 DEF IsOverwritten
  <2> QED
    BY <1>3, <1>4, <2>1 DEF IsOverwritten
<1> QED
  BY <1>4 DEF IsText, Time

LEMMA ToldStays ==
    ASSUME IInv, [Next]_vars, NEW s \in Senders, ~Mark \/ s # current,
           upTo[s] \in Nat, upTo[s] <= Len(chain[s]), upTo'[s] = upTo[s], Told(s)
    PROVE  Told(s)'
<1> SUFFICES ASSUME NEW i \in 1 .. upTo[s], IsText(s, i)'
             PROVE  IsTold(s, i)'
  BY DEF Told
<1>1. /\ Len(chain[s]) \in Nat /\ Len(chain'[s]) \in Nat
      /\ Len(chain[s]) <= Len(chain'[s])
      /\ \A j \in Positions(s) : chain'[s][j] = chain[s][j]
      /\ Stored(s) \subseteq Stored(s)'
      /\ warned[s] <= warned'[s]
      /\ scanned'[s] = scanned[s] /\ base'[s] = base[s]
  BY NothingIsTakenBack
<1>2. i \in Positions(s)
  BY <1>1 DEF Positions
<1>3. /\ IsOverwritten(s, i) => IsOverwritten(s, i)'
      /\ IsText(s, i)' <=> IsText(s, i)
      /\ Time(s, i)' = Time(s, i)
  BY <1>1, <1>2, OverwrittenStays
<1>4. IsTold(s, i)
  BY <1>3 DEF Told
<1>5. warned[s] \in Nat /\ warned'[s] \in Nat /\ i \in Nat
  <2>1. TypeOK /\ TypeOK'
    BY TypeStep DEF IInv
  <2> QED
    BY <2>1 DEF TypeOK
<1>6. i <= warned[s] => i <= warned'[s]
  BY <1>1, <1>5
<1>7. IsExcused(s, i) => IsExcused(s, i)'
  BY <1>1, <1>3 DEF IsExcused, IsOverwritten
<1> QED
  BY <1>1, <1>4, <1>6, <1>7 DEF IsTold

\* The same for the scan in hand, until it is marked.
LEMMA ComingStays ==
    ASSUME IInv, [Next]_vars, ~Mark, UNCHANGED <<current, records>>,
           NEW i \in Positions(current), IsComing(i)
    PROVE  IsComing(i)'
<1>1. current \in Senders /\ current' = current
  BY DEF IInv, TypeOK
<1>2. /\ Len(chain[current]) \in Nat /\ Len(chain'[current]) \in Nat
      /\ Len(chain[current]) <= Len(chain'[current])
      /\ \A j \in Positions(current) : chain'[current][j] = chain[current][j]
      /\ Stored(current) \subseteq Stored(current)'
      /\ warned[current] <= warned'[current]
      /\ scanned'[current] = scanned[current] /\ base'[current] = base[current]
  BY <1>1, NothingIsTakenBack
<1>3. /\ IsOverwritten(current, i) => IsOverwritten(current, i)'
      /\ Time(current, i)' = Time(current, i)
  BY <1>1, <1>2, OverwrittenStays
<1>4. warned[current] \in Nat /\ warned'[current] \in Nat /\ i \in Nat
  <2>1. TypeOK /\ TypeOK'
    BY TypeStep DEF IInv
  <2> QED
    BY <1>1, <2>1 DEF TypeOK, Positions
<1>5. i <= warned[current] => i <= warned'[current]
  BY <1>2, <1>4
<1> QED
  BY <1>1, <1>2, <1>3, <1>5 DEF IsComing

\* The ring: what is not in it any more is overwritten, if nothing in it is text.
LEMMA AllJunk ==
    ASSUME TypeOK, NEW s \in Senders, NEW i \in Positions(s), i < Oldest(s),
           Readable(s) = {}
    PROVE  IsOverwritten(s, i)
<1> DEFINE n == Len(chain[s])
<1>1. n \in Nat /\ i \in 1 .. n
  BY DEF TypeOK, Positions
<1>2. n \in Live(s) /\ n \in i + 1 .. n
  BY <1>1, WindowAssumption DEF Live, Oldest
<1>3. ~IsText(s, n)
  BY <1>2 DEF Readable
<1> QED
  BY <1>2, <1>3 DEF IsOverwritten

\* A read that follows a cursor brings what the site had written, or tells.
LEMMA ReadOnBrings ==
    ASSUME IInv, Read, scanned[current] # None,
           NEW i \in Positions(current), IsText(current, i)
    PROVE  IsComing(i)'
<1>1. /\ TypeOK /\ ChainInOrder /\ SeenIsStored
      /\ current \in Senders /\ current' = current
      /\ records' = NewRecords(current, Cursor(current))
      /\ UNCHANGED <<chain, entries, scanned, base>>
  <2>1. StartOfRead(current) = Cursor(current)
    <3>1. scanned[current] \in Positions(current)
      BY DEF IInv, TypeOK, RowsInChain, Positions, None
    <3> QED
      BY <3>1, RecordAt DEF IInv, TypeOK, Cursor, StartOfRead, None
  <2> QED
    BY <2>1 DEF Read, IInv, TypeOK, store
<1>2. /\ Stored(current)' = Stored(current)
      /\ IsOverwritten(current, i) => IsOverwritten(current, i)'
  BY <1>1 DEF Stored, IsOverwritten, Oldest, IsText
<1>3. /\ warned[current] \in Nat /\ warned'[current] \in Nat
      /\ warned[current] <= warned'[current]
      /\ base[current] \in Nat /\ scanned[current] \in Nat /\ i \in Nat
      /\ Oldest(current) \in Nat
  <2>1. TypeOK'
    BY TypeStep DEF Next, Collect
  <2>2. warned[current] <= warned'[current]
    BY <1>1, NothingIsTakenBack DEF Next, Collect
  <2>3. Len(chain[current]) \in Nat
    BY <1>1 DEF TypeOK
  <2> QED
    BY <1>1, <2>1, <2>2, <2>3, WindowAssumption DEF TypeOK, Positions, Oldest
<1>4. CASE i < base[current]
  BY <1>1, <1>4 DEF IsComing
<1>5. CASE base[current] <= i /\ i <= scanned[current]
  <2>1. i \in base[current] .. scanned[current]
    BY <1>3, <1>5
  <2>2. i \in Stored(current) \/ i <= warned[current]
    BY <1>1, <2>1 DEF SeenIsStored
  <2>3. i \in Stored(current) \/ i <= warned'[current]
    BY <1>3, <2>2
  <2> QED
    BY <1>1, <1>2, <2>3 DEF IsComing
<1>6. CASE scanned[current] < i
  <2>1. CASE i \in NewRecords(current, Cursor(current))
    BY <1>1, <2>1 DEF IsComing
  <2>2. CASE i \notin NewRecords(current, Cursor(current))
    <3>1. /\ i < Oldest(current)
          /\ Readable(current) # {} => ~ReachedCursor(current, Cursor(current))
      BY <1>1, <1>6, <2>2, LossIsNoticed
    <3>2. CASE Readable(current) = {}
      BY <1>1, <1>2, <3>1, <3>2, AllJunk DEF IsComing
    <3>3. CASE Readable(current) # {}
      <4>1. Cursor(current) # None
        BY <1>1, <1>6, PastTheCursor DEF None
      <4>2. warned'[current] = Oldest(current) - 1
        BY <1>1, <3>1, <3>3, <4>1 DEF Read, TypeOK
      <4>3. i <= warned'[current]
        BY <1>3, <3>1, <4>2
      <4> QED
        BY <1>1, <4>3 DEF IsComing
    <3> QED
      BY <3>2, <3>3
  <2> QED
    BY <2>1, <2>2
<1> QED
  BY <1>3, <1>4, <1>5, <1>6

\* A first read passes over what is older than all it brings, or older than the
\* history asked for if it brings nothing.
LEMMA FirstReadBrings ==
    ASSUME IInv, Read, scanned[current] = None,
           NEW i \in Positions(current), IsText(current, i)
    PROVE  IsComing(i)'
<1> DEFINE from == HistoryFrom[current]
           New == NewRecords(current, from)
<1>1. /\ TypeOK /\ ChainInOrder
      /\ current \in Senders /\ current' = current
      /\ records' = New
      /\ UNCHANGED <<chain, entries, scanned, base>>
  <2>1. StartOfRead(current) = from
    BY DEF Cursor, StartOfRead
  <2> QED
    BY <2>1 DEF Read, IInv, TypeOK, store
<1>2. /\ IsOverwritten(current, i) => IsOverwritten(current, i)'
      /\ Time(current, i)' = Time(current, i)
  BY <1>1 DEF IsOverwritten, Oldest, IsText, Time
<1>3. /\ Len(chain[current]) \in Nat /\ Oldest(current) \in Nat \ {0} /\ i \in Nat
      /\ from \in Nat
  BY <1>1, WindowAssumption, HistoryAssumption DEF TypeOK, Positions, Oldest
<1>4. \A m \in Readable(current) :
        m \in Positions(current) /\ m \in Nat /\ m >= Oldest(current)
  BY <1>3 DEF Readable, Live, Positions
<1>5. \A m \in Positions(current) : Time(current, m) \in Nat
  BY <1>1, RecordAt
<1>6. New \subseteq Readable(current)
  BY DEF NewRecords
<1>7. i >= Oldest(current) => i \in Readable(current)
  BY <1>3 DEF Readable, Live, Positions
<1>8. SUFFICES ASSUME i \notin New, ~IsOverwritten(current, i)
               PROVE  /\ \A first \in New : i < first
                      /\ New = {} => Time(current, i) < from
  BY <1>1, <1>2 DEF IsComing
<1>9. Readable(current) # {}
  BY <1>1, <1>3, <1>7, <1>8, AllJunk
<1>10. CASE from = None
  <2>1. Readable(current) \in SUBSET (1 .. Len(chain[current]))
    BY <1>4 DEF Positions
  <2>2. PICK x \in Readable(current) : \A y \in Readable(current) : y <= x
    BY <1>3, <1>9, <2>1, LastExists
  <2>3. x \in New
    BY <1>10, <2>2 DEF NewRecords
  <2>4. ASSUME NEW first \in New PROVE i < first
    <3>1. first \in Readable(current) /\ \A y \in Readable(current) : y <= first
      BY <1>10, <2>4 DEF NewRecords
    <3>2. i <= first /\ i # first /\ first \in Nat
      BY <1>3, <1>4, <1>7, <1>8, <2>4, <3>1
    <3> QED
      BY <1>3, <3>2
  <2> QED
    BY <2>3, <2>4
<1>11. CASE from # None
  <2>1. \A m \in Readable(current) : m \in New <=> Time(current, m) >= from
    BY <1>11 DEF NewRecords
  <2>2. ASSUME NEW first \in New PROVE i < first
    <3>1. first \in Readable(current) /\ Time(current, first) >= from
      BY <1>6, <2>1, <2>2
    <3>2. CASE i < Oldest(current)
      BY <1>3, <1>4, <3>1, <3>2
    <3>3. CASE i >= Oldest(current)
      <4>1. Time(current, i) < from
        BY <1>3, <1>5, <1>7, <1>8, <2>1, <3>3
      <4>2. ~(first <= i)
        BY <1>1, <1>3, <1>4, <1>5, <3>1, <4>1 DEF ChainInOrder
      <4> QED
        BY <1>3, <1>4, <3>1, <4>2
    <3> QED
      BY <1>3, <3>2, <3>3
  <2>3. ASSUME New = {} PROVE Time(current, i) < from
    <3>1. PICK m \in Readable(current) : TRUE
      BY <1>9
    <3>2. Time(current, m) < from
      BY <1>3, <1>4, <1>5, <2>1, <2>3
    <3>3. CASE i < Oldest(current)
      <4>1. i <= m
        BY <1>3, <1>4, <3>3
      <4>2. Time(current, i) <= Time(current, m)
        BY <1>1, <1>4, <4>1 DEF ChainInOrder
      <4> QED
        BY <1>3, <1>4, <1>5, <3>2, <4>2
    <3>4. CASE i >= Oldest(current)
      BY <1>3, <1>5, <1>7, <2>1, <2>3, <3>4
    <3> QED
      BY <1>3, <3>3, <3>4
  <2> QED
    BY <2>2, <2>3
<1> QED
  BY <1>10, <1>11

\* The scan that is marked as read keeps what it brought.
LEMMA MarkTells ==
    ASSUME IInv, Mark, NEW i \in Positions(current), IsText(current, i), IsComing(i)
    PROVE  IsTold(current, i)'
<1>1. /\ TypeOK /\ ScanIsWhole /\ RowsInChain /\ current \in Senders /\ current' = current
      /\ pc = "mark" /\ UNCHANGED <<chain, entries, warned>>
  BY DEF Mark, IInv, TypeOK
<1>2. PICK last \in records : scanned' = [scanned EXCEPT ![current] = last]
  BY DEF Mark
<1>3. PICK first \in records :
        base' = IF base[current] = None THEN [base EXCEPT ![current] = first] ELSE base
  BY DEF Mark
<1>4. /\ scanned'[current] = last /\ last \in Nat \ {0}
      /\ base[current] = None <=> scanned[current] = None
      /\ scanned[current] = None => base'[current] = first
      /\ scanned[current] # None => base'[current] = base[current]
  <2>1. /\ last \in Positions(current)
        /\ scanned \in [Senders -> Nat] /\ base \in [Senders -> Nat]
    BY <1>1 DEF TypeOK, ScanInChain
  <2>2. last \in Nat \ {0}
    BY <2>1 DEF Positions
  <2>3. base[current] = None <=> scanned[current] = None
    BY <1>1 DEF RowsInChain
  <2> QED
    BY <1>1, <1>2, <1>3, <2>1, <2>2, <2>3
<1>5. Stored(current)' = Stored(current) /\ warned'[current] = warned[current]
  BY <1>1 DEF Stored
<1>6. CASE i \in Stored(current) \cup records
  <2>1. i \in Stored(current)
    BY <1>1, <1>6 DEF ScanIsWhole
  <2> QED
    BY <1>1, <1>5, <2>1 DEF IsTold
<1>7. CASE i <= warned[current]
  BY <1>1, <1>5, <1>7 DEF IsTold
<1>8. CASE IsOverwritten(current, i)
  BY <1>1, <1>8 DEF IsOverwritten, IsTold, IsExcused, Oldest, IsText
<1>9. CASE scanned[current] # None /\ i < base[current]
  BY <1>1, <1>4, <1>9 DEF IsTold, IsExcused, None
<1>10. CASE scanned[current] = None /\ \A a \in records : i < a
  BY <1>1, <1>3, <1>4, <1>10 DEF IsTold, IsExcused, None
<1> QED
  BY <1>6, <1>7, <1>8, <1>9, <1>10 DEF IsComing

\* A scan that brought nothing has told all the same.
LEMMA NothingTells ==
    ASSUME IInv, NothingNew, NEW i \in Positions(current), IsComing(i)
    PROVE  IsTold(current, i)'
<1>1. records = {} /\ UNCHANGED <<chain, entries, warned, scanned, base, current>>
  BY DEF NothingNew, store
<1>2. IsTold(current, i)
  BY <1>1 DEF IsComing, IsTold, IsExcused, IsOverwritten
<1> QED
  BY <1>1, <1>2 DEF IsTold, IsExcused, Stored, Oldest, IsText, Time

----------------------------------------------------------------------------
\* Steps of the run.

\* Processing leaves the collection alone; it only shares its faults.
LEMMA FaultsAreCounted ==
    ASSUME interrupts \in 0 .. MaxInterrupts,
           R!Process \/ R!Retention \/ R!Failure
    PROVE  interrupts' \in 0 .. MaxInterrupts
<1>1. CASE R!Process
  BY <1>1
  DEF R!Process, R!Pick, R!Download, R!RecordArchive, R!MarkFetched, R!Choose, R!LoadKey,
      R!Stage, R!DecryptMembers, R!ClearOutput, R!RenameStaging, R!WriteManifest,
      R!RecordArtifacts, R!MarkProcessed
<1>2. CASE R!Retention
  BY <1>2
  DEF R!Retention, R!BeginRetention, R!NextRow, R!ExpireDecrypted, R!ForgetDecrypted,
      R!ExpireArchive, R!ForgetArchive, R!RemoveDirectory, R!ForgetDirectory, R!RowDone,
      R!EndRun
<1>3. CASE R!Failure
  <2>1. R!Fault
    BY <1>3
    DEF R!Failure, R!DownloadFails, R!ArchiveUnreadable, R!KeyUnavailable, R!Unexpected,
        R!Crash
  <2> QED
    BY <2>1, InterruptsAssumption DEF R!Fault
<1> QED
  BY <1>1, <1>2, <1>3

LEMMA CollectionGoesOn ==
    ASSUME IInv, [ConnectorNext]_connector
    PROVE  IInv' /\ ([Next]_vars \/ UNCHANGED collection)
<1>1. [Next]_vars => IInv'
  BY TypeStep, ChainStep, SeenStep, ScanStep DEF IInv
<1>2. interrupts \in 0 .. MaxInterrupts
  BY DEF IInv, TypeOK
<1>3. ASSUME UNCHANGED collection, interrupts' \in 0 .. MaxInterrupts
      PROVE  IInv'
  BY <1>3
  DEF IInv, TypeOK, ChainInOrder, SeenIsStored, ScanIsWhole, RowsInChain, ScanInChain,
      collection, store, process, history, Stored, Positions, IsText, Time, Oldest
<1>4. CASE Environment
  BY <1>1, <1>4 DEF Environment, Next
<1>5. CASE \E registry \in Registries : Begin(registry)
  <2>1. PICK registry \in Registries : Begin(registry)
    BY <1>5
  <2>2. registry \in SUBSET Senders
    BY SitesAssumption
  <2> QED
    BY <1>1, <2>1, <2>2 DEF Begin, Next
<1>6. CASE CollectStep
  BY <1>1, <1>6 DEF CollectStep, Next
<1>7. CASE SiteFails
  BY <1>1, <1>7 DEF SiteFails, Next
<1>8. CASE \E config \in Configs : BeginReports(config)
  BY <1>2, <1>3, <1>8 DEF BeginReports, R!StartRun
<1>9. CASE ProcessStep
  BY <1>2, <1>3, <1>9, FaultsAreCounted DEF ProcessStep
<1>10. CASE ReportFails \/ ReportWaitsForKey
  <2>1. UNCHANGED collection /\ R!Failure
    BY <1>10 DEF ReportFails, ReportWaitsForKey, R!Failure
  <2> QED
    BY <1>2, <1>3, <2>1, FaultsAreCounted
<1>11. CASE Finish
  <2>1. UNCHANGED collection /\ (R!Retention \/ R!Failure)
    BY <1>11 DEF Finish, R!Retention, R!Failure
  <2> QED
    BY <1>2, <1>3, <2>1, FaultsAreCounted
<1>12. CASE Die
  <2>1. CASE Crash
    BY <1>1, <2>1 DEF Next
  <2>2. CASE UNCHANGED collection /\ R!Failure
    BY <1>2, <1>3, <2>2, FaultsAreCounted
  <2> QED
    BY <1>12, <2>1, <2>2 DEF Die, R!Failure
<1>13. CASE UNCHANGED connector
  BY <1>2, <1>3, <1>13 DEF connector
<1> QED
  BY <1>4, <1>5, <1>6, <1>7, <1>8, <1>9, <1>10, <1>11, <1>12, <1>13 DEF ConnectorNext, GoOn

\* Reports are worked on by a process that is at them.
LEMMA Busy == R!Process \/ R!Retention \/ R!Failure => step # "idle"
  BY DEF R!Process, R!Pick, R!Download, R!RecordArchive, R!MarkFetched, R!Choose, R!LoadKey,
         R!Stage, R!DecryptMembers, R!ClearOutput, R!RenameStaging, R!WriteManifest,
         R!RecordArtifacts, R!MarkProcessed, R!Retention, R!BeginRetention, R!NextRow,
         R!ExpireDecrypted, R!ForgetDecrypted, R!ExpireArchive, R!ForgetArchive,
         R!RemoveDirectory, R!ForgetDirectory, R!RowDone, R!EndRun, R!Failure,
         R!DownloadFails, R!ArchiveUnreadable, R!KeyUnavailable, R!Unexpected, R!Crash,
         R!Working

LEMMA OrderStep ==
    ASSUME IInv, RunInOrder, [ConnectorNext]_connector
    PROVE  RunInOrder'
<1>1. /\ enabled \in SUBSET Senders /\ queue \subseteq enabled
      /\ step # "idle" => pc = "idle" /\ queue = {} /\ exit = NoCode
      /\ pc # "idle" => exit = NoCode
      /\ upTo \in [Senders -> Nat]
  BY DEF RunInOrder
<1>2. ASSUME upTo' \in {upTo, [s \in Senders |-> Len(chain[s])], [s \in Senders |-> 0]}
      PROVE  upTo' \in [Senders -> Nat] /\ \A s \in Senders : upTo'[s] <= Len(chain'[s])
  <2>1. ASSUME NEW s \in Senders
        PROVE  /\ Len(chain[s]) \in Nat /\ Len(chain'[s]) \in Nat
               /\ Len(chain[s]) <= Len(chain'[s])
    <3>1. CASE [Next]_vars
      BY <3>1, NothingIsTakenBack
    <3>2. CASE UNCHANGED collection
      BY <3>2 DEF collection, IInv, TypeOK
    <3> QED
      BY <3>1, <3>2, CollectionGoesOn
  <2>2. upTo' \in [Senders -> Nat]
    BY <1>1, <1>2, <2>1
  <2>3. ASSUME NEW s \in Senders PROVE upTo'[s] <= Len(chain[s])
    BY <1>2, <2>1, <2>3 DEF RunInOrder
  <2>4. ASSUME NEW s \in Senders PROVE upTo'[s] <= Len(chain'[s])
    BY <2>1, <2>2, <2>3
  <2> QED
    BY <2>2, <2>4
<1>3. CASE Environment
  <2>1. UNCHANGED <<enabled, queue, pc, step, exit, upTo>>
    BY <1>3 DEF Environment, TickStep, PublishStep, process, reports, processing, outcome
  <2> QED
    BY <1>1, <1>2, <2>1 DEF RunInOrder
<1>4. CASE \E registry \in Registries : Begin(registry)
  <2>1. PICK registry \in Registries : Begin(registry)
    BY <1>4
  <2>2. /\ registry \in SUBSET Senders /\ enabled' = registry /\ queue' = registry
        /\ pc' = "idle" /\ exit # NoCode /\ exit' = NoCode /\ step' = step
        /\ upTo' = [s \in Senders |-> Len(chain[s])]
    BY <2>1, SitesAssumption DEF Begin, StartRun, reports, processing
  <2> QED
    BY <1>1, <1>2, <2>2 DEF RunInOrder
<1>5. CASE CollectStep \/ SiteFails
  <2>1. /\ UNCHANGED <<enabled, step, upTo>> /\ step = "idle"
        /\ exit' = exit /\ queue' \subseteq queue
        /\ exit = NoCode \/ pc # "idle"
    BY <1>5
    DEF CollectStep, SiteFails, Collect, Visit, Backfill, Read, Store, Signal, Mark,
        NothingNew, Leave, Fail, Interrupt, reports, processing, outcome
  <2> QED
    BY <1>1, <1>2, <2>1 DEF RunInOrder
<1>6. CASE \E config \in Configs : BeginReports(config)
  <2>1. /\ exit = NoCode /\ pc = "idle" /\ queue = {}
        /\ UNCHANGED <<enabled, queue, pc, exit, upTo>>
    BY <1>6 DEF BeginReports, collection, process, outcome
  <2> QED
    BY <1>1, <1>2, <2>1 DEF RunInOrder
<1>7. CASE ProcessStep \/ ReportFails \/ ReportWaitsForKey
  <2>1. step # "idle" /\ UNCHANGED <<enabled, queue, pc, exit, upTo>>
    BY <1>7, Busy
    DEF ProcessStep, ReportFails, ReportWaitsForKey, R!Failure, collection, process, outcome
  <2> QED
    BY <1>1, <1>2, <2>1 DEF RunInOrder
<1>8. CASE Finish \/ Die
  <2>1. /\ step' = "idle" /\ pc' = "idle" /\ queue' \in {queue, {}}
        /\ UNCHANGED enabled /\ upTo' = [s \in Senders |-> 0]
    <3>1. CASE Crash /\ UNCHANGED reports /\ step = "idle"
      BY <1>8, <3>1 DEF Finish, Die, End, Crash, Interrupt, reports, processing
    <3>2. CASE UNCHANGED collection /\ (R!EndRun \/ R!Crash)
      BY <1>1, <1>8, <3>2, Busy
      DEF Finish, Die, End, R!EndRun, R!Crash, R!Over, R!Retention, R!Failure, collection,
          process
    <3> QED
      BY <1>8, <3>1, <3>2 DEF Finish, Die
  <2> QED
    BY <1>1, <1>2, <2>1 DEF RunInOrder
<1>9. CASE UNCHANGED connector
  <2>1. UNCHANGED <<enabled, queue, pc, step, exit, upTo>>
    BY <1>9 DEF connector, collection, process, reports, processing, outcome
  <2> QED
    BY <1>1, <1>2, <2>1 DEF RunInOrder
<1> QED
  BY <1>3, <1>4, <1>5, <1>6, <1>7, <1>8, <1>9 DEF ConnectorNext, GoOn

\* A site whose turn is over stays told of, until the next run.
LEMMA SitesStay ==
    ASSUME IInv, RunInOrder, SitesAreTold, [Next]_vars, ~Mark,
           UNCHANGED <<enabled, upTo, current, queue, exit, failed>>,
           pc' \in {"store", "mark"} => pc \in {"store", "mark"} /\ records' = records,
           pc' \in {"idle", "collected"} => pc \in {"idle", "collected"}
    PROVE  SitesAreTold'
<1>1. current \in Senders /\ \A s \in Senders : Len(chain[s]) \in Nat
  BY DEF IInv, TypeOK
<1>2. ASSUME pc' \in {"store", "mark"}, NEW i \in 1 .. upTo[current], IsText(current, i)'
      PROVE  IsComing(i)'
  <2>1. i \in Positions(current)
    BY <1>1 DEF RunInOrder, Positions
  <2>2. IsText(current, i)
    BY <1>1, <1>2, <2>1, NothingIsTakenBack DEF IsText
  <2> QED
    BY <1>2, <2>1, <2>2, ComingStays DEF SitesAreTold
<1>3. ASSUME NEW s \in Senders, Told(s) PROVE Told(s)'
  BY <1>1, <1>3, ToldStays DEF RunInOrder
<1>4. \A s \in enabled \ queue : s \in Senders
  BY DEF RunInOrder
<1> QED
  BY <1>2, <1>3, <1>4 DEF SitesAreTold

\* What a step of the collection makes of the site in hand and of the others.
LEMMA TurnsAreTold ==
    ASSUME IInv, RunInOrder, SitesAreTold, [Next]_vars, Read \/ Mark \/ NothingNew,
           UNCHANGED <<enabled, upTo, exit, failed>>
    PROVE  SitesAreTold'
<1>1. /\ current \in Senders /\ \A s \in Senders : Len(chain[s]) \in Nat
      /\ \A s \in enabled \ queue : s \in Senders
      /\ \A i \in 1 .. upTo[current] : i \in Positions(current)
      /\ UNCHANGED <<current, queue, chain>>
      /\ pc \notin {"idle", "collected"}
  BY DEF IInv, TypeOK, RunInOrder, Positions, Read, Mark, NothingNew
<1>2. ASSUME NEW s \in Senders, s # current, Told(s) PROVE Told(s)'
  BY <1>1, <1>2, ToldStays DEF RunInOrder
<1>3. CASE Read
  <2>1. pc' = "store"
    BY <1>3 DEF Read
  <2>2. ASSUME NEW i \in 1 .. upTo[current], IsText(current, i)' PROVE IsComing(i)'
    <3>1. IsText(current, i)
      BY <1>1, <2>2 DEF IsText
    <3> QED
      BY <1>1, <1>3, <3>1, ReadOnBrings, FirstReadBrings
  <2> QED
    BY <1>1, <1>2, <2>1, <2>2 DEF SitesAreTold
<1>4. CASE Mark \/ NothingNew
  <2>1. pc' = "collected" /\ pc \in {"store", "mark"}
    BY <1>4 DEF Mark, NothingNew
  <2>2. Told(current)'
    <3> SUFFICES ASSUME NEW i \in 1 .. upTo[current], IsText(current, i)'
                 PROVE  IsTold(current, i)'
      BY <1>1 DEF Told
    <3>1. IsText(current, i)
      BY <1>1 DEF IsText
    <3>2. IsComing(i)
      BY <2>1, <3>1 DEF SitesAreTold
    <3> QED
      BY <1>1, <1>4, <3>1, <3>2, MarkTells, NothingTells
  <2> QED
    BY <1>1, <1>2, <2>1, <2>2 DEF SitesAreTold
<1> QED
  BY <1>3, <1>4

LEMMA SitesStep ==
    ASSUME IInv, RunInOrder, SitesAreTold, [ConnectorNext]_connector
    PROVE  SitesAreTold'
<1>1. CASE Environment
  <2>1. /\ UNCHANGED <<enabled, upTo, current, queue, exit, failed, pc, records>>
        /\ [Next]_vars
    BY <1>1 DEF Environment, TickStep, PublishStep, process, outcome, Next
  <2>2. ~Mark
    <3>1. UNCHANGED scanned /\ pc' = pc
      BY <1>1 DEF Environment, TickStep, PublishStep, store, process
    <3> QED
      BY <3>1 DEF Mark
  <2> QED
    BY <2>1, <2>2, SitesStay
<1>2. CASE \E registry \in Registries : Begin(registry)
  <2>1. pc' = "idle" /\ enabled' = queue'
    BY <1>2 DEF Begin, StartRun
  <2> QED
    BY <2>1 DEF SitesAreTold
<1>3. CASE CollectStep
  <2>1. UNCHANGED <<enabled, upTo, exit, failed>> /\ [Next]_vars
    BY <1>3 DEF CollectStep, outcome, Next
  <2>2. CASE Read \/ Mark \/ NothingNew
    BY <2>1, <2>2, TurnsAreTold
  <2>3. CASE Backfill \/ Store \/ Signal \/ Leave
    <3>1. /\ UNCHANGED <<current, queue>>
          /\ pc' \in {"store", "mark"} => pc \in {"store", "mark"} /\ records' = records
          /\ pc' \in {"idle", "collected"} => pc \in {"idle", "collected"}
          /\ ~Mark
      BY <2>3 DEF Backfill, Store, Signal, Leave, Mark
    <3> QED
      BY <2>1, <3>1, SitesStay
  <2>4. CASE \E s \in Senders : Visit(s)
    <3>1. PICK s \in Senders : Visit(s)
      BY <2>4
    <3>2. /\ pc = "idle" /\ pc' = "backfill" /\ current' = s /\ queue' = queue \ {s}
          /\ s \in queue /\ ~Mark
      BY <3>1 DEF Visit, Mark
    <3>3. ASSUME NEW t \in Senders, Told(t) PROVE Told(t)'
      BY <2>1, <3>2, <3>3, ToldStays DEF RunInOrder, IInv, TypeOK
    <3>4. \A t \in enabled \ queue : t \in Senders
      BY DEF RunInOrder
    <3> QED
      BY <2>1, <3>2, <3>3, <3>4 DEF SitesAreTold
  <2> QED
    BY <1>3, <2>2, <2>3, <2>4 DEF CollectStep, Collect
<1>4. CASE SiteFails
  <2>1. pc' = "idle" /\ failed'
    BY <1>4 DEF SiteFails, Fail, Interrupt
  <2> QED
    BY <2>1 DEF SitesAreTold
<1>5. CASE \/ \E config \in Configs : BeginReports(config)
           \/ ProcessStep \/ ReportFails \/ ReportWaitsForKey
           \/ UNCHANGED connector
  <2>1. UNCHANGED <<collection, enabled, upTo, exit, failed>>
    BY <1>5
    DEF BeginReports, ProcessStep, ReportFails, ReportWaitsForKey, outcome, connector
  <2>2. UNCHANGED <<chain, entries, scanned, base, warned, pc, current, queue, records>>
    BY <2>1 DEF collection, store, process, history
  <2> QED
    BY <2>1, <2>2
    DEF SitesAreTold, Told, IsTold, IsComing, IsExcused, IsOverwritten, Stored, Oldest,
        IsText, Time
<1>6. CASE Finish \/ Die
  <2>1. exit' # NoCode
    BY <1>6 DEF Finish, Die, End, ExitCode, NoCode
  <2>2. pc' = "idle"
    <3>1. CASE Crash
      BY <3>1 DEF Crash, Interrupt
    <3>2. CASE UNCHANGED collection /\ (R!EndRun \/ R!Crash)
      BY <3>2, Busy DEF RunInOrder, R!Retention, R!Failure, collection, process
    <3> QED
      BY <1>6, <3>1, <3>2 DEF Finish, Die
  <2> QED
    BY <2>1, <2>2 DEF SitesAreTold
<1> QED
  BY <1>1, <1>2, <1>3, <1>4, <1>5, <1>6 DEF ConnectorNext, GoOn

\* The steps of the processing, by what they make of the turn of a report.

TurnBegins ==
    /\ step = "next"
    /\ \E r \in pending :
        /\ cur' = r /\ pending' = pending \ {r}
        /\ \/ status' = [status EXCEPT ![r] = "fetching"] /\ step' = "fetch"
           \/ status' = status /\ step' = "choose"

TurnGoesOn ==
    /\ step \in R!Working /\ step' \in R!Working /\ UNCHANGED <<cur, pending>>
    /\ \/ status' = status
       \/ \E half \in {"fetched", "decrypting"} : status' = [status EXCEPT ![cur] = half]

\* Only a torn archive goes back to NEW with no failure.
TurnEnds ==
    /\ step \in R!Working /\ step' = "next" /\ UNCHANGED <<cur, pending>>
    /\ \E result \in {"failed", "new", "processed"} :
        /\ status' = [status EXCEPT ![cur] = result]
        /\ result = "new" => cur \in Torn

\* Retention comes when no report is left to come.
Retains ==
    /\ step \in {"retain", "expire"} \/ (step = "next" /\ pending = {})
    /\ step' \in {"retain", "expire", "idle"}
    /\ status' = status

LEMMA WorkGoesOn ==
    ASSUME ProcessStep
    PROVE  TurnBegins \/ TurnGoesOn \/ TurnEnds \/ Retains
<1>1. CASE R!Pick
  BY <1>1 DEF R!Pick, TurnBegins
<1>2. CASE \/ R!RecordArchive \/ R!Stage \/ R!ClearOutput \/ R!RenameStaging
           \/ R!WriteManifest \/ R!RecordArtifacts
  BY <1>2
  DEF R!RecordArchive, R!Stage, R!ClearOutput, R!RenameStaging, R!WriteManifest,
      R!RecordArtifacts, R!Working, R!process, R!store, TurnGoesOn
<1>3. CASE R!MarkFetched \/ R!LoadKey
  BY <1>3 DEF R!MarkFetched, R!LoadKey, R!Working, TurnGoesOn
<1>4. CASE R!Download \/ R!Choose \/ R!DecryptMembers \/ R!MarkProcessed
  BY <1>4
  DEF R!Download, R!Choose, R!DecryptMembers, R!MarkProcessed, R!Settle, R!Working,
      TurnGoesOn, TurnEnds
<1>5. CASE R!Retention
  BY <1>5
  DEF R!Retention, R!BeginRetention, R!NextRow, R!ExpireDecrypted, R!ForgetDecrypted,
      R!ExpireArchive, R!ForgetArchive, R!RemoveDirectory, R!ForgetDirectory,
      R!RowDone, R!EndRun, R!Over, R!store, R!process, Retains
<1> QED
  BY <1>1, <1>2, <1>3, <1>4, <1>5 DEF ProcessStep, R!Process

\* Processing leaves no report half-way that it has still to come to.
LEMMA HalfwayStep ==
    ASSUME RunInOrder, status \in [R!Reports -> R!Statuses], HalfwayIsPending,
           [ConnectorNext]_connector
    PROVE  status' \in [R!Reports -> R!Statuses] /\ HalfwayIsPending'
<1>1. status \in [R!Reports -> R!Statuses] /\ step \in R!Steps
  BY DEF HalfwayIsPending
<1> DEFINE StatusOK == status' \in [R!Reports -> R!Statuses]
<1>2. CASE UNCHANGED <<status, step, cur, pending, exit, keyUnavailable>>
  BY <1>1, <1>2 DEF HalfwayIsPending
<1>3. CASE Environment \/ SiteFails \/ UNCHANGED connector
  <2>1. UNCHANGED <<status, step, cur, pending, exit, keyUnavailable>>
    BY <1>3 DEF Environment, SiteFails, reports, processing, outcome, connector
  <2> QED
    BY <1>2, <2>1
<1>4. CASE \/ \E registry \in Registries : Begin(registry)
           \/ CollectStep
  <2>1. step' = "idle"
    <3>1. UNCHANGED step /\ (exit # NoCode \/ step = "idle")
      BY <1>4 DEF Begin, CollectStep, reports, processing
    <3> QED
      BY <3>1 DEF RunInOrder
  <2>2. StatusOK
    <3>1. status' = status \/ status' = Events
      BY <1>4 DEF Begin, CollectStep, reports
    <3> QED
      BY <1>1, <3>1 DEF Events, R!Statuses, R!Pending
  <2> QED
    BY <2>1, <2>2 DEF HalfwayIsPending, R!Steps
<1>5. CASE \E config \in Configs : BeginReports(config)
  <2>1. /\ step' = "next" /\ status' = [r \in R!Reports |-> status[r]]
        /\ pending' = {r \in R!Reports : status'[r] \in R!Pending}
    BY <1>5 DEF BeginReports, R!StartRun
  <2>2. \A r \in R!Reports : status'[r] \in Halfway => r \in pending'
    BY <2>1 DEF Halfway, R!Pending
  <2> QED
    BY <1>1, <2>1, <2>2 DEF HalfwayIsPending, R!Steps
<1>6. CASE ProcessStep
  <2>1. UNCHANGED <<exit, keyUnavailable>>
    BY <1>6 DEF ProcessStep, outcome
  <2>2. CASE TurnBegins
    <3>1. PICK r \in pending :
            /\ cur' = r /\ pending' = pending \ {r}
            /\ \/ status' = [status EXCEPT ![r] = "fetching"] /\ step' = "fetch"
               \/ status' = status /\ step' = "choose"
      BY <2>2 DEF TurnBegins
    <3>2. StatusOK
      BY <1>1, <3>1 DEF R!Statuses, R!Pending
    <3>3. step = "next" /\ step' \in R!Working /\ step' \in R!Steps
      BY <2>2, <3>1 DEF TurnBegins, R!Working, R!Steps
    <3>4. ASSUME NEW q \in R!Reports, status'[q] \in Halfway, q # cur'
          PROVE  status[q] \in Halfway
      BY <1>1, <3>1, <3>4
    <3> QED
      BY <2>1, <3>1, <3>2, <3>3, <3>4 DEF HalfwayIsPending, R!Working
  <2>3. CASE TurnEnds \/ TurnGoesOn
    <3>1. step \in R!Working /\ UNCHANGED <<cur, pending>>
      BY <2>3 DEF TurnEnds, TurnGoesOn
    <3>2. StatusOK
      BY <1>1, <2>3 DEF TurnEnds, TurnGoesOn, R!Statuses, R!Pending
    <3>3. ASSUME NEW q \in R!Reports, status'[q] \in Halfway
          PROVE  q # cur => status[q] \in Halfway
      BY <1>1, <2>3, <3>3 DEF TurnEnds, TurnGoesOn
    <3>4. ASSUME NEW q \in R!Reports, status'[q] \in Halfway, step' = "next"
          PROVE  q # cur
      BY <1>1, <2>3, <3>4 DEF TurnEnds, TurnGoesOn, Halfway, R!Working
    <3>5. step' \in R!Working \cup {"next"} /\ step' \in R!Steps /\ step # "idle"
      BY <2>3 DEF TurnEnds, TurnGoesOn, R!Working, R!Steps
    <3> QED
      BY <2>1, <3>1, <3>2, <3>3, <3>4, <3>5 DEF HalfwayIsPending
  <2>4. CASE Retains
    <3>1. exit = NoCode /\ ~keyUnavailable => \A r \in R!Reports : status[r] \notin Halfway
      BY <2>4 DEF Retains, HalfwayIsPending, R!Working
    <3> QED
      BY <1>1, <2>1, <2>4, <3>1 DEF Retains, HalfwayIsPending, R!Steps, R!Working
  <2> QED
    BY <1>6, <2>2, <2>3, <2>4, WorkGoesOn
<1>7. CASE ReportFails \/ ReportWaitsForKey
  <2>1. /\ UNCHANGED <<exit, cur, pending>> /\ step' = "next" /\ step \in R!Working
        /\ \/ /\ keyUnavailable' = keyUnavailable
              /\ \E result \in {"failed", "new"} :
                   status' = [status EXCEPT ![cur] = result]
           \/ keyUnavailable' /\ status' = [status EXCEPT ![cur] = "fetched"]
    BY <1>7
    DEF ReportFails, ReportWaitsForKey, R!DownloadFails, R!ArchiveUnreadable,
        R!KeyUnavailable, R!Unexpected, R!Settle, R!Working, outcome
  <2>2. StatusOK
    BY <1>1, <2>1 DEF R!Statuses, R!Pending
  <2>3. ASSUME NEW q \in R!Reports, status'[q] \in Halfway, ~keyUnavailable'
        PROVE  q # cur /\ status[q] \in Halfway
    BY <1>1, <2>1, <2>3 DEF Halfway
  <2>4. step' \in R!Steps /\ step # "idle" /\ step # "next"
    BY <2>1 DEF R!Steps, R!Working
  <2> QED
    BY <2>1, <2>2, <2>3, <2>4 DEF HalfwayIsPending
<1>8. CASE Finish \/ Die
  <2>1. exit' # NoCode
    BY <1>8 DEF Finish, Die, End, ExitCode, NoCode
  <2>2. status' = status /\ step' \in {"idle", step}
    BY <1>8
    DEF Finish, Die, R!EndRun, R!Crash, R!Over, R!store, reports, processing
  <2> QED
    BY <1>1, <2>1, <2>2 DEF HalfwayIsPending, R!Steps
<1> QED
  BY <1>3, <1>4, <1>5, <1>6, <1>7, <1>8 DEF ConnectorNext, GoOn

\* A run without a failure leaves nothing it has taken up pending.
LEMMA CleanStep ==
    ASSUME RunInOrder, status \in [R!Reports -> R!Statuses], CleanIsLeft,
           [ConnectorNext]_connector
    PROVE  CleanIsLeft'
<1>1. CASE UNCHANGED <<status, step, cur, pending, exit, failed, keyUnavailable, clean>>
  BY <1>1 DEF CleanIsLeft
<1>2. CASE Environment \/ UNCHANGED connector
  <2>1. UNCHANGED <<status, step, cur, pending, exit, failed, keyUnavailable, clean>>
    BY <1>2 DEF Environment, reports, processing, outcome, connector
  <2> QED
    BY <1>1, <2>1
<1>3. CASE SiteFails \/ ReportFails \/ ReportWaitsForKey
  <2>1. ~clean'
    BY <1>3 DEF SiteFails, ReportFails, ReportWaitsForKey
  <2> QED
    BY <2>1 DEF CleanIsLeft
<1>4. CASE \E registry \in Registries : Begin(registry)
  <2>1. exit # NoCode /\ step' = step /\ ~failed' /\ ~keyUnavailable'
    BY <1>4 DEF Begin, reports, processing
  <2> QED
    BY <2>1 DEF RunInOrder, CleanIsLeft
<1>5. CASE CollectStep
  <2>1. step' = "idle" /\ UNCHANGED <<exit, failed, keyUnavailable, clean>>
    BY <1>5 DEF CollectStep, processing, outcome
  <2> QED
    BY <2>1 DEF CleanIsLeft
<1>6. CASE \E config \in Configs : BeginReports(config)
  <2>1. /\ step' = "next" /\ UNCHANGED <<exit, failed, keyUnavailable, clean>>
        /\ pending' = {r \in R!Reports : status'[r] \in R!Pending}
    BY <1>6 DEF BeginReports, R!StartRun, outcome
  <2> QED
    BY <2>1 DEF CleanIsLeft
<1>7. CASE ProcessStep
  <2>1. UNCHANGED <<exit, failed, keyUnavailable, clean>>
    BY <1>7 DEF ProcessStep, outcome
  <2>2. SUFFICES ASSUME exit = NoCode, clean,
                        NEW r \in R!Reports \ Torn, status'[r] \in R!Pending
                 PROVE  \/ step' \in R!Working \cup {"next"} /\ r \in pending'
                        \/ step' \in R!Working /\ r = cur'
    BY <2>1 DEF CleanIsLeft
  <2>3. /\ step # "idle"
        /\ status[r] \in R!Pending =>
             \/ step \in R!Working \cup {"next"} /\ r \in pending
             \/ step \in R!Working /\ r = cur
    BY <1>7, <2>2, Busy DEF ProcessStep, CleanIsLeft
  <2>4. CASE TurnBegins
    <3>1. PICK q \in pending :
            /\ cur' = q /\ pending' = pending \ {q}
            /\ \/ status' = [status EXCEPT ![q] = "fetching"] /\ step' = "fetch"
               \/ status' = status /\ step' = "choose"
      BY <2>4 DEF TurnBegins
    <3>2. step = "next" /\ step' \in R!Working
      BY <2>4, <3>1 DEF TurnBegins, R!Working
    <3>3. CASE r = q
      BY <3>1, <3>2, <3>3
    <3>4. CASE r # q
      <4>1. status'[r] = status[r]
        BY <3>1, <3>4
      <4> QED
        BY <2>2, <2>3, <3>1, <3>2, <3>4, <4>1 DEF R!Working
    <3> QED
      BY <3>3, <3>4
  <2>5. CASE TurnGoesOn
    <3>1. r # cur => status'[r] = status[r]
      BY <2>5 DEF TurnGoesOn
    <3> QED
      BY <2>2, <2>3, <2>5, <3>1 DEF TurnGoesOn
  <2>6. CASE TurnEnds
    <3>1. r # cur
      BY <2>2, <2>6 DEF TurnEnds, R!Pending
    <3>2. status'[r] = status[r]
      BY <2>6, <3>1 DEF TurnEnds
    <3> QED
      BY <2>2, <2>3, <2>6, <3>1, <3>2 DEF TurnEnds
  <2>7. CASE Retains
    BY <2>2, <2>3, <2>7 DEF Retains, R!Working
  <2> QED
    BY <1>7, <2>4, <2>5, <2>6, <2>7, WorkGoesOn
<1>8. CASE Finish \/ Die
  <2>1. exit' # NoCode
    BY <1>8 DEF Finish, Die, End, ExitCode, NoCode
  <2> QED
    BY <2>1 DEF CleanIsLeft
<1> QED
  BY <1>2, <1>3, <1>4, <1>5, <1>6, <1>7, <1>8 DEF ConnectorNext, GoOn

LEMMA RunInvStep == RunInv /\ [ConnectorNext]_connector => RunInv'
BY CollectionGoesOn, OrderStep, SitesStep, HalfwayStep, CleanStep DEF RunInv

LEMMA RunInvInit == ConnectorInit => RunInv
<1> SUFFICES ASSUME ConnectorInit PROVE RunInv
  OBVIOUS
<1>1. IInv
  BY InvInit DEF ConnectorInit
<1>2. /\ enabled = {} /\ queue = {} /\ pc = "idle" /\ step = "idle" /\ exit = 0
      /\ upTo = [s \in Senders |-> 0]
      /\ status = [r \in R!Reports |-> "absent"]
  BY DEF ConnectorInit, Init, R!Init
<1>3. \A s \in Senders : Len(chain[s]) \in Nat
  BY <1>1 DEF IInv, TypeOK
<1>4. RunInOrder
  BY <1>2, <1>3 DEF RunInOrder
<1>5. SitesAreTold
  BY <1>2 DEF SitesAreTold, NoCode
<1>6. status \in [R!Reports -> R!Statuses] /\ HalfwayIsPending
  BY <1>2 DEF R!Statuses, HalfwayIsPending, R!Steps
<1>7. CleanIsLeft
  BY <1>2 DEF CleanIsLeft, NoCode
<1> QED
  BY <1>1, <1>4, <1>5, <1>6, <1>7 DEF RunInv

\* Throughout a run: what the scan in hand has still to bring, which sites are
\* told of, and which reports are in hand (run_once).
THEOREM RunInvariance == ConnectorSpec => []RunInv
<1>1. ConnectorInit => RunInv
  BY RunInvInit
<1>2. RunInv /\ [ConnectorNext]_connector => RunInv'
  BY RunInvStep
<1> QED
  BY <1>1, <1>2, PTL DEF ConnectorSpec

\* Exit code 0 means that every enabled site was read to where it stood when the
\* run began, or a gap warning says what is lost, and that no report is half-way
\* (RunOnceResult.exit_code).
THEOREM ZeroIsTrue == ConnectorSpec => ZeroTells
<1> DEFINE Zero ==
      exit = NoCode /\ exit' = 0 =>
        /\ \A s \in enabled : \A i \in 1 .. upTo[s] :
            IsText(s, i) => i \in Stored(s) \/ i <= warned[s] \/ IsExcused(s, i)
        /\ \A r \in R!Reports : status'[r] \notin {"fetching", "fetched", "decrypting"}
<1>1. ASSUME RunInv, ConnectorNext, exit = NoCode, exit' = 0
      PROVE  Zero
  <2>1. Finish
    BY <1>1
    DEF ConnectorNext, GoOn, Environment, Begin, CollectStep, SiteFails, BeginReports,
        ProcessStep, ReportFails, ReportWaitsForKey, Die, End, outcome, NoCode
  <2>2. /\ step \in {"retain", "expire"} /\ status' = status
        /\ ~failed /\ ~keyUnavailable
    BY <1>1, <2>1 DEF Finish, End, ExitCode, R!EndRun, R!Crash, R!store
  <2>3. /\ pc = "idle" /\ queue = {}
        /\ \A s \in enabled : Told(s)
    BY <1>1, <2>2 DEF RunInv, RunInOrder, SitesAreTold
  <2>4. \A r \in R!Reports : status[r] \notin Halfway
    BY <1>1, <2>2 DEF RunInv, HalfwayIsPending, R!Working
  <2> QED
    BY <2>2, <2>3, <2>4 DEF Told, IsTold, Halfway
<1>2. RunInv /\ [ConnectorNext]_connector => [Zero]_connector
  BY <1>1
<1>3. ConnectorSpec => [][Zero]_connector
  BY <1>2, RunInvariance, PTL DEF ConnectorSpec
<1> QED
  BY <1>3 DEF ZeroTells

----------------------------------------------------------------------------
\* Processing within a run is processing as it is proved of.

LEMMA SameReports ==
    /\ R!Reports = P!Reports /\ R!Statuses = P!Statuses /\ R!Steps = P!Steps
    /\ R!Working = P!Working /\ R!Pending = P!Pending
  BY DEF R!Reports, P!Reports, R!Statuses, P!Statuses, R!Steps, P!Steps, R!Working,
         P!Working, R!Pending, P!Pending

LEMMA SameSettings == P!ReportsAssumption /\ P!AgesAssumption /\ P!LimitsAssumption
<1>1. NumReports \in Nat
  BY SitesAssumption, BoundsAssumption DEF NumReports
<1> QED
  BY <1>1, SettingsAssumption, InterruptsAssumption
  DEF P!ReportsAssumption, P!AgesAssumption, P!LimitsAssumption, P!Reports, NumReports

LEMMA SameSteps ==
    /\ R!Process => P!Process
    /\ R!Retention => P!Retention
    /\ R!Failure => P!Failure
    /\ \A config \in Configs : R!StartRun(config, {}) => P!Run
<1> USE DEF R!row, P!row, R!store, P!store, R!disk, P!disk, R!process, P!process,
            R!Settle, P!Settle, R!Over, P!Over, R!Fault, P!Fault,
            R!RemoveDecrypted, P!RemoveDecrypted, R!IsChosen, P!IsChosen
<1>1. R!Process => P!Process
  BY DEF R!Process, P!Process, R!Pick, P!Pick, R!Download, P!Download,
         R!RecordArchive, P!RecordArchive, R!MarkFetched, P!MarkFetched,
         R!Choose, P!Choose, R!LoadKey, P!LoadKey, R!Stage, P!Stage,
         R!DecryptMembers, P!DecryptMembers, R!ClearOutput, P!ClearOutput,
         R!RenameStaging, P!RenameStaging, R!WriteManifest, P!WriteManifest,
         R!RecordArtifacts, P!RecordArtifacts, R!MarkProcessed, P!MarkProcessed,
         R!IsForUs, P!IsForUs
<1>2. R!Retention => P!Retention
  BY SameReports
  DEF R!Retention, P!Retention, R!BeginRetention, P!BeginRetention, R!NextRow, P!NextRow,
      R!ExpireDecrypted, P!ExpireDecrypted, R!ForgetDecrypted, P!ForgetDecrypted,
      R!ExpireArchive, P!ExpireArchive, R!ForgetArchive, P!ForgetArchive,
      R!RemoveDirectory, P!RemoveDirectory, R!ForgetDirectory, P!ForgetDirectory,
      R!RowDone, P!RowDone, R!EndRun, P!EndRun, R!DecryptedDue, P!DecryptedDue,
      R!ArchiveDue, P!ArchiveDue, R!DirectoryDue, P!DirectoryDue, R!OlderThan,
      P!OlderThan, R!HasFiles, P!HasFiles
<1>3. R!Failure => P!Failure
  BY SameReports
  DEF R!Failure, P!Failure, R!DownloadFails, P!DownloadFails, R!ArchiveUnreadable,
      P!ArchiveUnreadable, R!KeyUnavailable, P!KeyUnavailable, R!Unexpected, P!Unexpected,
      R!Crash, P!Crash
<1>4. ASSUME NEW config \in Configs, R!StartRun(config, {}) PROVE P!Run
  <2>1. P!StartRun(config, {})
    BY <1>4, SameReports DEF R!StartRun, P!StartRun
  <2> QED
    BY <2>1 DEF P!Run
<1> QED
  BY <1>1, <1>2, <1>3, <1>4

LEMMA SameInit == R!Init => P!Init
  BY DEF R!Init, P!Init, R!Reports, P!Reports

LEMMA SameTypes == P!TypeOK => R!TypeOK
  BY SameReports DEF R!TypeOK, P!TypeOK

LEMMA SamePromise ==
    /\ P!Promise!Init => R!Promise!Init
    /\ [P!Promise!Next]_<<P!Phase, P!Kept, P!Since, 1>>
         => [R!Promise!Next]_<<R!Phase, R!Kept, R!Since, 1>>
<1>1. R!Reports = P!Reports /\ R!Phase = P!Phase /\ R!Kept = P!Kept /\ R!Since = P!Since
  BY DEF R!Reports, P!Reports, R!Phase, P!Phase, R!Kept, P!Kept, R!Since, P!Since
<1> QED
  BY <1>1
  DEF R!Phase, P!Phase, R!Kept, P!Kept, R!Since, P!Since, R!Reports, P!Reports,
      R!Promise!Init, P!Promise!Init, R!Promise!Next, P!Promise!Next,
      R!Promise!NextDay, P!Promise!NextDay, R!Promise!Deliver, P!Promise!Deliver,
      R!Promise!Reject, P!Promise!Reject, R!Promise!Lapse, P!Promise!Lapse,
      R!Promise!Age, P!Promise!Age

\* Reports are told apart by their site and position.
LEMMA ReportNumbers ==
    ASSUME NEW s \in Senders, NEW i \in 1 .. MaxRecords,
           NEW t \in Senders, NEW j \in 1 .. MaxRecords
    PROVE  Report(s, i) \in R!Reports /\ (Report(s, i) = Report(t, j) => s = t /\ i = j)
<1> DEFINE M == MaxRecords
<1>1. M \in Nat /\ NumSites \in Nat /\ s \in 1 .. NumSites /\ t \in 1 .. NumSites
  BY BoundsAssumption, SitesAssumption
<1>2. ASSUME NEW a \in Nat, NEW b \in Nat, a < b
      PROVE  a * M + M <= b * M /\ a * M \in Nat /\ b * M \in Nat
  <2>1. PICK c \in Nat : b = a + 1 + c
    <3>1. b - a - 1 \in Nat /\ b = a + 1 + (b - a - 1)
      BY <1>2
    <3> QED
      BY <3>1
  <2>2. c * M \in Nat /\ a * M \in Nat /\ b * M \in Nat
    BY <1>1
  <2>3. b * M = a * M + M + c * M
    BY <1>1, <2>1
  <2> QED
    BY <1>1, <2>2, <2>3
<1>3. Report(s, i) = (s - 1) * M + i /\ Report(t, j) = (t - 1) * M + j
  BY DEF Report
<1>4. s - 1 \in Nat /\ t - 1 \in Nat /\ s - 1 < NumSites /\ i \in 1 .. M /\ j \in 1 .. M
  BY <1>1
<1>5. Report(s, i) \in R!Reports
  <2>1. (s - 1) * M + M <= NumSites * M /\ (s - 1) * M \in Nat /\ NumSites * M \in Nat
    BY <1>1, <1>2, <1>4
  <2>2. (s - 1) * M + i \in 1 .. NumSites * M
    BY <1>1, <1>4, <2>1
  <2> QED
    BY <1>3, <2>2 DEF R!Reports, NumReports
<1>6. CASE s < t
  <2>1. s - 1 < t - 1
    BY <1>1, <1>6
  <2>2. (s - 1) * M + M <= (t - 1) * M /\ (s - 1) * M \in Nat /\ (t - 1) * M \in Nat
    BY <1>2, <1>4, <2>1
  <2> QED
    BY <1>1, <1>3, <1>4, <1>5, <2>2
<1>7. CASE t < s
  <2>1. t - 1 < s - 1
    BY <1>1, <1>7
  <2>2. (t - 1) * M + M <= (s - 1) * M /\ (s - 1) * M \in Nat /\ (t - 1) * M \in Nat
    BY <1>2, <1>4, <2>1
  <2> QED
    BY <1>1, <1>3, <1>4, <1>5, <2>2
<1>8. CASE s = t
  <2>1. (s - 1) * M \in Nat
    BY <1>1, <1>4
  <2> QED
    BY <1>1, <1>3, <1>4, <1>5, <1>8, <2>1
<1> QED
  BY <1>1, <1>6, <1>7, <1>8

\* What a step that is none of the processing may do to it: new events.
Arrive ==
    /\ UNCHANGED <<row, disk, processing>>
    /\ interrupts' \in 0 .. MaxInterrupts
    /\ \A r \in R!Reports :
         status'[r] = status[r] \/ (status[r] = "absent" /\ status'[r] = "new")

LEMMA ArriveKeeps ==
    ASSUME P!DeliveryInv, Arrive, status' \in [R!Reports -> R!Statuses]
    PROVE  P!DeliveryInv' /\ UNCHANGED <<P!Phase, P!Kept, P!Since>>
<1>1. /\ P!TypeOK /\ P!WorkIsPending /\ P!FilesByStep /\ P!FetchedHasRow
      /\ P!KeptUntilExpiry /\ P!MissingIsExpired /\ P!Dated /\ P!FilesAreNamed
  BY DEF P!DeliveryInv, P!IInv
<1>2. /\ UNCHANGED <<archivePath, decryptedDir, metaPath, processedAt, archive, staging,
                     decrypted, manifest, step, cur, pending, addresses, loaded, stamp>>
      /\ \A r \in P!Reports :
           status'[r] = status[r] \/ (status[r] = "absent" /\ status'[r] = "new")
  BY SameReports DEF Arrive, row, disk, processing
<1>3. P!TypeOK'
  BY <1>1, <1>2, SameReports DEF P!TypeOK, Arrive
<1>4. P!WorkIsPending'
  BY <1>1, <1>2 DEF P!WorkIsPending, P!Working, P!Pending, P!TypeOK
<1>5. P!FilesByStep'
  BY <1>1, <1>2 DEF P!FilesByStep, P!Working, P!TypeOK
<1>6. P!FetchedHasRow'
  BY <1>1, <1>2 DEF P!FetchedHasRow
<1>7. P!KeptUntilExpiry'
  BY <1>1, <1>2 DEF P!KeptUntilExpiry, P!Expired
<1>8. P!MissingIsExpired'
  BY <1>1, <1>2 DEF P!MissingIsExpired, P!Expired
<1>9. P!Dated' /\ P!FilesAreNamed'
  BY <1>1, <1>2 DEF P!Dated, P!FilesAreNamed
<1>10. UNCHANGED <<P!Phase, P!Kept, P!Since>>
  BY <1>2 DEF P!Phase, P!Kept, P!Since
<1> QED
  BY <1>3, <1>4, <1>5, <1>6, <1>7, <1>8, <1>9, <1>10 DEF P!DeliveryInv, P!IInv

\* A step of the processing makes no event and removes none.
LEMMA EventsStay ==
    ASSUME P!DeliveryInv,
           \/ R!Process \/ R!Retention \/ R!Failure
           \/ \E config \in Configs : R!StartRun(config, {})
    PROVE  \A r \in R!Reports : status'[r] = "absent" <=> status[r] = "absent"
<1> DEFINE InHand == /\ step \in R!Working
                     /\ \E result \in {"failed", "new", "processed", "fetched", "decrypting"} :
                          status' = [status EXCEPT ![cur] = result]
<1>1. /\ status \in [R!Reports -> R!Statuses]
      /\ step \in R!Working => status[cur] \in R!Pending
      /\ step = "next" => \A r \in pending : status[r] \in R!Pending
  BY SameReports DEF P!DeliveryInv, P!IInv, P!TypeOK, P!WorkIsPending
<1>2. CASE \E config \in Configs : R!StartRun(config, {})
  BY <1>2 DEF R!StartRun
<1>3. CASE status' = status
  BY <1>3
<1>4. CASE R!Pick
  <2>1. PICK r \in pending :
          step = "next" /\ (status' = [status EXCEPT ![r] = "fetching"] \/ status' = status)
    BY <1>4 DEF R!Pick
  <2> QED
    BY <1>1, <2>1 DEF R!Pending
<1>5. CASE InHand
  BY <1>1, <1>5 DEF R!Pending
<1>6. CASE R!Process
  <2>1. CASE \/ R!RecordArchive \/ R!Stage \/ R!ClearOutput \/ R!RenameStaging
             \/ R!WriteManifest \/ R!RecordArtifacts
    BY <1>3, <2>1
    DEF R!RecordArchive, R!Stage, R!ClearOutput, R!RenameStaging, R!WriteManifest,
        R!RecordArtifacts, R!store
  <2>2. CASE R!MarkFetched \/ R!LoadKey \/ R!MarkProcessed
    <3>1. InHand
      BY <2>2 DEF R!MarkFetched, R!LoadKey, R!MarkProcessed, R!Settle, R!Working
    <3> QED
      BY <1>5, <3>1
  <2>3. CASE R!Download \/ R!Choose \/ R!DecryptMembers
    <3>1. InHand \/ status' = status
      BY <2>3 DEF R!Download, R!Choose, R!DecryptMembers, R!Settle, R!Working
    <3> QED
      BY <1>3, <1>5, <3>1
  <2> QED
    BY <1>4, <1>6, <2>1, <2>2, <2>3 DEF R!Process
<1>7. CASE R!Retention
  <2>1. status' = status
    BY <1>7
    DEF R!Retention, R!BeginRetention, R!NextRow, R!ExpireDecrypted, R!ForgetDecrypted,
        R!ExpireArchive, R!ForgetArchive, R!RemoveDirectory, R!ForgetDirectory,
        R!RowDone, R!EndRun, R!store
  <2> QED
    BY <1>3, <2>1
<1>8. CASE R!Failure
  <2>1. InHand \/ status' = status
    BY <1>8
    DEF R!Failure, R!DownloadFails, R!ArchiveUnreadable, R!KeyUnavailable, R!Unexpected,
        R!Crash, R!Settle, R!Working, R!store
  <2> QED
    BY <1>3, <1>5, <2>1
<1> QED
  BY <1>2, <1>6, <1>7, <1>8

\* What the steps of a site make of its events: a record that gets its row gets
\* its event, and no row and no event goes.
LEMMA RowsBringEvents ==
    ASSUME IInv, ChainsAreBounded, EventsHaveRows, status \in [R!Reports -> R!Statuses],
           [Next]_vars,
           \/ status' = Events /\ chain' = chain
           \/ status' = status /\ entries' = entries
    PROVE  /\ EventsHaveRows'
           /\ \A r \in R!Reports :
                status'[r] = status[r] \/ (status[r] = "absent" /\ status'[r] = "new")
<1> DEFINE HasRow(s, i) == i \in Positions(s) /\ IsEvent(s, i)
<1>1. ASSUME NEW s \in Senders
      PROVE  /\ Len(chain[s]) \in Nat /\ Len(chain'[s]) \in Nat
             /\ Len(chain[s]) <= Len(chain'[s])
             /\ \A i \in Positions(s) : chain'[s][i] = chain[s][i]
             /\ Stored(s) \subseteq Stored(s)' /\ Stored(s) \subseteq Positions(s)
             /\ Positions(s) \subseteq Positions(s)'
             /\ Positions(s) \subseteq 1 .. MaxRecords
  <2>1. /\ Len(chain[s]) \in Nat /\ Len(chain'[s]) \in Nat
        /\ Len(chain[s]) <= Len(chain'[s])
        /\ \A i \in Positions(s) : chain'[s][i] = chain[s][i]
        /\ Stored(s) \subseteq Stored(s)'
    BY NothingIsTakenBack
  <2>2. Stored(s) \subseteq Positions(s)
    BY DEF IInv, TypeOK, RowsInChain
  <2>3. Len(chain[s]) <= MaxRecords /\ MaxRecords \in Nat
    BY BoundsAssumption DEF ChainsAreBounded
  <2> QED
    BY <2>1, <2>2, <2>3 DEF Positions
<1>2. ASSUME NEW s \in Senders, NEW i \in 1 .. MaxRecords, HasRow(s, i)
      PROVE  HasRow(s, i)'
  BY <1>1, <1>2 DEF IsEvent
<1>3. CASE status' = Events /\ chain' = chain
  <2>1. status' = Events /\ chain' = chain
    BY <1>3
  <2>2. ASSUME NEW s \in Senders, NEW i \in 1 .. MaxRecords
        PROVE  status'[Report(s, i)] # "absent" <=> HasRow(s, i)'
    <3>1. Report(s, i) \in R!Reports
      BY ReportNumbers
    <3>2. CASE status'[Report(s, i)] = status[Report(s, i)] /\ ~HasRow(s, i)'
      BY <1>2, <3>2 DEF EventsHaveRows
    <3>3. CASE HasRow(s, i)'
      <4>1. i \in Positions(s)
        BY <2>1, <3>3 DEF Positions
      <4>2. CASE IsEvent(s, i)
        <5>1. status[Report(s, i)] # "absent"
          BY <4>1, <4>2 DEF EventsHaveRows
        <5> QED
          BY <2>1, <3>1, <3>3, <5>1 DEF Events
      <4>3. CASE ~IsEvent(s, i)
        BY <2>1, <3>1, <3>3, <4>1, <4>3 DEF Events
      <4> QED
        BY <4>2, <4>3
    <3>4. CASE ~HasRow(s, i)' /\ status'[Report(s, i)] # status[Report(s, i)]
      <4> PICK t \in Senders : \E j \in Positions(t) :
              Report(s, i) = Report(t, j) /\ ~IsEvent(t, j) /\ IsEvent(t, j)'
        BY <2>1, <3>1, <3>4 DEF Events
      <4>1. PICK j \in Positions(t) :
              Report(s, i) = Report(t, j) /\ ~IsEvent(t, j) /\ IsEvent(t, j)'
        OBVIOUS
      <4>2. j \in 1 .. MaxRecords /\ j \in Positions(t)'
        BY <1>1, <4>1
      <4>3. s = t /\ i = j
        BY <4>1, <4>2, ReportNumbers
      <4> QED
        BY <3>4, <4>1, <4>2, <4>3
    <3> QED
      BY <3>2, <3>3, <3>4
  <2>3. ASSUME NEW r \in R!Reports, status'[r] # status[r]
        PROVE  status[r] = "absent" /\ status'[r] = "new"
    <3> PICK t \in Senders : \E j \in Positions(t) :
            r = Report(t, j) /\ ~IsEvent(t, j) /\ IsEvent(t, j)'
      BY <2>1, <2>3 DEF Events
    <3>1. PICK j \in Positions(t) :
            r = Report(t, j) /\ ~IsEvent(t, j) /\ IsEvent(t, j)'
      OBVIOUS
    <3>2. j \in 1 .. MaxRecords
      BY <1>1, <3>1
    <3> QED
      BY <2>1, <2>3, <3>1, <3>2 DEF EventsHaveRows, Events
  <2> QED
    BY <2>2, <2>3 DEF EventsHaveRows
<1>4. CASE status' = status /\ entries' = entries
  <2>1. status' = status /\ entries' = entries
    BY <1>4
  <2>2. ASSUME NEW s \in Senders, NEW i \in 1 .. MaxRecords
        PROVE  HasRow(s, i)' <=> HasRow(s, i)
    <3>1. Stored(s)' = Stored(s)
      BY <2>1 DEF Stored
    <3> QED
      BY <1>1, <3>1 DEF IsEvent
  <2> QED
    BY <2>1, <2>2 DEF EventsHaveRows
<1> QED
  BY <1>3, <1>4

\* A step of the connector is one of the processing, or it only brings events.
LEMMA WholeStep ==
    ASSUME WholeInv, [ConnectorNext]_connector
    PROVE  /\ WholeInv'
           /\ [P!Promise!Next]_<<P!Phase, P!Kept, P!Since, 1>>
<1> DEFINE Brings == /\ [Next]_vars /\ UNCHANGED <<row, disk, processing>>
                     /\ \/ status' = Events /\ chain' = chain
                        \/ status' = status /\ entries' = entries
           Works == /\ UNCHANGED collection
                    /\ \/ R!Process \/ R!Retention \/ R!Failure
                       \/ \E config \in Configs : R!StartRun(config, {})
<1>1. RunInv'
  BY RunInvStep DEF WholeInv
<1>2. /\ IInv /\ IInv' /\ ChainsAreBounded /\ EventsHaveRows /\ P!DeliveryInv
      /\ status \in [R!Reports -> R!Statuses] /\ status' \in [R!Reports -> R!Statuses]
      /\ interrupts' \in 0 .. MaxInterrupts
  BY <1>1 DEF WholeInv, RunInv, IInv, TypeOK
<1>3. exit' \in {NoCode, 0, 1, 3}
  <2>1. exit' \in {exit, NoCode, ExitCode, 1}
    BY DEF ConnectorNext, GoOn, Environment, Begin, CollectStep, SiteFails, BeginReports,
           ProcessStep, ReportFails, ReportWaitsForKey, Finish, Die, End, outcome, connector
  <2> QED
    BY <2>1 DEF WholeInv, ExitCode
<1>4. ChainsAreBounded'
  <2>1. ASSUME NEW s \in Senders, PublishStep(s) PROVE ChainsAreBounded'
    <3>1. Len(chain[s]) < MaxRecords
      BY <2>1 DEF PublishStep, Publish
    <3>2. /\ MaxRecords \in Nat
          /\ \A t \in Senders : /\ Len(chain[t]) \in Nat /\ Len(chain[t]) <= MaxRecords
                                /\ Len(chain'[t]) = Len(chain[t]) + (IF t = s THEN 1 ELSE 0)
      BY <1>2, <2>1, PublishKeeps, BoundsAssumption DEF IInv, ChainsAreBounded
    <3>3. ASSUME NEW t \in Senders PROVE Len(chain'[t]) <= MaxRecords
      <4> DEFINE before == Len(chain[t])
                 after == Len(chain'[t])
      <4>1. /\ before \in Nat /\ before <= MaxRecords /\ MaxRecords \in Nat
            /\ t = s => after = before + 1 /\ before < MaxRecords
            /\ t # s => after = before + 0
        BY <3>1, <3>2
      <4> HIDE DEF before, after
      <4>2. after <= MaxRecords
        BY <4>1
      <4> QED
        BY <4>2 DEF after
    <3> QED
      BY <3>3 DEF ChainsAreBounded
  <2>2. chain' = chain \/ \E s \in Senders : PublishStep(s)
    <3>1. \/ UNCHANGED collection
          \/ [Next]_vars
      BY <1>2, CollectionGoesOn
    <3> QED
      BY <3>1
      DEF Next, Collect, TickStep, Tick, StartRun, Visit, Backfill, Read, Store, Signal,
          Mark, NothingNew, Leave, Fail, Crash, Interrupt, vars, collection
  <2> QED
    BY <1>2, <2>1, <2>2 DEF ChainsAreBounded
<1>5. CASE Brings
  <2>1. /\ EventsHaveRows'
        /\ \A r \in R!Reports :
             status'[r] = status[r] \/ (status[r] = "absent" /\ status'[r] = "new")
    BY <1>2, <1>5, RowsBringEvents
  <2>2. Arrive
    BY <1>2, <1>5, <2>1 DEF Arrive
  <2> QED
    BY <1>1, <1>2, <1>3, <1>4, <2>1, <2>2, ArriveKeeps DEF WholeInv
<1>6. CASE Works
  <2>1. \A r \in R!Reports : status'[r] = "absent" <=> status[r] = "absent"
    BY <1>2, <1>6, EventsStay
  <2>2. EventsHaveRows'
    <3>1. UNCHANGED <<chain, entries>>
      BY <1>6 DEF collection, store
    <3>2. ASSUME NEW s \in Senders, NEW i \in 1 .. MaxRecords
          PROVE  status'[Report(s, i)] = "absent" <=> status[Report(s, i)] = "absent"
      BY <2>1, ReportNumbers
    <3> QED
      BY <1>2, <3>1, <3>2 DEF EventsHaveRows, IsEvent, Positions, Stored, Report
  <2>3. P!Next
    BY <1>6, SameSteps DEF P!Next
  <2>4. P!DeliveryInv'
    BY <1>2, <2>3, SameSettings, P!DeliveryStep
  <2>5. [P!Promise!Next]_<<P!Phase, P!Kept, P!Since, 1>>
    BY <1>2, <2>3, SameSettings, P!StepImplements
  <2> QED
    BY <1>1, <1>3, <1>4, <2>2, <2>4, <2>5 DEF WholeInv
<1>7. Brings \/ Works
  <2>1. CASE Environment
    <3>1. [Next]_vars /\ UNCHANGED <<entries, status, row, disk, processing>>
      BY <2>1 DEF Environment, Next, TickStep, PublishStep, store, reports
    <3> QED
      BY <3>1
  <2>2. CASE \E registry \in Registries : Begin(registry)
    <3>1. PICK registry \in Registries : Begin(registry)
      BY <2>2
    <3>2. registry \in SUBSET Senders
      BY SitesAssumption
    <3>3. [Next]_vars /\ UNCHANGED <<entries, status, row, disk, processing>>
      BY <3>1, <3>2 DEF Begin, Next, StartRun, store, reports
    <3> QED
      BY <3>3
  <2>3. CASE CollectStep
    <3>1. [Next]_vars /\ UNCHANGED <<row, disk, processing>> /\ chain' = chain
      BY <2>3
      DEF CollectStep, Next, Collect, Visit, Backfill, Read, Store, Signal, Mark,
          NothingNew, Leave
    <3>2. pc # "store" => entries' = entries
      BY <2>3
      DEF CollectStep, Next, Collect, Visit, Backfill, Read, Store, Signal, Mark,
          NothingNew, Leave, store
    <3> QED
      BY <2>3, <3>1, <3>2 DEF CollectStep
  <2>4. CASE SiteFails \/ (Crash /\ UNCHANGED reports)
    <3>1. [Next]_vars /\ UNCHANGED <<entries, status, row, disk, processing>>
      BY <2>4 DEF SiteFails, Next, Fail, Crash, Interrupt, store, reports
    <3> QED
      BY <3>1
  <2>5. CASE \E config \in Configs : BeginReports(config)
    BY <2>5 DEF BeginReports
  <2>6. CASE ProcessStep \/ ReportFails \/ ReportWaitsForKey \/ Finish
    BY <2>6
    DEF ProcessStep, ReportFails, ReportWaitsForKey, Finish, R!Retention, R!Failure
  <2>7. CASE Die
    BY <2>4, <2>7 DEF Die, R!Failure
  <2>8. CASE UNCHANGED connector
    <3>1. [Next]_vars /\ UNCHANGED <<entries, status, row, disk, processing>>
      BY <2>8 DEF connector, collection, vars, store, reports
    <3> QED
      BY <3>1
  <2> QED
    BY <2>1, <2>2, <2>3, <2>4, <2>5, <2>6, <2>7, <2>8 DEF ConnectorNext, GoOn
<1> QED
  BY <1>5, <1>6, <1>7

LEMMA WholeInit == ConnectorInit => WholeInv /\ P!Promise!Init
<1> SUFFICES ASSUME ConnectorInit PROVE WholeInv /\ P!Promise!Init
  OBVIOUS
<1>1. RunInv /\ IInv
  BY RunInvInit DEF RunInv
<1>2. exit = 0 /\ chain = [s \in Senders |-> <<>>] /\ entries = [s \in Senders |-> <<>>]
  BY DEF ConnectorInit, Init, DatalogInit
<1>3. P!Init
  BY SameInit DEF ConnectorInit
<1>4. ChainsAreBounded
  <2>1. \A s \in Senders : chain[s] = <<>>
    BY <1>2
  <2>2. Len(<<>>) <= MaxRecords
    BY BoundsAssumption
  <2> QED
    BY <2>1, <2>2 DEF ChainsAreBounded
<1>5. EventsHaveRows
  <2>1. ASSUME NEW s \in Senders, NEW i \in 1 .. MaxRecords
        PROVE  status[Report(s, i)] = "absent" /\ i \notin Positions(s)
    <3>1. status[Report(s, i)] = "absent"
      BY ReportNumbers DEF ConnectorInit, R!Init
    <3>2. i \notin Positions(s)
      BY <1>2 DEF Positions
    <3> QED
      BY <3>1, <3>2
  <2> QED
    BY <2>1 DEF EventsHaveRows
<1>6. P!DeliveryInv /\ P!Promise!Init
  BY <1>3, SameSettings, P!DeliveryInit, P!InitImplements
<1> QED
  BY <1>1, <1>2, <1>4, <1>5, <1>6 DEF WholeInv

LEMMA WholeInvariance == ConnectorSpec => []WholeInv
<1>1. ConnectorInit => WholeInv
  BY WholeInit
<1>2. WholeInv /\ [ConnectorNext]_connector => WholeInv'
  BY WholeStep
<1> QED
  BY <1>1, <1>2, PTL DEF ConnectorSpec

\* A row that announces a report has its event, and only it has, through all the
\* runs; and the process is in one phase of its run at a time.
THEOREM ConnectorTypeCorrect == ConnectorSpec => []ConnectorTypeOK
<1>1. WholeInv => ConnectorTypeOK
  BY SameTypes
  DEF WholeInv, RunInv, RunInOrder, IInv, EventsHaveRows, P!DeliveryInv, P!IInv,
      ConnectorTypeOK
<1> QED
  BY <1>1, WholeInvariance, PTL

\* A report is delivered whole and once, or rejected for good, and what was
\* delivered goes only when its age has come, though its record may be read again
\* and its site enabled and disabled many times (add_datalog_entry, sync_senders,
\* process_reports, apply_retention).
THEOREM RunsHandOver == ConnectorSpec => HandsOver
<1>1. ConnectorInit => WholeInv /\ R!Promise!Init
  BY WholeInit, SamePromise
<1>2. WholeInv /\ [ConnectorNext]_connector => WholeInv'
  BY WholeStep
<1>3. WholeInv /\ [ConnectorNext]_connector
        => [R!Promise!Next]_<<R!Phase, R!Kept, R!Since, 1>>
  BY WholeStep, SamePromise
<1> QED
  BY <1>1, <1>2, <1>3, PTL DEF ConnectorSpec, HandsOver, R!HandsOver, R!Promise!Spec

\* One run without a failure is enough: it exits with 0, leaves no report pending
\* but torn ones, whatever runs before it have left, and what an enabled site had
\* announced when it began is processed or rejected, warned about or excused
\* (run_once, process_reports).
THEOREM CleanRunsDeliver == ConnectorSpec => CleanRunDelivers
<1> DEFINE Delivers ==
      exit = NoCode /\ clean /\ exit' \notin {NoCode, 1} =>
        /\ exit' = 0
        /\ \A r \in R!Reports \ Torn : status'[r] \in {"absent", "processed", "failed"}
        /\ \A s \in enabled : \A i \in 1 .. upTo[s] : chain[s][i].kind = "report" =>
             \/ status'[Report(s, i)] \in {"processed", "failed"}
             \/ Report(s, i) \in Torn
             \/ i <= warned[s] \/ IsExcused(s, i)
<1>1. ASSUME WholeInv, ConnectorNext, exit = NoCode, clean, exit' \notin {NoCode, 1}
      PROVE  Delivers
  <2>1. Finish
    BY <1>1
    DEF ConnectorNext, GoOn, Environment, Begin, CollectStep, SiteFails, BeginReports,
        ProcessStep, ReportFails, ReportWaitsForKey, Die, End, outcome, NoCode
  <2>2. ~failed /\ ~keyUnavailable /\ CleanIsLeft
    BY <1>1 DEF WholeInv, RunInv, CleanIsLeft
  <2>3. /\ step \in {"retain", "expire"} /\ status' = status
        /\ exit' = 0
    BY <2>1, <2>2 DEF Finish, End, ExitCode, R!EndRun, R!Crash, R!store
  <2>4. /\ status \in [R!Reports -> R!Statuses]
        /\ \A s \in enabled : s \in Senders /\ Told(s)
    BY <1>1, <2>2, <2>3 DEF WholeInv, RunInv, RunInOrder, SitesAreTold
  <2>5. ASSUME NEW r \in R!Reports \ Torn
        PROVE  status'[r] \in {"absent", "processed", "failed"}
    <3>1. status[r] \notin R!Pending
      BY <1>1, <2>2, <2>3 DEF CleanIsLeft, R!Working
    <3>2. status[r] \in R!Statuses
      BY <2>4
    <3> QED
      BY <2>3, <3>1, <3>2 DEF R!Statuses
  <2>6. ASSUME NEW s \in enabled, NEW i \in 1 .. upTo[s], chain[s][i].kind = "report",
               Report(s, i) \notin Torn, ~(i <= warned[s]), ~IsExcused(s, i)
        PROVE  status'[Report(s, i)] \in {"processed", "failed"}
    <3>1. s \in Senders /\ i \in Stored(s)
      BY <2>4, <2>6 DEF Told, IsTold, IsText
    <3>2. i \in Positions(s) /\ i \in 1 .. MaxRecords
      <4>1. upTo[s] \in Nat /\ upTo[s] <= Len(chain[s])
        BY <1>1, <3>1 DEF WholeInv, RunInv, RunInOrder
      <4>2. Len(chain[s]) \in Nat /\ Len(chain[s]) <= MaxRecords /\ MaxRecords \in Nat
        BY <1>1, <3>1, BoundsAssumption
        DEF WholeInv, RunInv, IInv, TypeOK, ChainsAreBounded
      <4> QED
        BY <4>1, <4>2 DEF Positions
    <3>3. status[Report(s, i)] # "absent"
      BY <1>1, <2>6, <3>1, <3>2 DEF WholeInv, EventsHaveRows, IsEvent
    <3>4. Report(s, i) \in R!Reports
      BY <3>1, <3>2, ReportNumbers
    <3> QED
      BY <2>3, <2>5, <2>6, <3>3, <3>4
  <2> QED
    BY <2>3, <2>5, <2>6
<1>2. WholeInv /\ [ConnectorNext]_connector => [Delivers]_connector
  BY <1>1
<1>3. ConnectorSpec => [][Delivers]_connector
  BY <1>2, WholeInvariance, PTL DEF ConnectorSpec
<1> QED
  BY <1>3 DEF CleanRunDelivers

----------------------------------------------------------------------------
\* Every step of a run is one towards its end.

\* The order in which RunAdvances weighs what is left.
IsLess ==
    \/ PhasesLeft' < PhasesLeft
    \/ /\ PhasesLeft' = PhasesLeft
       /\ \/ Shrinks(TurnsLeft, TurnsLeft')
          \/ /\ TurnsLeft' = TurnsLeft
             /\ \/ StepsLeft' < StepsLeft
                \/ StepsLeft' = StepsLeft /\ Shrinks(PartsLeft, PartsLeft')

\* A step of the collection of sites.
LEMMA CollectAdvances ==
    ASSUME IInv, CollectStep \/ SiteFails
    PROVE  IsLess
<1>1. /\ step = "idle" /\ step' = "idle" /\ pc \in Steps
      /\ todo \subseteq Positions(current)
  BY DEF CollectStep, SiteFails, reports, processing, IInv, TypeOK, ScanInChain
<1>2. /\ PhasesLeft = 2 /\ PhasesLeft' = 2
      /\ TurnsLeft = queue /\ TurnsLeft' = queue'
      /\ PartsLeft = todo /\ PartsLeft' = todo'
  BY <1>1 DEF PhasesLeft, TurnsLeft, PartsLeft
<1>3. CASE \E s \in Senders : Visit(s)
  <2>1. Shrinks(queue, queue')
    BY <1>3 DEF Visit, Shrinks
  <2> QED
    BY <1>2, <2>1 DEF IsLess
<1>4. CASE Backfill \/ Store
  <2>1. UNCHANGED <<queue, pc>> /\ Shrinks(todo, todo')
    BY <1>4 DEF Backfill, Store, Shrinks
  <2>2. StepsLeft' = StepsLeft
    BY <1>1, <2>1 DEF StepsLeft
  <2> QED
    BY <1>2, <2>1, <2>2 DEF IsLess
<1>5. CASE Read \/ Signal \/ Mark \/ NothingNew \/ Leave
  <2>1. /\ UNCHANGED queue
        /\ <<pc, pc'>> \in {<<"backfill", "store">>, <<"store", "mark">>,
             <<"mark", "collected">>, <<"store", "collected">>, <<"collected", "idle">>}
    BY <1>5 DEF Read, Signal, Mark, NothingNew, Leave
  <2>2. StepsLeft' < StepsLeft
    BY <1>1, <2>1 DEF StepsLeft
  <2> QED
    BY <1>2, <2>1, <2>2 DEF IsLess
<1>6. CASE SiteFails
  <2>1. UNCHANGED queue /\ pc # "idle" /\ pc' = "idle"
    BY <1>6 DEF SiteFails, Fail, Interrupt
  <2>2. StepsLeft' < StepsLeft
    BY <1>1, <2>1 DEF StepsLeft, Steps
  <2> QED
    BY <1>2, <2>1, <2>2 DEF IsLess
<1> QED
  BY <1>3, <1>4, <1>5, <1>6 DEF CollectStep, Collect

\* What is removed of the report in hand, of its files or of its row.
LEMMA RemovalShrinks ==
    ASSUME UNCHANGED cur,
           archive'[cur] => archive[cur], staging'[cur] => staging[cur],
           decrypted'[cur] # "none" => decrypted[cur] # "none",
           decrypted'[cur] = "complete" => decrypted[cur] = "complete",
           manifest'[cur] => manifest[cur], archivePath'[cur] => archivePath[cur],
           decryptedDir'[cur] => decryptedDir[cur], metaPath'[cur] => metaPath[cur],
           \/ archive[cur] /\ ~archive'[cur]
           \/ staging[cur] /\ ~staging'[cur]
           \/ decrypted[cur] # "none" /\ decrypted'[cur] = "none"
           \/ decrypted[cur] = "complete" /\ decrypted'[cur] # "complete"
           \/ manifest[cur] /\ ~manifest'[cur]
           \/ archivePath[cur] /\ ~archivePath'[cur]
           \/ decryptedDir[cur] /\ ~decryptedDir'[cur]
           \/ metaPath[cur] /\ ~metaPath'[cur]
    PROVE  Shrinks(Remains(cur), Remains(cur)')
<1>1. Remains(cur)' \subseteq Remains(cur)
  BY DEF Remains
<1>2. \E part \in Remains(cur) : part \notin Remains(cur)'
  <2>1. ASSUME archive[cur] /\ ~archive'[cur]
        PROVE  "archive" \in Remains(cur) /\ "archive" \notin Remains(cur)'
    BY <2>1 DEF Remains
  <2>2. ASSUME staging[cur] /\ ~staging'[cur]
        PROVE  "staging" \in Remains(cur) /\ "staging" \notin Remains(cur)'
    BY <2>2 DEF Remains
  <2>3. ASSUME decrypted[cur] # "none" /\ decrypted'[cur] = "none"
        PROVE  "files" \in Remains(cur) /\ "files" \notin Remains(cur)'
    BY <2>3 DEF Remains
  <2>4. ASSUME decrypted[cur] = "complete" /\ decrypted'[cur] # "complete"
        PROVE  "all files" \in Remains(cur) /\ "all files" \notin Remains(cur)'
    BY <2>4 DEF Remains
  <2>5. ASSUME manifest[cur] /\ ~manifest'[cur]
        PROVE  "manifest" \in Remains(cur) /\ "manifest" \notin Remains(cur)'
    BY <2>5 DEF Remains
  <2>6. ASSUME archivePath[cur] /\ ~archivePath'[cur]
        PROVE  "archivePath" \in Remains(cur) /\ "archivePath" \notin Remains(cur)'
    BY <2>6 DEF Remains
  <2>7. ASSUME decryptedDir[cur] /\ ~decryptedDir'[cur]
        PROVE  "decryptedDir" \in Remains(cur) /\ "decryptedDir" \notin Remains(cur)'
    BY <2>7 DEF Remains
  <2>8. ASSUME metaPath[cur] /\ ~metaPath'[cur]
        PROVE  "metaPath" \in Remains(cur) /\ "metaPath" \notin Remains(cur)'
    BY <2>8 DEF Remains
  <2> QED
    BY <2>1, <2>2, <2>3, <2>4, <2>5, <2>6, <2>7, <2>8
<1> QED
  BY <1>1, <1>2 DEF Shrinks

\* A removal that is one step of several; rmtree may find nothing more to remove
\* of a directory and leave it for another try.
LEMMA RemovalAdvances ==
    ASSUME R!TypeOK,
           \/ R!ClearOutput \/ R!ExpireDecrypted \/ R!ForgetDecrypted \/ R!ExpireArchive
           \/ R!ForgetArchive \/ R!RemoveDirectory \/ R!ForgetDirectory
    PROVE  \/ UNCHANGED <<status, row, disk, processing, interrupts>>
           \/ UNCHANGED processing /\ Shrinks(Remains(cur), Remains(cur)')
<1> USE DEF R!store, R!row, R!disk, R!process, row, disk, processing
<1>1. /\ cur \in R!Reports
      /\ archive \in [R!Reports -> BOOLEAN] /\ staging \in [R!Reports -> BOOLEAN]
      /\ manifest \in [R!Reports -> BOOLEAN] /\ archivePath \in [R!Reports -> BOOLEAN]
      /\ decryptedDir \in [R!Reports -> BOOLEAN] /\ metaPath \in [R!Reports -> BOOLEAN]
      /\ decrypted \in [R!Reports -> {"none", "partial", "complete"}]
  BY DEF R!TypeOK, R!Working, R!ClearOutput, R!ExpireDecrypted, R!ForgetDecrypted,
         R!ExpireArchive, R!ForgetArchive, R!RemoveDirectory, R!ForgetDirectory
<1>2. CASE R!ClearOutput \/ R!ExpireDecrypted
  <2>1. /\ UNCHANGED <<status, row, processing, interrupts, archive, staging, manifest>>
        /\ decrypted[cur] # "none"
    BY <1>2 DEF R!ClearOutput, R!ExpireDecrypted, R!RemoveDecrypted
  <2>2. PICK left \in {"partial", "none"} : decrypted' = [decrypted EXCEPT ![cur] = left]
    BY <1>2 DEF R!ClearOutput, R!ExpireDecrypted, R!RemoveDecrypted
  <2>3. decrypted'[cur] = left
    BY <1>1, <2>2
  <2>4. CASE decrypted[cur] = left
    <3>1. decrypted' = decrypted
      BY <1>1, <2>2, <2>4
    <3> QED
      BY <2>1, <3>1
  <2>5. CASE decrypted[cur] # left
    <3>1. /\ decrypted[cur] \in {"partial", "complete"}
          /\ decrypted[cur] = "complete" \/ left = "none"
      BY <1>1, <2>1, <2>5
    <3> QED
      BY <2>1, <2>3, <3>1, RemovalShrinks
  <2> QED
    BY <2>4, <2>5
<1>3. CASE R!ForgetDecrypted
  <2>1. /\ UNCHANGED <<processing, disk, archivePath, metaPath>>
        /\ decryptedDir[cur] /\ ~decryptedDir'[cur]
    BY <1>1, <1>3 DEF R!ForgetDecrypted, R!DecryptedDue
  <2> QED
    BY <2>1, RemovalShrinks
<1>4. CASE R!ExpireArchive
  <2>1. /\ UNCHANGED <<processing, row, staging, decrypted, manifest>>
        /\ archive[cur] /\ ~archive'[cur]
    BY <1>1, <1>4 DEF R!ExpireArchive
  <2> QED
    BY <2>1, RemovalShrinks
<1>5. CASE R!ForgetArchive
  <2>1. /\ UNCHANGED <<processing, disk, decryptedDir, metaPath>>
        /\ archivePath[cur] /\ ~archivePath'[cur]
    BY <1>1, <1>5 DEF R!ForgetArchive, R!ArchiveDue
  <2> QED
    BY <2>1, RemovalShrinks
<1>6. CASE R!RemoveDirectory
  <2>1. /\ UNCHANGED <<processing, row>> /\ R!HasFiles(cur)
        /\ ~archive'[cur] /\ ~staging'[cur] /\ decrypted'[cur] = "none" /\ ~manifest'[cur]
    BY <1>1, <1>6 DEF R!RemoveDirectory
  <2> QED
    BY <2>1, RemovalShrinks DEF R!HasFiles
<1>7. CASE R!ForgetDirectory
  <2>1. /\ UNCHANGED <<processing, disk, archivePath, decryptedDir>>
        /\ metaPath[cur] /\ ~metaPath'[cur]
    BY <1>1, <1>7 DEF R!ForgetDirectory, R!DirectoryDue
  <2> QED
    BY <2>1, RemovalShrinks
<1> QED
  BY <1>2, <1>3, <1>4, <1>5, <1>6, <1>7

\* A step of the processing, be it one that fails.
LEMMA ReportAdvances ==
    ASSUME R!TypeOK, ProcessStep \/ ReportFails \/ ReportWaitsForKey
    PROVE  IsLess \/ UNCHANGED connector
<1>1. CASE R!Pick \/ R!NextRow
  <2>1. /\ step \in {"next", "retain"} /\ Shrinks(pending, pending')
        /\ step = "next" => step' \in {"fetch", "choose"}
        /\ step = "retain" => step' = "expire"
    BY <1>1 DEF R!Pick, R!NextRow, Shrinks
  <2> QED
    BY <2>1 DEF IsLess, PhasesLeft, TurnsLeft
<1>2. CASE \/ R!Download \/ R!RecordArchive \/ R!MarkFetched \/ R!Choose \/ R!LoadKey
           \/ R!Stage \/ R!DecryptMembers \/ R!RenameStaging \/ R!WriteManifest
           \/ R!RecordArtifacts \/ R!MarkProcessed
  <2>1. /\ UNCHANGED pending /\ step \in R!Working
        /\ \/ step' = "next"
           \/ <<step, step'>> \in {<<"fetch", "record">>, <<"record", "fetched">>,
                <<"fetched", "choose">>, <<"choose", "key">>, <<"key", "stage">>,
                <<"stage", "members">>, <<"members", "swap">>, <<"swap", "manifest">>,
                <<"manifest", "artifacts">>, <<"artifacts", "processed">>}
    BY <1>2
    DEF R!Download, R!RecordArchive, R!MarkFetched, R!Choose, R!LoadKey, R!Stage,
        R!DecryptMembers, R!RenameStaging, R!WriteManifest, R!RecordArtifacts,
        R!MarkProcessed, R!Settle, R!Working
  <2>2. StepsLeft' < StepsLeft
    BY <2>1 DEF StepsLeft, R!Working
  <2> QED
    BY <2>1, <2>2 DEF IsLess, PhasesLeft, TurnsLeft, R!Working
<1>3. CASE ReportFails \/ ReportWaitsForKey
  <2>1. UNCHANGED pending /\ step \in R!Working /\ step' = "next"
    BY <1>3
    DEF ReportFails, ReportWaitsForKey, R!DownloadFails, R!ArchiveUnreadable,
        R!KeyUnavailable, R!Unexpected, R!Settle, R!Working
  <2>2. StepsLeft' < StepsLeft
    BY <2>1 DEF StepsLeft, R!Working
  <2> QED
    BY <2>1, <2>2 DEF IsLess, PhasesLeft, TurnsLeft, R!Working
<1>4. CASE R!BeginRetention
  BY <1>4 DEF R!BeginRetention, IsLess, PhasesLeft
<1>5. CASE R!RowDone
  <2>1. UNCHANGED pending /\ step = "expire" /\ step' = "retain"
    BY <1>5 DEF R!RowDone
  <2>2. StepsLeft' < StepsLeft
    BY <2>1 DEF StepsLeft
  <2> QED
    BY <2>1, <2>2 DEF IsLess, PhasesLeft, TurnsLeft
<1>6. CASE /\ ProcessStep
           /\ \/ R!ClearOutput \/ R!ExpireDecrypted \/ R!ForgetDecrypted
              \/ R!ExpireArchive \/ R!ForgetArchive \/ R!RemoveDirectory
              \/ R!ForgetDirectory
  <2>1. step \in {"swap", "expire"}
    BY <1>6
    DEF R!ClearOutput, R!ExpireDecrypted, R!ForgetDecrypted, R!ExpireArchive,
        R!ForgetArchive, R!RemoveDirectory, R!ForgetDirectory
  <2>2. CASE UNCHANGED <<status, row, disk, processing, interrupts>>
    BY <1>6, <2>2 DEF ProcessStep, connector, reports
  <2>3. CASE UNCHANGED processing /\ Shrinks(Remains(cur), Remains(cur)')
    <3>1. UNCHANGED <<step, pending>> /\ Shrinks(PartsLeft, PartsLeft')
      BY <2>1, <2>3 DEF processing, PartsLeft
    <3>2. StepsLeft' = StepsLeft
      BY <2>1, <3>1 DEF StepsLeft
    <3> QED
      BY <2>1, <3>1, <3>2 DEF IsLess, PhasesLeft, TurnsLeft
  <2> QED
    BY <1>6, <2>2, <2>3, RemovalAdvances
<1>7. ~(R!EndRun /\ step' # "idle")
  BY DEF R!EndRun, R!Over
<1> QED
  BY <1>1, <1>2, <1>3, <1>4, <1>5, <1>6, <1>7 DEF ProcessStep, R!Process, R!Retention

\* Whatever fails on the way, each step of a run leaves less before it, in an order
\* that has no infinite descent: a run comes to its end, or is killed (run_once,
\* process_reports, decrypt_archive, apply_retention).
THEOREM RunsAdvance == ConnectorSpec => RunAdvances
<1> DEFINE Advances == exit = NoCode /\ exit' = NoCode /\ UNCHANGED <<chain, clock>> => IsLess
<1>1. ASSUME WholeInv, ConnectorNext, exit = NoCode, exit' = NoCode,
             UNCHANGED <<chain, clock>>
      PROVE  IsLess \/ UNCHANGED connector
  <2>1. IInv /\ R!TypeOK
    BY <1>1, SameTypes DEF WholeInv, RunInv, P!DeliveryInv, P!IInv
  <2>2. CASE Environment
    <3>1. clock \in Nat /\ \A s \in Senders : Len(chain[s]) \in Nat
      BY <2>1 DEF IInv, TypeOK
    <3>2. ~TickStep
      BY <1>1, <3>1 DEF TickStep, Tick
    <3>3. ASSUME NEW s \in Senders, PublishStep(s) PROVE FALSE
      <4>1. Len(chain'[s]) = Len(chain[s]) + 1
        BY <2>1, <3>3, PublishKeeps DEF IInv
      <4> QED
        BY <1>1, <3>1, <4>1
    <3> QED
      BY <2>2, <3>2, <3>3 DEF Environment
  <2>3. CASE CollectStep \/ SiteFails
    BY <2>1, <2>3, CollectAdvances
  <2>4. CASE \E config \in Configs : BeginReports(config)
    BY <2>4 DEF BeginReports, R!StartRun, IsLess, PhasesLeft
  <2>5. CASE ProcessStep \/ ReportFails \/ ReportWaitsForKey
    BY <2>1, <2>5, ReportAdvances
  <2>6. ~(\E registry \in Registries : Begin(registry)) /\ ~Finish /\ ~Die
    BY <1>1 DEF Begin, Finish, Die, End, ExitCode, NoCode
  <2> QED
    BY <1>1, <2>2, <2>3, <2>4, <2>5, <2>6 DEF ConnectorNext, GoOn
<1>2. WholeInv /\ [ConnectorNext]_connector => [Advances]_connector
  BY <1>1
<1>3. ConnectorSpec => [][Advances]_connector
  BY <1>2, WholeInvariance, PTL DEF ConnectorSpec
<1> QED
  BY <1>3 DEF RunAdvances, IsLess

----------------------------------------------------------------------------
\* Collection within a run is collection as it is proved of.

\* Each step of a run is a step of the collection or leaves it alone, but for the
\* count of failures, which the two share (collect_sender_events in run_once).
THEOREM RunsCollect == ConnectorSpec => Init /\ [][Next]_collection
<1>1. ConnectorInit => Init
  BY DEF ConnectorInit
<1>2. RunInv /\ [ConnectorNext]_connector => [Next]_collection
  BY CollectionGoesOn DEF RunInv, vars, collection
<1> QED
  BY <1>1, <1>2, RunInvariance, PTL DEF ConnectorSpec

\* No record is lost in silence, none has a second row, and the watch's signals are
\* in step with the rows, also in runs that process reports between collections,
\* fail there and start again (run_once).
THEOREM RunsLoseNothing ==
    ConnectorSpec => [](NoSilentLoss /\ StoredOnce /\ SignalsFollowRows)
<1> DEFINE Kept == IInv /\ StoredOnce /\ SignalInv
<1>1. ConnectorInit => Kept
  <2> SUFFICES ASSUME Init PROVE Kept
    BY DEF ConnectorInit
  <2>1. pc = "idle" /\ \A s \in Senders : entries[s] = <<>>
    BY DEF Init
  <2>2. SignalInv
    BY <2>1 DEF SignalInv, RowsAreText, Stored, ScanEndsLate, SignalIsLate, BeatIsKnown
  <2> QED
    BY <2>1, <2>2, InvInit DEF StoredOnce
<1>2. ASSUME Kept, [ConnectorNext]_connector PROVE Kept'
  <2>1. IInv' /\ ([Next]_vars \/ UNCHANGED collection)
    BY <1>2, CollectionGoesOn
  <2>2. CASE [Next]_vars
    BY <1>2, <2>1, <2>2, StoredOnceStep, SignalInvStep DEF IInv
  <2>3. CASE UNCHANGED collection
    <3>1. UNCHANGED <<chain, entries, lastSignal, lastBeat, current, pc, records, todo>>
      BY <2>3 DEF collection, store, process
    <3>2. StoredOnce' /\ SignalInv'
      BY <1>2, <3>1
      DEF StoredOnce, SignalInv, RowsAreText, ScanEndsLate, SignalIsLate, BeatIsKnown,
          Stored, IsText, IsBeat, Time
    <3> QED
      BY <2>1, <3>2
  <2> QED
    BY <2>1, <2>2, <2>3
<1>3. Kept => NoSilentLoss /\ StoredOnce /\ SignalsFollowRows
  BY NoSilentLossFollows DEF SignalInv, SignalIsLate, BeatIsKnown, SignalsFollowRows
<1> QED
  BY <1>1, <1>2, <1>3, PTL DEF ConnectorSpec

\* To those who read the store it is a copy of each datalog with announced gaps,
\* whatever reports a run processes and however it ends (run_once).
THEOREM RunsCopy == ConnectorSpec => KeepsCopy
<1>1. ConnectorInit => Replica!Init
  BY CopyBegins DEF ConnectorInit
<1>2. ASSUME RunInv, [ConnectorNext]_connector
      PROVE  [Replica!Next]_(Replica!vars)
  <2>1. IInv /\ ([Next]_vars \/ UNCHANGED collection)
    BY <1>2, CollectionGoesOn DEF RunInv
  <2>2. CASE UNCHANGED collection
    <3>1. UNCHANGED <<chain, entries, warned, base, scanned>>
      BY <2>2 DEF collection, store, history
    <3>2. \A s : TextOf(s)' = TextOf(s)
      BY <3>1 DEF TextOf, Positions, IsText
    <3> QED
      BY <3>1, <3>2 DEF Replica!vars
  <2> QED
    BY <2>1, <2>2, StepCopies
<1> QED
  BY <1>1, <1>2, RunInvariance, PTL DEF ConnectorSpec, KeepsCopy, Replica!Spec
=============================================================================
