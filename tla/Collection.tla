----------------------------- MODULE Collection -----------------------------
(***************************************************************************)
(* Collecting a site's datalog into the connector's SQLite store: the      *)
(* sender loop of run_once, collect_sender_events and the StateStore       *)
(* operations it calls.  Every store operation commits on its own, so each *)
(* is a step, and a failure or a crash may come between any two of them.   *)
(*                                                                         *)
(* Rows refer to records by their position in the site's chain; the store  *)
(* itself tells rows apart by (slot, timestamp) only, as the code does.    *)
(***************************************************************************)
EXTENDS Datalog

CONSTANTS
    HistoryFrom,    \* [Senders -> Nat], history_from of the registry
    MaxInterrupts   \* bound: failures and crashes

ASSUME HistoryAssumption == HistoryFrom \in [Senders -> Nat]

ASSUME InterruptsAssumption == MaxInterrupts \in Nat

VARIABLES
    \* the store
    entries,      \* [Senders -> sequence of positions], rows as inserted
    scanned,      \* [Senders -> position of the cursor's record, or None]
    lastSignal,   \* [Senders -> timestamp or None]
    lastBeat,     \* [Senders -> timestamp or None]
    \* the running process
    queue,        \* enabled senders this run has still to visit
    current,      \* the sender being collected
    pc,           \* where its collection stands
    records,      \* the scan: positions returned by the reader
    todo,         \* positions the current loop has still to handle
    interrupts,   \* failures and crashes so far
    \* history
    base,         \* [Senders -> first position of the first scan, or None]
    warned,       \* [Senders -> last position covered by a gap warning]
    joined        \* [Senders -> 1 + chain length at the first collection]

store == <<entries, scanned, lastSignal, lastBeat>>
process == <<queue, current, pc, records, todo>>
history == <<base, warned, joined>>
vars == <<chain, clock, store, process, interrupts, history>>

Steps == {"idle", "backfill", "store", "mark", "collected"}

Positions(s) == 1 .. Len(chain[s])

Stored(s) == {entries[s][n] : n \in DOMAIN entries[s]}

\* The timestamp of the last record stored, which the next read starts from.
Cursor(s) == IF scanned[s] = None THEN None ELSE Time(s, scanned[s])

StartOfRead(s) == IF Cursor(s) # None THEN Cursor(s) ELSE HistoryFrom[s]

\* Mutant of Known: rows up to the cursor are the known ones.
KnownUpToCursor(s, i) == i <= scanned[s]

\* Mutant of Known: the sender left out of a record's identity.
KnownOfAnySender(s, i) ==
    \E t \in Senders : \E e \in Stored(t) :
        Slot(e) = Slot(i) /\ Time(t, e) = Time(s, i)

\* The row already there for a record's sender, index and timestamp.
Known(s, i) ==
    \E e \in Stored(s) : Slot(e) = Slot(i) /\ Time(s, e) = Time(s, i)

Later(old, new) == IF old < new THEN new ELSE old

\* record_signal: forward only, the heartbeat apart from the signal.
RecordSignal(s, signal, beat) ==
    /\ lastSignal' = [lastSignal EXCEPT ![s] = Later(@, signal)]
    /\ lastBeat' = [lastBeat EXCEPT ![s] = Later(@, beat)]

----------------------------------------------------------------------------

Init ==
    /\ DatalogInit
    /\ entries = [s \in Senders |-> <<>>]
    /\ scanned = [s \in Senders |-> None]
    /\ lastSignal = [s \in Senders |-> None]
    /\ lastBeat = [s \in Senders |-> None]
    /\ queue = {}
    /\ current \in Senders
    /\ pc = "idle"
    /\ records = {}
    /\ todo = {}
    /\ interrupts = 0
    /\ base = [s \in Senders |-> None]
    /\ warned = [s \in Senders |-> 0]
    /\ joined = [s \in Senders |-> None]

\* Block time and the sites go on whatever the connector does.
TickStep == Tick /\ UNCHANGED <<store, process, interrupts, history>>

PublishStep(s) ==
    /\ \E kind \in Kinds : Publish(s, kind)
    /\ UNCHANGED <<store, process, interrupts, history>>

\* The timer starts a run over the senders the registry enables by then.
StartRun(enabled) ==
    /\ pc = "idle"
    /\ queue = {}
    /\ queue' = enabled
    /\ UNCHANGED <<chain, clock, store, current, pc, records, todo,
                   interrupts, history>>

\* Mutant of Visit: no backfill.
VisitWithoutBackfill(s) ==
    /\ pc = "idle"
    /\ s \in queue
    /\ queue' = queue \ {s}
    /\ current' = s
    /\ pc' = "backfill"
    /\ UNCHANGED <<chain, clock, store, records, todo, interrupts, history>>

\* The loop comes to sender s; its stored records are gone through first
\* while no heartbeat of it is known.
Visit(s) ==
    /\ pc = "idle"
    /\ s \in queue
    /\ queue' = queue \ {s}
    /\ current' = s
    /\ pc' = "backfill"
    /\ todo' = IF lastBeat[s] = None THEN Stored(s) ELSE {}
    /\ UNCHANGED <<chain, clock, store, records, interrupts, history>>

\* backfill_signal: one record_signal per stored row, in time order.
Backfill ==
    /\ pc = "backfill"
    /\ \E i \in todo :
        /\ \A j \in todo : i <= j
        /\ todo' = todo \ {i}
        /\ RecordSignal(current, Time(current, i),
               IF IsBeat(current, i) THEN Time(current, i) ELSE None)
    /\ UNCHANGED <<chain, clock, entries, scanned, queue, current, pc, records,
                   interrupts, history>>

\* list_new_records, and the gap check on what it returned.
Read ==
    /\ pc = "backfill"
    /\ todo = {}
    /\ records' = NewRecords(current, StartOfRead(current))
    /\ todo' = records'
    /\ pc' = "store"
    /\ IF Cursor(current) # None /\ ~ReachedCursor(current, Cursor(current))
       THEN warned' = [warned EXCEPT ![current] = Oldest(current) - 1]
       ELSE UNCHANGED warned
    /\ UNCHANGED <<chain, clock, store, queue, current, interrupts, base, joined>>

\* Mutant of Store: the loop ends at the first record already known.
StoreUntilKnown ==
    /\ pc = "store"
    /\ \E i \in todo :
        /\ \A j \in todo : i <= j
        /\ todo' = IF Known(current, i) THEN {} ELSE todo \ {i}
        /\ entries' = IF Known(current, i)
                      THEN entries
                      ELSE [entries EXCEPT ![current] = Append(@, i)]
    /\ UNCHANGED <<chain, clock, scanned, lastSignal, lastBeat, queue, current,
                   pc, records, interrupts, history>>

\* add_datalog_entry, once per record of the scan, oldest first.
Store ==
    /\ pc = "store"
    /\ \E i \in todo :
        /\ \A j \in todo : i <= j
        /\ todo' = todo \ {i}
        /\ entries' = IF Known(current, i)
                      THEN entries
                      ELSE [entries EXCEPT ![current] = Append(@, i)]
    /\ UNCHANGED <<chain, clock, scanned, lastSignal, lastBeat, queue, current,
                   pc, records, interrupts, history>>

\* The first completed collection of a site, kept as history.
Join ==
    joined' = IF joined[current] = None
              THEN [joined EXCEPT ![current] = Len(chain[current]) + 1]
              ELSE joined

\* record_signal with the last record of the scan and its last heartbeat.
Signal ==
    /\ pc = "store"
    /\ todo = {}
    /\ \E last \in records :
        /\ \A i \in records : i <= last
        /\ \/ \E beat \in records :
                /\ IsBeat(current, beat)
                /\ \A i \in records : IsBeat(current, i) => i <= beat
                /\ RecordSignal(current, Time(current, last), Time(current, beat))
           \/ /\ \A i \in records : ~IsBeat(current, i)
              /\ RecordSignal(current, Time(current, last), None)
    /\ pc' = "mark"
    /\ UNCHANGED <<chain, clock, entries, scanned, queue, current, records, todo,
                   interrupts, history>>

\* Mutant of Mark: the cursor is one past the last record.
MarkOnePast ==
    /\ pc = "mark"
    /\ \E last \in records :
        /\ \A i \in records : i <= last
        /\ scanned' = [scanned EXCEPT ![current] = last + 1]
    /\ \E first \in records :
        /\ \A i \in records : first <= i
        /\ base' = IF base[current] = None
                   THEN [base EXCEPT ![current] = first] ELSE base
    /\ Join
    /\ pc' = "collected"
    /\ UNCHANGED <<chain, clock, entries, lastSignal, lastBeat, queue, current,
                   records, todo, interrupts, warned>>

\* mark_sender_scanned, only after every record of the scan is stored.
Mark ==
    /\ pc = "mark"
    /\ \E last \in records :
        /\ \A i \in records : i <= last
        /\ scanned' = [scanned EXCEPT ![current] = last]
    /\ \E first \in records :
        /\ \A i \in records : first <= i
        /\ base' = IF base[current] = None
                   THEN [base EXCEPT ![current] = first] ELSE base
    /\ Join
    /\ pc' = "collected"
    /\ UNCHANGED <<chain, clock, entries, lastSignal, lastBeat, queue, current,
                   records, todo, interrupts, warned>>

\* A scan that returned nothing writes nothing.
NothingNew ==
    /\ pc = "store"
    /\ records = {}
    /\ Join
    /\ pc' = "collected"
    /\ UNCHANGED <<chain, clock, store, queue, current, records, todo,
                   interrupts, base, warned>>

\* The loop goes on to the next sender.
Leave ==
    /\ pc = "collected"
    /\ pc' = "idle"
    /\ records' = {}
    /\ UNCHANGED <<chain, clock, store, queue, current, todo, interrupts, history>>

\* An exception drops this sender's collection, a crash the rest of the run too.
Interrupt(rest) ==
    /\ pc # "idle"
    /\ interrupts < MaxInterrupts
    /\ interrupts' = interrupts + 1
    /\ queue' = rest
    /\ pc' = "idle"
    /\ records' = {}
    /\ todo' = {}
    /\ UNCHANGED <<chain, clock, store, current, history>>

Fail == Interrupt(queue)

Crash == Interrupt({})

Collect == Backfill \/ Read \/ Store \/ Signal \/ Mark \/ NothingNew \/ Leave

Next ==
    \/ TickStep
    \/ \E s \in Senders : PublishStep(s)
    \/ \E enabled \in SUBSET Senders : StartRun(enabled)
    \/ \E s \in Senders : Visit(s)
    \/ Collect
    \/ Fail
    \/ Crash

Spec == Init /\ [][Next]_vars
----------------------------------------------------------------------------

\* Rows, cursor and history of a site are positions its chain has, and a warning
\* covers only what has left the ring.
RowsInChain ==
    \A s \in Senders :
        /\ Stored(s) \subseteq Positions(s)
        /\ scanned[s] \in 0 .. Len(chain[s])
        /\ base[s] \in 0 .. scanned[s]
        /\ base[s] = None <=> scanned[s] = None
        /\ warned[s] \in 0 .. Oldest(s) - 1

\* Rows gone through and records scanned are those of the current sender.
ScanInChain ==
    /\ todo \subseteq Positions(current)
    /\ records \subseteq Positions(current)

\* Every variable keeps its kind: rows, cursor and scan refer to records the
\* site has published, signals are timestamps (the columns of state/models.py).
TypeOK ==
    /\ chain \in [Senders -> Seq(Record)]
    /\ clock \in Nat \ {None}
    /\ entries \in [Senders -> Seq(Nat \ {0})]
    /\ scanned \in [Senders -> Nat]
    /\ lastSignal \in [Senders -> Nat]
    /\ lastBeat \in [Senders -> Nat]
    /\ queue \in SUBSET Senders
    /\ current \in Senders
    /\ pc \in Steps
    /\ interrupts \in 0 .. MaxInterrupts
    /\ base \in [Senders -> Nat]
    /\ warned \in [Senders -> Nat]
    /\ joined \in [Senders -> Nat]
    /\ RowsInChain
    /\ ScanInChain

\* What the next complete read does with record i: it returns it, or it
\* raises the gap warning, or nothing readable is left and the cursor waits.
NextReadTells(s, i) ==
    \/ i \in NewRecords(s, Cursor(s))
    \/ ~ReachedCursor(s, Cursor(s))
    \/ Readable(s) = {}

\* From the first record read on, a text record of an enabled or disabled site
\* is stored, covered by a gap warning, or the next read will store it or warn:
\* whatever fails or crashes between two commits, no record is lost in silence
\* (collect_sender_events, the order of its writes and the >= of the reader).
NoSilentLoss ==
    \A s \in Senders : scanned[s] # None =>
        \A i \in Positions(s) : base[s] <= i /\ IsText(s, i) =>
            i \in Stored(s) \/ i <= warned[s] \/ NextReadTells(s, i)

\* A record is stored once, however often it is read again and although slots
\* are reused (the identity add_datalog_entry looks up); a row never takes the
\* place of another record's.
StoredOnce ==
    \A s \in Senders : \A m, n \in DOMAIN entries[s] :
        entries[s][m] = entries[s][n] => m = n

\* What watch_sender judges a site by is in step with the rows: after a scan
\* that read something the last signal is no older than any stored record, and
\* a stored heartbeat is known as one, even if an earlier run died between
\* storing rows and recording their signal (record_signal, backfill_signal).
SignalsFollowRows ==
    pc = "collected" =>
        \A i \in Stored(current) :
            /\ records # {} => Time(current, i) <= lastSignal[current]
            /\ IsBeat(current, i) => lastBeat[current] # None

\* A run never takes the cursor or a signal of any site back to an older record,
\* and moves a cursor only to a record whose scan is stored whole
\* (mark_sender_scanned comes last and takes the last record).
CursorNeverAheadOfRows ==
    [][\A s \in Senders :
        /\ scanned[s] <= scanned'[s]
        /\ lastSignal[s] <= lastSignal'[s]
        /\ scanned[s] # scanned'[s] =>
              \A i \in Readable(s) :
                 i <= scanned'[s] /\ Time(s, i) >= Cursor(s) /\ base'[s] <= i
                    => i \in Stored(s)]_vars

\* To those who read the store it is a copy of each site's text, one row for each
\* record and no gap without a warning, and no warning while the last record that
\* was passed over is still in the ring: rows, warnings and cursor together, however
\* runs are interrupted (collect_sender_events).
TextOf(s) == {i \in Positions(s) : IsText(s, i)}

Replica == INSTANCE Copy WITH
    written <- [s \in Senders |-> Len(chain[s])],
    text <- [s \in Senders |-> TextOf(s)],
    rows <- entries,
    gap <- warned,
    first <- base,
    seen <- scanned

KeepsCopy == Replica!Spec

\* The inductive invariant of the proofs, by parts.

\* Records of a site are in block order, no more than two with one block time.
ChainInOrder ==
    \A s \in Senders : \A i, j \in Positions(s) :
        /\ Time(s, i) <= clock
        /\ i <= j => Time(s, i) <= Time(s, j)
        /\ i + 1 < j => Time(s, i) < Time(s, j)

\* All the cursor stands past is stored or warned about.
SeenIsStored ==
    \A s \in Senders : scanned[s] # None =>
        /\ IsText(s, scanned[s])
        /\ \A i \in base[s] .. scanned[s] :
            IsText(s, i) => i \in Stored(s) \/ i <= warned[s]

\* The scan in hand: what is done of it is stored, it does not end before the
\* cursor, and it passes over nothing after the cursor without a warning.
ScanIsWhole ==
    /\ pc \in {"idle", "backfill"} => records = {}
    /\ pc \in {"store", "mark"} =>
        /\ todo \subseteq records
        /\ \A i \in records : IsText(current, i)
        /\ \A i \in records : i \in todo \/ i \in Stored(current)
        /\ pc = "mark" => todo = {}
        /\ \A last \in records :
             (\A i \in records : i <= last) => scanned[current] <= last
        /\ \A i \in Positions(current) : \A b \in records :
             IsText(current, i) /\ i <= b =>
                IF scanned[current] = None
                THEN (\E a \in records : a <= i) => i \in records
                ELSE scanned[current] < i => i \in records \/ i <= warned[current]

\* The invariant a step preserves: NoSilentLoss follows from it.
IInv == TypeOK /\ ChainInOrder /\ SeenIsStored /\ ScanIsWhole

\* What the docs say of first runs and histories, which the code does not keep.

\* Only a site's first run skips records (README, "Local state"): once a
\* collection of it completed, a record it publishes is stored, warned about or
\* left for a read that will tell.
OnlyFirstRunSkips ==
    \A s \in Senders : joined[s] # None =>
        \A i \in Positions(s) : joined[s] <= i /\ IsText(s, i) =>
            \/ i \in Stored(s)
            \/ i <= warned[s]
            \/ scanned[s] = None /\ i \in NewRecords(s, StartOfRead(s))
            \/ scanned[s] # None /\ NextReadTells(s, i)

\* With history_from "every record from that moment on is read" (README, "Local
\* state"): once such a site was scanned, no record since that moment is missing
\* without a gap warning.
HistoryIsWhole ==
    \A s \in Senders : scanned[s] # None /\ HistoryFrom[s] # None =>
        \A i \in Positions(s) : HistoryFrom[s] <= Time(s, i) /\ IsText(s, i) =>
            i \in Stored(s) \/ i <= warned[s] \/ NextReadTells(s, i)
=============================================================================
