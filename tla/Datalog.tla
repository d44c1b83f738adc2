------------------------------ MODULE Datalog ------------------------------
(***************************************************************************)
(* The Robonomics datalog of each site and the way the connector reads it. *)
(*                                                                         *)
(* The pallet (external code) keeps a site's records in a ring of          *)
(* WindowSize slots of which WindowSize - 1 are live.  Here a site's chain *)
(* is the sequence of everything it ever published; a record is known by   *)
(* its position in that sequence, its slot is the position modulo the      *)
(* ring, and only the last WindowSize - 1 positions can still be read.     *)
(***************************************************************************)
EXTENDS Integers, Sequences

CONSTANTS
    Senders,       \* the sites of the registry
    Kinds,         \* kinds of records they write: report, beat, other, junk
    WindowSize,    \* slots of the ring
    MaxPerBlock,   \* records one site writes with the same block time
    MaxRecords,    \* bound: records a site publishes
    MaxClock       \* bound: block times

ASSUME WindowAssumption == WindowSize \in Nat /\ WindowSize >= 2

\* A site writes at most twice in a row (README, "Event identity and cursor").
ASSUME BlockAssumption == MaxPerBlock \in {1, 2}

ASSUME KindsAssumption == Kinds \subseteq {"report", "beat", "other", "junk"}

ASSUME BoundsAssumption == MaxRecords \in Nat /\ MaxClock \in Nat \ {0}

VARIABLES
    chain,   \* [Senders -> sequence of records], oldest first
    clock    \* the current block time

\* A timestamp column that is NULL; block times start at 1.
None == 0

Record == [ts : Nat \ {None}, kind : Kinds]

Slot(i) == (i - 1) % WindowSize

Time(s, i) == chain[s][i].ts

\* A record that is not text of a site is dropped by the reader.
IsText(s, i) == chain[s][i].kind # "junk"

IsBeat(s, i) == chain[s][i].kind = "beat"

Oldest(s) ==
    IF Len(chain[s]) < WindowSize THEN 1 ELSE Len(chain[s]) - WindowSize + 2

Live(s) == Oldest(s) .. Len(chain[s])

Readable(s) == {i \in Live(s) : IsText(s, i)}

\* Mutant of NewRecords: the record at the start is not read again.
NewRecordsAfter(s, start) ==
    IF start = None
    THEN {i \in Readable(s) : \A j \in Readable(s) : j <= i}
    ELSE {i \in Readable(s) : Time(s, i) > start}

\* The records a read from `start` returns; the latest one without a start.
NewRecords(s, start) ==
    IF start = None
    THEN {i \in Readable(s) : \A j \in Readable(s) : j <= i}
    ELSE {i \in Readable(s) : Time(s, i) >= start}

\* Mutant of ReachedCursor: the cursor's own record does not count.
ReachedBeforeCursor(s, start) ==
    \/ start = None
    \/ Readable(s) = {}
    \/ \E i \in Readable(s) : /\ \A j \in Readable(s) : i <= j
                              /\ Time(s, i) < start

\* The oldest readable record decides whether the cursor is still in the ring.
ReachedCursor(s, start) ==
    \/ start = None
    \/ Readable(s) = {}
    \/ \E i \in Readable(s) : /\ \A j \in Readable(s) : i <= j
                              /\ Time(s, i) <= start

----------------------------------------------------------------------------

DatalogInit ==
    /\ chain = [s \in Senders |-> <<>>]
    /\ clock = 1

Tick ==
    /\ clock < MaxClock
    /\ clock' = clock + 1
    /\ UNCHANGED chain

\* A block takes no more than MaxPerBlock records of one site.
BlockHasRoom(s) ==
    LET n == Len(chain[s])
    IN  n >= MaxPerBlock => Time(s, n - MaxPerBlock + 1) < clock

Publish(s, kind) ==
    /\ Len(chain[s]) < MaxRecords
    /\ BlockHasRoom(s)
    /\ chain' = [chain EXCEPT ![s] = Append(@, [ts |-> clock, kind |-> kind])]
    /\ UNCHANGED clock
=============================================================================
