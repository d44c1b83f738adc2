-------------------------------- MODULE Copy --------------------------------
(***************************************************************************)
(* What the store is of a site's datalog, to those who read the store: a   *)
(* copy of its text from some first record on, in which each record has    *)
(* one row and nothing is missing but what a gap warning tells of.  A      *)
(* warning tells of all that has left the ring and is raised only if the   *)
(* last record passed over has left it, too.                               *)
(***************************************************************************)
EXTENDS Integers, Sequences

CONSTANTS
    Senders,      \* the sites of the registry
    WindowSize    \* slots of the ring, one of which is not live

VARIABLES
    written,   \* [Senders -> number of records the site has written]
    text,      \* [Senders -> positions of those that are text]
    rows,      \* [Senders -> sequence of positions], the copy
    gap,       \* [Senders -> last position a warning told of]
    first,     \* [Senders -> first position of the copy, 0 before]
    seen       \* [Senders -> position up to which the copy is complete, 0 before]

vars == <<written, text, rows, gap, first, seen>>

Copied(s) == {rows[s][n] : n \in DOMAIN rows[s]}

\* The last position that has left the ring.
Gone(s) == IF written[s] < WindowSize THEN 0 ELSE written[s] - WindowSize + 1

Init ==
    /\ written = [s \in Senders |-> 0]
    /\ text = [s \in Senders |-> {}]
    /\ rows = [s \in Senders |-> <<>>]
    /\ gap = [s \in Senders |-> 0]
    /\ first = [s \in Senders |-> 0]
    /\ seen = [s \in Senders |-> 0]

Write(s) ==
    /\ written' = [written EXCEPT ![s] = @ + 1]
    /\ text' \in {text, [text EXCEPT ![s] = @ \cup {written[s] + 1}]}
    /\ UNCHANGED <<rows, gap, first, seen>>

Take(s, i) ==
    /\ i \in text[s] \ Copied(s)
    /\ rows' = [rows EXCEPT ![s] = Append(@, i)]
    /\ UNCHANGED <<written, text, gap, first, seen>>

Announce(s) ==
    /\ seen[s] # 0
    /\ seen[s] <= Gone(s)
    /\ gap' = [gap EXCEPT ![s] = Gone(s)]
    /\ UNCHANGED <<written, text, rows, first, seen>>

Pass(s, n) ==
    /\ n \in Copied(s)
    /\ seen[s] <= n
    /\ seen' = [seen EXCEPT ![s] = n]
    /\ \E m \in Copied(s) :
        /\ first' = IF first[s] = 0 THEN [first EXCEPT ![s] = m] ELSE first
        /\ \A i \in text[s] : first'[s] <= i /\ i <= n => i \in Copied(s) \/ i <= gap[s]
    /\ UNCHANGED <<written, text, rows, gap>>

Next ==
    \E s \in Senders :
        \/ Write(s)
        \/ Announce(s)
        \/ \E i \in text[s] : Take(s, i) \/ Pass(s, i)

Spec == Init /\ [][Next]_vars
=============================================================================
