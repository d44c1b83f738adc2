---------------------------- MODULE MCConnector ----------------------------
(***************************************************************************)
(* Small instances of Connector for TLC.                                   *)
(***************************************************************************)
EXTENDS Connector

CONSTANT k1

TwoSites == {1, 2}

\* The first site is registered with a history that is later than what it may
\* publish first, the second without.
HistoryOfFirst == [s \in Senders |-> IF s = 1 THEN 2 ELSE None]

\* The second site is taken out and put back.
SecondComesAndGoes == {{1}, {1, 2}}

OneConfig == {<<k1>>}

ForUs == [r \in 1 .. NumReports |-> {k1}]

Nothing == {}

\* Bounds: the second site publishes once; time goes on only before that and
\* while the first site has something to publish; and the sites are given their
\* turns while no site is collected and no report processed.  A step of a site
\* could only be noticed by the read of its datalog and by the start of a run.
OnlyBetween ==
    /\ Len(chain'[2]) <= 1
    /\ clock' # clock => chain[2] = <<>> /\ Len(chain[1]) < MaxRecords
    /\ pc # "idle" \/ step # "idle" => chain' = chain /\ clock' = clock
=============================================================================
