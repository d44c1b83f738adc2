------------------------------ MODULE MCReports ------------------------------
(***************************************************************************)
(* Small instances of Reports for TLC: keys, registries of recipients and  *)
(* what the reports are.                                                   *)
(***************************************************************************)
EXTENDS Reports

CONSTANTS k1, k2

\* The first key is retired, or a second one comes before it.
TwoConfigs == {<<k1>>, <<k2, k1>>}

OneConfig == {<<k1>>}

\* Report 1 is sealed for both keys, the others for the second only.
TwoEnvelopes == [r \in Reports |-> IF r = 1 THEN {k1, k2} ELSE {k2}]

OneEnvelope == [r \in Reports |-> {k1}]

Nothing == {}

First == {1}

Second == {2}

Third == {3}
=============================================================================
