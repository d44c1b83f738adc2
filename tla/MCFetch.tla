------------------------------ MODULE MCFetch ------------------------------
(***************************************************************************)
(* Small instances of Fetch for TLC: archives of each kind the code tells  *)
(* apart, and what a person may ask for.                                   *)
(***************************************************************************)
EXTENDS Fetch

CONSTANTS k1, k2, n1, n2, c1

M(form, keys, opens, name) == [form |-> form, keys |-> keys, opens |-> opens, name |-> name]

\* Sealed for the first key, for both, for a stranger; by somebody else.
one == M("sealed", {k1}, TRUE, n1)
both == M("sealed", {k1, k2}, TRUE, n2)
strange == M("sealed", {}, TRUE, n1)
forged == M("sealed", {k1, k2}, FALSE, n1)
damaged == M("damaged", {}, FALSE, n1)
invalid == M("invalid", {}, FALSE, n1)
nested == M("nested", {k1}, TRUE, n1)
unnamed == M("sealed", {k1}, TRUE, NoName)

ManyBodies ==
    {NotZip, <<>>, <<both>>, <<one, both>>, <<both, one>>, <<one, one>>, <<both, strange>>,
     <<both, forged>>, <<both, damaged>>, <<damaged, invalid>>, <<invalid, damaged>>,
     <<one, nested>>, <<both, unnamed>>, <<one, both, one>>}

FewBodies == {<<both, one>>, <<both, damaged>>}

\* A report asked for by its CID may be anything.
BodiesByTarget == [t \in {c1} \cup 1 .. 3 |-> IF t = c1 THEN ManyBodies ELSE FewBodies]

TargetsByNameAndSlot == {c1} \cup 1 .. 3

\* The same report twice.
CidLists == {<<c1, c1>>}

OneLog == {<<"report", "other", "report">>}

BothKeys == {<<k1>>, <<k2, k1>>}
=============================================================================
