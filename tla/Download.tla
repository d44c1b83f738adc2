------------------------------ MODULE Download ------------------------------
(***************************************************************************)
(* What a download promises its caller: the archive changes in one step,   *)
(* together with a successful end, and in no other case.                   *)
(***************************************************************************)
CONSTANTS
    Targets,   \* report directories
    Bodies,    \* [Targets -> complete bodies]
    None       \* no file

VARIABLES
    archive,   \* [Targets -> body or None]
    target,    \* where the download in hand goes to
    outcome    \* "off", "running", or how it ended

vars == <<archive, target, outcome>>

Init ==
    /\ archive = [t \in Targets |-> None]
    /\ target \in Targets
    /\ outcome = "off"

Call ==
    /\ outcome = "off"
    /\ outcome' = "running"
    /\ target' \in Targets
    /\ UNCHANGED archive

Succeed ==
    /\ outcome = "running"
    /\ outcome' = "done"
    /\ \E body \in Bodies[target] : archive' = [archive EXCEPT ![target] = body]
    /\ UNCHANGED target

Fail ==
    /\ outcome = "running"
    /\ outcome' \in {"unavailable", "toolarge", "error"}
    /\ UNCHANGED <<archive, target>>

\* The caller takes the outcome, or its process dies.
Return ==
    /\ outcome' = "off"
    /\ UNCHANGED <<archive, target>>

Next == Call \/ Succeed \/ Fail \/ Return

Spec == Init /\ [][Next]_vars
=============================================================================
