------------------------------ MODULE Handover ------------------------------
(***************************************************************************)
(* What the connector promises of a report, seen from the admin layer: it  *)
(* is delivered or rejected once and for all, a delivery comes whole, and  *)
(* its files stay until their age has come.                                *)
(***************************************************************************)
EXTENDS Integers

CONSTANTS
    Reports,         \* the reports the sites publish
    KeepDecrypted,   \* days the decrypted files are kept, 0 for ever
    KeepArchive,     \* days the archive is kept, 0 for ever
    MaxDay           \* bound: days

VARIABLES
    phase,   \* [Reports -> {"pending", "delivered", "rejected"}]
    kept,    \* [Reports -> the parts of a delivered report still there]
    since,   \* [Reports -> day of processing, 0 before]
    day

Age(part) == IF part = "decrypted" THEN KeepDecrypted ELSE KeepArchive

Init ==
    /\ phase = [r \in Reports |-> "pending"]
    /\ kept = [r \in Reports |-> {}]
    /\ since = [r \in Reports |-> 0]
    /\ day = 1

Deliver(r) ==
    /\ phase[r] = "pending"
    /\ phase' = [phase EXCEPT ![r] = "delivered"]
    /\ kept' = [kept EXCEPT ![r] = {"decrypted", "archive"}]
    /\ \E stamp \in 1 .. day : since' = [since EXCEPT ![r] = stamp]
    /\ UNCHANGED day

Reject(r) ==
    /\ phase[r] = "pending"
    /\ phase' = [phase EXCEPT ![r] = "rejected"]
    /\ UNCHANGED <<kept, since, day>>

Lapse(r, part) ==
    /\ part \in kept[r]
    /\ Age(part) # 0
    /\ since[r] + Age(part) <= day
    /\ kept' = [kept EXCEPT ![r] = @ \ {part}]
    /\ UNCHANGED <<phase, since, day>>

NextDay ==
    /\ day < MaxDay
    /\ day' = day + 1
    /\ UNCHANGED <<phase, kept, since>>

Next ==
    \/ NextDay
    \/ \E r \in Reports :
        \/ Deliver(r)
        \/ Reject(r)
        \/ \E part \in {"decrypted", "archive"} : Lapse(r, part)

Spec == Init /\ [][Next]_<<phase, kept, since, day>>
=============================================================================
