----------------------------- MODULE MCWatchdog -----------------------------
(***************************************************************************)
(* Small instances of Watchdog for TLC.                                    *)
(***************************************************************************)
EXTENDS Watchdog

NoHistory == [s \in Senders |-> None]
=============================================================================
