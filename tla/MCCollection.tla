---------------------------- MODULE MCCollection ----------------------------
(***************************************************************************)
(* Small instances of Collection for TLC.                                  *)
(***************************************************************************)
EXTENDS Collection

CONSTANT s1

NoHistory == [s \in Senders |-> None]

FromSecondBlock == [s \in Senders |-> 2]
=============================================================================
