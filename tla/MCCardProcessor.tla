-------------------------- MODULE MCCardProcessor --------------------------
(***************************************************************************)
(* Small instances of CardProcessor for TLC: one partition, on which       *)
(* requests wait behind each other.                                        *)
(***************************************************************************)
EXTENDS CardProcessor

CONSTANTS p1

OnePartition == [r \in Requests |-> p1]
=============================================================================
