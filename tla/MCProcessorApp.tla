--------------------------- MODULE MCProcessorApp ---------------------------
(***************************************************************************)
(* A small instance of ProcessorApp for TLC: requests wait behind each     *)
(* other on one partition.                                                 *)
(***************************************************************************)
EXTENDS ProcessorApp

CONSTANTS p1

OnePartition == [r \in Requests |-> p1]
=============================================================================
