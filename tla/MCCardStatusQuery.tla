------------------------- MODULE MCCardStatusQuery -------------------------
(***************************************************************************)
(* A small instance of CardStatusQuery for TLC: two partitions, of which   *)
(* r2 has one to itself.                                                   *)
(***************************************************************************)
EXTENDS CardStatusQuery

CONSTANTS p1, p2, r2

TwoPartitions == [r \in Requests |-> IF r = r2 THEN p2 ELSE p1]
=============================================================================
