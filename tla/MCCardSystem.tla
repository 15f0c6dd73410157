---------------------------- MODULE MCCardSystem ----------------------------
(***************************************************************************)
(* A small instance of CardSystem for TLC: one partition, one instance of  *)
(* card-issuer, events created at the same moment.                         *)
(***************************************************************************)
EXTENDS CardSystem

CONSTANTS k1, n1

OnePartition == [p \in Posts |-> k1]

OneServer == [p \in Posts |-> n1]

SameMoment == [p \in Posts |-> 1]
=============================================================================
