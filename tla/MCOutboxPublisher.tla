------------------------- MODULE MCOutboxPublisher -------------------------
(***************************************************************************)
(* Small instances of OutboxPublisher for TLC.  e1 is the oldest event;    *)
(* the others were created at the same moment.                             *)
(***************************************************************************)
EXTENDS OutboxPublisher

CONSTANTS e1

OldestFirst == [e \in Events |-> IF e = e1 THEN 1 ELSE 2]
=============================================================================
