----------------------------- MODULE CardDomain -----------------------------
(***************************************************************************)
(* The vocabulary libs/card-domain and prisma/schema.prisma give both      *)
(* services: the states of a card request and of an outbox event.          *)
(***************************************************************************)

CardRequestStatus == {"PENDING", "PROCESSING", "ISSUED", "FAILED"}

OutboxEventStatus == {"PENDING", "PUBLISHED"}

(***************************************************************************)
(* What a unique column holds for a key: one of the statuses, or no row at *)
(* all (findUnique answers null).                                          *)
(***************************************************************************)
NoRow == "NONE"

CardRequestRow == CardRequestStatus \cup {NoRow}

OutboxEventRow == OutboxEventStatus \cup {NoRow}

Terminal == {"ISSUED", "FAILED"}
=============================================================================
