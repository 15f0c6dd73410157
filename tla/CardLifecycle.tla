--------------------------- MODULE CardLifecycle ---------------------------
(***************************************************************************)
(* What the service promises about a request, whoever runs it: it is       *)
(* accepted, worked on once, and ends with one card that the external      *)
(* issuer granted once, or with no card after Limit refusals.  The outcome *)
(* is told once at most, on the topic that belongs to it.                  *)
(***************************************************************************)
EXTENDS CardDomain, Integers

CONSTANTS
    Requests,
    Limit       \* calls to the external issuer a request is worth

VARIABLES status, cards, calls, approvals, issuedTopic, dlqTopic

vars == <<status, cards, calls, approvals, issuedTopic, dlqTopic>>

Init ==
    /\ status = [r \in Requests |-> NoRow]
    /\ cards = {}
    /\ calls = [r \in Requests |-> 0]
    /\ approvals = [r \in Requests |-> 0]
    /\ issuedTopic = [r \in Requests |-> 0]
    /\ dlqTopic = [r \in Requests |-> 0]

Moves(r, from, to) ==
    /\ status[r] = from
    /\ status' = [status EXCEPT ![r] = to]

Accepted(r) ==
    /\ Moves(r, NoRow, "PENDING")
    /\ UNCHANGED <<cards, calls, approvals, issuedTopic, dlqTopic>>

Started(r) ==
    /\ Moves(r, "PENDING", "PROCESSING")
    /\ UNCHANGED <<cards, calls, approvals, issuedTopic, dlqTopic>>

Asked(r) ==
    /\ status[r] = "PROCESSING"
    /\ approvals[r] = 0
    /\ calls[r] < Limit
    /\ calls' = [calls EXCEPT ![r] = @ + 1]
    /\ UNCHANGED <<status, cards, issuedTopic, dlqTopic>>

Granted(r) == Asked(r) /\ approvals' = [approvals EXCEPT ![r] = @ + 1]

Refused(r) == Asked(r) /\ UNCHANGED approvals

Issued(r) ==
    /\ Moves(r, "PROCESSING", "ISSUED")
    /\ approvals[r] = 1
    /\ r \notin cards
    /\ cards' = cards \cup {r}
    /\ UNCHANGED <<calls, approvals, issuedTopic, dlqTopic>>

GivenUp(r) ==
    /\ Moves(r, "PROCESSING", "FAILED")
    /\ approvals[r] = 0
    /\ calls[r] = Limit
    /\ UNCHANGED <<cards, calls, approvals, issuedTopic, dlqTopic>>

Announced(r) ==
    /\ status[r] = "ISSUED"
    /\ issuedTopic[r] = 0
    /\ issuedTopic' = [issuedTopic EXCEPT ![r] = 1]
    /\ UNCHANGED <<status, cards, calls, approvals, dlqTopic>>

DeadLettered(r) ==
    /\ status[r] = "FAILED"
    /\ dlqTopic[r] = 0
    /\ dlqTopic' = [dlqTopic EXCEPT ![r] = 1]
    /\ UNCHANGED <<status, cards, calls, approvals, issuedTopic>>

Next ==
    \E r \in Requests :
        \/ Accepted(r)
        \/ Started(r)
        \/ Granted(r)
        \/ Refused(r)
        \/ Issued(r)
        \/ GivenUp(r)
        \/ Announced(r)
        \/ DeadLettered(r)

Spec == Init /\ [][Next]_vars
=============================================================================
