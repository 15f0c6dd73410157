--------------------------- MODULE CardProcessor ---------------------------
(***************************************************************************)
(* apps/card-processor: the consumers of io.card.requested.v1 and the use  *)
(* case that turns one event into one card or one dead letter.             *)
(*                                                                         *)
(* An action is what a processor does between two awaits of                *)
(* ProcessCardRequestUseCase.execute.  Around it stand the rows of         *)
(* PostgreSQL, the partitions of the topic with the offsets of the         *)
(* consumer group, and the external card issuer.  What may go wrong is     *)
(* explicit and budgeted: an await that rejects (before or after the call  *)
(* took effect), a crash, a partition handed to another processor.         *)
(*                                                                         *)
(* An event is known by its requestId: the envelope's source is the        *)
(* requestId and its id counts the events of that source, of which there   *)
(* is one (libs/shared/src/event-factory.ts).                              *)
(***************************************************************************)
EXTENDS CardDomain, Integers, Sequences, FiniteSets

CONSTANTS
    Requests,       \* requestIds
    Processors,     \* instances of card-processor, one consumer each
    Partitions,     \* of the topic io.card.requested.v1
    PartitionOf,    \* the partition of a request: events are keyed by it
    ForceError,     \* requests created with forceError
    Orphans,        \* requestIds of events that have no row
    MAX_RETRIES,    \* RETRY_DELAYS_MS.length
    SessionExpiry,  \* may a partition be handed over during its handler?
    FreshGroup,     \* has the group never committed an offset?
    NoRequest,      \* no event in hand
    NoOwner,        \* a partition nobody owns
    MaxCopies,      \* bound: times an event is put on the topic
    MaxCrashes,     \* bound: crashes
    MaxErrors,      \* bound: rejected awaits
    MaxRebalances   \* bound: partitions taken from a live processor

ASSUME PartitionsAssumption ==
    /\ PartitionOf \in [Requests -> Partitions]
    /\ ForceError \subseteq Requests
    /\ Orphans \subseteq Requests

ASSUME NothingAssumption ==
    /\ NoRequest \notin Requests
    /\ NoOwner \notin Processors

ASSUME FiniteAssumption == IsFiniteSet(Requests) /\ IsFiniteSet(Processors)

ASSUME ModeAssumption ==
    /\ SessionExpiry \in BOOLEAN
    /\ FreshGroup \in BOOLEAN

ASSUME BoundsAssumption ==
    /\ MAX_RETRIES \in Nat
    /\ MaxCopies \in Nat
    /\ MaxCrashes \in Nat
    /\ MaxErrors \in Nat
    /\ MaxRebalances \in Nat

VARIABLES
    \* PostgreSQL
    status,       \* card_requests.status, by request_id
    cards,        \* cards.request_id, unique
    processed,    \* processed_events, unique (event_id, event_source)
    \* Kafka
    topic,        \* io.card.requested.v1: what each partition holds
    committed,    \* the group's committed offset, 0 while there is none
    owner,        \* the processor a partition is assigned to
    position,     \* the next offset its owner reads
    issuedTopic,  \* publish calls that put a request on io.cards.issued.v1
    dlqTopic,     \* the same for io.card.requested.v1.dlq
    \* processors
    pc,           \* the await a processor stands at
    cur,          \* the request of the event in its hands
    attempt,      \* RetryPolicy's loop counter
    \* the external card issuer's own books
    calls,        \* calls it got for a request
    approvals,    \* calls it answered with a card
    \* faults that happened
    faults

db_vars == <<status, cards, processed>>
log_vars == <<topic, committed, owner>>
out_vars == <<issuedTopic, dlqTopic>>
handler_vars == <<pc, cur, attempt, position>>
issuer_vars == <<calls, approvals>>

vars == <<db_vars, log_vars, out_vars, handler_vars, issuer_vars, faults>>

-----------------------------------------------------------------------------
(* The steps of execute at which a processor can stand. *)

(* Awaits on PostgreSQL or Kafka: they can reject. *)
RemoteSteps == {"wasProcessed", "findRequest", "markProcessing", "markIssued",
                "publishIssued", "markFailed", "publishDlq", "markProcessed"}

Steps == RemoteSteps \cup {"idle", "issueCard", "backoff"}

FaultKinds == {"crash", "error", "rebalance"}

Budget == [crash |-> MaxCrashes, error |-> MaxErrors, rebalance |-> MaxRebalances]

Spend(kind) ==
    /\ faults[kind] < Budget[kind]
    /\ faults' = [faults EXCEPT ![kind] = @ + 1]

Copies(r) == Cardinality({k \in DOMAIN topic[PartitionOf[r]] : topic[PartitionOf[r]][k] = r})

Goto(i, step) == pc' = [pc EXCEPT ![i] = step]

(* Mutated form of EndDelivery: the consumer stays at the message. *)
EndDeliveryInPlace(i) ==
    /\ Goto(i, "idle")
    /\ cur' = [cur EXCEPT ![i] = NoRequest]
    /\ attempt' = [attempt EXCEPT ![i] = 0]
    /\ UNCHANGED position

(* CardRequestedConsumer and KafkaConsumerService both swallow what the use *)
(* case throws, so however a handler ends the consumer moves past its       *)
(* message, provided the partition is still its own.  The use case is not   *)
(* reached by a message without a value or one that is no JSON: the outbox, *)
(* which alone writes the topic, sends none.                                *)
EndDelivery(i) ==
    /\ Goto(i, "idle")
    /\ cur' = [cur EXCEPT ![i] = NoRequest]
    /\ attempt' = [attempt EXCEPT ![i] = 0]
    /\ position' = IF owner[PartitionOf[cur[i]]] = i
                   THEN [position EXCEPT ![PartitionOf[cur[i]]] = @ + 1]
                   ELSE position

(* A call that took effect either returns, or its answer is lost and the   *)
(* await rejects all the same.                                              *)
ReturnsOrRejects(i, next) ==
    \/ /\ Goto(i, next)
       /\ UNCHANGED <<cur, attempt, position, faults>>
    \/ /\ Spend("error")
       /\ EndDelivery(i)

-----------------------------------------------------------------------------

Init ==
    /\ status = [r \in Requests |-> NoRow]
    /\ cards = {}
    /\ processed = {}
    /\ topic = [p \in Partitions |-> <<>>]
    /\ committed = [p \in Partitions |-> IF FreshGroup THEN 0 ELSE 1]
    /\ owner = [p \in Partitions |-> NoOwner]
    /\ position = [p \in Partitions |-> 1]
    /\ issuedTopic = [r \in Requests |-> 0]
    /\ dlqTopic = [r \in Requests |-> 0]
    /\ pc = [i \in Processors |-> "idle"]
    /\ cur = [i \in Processors |-> NoRequest]
    /\ attempt = [i \in Processors |-> 0]
    /\ calls = [r \in Requests |-> 0]
    /\ approvals = [r \in Requests |-> 0]
    /\ faults = [kind \in FaultKinds |-> 0]

-----------------------------------------------------------------------------
(* card-issuer, as far as a processor can tell: rows appear in PENDING, and *)
(* the outbox puts their event on the topic at least once.                  *)

Accept(r) ==
    /\ r \notin Orphans
    /\ status[r] = NoRow
    /\ status' = [status EXCEPT ![r] = "PENDING"]
    /\ UNCHANGED <<cards, processed, log_vars, out_vars, handler_vars,
                   issuer_vars, faults>>

Produce(r) ==
    /\ r \in Orphans \/ status[r] # NoRow
    /\ Copies(r) < MaxCopies
    /\ topic' = [topic EXCEPT ![PartitionOf[r]] = Append(@, r)]
    /\ UNCHANGED <<db_vars, committed, owner, out_vars, handler_vars,
                   issuer_vars, faults>>

-----------------------------------------------------------------------------
(* The consumer group. *)

(* Mutated form of StartOffset: the committed offset is not asked for. *)
StartAtEnd(p) == Len(topic[p]) + 1

(* subscribe(fromBeginning: false): without a committed offset a consumer  *)
(* starts at the end of the partition.                                     *)
StartOffset(p) == IF committed[p] = 0 THEN Len(topic[p]) + 1 ELSE committed[p]

HandlerRunsOn(p) == \E i \in Processors : pc[i] # "idle" /\ PartitionOf[cur[i]] = p

(* A rebalance waits for running handlers, unless a member's session       *)
(* expires while its handler is blocked or cut off.                        *)
Assign(i, p) ==
    /\ pc[i] = "idle"
    /\ owner[p] # i
    /\ SessionExpiry \/ ~HandlerRunsOn(p)
    /\ IF owner[p] = NoOwner THEN UNCHANGED faults ELSE Spend("rebalance")
    /\ owner' = [owner EXCEPT ![p] = i]
    /\ position' = [position EXCEPT ![p] = StartOffset(p)]
    /\ UNCHANGED <<db_vars, topic, committed, out_vars, pc, cur, attempt, issuer_vars>>

(* kafkajs commits between messages, now and then. *)
Commit(i, p) ==
    /\ pc[i] = "idle"
    /\ owner[p] = i
    /\ committed[p] # position[p]
    /\ committed' = [committed EXCEPT ![p] = position[p]]
    /\ UNCHANGED <<db_vars, topic, owner, out_vars, handler_vars, issuer_vars, faults>>

(* eachMessage: one message at a time. *)
Deliver(i, p) ==
    /\ pc[i] = "idle"
    /\ owner[p] = i
    /\ position[p] <= Len(topic[p])
    /\ cur' = [cur EXCEPT ![i] = topic[p][position[p]]]
    /\ Goto(i, "wasProcessed")
    /\ UNCHANGED <<db_vars, log_vars, out_vars, attempt, position, issuer_vars, faults>>

-----------------------------------------------------------------------------
(* ProcessCardRequestUseCase.execute *)

WasProcessed(i) ==
    /\ pc[i] = "wasProcessed"
    /\ IF cur[i] \in processed
       THEN EndDelivery(i)
       ELSE Goto(i, "findRequest") /\ UNCHANGED <<cur, attempt, position>>
    /\ UNCHANGED <<db_vars, log_vars, out_vars, issuer_vars, faults>>

(* Mutated form of FindRequest: a request found in PROCESSING is taken up   *)
(* again.                                                                   *)
FindRequestResuming(i) ==
    /\ pc[i] = "findRequest"
    /\ Goto(i, IF status[cur[i]] \in {"PENDING", "PROCESSING"}
               THEN "markProcessing" ELSE "markProcessed")
    /\ UNCHANGED <<db_vars, log_vars, out_vars, cur, attempt, position, issuer_vars, faults>>

(* No row, or one that is no longer PENDING: the event is only marked. *)
FindRequest(i) ==
    /\ pc[i] = "findRequest"
    /\ Goto(i, IF status[cur[i]] = "PENDING" THEN "markProcessing" ELSE "markProcessed")
    /\ UNCHANGED <<db_vars, log_vars, out_vars, cur, attempt, position, issuer_vars, faults>>

(* The update does not ask what the status is by now. *)
MarkProcessing(i) ==
    /\ pc[i] = "markProcessing"
    /\ status' = [status EXCEPT ![cur[i]] = "PROCESSING"]
    /\ \/ /\ Goto(i, "issueCard")
          /\ attempt' = [attempt EXCEPT ![i] = 1]
          /\ UNCHANGED <<cur, position, faults>>
       \/ /\ Spend("error")
          /\ EndDelivery(i)
    /\ UNCHANGED <<cards, processed, log_vars, out_vars, issuer_vars>>

(* The simulated issuer rejects forceError always and the rest at random. *)
IssueSucceeds(i) ==
    /\ pc[i] = "issueCard"
    /\ cur[i] \notin ForceError
    /\ calls' = [calls EXCEPT ![cur[i]] = @ + 1]
    /\ approvals' = [approvals EXCEPT ![cur[i]] = @ + 1]
    /\ Goto(i, "markIssued")
    /\ UNCHANGED <<db_vars, log_vars, out_vars, cur, attempt, position, faults>>

(* Mutated forms of IssueFails: one attempt too many, one too few. *)
IssueFailsOnceMore(i) ==
    /\ pc[i] = "issueCard"
    /\ calls' = [calls EXCEPT ![cur[i]] = @ + 1]
    /\ Goto(i, IF attempt[i] = MAX_RETRIES + 2 THEN "markFailed" ELSE "backoff")
    /\ UNCHANGED <<db_vars, log_vars, out_vars, cur, attempt, position, approvals, faults>>

IssueFailsTooSoon(i) ==
    /\ pc[i] = "issueCard"
    /\ calls' = [calls EXCEPT ![cur[i]] = @ + 1]
    /\ Goto(i, IF attempt[i] = MAX_RETRIES THEN "markFailed" ELSE "backoff")
    /\ UNCHANGED <<db_vars, log_vars, out_vars, cur, attempt, position, approvals, faults>>

IssueFails(i) ==
    /\ pc[i] = "issueCard"
    /\ calls' = [calls EXCEPT ![cur[i]] = @ + 1]
    /\ Goto(i, IF attempt[i] = MAX_RETRIES + 1 THEN "markFailed" ELSE "backoff")
    /\ UNCHANGED <<db_vars, log_vars, out_vars, cur, attempt, position, approvals, faults>>

Backoff(i) ==
    /\ pc[i] = "backoff"
    /\ attempt' = [attempt EXCEPT ![i] = @ + 1]
    /\ Goto(i, "issueCard")
    /\ UNCHANGED <<db_vars, log_vars, out_vars, cur, position, issuer_vars, faults>>

(* Mutated form of MarkIssued: two writes, and the second can fail alone. *)
MarkIssuedInTwoWrites(i) ==
    /\ pc[i] = "markIssued"
    /\ status' = [status EXCEPT ![cur[i]] = "ISSUED"]
    /\ \/ /\ cur[i] \notin cards
          /\ cards' = cards \cup {cur[i]}
          /\ ReturnsOrRejects(i, "publishIssued")
       \/ /\ Spend("error")
          /\ EndDelivery(i)
          /\ UNCHANGED cards
    /\ UNCHANGED <<processed, log_vars, out_vars, issuer_vars>>

(* Mutated form of MarkIssued: P2002 is taken for success, the way          *)
(* PrismaProcessedEventRepository takes it.                                 *)
MarkIssuedIgnoringConflict(i) ==
    /\ pc[i] = "markIssued"
    /\ status' = [status EXCEPT ![cur[i]] = "ISSUED"]
    /\ cards' = cards \cup {cur[i]}
    /\ ReturnsOrRejects(i, "publishIssued")
    /\ UNCHANGED <<processed, log_vars, out_vars, issuer_vars>>

(* One transaction: the unique requestId of cards rolls the update back. *)
MarkIssued(i) ==
    /\ pc[i] = "markIssued"
    /\ \/ /\ cur[i] \notin cards
          /\ status' = [status EXCEPT ![cur[i]] = "ISSUED"]
          /\ cards' = cards \cup {cur[i]}
          /\ ReturnsOrRejects(i, "publishIssued")
       \/ /\ cur[i] \in cards
          /\ EndDelivery(i)
          /\ UNCHANGED <<status, cards, faults>>
    /\ UNCHANGED <<processed, log_vars, out_vars, issuer_vars>>

PublishIssued(i) ==
    /\ pc[i] = "publishIssued"
    /\ issuedTopic' = [issuedTopic EXCEPT ![cur[i]] = @ + 1]
    /\ ReturnsOrRejects(i, "markProcessed")
    /\ UNCHANGED <<db_vars, log_vars, dlqTopic, issuer_vars>>

(* This update asks nothing either. *)
MarkFailed(i) ==
    /\ pc[i] = "markFailed"
    /\ status' = [status EXCEPT ![cur[i]] = "FAILED"]
    /\ ReturnsOrRejects(i, "publishDlq")
    /\ UNCHANGED <<cards, processed, log_vars, out_vars, issuer_vars>>

PublishDlq(i) ==
    /\ pc[i] = "publishDlq"
    /\ dlqTopic' = [dlqTopic EXCEPT ![cur[i]] = @ + 1]
    /\ ReturnsOrRejects(i, "markProcessed")
    /\ UNCHANGED <<db_vars, log_vars, issuedTopic, issuer_vars>>

(* The last step of execute and of its two early ends.  A row that is there *)
(* already (P2002) is no error.  The delivery ends whether the answer comes *)
(* or is lost.                                                              *)
MarkProcessed(i) ==
    /\ pc[i] = "markProcessed"
    /\ processed' = processed \cup {cur[i]}
    /\ EndDelivery(i)
    /\ UNCHANGED faults \/ Spend("error")
    /\ UNCHANGED <<status, cards, log_vars, out_vars, issuer_vars>>

(* Mutated forms of AwaitRejects: the event is recorded whatever happened;  *)
(* the request is handed back for another try.                              *)
AwaitRejectsRecording(i) ==
    /\ pc[i] \in RemoteSteps
    /\ Spend("error")
    /\ EndDelivery(i)
    /\ processed' = processed \cup {cur[i]}
    /\ UNCHANGED <<status, cards, log_vars, out_vars, issuer_vars>>

AwaitRejectsResetting(i) ==
    /\ pc[i] \in RemoteSteps
    /\ Spend("error")
    /\ EndDelivery(i)
    /\ status' = [status EXCEPT ![cur[i]] = IF @ = "PROCESSING" THEN "PENDING" ELSE @]
    /\ UNCHANGED <<cards, processed, log_vars, out_vars, issuer_vars>>

(* The call an await stands for never takes effect. *)
AwaitRejects(i) ==
    /\ pc[i] \in RemoteSteps
    /\ Spend("error")
    /\ EndDelivery(i)
    /\ UNCHANGED <<db_vars, log_vars, out_vars, issuer_vars>>

(* The process dies and restarts with an empty memory; its partitions are  *)
(* given up by the group.                                                  *)
Crash(i) ==
    /\ Spend("crash")
    /\ Goto(i, "idle")
    /\ cur' = [cur EXCEPT ![i] = NoRequest]
    /\ attempt' = [attempt EXCEPT ![i] = 0]
    /\ owner' = [p \in Partitions |-> IF owner[p] = i THEN NoOwner ELSE owner[p]]
    /\ UNCHANGED <<db_vars, topic, committed, out_vars, position, issuer_vars>>

-----------------------------------------------------------------------------

Environment(r) == Accept(r) \/ Produce(r)

Group(i, p) == Assign(i, p) \/ Commit(i, p) \/ Deliver(i, p)

Execute(i) ==
    \/ WasProcessed(i)
    \/ FindRequest(i)
    \/ MarkProcessing(i)
    \/ IssueSucceeds(i)
    \/ IssueFails(i)
    \/ Backoff(i)
    \/ MarkIssued(i)
    \/ PublishIssued(i)
    \/ MarkFailed(i)
    \/ PublishDlq(i)
    \/ MarkProcessed(i)

Next ==
    \/ \E r \in Requests : Environment(r)
    \/ \E i \in Processors, p \in Partitions : Group(i, p)
    \/ \E i \in Processors : Execute(i) \/ AwaitRejects(i) \/ Crash(i)

Spec == Init /\ [][Next]_vars

(* Promises settle, a consumer polls, the group assigns what nobody owns.   *)
(* Nothing obliges a client to ask, the outbox to publish, or kafkajs to    *)
(* commit at a given time.                                                  *)
Fairness ==
    /\ \A i \in Processors : WF_vars(Execute(i))
    /\ \A i \in Processors : WF_vars(\E p \in Partitions : Deliver(i, p))
    /\ \A p \in Partitions : WF_vars(owner[p] = NoOwner /\ \E i \in Processors : Assign(i, p))

FairSpec == Spec /\ Fairness

-----------------------------------------------------------------------------
(* Properties *)

(* Every variable holds a value of its type; in particular no handler ever  *)
(* starts an attempt past MAX_RETRIES + 1.                                   *)
TypeOK ==
    /\ status \in [Requests -> CardRequestRow]
    /\ cards \subseteq Requests
    /\ processed \subseteq Requests
    /\ topic \in [Partitions -> Seq(Requests)]
    /\ committed \in [Partitions -> Nat]
    /\ owner \in [Partitions -> Processors \cup {NoOwner}]
    /\ position \in [Partitions -> Nat \ {0}]
    /\ issuedTopic \in [Requests -> Nat]
    /\ dlqTopic \in [Requests -> Nat]
    /\ pc \in [Processors -> Steps]
    /\ cur \in [Processors -> Requests \cup {NoRequest}]
    /\ \A i \in Processors : cur[i] = NoRequest <=> pc[i] = "idle"
    /\ attempt \in [Processors -> 0 .. MAX_RETRIES + 1]
    /\ calls \in [Requests -> Nat]
    /\ approvals \in [Requests -> Nat]
    /\ faults \in [FaultKinds -> Nat]

(* However often its event is delivered, and whatever crashes or fails in   *)
(* between, the external issuer grants a request one card at most: the      *)
(* claim of the README that a redelivered event is not processed again.     *)
AtMostOneApproval == \A r \in Requests : approvals[r] <= 1

(* What the tables, the topics and the issuer's books say of a request      *)
(* agrees.  A card is there exactly for an ISSUED request, was granted       *)
(* once, and is announced once at most; a dead letter is written once at    *)
(* most, for a FAILED request, which never got a card and was asked for     *)
(* exactly MAX_RETRIES + 1 times over all its deliveries.                    *)
OutcomeAgrees(r) ==
    /\ r \in cards <=> status[r] = "ISSUED"
    /\ status[r] = "ISSUED" => approvals[r] = 1
    /\ status[r] = "FAILED" => approvals[r] = 0 /\ calls[r] = MAX_RETRIES + 1
    /\ issuedTopic[r] > 0 => status[r] = "ISSUED" /\ issuedTopic[r] = 1
    /\ dlqTopic[r] > 0 => status[r] = "FAILED" /\ dlqTopic[r] = 1
    /\ calls[r] <= MAX_RETRIES + 1

OneOutcome == \A r \in Requests : OutcomeAgrees(r)

(* An event recorded in processed_events is never that of a request still   *)
(* PENDING: the record would make every later delivery skip it.             *)
HandledNeverPending == \A r \in processed : status[r] # "PENDING"

(* Nobody works on the request, and no delivery to come will finish it.     *)
WorkedOn(r) == \E i \in Processors : cur[i] = r

Passed(r) ==
    LET p == PartitionOf[r] IN
    /\ \E k \in DOMAIN topic[p] : topic[p][k] = r
    /\ \A k \in DOMAIN topic[p] : topic[p][k] = r => k < position[p]

Stranded(r) ==
    /\ ~WorkedOn(r)
    /\ \/ status[r] = "PENDING" /\ Passed(r)
       \/ status[r] = "PROCESSING"
       \/ status[r] = "ISSUED" /\ issuedTopic[r] = 0
       \/ status[r] = "FAILED" /\ dlqTopic[r] = 0

(* What a failure costs: a rejected await or a crash leaves one request at  *)
(* most that nobody will finish, and a rebalance none.  Without a failure   *)
(* no request is left in the middle.                                        *)
EachFaultStrandsOneAtMost ==
    Cardinality({r \in Requests : Stranded(r)}) <= faults["error"] + faults["crash"]

(* A request ends announced, or dead-lettered; an orphan's event ends in    *)
(* processed_events.                                                        *)
Settled(r) ==
    \/ status[r] = "ISSUED" /\ issuedTopic[r] = 1
    \/ status[r] = "FAILED" /\ dlqTopic[r] = 1
    \/ r \in Orphans /\ r \in processed

(* In the end all events put on the topic are carried to their outcome, but *)
(* for one at most for each rejected await and each crash.  So no handler   *)
(* blocks a partition, neither redelivery nor a rebalance makes the group   *)
(* skip an event, and without a failure every event settles.                *)
EveryEventSettles ==
    <>[](Cardinality({r \in Requests : Copies(r) > 0 /\ ~Settled(r)})
             <= faults["error"] + faults["crash"])

(* The claim of the README on the dead letter topic: once its retries are   *)
(* used up a request is published there.                                    *)
FailedIsDeadLettered ==
    \A r \in Requests : status[r] = "FAILED" ~> dlqTopic[r] > 0

(* The claim of the README that Kafka is at least once: what is published   *)
(* reaches a handler.                                                       *)
PublishedIsDelivered ==
    \A r \in Requests : Copies(r) > 0 ~> (WorkedOn(r) \/ status[r] \notin {NoRow, "PENDING"})

(* Even when two processors work on one event, an issued or announced card  *)
(* is in the table, one in the table was granted by the issuer, and only    *)
(* the processor that created it announces it.                              *)
CardsAreBacked ==
    \A r \in Requests :
        /\ status[r] = "ISSUED" \/ issuedTopic[r] > 0 => r \in cards
        /\ r \in cards => approvals[r] > 0
        /\ issuedTopic[r] <= 1

(* Even then, what the issuer grants is bounded by the number of processors *)
(* and not by the number of deliveries: whoever approves had read PENDING   *)
(* before the first update.                                                 *)
ApprovalsBoundedByProcessors ==
    \A r \in Requests : approvals[r] <= Cardinality(Processors)

(* Without overlapping handlers the processor implements the life of a      *)
(* request that its users rely on.                                          *)
Lifecycle == INSTANCE CardLifecycle WITH Limit <- MAX_RETRIES + 1

LifecycleSpec == Lifecycle!Spec

-----------------------------------------------------------------------------
(* Why they hold: the parts of the inductive invariant. *)

(* Handlers stay within their attempts, and partitions hold their own keys. *)
AttemptInv ==
    \A i \in Processors :
        /\ pc[i] = "issueCard" => attempt[i] \in 1 .. MAX_RETRIES + 1
        /\ pc[i] = "backoff" => attempt[i] \in 1 .. MAX_RETRIES

TopicInv ==
    \A p \in Partitions : \A k \in DOMAIN topic[p] : PartitionOf[topic[p][k]] = p

(* Without session expiry a busy processor owns the partition of its event, *)
(* so no two are busy with the same request.                                *)
OwnerInv == \A i \in Processors : pc[i] # "idle" => owner[PartitionOf[cur[i]]] = i

(* What a handler knows at an await is still so: the status it read or      *)
(* wrote, and what the issuer's books and the topics hold at that point.    *)
HandlerKnows(i) ==
    /\ pc[i] = "markProcessing" => status[cur[i]] = "PENDING"
    /\ pc[i] \in {"issueCard", "backoff", "markIssued", "markFailed"} =>
           status[cur[i]] = "PROCESSING"
    /\ pc[i] \in {"issueCard", "backoff", "markFailed"} => approvals[cur[i]] = 0
    /\ pc[i] = "issueCard" => calls[cur[i]] = attempt[i] - 1
    /\ pc[i] = "backoff" => calls[cur[i]] = attempt[i]
    /\ pc[i] = "markFailed" => calls[cur[i]] = MAX_RETRIES + 1
    /\ pc[i] = "markIssued" => approvals[cur[i]] = 1
    /\ pc[i] = "publishIssued" => status[cur[i]] = "ISSUED" /\ issuedTopic[cur[i]] = 0
    /\ pc[i] = "publishDlq" => status[cur[i]] = "FAILED" /\ dlqTopic[cur[i]] = 0

PhaseInv == \A i \in Processors : HandlerKnows(i)

(* Nobody asks the issuer about a request before it is PROCESSING. *)
Untouched(r) == status[r] \in {NoRow, "PENDING"} => calls[r] = 0 /\ approvals[r] = 0

UntouchedInv == \A r \in Requests : Untouched(r)

Inv ==
    /\ TypeOK
    /\ AttemptInv
    /\ TopicInv
    /\ OwnerInv
    /\ PhaseInv
    /\ UntouchedInv
    /\ OneOutcome
    /\ AtMostOneApproval
=============================================================================
