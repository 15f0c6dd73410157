----------------------------- MODULE CardSystem -----------------------------
(***************************************************************************)
(* card-issuer and card-processor together.  They share no memory and make *)
(* no calls to each other: the intake commits a request with its outbox    *)
(* event, the publisher turns events into messages, the processors turn    *)
(* messages into cards.  Each table and each topic is one variable here,   *)
(* and the steps where two components meet are joint actions.              *)
(***************************************************************************)
EXTENDS CardDomain, Integers, Sequences, FiniteSets

CONSTANTS
    Posts,                \* posts to /cards/issue; a post is its requestId
    Documents,            \* document numbers
    Instances,            \* instances of card-issuer
    ServedBy,             \* the instance a post is sent to
    CreatedAt,            \* created_at of a post's event
    Polls,                \* bound: polls of one instance at once
    BatchSize,            \* OUTBOX_BATCH_SIZE
    Processors,           \* instances of card-processor
    Partitions,           \* of io.card.requested.v1
    PartitionOf,          \* the partition of a requestId
    ForceError,           \* posts with forceError
    MAX_RETRIES,          \* RETRY_DELAYS_MS.length
    SessionExpiry,        \* may a partition be handed over during its handler?
    FreshGroup,           \* has card-processor's group never committed an offset?
    NoPost, NoDocument, NoOwner,
    MaxErrors,            \* bound: rejected awaits in card-issuer
    MaxCrashes,           \* bound: crashes of card-issuer
    MaxProcessorErrors,   \* bound: rejected awaits in card-processor
    MaxProcessorCrashes,  \* bound: crashes of card-processor
    MaxFailures,          \* bound: all of these together
    MaxRebalances         \* bound: partitions taken from a live processor

ASSUME ServedByAssumption == ServedBy \in [Posts -> Instances]

ASSUME SystemAssumption ==
    /\ IsFiniteSet(Posts) /\ IsFiniteSet(Instances) /\ IsFiniteSet(Processors)
    /\ CreatedAt \in [Posts -> Nat]
    /\ PartitionOf \in [Posts -> Partitions]
    /\ ForceError \subseteq Posts
    /\ NoPost \notin Posts /\ NoDocument \notin Documents /\ NoOwner \notin Processors

ASSUME SystemModeAssumption == SessionExpiry \in BOOLEAN /\ FreshGroup \in BOOLEAN

ASSUME SystemBoundsAssumption ==
    /\ BatchSize \in Nat \ {0}
    /\ MAX_RETRIES \in Nat
    /\ MaxErrors \in Nat /\ MaxCrashes \in Nat
    /\ MaxProcessorErrors \in Nat /\ MaxProcessorCrashes \in Nat /\ MaxRebalances \in Nat
    /\ MaxFailures \in Nat

VARIABLES
    \* PostgreSQL: card_requests by its two unique keys, and the rest
    requestOf, status, row, attempts, cards, processed,
    \* Kafka
    topic, committed, owner, position, issuedTopic, dlqTopic,
    \* card-issuer: handlers of posts, polls of the outbox
    document, post, answer, isPublishing, step, batch, errors, crashes,
    \* card-processor and the external issuer
    pc, cur, attempt, calls, approvals, faults

intake_vars == <<requestOf, document, post, answer>>
outbox_vars == <<row, attempts, isPublishing, step, batch>>
issuer_faults == <<errors, crashes>>
processor_vars == <<status, cards, processed, topic, committed, owner, position,
                    issuedTopic, dlqTopic, pc, cur, attempt, calls, approvals, faults>>

vars == <<intake_vars, outbox_vars, issuer_faults, processor_vars>>

-----------------------------------------------------------------------------
(* The components.  What two of them look at is given to both: the events   *)
(* the intake wrote are the rows the publisher has, and what the publisher  *)
(* sent is what the topic holds.  SessionExpiry and FreshGroup are those of *)
(* CardProcessor: with the second the group starts behind what was          *)
(* published before it came.  Producers and processes start and stop in the *)
(* components' own modules; here a producer is connected.                   *)

Processor == INSTANCE CardProcessor WITH
    Requests <- Posts,
    Orphans <- {},
    NoRequest <- NoPost,
    MaxCopies <- Cardinality(Instances) + MaxErrors + MaxCrashes,
    MaxErrors <- MaxProcessorErrors,
    MaxCrashes <- MaxProcessorCrashes

Intake == INSTANCE IssueCard WITH
    pc <- post,
    outbox <- {p \in Posts : row[p] # NoRow}

Publisher == INSTANCE OutboxPublisher WITH
    Events <- Posts,
    Unpublishable <- {},
    MaxAttempts <- 0,
    MaxEnds <- MaxCrashes,
    starting <- {},
    stopping <- {},
    ends <- crashes,
    sent <- [p \in Posts |-> Processor!Copies(p)]

Init == Processor!Init /\ Publisher!Init /\ Intake!Init

(* The bound on all failures, of every action that may count one. *)
FailuresBounded ==
    (errors + crashes + faults["error"] + faults["crash"])' <= MaxFailures

-----------------------------------------------------------------------------
(* card-issuer *)

(* What a post's handler does, its transaction apart. *)
Handle(p) ==
    /\ UNCHANGED <<processor_vars, outbox_vars>>
    /\ \/ \E d \in Documents : Intake!Arrive(p, d)
       \/ Intake!FindByDocumentNumber(p)
       \/ Intake!CreateConflicts(p)
       \/ Intake!AwaitRejects(p)
    /\ FailuresBounded

(* Mutated form of Store: two transactions, the event's first. *)
StoreEventFirst(p) ==
    /\ post[p] = "create"
    /\ IF row[p] = NoRow
       THEN /\ UNCHANGED <<processor_vars, intake_vars, issuer_faults>>
            /\ Publisher!Insert(p)
       ELSE /\ status' = [status EXCEPT ![p] = "PENDING"]
            /\ requestOf' = [requestOf EXCEPT ![document[p]] = p]
            /\ post' = [post EXCEPT ![p] = "done"]
            /\ answer' = [answer EXCEPT ![p] = 202]
            /\ UNCHANGED <<document, outbox_vars, issuer_faults, cards, processed, topic,
                           committed, owner, position, issuedTopic, dlqTopic, pc, cur,
                           attempt, calls, approvals, faults>>

(* The transaction of the intake: the row and its event appear together. *)
Store(p) ==
    /\ status' = [status EXCEPT ![p] = "PENDING"]
    /\ UNCHANGED <<cards, processed, topic, committed, owner, position, issuedTopic,
                   dlqTopic, pc, cur, attempt, calls, approvals, faults>>
    /\ row' = [row EXCEPT ![p] = "PENDING"]
    /\ UNCHANGED <<attempts, isPublishing, step, batch>>
    /\ Intake!CreateWithOutboxEvent(p)
    /\ FailuresBounded

(* What a poll of the outbox does, its publish apart. *)
Poll(i, s) ==
    /\ UNCHANGED <<processor_vars, intake_vars>>
    /\ \/ Publisher!Find(i, s)
       \/ Publisher!MarkAsPublished(i, s)
       \/ Publisher!MarkFails(i, s)
       \/ Publisher!IncrementAttempts(i, s)
       \/ Publisher!IncrementFails(i, s)
    /\ FailuresBounded

Tick(i, s) ==
    /\ UNCHANGED <<processor_vars, intake_vars>>
    /\ Publisher!Tick(i, s)

(* A publish puts the event on the partition of its key, or nothing. *)
Publish(i, s) ==
    /\ step[i][s] = "publish"
    /\ LET p == Publisher!Current(i, s) IN
       \/ UNCHANGED topic
       \/ topic' = [topic EXCEPT ![PartitionOf[p]] = Append(@, p)]
    /\ UNCHANGED <<intake_vars, status, cards, processed, committed, owner, position,
                   issuedTopic, dlqTopic, pc, cur, attempt, calls, approvals, faults>>
    /\ Publisher!Publish(i, s) \/ Publisher!PublishFails(i, s)
    /\ FailuresBounded

(* An instance dies with its posts and its polls. *)
IssuerCrash(i) ==
    /\ UNCHANGED processor_vars
    /\ Publisher!Crash(i)
    /\ Intake!Crash({p \in Intake!UnderWay : ServedBy[p] = i})
    /\ FailuresBounded

-----------------------------------------------------------------------------
(* card-processor *)

Consume(i) ==
    /\ UNCHANGED <<intake_vars, outbox_vars, issuer_faults>>
    /\ \/ Processor!Execute(i)
       \/ Processor!AwaitRejects(i)
       \/ Processor!Crash(i)
       \/ \E p \in Partitions : Processor!Group(i, p)
    /\ FailuresBounded

Next ==
    \/ \E p \in Posts : Handle(p) \/ Store(p)
    \/ \E i \in Instances, s \in Polls : Tick(i, s) \/ Poll(i, s) \/ Publish(i, s)
    \/ \E i \in Instances : IssuerCrash(i)
    \/ \E i \in Processors : Consume(i)

Spec == Init /\ [][Next]_vars

(* The fairness of the components: polls and timers of the outbox, the     *)
(* consumers and their handlers.  None is assumed of clients or of the     *)
(* handlers of their posts.                                                 *)
Fairness ==
    /\ \A i \in Instances, s \in Polls : WF_vars(Poll(i, s) \/ Publish(i, s))
    /\ \A i \in Instances : WF_vars(\E s \in Polls : Tick(i, s))
    /\ Processor!Fairness

FairSpec == Spec /\ Fairness

-----------------------------------------------------------------------------
(* Properties *)

(* To the processors, the intake and the outbox are the environment         *)
(* CardProcessor assumes: rows appear once, in PENDING, no event precedes   *)
(* the commit of its row, and an event is published once for each instance  *)
(* and each failure of card-issuer at most.  What is proved of CardProcessor *)
(* holds of the whole system.                                               *)
ProcessorSpec == Processor!Spec

(* Over all posts for a document, retries of clients that got no answer and *)
(* races between their handlers included, and however often an event is     *)
(* published and delivered, the external issuer grants one card, one is     *)
(* stored, and one is announced: none twice for a request, and none for a   *)
(* second request.  That is so while no partition is handed over during its *)
(* handler (SessionExpiry FALSE).                                           *)
OneCardPerDocument ==
    \A p \in Posts :
        /\ approvals[p] <= 1 /\ issuedTopic[p] <= 1
        /\ approvals[p] > 0 \/ p \in cards \/ issuedTopic[p] > 0 =>
               \A q \in Posts \ {p} : document[q] = document[p] =>
                   approvals[q] = 0 /\ q \notin cards /\ issuedTopic[q] = 0

(* A request still PENDING is always under way: its event waits in the      *)
(* outbox, or ahead of the consumers on the topic, or in a handler.  Each   *)
(* failure of a processor costs one such request at most, no failure of     *)
(* card-issuer costs any, and no hand-over between the three, provided the  *)
(* group has committed an offset before (FreshGroup FALSE: a new group      *)
(* passes over what was published before it came) and no partition moves    *)
(* during its handler (SessionExpiry FALSE).                                *)
UnderWay(p) ==
    \/ row[p] = "PENDING"
    \/ Processor!WorkedOn(p)
    \/ \E k \in DOMAIN topic[PartitionOf[p]] :
           topic[PartitionOf[p]][k] = p /\ k >= position[PartitionOf[p]]

PendingIsUnderWay ==
    Cardinality({p \in Posts : status[p] = "PENDING" /\ ~UnderWay(p)})
        <= faults["error"] + faults["crash"]

(* From the commit of a request to its outcome: in the end all requests     *)
(* stored are published, delivered and ended, but for one at most for each  *)
(* rejected await and each crash of a processor.  No failure of card-issuer *)
(* loses a request.  The modes are those of PendingIsUnderWay.              *)
EveryStoredRequestSettles ==
    <>[](Cardinality({p \in Posts : status[p] # NoRow /\ ~Processor!Settled(p)})
             <= faults["error"] + faults["crash"])
=============================================================================
