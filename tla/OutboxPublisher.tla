-------------------------- MODULE OutboxPublisher --------------------------
(***************************************************************************)
(* apps/card-issuer/src/outbox: every instance of card-issuer polls        *)
(* outbox_events and puts the PENDING ones on Kafka, oldest first, a batch *)
(* at a time, marking each PUBLISHED once Kafka took it.                   *)
(*                                                                         *)
(* A timer starts polls without waiting for the last one, so a poll is a   *)
(* thread of its own; isPublishing is what keeps two of one instance       *)
(* apart.  Instances know nothing of each other: no row is locked.         *)
(***************************************************************************)
EXTENDS CardDomain, Integers, Sequences, FiniteSets, FiniteSetsExt

CONSTANTS
    Events,         \* ids of outbox_events
    CreatedAt,      \* their created_at
    Unpublishable,  \* events whose publish Kafka always refuses
    Instances,      \* instances of card-issuer
    Polls,          \* bound: polls of one instance that may run at once
    BatchSize,      \* OUTBOX_BATCH_SIZE
    MaxAttempts,    \* bound: where the count of attempts stops
    MaxEnds,        \* bound: crashes and SIGTERMs
    MaxErrors       \* bound: rejected awaits, refusals apart

ASSUME EventsAssumption ==
    /\ IsFiniteSet(Events)
    /\ CreatedAt \in [Events -> Nat]
    /\ Unpublishable \subseteq Events

ASSUME InstancesAssumption == IsFiniteSet(Instances)

ASSUME OutboxBoundsAssumption ==
    /\ BatchSize \in Nat \ {0}
    /\ MaxAttempts \in Nat
    /\ MaxEnds \in Nat
    /\ MaxErrors \in Nat

VARIABLES
    row,            \* outbox_events.status
    attempts,       \* outbox_events.attempts
    sent,           \* publish calls that put an event on its topic
    isPublishing,   \* an instance's guard
    step,           \* the await a poll stands at
    batch,          \* the records it read and has not dealt with
    starting,       \* instances whose producer is not connected yet
    stopping,       \* instances that got a SIGTERM and have not exited
    errors,         \* awaits that rejected without being refused
    ends            \* processes that crashed or were told to stop

table == <<row, attempts>>
poll == <<isPublishing, step, batch>>
life == <<starting, stopping>>
faults == <<errors, ends>>
vars == <<table, sent, poll, life, faults>>

Steps == {"idle", "find", "publish", "mark", "increment"}

-----------------------------------------------------------------------------

Pending == {e \in Events : row[e] = "PENDING"}

(* Mutated form of FindPendingBatch: no limit. *)
FindAllPending(b) ==
    /\ Len(b) = Cardinality(Pending)
    /\ \A j, k \in DOMAIN b : j < k => b[j] # b[k] /\ CreatedAt[b[j]] <= CreatedAt[b[k]]

(* where PENDING, orderBy createdAt asc, take limit.  Rows of the same      *)
(* moment come in any order.                                                *)
FindPendingBatch(b) ==
    /\ Len(b) = Min({Cardinality(Pending), BatchSize})
    /\ \A j, k \in DOMAIN b : j < k => b[j] # b[k] /\ CreatedAt[b[j]] <= CreatedAt[b[k]]
    /\ \A e \in Pending, k \in DOMAIN b :
           CreatedAt[e] < CreatedAt[b[k]] => \E j \in DOMAIN b : b[j] = e

OrderedChoices == UNION {[1 .. n -> Pending] : n \in 0 .. Cardinality(Pending)}

(* The finally of publishPendingEvents. *)
Finish(i, s) ==
    /\ isPublishing' = [isPublishing EXCEPT ![i] = FALSE]
    /\ step' = [step EXCEPT ![i][s] = "idle"]
    /\ batch' = [batch EXCEPT ![i][s] = <<>>]

(* The loop over the batch, with what is left of it. *)
Continue(i, s, rest) ==
    IF rest = <<>>
    THEN Finish(i, s)
    ELSE /\ step' = [step EXCEPT ![i][s] = "publish"]
         /\ batch' = [batch EXCEPT ![i][s] = rest]
         /\ UNCHANGED isPublishing

(* The catch of publishSingleEvent. *)
Catch(i, s) ==
    /\ step' = [step EXCEPT ![i][s] = "increment"]
    /\ UNCHANGED <<isPublishing, batch>>

Fails ==
    /\ errors < MaxErrors
    /\ errors' = errors + 1
    /\ UNCHANGED ends

Current(i, s) == Head(batch[i][s])

(* A producer takes nothing before it is connected, nor once it is not. *)
Refused(i, s) == i \in starting \cup stopping \/ Current(i, s) \in Unpublishable

-----------------------------------------------------------------------------

Init ==
    /\ row = [e \in Events |-> NoRow]
    /\ attempts = [e \in Events |-> 0]
    /\ sent = [e \in Events |-> 0]
    /\ isPublishing = [i \in Instances |-> FALSE]
    /\ step = [i \in Instances |-> [s \in Polls |-> "idle"]]
    /\ batch = [i \in Instances |-> [s \in Polls |-> <<>>]]
    /\ starting \in SUBSET Instances
    /\ stopping = {}
    /\ errors = 0
    /\ ends = 0

(* IssueCardUseCase commits a request with its event.  Commits need not     *)
(* come in the order of created_at.                                         *)
Insert(e) ==
    /\ row[e] = NoRow
    /\ row' = [row EXCEPT ![e] = "PENDING"]
    /\ UNCHANGED <<attempts, sent, poll, life, faults>>

(* Mutated form of Tick: no guard. *)
TickUnguarded(i, s) ==
    /\ i \notin stopping
    /\ step[i][s] = "idle"
    /\ isPublishing' = [isPublishing EXCEPT ![i] = TRUE]
    /\ step' = [step EXCEPT ![i][s] = "find"]
    /\ UNCHANGED <<table, sent, batch, life, faults>>

(* The timer fires.  While isPublishing holds it has no effect.  Polls have *)
(* no identity in the code: any free name is as good as another.            *)
Tick(i, s) ==
    /\ i \notin stopping
    /\ ~isPublishing[i]
    /\ s = CHOOSE t \in Polls : step[i][t] = "idle"
    /\ step[i][s] = "idle"
    /\ isPublishing' = [isPublishing EXCEPT ![i] = TRUE]
    /\ step' = [step EXCEPT ![i][s] = "find"]
    /\ UNCHANGED <<table, sent, batch, life, faults>>

Find(i, s) ==
    /\ step[i][s] = "find"
    /\ \/ /\ \E b \in OrderedChoices : FindPendingBatch(b) /\ Continue(i, s, b)
          /\ UNCHANGED faults
       \/ Fails /\ Finish(i, s)
    /\ UNCHANGED <<table, sent, life>>

(* Kafka takes the event and answers. *)
Publish(i, s) ==
    /\ step[i][s] = "publish"
    /\ ~Refused(i, s)
    /\ sent' = [sent EXCEPT ![Current(i, s)] = @ + 1]
    /\ step' = [step EXCEPT ![i][s] = "mark"]
    /\ UNCHANGED <<table, isPublishing, batch, life, faults>>

(* Mutated form of PublishFails: the failure ends the poll. *)
PublishFailureEndsPoll(i, s) ==
    /\ step[i][s] = "publish"
    /\ IF Refused(i, s) THEN UNCHANGED faults ELSE Fails
    /\ UNCHANGED sent
    /\ Finish(i, s)
    /\ UNCHANGED <<table, life>>

(* Mutated form of PublishFails: the producer swallows the failure. *)
PublishFailureSwallowed(i, s) ==
    /\ step[i][s] = "publish"
    /\ IF Refused(i, s) THEN UNCHANGED faults ELSE Fails
    /\ step' = [step EXCEPT ![i][s] = "mark"]
    /\ UNCHANGED <<table, sent, isPublishing, batch, life>>

(* It refuses the event, cannot be reached, or its answer is lost. *)
PublishFails(i, s) ==
    /\ step[i][s] = "publish"
    /\ \/ /\ Refused(i, s)
          /\ UNCHANGED <<sent, faults>>
       \/ /\ ~Refused(i, s)
          /\ Fails
          /\ \/ UNCHANGED sent
             \/ sent' = [sent EXCEPT ![Current(i, s)] = @ + 1]
    /\ Catch(i, s)
    /\ UNCHANGED <<table, life>>

MarkAsPublished(i, s) ==
    /\ step[i][s] = "mark"
    /\ row' = [row EXCEPT ![Current(i, s)] = "PUBLISHED"]
    /\ \/ Continue(i, s, Tail(batch[i][s])) /\ UNCHANGED faults
       \/ Fails /\ Catch(i, s)
    /\ UNCHANGED <<attempts, sent, life>>

MarkFails(i, s) ==
    /\ step[i][s] = "mark"
    /\ Fails
    /\ Catch(i, s)
    /\ UNCHANGED <<table, sent, life>>

(* Nothing reads the count of attempts: an event is tried for ever.  A      *)
(* failure here leaves publishSingleEvent and ends the poll.                *)
IncrementAttempts(i, s) ==
    /\ step[i][s] = "increment"
    /\ attempts' = [attempts EXCEPT ![Current(i, s)] = IF @ < MaxAttempts THEN @ + 1 ELSE @]
    /\ \/ Continue(i, s, Tail(batch[i][s])) /\ UNCHANGED faults
       \/ Fails /\ Finish(i, s)
    /\ UNCHANGED <<row, sent, life>>

(* Mutated form of IncrementFails: isPublishing stays set. *)
IncrementFailureSticks(i, s) ==
    /\ step[i][s] = "increment"
    /\ Fails
    /\ step' = [step EXCEPT ![i][s] = "idle"]
    /\ batch' = [batch EXCEPT ![i][s] = <<>>]
    /\ UNCHANGED <<table, sent, isPublishing, life>>

IncrementFails(i, s) ==
    /\ step[i][s] = "increment"
    /\ Fails
    /\ Finish(i, s)
    /\ UNCHANGED <<table, sent, life>>

(* onModuleInit of the producer ends.  It runs beside that of the publisher, *)
(* which sets the timer and waits for nobody.                                *)
Connect(i) ==
    /\ i \in starting
    /\ starting' = starting \ {i}
    /\ UNCHANGED <<table, sent, poll, stopping, faults>>

(* A process ends with its polls, and another takes its place; its producer *)
(* is connected before its timer fires, or not.                             *)
Restart(i) ==
    /\ isPublishing' = [isPublishing EXCEPT ![i] = FALSE]
    /\ step' = [step EXCEPT ![i] = [s \in Polls |-> "idle"]]
    /\ batch' = [batch EXCEPT ![i] = [s \in Polls |-> <<>>]]
    /\ starting' \in {starting \ {i}, starting \cup {i}}
    /\ stopping' = stopping \ {i}
    /\ UNCHANGED <<table, sent>>

Crash(i) ==
    /\ ends < MaxEnds
    /\ ends' = ends + 1
    /\ UNCHANGED errors
    /\ Restart(i)

(* SIGTERM: the timer is cleared and the producer disconnected.  Nobody     *)
(* waits for the poll under way.                                            *)
Stop(i) ==
    /\ i \notin stopping
    /\ ends < MaxEnds
    /\ ends' = ends + 1
    /\ starting' = starting \ {i}
    /\ stopping' = stopping \cup {i}
    /\ UNCHANGED <<table, sent, poll, errors>>

Exit(i) ==
    /\ i \in stopping
    /\ UNCHANGED faults
    /\ Restart(i)

-----------------------------------------------------------------------------

Settle(i, s) ==
    \/ Find(i, s)
    \/ Publish(i, s)
    \/ PublishFails(i, s)
    \/ MarkAsPublished(i, s)
    \/ MarkFails(i, s)
    \/ IncrementAttempts(i, s)
    \/ IncrementFails(i, s)

Next ==
    \/ \E e \in Events : Insert(e)
    \/ \E i \in Instances, s \in Polls : Tick(i, s) \/ Settle(i, s)
    \/ \E i \in Instances : Connect(i) \/ Crash(i) \/ Stop(i) \/ Exit(i)

Spec == Init /\ [][Next]_vars

(* Promises settle, the connect of the producer among them, the timer of an *)
(* instance keeps firing, and one told to stop exits.                       *)
Fairness ==
    /\ \A i \in Instances, s \in Polls : WF_vars(Settle(i, s))
    /\ \A i \in Instances :
           WF_vars(\E s \in Polls : Tick(i, s)) /\ WF_vars(Connect(i)) /\ WF_vars(Exit(i))

FairSpec == Spec /\ Fairness

-----------------------------------------------------------------------------
(* Properties *)

(* Every variable holds a value of its type, and no poll holds more records *)
(* than OUTBOX_BATCH_SIZE.                                                  *)
OutboxTypeOK ==
    /\ row \in [Events -> OutboxEventRow]
    /\ attempts \in [Events -> 0 .. MaxAttempts]
    /\ sent \in [Events -> Nat]
    /\ isPublishing \in [Instances -> BOOLEAN]
    /\ step \in [Instances -> [Polls -> Steps]]
    /\ batch \in [Instances -> [Polls -> Seq(Events)]]
    /\ \A i \in Instances, s \in Polls : Len(batch[i][s]) <= BatchSize
    /\ starting \subseteq Instances
    /\ stopping \subseteq Instances
    /\ errors \in Nat
    /\ ends \in Nat

(* The promise of the outbox: a row that says PUBLISHED is on the topic,    *)
(* whatever instances, crashes, stops and lost answers did to it.           *)
PublishedIsOnTopic == \A e \in Events : row[e] = "PUBLISHED" => sent[e] > 0

(* What at-least-once costs: with a copy for each instance allowed (they    *)
(* read the same rows), every further copy of an event is paid for by a     *)
(* crash, a stop or a failure of its own.  One instance without failures    *)
(* publishes exactly once, although its timer does not wait for a poll to   *)
(* end.                                                                     *)
Excess(e) == {e} \X (1 .. sent[e] - Cardinality(Instances))

CopiesAccountedFor == Cardinality(UNION {Excess(e) : e \in Events}) <= errors + ends

(* A poll under way holds its instance's guard, and an instance whose guard *)
(* is set has a poll that will release it: the finally covers every way     *)
(* out, so polling never stops for good.                                    *)
GuardHasPoll ==
    \A i \in Instances :
        /\ isPublishing[i] <=> \E s \in Polls : step[i][s] # "idle"
        /\ \A s, t \in Polls : step[i][s] # "idle" /\ step[i][t] # "idle" => s = t

(* Every event Kafka accepts is published and marked in the end, also those *)
(* queued behind an event Kafka always refuses: a batch goes on after a     *)
(* failure.  It takes fewer refused events than a batch holds.              *)
EveryEventPublished ==
    Cardinality(Unpublishable) < BatchSize =>
        \A e \in Events \ Unpublishable : row[e] = "PENDING" ~> row[e] = "PUBLISHED"
=============================================================================
