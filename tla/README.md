# TLA+ models of the card issuance services

The repository holds two NestJS services. `card-issuer` takes `POST /cards/issue`,
stores the request with an outbox event and publishes the event on Kafka.
`card-processor` consumes it, asks an external card issuer (simulated, with retries)
and ends the request `ISSUED`, announced on `io.cards.issued.v1`, or `FAILED`, with a
dead letter on `io.card.requested.v1.dlq`. They share one PostgreSQL database.

This directory holds TLA+ modules translated from that code, the TLC configurations
that check them on small instances, and proofs checked by TLAPS.

## Inventory

| Component | State | Operations | What is hard | What makes it correct |
|---|---|---|---|---|
| Intake: `cards.controller.ts`, the DTOs, `issue-card.use-case.ts`, `prisma-card-request-writer.ts` | rows of `card_requests` and `outbox_events` | validate, look up the document, insert request and event in one transaction, answer 202/400/409/500 | posts for one document interleave between look-up and insert; a commit whose answer is lost | a request has its event; a 202 is durable; a 409 has a cause; one winner |
| Outbox publisher: `outbox-publisher.service.ts`, `prisma-outbox-event.repository.ts` | row status and attempts, `isPublishing` of an instance, the batch in memory | timer, read a batch, publish, mark, count a failure | the timer does not wait; instances share rows without locks; failures, crashes and shutdowns between publish and mark | what is marked is on the topic; copies are paid for by failures; polling never stops; a refused event blocks nobody |
| Consumer group: `kafka-consumer.service.ts`, `card-requested.consumer.ts` | owners, positions, committed offsets | assign, deliver, commit; every error is swallowed | redelivery after a crash or rebalance; a partition moved under a running handler; a group without offsets | no event is skipped but by a failure |
| Processing: `process-card-request.use-case.ts`, `prisma-card-issuance-writer.ts`, `prisma-processed-event.repository.ts` | `card_requests.status`, `cards`, `processed_events` | check the event, check the status, mark, ask, store, publish, record | the status is checked and set by different awaits; any await can reject before or after its effect; the process can die at each | one card at most for a request; rows, topics and the issuer agree; a failure costs one request at most |
| Retry policy: `retry-policy.ts` | loop counter | call, back off, give up | the boundary; the time a handler keeps its consumer silent | `MAX_RETRIES + 1` calls, no more; a run ends within the session |
| Status query: `get-card-request-status.use-case.ts` | none | two reads outside a transaction | the processor commits between them | `ISSUED` comes with its card |
| Metrics: `metrics.service.ts` and its callers | counters in memory | increment | counters and tables change at different steps of handlers that fail, crash and are delivered again | a counter is ahead of, or behind, what it counts by known failures only |
| Start and shutdown, of both services: `main.ts`, `kafka-producer.service.ts`, `kafka-consumer.service.ts` | is the producer connected, is the process stopping | connect, disconnect, exit | hooks of one module run side by side, handlers run meanwhile | what is refused is counted; a process told to stop ends |
| Cloud events: `event-factory.ts` | a sequence per source and process | next id | - | an event's identity is fixed by its request |
| Health, logging, masking, Swagger, throttling configuration | - | - | - | not modelled, see the end |

The services interact through rows and topics only: the intake writes the rows the
publisher polls, the publisher writes the topic the processor reads, the processor
updates the rows the intake inserted and the status query reads. The hazards that
follow, each at its line, are in `PROJECT.json`.

## Modules

- `CardDomain`: statuses and rows (`enums.ts`, `schema.prisma`).
- `CardLifecycle`: the abstract specification. A request is accepted, started once, asked
  for at most `Limit` times, granted at most once, and ends once; its outcome is told at most once.
- `CardProcessor`: the consumer group and `execute`. An action is what happens between two
  awaits, and `pc` names the await. `Accept` and `Produce` are the rest of the system as a
  processor sees it. `Execute` collects the steps of the use case; `AwaitRejects` is a call
  that never took effect, the second disjunct of `ReturnsOrRejects` one that did and whose answer
  was lost. `Assign`, `Commit` and `Crash` stand for kafkajs and the operating system, from how the code uses them.
- `MCCardProcessor`: values for TLC, as are the other `MC` modules.
- `CardProcessorProofs`, `CardProcessorFaultProofs`: theorems about `CardProcessor`; the second holds what is true in every mode and what faults cost.
- `IssueCard`: concurrent posts. `IssueCardProofs`: its theorems.
- `CardStatusQuery`, `MCCardStatusQuery`: the status query, over `CardProcessor`: its two reads interleave with the processors' writes.
  `CardStatusQueryProofs`: its theorems.
- `CardSystem`, `MCCardSystem`: `IssueCard`, `OutboxPublisher` and `CardProcessor` together. Each is an INSTANCE; what two of them
  look at is given to both (the intake's `outbox` is the rows the publisher has, the publisher's `sent` is what the topic holds), and the
  steps in which two meet are joint actions: `Store` is the intake's commit and the publisher's `Insert`, `Publish` is an append to the topic. `SessionExpiry` and `FreshGroup`
  are constants here as in `CardProcessor`, and each run and theorem says which values it takes. Processes that start and stop are left to the components' modules: producers are connected here. `CardSystemProofs`: theorems about the whole,
  from the lemmas about its parts, which it has as instances.
- `ProcessorApp`, `MCProcessorApp`: `CardProcessor` with the life of its process and its counters. `Due` says what a handler increments
  on its way to an await, `CountStep` joins it with the step. `ProcessorAppProofs`: its theorems.
- `HandlerTime`, `MCHandlerTime`: `CardProcessor` with the age of each consumer's last heartbeat. `HandlerTimeProofs`: its theorems.
- `OutboxPublisher`, `MCOutboxPublisher`: the poller. A poll is a thread `(instance, slot)`,
  since the timer starts polls without waiting. `starting` and `stopping` are the instances whose producer is not connected yet, or no longer. `OutboxPublisherProofs`: its theorems.

How state corresponds: `status`, `cards`, `processed`, `row`, `attempts`, `requestOf` and `outbox` are columns;
`topic`, `committed`, `owner`, `position` and the two outgoing topics are Kafka's; `pc`, `cur`,
`attempt`, `batch` and `isPublishing` are memory, lost in a crash; `calls`, `approvals` and `sent` are history
(what the external issuer and Kafka saw), read by properties only; `faults`, `errors` and `crashes` count the failures that happened.

What is abstracted. An event is its requestId: its source is a fresh uuid for which the issuer builds
one event, so (id, source) and requestId tell the same events apart, and all copies have one partition because the key is the
requestId. A request has one document and a document one request, so `cards.customer_document` is as unique as
`cards.request_id`, and only the latter is modelled. Not-found (use case, line 55) and no-longer-pending (line 65) do the same and are one
branch of `FindRequest`. A publish is counted once though the producer may retry inside kafkajs. Names, amounts and PANs are left out everywhere, delays outside `HandlerTime`. The consumer's early ends on a message without a value or one that is no JSON (`card-requested.consumer.ts:19,23`) are left out, since
the outbox alone writes the topic and sends neither. A call under way when a process
dies has taken effect by then or never does.

Start and shutdown. Nest runs the hooks of one module's providers side by side: consumers may get an event, and the outbox's timer may fire, before the producer is connected, and the publish is refused
(`PublishRefused`, `Refused`); a SIGTERM may come before that too, since `main.ts` enables the hooks first. On SIGTERM the producer of card-processor disconnects at once while the consumer's `disconnect` waits for its handler, whose publish is then refused as well.
Prisma connects again when it is used, so the handler's tables stay within reach. In card-issuer the timer is cleared and the producer disconnected, and no
poll is waited for (`Connect`, `Stop`, `Exit` of `OutboxPublisher`).

Validation is a choice among its outcomes: a body that breaks a constraint gets 400, one without `customer` or `product` gets 500 (`ValidateNested`
passes over what is absent, and the controller reads a field of it: finding 4), and any other goes on. `@Throttle` stands on the endpoint and
`ThrottlerModule` is configured, but no guard is installed, so no post is turned away for its rate, although `README.md:55` says the endpoint is throttled. The models have neither a clock
for posts nor the addresses a limit is counted by, so this is noted here and no run shows it.

Definitions whose comment says "Mutated form" belong to no specification: each is what a plausible mistake would make of the
definition after it, and shows that a property can fail.

## Runs

| Run | Question | Answer |
|---|---|---|
| `processor_safety` | Two processors, two requests on one partition, two copies of each event, one crash, one rejected await, one rebalance: do rows, topics and the issuer agree, and do events published reach their outcome? | yes; also the inductive invariant `Inv`, the bound on stranded requests and the refinement of `CardLifecycle`; all events settle but for one for each failure, and the rebalance skips none |
| `processor_overlap` | What survives when a partition moves under a running handler? | a card per request, its announcement by its creator only, and as many approvals as processors at most |
| `processor_dlq` | Is every FAILED request dead-lettered, one with `forceError` here? | no (finding) |
| `processor_fresh_group` | Is what is published delivered, when the group is new? | no (finding) |
| `processor_twice` | Is a request granted one card when handlers overlap? | no (finding) |
| `outbox` | Two instances, three rows of which Kafka refuses the oldest, batches of two, two rejected awaits, a crash or a shutdown, producers not connected yet: can a row be lost, forgotten or sent too often? | no row is marked that was not sent; copies are accounted for; the guard is always released; the rows behind the refused one are published and marked in the end |
| `status_query` | What does a client see that polls while the request moves, with redelivery, a crash, a rejected await and a rebalance, but no session that expires, and while an event without a row is handled on another partition? | ISSUED with its card, FAILED without one, and never a step back. A card may come with PENDING or PROCESSING, when the processor commits between the reads |
| `issue_card` | Four posts for two documents, two rejected awaits, a crash | rows match the outbox, answers are true, one winner |
| `issue_card_absent` | Is every invalid body answered with 400? | no (finding) |
| `card_system` | Two posts for one document or two, two failures out of a rejected await and a crash on either side: does the whole keep what the parts promise? | yes, without session expiry and with a committed offset: one card for a document and none twice, no request dropped and all that is stored carried to its outcome but for one for each failure of the processor; and card-issuer is the environment that `CardProcessor` assumes, so what is proved of it holds here |
| `processor_app` | Two requests, one processor, a crash, a rejected await, a SIGTERM: do the counters tell what happened, and does a process told to stop end? | yes: only a crash loses a request unseen, and all events settle but for one for each error counted and each crash; calls, outcomes and dead letters are counted within the failures that happened |
| `handler_time` | The delays of the code and the defaults of kafkajs: can a session expire during a handler? | not while an await on PostgreSQL or Kafka takes 0.7 s at most to return and 9.3 s to reject: then the processors are those of `CardProcessor` without session expiry |

`EachFaultStrandsOneAtMost` with `EveryEventSettles` says what a failure costs: of the events published, those that never
settle are no more than the crashes and rejected awaits, so without one every event settles, and a group that skipped an event with no failure to pay for it would break both.
`EveryStoredRequestSettles` says the same from the commit of the request on, and `EveryEventSettlesOrShows` with what the counters show. The code does lose that one: after
`markProcessing` a redelivered event is skipped at line 65, and an error is swallowed with the offset moving on.

### Findings

1. `README.md:54` says a request is published on the dead letter topic when its retries are used up.
   `markFailed` comes first; if the publish rejects or the process dies, nobody publishes it later.
2. `README.md:52` assumes at-least-once delivery. With `fromBeginning: false` a group that has not
   committed yet starts at the end of the partition, and what was published before stays unprocessed.
3. `README.md:52` says that neither a recorded event nor a request past PENDING is processed again. The record is
   written last and the status is checked and set in two awaits, so two handlers of one event can both pass. It takes a
   partition that moves during its handler (`SessionExpiry`). `handler_time` shows when that cannot be: a handler waits 9 s at most for the
   issuer and its retries, a consumer may have been silent for 8 s before it, and what is left of the 30 s that kafkajs allows by default is, for instance, 0.7 s for each of
   five awaits that return and 9.3 s for one that rejects, as a `send` tried again five times from 300 ms on does (`kafka-producer.service.ts:15`: 300 ms doubled each time, without the random factor kafkajs
   adds, which can make it about 20 s and does not fit). Nothing in the code bounds how long any of them takes.
4. `docs/openapi.yaml:38` and `cards.controller.ts:21` answer an invalid payload with 400, and `docs/openapi.yaml:111` requires `customer` and `product`.
   A body without one of them passes validation and gets 500.

### Bounds

`MaxCopies`, `MaxCrashes`, `MaxErrors`, `MaxFailures`, `MaxStops`, `MaxRebalances`, `Polls`, `MaxAttempts` and the sets are the bounds; all other counters are bounded by the
algorithm. Two processors suffice for every race here, since a race needs a reader and a writer of one row; two requests let one wait
behind the other; two copies are the first and a duplicate. `MAX_RETRIES` is 1 or 2 instead of 3 (0 in `card_system`, which asks nothing about retries): it keeps a first call, a retry and
the last call apart, and the proofs hold for every value. One more event in `status_query` has no row and a partition of its own: a processor deals with one event at a time whatever partitions it has. The overlap run takes one request only, because handlers of different requests share no row, but three handovers, so that a
partition can come back to a processor that had lost it. `MaxAttempts` only stops a count nobody reads.

`outbox` has two instances, so that both may send an event, and two errors, so that a failure meets another inside its catch; a crash or a shutdown stands for any of them, since an instance that comes back is one that starts.

`card_system` has two documents for its two posts: they may be for one document, which is where a second card could come from, or for two, so that two requests are under way and the bound of one loss for a failure still demands the other.
`MaxFailures` bounds all failures together: two are enough for each kind to meet each other, a copy sent again because card-issuer failed and a handler that fails over it, for instance. It has one instance of card-issuer, whose handlers race as those of
two would, since they share nothing but the tables; that two instances send one event twice is in `outbox`, and the theorems about `CardSystem` hold for any number of instances. More failures of processors, and more processors, are checked in the runs of
`CardProcessor`, which `ProcessorSpec` makes hold here. `processor_app` has one processor, because counters are summed and a process starts and stops alone; its two requests wait behind each other, so that a
stop meets one in hand and one ahead. `handler_time` has one request, two processors (one to lose the partition, one to get it) and two copies; times are tenths of a second, and of each kind of
time the shortest and the longest suffice, since the properties are about sums: 30 between heartbeats, 50 for a fetch, 5 x 7 for the awaits that return, 85 + 5 for the calls and delays, 93 for the one that rejects, 298 of 300.
`FitsAssumption` is that inequality. `MaxEnds` bounds crashes and shutdowns of card-issuer together.

### Fairness

Weak fairness of each handler's steps (promises settle), of delivery (a consumer polls), of assigning a partition nobody owns
(the group coordinator), of each poll's steps and of the timer. None is assumed of clients, of the outbox as `CardProcessor` sees it, of
commits, of SIGTERMs, or of failures, which are bounded. `ProcessorApp` and `OutboxPublisher` add that connect and disconnect settle and that a process told to stop exits and is replaced. `CHECK_DEADLOCK FALSE` stands where the bounded environment runs dry; the outbox run checks for deadlock.

## Proofs

`CardProcessorProofs` proves, for any sets of requests, processors and partitions, any `MAX_RETRIES` and any budgets of faults:

- `TypeCorrect`: `Spec => []TypeOK`, in every mode. `TypeOK` bounds `attempt`, which needs `AttemptInv`.
- `OutcomesAgree` and `GrantedOnce`: `OneOutcome` and `AtMostOneApproval` are invariant when `SessionExpiry` is FALSE.
- `ImplementsLifecycle`: under the same hypothesis, `Spec => LifecycleSpec`.

They assume the named assumptions of `CardProcessor` about its constants. The argument: a busy processor owns the partition of its event (`OwnerInv`, with
`TopicInv` for keys and partitions), so no two are busy with one request (`Exclusive`). A step then changes the records of its own request only
(`StepIsLocal`), and what every handler knows at its await stays true (`HandlerKnows`): PENDING before the first update, no approval and
as many calls as attempts while it retries, nothing announced before it announces. `OneOutcome` alone is not inductive: a step that stores ISSUED
keeps it only if the issuer has granted one card by then, which is what `HandlerKnows` adds. `Inv` is the conjunction, checked in `processor_safety`.

`HandlerTimeProofs` proves, for any delays, times, session timeout and number of attempts that satisfy the named assumptions of `HandlerTime`:

- `HeartbeatsInTime`: `TimedSpec => []AgeInv`. The inductive invariant: it bounds the age of the last heartbeat at each await by what the handler
  can have waited for up to there. `Spent[n]` is that sum for the first `n - 1` calls and their delays, and grows with `n` (`SpentGrows`). `TypeCorrect` supplies the types,
  since a timed step is a step of `CardProcessor`.
- `SessionsHold`: `TimedSpec => []SessionHeld`, from `AgeInv` and `FitsAssumption`: five awaits that return, one that rejects, all calls and all delays fit in the session. A rejected await ends the handler (`FailuresEnd`), so there is one at most.
- `NeverDisturbed`: `TimedSpec => UndisturbedSpec`. A partition moves under a handler only when its session expires, which `SessionsHold` excludes, so every
  step is one of `CardProcessor` with `SessionExpiry` FALSE. This discharges the hypothesis of `OutcomesAgree`, `GrantedOnce` and `ImplementsLifecycle`
  for delays that fit; with delays that do not, run `processor_overlap` shows what is lost.

`CardProcessorFaultProofs` proves more about `CardProcessor`. In every mode, so also when handlers of one request overlap and when the group is new:

- `RecordsComeAfter`: `HandledNeverPending`. A row only moves forward (`StepMovesForward`), but for a request to be past PENDING when its event is recorded, what a
  handler saw or wrote must still be true when it goes on: `ForwardInv` says that an event in hand has a row or is an orphan's and that no handler past
  `markProcessing` can find its request PENDING again, though another may have overtaken it.
- `CardsBacked`: `CardsAreBacked`. `BackedInv` adds that a handler about to store was granted a card, and that one handler at most is on its way to announce a request, because
  it stored the card and the unique key lets only one.
- `GrantsBounded`: `ApprovalsBoundedByProcessors`. The inductive form counts what may still come: grants so far and handlers that may still be granted one (`Asking`)
  are together no more than the processors.

With `SessionExpiry` and `FreshGroup` FALSE:

- `FaultsStrandOneEach`: `EachFaultStrandsOneAtMost`. `OffsetInv` locates every busy handler at its own message and the group behind the end; `Losses` are the requests whose
  handler has gone, a weaker condition than `Stranded`, because somebody may hold the event only to find that nothing is left to do. A step adds one at most, and only if it spends a fault.
- `HandlersKnow`: `Inv`, the inductive invariant of the run (`SessionExpiry` FALSE suffices).

They use `FiniteAssumption`: requests and processors are finite sets, since the properties count them.

`IssueCardProofs` proves the four invariants of `IssueCard` for any posts, documents, errors and crashes: `TypesHold`, `RowsHaveEvents`, `ClientsAreToldTheTruth`,
`RacesHaveOneWinner`. One invariant, `IInv`, carries them. `AnswersAreTrue` is not inductive alone: that a 409 names another's request needs that a post's own
request is stored only at the end of its handler (`StoredAtTheEnd`), and `OneWinner` needs that without failures an answer other than 202 or 409 is not given (`AnswersTellAll`).

`CardStatusQueryProofs` proves `AnswersAreWhole` and `AnswersOnlyMoveForward` with `SessionExpiry` FALSE, for any clients. The two reads of a query are outside a transaction; `QueryInv` says
that what it read of the row is still at most as far as the row, and that what a client was told is. With `SafeInv` of the processors this makes
`AnswersAgree` invariant, and the action property `AnswersMoveForward` follows from it step by step.

`OutboxPublisherProofs` proves the invariants of `OutboxPublisher` for any events, finitely many instances, any overlapping timers and any number of crashes, stops and errors:

- `OutboxTypesHold` and `GuardReleased` from `PollInv`: a poll holds records exactly while it deals with them, each once, and the step of any poll is that of one `(instance, slot)` (`Moves`).
- `PublishedRowsAreSent`: a poll about to mark has sent what it marks (`SentInv`).
- `CopiesPaidFor`: `CopiesAccountedFor`. The count of copies alone is not inductive, since a copy sent now may be paid for later or never. An event has a copy free for each instance in `Covered`: before it is marked
  those about to mark it, afterwards all but those that still hold it and may send it again. What was sent beyond that is a debt, and `DebtInv` says that debts, and the stops whose exit is still to
  come, are no more than the failures. A publish that returns covers itself; one that fails, a mark that fails and a crash add one debt and are one failure; marking turns the cover
  of an event round and owes nothing. `InstancesAssumption` makes the instances countable.

`CardSystemProofs` proves the properties of `CardSystem` for any finite sets of posts, instances and processors (`SystemAssumption`, `SystemBoundsAssumption`; the assumptions of the parts follow from these):

- `ImplementsProcessor`: `Spec => ProcessorSpec`, in every mode. The hard part is `MaxCopies`: `CardProcessor` bounds how often an event is put on the topic, and nothing in `CardSystem` does. The bound, instances plus errors plus
  crashes of card-issuer, is `DebtInv` of the outbox read once more (`CopiesWithin`). The other part is that no event precedes its row: what a poll holds is a row of the table (`HeldInv`), and rows and
  requests appear together (`StoreInv`).
- `OneCardForDocument`: `OneCardPerDocument` with `SessionExpiry` FALSE, from one request for a document (`StoreInv`) and one grant and one announcement for a request (`SafeInv`). With session expiry the second half fails, as `processor_twice` shows.
- `NothingDropped`: `PendingIsUnderWay` with `SessionExpiry` and `FreshGroup` FALSE; a fresh group does drop requests, as `processor_fresh_group` shows. A row marked PUBLISHED was sent (`SentInv`), so its message is on the topic; if the group has passed it and nobody works on it, it is one of the `Losses` the processors' faults pay for.

The invariant is `SystemInv`, which holds in every mode: those of the outbox and of the processors, `StoreInv` and `BudgetInv`. `ExclusiveInv` and `GroupInv` are what the two modes add. Each step of the whole is a step of the outbox or leaves it but for a commit
(`ElsewhereKeepsOutbox`), and a step of the processors or leaves them, so the parts' own lemmas carry their invariants over. The theorems about `CardProcessor` that need no `SessionExpiry` then hold of the system.

`ProcessorAppProofs` proves the invariants of `ProcessorApp`, for any number of SIGTERMs besides. Its steps are those of `CardProcessor` with what they count, a publish that is refused and the exit of an
idle process (`StepCases`), so the invariants of `CardProcessor` carry over once those two keep them. In every mode:

- `AppTypesCorrect`: `AppTypeOK`. That no counter falls below zero is not inductive: a death may take back what its handler had counted (`Die`). `CountInv` says that each counter covers the handlers
  it is `Due` to.
- `CallsCounted`: `CallsAreCounted`. The bounds of the property leave room that no step may use; `CallInv` is the exact account, in which a handler at `issueCard` is counted and its call is still to come.
- `DeadLettersCounted`: `DeadLettersAreCounted`, in the same way from `DlqInv`.

With `SessionExpiry` FALSE, `OutcomesCounted`: `OutcomesAreCounted`, since `HandlerKnows` makes every `markIssued` and `markFailed` that succeeds add a row (`HandlerOutcomes`). With `FreshGroup` FALSE too,
`LossesCounted`: `LossesAreCounted`. The `Losses` are those of `FaultsStrandOneEach`, and a refused publish is one more way to pay for one; what a handler throws is counted, and a rebalance costs nothing.

`Total` counts a function's units as a set of pairs, so that the library's facts on cardinalities apply where a recursive sum would need induction over data.

Model-checked only: liveness (`EveryEventSettles`, `EveryEventSettlesOrShows`, `EveryStoredRequestSettles`, `EveryEventPublished`, `EveryStopEnds`), since the prover has neither fairness nor ENABLED.

## Plan

Every safety property of a passing run has its theorem; what is left to TLC is named above. Should the code change, these are the places where the proofs
would first fail: `HandlerKnows` for a new await in `execute`, `Covered` for another order of send and mark, `Due` for a counter moved across an await.

## Not modelled

- Health endpoints, logging, masking, Swagger, CORS and helmet, throttling configuration: formatting, pure I/O and declarative settings on which no state of a request depends.
- The counter of `event-factory.ts`: per process and source. The issuer draws a fresh source for each request, so the id of a requested event is always 1;
  no code here reads the ids of what card-processor publishes.
- `markAsProcessing`, `markAsIssued`, `markAsFailed` of the entities, `PrismaCardRepository.save` and `PrismaCardRequestRepository.update`: no code outside tests calls them.
- What kafkajs and Prisma do inside (their retries, the group protocol, connection pools): external, modelled by what the code can see of them.
- The text of answers. A 409 says that the card exists (`cards.controller.ts:22`) when a request for the document does; `AnswersAreTrue` is about the request.
