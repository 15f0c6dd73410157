---------------------------- MODULE ProcessorApp ----------------------------
(***************************************************************************)
(* The process around the use case of card-processor: how it starts and    *)
(* stops, and what its metrics say.                                        *)
(*                                                                         *)
(* Nest runs the hooks of the providers of one module side by side.  So a  *)
(* consumer may get events before the producer is connected, and on        *)
(* SIGTERM the producer is disconnected at once while the consumer waits   *)
(* for the handler it runs: what that handler publishes is refused.        *)
(*                                                                         *)
(* The metrics are summed over processors and over the lives of their      *)
(* processes, as a scraper that misses nothing would.                      *)
(***************************************************************************)
EXTENDS CardProcessor

CONSTANTS MaxStops   \* bound: SIGTERMs

ASSUME StopsAssumption == MaxStops \in Nat

VARIABLES
    phase,      \* of a process: its producer is connected while running
    stops,
    counted     \* the counters of MetricsService

app_vars == <<phase, stops, counted>>

Phases == {"starting", "running", "stopping"}

Counters == {"requests", "retries", "durations", "issued", "failed", "dlq", "errors"}

AppInit ==
    /\ Init
    /\ phase = [i \in Processors |-> "starting"]
    /\ stops = 0
    /\ counted = [c \in Counters |-> 0]

-----------------------------------------------------------------------------
(* Metrics *)

(* Mutated forms of Due: what is stored, or sent, is counted before it is;  *)
(* the first call counts as a retry.                                        *)
DueBeforeWrite(i) ==
    CASE pc[i] = "issueCard" -> IF attempt[i] = 1 THEN {"requests"} ELSE {"retries"}
      [] pc[i] = "markIssued" -> {"durations", "issued"}
      [] pc[i] = "markFailed" -> {"durations", "failed", "dlq"}
      [] OTHER -> {}

DueRetryAlways(i) ==
    CASE pc[i] = "issueCard" -> IF attempt[i] = 1 THEN {"requests", "retries"} ELSE {"retries"}
      [] pc[i] \in {"markIssued", "markFailed"} -> {"durations"}
      [] pc[i] = "publishIssued" -> {"issued"}
      [] pc[i] = "publishDlq" -> {"failed", "dlq"}
      [] OTHER -> {}

(* What a handler increments on its way to the await it stands at. *)
Due(i) ==
    CASE pc[i] = "issueCard" -> IF attempt[i] = 1 THEN {"requests"} ELSE {"retries"}
      [] pc[i] \in {"markIssued", "markFailed"} -> {"durations"}
      [] pc[i] = "publishIssued" -> {"issued"}
      [] pc[i] = "publishDlq" -> {"failed", "dlq"}
      [] OTHER -> {}

Count(cs) == counted' = [c \in Counters |-> IF c \in cs THEN counted[c] + 1 ELSE counted[c]]

(* A handler throws when an await rejects, or when the card was there.      *)
Throws(i) == faults' # faults \/ (pc[i] = "markIssued" /\ cur[i] \in cards)

(* Mutated form of CountStep: what is due is counted after the await. *)
CountStepAfter(i) == IF Throws(i) THEN Count({"errors"}) ELSE Count(Due(i))

(* CardRequestedConsumer counts what its handler throws. *)
CountStep(i) == IF Throws(i) THEN Count({"errors"}) ELSE Count(Due(i)')

-----------------------------------------------------------------------------

Publishing(i) == pc[i] \in {"publishIssued", "publishDlq"}

(* A step of the use case; a publish only with the producer connected. *)
Handle(i) ==
    /\ Publishing(i) => phase[i] = "running"
    /\ Execute(i)
    /\ CountStep(i)
    /\ UNCHANGED <<phase, stops>>

HandleRejects(i) ==
    /\ AwaitRejects(i)
    /\ CountStep(i)
    /\ UNCHANGED <<phase, stops>>

(* Mutated form of PublishRefused: nobody counts it. *)
PublishRefusedSilently(i) ==
    /\ Publishing(i)
    /\ phase[i] # "running"
    /\ EndDelivery(i)
    /\ UNCHANGED <<db_vars, log_vars, out_vars, issuer_vars, faults, app_vars>>

(* send of a producer that is not connected, or no longer. *)
PublishRefused(i) ==
    /\ Publishing(i)
    /\ phase[i] # "running"
    /\ EndDelivery(i)
    /\ Count({"errors"})
    /\ UNCHANGED <<db_vars, log_vars, out_vars, issuer_vars, faults, phase, stops>>

(* The consumer: while it stops it gets no partition and no message.        *)
Consume(i, p) ==
    /\ phase[i] # "stopping"
    /\ Deliver(i, p)
    /\ UNCHANGED app_vars

Join(i, p) ==
    /\ phase[i] # "stopping"
    /\ Assign(i, p)
    /\ UNCHANGED app_vars

CommitOffset(i, p) == Commit(i, p) /\ UNCHANGED app_vars

(* onModuleInit of the producer ends. *)
Connected(i) ==
    /\ phase[i] = "starting"
    /\ phase' = [phase EXCEPT ![i] = "running"]
    /\ UNCHANGED <<vars, stops, counted>>

(* SIGTERM: the producer disconnects; the consumer begins to.  main.ts       *)
(* enables the hooks before the producer is connected.                      *)
Stop(i) ==
    /\ stops < MaxStops
    /\ stops' = stops + 1
    /\ phase[i] # "stopping"
    /\ phase' = [phase EXCEPT ![i] = "stopping"]
    /\ UNCHANGED <<vars, counted>>

LeaveGroup(i) ==
    owner' = [p \in Partitions |-> IF owner[p] = i THEN NoOwner ELSE owner[p]]

(* Mutated form of Exit: the consumer waits until its partitions are read   *)
(* to their end.                                                            *)
ExitWhenDrained(i) ==
    /\ phase[i] = "stopping"
    /\ pc[i] = "idle"
    /\ \A p \in Partitions : owner[p] = i => position[p] > Len(topic[p])
    /\ phase' = [phase EXCEPT ![i] = "starting"]
    /\ LeaveGroup(i)
    /\ UNCHANGED <<db_vars, topic, committed, out_vars, handler_vars, issuer_vars, faults,
                   stops, counted>>

(* disconnect has waited for the handler and left the group: the process    *)
(* ends, and another takes its place.                                       *)
Exit(i) ==
    /\ phase[i] = "stopping"
    /\ pc[i] = "idle"
    /\ phase' = [phase EXCEPT ![i] = "starting"]
    /\ LeaveGroup(i)
    /\ UNCHANGED <<db_vars, topic, committed, out_vars, handler_vars, issuer_vars, faults,
                   stops, counted>>

(* A process that dies may not have got as far as it is seen here: its last *)
(* call took effect, and the answer never came.                             *)
Die(i) ==
    /\ Crash(i)
    /\ phase' = [phase EXCEPT ![i] = "starting"]
    /\ \/ UNCHANGED counted
       \/ counted' = [c \in Counters |-> IF c \in Due(i) THEN counted[c] - 1 ELSE counted[c]]
    /\ UNCHANGED stops

AppNext ==
    \/ \E r \in Requests : Environment(r) /\ UNCHANGED app_vars
    \/ \E i \in Processors, p \in Partitions : Consume(i, p) \/ Join(i, p) \/ CommitOffset(i, p)
    \/ \E i \in Processors :
           \/ Handle(i) \/ HandleRejects(i) \/ PublishRefused(i)
           \/ Connected(i) \/ Stop(i) \/ Exit(i) \/ Die(i)

AppSpec == AppInit /\ [][AppNext]_<<vars, app_vars>>

(* As in CardProcessor, and: connect and disconnect settle.  Nobody has to  *)
(* stop a process.                                                          *)
AppFairness ==
    /\ \A i \in Processors :
           WF_<<vars, app_vars>>(Handle(i) \/ PublishRefused(i) \/ Exit(i)
                                 \/ \E p \in Partitions : Consume(i, p))
    /\ \A i \in Processors : WF_<<vars, app_vars>>(Connected(i))
    /\ \A p \in Partitions :
           WF_<<vars, app_vars>>(owner[p] = NoOwner /\ \E i \in Processors : Join(i, p))

FairAppSpec == AppSpec /\ AppFairness

-----------------------------------------------------------------------------
(* Properties *)

(* Every variable holds a value of its type, those of CardProcessor too; no *)
(* counter falls below zero.                                                *)
AppTypeOK ==
    /\ TypeOK
    /\ phase \in [Processors -> Phases]
    /\ stops \in Nat
    /\ counted \in [Counters -> Nat]

At(step) == Cardinality({i \in Processors : pc[i] = step})

(* Failures whose trace in the counters may be missing, or misleading.      *)
Unsure == counted["errors"] + faults["crash"]

(* What the requests have of f together, counted unit by unit.              *)
Total(f) == Cardinality(UNION {{r} \X (1 .. f[r]) : r \in Requests})

(* A request that nobody will finish, be it for a rejected await or for a   *)
(* stop in the middle of its handler, shows in kafka_consumer_errors_total; *)
(* only crashes lose requests unseen, one each.                             *)
LossesAreCounted == Cardinality({r \in Requests : Stranded(r)}) <= Unsure

(* card_requests_total and card_retry_total together are the calls the      *)
(* external issuer got: none is missed, though handlers crash and events    *)
(* are redelivered, and only a crash counts one that was not made.  Every   *)
(* request counted is timed, unless its handler crashed.                    *)
CallsAreCounted ==
    LET noted == counted["requests"] + counted["retries"] IN
    /\ Total(calls) <= noted
    /\ noted <= Total(calls) + At("issueCard") + faults["crash"]
    /\ counted["durations"] <= counted["requests"]
    /\ counted["requests"] <=
           counted["durations"] + At("issueCard") + At("backoff") + faults["crash"]

(* card_issued_total and card_failed_total never run ahead of the tables,   *)
(* and lag behind them by what failed or crashed at most: no redelivery     *)
(* counts an outcome twice.                                                 *)
OutcomesAreCounted ==
    LET failed == Cardinality({r \in Requests : status[r] = "FAILED"}) IN
    /\ counted["issued"] <= Cardinality(cards)
    /\ Cardinality(cards) <= counted["issued"] + Unsure
    /\ counted["failed"] <= failed
    /\ failed <= counted["failed"] + Unsure

(* card_dlq_total is incremented before the publish it counts: it misses no *)
(* dead letter, and is ahead of the topic by the publishes under way and    *)
(* those that failed, were refused or died.                                 *)
DeadLettersAreCounted ==
    /\ Total(dlqTopic) <= counted["dlq"]
    /\ counted["dlq"] <= Total(dlqTopic) + At("publishDlq") + Unsure

(* A process told to stop ends: its handler is finite, and nothing new is   *)
(* begun.                                                                   *)
EveryStopEnds == \A i \in Processors : phase[i] = "stopping" ~> phase[i] # "stopping"

(* In the end all events put on the topic are carried to their outcome, but *)
(* for those that show: one at most for each error counted and for each     *)
(* crash.  A publish refused at the start or at a stop, and an error the    *)
(* consumer swallows, lose no event without a count, and what follows on    *)
(* the partition is handled.                                                *)
EveryEventSettlesOrShows ==
    <>[](Cardinality({r \in Requests : Copies(r) > 0 /\ ~Settled(r)}) <= Unsure)
=============================================================================
