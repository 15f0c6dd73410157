-------------------------- MODULE CardSystemProofs --------------------------
(***************************************************************************)
(* Theorems about CardSystem, for any number of posts, documents,          *)
(* instances and processors and any budgets of failures.                   *)
(*                                                                         *)
(* What is known of the outbox and of the processors is known of them      *)
(* here: Outbox and Consumers are the two components once more, with their *)
(* lemmas.                                                                 *)
(***************************************************************************)
EXTENDS CardSystem, FiniteSetTheorems, TLAPS

Outbox == INSTANCE OutboxPublisherProofs WITH
    Events <- Posts,
    Unpublishable <- {},
    MaxAttempts <- 0,
    MaxEnds <- MaxCrashes,
    starting <- {},
    stopping <- {},
    ends <- crashes,
    sent <- [p \in Posts |-> Processor!Copies(p)]

Consumers == INSTANCE CardProcessorFaultProofs WITH
    Requests <- Posts,
    Orphans <- {},
    NoRequest <- NoPost,
    MaxCopies <- Cardinality(Instances) + MaxErrors + MaxCrashes,
    MaxErrors <- MaxProcessorErrors,
    MaxCrashes <- MaxProcessorCrashes

USE DEF NoRow

-----------------------------------------------------------------------------
(* The components' assumptions about their constants. *)

LEMMA OutboxAssumptions ==
  Outbox!EventsAssumption /\ Outbox!InstancesAssumption /\ Outbox!OutboxBoundsAssumption
  BY SystemAssumption, SystemBoundsAssumption
     DEF Outbox!EventsAssumption, Outbox!InstancesAssumption, Outbox!OutboxBoundsAssumption,
         Outbox!IsFiniteSet, IsFiniteSet

LEMMA CopiesBounded == Cardinality(Instances) + MaxErrors + MaxCrashes \in Nat
<1>1. Cardinality(Instances) \in Nat
  BY FS_CardinalityType, SystemAssumption
<1>2. QED
  BY <1>1, SystemBoundsAssumption

LEMMA ConsumersAssumptions ==
  /\ Consumers!PartitionsAssumption /\ Consumers!NothingAssumption
  /\ Consumers!FiniteAssumption /\ Consumers!ModeAssumption /\ Consumers!BoundsAssumption
<1>1. Consumers!PartitionsAssumption /\ Consumers!NothingAssumption
  BY SystemAssumption DEF Consumers!PartitionsAssumption, Consumers!NothingAssumption
<1>2. Consumers!FiniteAssumption
  BY SystemAssumption DEF Consumers!FiniteAssumption, Consumers!IsFiniteSet, IsFiniteSet
<1>3. Consumers!ModeAssumption
  BY SystemModeAssumption DEF Consumers!ModeAssumption
<1>4. Consumers!BoundsAssumption
  BY CopiesBounded, SystemBoundsAssumption DEF Consumers!BoundsAssumption
<1>5. QED
  BY <1>1, <1>2, <1>3, <1>4

-----------------------------------------------------------------------------
(* Both copies of a component take the same steps. *)

LEMMA SameExecute ==
  ASSUME NEW i
  PROVE  Processor!Execute(i) <=> Consumers!Execute(i)
  BY DEF Processor!Execute, Consumers!Execute, Processor!WasProcessed,
         Consumers!WasProcessed, Processor!FindRequest, Consumers!FindRequest,
         Processor!MarkProcessing, Consumers!MarkProcessing, Processor!IssueSucceeds,
         Consumers!IssueSucceeds, Processor!IssueFails, Consumers!IssueFails,
         Processor!Backoff, Consumers!Backoff, Processor!MarkIssued, Consumers!MarkIssued,
         Processor!PublishIssued, Consumers!PublishIssued, Processor!MarkFailed,
         Consumers!MarkFailed, Processor!PublishDlq, Consumers!PublishDlq,
         Processor!MarkProcessed, Consumers!MarkProcessed, Processor!Goto, Consumers!Goto,
         Processor!EndDelivery, Consumers!EndDelivery, Processor!ReturnsOrRejects,
         Consumers!ReturnsOrRejects, Processor!Spend, Consumers!Spend, Processor!Budget,
         Consumers!Budget, Processor!db_vars, Consumers!db_vars, Processor!log_vars,
         Consumers!log_vars, Processor!out_vars, Consumers!out_vars,
         Processor!handler_vars, Consumers!handler_vars, Processor!issuer_vars,
         Consumers!issuer_vars

LEMMA SameFaults ==
  ASSUME NEW i
  PROVE  /\ Processor!AwaitRejects(i) <=> Consumers!AwaitRejects(i)
         /\ Processor!Crash(i) <=> Consumers!Crash(i)
  BY DEF Processor!AwaitRejects, Consumers!AwaitRejects, Processor!Crash, Consumers!Crash,
         Processor!RemoteSteps, Consumers!RemoteSteps, Processor!Goto, Consumers!Goto,
         Processor!EndDelivery, Consumers!EndDelivery, Processor!ReturnsOrRejects,
         Consumers!ReturnsOrRejects, Processor!Spend, Consumers!Spend, Processor!Budget,
         Consumers!Budget, Processor!db_vars, Consumers!db_vars, Processor!log_vars,
         Consumers!log_vars, Processor!out_vars, Consumers!out_vars,
         Processor!handler_vars, Consumers!handler_vars, Processor!issuer_vars,
         Consumers!issuer_vars

LEMMA SameGroup ==
  ASSUME NEW i, NEW p
  PROVE  Processor!Group(i, p) <=> Consumers!Group(i, p)
  BY DEF Processor!Group, Consumers!Group, Processor!Assign, Consumers!Assign,
         Processor!Commit, Consumers!Commit, Processor!Deliver, Consumers!Deliver,
         Processor!StartOffset, Consumers!StartOffset, Processor!HandlerRunsOn,
         Consumers!HandlerRunsOn, Processor!Goto, Consumers!Goto, Processor!EndDelivery,
         Consumers!EndDelivery, Processor!ReturnsOrRejects, Consumers!ReturnsOrRejects,
         Processor!Spend, Consumers!Spend, Processor!Budget, Consumers!Budget,
         Processor!db_vars, Consumers!db_vars, Processor!log_vars, Consumers!log_vars,
         Processor!out_vars, Consumers!out_vars, Processor!handler_vars,
         Consumers!handler_vars, Processor!issuer_vars, Consumers!issuer_vars

LEMMA SameEnvironment ==
  ASSUME NEW r
  PROVE  Processor!Environment(r) <=> Consumers!Environment(r)
  BY DEF Processor!Environment, Consumers!Environment, Processor!Accept, Consumers!Accept,
         Processor!Produce, Consumers!Produce, Processor!Copies, Consumers!Copies,
         Processor!Cardinality, Consumers!Cardinality, Processor!NoRow, Consumers!NoRow,
         Processor!db_vars, Consumers!db_vars, Processor!log_vars, Consumers!log_vars,
         Processor!out_vars, Consumers!out_vars, Processor!handler_vars,
         Consumers!handler_vars, Processor!issuer_vars, Consumers!issuer_vars

LEMMA SamePolls ==
  ASSUME NEW i, NEW s
  PROVE  /\ Publisher!Find(i, s) <=> Outbox!Find(i, s)
         /\ Publisher!Publish(i, s) <=> Outbox!Publish(i, s)
         /\ Publisher!PublishFails(i, s) <=> Outbox!PublishFails(i, s)
         /\ Publisher!MarkAsPublished(i, s) <=> Outbox!MarkAsPublished(i, s)
         /\ Publisher!MarkFails(i, s) <=> Outbox!MarkFails(i, s)
         /\ Publisher!IncrementAttempts(i, s) <=> Outbox!IncrementAttempts(i, s)
         /\ Publisher!IncrementFails(i, s) <=> Outbox!IncrementFails(i, s)
         /\ Publisher!Tick(i, s) <=> Outbox!Tick(i, s)
         /\ Publisher!Crash(i) <=> Outbox!Crash(i)
  BY DEF Publisher!Find, Outbox!Find, Publisher!Publish, Outbox!Publish,
         Publisher!PublishFails, Outbox!PublishFails, Publisher!MarkAsPublished,
         Outbox!MarkAsPublished, Publisher!MarkFails, Outbox!MarkFails,
         Publisher!IncrementAttempts, Outbox!IncrementAttempts, Publisher!IncrementFails,
         Outbox!IncrementFails, Publisher!Tick, Outbox!Tick, Publisher!Crash, Outbox!Crash,
         Publisher!Restart, Outbox!Restart, Publisher!Refused, Outbox!Refused,
         Publisher!Current, Outbox!Current, Publisher!OrderedChoices,
         Outbox!OrderedChoices, Publisher!Pending, Outbox!Pending,
         Publisher!FindPendingBatch, Outbox!FindPendingBatch, Publisher!Min, Outbox!Min,
         Publisher!Cardinality, Outbox!Cardinality, Publisher!Finish, Outbox!Finish,
         Publisher!Continue, Outbox!Continue, Publisher!Catch, Outbox!Catch,
         Publisher!Fails, Outbox!Fails, Publisher!table, Outbox!table, Publisher!poll,
         Outbox!poll, Publisher!life, Outbox!life, Publisher!faults, Outbox!faults

LEMMA SameStart ==
  /\ Init => Processor!Init /\ Consumers!Init /\ Outbox!Init
  /\ UNCHANGED Consumers!vars <=> UNCHANGED Processor!vars
<1>1. Processor!Init <=> Consumers!Init
  BY DEF Processor!Init, Consumers!Init, Processor!NoRow, Consumers!NoRow,
         Processor!FaultKinds, Consumers!FaultKinds
<1>2. Publisher!Init <=> Outbox!Init
  BY DEF Publisher!Init, Outbox!Init, Publisher!NoRow, Outbox!NoRow
<1>3. UNCHANGED Consumers!vars <=> UNCHANGED Processor!vars
  BY DEF Processor!vars, Consumers!vars, Processor!db_vars, Consumers!db_vars,
         Processor!log_vars, Consumers!log_vars, Processor!out_vars, Consumers!out_vars,
         Processor!handler_vars, Consumers!handler_vars, Processor!issuer_vars,
         Consumers!issuer_vars
<1>4. QED
  BY <1>1, <1>2, <1>3 DEF Init

-----------------------------------------------------------------------------
(* The inductive invariant. *)

(* What is known of the processors alone: in every mode, while no partition *)
(* is handed over during its handler, and while the group besides has        *)
(* offsets to start from.                                                   *)
ConsumersInv == Consumers!TypeInv /\ Consumers!ForwardInv

ExclusiveInv == Consumers!OwnInv /\ Consumers!SafeInv

GroupInv == Consumers!OffsetInv /\ Consumers!LossInv

(* A request is stored under its document, with its event, by a post that   *)
(* is over; what has no event has no row, and none is made for it twice.    *)
StoreInv ==
    /\ requestOf \in [Documents -> Posts \cup {NoPost}]
    /\ document \in [Posts -> Documents \cup {NoDocument}]
    /\ post \in [Posts -> {"idle", "find", "create", "done"}]
    /\ \A p \in Posts :
           /\ post[p] \in {"find", "create"} => document[p] \in Documents
           /\ status[p] # NoRow <=> row[p] # NoRow
           /\ status[p] # NoRow =>
                  /\ post[p] = "done" /\ document[p] \in Documents
                  /\ requestOf[document[p]] = p

BudgetInv == errors \in 0 .. MaxErrors /\ crashes \in 0 .. MaxCrashes

SystemInv == Outbox!OutboxInv /\ ConsumersInv /\ StoreInv /\ BudgetInv

LEMMA InitSystem == Init => SystemInv
<1> SUFFICES ASSUME Init
             PROVE  SystemInv
  OBVIOUS
<1>1. Outbox!OutboxInv
  BY OutboxAssumptions, SameStart, Outbox!InitOutbox
<1>2. ConsumersInv
  <2>1. Consumers!Init
    BY SameStart
  <2>2. QED
    BY ConsumersAssumptions, <2>1, Consumers!InitTypes, Consumers!InitForward
       DEF ConsumersInv
<1>3. StoreInv
  BY DEF Init, Processor!Init, Publisher!Init, Intake!Init, StoreInv, Processor!NoRow,
         Publisher!NoRow
<1>4. BudgetInv
  BY SystemBoundsAssumption DEF Init, Publisher!Init, BudgetInv
<1>5. QED
  BY <1>1, <1>2, <1>3, <1>4 DEF SystemInv

-----------------------------------------------------------------------------
(* What the intake and the outbox do, as the processors see it. *)

(* The types the proofs below use, under the names of this module.          *)
LEMMA SystemTypes ==
  ASSUME SystemInv
  PROVE  /\ status \in [Posts -> CardRequestRow]
         /\ row \in [Posts -> OutboxEventRow]
         /\ topic \in [Partitions -> Seq(Posts)]
         /\ position \in [Partitions -> Nat \ {0}]
         /\ \A p \in Posts : PartitionOf[p] \in Partitions /\ Processor!Copies(p) \in Nat
<1>1. /\ status \in [Posts -> CardRequestRow]
      /\ topic \in [Partitions -> Seq(Posts)]
      /\ position \in [Partitions -> Nat \ {0}]
  BY DEF SystemInv, ConsumersInv, Consumers!TypeInv, Consumers!TypeOK, Consumers!CardRequestRow,
         Consumers!CardRequestStatus, Consumers!NoRow, CardRequestRow, CardRequestStatus
<1>2. row \in [Posts -> OutboxEventRow]
  BY DEF SystemInv, Outbox!OutboxInv, Outbox!PollInv, Outbox!OutboxTypeOK, Outbox!OutboxEventRow,
         Outbox!OutboxEventStatus, Outbox!NoRow, OutboxEventRow, OutboxEventStatus
<1>3. [p \in Posts |-> Processor!Copies(p)] \in [Posts -> Nat]
  BY DEF SystemInv, Outbox!OutboxInv, Outbox!PollInv, Outbox!OutboxTypeOK
<1>4. QED
  BY <1>1, <1>2, <1>3, SystemAssumption

(* A message more on a partition is a copy more of its event.               *)
LEMMA AppendCounts ==
  ASSUME topic \in [Partitions -> Seq(Posts)], NEW p \in Posts, PartitionOf[p] \in Partitions,
         topic' = [topic EXCEPT ![PartitionOf[p]] = Append(@, p)]
  PROVE  Processor!Copies(p)' = Processor!Copies(p) + 1
<1> DEFINE old == topic[PartitionOf[p]]
           n == Len(old)
           at == {k \in DOMAIN old : old[k] = p}
<1>1. old \in Seq(Posts) /\ n \in Nat /\ DOMAIN old = 1 .. n
  OBVIOUS
<1>2. topic'[PartitionOf[p]] = Append(old, p)
  OBVIOUS
<1>3. /\ DOMAIN Append(old, p) = 1 .. n + 1
      /\ \A k \in 1 .. n : Append(old, p)[k] = old[k]
      /\ Append(old, p)[n + 1] = p
  BY <1>1
<1>4. {k \in DOMAIN Append(old, p) : Append(old, p)[k] = p} = at \cup {n + 1}
  BY <1>1, <1>3
<1>5. IsFiniteSet(at) /\ n + 1 \notin at
  <2>1. IsFiniteSet(1 .. n)
    BY <1>1, FS_Interval
  <2>2. at \subseteq 1 .. n
    BY <1>1
  <2>3. QED
    BY <1>1, <2>1, <2>2, FS_Subset
<1>6. Cardinality(at \cup {n + 1}) = Cardinality(at) + 1
  BY <1>5, FS_AddElement
<1>7. /\ Processor!Copies(p) = Processor!Cardinality(at)
      /\ Processor!Copies(p)' = Processor!Cardinality(at \cup {n + 1})
  BY <1>2, <1>4 DEF Processor!Copies
<1>8. \A S : Processor!Cardinality(S) = Cardinality(S)
  BY DEF Processor!Cardinality, Cardinality
<1> HIDE DEF at, n
<1>9. QED
  BY <1>6, <1>7, <1>8

(* The bound CardProcessor sets on copies is what the outbox keeps to.      *)
CopiesInv ==
    \A p \in Posts : /\ Processor!Copies(p) \in Nat
                     /\ Processor!Copies(p) <= Cardinality(Instances) + MaxErrors + MaxCrashes

LEMMA CopiesWithin == Outbox!OutboxInv /\ BudgetInv => CopiesInv
<1> SUFFICES ASSUME Outbox!OutboxInv, BudgetInv, NEW p \in Posts
             PROVE  /\ Processor!Copies(p) \in Nat
                    /\ Processor!Copies(p) <= Cardinality(Instances) + MaxErrors + MaxCrashes
  BY DEF CopiesInv
<1>1. [q \in Posts |-> Processor!Copies(q)] \in [Posts -> Nat]
  BY DEF Outbox!OutboxInv, Outbox!PollInv, Outbox!OutboxTypeOK
<1>2. [q \in Posts |-> Processor!Copies(q)][p] <= Outbox!Cardinality(Instances) + errors + crashes
  BY OutboxAssumptions, Outbox!NoneExceeds
<1>3. Processor!Copies(p) <= Cardinality(Instances) + errors + crashes
  BY <1>2 DEF Outbox!Cardinality, Cardinality
<1>4. Processor!Copies(p) \in Nat /\ Cardinality(Instances) \in Nat
  BY <1>1, FS_CardinalityType, SystemAssumption
<1>5. /\ errors \in 0 .. MaxErrors /\ crashes \in 0 .. MaxCrashes
      /\ MaxErrors \in Nat /\ MaxCrashes \in Nat
  BY SystemBoundsAssumption DEF BudgetInv
<1>6. QED
  BY <1>3, <1>4, <1>5

LEMMA CopiesWithinNext == Outbox!OutboxInv' /\ BudgetInv' => CopiesInv'
  BY CopiesWithin, PTL

(* The steps, and what each leaves alone. *)

(* Nothing but a publish of card-issuer moves what the processors see of    *)
(* the topic.                                                               *)
LEMMA NothingSent ==
  ASSUME topic' = topic
  PROVE  UNCHANGED [p \in Posts |-> Processor!Copies(p)]
<1>1. \A p \in Posts : Processor!Copies(p)' = Processor!Copies(p)
  BY DEF Processor!Copies
<1>2. QED
  BY <1>1

LEMMA HandleMoves ==
  ASSUME SystemInv, NEW p \in Posts, Handle(p)
  PROVE  /\ UNCHANGED <<processor_vars, outbox_vars, requestOf, crashes>>
         /\ errors' = errors \/ (errors < MaxErrors /\ errors' = errors + 1)
         /\ post[p] # "done"
         /\ \E x \in {"find", "create", "done"} : post' = [post EXCEPT ![p] = x]
         /\ (document' = document /\ post[p] # "idle")
                \/ \E d \in Documents : document' = [document EXCEPT ![p] = d]
<1>1. CASE \E d \in Documents : Intake!Arrive(p, d)
  BY <1>1 DEF Handle, Intake!Arrive, Intake!db
<1>2. CASE Intake!FindByDocumentNumber(p)
  BY <1>2 DEF Handle, Intake!FindByDocumentNumber, Intake!Respond, Intake!db
<1>3. CASE Intake!CreateConflicts(p)
  BY <1>3 DEF Handle, Intake!CreateConflicts, Intake!Respond, Intake!db
<1>4. CASE Intake!AwaitRejects(p)
  BY <1>4 DEF Handle, Intake!AwaitRejects, Intake!Respond, Intake!Fails, Intake!db
<1>5. QED
  BY <1>1, <1>2, <1>3, <1>4 DEF Handle

LEMMA StoreMoves ==
  ASSUME SystemInv, NEW p \in Posts, Store(p)
  PROVE  /\ UNCHANGED <<cards, processed, topic, committed, owner, position, issuedTopic,
                        dlqTopic, pc, cur, attempt, calls, approvals, faults>>
         /\ UNCHANGED <<attempts, isPublishing, step, batch, document, crashes>>
         /\ errors' = errors \/ (errors < MaxErrors /\ errors' = errors + 1)
         /\ post[p] = "create" /\ post' = [post EXCEPT ![p] = "done"]
         /\ document[p] \in Documents /\ requestOf[document[p]] = NoPost
         /\ requestOf' = [requestOf EXCEPT ![document[p]] = p]
         /\ status[p] = NoRow /\ status' = [status EXCEPT ![p] = "PENDING"]
         /\ row[p] = NoRow /\ row' = [row EXCEPT ![p] = "PENDING"]
<1>1. Intake!CreateWithOutboxEvent(p)
  BY DEF Store
<1>2. /\ post[p] = "create" /\ post' = [post EXCEPT ![p] = "done"]
      /\ requestOf[document[p]] = NoPost
      /\ requestOf' = [requestOf EXCEPT ![document[p]] = p]
      /\ document' = document /\ crashes' = crashes
      /\ errors' = errors \/ (errors < MaxErrors /\ errors' = errors + 1)
  BY <1>1 DEF Intake!CreateWithOutboxEvent, Intake!Respond, Intake!Fails
<1>3. document[p] \in Documents /\ status[p] = NoRow /\ row[p] = NoRow
  BY <1>2 DEF SystemInv, StoreInv
<1>4. QED
  BY <1>2, <1>3 DEF Store

LEMMA PollMoves ==
  ASSUME SystemInv, NEW i \in Instances, NEW s \in Polls, Poll(i, s) \/ Publish(i, s)
  PROVE  /\ Outbox!Settle(i, s)
         /\ UNCHANGED <<intake_vars, status, crashes>>
         /\ errors' = errors \/ (errors < MaxErrors /\ errors' = errors + 1)
<1>1. Outbox!Settle(i, s) /\ UNCHANGED <<intake_vars, status>>
  BY SamePolls DEF Poll, Publish, Outbox!Settle, processor_vars
<1>2. UNCHANGED Outbox!faults \/ Outbox!Fails
  BY <1>1 DEF Outbox!Settle, Outbox!Find, Outbox!Publish, Outbox!PublishFails,
         Outbox!MarkAsPublished, Outbox!MarkFails, Outbox!IncrementAttempts,
         Outbox!IncrementFails
<1>3. QED
  BY <1>1, <1>2 DEF Outbox!faults, Outbox!Fails

LEMMA ConsumeMoves ==
  ASSUME SystemInv, NEW i \in Processors, Consume(i)
  PROVE  /\ UNCHANGED <<intake_vars, outbox_vars, issuer_faults, topic>>
         /\ Processor!Next /\ Consumers!Next
         /\ \A p \in Posts : status'[p] # NoRow <=> status[p] # NoRow
<1>1. /\ UNCHANGED <<intake_vars, outbox_vars, issuer_faults>>
      /\ Processor!Next
  BY DEF Consume, Processor!Next
<1>2. \/ Consumers!Execute(i) \/ Consumers!AwaitRejects(i)
      \/ Consumers!Crash(i)
      \/ \E p \in Partitions : Consumers!Group(i, p)
  BY SameExecute, SameFaults, SameGroup DEF Consume
<1>3. Consumers!Next
  BY <1>2 DEF Consumers!Next
<1>4. CASE Consumers!Execute(i) \/ Consumers!AwaitRejects(i)
  <2>1. Consumers!TypeInv /\ Consumers!ForwardInv
    BY DEF SystemInv, ConsumersInv
  <2>2. topic' = topic
    BY ConsumersAssumptions, <1>4, <2>1, Consumers!StepKeepsHands
  <2>3. \A p \in Posts :
            \/ status'[p] = status[p]
            \/ p = cur[i] /\ status[p] # Consumers!NoRow /\ status'[p] \in Consumers!Beyond
    BY ConsumersAssumptions, <1>4, <2>1, Consumers!StepMovesForward
  <2>4. \A p \in Posts : status'[p] # NoRow <=> status[p] # NoRow
    BY <2>3 DEF Consumers!Beyond, Consumers!NoRow
  <2>5. QED
    BY <1>1, <1>3, <2>2, <2>4
<1>5. CASE Consumers!Crash(i) \/ \E p \in Partitions : Consumers!Group(i, p)
  <2>1. topic' = topic /\ status' = status
    BY <1>5 DEF Consumers!Crash, Consumers!Group, Consumers!Assign, Consumers!Commit,
           Consumers!Deliver, Consumers!db_vars, Consumers!log_vars
  <2>2. QED
    BY <1>1, <1>3, <2>1
<1>6. QED
  BY <1>2, <1>4, <1>5

(* What a poll past its find has in hand is a stored request.               *)
LEMMA HandsAreStored ==
  ASSUME SystemInv, NEW i \in Instances, NEW s \in Polls,
         step[i][s] \in {"publish", "mark", "increment"}
  PROVE  /\ Outbox!Current(i, s) \in Posts /\ Publisher!Current(i, s) = Outbox!Current(i, s)
         /\ row[Outbox!Current(i, s)] # NoRow /\ status[Outbox!Current(i, s)] # NoRow
<1>1. Outbox!PollInv /\ Outbox!HeldInv
  BY DEF SystemInv, Outbox!OutboxInv
<1>2. /\ Outbox!Current(i, s) \in Posts /\ Outbox!Current(i, s) = batch[i][s][1]
      /\ 1 \in DOMAIN batch[i][s]
  BY OutboxAssumptions, <1>1, Outbox!InHand
<1>3. row[batch[i][s][1]] # NoRow
  BY <1>1, <1>2 DEF Outbox!HeldInv, Outbox!NoRow
<1>4. QED
  BY <1>2, <1>3 DEF SystemInv, StoreInv, Publisher!Current, Outbox!Current

LEMMA TickMoves ==
  ASSUME NEW i \in Instances, NEW s \in Polls, Tick(i, s)
  PROVE  Outbox!Tick(i, s) /\ UNCHANGED <<intake_vars, processor_vars, row, issuer_faults>>
<1>1. Outbox!Tick(i, s)
  BY SamePolls DEF Tick
<1>2. QED
  BY <1>1 DEF Tick, Outbox!Tick, Outbox!table, Outbox!faults, issuer_faults

LEMMA IssuerCrashMoves ==
  ASSUME SystemInv, NEW i \in Instances, IssuerCrash(i)
  PROVE  /\ Outbox!Crash(i)
         /\ UNCHANGED <<processor_vars, requestOf, document, row, errors>>
         /\ crashes < MaxCrashes /\ crashes' = crashes + 1
         /\ \A p \in Posts : post'[p] = post[p] \/ (post'[p] = "done" /\ post[p] # "idle")
         /\ post' \in [Posts -> {"idle", "find", "create", "done"}]
<1>1. Outbox!Crash(i)
  BY SamePolls DEF IssuerCrash
<1>2. /\ UNCHANGED <<processor_vars, row, errors>>
      /\ crashes < MaxCrashes /\ crashes' = crashes + 1
  BY <1>1 DEF IssuerCrash, Outbox!Crash, Outbox!Restart, Outbox!table
<1>3. PICK ps \in SUBSET Intake!UnderWay :
          /\ UNCHANGED <<requestOf, document>>
          /\ post' = [p \in Posts |-> IF p \in ps THEN "done" ELSE post[p]]
  BY DEF IssuerCrash, Intake!Crash, Intake!db
<1>4. \A p \in ps : post[p] # "idle"
  BY DEF Intake!UnderWay
<1>5. QED
  BY <1>1, <1>2, <1>3, <1>4 DEF SystemInv, StoreInv

-----------------------------------------------------------------------------
(* Each part of the invariant is kept. *)

(* What is not a step of the outbox commits an event, or fails, elsewhere.  *)
LEMMA ElsewhereKeepsOutbox ==
  ASSUME SystemInv, UNCHANGED <<topic, attempts, isPublishing, step, batch, crashes>>,
         \/ row' = row
         \/ \E p \in Posts : row[p] = NoRow /\ row' = [row EXCEPT ![p] = "PENDING"],
         errors' = errors \/ errors' = errors + 1
  PROVE  Outbox!OutboxInv'
<1>1. UNCHANGED <<attempts, [p \in Posts |-> Processor!Copies(p)], Outbox!poll, Outbox!life,
                  crashes>>
  BY NothingSent DEF Outbox!poll, Outbox!life
<1>2. Outbox!OutboxInv
  BY DEF SystemInv
<1>3. \/ row' = row
      \/ \E p \in Posts : row[p] = Outbox!NoRow /\ row' = [row EXCEPT ![p] = "PENDING"]
  BY DEF Outbox!NoRow
<1>4. QED
  BY OutboxAssumptions, <1>1, <1>2, <1>3, Outbox!CommitsElsewhere

LEMMA NextOutboxInv == SystemInv /\ [Next]_vars => Outbox!OutboxInv'
<1> SUFFICES ASSUME SystemInv, [Next]_vars
             PROVE  Outbox!OutboxInv'
  OBVIOUS
<1>1. ASSUME Outbox!Next
      PROVE  Outbox!OutboxInv'
  <2>1. Outbox!OutboxInv
    BY DEF SystemInv
  <2>2. QED
    BY OutboxAssumptions, <1>1, <2>1, Outbox!NextOutbox
<1>2. CASE UNCHANGED vars
  BY <1>2, ElsewhereKeepsOutbox DEF vars, processor_vars, outbox_vars, issuer_faults
<1>3. ASSUME NEW p \in Posts, Handle(p)
      PROVE  Outbox!OutboxInv'
  BY <1>3, HandleMoves, ElsewhereKeepsOutbox DEF processor_vars, outbox_vars
<1>4. ASSUME NEW p \in Posts, Store(p)
      PROVE  Outbox!OutboxInv'
  BY <1>4, StoreMoves, ElsewhereKeepsOutbox
<1>5. ASSUME NEW i \in Instances, NEW s \in Polls, Tick(i, s)
      PROVE  Outbox!OutboxInv'
  BY <1>1, <1>5, TickMoves DEF Outbox!Next
<1>6. ASSUME NEW i \in Instances, NEW s \in Polls, Poll(i, s) \/ Publish(i, s)
      PROVE  Outbox!OutboxInv'
  BY <1>1, <1>6, PollMoves DEF Outbox!Next
<1>7. ASSUME NEW i \in Instances, IssuerCrash(i)
      PROVE  Outbox!OutboxInv'
  BY <1>1, <1>7, IssuerCrashMoves DEF Outbox!Next
<1>8. ASSUME NEW i \in Processors, Consume(i)
      PROVE  Outbox!OutboxInv'
  BY <1>8, ConsumeMoves, ElsewhereKeepsOutbox DEF outbox_vars, issuer_faults
<1>9. QED
  BY <1>2, <1>3, <1>4, <1>5, <1>6, <1>7, <1>8 DEF Next

LEMMA NextBudget == SystemInv /\ [Next]_vars => BudgetInv'
<1> SUFFICES ASSUME SystemInv, [Next]_vars
             PROVE  BudgetInv'
  OBVIOUS
<1> DEFINE Within == /\ errors' = errors \/ (errors < MaxErrors /\ errors' = errors + 1)
                     /\ crashes' = crashes \/ (crashes < MaxCrashes /\ crashes' = crashes + 1)
<1>1. UNCHANGED vars => Within
  BY DEF vars, issuer_faults
<1>2. Next => Within
  <2>1. ASSUME NEW p \in Posts, Handle(p)
        PROVE  Within
    BY <2>1, HandleMoves
  <2>2. ASSUME NEW p \in Posts, Store(p)
        PROVE  Within
    BY <2>2, StoreMoves
  <2>3. ASSUME NEW i \in Instances, NEW s \in Polls, Tick(i, s)
        PROVE  Within
    BY <2>3, TickMoves DEF issuer_faults
  <2>4. ASSUME NEW i \in Instances, NEW s \in Polls, Poll(i, s) \/ Publish(i, s)
        PROVE  Within
    BY <2>4, PollMoves
  <2>5. ASSUME NEW i \in Instances, IssuerCrash(i)
        PROVE  Within
    BY <2>5, IssuerCrashMoves
  <2>6. ASSUME NEW i \in Processors, Consume(i)
        PROVE  Within
    BY <2>6, ConsumeMoves DEF issuer_faults
  <2> HIDE DEF Within
  <2>7. QED
    BY <2>1, <2>2, <2>3, <2>4, <2>5, <2>6 DEF Next
<1>3. /\ errors \in 0 .. MaxErrors /\ crashes \in 0 .. MaxCrashes
      /\ MaxErrors \in Nat /\ MaxCrashes \in Nat
  BY SystemBoundsAssumption DEF SystemInv, BudgetInv
<1>4. Within => BudgetInv'
  BY <1>3 DEF BudgetInv
<1>5. QED
  BY <1>1, <1>2, <1>4


LEMMA NextStoreInv == SystemInv /\ [Next]_vars => StoreInv'
<1> SUFFICES ASSUME SystemInv, [Next]_vars
             PROVE  StoreInv'
  OBVIOUS
<1>1. StoreInv /\ status \in [Posts -> CardRequestRow] /\ row \in [Posts -> OutboxEventRow]
  BY SystemTypes DEF SystemInv
<1>2. ASSUME UNCHANGED <<requestOf, document, post>>,
             \A p \in Posts : (row'[p] # NoRow <=> row[p] # NoRow)
                              /\ (status'[p] # NoRow <=> status[p] # NoRow)
      PROVE  StoreInv'
  BY <1>1, <1>2 DEF StoreInv
<1>3. CASE UNCHANGED vars
  BY <1>2, <1>3 DEF vars, processor_vars, outbox_vars, intake_vars
<1>4. ASSUME NEW p \in Posts, Handle(p)
      PROVE  StoreInv'
  <2>1. /\ UNCHANGED <<status, row, requestOf>> /\ post[p] # "done"
        /\ \E x \in {"find", "create", "done"} : post' = [post EXCEPT ![p] = x]
        /\ (document' = document /\ post[p] # "idle")
               \/ \E d \in Documents : document' = [document EXCEPT ![p] = d]
    BY <1>4, HandleMoves DEF processor_vars, outbox_vars
  <2>2. PICK x \in {"find", "create", "done"} : post' = [post EXCEPT ![p] = x]
    BY <2>1
  <2>3. /\ post' \in [Posts -> {"idle", "find", "create", "done"}]
        /\ \A q \in Posts : post'[q] = IF q = p THEN x ELSE post[q]
    BY <1>1, <2>2 DEF StoreInv
  <2>4. /\ document' \in [Posts -> Documents \cup {NoDocument}]
        /\ \A q \in Posts \ {p} : document'[q] = document[q]
        /\ document'[p] \in Documents
    BY <1>1, <2>1 DEF StoreInv
  <2>5. status[p] = NoRow
    BY <1>1, <2>1 DEF StoreInv
  <2>6. QED
    BY <1>1, <2>1, <2>3, <2>4, <2>5 DEF StoreInv
<1>5. ASSUME NEW p \in Posts, Store(p)
      PROVE  StoreInv'
  <2>1. /\ document' = document
        /\ post[p] = "create" /\ post' = [post EXCEPT ![p] = "done"]
        /\ document[p] \in Documents /\ requestOf[document[p]] = NoPost
        /\ requestOf' = [requestOf EXCEPT ![document[p]] = p]
        /\ status[p] = NoRow /\ status' = [status EXCEPT ![p] = "PENDING"]
        /\ row[p] = NoRow /\ row' = [row EXCEPT ![p] = "PENDING"]
    BY <1>5, StoreMoves
  <2>2. \A q \in Posts : /\ post'[q] = IF q = p THEN "done" ELSE post[q]
                         /\ status'[q] = IF q = p THEN "PENDING" ELSE status[q]
                         /\ row'[q] = IF q = p THEN "PENDING" ELSE row[q]
    BY <1>1, <2>1 DEF StoreInv
  <2>3. /\ requestOf' \in [Documents -> Posts \cup {NoPost}]
        /\ post' \in [Posts -> {"idle", "find", "create", "done"}]
    BY <1>1, <2>1 DEF StoreInv
  <2>4. ASSUME NEW q \in Posts, status'[q] # NoRow
        PROVE  post'[q] = "done" /\ document'[q] \in Documents /\ requestOf'[document'[q]] = q
    <3>1. CASE q = p
      BY <1>1, <2>1, <2>2, <3>1 DEF StoreInv
    <3>2. CASE q # p
      <4>1. post[q] = "done" /\ document[q] \in Documents /\ requestOf[document[q]] = q
        BY <1>1, <2>2, <2>4, <3>2 DEF StoreInv
      <4>2. document[q] # document[p]
        BY <2>1, <4>1, SystemAssumption
      <4>3. QED
        BY <1>1, <2>1, <2>2, <3>2, <4>1, <4>2 DEF StoreInv
    <3>3. QED
      BY <3>1, <3>2
  <2>5. \A q \in Posts : /\ post'[q] \in {"find", "create"} => document'[q] \in Documents
                         /\ status'[q] # NoRow <=> row'[q] # NoRow
    BY <1>1, <2>1, <2>2 DEF StoreInv
  <2>6. QED
    BY <1>1, <2>1, <2>3, <2>4, <2>5 DEF StoreInv
<1>6. ASSUME NEW i \in Instances, NEW s \in Polls, Tick(i, s)
      PROVE  StoreInv'
  BY <1>2, <1>6, TickMoves DEF intake_vars, processor_vars
<1>7. ASSUME NEW i \in Instances, NEW s \in Polls, Poll(i, s) \/ Publish(i, s)
      PROVE  StoreInv'
  <2>1. Outbox!Settle(i, s) /\ UNCHANGED <<requestOf, document, post, status>>
    BY <1>7, PollMoves DEF intake_vars
  <2>2. Outbox!OutboxInv
    BY DEF SystemInv
  <2>3. \A p \in Posts : row'[p] # Outbox!NoRow <=> row[p] # Outbox!NoRow
    BY OutboxAssumptions, <2>1, <2>2, Outbox!SettleMarksHeld
  <2>4. QED
    BY <1>2, <2>1, <2>3 DEF Outbox!NoRow
<1>8. ASSUME NEW i \in Instances, IssuerCrash(i)
      PROVE  StoreInv'
  <2>1. /\ UNCHANGED <<status, requestOf, document, row>>
        /\ \A p \in Posts : post'[p] = post[p] \/ (post'[p] = "done" /\ post[p] # "idle")
        /\ post' \in [Posts -> {"idle", "find", "create", "done"}]
    BY <1>8, IssuerCrashMoves DEF processor_vars
  <2>2. ASSUME NEW p \in Posts
        PROVE  /\ post'[p] \in {"find", "create"} => document'[p] \in Documents
               /\ status'[p] # NoRow <=> row'[p] # NoRow
               /\ status'[p] # NoRow => post'[p] = "done" /\ document'[p] \in Documents
                                        /\ requestOf'[document'[p]] = p
    <3>1. /\ post[p] \in {"find", "create"} => document[p] \in Documents
          /\ status[p] # NoRow <=> row[p] # NoRow
          /\ status[p] # NoRow => post[p] = "done" /\ document[p] \in Documents
                                  /\ requestOf[document[p]] = p
      BY <1>1 DEF StoreInv
    <3>2. QED
      BY <2>1, <3>1
  <2>3. QED
    BY <1>1, <2>1, <2>2 DEF StoreInv
<1>9. ASSUME NEW i \in Processors, Consume(i)
      PROVE  StoreInv'
  BY <1>2, <1>9, ConsumeMoves DEF intake_vars, outbox_vars
<1>10. QED
  BY <1>3, <1>4, <1>5, <1>6, <1>7, <1>8, <1>9 DEF Next


-----------------------------------------------------------------------------
(* The rest of the system is the environment CardProcessor assumes. *)

LEMMA StoreAccepts ==
  ASSUME SystemInv, NEW p \in Posts, Store(p)
  PROVE  Processor!Next
<1>1. /\ UNCHANGED <<cards, processed, topic, committed, owner, position, issuedTopic,
                     dlqTopic, pc, cur, attempt, calls, approvals, faults>>
      /\ status[p] = NoRow /\ status' = [status EXCEPT ![p] = "PENDING"]
  BY StoreMoves
<1>2. Processor!Accept(p)
  BY <1>1 DEF Processor!Accept, Processor!NoRow, Processor!log_vars, Processor!out_vars,
              Processor!handler_vars, Processor!issuer_vars
<1>3. QED
  BY <1>2 DEF Processor!Next, Processor!Environment

LEMMA PublishProduces ==
  ASSUME SystemInv, [Next]_vars, NEW i \in Instances, NEW s \in Polls, Publish(i, s)
  PROVE  [Processor!Next]_(Processor!vars)
<1>1. PICK p \in Posts :
      /\ status[p] # NoRow
      /\ topic' = topic \/ topic' = [topic EXCEPT ![PartitionOf[p]] = Append(@, p)]
      /\ UNCHANGED <<status, cards, processed, committed, owner, position, issuedTopic,
                     dlqTopic, pc, cur, attempt, calls, approvals, faults>>
  BY HandsAreStored DEF Publish
<1>2. p \in Posts /\ status[p] # NoRow
  BY <1>1
<1>3. CASE topic' = topic
  BY <1>1, <1>3 DEF Processor!vars, Processor!db_vars, Processor!log_vars, Processor!out_vars,
                    Processor!handler_vars, Processor!issuer_vars
<1>4. CASE topic' = [topic EXCEPT ![PartitionOf[p]] = Append(@, p)]
  <2>1. Processor!Copies(p)' = Processor!Copies(p) + 1
    <3>1. topic \in [Partitions -> Seq(Posts)] /\ PartitionOf[p] \in Partitions
      BY <1>2, SystemTypes
    <3>2. QED
      BY <1>2, <1>4, <3>1, AppendCounts
  <2>2. Processor!Copies(p)' <= Cardinality(Instances) + MaxErrors + MaxCrashes
    <3>1. CopiesInv'
      BY NextOutboxInv, NextBudget, CopiesWithinNext
    <3>2. \A q \in Posts :
              Processor!Copies(q)' <= Cardinality(Instances) + MaxErrors + MaxCrashes
      BY <3>1 DEF CopiesInv
    <3>3. QED
      BY <1>2, <3>2 DEF Processor!Copies
  <2>3. Processor!Copies(p) < Cardinality(Instances) + MaxErrors + MaxCrashes
    <3>1. Processor!Copies(p) \in Nat
      BY <1>2, SystemTypes
    <3>2. \A m, n \in Nat : m + 1 <= n => m < n
      OBVIOUS
    <3>3. QED
      BY <2>1, <2>2, <3>1, <3>2, CopiesBounded
  <2>4. Processor!Produce(p)
    BY <1>1, <1>2, <1>4, <2>3
       DEF Processor!Produce, Processor!NoRow, Processor!db_vars, Processor!out_vars,
           Processor!handler_vars, Processor!issuer_vars, Processor!Cardinality, Cardinality
  <2>5. QED
    BY <1>2, <2>4 DEF Processor!Next, Processor!Environment
<1>5. QED
  BY <1>1, <1>3, <1>4

LEMMA NextProcessor == SystemInv /\ [Next]_vars => [Processor!Next]_(Processor!vars)
<1> SUFFICES ASSUME SystemInv, [Next]_vars
             PROVE  [Processor!Next]_(Processor!vars)
  OBVIOUS
<1>1. ASSUME UNCHANGED processor_vars
      PROVE  UNCHANGED Processor!vars
  BY <1>1 DEF processor_vars, Processor!vars, Processor!db_vars, Processor!log_vars,
              Processor!out_vars, Processor!handler_vars, Processor!issuer_vars
<1>2. CASE UNCHANGED vars
  BY <1>1, <1>2 DEF vars
<1>3. ASSUME NEW p \in Posts, Handle(p)
      PROVE  [Processor!Next]_(Processor!vars)
  BY <1>1, <1>3 DEF Handle
<1>4. ASSUME NEW p \in Posts, Store(p)
      PROVE  [Processor!Next]_(Processor!vars)
  BY <1>4, StoreAccepts
<1>5. ASSUME NEW i \in Instances, NEW s \in Polls, Tick(i, s) \/ Poll(i, s)
      PROVE  [Processor!Next]_(Processor!vars)
  BY <1>1, <1>5 DEF Tick, Poll
<1>6. ASSUME NEW i \in Instances, NEW s \in Polls, Publish(i, s)
      PROVE  [Processor!Next]_(Processor!vars)
  BY <1>6, PublishProduces
<1>7. ASSUME NEW i \in Instances, IssuerCrash(i)
      PROVE  [Processor!Next]_(Processor!vars)
  BY <1>1, <1>7 DEF IssuerCrash
<1>8. ASSUME NEW i \in Processors, Consume(i)
      PROVE  [Processor!Next]_(Processor!vars)
  BY <1>8, ConsumeMoves
<1>9. QED
  BY <1>2, <1>3, <1>4, <1>5, <1>6, <1>7, <1>8 DEF Next

(* The other copy takes the step too.                                       *)
LEMMA NextConsumers ==
  ASSUME [Processor!Next]_(Processor!vars)
  PROVE  [Consumers!Next]_(Consumers!vars)
<1>1. CASE UNCHANGED Processor!vars
  BY <1>1, SameStart
<1>2. CASE Processor!Next
  <2>1. ASSUME NEW r \in Posts, Processor!Environment(r)
        PROVE  Consumers!Next
    BY <2>1, SameEnvironment DEF Consumers!Next
  <2>2. ASSUME NEW i \in Processors, NEW p \in Partitions, Processor!Group(i, p)
        PROVE  Consumers!Next
    BY <2>2, SameGroup DEF Consumers!Next
  <2>3. ASSUME NEW i \in Processors,
               Processor!Execute(i) \/ Processor!AwaitRejects(i) \/ Processor!Crash(i)
        PROVE  Consumers!Next
    BY <2>3, SameExecute, SameFaults DEF Consumers!Next
  <2>4. QED
    BY <1>2, <2>1, <2>2, <2>3 DEF Processor!Next
<1>3. QED
  BY <1>1, <1>2

LEMMA NextConsumersInv == SystemInv /\ [Next]_vars => ConsumersInv'
<1> SUFFICES ASSUME SystemInv, [Next]_vars
             PROVE  ConsumersInv'
  OBVIOUS
<1>1. [Consumers!Next]_(Consumers!vars)
  BY NextProcessor, NextConsumers
<1>2. Consumers!TypeInv /\ Consumers!ForwardInv
  BY DEF SystemInv, ConsumersInv
<1>3. Consumers!TypeInv'
  BY ConsumersAssumptions, <1>1, <1>2, Consumers!NextTypes
<1>4. Consumers!ForwardInv'
  BY ConsumersAssumptions, <1>1, <1>2, Consumers!NextForward
<1>5. QED
  BY <1>3, <1>4 DEF ConsumersInv

LEMMA NextSystem == SystemInv /\ [Next]_vars => SystemInv'
  BY NextOutboxInv, NextConsumersInv, NextStoreInv, NextBudget DEF SystemInv

(* What the modes add. *)

LEMMA InitExclusive == Init => ExclusiveInv
  BY ConsumersAssumptions, SameStart, Consumers!InitOwn, Consumers!InitSafe DEF ExclusiveInv

LEMMA NextExclusive ==
  ASSUME SessionExpiry = FALSE
  PROVE  SystemInv /\ ExclusiveInv /\ [Next]_vars => ExclusiveInv'
<1> SUFFICES ASSUME SystemInv, ExclusiveInv, [Next]_vars
             PROVE  ExclusiveInv'
  OBVIOUS
<1>1. [Consumers!Next]_(Consumers!vars)
  BY NextProcessor, NextConsumers
<1>2. Consumers!TypeInv /\ Consumers!OwnInv /\ Consumers!SafeInv
  BY DEF SystemInv, ConsumersInv, ExclusiveInv
<1>3. Consumers!OwnInv'
  BY ConsumersAssumptions, <1>1, <1>2, Consumers!NextOwn
<1>4. Consumers!SafeInv'
  BY ConsumersAssumptions, <1>1, <1>2, Consumers!NextSafe
<1>5. QED
  BY <1>3, <1>4 DEF ExclusiveInv

LEMMA InitGroup ==
  ASSUME FreshGroup = FALSE
  PROVE  Init => GroupInv
  BY ConsumersAssumptions, SameStart, Consumers!InitOffsets, Consumers!InitLosses DEF GroupInv

LEMMA NextGroup ==
  ASSUME SessionExpiry = FALSE
  PROVE  SystemInv /\ ExclusiveInv /\ GroupInv /\ [Next]_vars => GroupInv'
<1> SUFFICES ASSUME SystemInv, ExclusiveInv, GroupInv, [Next]_vars
             PROVE  GroupInv'
  OBVIOUS
<1>1. [Consumers!Next]_(Consumers!vars)
  BY NextProcessor, NextConsumers
<1>2. /\ Consumers!TypeInv /\ Consumers!OwnInv /\ Consumers!SafeInv
      /\ Consumers!ForwardInv /\ Consumers!OffsetInv /\ Consumers!LossInv
  BY DEF SystemInv, ConsumersInv, ExclusiveInv, GroupInv
<1>3. Consumers!OffsetInv'
  BY ConsumersAssumptions, <1>1, <1>2, Consumers!NextOffsets
<1>4. Consumers!LossInv'
  BY ConsumersAssumptions, <1>1, <1>2, Consumers!NextLosses
<1>5. QED
  BY <1>3, <1>4 DEF GroupInv

-----------------------------------------------------------------------------
(* Theorems. *)

(* The intake and the outbox give the processors no more than CardProcessor *)
(* assumes of its environment, and the three steps the components share are *)
(* single steps of it: every behaviour of the system is one of              *)
(* CardProcessor's, with a copy of an event allowed for each instance and   *)
(* each failure of card-issuer.                                             *)
THEOREM ImplementsProcessor == Spec => ProcessorSpec
<1>1. Init => Processor!Init
  BY SameStart
<1>2. QED
  BY InitSystem, NextSystem, NextProcessor, <1>1, PTL DEF Spec, ProcessorSpec, Processor!Spec

LEMMA DocumentsAreApart ==
  ASSUME SystemInv, ExclusiveInv
  PROVE  OneCardPerDocument
<1>1. /\ cards \subseteq Posts
      /\ \A p \in Posts : approvals[p] \in Nat /\ issuedTopic[p] \in Nat
      /\ \A p \in Posts : Consumers!RequestInv(p)
  BY DEF SystemInv, ConsumersInv, ExclusiveInv, Consumers!TypeInv, Consumers!TypeOK,
         Consumers!SafeInv
<1>2. ASSUME NEW p \in Posts, approvals[p] > 0 \/ p \in cards \/ issuedTopic[p] > 0
      PROVE  requestOf[document[p]] = p
  <2>1. status[p] # NoRow
    BY <1>1, <1>2 DEF Consumers!RequestInv, Consumers!Untouched, Consumers!OutcomeAgrees,
                      Consumers!NoRow
  <2>2. QED
    BY <2>1 DEF SystemInv, StoreInv
<1>3. ASSUME NEW p \in Posts
      PROVE  approvals[p] <= 1 /\ issuedTopic[p] <= 1
  BY <1>1 DEF Consumers!RequestInv, Consumers!OutcomeAgrees
<1>4. ASSUME NEW p \in Posts, approvals[p] > 0 \/ p \in cards \/ issuedTopic[p] > 0,
             NEW q \in Posts \ {p}, document[q] = document[p]
      PROVE  approvals[q] = 0 /\ q \notin cards /\ issuedTopic[q] = 0
  <2>1. ~(approvals[q] > 0 \/ q \in cards \/ issuedTopic[q] > 0)
    BY <1>2, <1>4
  <2>2. approvals[q] \in Nat /\ issuedTopic[q] \in Nat
    BY <1>1
  <2>3. QED
    BY <2>1, <2>2
<1>5. QED
  BY <1>3, <1>4 DEF OneCardPerDocument

(* One document, one card: whatever clients retry, whichever instances race *)
(* for the document, and however often the outbox publishes and Kafka       *)
(* delivers, the external issuer grants one card for it at most, one is     *)
(* stored and one is announced; no request for it is granted or announced   *)
(* twice.  It takes that no partition is handed over during its handler.    *)
THEOREM OneCardForDocument ==
  ASSUME SessionExpiry = FALSE
  PROVE  Spec => []OneCardPerDocument
<1>1. Init => SystemInv /\ ExclusiveInv
  BY InitSystem, InitExclusive
<1>2. SystemInv /\ ExclusiveInv /\ [Next]_vars => (SystemInv /\ ExclusiveInv)'
  BY NextSystem, NextExclusive
<1>3. SystemInv /\ ExclusiveInv => OneCardPerDocument
  BY DocumentsAreApart
<1>4. QED
  BY <1>1, <1>2, <1>3, PTL DEF Spec

(* A request that is PENDING and not under way has its event on the topic,  *)
(* behind the group.                                                        *)
LEMMA DroppedIsLost ==
  ASSUME SystemInv, NEW p \in Posts, status[p] = "PENDING", ~UnderWay(p)
  PROVE  p \in Consumers!Losses
<1> DEFINE part == PartitionOf[p]
           at == {k \in DOMAIN topic[part] : topic[part][k] = p}
<1>1. row[p] = "PUBLISHED"
  <2>1. row[p] # NoRow /\ row[p] # "PENDING" /\ row[p] \in OutboxEventRow
    BY SystemTypes DEF SystemInv, StoreInv, UnderWay
  <2>2. QED
    BY <2>1 DEF OutboxEventRow, OutboxEventStatus
<1>2. Processor!Copies(p) > 0
  <2>1. [q \in Posts |-> Processor!Copies(q)][p] > 0
    BY <1>1 DEF SystemInv, Outbox!OutboxInv, Outbox!SentInv, Outbox!PublishedIsOnTopic
  <2>2. QED
    BY <2>1
<1>3. at # {}
  <2>1. Processor!Copies(p) = Cardinality(at)
    BY DEF Processor!Copies, Processor!Cardinality, Cardinality
  <2> HIDE DEF at
  <2>2. Cardinality({}) = 0
    BY FS_EmptySet
  <2>3. QED
    BY <1>2, <2>1, <2>2
<1>4. \A k \in DOMAIN topic[part] : topic[part][k] = p => k < position[part]
  <2>1. topic[part] \in Seq(Posts) /\ position[part] \in Nat
    BY SystemTypes
  <2>2. \A k \in DOMAIN topic[part] : topic[part][k] = p => ~(k >= position[part])
    BY DEF UnderWay
  <2>3. QED
    BY <2>1, <2>2
<1>5. Consumers!Passed(p)
  BY <1>3, <1>4 DEF Consumers!Passed
<1>6. ~Consumers!WorkedOn(p)
  BY DEF UnderWay, Processor!WorkedOn, Consumers!WorkedOn
<1>7. QED
  BY <1>5, <1>6 DEF Consumers!Losses, Consumers!Abandoned

LEMMA DropsArePaid ==
  ASSUME SystemInv, GroupInv
  PROVE  PendingIsUnderWay
<1> DEFINE dropped == {p \in Posts : status[p] = "PENDING" /\ ~UnderWay(p)}
<1>1. dropped \subseteq Consumers!Losses
  BY DroppedIsLost
<1>2. IsFiniteSet(Consumers!Losses)
  BY SystemAssumption, FS_Subset DEF Consumers!Losses
<1>3. /\ Cardinality(dropped) <= Cardinality(Consumers!Losses)
      /\ Cardinality(dropped) \in Nat /\ Cardinality(Consumers!Losses) \in Nat
  BY <1>1, <1>2, FS_Subset, FS_CardinalityType
<1>4. Cardinality(Consumers!Losses) <= Consumers!Paid
  BY DEF GroupInv, Consumers!LossInv, Consumers!Cardinality, Cardinality
<1>5. Consumers!Paid = faults["error"] + faults["crash"] /\ Consumers!Paid \in Nat
  BY DEF SystemInv, ConsumersInv, Consumers!TypeInv, Consumers!TypeOK, Consumers!Paid,
         Consumers!FaultKinds
<1> HIDE DEF dropped
<1>6. Cardinality(dropped) <= faults["error"] + faults["crash"]
  BY <1>3, <1>4, <1>5
<1>7. QED
  BY <1>6 DEF dropped, PendingIsUnderWay

(* No hand-over drops a request: while one is PENDING its event waits in    *)
(* the outbox, ahead of the group or in a handler, whatever card-issuer     *)
(* suffered, but for one request at most for each failure of a processor.   *)
(* It takes a group that has committed an offset before, as a fresh one     *)
(* passes over what was published before it came, and that no partition is  *)
(* handed over during its handler.                                          *)
THEOREM NothingDropped ==
  ASSUME SessionExpiry = FALSE, FreshGroup = FALSE
  PROVE  Spec => []PendingIsUnderWay
<1> DEFINE All == SystemInv /\ ExclusiveInv /\ GroupInv
<1>1. Init => All
  BY InitSystem, InitExclusive, InitGroup
<1>2. All /\ [Next]_vars => All'
  BY NextSystem, NextExclusive, NextGroup
<1>3. All => PendingIsUnderWay
  BY DropsArePaid
<1>4. QED
  BY <1>1, <1>2, <1>3, PTL DEF Spec
=============================================================================
