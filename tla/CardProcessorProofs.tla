------------------------ MODULE CardProcessorProofs ------------------------
(***************************************************************************)
(* Theorems about CardProcessor, for any number of requests, processors,   *)
(* partitions, retries and faults.                                         *)
(***************************************************************************)
EXTENDS CardProcessor, TLAPS

USE DEF NoRow

(* Types, with the range of the loop counter that makes them inductive.     *)
TypeInv == TypeOK /\ AttemptInv

LEMMA InitTypes == Init => TypeInv
  BY PartitionsAssumption, NothingAssumption, BoundsAssumption
     DEF Init, TypeInv, TypeOK, AttemptInv, CardRequestRow, CardRequestStatus,
         Steps, RemoteSteps, FaultKinds

(* A handler that ends leaves its processor idle with nothing in hand.      *)
LEMMA EndDeliveryTypes ==
  ASSUME TypeInv, NEW i \in Processors, pc[i] # "idle", EndDelivery(i)
  PROVE  /\ pc' \in [Processors -> Steps]
         /\ cur' \in [Processors -> Requests \cup {NoRequest}]
         /\ \A j \in Processors : cur'[j] = NoRequest <=> pc'[j] = "idle"
         /\ attempt' \in [Processors -> 0 .. MAX_RETRIES + 1]
         /\ position' \in [Partitions -> Nat \ {0}]
         /\ AttemptInv'
  BY PartitionsAssumption, NothingAssumption, BoundsAssumption
     DEF TypeInv, TypeOK, AttemptInv, EndDelivery, Goto, Steps, RemoteSteps

LEMMA SpendTypes ==
  ASSUME TypeInv, NEW kind \in FaultKinds, Spend(kind)
  PROVE  faults' \in [FaultKinds -> Nat]
  BY DEF TypeInv, TypeOK, Spend

(* A call that returns moves the handler to its next step.                  *)
LEMMA ReturnsTypes ==
  ASSUME TypeInv, NEW i \in Processors, pc[i] # "idle",
         NEW next \in Steps \ {"idle", "issueCard", "backoff"},
         ReturnsOrRejects(i, next)
  PROVE  /\ pc' \in [Processors -> Steps]
         /\ cur' \in [Processors -> Requests \cup {NoRequest}]
         /\ \A j \in Processors : cur'[j] = NoRequest <=> pc'[j] = "idle"
         /\ attempt' \in [Processors -> 0 .. MAX_RETRIES + 1]
         /\ position' \in [Partitions -> Nat \ {0}]
         /\ faults' \in [FaultKinds -> Nat]
         /\ AttemptInv'
<1>1. CASE Goto(i, next) /\ UNCHANGED <<cur, attempt, position, faults>>
  BY <1>1 DEF TypeInv, TypeOK, AttemptInv, Goto
<1>2. CASE Spend("error") /\ EndDelivery(i)
  BY <1>2, EndDeliveryTypes, SpendTypes DEF FaultKinds
<1>3. QED
  BY <1>1, <1>2 DEF ReturnsOrRejects

(* The values an action gives the tables and the issuer's books are of      *)
(* their types.                                                             *)
LEMMA NextTypes == TypeInv /\ [Next]_vars => TypeInv'
<1> SUFFICES ASSUME TypeInv, [Next]_vars
             PROVE  TypeInv'
  OBVIOUS
<1> USE PartitionsAssumption, NothingAssumption, BoundsAssumption
<1>1. CASE UNCHANGED vars
  BY <1>1 DEF TypeInv, TypeOK, AttemptInv, vars, db_vars, log_vars, out_vars,
              handler_vars, issuer_vars
<1>2. ASSUME NEW r \in Requests, Accept(r)
      PROVE  TypeInv'
  BY <1>2 DEF Accept, TypeInv, TypeOK, AttemptInv, log_vars, out_vars, handler_vars,
              issuer_vars, CardRequestRow, CardRequestStatus
<1>3. ASSUME NEW r \in Requests, Produce(r)
      PROVE  TypeInv'
  <2>1. topic' \in [Partitions -> Seq(Requests)]
    BY <1>3 DEF Produce, TypeInv, TypeOK
  <2>2. QED
    BY <1>3, <2>1 DEF Produce, TypeInv, TypeOK, AttemptInv, db_vars, out_vars,
                      handler_vars, issuer_vars
<1>4. ASSUME NEW i \in Processors, NEW p \in Partitions, Assign(i, p)
      PROVE  TypeInv'
  <2>1. faults' \in [FaultKinds -> Nat]
    BY <1>4, SpendTypes DEF Assign, FaultKinds, TypeInv, TypeOK
  <2>2. StartOffset(p) \in Nat \ {0}
    BY DEF StartOffset, TypeInv, TypeOK
  <2>3. owner' \in [Partitions -> Processors \cup {NoOwner}]
    BY <1>4 DEF Assign, TypeInv, TypeOK
  <2>4. position' \in [Partitions -> Nat \ {0}]
    BY <1>4, <2>2 DEF Assign, TypeInv, TypeOK
  <2>5. QED
    BY <1>4, <2>1, <2>3, <2>4
       DEF Assign, TypeInv, TypeOK, AttemptInv, db_vars, out_vars, issuer_vars
<1>5. ASSUME NEW i \in Processors, NEW p \in Partitions, Commit(i, p)
      PROVE  TypeInv'
  BY <1>5 DEF Commit, TypeInv, TypeOK, AttemptInv, db_vars, out_vars, handler_vars,
              issuer_vars
<1>6. ASSUME NEW i \in Processors, NEW p \in Partitions, Deliver(i, p)
      PROVE  TypeInv'
  <2>1. topic[p][position[p]] \in Requests
    BY <1>6 DEF Deliver, TypeInv, TypeOK
  <2>2. QED
    BY <1>6, <2>1 DEF Deliver, TypeInv, TypeOK, AttemptInv, Goto, Steps, RemoteSteps,
                      db_vars, log_vars, out_vars, issuer_vars
<1>7. ASSUME NEW i \in Processors, WasProcessed(i)
      PROVE  TypeInv'
  <2>1. CASE cur[i] \in processed
    <3>1. EndDelivery(i)
      BY <1>7, <2>1 DEF WasProcessed
    <3>2. QED
      BY <1>7, <3>1, EndDeliveryTypes
         DEF WasProcessed, TypeInv, TypeOK, db_vars, log_vars, out_vars, issuer_vars
  <2>2. CASE cur[i] \notin processed
    BY <1>7, <2>2 DEF WasProcessed, TypeInv, TypeOK, AttemptInv, Goto, Steps, RemoteSteps,
                      db_vars, log_vars, out_vars, issuer_vars
  <2>3. QED
    BY <2>1, <2>2
<1>8. ASSUME NEW i \in Processors, FindRequest(i)
      PROVE  TypeInv'
  BY <1>8 DEF FindRequest, TypeInv, TypeOK, AttemptInv, Goto, Steps, RemoteSteps,
              db_vars, log_vars, out_vars, issuer_vars
<1>9. ASSUME NEW i \in Processors, MarkProcessing(i)
      PROVE  TypeInv'
  <2>1. status' \in [Requests -> CardRequestRow]
    BY <1>9 DEF MarkProcessing, TypeInv, TypeOK, CardRequestRow, CardRequestStatus
  <2>2. CASE Spend("error") /\ EndDelivery(i)
    BY <1>9, <2>1, <2>2, EndDeliveryTypes, SpendTypes
       DEF MarkProcessing, TypeInv, TypeOK, FaultKinds, log_vars, out_vars, issuer_vars
  <2>3. CASE /\ Goto(i, "issueCard")
             /\ attempt' = [attempt EXCEPT ![i] = 1]
             /\ UNCHANGED <<cur, position, faults>>
    <3>1. AttemptInv'
      BY <2>3 DEF Goto, TypeInv, TypeOK, AttemptInv
    <3>2. QED
      BY <1>9, <2>1, <2>3, <3>1
         DEF MarkProcessing, TypeInv, TypeOK, Goto, Steps, log_vars, out_vars, issuer_vars
  <2>4. QED
    BY <1>9, <2>2, <2>3 DEF MarkProcessing
<1>10. ASSUME NEW i \in Processors, IssueSucceeds(i)
       PROVE  TypeInv'
  <2>1. /\ calls' \in [Requests -> Nat]
        /\ approvals' \in [Requests -> Nat]
    BY <1>10 DEF IssueSucceeds, TypeInv, TypeOK
  <2>2. AttemptInv'
    BY <1>10 DEF IssueSucceeds, TypeInv, TypeOK, AttemptInv, Goto
  <2>3. QED
    BY <1>10, <2>1, <2>2 DEF IssueSucceeds, TypeInv, TypeOK, Goto, Steps, RemoteSteps,
                             db_vars, log_vars, out_vars
<1>11. ASSUME NEW i \in Processors, IssueFails(i)
       PROVE  TypeInv'
  <2>1. calls' \in [Requests -> Nat]
    BY <1>11 DEF IssueFails, TypeInv, TypeOK
  <2>2. AttemptInv'
    BY <1>11 DEF IssueFails, TypeInv, TypeOK, AttemptInv, Goto
  <2>3. PICK step \in Steps \ {"idle"} : pc' = [pc EXCEPT ![i] = step]
    BY <1>11 DEF IssueFails, Goto, Steps, RemoteSteps
  <2>4. QED
    BY <1>11, <2>1, <2>2, <2>3 DEF IssueFails, TypeInv, TypeOK, db_vars, log_vars, out_vars
<1>12. ASSUME NEW i \in Processors, Backoff(i)
       PROVE  TypeInv'
  <2>1. attempt[i] + 1 \in 1 .. MAX_RETRIES + 1
    BY <1>12 DEF Backoff, TypeInv, TypeOK, AttemptInv
  <2>2. AttemptInv'
    BY <1>12, <2>1 DEF Backoff, TypeInv, TypeOK, AttemptInv, Goto
  <2>3. QED
    BY <1>12, <2>1, <2>2 DEF Backoff, TypeInv, TypeOK, Goto, Steps,
                             db_vars, log_vars, out_vars, issuer_vars
<1>13. ASSUME NEW i \in Processors, MarkIssued(i)
       PROVE  TypeInv'
  <2>1. cur[i] \in Requests /\ pc[i] # "idle"
    BY <1>13 DEF MarkIssued, TypeInv, TypeOK
  <2>2. CASE cur[i] \notin cards
    <3>1. /\ status' = [status EXCEPT ![cur[i]] = "ISSUED"]
          /\ cards' = cards \cup {cur[i]}
          /\ ReturnsOrRejects(i, "publishIssued")
          /\ UNCHANGED <<processed, log_vars, out_vars, issuer_vars>>
      BY <1>13, <2>2 DEF MarkIssued
    <3>2. status' \in [Requests -> CardRequestRow]
      BY <3>1 DEF TypeInv, TypeOK, CardRequestRow, CardRequestStatus
    <3>3. QED
      BY <2>1, <3>1, <3>2, ReturnsTypes
         DEF TypeInv, TypeOK, Steps, RemoteSteps, log_vars, out_vars, issuer_vars
  <2>3. CASE cur[i] \in cards
    BY <1>13, <2>1, <2>3, EndDeliveryTypes
       DEF MarkIssued, TypeInv, TypeOK, log_vars, out_vars, issuer_vars
  <2>4. QED
    BY <2>2, <2>3
<1>14. ASSUME NEW i \in Processors, PublishIssued(i)
       PROVE  TypeInv'
  <2>1. issuedTopic' \in [Requests -> Nat]
    BY <1>14 DEF PublishIssued, TypeInv, TypeOK
  <2>2. QED
    BY <1>14, <2>1, ReturnsTypes
       DEF PublishIssued, TypeInv, TypeOK, Steps, RemoteSteps, db_vars, log_vars, issuer_vars
<1>15. ASSUME NEW i \in Processors, MarkFailed(i)
       PROVE  TypeInv'
  <2>1. status' \in [Requests -> CardRequestRow]
    BY <1>15 DEF MarkFailed, TypeInv, TypeOK, CardRequestRow, CardRequestStatus
  <2>2. QED
    BY <1>15, <2>1, ReturnsTypes
       DEF MarkFailed, TypeInv, TypeOK, Steps, RemoteSteps, log_vars, out_vars, issuer_vars
<1>16. ASSUME NEW i \in Processors, PublishDlq(i)
       PROVE  TypeInv'
  <2>1. dlqTopic' \in [Requests -> Nat]
    BY <1>16 DEF PublishDlq, TypeInv, TypeOK
  <2>2. QED
    BY <1>16, <2>1, ReturnsTypes
       DEF PublishDlq, TypeInv, TypeOK, Steps, RemoteSteps, db_vars, log_vars, issuer_vars
<1>17. ASSUME NEW i \in Processors, MarkProcessed(i)
       PROVE  TypeInv'
  <2>1. cur[i] \in Requests
    BY <1>17 DEF MarkProcessed, TypeInv, TypeOK
  <2>2. faults' \in [FaultKinds -> Nat]
    BY <1>17, SpendTypes DEF MarkProcessed, FaultKinds, TypeInv, TypeOK
  <2>3. QED
    BY <1>17, <2>1, <2>2, EndDeliveryTypes
       DEF MarkProcessed, TypeInv, TypeOK, log_vars, out_vars, issuer_vars
<1>18. ASSUME NEW i \in Processors, AwaitRejects(i)
       PROVE  TypeInv'
  BY <1>18, EndDeliveryTypes, SpendTypes
     DEF AwaitRejects, RemoteSteps, TypeInv, TypeOK, FaultKinds, db_vars, log_vars,
         out_vars, issuer_vars
<1>19. ASSUME NEW i \in Processors, Crash(i)
       PROVE  TypeInv'
  <2>1. faults' \in [FaultKinds -> Nat]
    BY <1>19, SpendTypes DEF Crash, FaultKinds
  <2>2. AttemptInv'
    BY <1>19 DEF Crash, TypeInv, TypeOK, AttemptInv, Goto
  <2>3. QED
    BY <1>19, <2>1, <2>2 DEF Crash, TypeInv, TypeOK, Goto, Steps, db_vars, out_vars,
                             issuer_vars
<1>20. QED
  BY <1>1, <1>2, <1>3, <1>4, <1>5, <1>6, <1>7, <1>8, <1>9, <1>10, <1>11, <1>12, <1>13,
     <1>14, <1>15, <1>16, <1>17, <1>18, <1>19
     DEF Next, Environment, Group, Execute

(* Type correctness, whatever the group and the faults do: a handler always  *)
(* has an event in hand, and no request is given an attempt past            *)
(* MAX_RETRIES + 1 in one delivery.                                         *)
THEOREM TypeCorrect == Spec => []TypeOK
<1>1. TypeInv => TypeOK
  BY DEF TypeInv
<1>2. QED
  BY InitTypes, NextTypes, <1>1, PTL DEF Spec

-----------------------------------------------------------------------------
(* Without session expiry no two handlers work on the same request.         *)

(* A step of a handler leaves the other handlers alone, keeps or drops its  *)
(* own event, and touches the group's state nowhere.                        *)
LEMMA StepKeepsHands ==
  ASSUME TypeInv, NEW i \in Processors, Execute(i) \/ AwaitRejects(i)
  PROVE  /\ pc[i] # "idle"
         /\ \A j \in Processors \ {i} :
               pc'[j] = pc[j] /\ cur'[j] = cur[j] /\ attempt'[j] = attempt[j]
         /\ pc'[i] = "idle" \/ cur'[i] = cur[i]
         /\ topic' = topic /\ owner' = owner
  BY DEF TypeInv, TypeOK, Execute, WasProcessed, FindRequest, MarkProcessing,
         IssueSucceeds, IssueFails, Backoff, MarkIssued, PublishIssued, MarkFailed,
         PublishDlq, MarkProcessed, AwaitRejects, RemoteSteps, ReturnsOrRejects,
         EndDelivery, Goto, log_vars

OwnInv == TopicInv /\ OwnerInv

LEMMA InitOwn == Init => OwnInv
  BY DEF Init, OwnInv, TopicInv, OwnerInv

LEMMA NextOwn ==
  ASSUME SessionExpiry = FALSE
  PROVE  TypeInv /\ OwnInv /\ [Next]_vars => OwnInv'
<1> SUFFICES ASSUME TypeInv, OwnInv, [Next]_vars
             PROVE  OwnInv'
  OBVIOUS
<1> USE PartitionsAssumption, NothingAssumption
<1>1. CASE UNCHANGED vars
  BY <1>1 DEF OwnInv, TopicInv, OwnerInv, vars, log_vars, handler_vars
<1>2. ASSUME NEW r \in Requests, Accept(r)
      PROVE  OwnInv'
  BY <1>2 DEF Accept, OwnInv, TopicInv, OwnerInv, log_vars, handler_vars
<1>3. ASSUME NEW r \in Requests, Produce(r)
      PROVE  OwnInv'
  <2>1. TopicInv'
    <3> SUFFICES ASSUME NEW p \in Partitions, NEW k \in DOMAIN topic'[p]
                 PROVE  PartitionOf[topic'[p][k]] = p
      BY DEF TopicInv
    <3>1. topic[p] \in Seq(Requests)
      BY DEF TypeInv, TypeOK
    <3>2. CASE p = PartitionOf[r]
      <4>1. topic'[p] = Append(topic[p], r)
        BY <1>3, <3>2 DEF Produce, TypeInv, TypeOK
      <4>2. CASE k \in DOMAIN topic[p]
        BY <3>1, <4>1, <4>2 DEF OwnInv, TopicInv
      <4>3. CASE k \notin DOMAIN topic[p]
        BY <3>1, <3>2, <4>1, <4>3
      <4>4. QED
        BY <4>2, <4>3
    <3>3. CASE p # PartitionOf[r]
      BY <1>3, <3>3 DEF Produce, OwnInv, TopicInv, TypeInv, TypeOK
    <3>4. QED
      BY <3>2, <3>3
  <2>2. OwnerInv'
    BY <1>3 DEF Produce, OwnInv, OwnerInv, handler_vars
  <2>3. QED
    BY <2>1, <2>2 DEF OwnInv
<1>4. ASSUME NEW i \in Processors, NEW p \in Partitions, Assign(i, p)
      PROVE  OwnInv'
  BY <1>4 DEF Assign, HandlerRunsOn, OwnInv, TopicInv, OwnerInv, TypeInv, TypeOK
<1>5. ASSUME NEW i \in Processors, NEW p \in Partitions, Commit(i, p)
      PROVE  OwnInv'
  BY <1>5 DEF Commit, OwnInv, TopicInv, OwnerInv, handler_vars
<1>6. ASSUME NEW i \in Processors, NEW p \in Partitions, Deliver(i, p)
      PROVE  OwnInv'
  <2>1. position[p] \in DOMAIN topic[p]
    BY <1>6 DEF Deliver, TypeInv, TypeOK
  <2>2. QED
    BY <1>6, <2>1 DEF Deliver, Goto, OwnInv, TopicInv, OwnerInv, TypeInv, TypeOK, log_vars
<1>7. ASSUME NEW i \in Processors, Execute(i) \/ AwaitRejects(i)
      PROVE  OwnInv'
  BY <1>7, StepKeepsHands DEF OwnInv, TopicInv, OwnerInv
<1>8. ASSUME NEW i \in Processors, Crash(i)
      PROVE  OwnInv'
  BY <1>8 DEF Crash, Goto, OwnInv, TopicInv, OwnerInv, TypeInv, TypeOK
<1>9. QED
  BY <1>1, <1>2, <1>3, <1>4, <1>5, <1>6, <1>7, <1>8 DEF Next, Environment, Group

(* The request in a busy handler's hands is in nobody else's.               *)
LEMMA Exclusive ==
  ASSUME TypeInv, OwnInv, NEW i \in Processors, NEW j \in Processors \ {i},
         pc[i] # "idle", pc[j] # "idle"
  PROVE  cur[i] # cur[j]
  BY DEF OwnInv, OwnerInv

-----------------------------------------------------------------------------
(* What is known of one request, and the safety invariant.                  *)

RequestInv(r) == Untouched(r) /\ OutcomeAgrees(r) /\ approvals[r] <= 1

SafeInv ==
    /\ \A i \in Processors : HandlerKnows(i)
    /\ \A r \in Requests : RequestInv(r)

LEMMA InitSafe == Init => SafeInv
  BY BoundsAssumption DEF Init, SafeInv, HandlerKnows, RequestInv, Untouched, OutcomeAgrees

(* A step of a handler changes only what is recorded of its own request.    *)
LEMMA StepIsLocal ==
  ASSUME TypeInv, NEW i \in Processors, Execute(i) \/ AwaitRejects(i),
         NEW r \in Requests \ {cur[i]}
  PROVE  /\ status'[r] = status[r]
         /\ r \in cards' <=> r \in cards
         /\ calls'[r] = calls[r]
         /\ approvals'[r] = approvals[r]
         /\ issuedTopic'[r] = issuedTopic[r]
         /\ dlqTopic'[r] = dlqTopic[r]
  BY DEF TypeInv, TypeOK, Execute, WasProcessed, FindRequest, MarkProcessing,
         IssueSucceeds, IssueFails, Backoff, MarkIssued, PublishIssued, MarkFailed,
         PublishDlq, MarkProcessed, AwaitRejects, db_vars, out_vars, issuer_vars

(* So the invariant is kept if it is kept for the handler and its request.  *)
LEMMA OthersStaySafe ==
  ASSUME TypeInv, OwnInv, SafeInv, NEW i \in Processors, NEW own \in Requests,
         own = cur[i], Execute(i) \/ AwaitRejects(i), HandlerKnows(i)', RequestInv(own)'
  PROVE  SafeInv'
<1>2. ASSUME NEW j \in Processors \ {i}
      PROVE  HandlerKnows(j)'
  <2>1. CASE pc[j] = "idle"
    BY <2>1, StepKeepsHands DEF HandlerKnows
  <2>2. CASE pc[j] # "idle"
    <3>1. cur[j] \in Requests \ {cur[i]}
      BY <2>2, Exclusive, StepKeepsHands DEF TypeInv, TypeOK
    <3>2. HandlerKnows(j)
      BY DEF SafeInv
    <3>3. QED
      BY <3>1, <3>2, StepKeepsHands, StepIsLocal DEF HandlerKnows
  <2>3. QED
    BY <2>1, <2>2
<1>3. ASSUME NEW r \in Requests \ {cur[i]}
      PROVE  RequestInv(r)'
  <2>1. RequestInv(r)
    BY DEF SafeInv
  <2>2. QED
    BY <2>1, StepIsLocal DEF RequestInv, Untouched, OutcomeAgrees
<1>4. QED
  BY <1>2, <1>3 DEF SafeInv

(* What the handler knows at its next await.                                *)
LEMMA OwnStepKnows ==
  ASSUME TypeInv, NEW i \in Processors, NEW own \in Requests, own = cur[i],
         HandlerKnows(i), RequestInv(own), Execute(i) \/ AwaitRejects(i)
  PROVE  HandlerKnows(i)'
<1> USE BoundsAssumption
<1>1. CASE WasProcessed(i)
  BY <1>1 DEF WasProcessed, EndDelivery, Goto, HandlerKnows, TypeInv, TypeOK
<1>2. CASE FindRequest(i)
  BY <1>2 DEF FindRequest, Goto, HandlerKnows, db_vars
<1>3. CASE MarkProcessing(i)
  BY <1>3 DEF MarkProcessing, EndDelivery, Goto, HandlerKnows, TypeInv, TypeOK, issuer_vars, RequestInv, Untouched
<1>4. CASE IssueSucceeds(i)
  BY <1>4 DEF IssueSucceeds, Goto, HandlerKnows, TypeInv, TypeOK, db_vars
<1>5. CASE IssueFails(i)
  BY <1>5 DEF IssueFails, Goto, HandlerKnows, TypeInv, TypeOK, db_vars
<1>6. CASE Backoff(i)
  BY <1>6 DEF Backoff, Goto, HandlerKnows, TypeInv, TypeOK, db_vars, issuer_vars
<1>7. CASE MarkIssued(i)
  BY <1>7 DEF MarkIssued, EndDelivery, ReturnsOrRejects, Goto, HandlerKnows, TypeInv, TypeOK, out_vars, RequestInv, OutcomeAgrees
<1>8. CASE PublishIssued(i)
  BY <1>8 DEF PublishIssued, EndDelivery, ReturnsOrRejects, Goto, HandlerKnows, TypeInv, TypeOK
<1>9. CASE MarkFailed(i)
  BY <1>9 DEF MarkFailed, EndDelivery, ReturnsOrRejects, Goto, HandlerKnows, TypeInv, TypeOK, out_vars, RequestInv, OutcomeAgrees
<1>10. CASE PublishDlq(i)
  BY <1>10 DEF PublishDlq, EndDelivery, ReturnsOrRejects, Goto, HandlerKnows, TypeInv, TypeOK
<1>11. CASE MarkProcessed(i)
  BY <1>11 DEF MarkProcessed, EndDelivery, Goto, HandlerKnows
<1>12. CASE AwaitRejects(i)
  BY <1>12 DEF AwaitRejects, EndDelivery, Goto, HandlerKnows, TypeInv, TypeOK
<1>13. QED
  BY <1>1, <1>2, <1>3, <1>4, <1>5, <1>6, <1>7, <1>8, <1>9, <1>10, <1>11, <1>12 DEF Execute

(* What is recorded of its own request after its step.                      *)
LEMMA OwnStepAgrees ==
  ASSUME TypeInv, NEW i \in Processors, NEW own \in Requests, own = cur[i],
         HandlerKnows(i), RequestInv(own), Execute(i) \/ AwaitRejects(i)
  PROVE  RequestInv(own)'
<1> USE BoundsAssumption
<1>1. CASE WasProcessed(i)
  BY <1>1 DEF WasProcessed, db_vars, out_vars, issuer_vars, RequestInv, OutcomeAgrees, Untouched
<1>2. CASE FindRequest(i)
  BY <1>2 DEF FindRequest, db_vars, out_vars, issuer_vars, RequestInv, OutcomeAgrees, Untouched
<1>3. CASE MarkProcessing(i)
  BY <1>3 DEF MarkProcessing, HandlerKnows, out_vars, issuer_vars, RequestInv, OutcomeAgrees, Untouched
<1>4. CASE IssueSucceeds(i)
  BY <1>4 DEF IssueSucceeds, HandlerKnows, TypeInv, TypeOK, db_vars, out_vars, RequestInv, OutcomeAgrees, Untouched
<1>5. CASE IssueFails(i)
  BY <1>5 DEF IssueFails, HandlerKnows, TypeInv, TypeOK, db_vars, out_vars, RequestInv, OutcomeAgrees, Untouched
<1>6. CASE Backoff(i)
  BY <1>6 DEF Backoff, db_vars, out_vars, issuer_vars, RequestInv, OutcomeAgrees, Untouched
<1>7. CASE MarkIssued(i)
  BY <1>7 DEF MarkIssued, HandlerKnows, TypeInv, TypeOK, out_vars, issuer_vars, RequestInv, OutcomeAgrees, Untouched
<1>8. CASE PublishIssued(i)
  BY <1>8 DEF PublishIssued, HandlerKnows, db_vars, issuer_vars, RequestInv, OutcomeAgrees, Untouched
<1>9. CASE MarkFailed(i)
  BY <1>9 DEF MarkFailed, HandlerKnows, out_vars, issuer_vars, RequestInv, OutcomeAgrees, Untouched
<1>10. CASE PublishDlq(i)
  BY <1>10 DEF PublishDlq, HandlerKnows, db_vars, issuer_vars, RequestInv, OutcomeAgrees, Untouched
<1>11. CASE MarkProcessed(i)
  BY <1>11 DEF MarkProcessed, out_vars, issuer_vars, RequestInv, OutcomeAgrees, Untouched
<1>12. CASE AwaitRejects(i)
  BY <1>12 DEF AwaitRejects, db_vars, out_vars, issuer_vars, RequestInv, OutcomeAgrees, Untouched
<1>13. QED
  BY <1>1, <1>2, <1>3, <1>4, <1>5, <1>6, <1>7, <1>8, <1>9, <1>10, <1>11, <1>12 DEF Execute

LEMMA NextSafe == TypeInv /\ OwnInv /\ SafeInv /\ [Next]_vars => SafeInv'
<1> SUFFICES ASSUME TypeInv, OwnInv, SafeInv, [Next]_vars
             PROVE  SafeInv'
  OBVIOUS
<1> USE PartitionsAssumption, NothingAssumption, BoundsAssumption
<1>1. CASE UNCHANGED vars
  BY <1>1 DEF SafeInv, HandlerKnows, RequestInv, Untouched, OutcomeAgrees,
              vars, db_vars, out_vars, handler_vars, issuer_vars
<1>2. ASSUME NEW r \in Requests, Accept(r)
      PROVE  SafeInv'
  <2>1. /\ status' = [status EXCEPT ![r] = "PENDING"]
        /\ status[r] = NoRow
        /\ UNCHANGED <<cards, issuedTopic, dlqTopic, pc, cur, attempt, calls, approvals>>
    BY <1>2 DEF Accept, out_vars, handler_vars, issuer_vars
  <2>2. ASSUME NEW q \in Requests
        PROVE  RequestInv(q)'
    <3>1. RequestInv(q)
      BY DEF SafeInv
    <3>2. status'[q] = IF q = r THEN "PENDING" ELSE status[q]
      BY <2>1 DEF TypeInv, TypeOK
    <3>3. QED
      BY <2>1, <3>1, <3>2 DEF RequestInv, Untouched, OutcomeAgrees
  <2>3. ASSUME NEW i \in Processors
        PROVE  HandlerKnows(i)'
    <3>1. HandlerKnows(i)
      BY DEF SafeInv
    <3>2. CASE pc[i] = "idle"
      BY <2>1, <3>2 DEF HandlerKnows
    <3>3. CASE pc[i] # "idle"
      <4>1. cur[i] \in Requests
        BY <3>3 DEF TypeInv, TypeOK
      <4>2. status'[cur[i]] = IF cur[i] = r THEN "PENDING" ELSE status[cur[i]]
        BY <2>1, <4>1 DEF TypeInv, TypeOK
      <4>3. QED
        BY <2>1, <3>1, <4>1, <4>2 DEF HandlerKnows
    <3>4. QED
      BY <3>2, <3>3
  <2>4. QED
    BY <2>2, <2>3 DEF SafeInv
<1>3. ASSUME NEW r \in Requests, Produce(r)
      PROVE  SafeInv'
  BY <1>3 DEF Produce, SafeInv, HandlerKnows, RequestInv, Untouched, OutcomeAgrees,
              db_vars, out_vars, handler_vars, issuer_vars
<1>4. ASSUME NEW i \in Processors, NEW p \in Partitions, Assign(i, p) \/ Commit(i, p)
      PROVE  SafeInv'
  BY <1>4 DEF Assign, Commit, SafeInv, HandlerKnows, RequestInv, Untouched, OutcomeAgrees,
              db_vars, out_vars, handler_vars, issuer_vars
<1>5. ASSUME NEW i \in Processors, NEW p \in Partitions, Deliver(i, p)
      PROVE  SafeInv'
  <2>1. ASSUME NEW j \in Processors
        PROVE  HandlerKnows(j)'
    <3>1. HandlerKnows(j)
      BY DEF SafeInv
    <3>2. QED
      BY <1>5, <3>1 DEF Deliver, Goto, HandlerKnows, TypeInv, TypeOK,
                        db_vars, out_vars, issuer_vars
  <2>2. QED
    BY <1>5, <2>1 DEF Deliver, SafeInv, RequestInv, Untouched, OutcomeAgrees,
                      db_vars, out_vars, issuer_vars
<1>6. ASSUME NEW i \in Processors, Execute(i) \/ AwaitRejects(i)
      PROVE  SafeInv'
  <2>1. PICK own \in Requests : own = cur[i]
    BY <1>6, StepKeepsHands DEF TypeInv, TypeOK
  <2>2. HandlerKnows(i) /\ RequestInv(own)
    BY DEF SafeInv
  <2>3. HandlerKnows(i)'
    BY <1>6, <2>1, <2>2, OwnStepKnows
  <2>4. RequestInv(own)'
    BY <1>6, <2>1, <2>2, OwnStepAgrees
  <2>5. QED
    BY <1>6, <2>1, <2>3, <2>4, OthersStaySafe
<1>7. ASSUME NEW i \in Processors, Crash(i)
      PROVE  SafeInv'
  <2>1. ASSUME NEW j \in Processors
        PROVE  HandlerKnows(j)'
    <3>1. HandlerKnows(j)
      BY DEF SafeInv
    <3>2. QED
      BY <1>7, <3>1 DEF Crash, Goto, HandlerKnows, TypeInv, TypeOK,
                        db_vars, out_vars, issuer_vars
  <2>2. QED
    BY <1>7, <2>1 DEF Crash, SafeInv, RequestInv, Untouched, OutcomeAgrees,
                      db_vars, out_vars, issuer_vars
<1>8. QED
  BY <1>1, <1>2, <1>3, <1>4, <1>5, <1>6, <1>7 DEF Next, Environment, Group

LEMMA SafeAlways ==
  ASSUME SessionExpiry = FALSE
  PROVE  Spec => [](TypeInv /\ OwnInv /\ SafeInv)
  BY InitTypes, NextTypes, InitOwn, NextOwn, InitSafe, NextSafe, PTL DEF Spec

(* With no partition handed over during its handler, the rows, the topics    *)
(* and the issuer's books agree about every request, whatever is            *)
(* redelivered, crashes or fails (README, "Idempotencia" and "DLQ").        *)
THEOREM OutcomesAgree ==
  ASSUME SessionExpiry = FALSE
  PROVE  Spec => []OneOutcome
<1>1. SafeInv => OneOutcome
  BY DEF SafeInv, RequestInv, OneOutcome
<1>2. QED
  BY SafeAlways, <1>1, PTL

(* ... and the external issuer grants each request one card at most.        *)
THEOREM GrantedOnce ==
  ASSUME SessionExpiry = FALSE
  PROVE  Spec => []AtMostOneApproval
<1>1. SafeInv => AtMostOneApproval
  BY DEF SafeInv, RequestInv, AtMostOneApproval
<1>2. QED
  BY SafeAlways, <1>1, PTL

-----------------------------------------------------------------------------
(* The processor implements the life of a request.                          *)

LEMMA InitLifecycle == Init => Lifecycle!Init
  BY DEF Init, Lifecycle!Init, Lifecycle!NoRow

LEMMA StepLifecycle ==
  ASSUME TypeInv, NEW i \in Processors, NEW own \in Requests, own = cur[i],
         HandlerKnows(i), RequestInv(own), Execute(i) \/ AwaitRejects(i)
  PROVE  Lifecycle!Next \/ UNCHANGED Lifecycle!vars
<1> USE BoundsAssumption
<1>1. CASE WasProcessed(i) \/ FindRequest(i) \/ Backoff(i) \/ MarkProcessed(i) \/ AwaitRejects(i)
  BY <1>1 DEF WasProcessed, FindRequest, Backoff, MarkProcessed, AwaitRejects,
              db_vars, out_vars, issuer_vars, Lifecycle!vars
<1>2. CASE MarkProcessing(i)
  <2>1. Lifecycle!Started(own)
    BY <1>2 DEF MarkProcessing, HandlerKnows, out_vars, issuer_vars,
                Lifecycle!Started, Lifecycle!Moves
  <2>2. QED
    BY <2>1 DEF Lifecycle!Next
<1>3. CASE IssueSucceeds(i)
  <2>1. calls[own] < MAX_RETRIES + 1
    BY <1>3 DEF IssueSucceeds, HandlerKnows, TypeInv, TypeOK, AttemptInv
  <2>2. Lifecycle!Granted(own)
    BY <1>3, <2>1 DEF IssueSucceeds, HandlerKnows, db_vars, out_vars,
                      Lifecycle!Granted, Lifecycle!Asked
  <2>3. QED
    BY <2>2 DEF Lifecycle!Next
<1>4. CASE IssueFails(i)
  <2>1. calls[own] < MAX_RETRIES + 1
    BY <1>4 DEF IssueFails, HandlerKnows, TypeInv, TypeOK, AttemptInv
  <2>2. Lifecycle!Refused(own)
    BY <1>4, <2>1 DEF IssueFails, HandlerKnows, db_vars, out_vars,
                      Lifecycle!Refused, Lifecycle!Asked
  <2>3. QED
    BY <2>2 DEF Lifecycle!Next
<1>5. CASE MarkIssued(i)
  <2>1. own \notin cards
    BY <1>5 DEF MarkIssued, HandlerKnows, RequestInv, OutcomeAgrees
  <2>2. Lifecycle!Issued(own)
    BY <1>5, <2>1 DEF MarkIssued, HandlerKnows, out_vars, issuer_vars,
                      Lifecycle!Issued, Lifecycle!Moves
  <2>3. QED
    BY <2>2 DEF Lifecycle!Next
<1>6. CASE PublishIssued(i)
  <2>1. Lifecycle!Announced(own)
    BY <1>6 DEF PublishIssued, HandlerKnows, TypeInv, TypeOK, db_vars, issuer_vars,
                Lifecycle!Announced
  <2>2. QED
    BY <2>1 DEF Lifecycle!Next
<1>7. CASE MarkFailed(i)
  <2>1. Lifecycle!GivenUp(own)
    BY <1>7 DEF MarkFailed, HandlerKnows, out_vars, issuer_vars,
                Lifecycle!GivenUp, Lifecycle!Moves
  <2>2. QED
    BY <2>1 DEF Lifecycle!Next
<1>8. CASE PublishDlq(i)
  <2>1. Lifecycle!DeadLettered(own)
    BY <1>8 DEF PublishDlq, HandlerKnows, TypeInv, TypeOK, db_vars, issuer_vars,
                Lifecycle!DeadLettered
  <2>2. QED
    BY <2>1 DEF Lifecycle!Next
<1>9. QED
  BY <1>1, <1>2, <1>3, <1>4, <1>5, <1>6, <1>7, <1>8 DEF Execute

LEMMA NextLifecycle ==
  TypeInv /\ SafeInv /\ [Next]_vars => [Lifecycle!Next]_(Lifecycle!vars)
<1> SUFFICES ASSUME TypeInv, SafeInv, [Next]_vars
             PROVE  Lifecycle!Next \/ UNCHANGED Lifecycle!vars
  OBVIOUS
<1>1. CASE UNCHANGED vars
  BY <1>1 DEF vars, db_vars, out_vars, issuer_vars, Lifecycle!vars
<1>2. ASSUME NEW r \in Requests, Accept(r)
      PROVE  Lifecycle!Next
  <2>1. Lifecycle!Accepted(r)
    BY <1>2 DEF Accept, out_vars, issuer_vars, Lifecycle!Accepted, Lifecycle!Moves,
                Lifecycle!NoRow
  <2>2. QED
    BY <2>1 DEF Lifecycle!Next
<1>3. ASSUME NEW r \in Requests, Produce(r)
      PROVE  UNCHANGED Lifecycle!vars
  BY <1>3 DEF Produce, db_vars, out_vars, issuer_vars, Lifecycle!vars
<1>4. ASSUME NEW i \in Processors, NEW p \in Partitions, Group(i, p)
      PROVE  UNCHANGED Lifecycle!vars
  BY <1>4 DEF Group, Assign, Commit, Deliver, db_vars, out_vars, issuer_vars,
              Lifecycle!vars
<1>5. ASSUME NEW i \in Processors, Execute(i) \/ AwaitRejects(i)
      PROVE  Lifecycle!Next \/ UNCHANGED Lifecycle!vars
  <2>1. PICK own \in Requests : own = cur[i]
    BY <1>5, StepKeepsHands DEF TypeInv, TypeOK
  <2>2. HandlerKnows(i) /\ RequestInv(own)
    BY DEF SafeInv
  <2>3. QED
    BY <1>5, <2>1, <2>2, StepLifecycle
<1>6. ASSUME NEW i \in Processors, Crash(i)
      PROVE  UNCHANGED Lifecycle!vars
  BY <1>6 DEF Crash, db_vars, out_vars, issuer_vars, Lifecycle!vars
<1>7. QED
  BY <1>1, <1>2, <1>3, <1>4, <1>5, <1>6 DEF Next, Environment

(* Without overlapping handlers every behaviour of the processors is one    *)
(* the abstract life of a request allows: accepted, started once, asked for *)
(* at most MAX_RETRIES + 1 times, and ended once.                           *)
THEOREM ImplementsLifecycle ==
  ASSUME SessionExpiry = FALSE
  PROVE  Spec => LifecycleSpec
  BY SafeAlways, InitLifecycle, NextLifecycle, PTL DEF Spec, LifecycleSpec, Lifecycle!Spec
=============================================================================
