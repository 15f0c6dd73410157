--------------------- MODULE CardProcessorFaultProofs ----------------------
(***************************************************************************)
(* More theorems about CardProcessor: what holds even when handlers of one *)
(* request overlap, and what the faults cost when they do not.             *)
(***************************************************************************)
EXTENDS CardProcessorProofs, FiniteSetTheorems

USE DEF NoRow

-----------------------------------------------------------------------------
(* Whatever the group does, a request only moves forward. *)

Beyond == {"PROCESSING", "ISSUED", "FAILED"}

(* An event belongs to a row, or to none that will ever be there. *)
Known(r) == r \in Orphans \/ status[r] # NoRow

KnownInv ==
    /\ \A p \in Partitions : \A k \in DOMAIN topic[p] : Known(topic[p][k])
    /\ \A i \in Processors : pc[i] # "idle" => Known(cur[i])
    /\ \A r \in Requests : r \in processed => Known(r) /\ status[r] # "PENDING"
    /\ \A r \in Orphans : status[r] = NoRow

(* What a handler found or wrote may be overtaken by another's update, and  *)
(* is never undone.                                                         *)
Witnessed(i) ==
    /\ pc[i] = "markProcessing" => status[cur[i]] # NoRow
    /\ pc[i] \in {"issueCard", "backoff", "markIssued", "markFailed", "publishIssued",
                  "publishDlq"} => status[cur[i]] \in Beyond
    /\ pc[i] = "markProcessed" => status[cur[i]] # "PENDING"

ForwardInv == KnownInv /\ \A i \in Processors : Witnessed(i)

LEMMA InitForward == Init => ForwardInv
  BY PartitionsAssumption DEF Init, ForwardInv, KnownInv, Witnessed

(* A handler's step leaves every status where it is or moves that of its    *)
(* own request, which has a row, beyond PENDING.                            *)
LEMMA StepMovesForward ==
  ASSUME TypeInv, ForwardInv, NEW i \in Processors, Execute(i) \/ AwaitRejects(i)
  PROVE  \A r \in Requests :
             \/ status'[r] = status[r]
             \/ r = cur[i] /\ status[r] # NoRow /\ status'[r] \in Beyond
<1>1. CASE MarkProcessing(i)
  BY <1>1 DEF MarkProcessing, TypeInv, TypeOK, ForwardInv, Witnessed, Beyond
<1>2. CASE MarkIssued(i)
  BY <1>2 DEF MarkIssued, TypeInv, TypeOK, ForwardInv, Witnessed, Beyond
<1>3. CASE MarkFailed(i)
  BY <1>3 DEF MarkFailed, TypeInv, TypeOK, ForwardInv, Witnessed, Beyond
<1>4. CASE UNCHANGED status
  BY <1>4
<1>5. QED
  BY <1>1, <1>2, <1>3, <1>4
     DEF Execute, WasProcessed, FindRequest, IssueSucceeds, IssueFails, Backoff,
         PublishIssued, PublishDlq, MarkProcessed, AwaitRejects, db_vars

(* What a handler has seen at its next await. *)
LEMMA StepWitnesses ==
  ASSUME TypeInv, ForwardInv, NEW i \in Processors, Execute(i) \/ AwaitRejects(i)
  PROVE  Witnessed(i)'
<1>1. Witnessed(i)
  BY DEF ForwardInv
<1>2. cur[i] \in Requests
  BY StepKeepsHands DEF TypeInv, TypeOK
<1> USE DEF Beyond, Goto, TypeInv, TypeOK
<1>3. CASE WasProcessed(i)
  BY <1>2, <1>3 DEF WasProcessed, EndDelivery, Witnessed
<1>4. CASE FindRequest(i)
  BY <1>2, <1>4 DEF FindRequest, Witnessed, db_vars
<1>5. CASE MarkProcessing(i)
  BY <1>2, <1>5 DEF MarkProcessing, EndDelivery, Witnessed
<1>6. CASE IssueSucceeds(i) \/ IssueFails(i) \/ Backoff(i)
  BY <1>1, <1>2, <1>6 DEF IssueSucceeds, IssueFails, Backoff, Witnessed, db_vars
<1>7. CASE MarkIssued(i)
  BY <1>2, <1>7 DEF MarkIssued, ReturnsOrRejects, EndDelivery, Witnessed
<1>8. CASE MarkFailed(i)
  BY <1>2, <1>8 DEF MarkFailed, ReturnsOrRejects, EndDelivery, Witnessed
<1>9. CASE PublishIssued(i) \/ PublishDlq(i)
  BY <1>1, <1>2, <1>9 DEF PublishIssued, PublishDlq, ReturnsOrRejects, EndDelivery, Witnessed,
                          db_vars
<1>10. CASE MarkProcessed(i) \/ AwaitRejects(i)
  BY <1>2, <1>10 DEF MarkProcessed, AwaitRejects, EndDelivery, Witnessed
<1>11. QED
  BY <1>3, <1>4, <1>5, <1>6, <1>7, <1>8, <1>9, <1>10 DEF Execute

LEMMA NextForward == TypeInv /\ ForwardInv /\ [Next]_vars => ForwardInv'
<1> SUFFICES ASSUME TypeInv, ForwardInv, [Next]_vars
             PROVE  ForwardInv'
  OBVIOUS
<1> USE PartitionsAssumption, NothingAssumption
<1>1. CASE UNCHANGED vars
  BY <1>1 DEF ForwardInv, KnownInv, Known, Witnessed, vars, db_vars, log_vars, handler_vars
<1>2. ASSUME NEW r \in Requests, Accept(r)
      PROVE  ForwardInv'
  <2>1. \A q \in Requests : status'[q] = IF q = r THEN "PENDING" ELSE status[q]
    BY <1>2 DEF Accept, TypeInv, TypeOK
  <2>2. \A q \in Requests : Known(q) => Known(q)' /\ (q = r => q \in Orphans)
    BY <1>2, <2>1 DEF Accept, Known
  <2>3. KnownInv'
    BY <1>2, <2>1, <2>2 DEF Accept, ForwardInv, KnownInv, TypeInv, TypeOK, log_vars, handler_vars
  <2>4. ASSUME NEW i \in Processors
        PROVE  Witnessed(i)'
    <3>1. pc[i] # "idle" => cur[i] \in Requests /\ cur[i] # r
      BY <1>2, <2>2 DEF Accept, ForwardInv, KnownInv, TypeInv, TypeOK
    <3>2. Witnessed(i)
      BY DEF ForwardInv
    <3>3. QED
      BY <1>2, <2>1, <3>1, <3>2 DEF Accept, Witnessed, handler_vars
  <2>5. QED
    BY <2>3, <2>4 DEF ForwardInv
<1>3. ASSUME NEW r \in Requests, Produce(r)
      PROVE  ForwardInv'
  <2>1. Known(r)
    BY <1>3 DEF Produce, Known
  <2>2. ASSUME NEW p \in Partitions, NEW k \in DOMAIN topic'[p]
        PROVE  Known(topic'[p][k])
    <3>1. topic[p] \in Seq(Requests) /\ topic'[p] \in {topic[p], Append(topic[p], r)}
      BY <1>3 DEF Produce, TypeInv, TypeOK
    <3>2. CASE k \in DOMAIN topic[p]
      BY <3>1, <3>2 DEF ForwardInv, KnownInv
    <3>3. CASE k \notin DOMAIN topic[p]
      BY <2>1, <3>1, <3>3
    <3>4. QED
      BY <3>2, <3>3
  <2>3. QED
    BY <1>3, <2>2 DEF Produce, ForwardInv, KnownInv, Known, Witnessed, db_vars, handler_vars
<1>4. ASSUME NEW i \in Processors, NEW p \in Partitions, Assign(i, p) \/ Commit(i, p)
      PROVE  ForwardInv'
  BY <1>4 DEF Assign, Commit, ForwardInv, KnownInv, Known, Witnessed, db_vars, handler_vars
<1>5. ASSUME NEW i \in Processors, NEW p \in Partitions, Deliver(i, p)
      PROVE  ForwardInv'
  <2>1. position[p] \in DOMAIN topic[p]
    BY <1>5 DEF Deliver, TypeInv, TypeOK
  <2>2. /\ cur' = [cur EXCEPT ![i] = topic[p][position[p]]]
        /\ pc' = [pc EXCEPT ![i] = "wasProcessed"]
        /\ UNCHANGED <<status, processed, topic>>
    BY <1>5 DEF Deliver, Goto, db_vars, log_vars
  <2>3. Known(topic[p][position[p]])
    BY <2>1 DEF ForwardInv, KnownInv
  <2>4. KnownInv'
    <3>1. ASSUME NEW j \in Processors, pc'[j] # "idle"
          PROVE  Known(cur[j])'
      <4>1. CASE j = i
        BY <2>2, <2>3, <4>1 DEF TypeInv, TypeOK, Known
      <4>2. CASE j # i
        BY <2>2, <3>1, <4>2 DEF TypeInv, TypeOK, ForwardInv, KnownInv, Known
      <4>3. QED
        BY <4>1, <4>2
    <3>2. QED
      BY <2>2, <3>1 DEF ForwardInv, KnownInv, Known
  <2>5. ASSUME NEW j \in Processors
        PROVE  Witnessed(j)'
    BY <2>2 DEF TypeInv, TypeOK, ForwardInv, Witnessed
  <2>6. QED
    BY <2>4, <2>5 DEF ForwardInv
<1>6. ASSUME NEW i \in Processors, Execute(i) \/ AwaitRejects(i)
      PROVE  ForwardInv'
  <2>1. pc[i] # "idle" /\ cur[i] \in Requests
    BY <1>6, StepKeepsHands DEF TypeInv, TypeOK
  <2>2. \A r \in Requests : Known(r) => Known(r)'
    BY <1>6, StepMovesForward DEF Known, Beyond
  <2>3. processed' \subseteq processed \/ (pc[i] = "markProcessed" /\ processed' = processed \cup {cur[i]})
    BY <1>6 DEF Execute, WasProcessed, FindRequest, MarkProcessing, IssueSucceeds, IssueFails,
                Backoff, MarkIssued, PublishIssued, MarkFailed, PublishDlq, MarkProcessed,
                AwaitRejects, db_vars
  <2>4. \A r \in Requests : r \in processed' => Known(r)' /\ status'[r] # "PENDING"
    <3>1. \A r \in Requests : r \in processed' => Known(r) /\ status[r] # "PENDING"
      BY <2>1, <2>3 DEF ForwardInv, KnownInv, Witnessed
    <3>2. QED
      BY <1>6, <2>2, <3>1, StepMovesForward DEF Beyond
  <2>5. KnownInv'
    <3>1. (\A p \in Partitions : \A k \in DOMAIN topic[p] : Known(topic[p][k]))'
      <4>1. topic' = topic
        BY <1>6, StepKeepsHands
      <4>2. \A p \in Partitions : \A k \in DOMAIN topic[p] : topic[p][k] \in Requests
        BY DEF TypeInv, TypeOK
      <4>3. QED
        BY <2>2, <4>1, <4>2 DEF ForwardInv, KnownInv
    <3>2. ASSUME NEW j \in Processors, pc'[j] # "idle"
          PROVE  Known(cur[j])'
      <4>1. pc[j] # "idle" /\ cur'[j] = cur[j]
        BY <1>6, <3>2, StepKeepsHands
      <4>2. cur[j] \in Requests /\ Known(cur[j])
        BY <4>1 DEF TypeInv, TypeOK, ForwardInv, KnownInv
      <4>3. QED
        BY <2>2, <4>1, <4>2
    <3>3. ASSUME NEW r \in Orphans
          PROVE  status'[r] = NoRow
      <4>1. r \in Requests /\ status[r] = NoRow
        BY DEF ForwardInv, KnownInv
      <4>2. QED
        BY <1>6, <4>1, StepMovesForward
    <3>4. QED
      BY <2>4, <3>1, <3>2, <3>3 DEF KnownInv
  <2>6. ASSUME NEW j \in Processors \ {i}
        PROVE  Witnessed(j)'
    <3>1. pc'[j] = pc[j] /\ cur'[j] = cur[j]
      BY <1>6, StepKeepsHands
    <3>2. pc[j] # "idle" => cur[j] \in Requests
      BY DEF TypeInv, TypeOK
    <3>3. Witnessed(j)
      BY DEF ForwardInv
    <3>4. pc[j] # "idle" => status'[cur[j]] \in {status[cur[j]]} \cup Beyond
      BY <1>6, <3>2, StepMovesForward
    <3>5. QED
      BY <3>1, <3>3, <3>4 DEF Witnessed, Beyond
  <2>7. Witnessed(i)'
    BY <1>6, StepWitnesses
  <2>8. QED
    BY <2>5, <2>6, <2>7 DEF ForwardInv
<1>7. ASSUME NEW i \in Processors, Crash(i)
      PROVE  ForwardInv'
  BY <1>7 DEF Crash, Goto, TypeInv, TypeOK, ForwardInv, KnownInv, Known, Witnessed, db_vars
<1>8. QED
  BY <1>1, <1>2, <1>3, <1>4, <1>5, <1>6, <1>7 DEF Next, Environment, Group

LEMMA ForwardAlways == Spec => [](TypeInv /\ ForwardInv)
  BY InitTypes, NextTypes, InitForward, NextForward, PTL DEF Spec

(* In every mode, however handlers of one request overlap: what is recorded *)
(* in processed_events is never still PENDING, so skipping it loses         *)
(* nothing.                                                                 *)
THEOREM RecordsComeAfter == Spec => []HandledNeverPending
<1>1. TypeInv /\ ForwardInv => HandledNeverPending
  BY DEF TypeInv, TypeOK, ForwardInv, KnownInv, HandledNeverPending
<1>2. QED
  BY <1>1, ForwardAlways, PTL

-----------------------------------------------------------------------------
(* Cards and their announcements, in every mode. *)

Ledger(r) ==
    /\ status[r] = "ISSUED" => r \in cards
    /\ r \in cards => approvals[r] > 0
    /\ r \notin cards => issuedTopic[r] = 0
    /\ issuedTopic[r] <= 1

Backing(i) ==
    /\ pc[i] = "markIssued" => approvals[cur[i]] > 0
    /\ pc[i] = "publishIssued" => cur[i] \in cards /\ issuedTopic[cur[i]] = 0

(* The unique requestId of cards lets one handler pass, and only that one   *)
(* announces.                                                               *)
OneAnnouncer ==
    \A i, j \in Processors :
        pc[i] = "publishIssued" /\ pc[j] = "publishIssued" /\ cur[i] = cur[j] => i = j

BackedInv ==
    /\ \A r \in Requests : Ledger(r)
    /\ \A i \in Processors : Backing(i)
    /\ OneAnnouncer

LEMMA InitBacked == Init => BackedInv
  BY DEF Init, BackedInv, Ledger, Backing, OneAnnouncer

(* What a handler's step may do to cards, approvals and announcements.      *)
LEMMA StepRecords ==
  ASSUME TypeInv, NEW i \in Processors, Execute(i) \/ AwaitRejects(i)
  PROVE  /\ \A r \in Requests :
                /\ approvals'[r] >= approvals[r]
                /\ r \in cards => r \in cards'
                /\ r \in cards' => r \in cards \/ (pc[i] = "markIssued" /\ r = cur[i])
                /\ status'[r] = "ISSUED" => status[r] = "ISSUED" \/ r \in cards'
                /\ issuedTopic'[r] = IF pc[i] = "publishIssued" /\ r = cur[i]
                                        /\ issuedTopic' # issuedTopic
                                     THEN issuedTopic[r] + 1 ELSE issuedTopic[r]
         /\ pc'[i] = "publishIssued" =>
                pc[i] = "markIssued" /\ cur[i] \notin cards /\ cur[i] \in cards'
         /\ pc'[i] = "markIssued" => approvals'[cur[i]] > 0
<1>1. cur[i] \in Requests
  BY StepKeepsHands DEF TypeInv, TypeOK
<1> USE DEF TypeInv, TypeOK, Goto
<1>2. CASE WasProcessed(i)
  BY <1>1, <1>2 DEF WasProcessed, EndDelivery, db_vars, out_vars, issuer_vars
<1>3. CASE FindRequest(i)
  BY <1>1, <1>3 DEF FindRequest, db_vars, out_vars, issuer_vars
<1>4. CASE MarkProcessing(i)
  BY <1>1, <1>4 DEF MarkProcessing, EndDelivery, out_vars, issuer_vars
<1>5. CASE IssueSucceeds(i)
  BY <1>1, <1>5 DEF IssueSucceeds, db_vars, out_vars
<1>6. CASE IssueFails(i)
  BY <1>1, <1>6 DEF IssueFails, db_vars, out_vars
<1>7. CASE Backoff(i)
  BY <1>1, <1>7 DEF Backoff, db_vars, out_vars, issuer_vars
<1>8. CASE MarkIssued(i)
  BY <1>1, <1>8 DEF MarkIssued, ReturnsOrRejects, EndDelivery, out_vars, issuer_vars
<1>9. CASE PublishIssued(i)
  BY <1>1, <1>9 DEF PublishIssued, ReturnsOrRejects, EndDelivery, db_vars, issuer_vars
<1>10. CASE MarkFailed(i)
  BY <1>1, <1>10 DEF MarkFailed, ReturnsOrRejects, EndDelivery, out_vars, issuer_vars
<1>11. CASE PublishDlq(i)
  BY <1>1, <1>11 DEF PublishDlq, ReturnsOrRejects, EndDelivery, db_vars, issuer_vars
<1>12. CASE MarkProcessed(i)
  BY <1>1, <1>12 DEF MarkProcessed, EndDelivery, out_vars, issuer_vars
<1>13. CASE AwaitRejects(i)
  BY <1>1, <1>13 DEF AwaitRejects, EndDelivery, db_vars, out_vars, issuer_vars
<1>14. QED
  BY <1>2, <1>3, <1>4, <1>5, <1>6, <1>7, <1>8, <1>9, <1>10, <1>11, <1>12, <1>13 DEF Execute

LEMMA NextBacked == TypeInv /\ BackedInv /\ [Next]_vars => BackedInv'
<1> SUFFICES ASSUME TypeInv, BackedInv, [Next]_vars
             PROVE  BackedInv'
  OBVIOUS
<1>1. CASE UNCHANGED <<status, cards, approvals, issuedTopic, pc, cur>>
  BY <1>1 DEF BackedInv, Ledger, Backing, OneAnnouncer
<1>2. ASSUME NEW r \in Requests, Accept(r)
      PROVE  BackedInv'
  <2>1. UNCHANGED <<cards, approvals, issuedTopic, pc, cur>>
    BY <1>2 DEF Accept, out_vars, handler_vars, issuer_vars
  <2>2. \A q \in Requests : status'[q] = "ISSUED" => status[q] = "ISSUED"
    BY <1>2 DEF Accept, TypeInv, TypeOK
  <2>3. QED
    BY <2>1, <2>2 DEF BackedInv, Ledger, Backing, OneAnnouncer
<1>3. ASSUME NEW i \in Processors, NEW p \in Partitions, Deliver(i, p)
      PROVE  BackedInv'
  <2>1. /\ UNCHANGED <<status, cards, approvals, issuedTopic>>
        /\ \A j \in Processors : pc'[j] = "wasProcessed" \/ (pc'[j] = pc[j] /\ cur'[j] = cur[j])
    BY <1>3 DEF Deliver, Goto, TypeInv, TypeOK, db_vars, out_vars, issuer_vars
  <2>2. QED
    BY <2>1 DEF BackedInv, Ledger, Backing, OneAnnouncer
<1>4. ASSUME NEW i \in Processors, Execute(i) \/ AwaitRejects(i)
      PROVE  BackedInv'
  <2>1. cur[i] \in Requests
    BY <1>4, StepKeepsHands DEF TypeInv, TypeOK
  <2>2. ASSUME NEW r \in Requests
        PROVE  Ledger(r)'
    <3>1. Ledger(r) /\ Backing(i)
      BY DEF BackedInv
    <3>2. approvals[r] \in Nat /\ approvals'[r] \in Nat /\ issuedTopic[r] \in Nat
      BY NextTypes DEF TypeInv, TypeOK
    <3>3. QED
      BY <1>4, <3>1, <3>2, StepRecords DEF Ledger, Backing
  <2>3. ASSUME NEW j \in Processors \ {i}
        PROVE  Backing(j)'
    <3>1. CASE pc[j] \in {"markIssued", "publishIssued"}
      <4>1. cur[j] \in Requests
        BY <3>1 DEF TypeInv, TypeOK
      <4>2. approvals[cur[j]] \in Nat /\ approvals'[cur[j]] \in Nat
        BY <4>1, NextTypes DEF TypeInv, TypeOK
      <4>3. Backing(j) /\ (pc[i] = "publishIssued" /\ pc[j] = "publishIssued" => cur[i] # cur[j])
        BY DEF BackedInv, OneAnnouncer
      <4>4. pc'[j] = pc[j] /\ cur'[j] = cur[j]
        BY <1>4, StepKeepsHands
      <4>5. /\ approvals'[cur[j]] >= approvals[cur[j]]
            /\ cur[j] \in cards => cur[j] \in cards'
            /\ cur[i] # cur[j] \/ pc[i] # "publishIssued" =>
                   issuedTopic'[cur[j]] = issuedTopic[cur[j]]
        BY <1>4, <4>1, StepRecords
      <4>6. QED
        BY <4>2, <4>3, <4>4, <4>5 DEF Backing
    <3>2. CASE pc[j] \notin {"markIssued", "publishIssued"}
      BY <1>4, <3>2, StepKeepsHands DEF Backing
    <3>3. QED
      BY <3>1, <3>2
  <2>4. Backing(i)'
    <3>1. Ledger(cur[i]) /\ (pc'[i] # "idle" => cur'[i] = cur[i])
      BY <1>4, <2>1, StepKeepsHands DEF BackedInv
    <3>2. QED
      BY <1>4, <2>1, <3>1, StepRecords DEF Ledger, Backing
  <2>5. OneAnnouncer'
    <3>1. ASSUME NEW j \in Processors \ {i}, pc'[i] = "publishIssued", pc'[j] = "publishIssued"
          PROVE  cur'[i] # cur'[j]
      <4>1. cur[j] \in cards
        BY <1>4, <3>1, StepKeepsHands DEF BackedInv, Backing
      <4>2. cur[i] \notin cards
        BY <1>4, <3>1, StepRecords
      <4>3. QED
        BY <1>4, <3>1, <4>1, <4>2, StepKeepsHands
    <3>2. QED
      BY <1>4, <3>1, StepKeepsHands DEF BackedInv, OneAnnouncer
  <2>6. QED
    BY <2>2, <2>3, <2>4, <2>5 DEF BackedInv
<1>5. ASSUME NEW i \in Processors, Crash(i)
      PROVE  BackedInv'
  <2>1. /\ UNCHANGED <<status, cards, approvals, issuedTopic>>
        /\ \A j \in Processors : pc'[j] = "idle" \/ (pc'[j] = pc[j] /\ cur'[j] = cur[j])
    BY <1>5 DEF Crash, Goto, TypeInv, TypeOK, db_vars, out_vars, issuer_vars
  <2>2. QED
    BY <2>1 DEF BackedInv, Ledger, Backing, OneAnnouncer
<1>6. QED
  BY <1>1, <1>2, <1>3, <1>4, <1>5
     DEF Next, Environment, Group, Produce, Assign, Commit, vars, db_vars, out_vars,
         handler_vars, issuer_vars

(* In every mode a card stands behind each ISSUED request and each           *)
(* announcement, the issuer's grant behind each card, and no request is      *)
(* announced twice.                                                         *)
THEOREM CardsBacked == Spec => []CardsAreBacked
<1>1. BackedInv => CardsAreBacked
  BY DEF BackedInv, Ledger, CardsAreBacked
<1>2. QED
  BY InitTypes, NextTypes, InitBacked, NextBacked, <1>1, PTL DEF Spec

-----------------------------------------------------------------------------
(* The issuer's grants when handlers overlap. *)

(* Those who may still be granted a card for the request.                   *)
Asking(r) ==
    {i \in Processors : cur[i] = r /\ pc[i] \in {"markProcessing", "issueCard", "backoff"}}

(* Each grant has used up a processor that had read PENDING.  Once the      *)
(* request is beyond PENDING nobody joins them.                             *)
GrantsInv ==
    \A r \in Requests :
        /\ approvals[r] + Cardinality(Asking(r)) <= Cardinality(Processors)
        /\ status[r] \in {NoRow, "PENDING"} => approvals[r] = 0

LEMMA AskingFinite ==
  ASSUME NEW r \in Requests
  PROVE  /\ IsFiniteSet(Asking(r))
         /\ Cardinality(Asking(r)) \in Nat
         /\ Cardinality(Processors) \in Nat
         /\ Cardinality(Asking(r)) <= Cardinality(Processors)
  BY FS_Subset, FS_CardinalityType, FiniteAssumption DEF Asking

LEMMA InitGrants == Init => GrantsInv
  BY AskingFinite DEF Init, GrantsInv

(* Whoever starts to ask has read PENDING, whoever is granted a card has    *)
(* asked, and asks no more.                                                 *)
LEMMA StepAsks ==
  ASSUME TypeInv, ForwardInv, NEW i \in Processors, Execute(i) \/ AwaitRejects(i),
         NEW r \in Requests
  PROVE  \/ approvals'[r] = approvals[r] /\ (Asking(r)' \subseteq Asking(r) \/ status[r] = "PENDING")
         \/ /\ approvals'[r] = approvals[r] + 1
            /\ i \in Asking(r)
            /\ Asking(r)' = Asking(r) \ {i}
            /\ status[r] \in Beyond
<1>1. /\ \A j \in Processors \ {i} : pc'[j] = pc[j] /\ cur'[j] = cur[j]
      /\ pc'[i] # "idle" => cur'[i] = cur[i]
      /\ cur[i] \in Requests
  BY StepKeepsHands DEF TypeInv, TypeOK
<1>2. CASE IssueSucceeds(i)
  <2>1. /\ approvals'[r] = IF r = cur[i] THEN approvals[r] + 1 ELSE approvals[r]
        /\ pc[i] = "issueCard" /\ pc'[i] = "markIssued"
    BY <1>1, <1>2 DEF IssueSucceeds, Goto, TypeInv, TypeOK
  <2>2. status[cur[i]] \in Beyond
    BY <2>1 DEF ForwardInv, Witnessed
  <2>3. CASE r = cur[i]
    BY <1>1, <2>1, <2>2, <2>3 DEF Asking
  <2>4. CASE r # cur[i]
    BY <1>1, <2>1, <2>4 DEF Asking
  <2>5. QED
    BY <2>3, <2>4
<1>3. CASE FindRequest(i)
  <2>1. CASE status[cur[i]] = "PENDING" /\ r = cur[i]
    BY <1>3, <2>1 DEF FindRequest, issuer_vars
  <2>2. CASE r # cur[i]
    BY <1>1, <1>3, <2>2 DEF FindRequest, Asking, issuer_vars
  <2>3. CASE status[cur[i]] # "PENDING"
    <3>1. pc'[i] = "markProcessed" /\ approvals' = approvals
      BY <1>3, <2>3 DEF FindRequest, Goto, issuer_vars, TypeInv, TypeOK
    <3>2. QED
      BY <1>1, <3>1 DEF Asking
  <2>4. QED
    BY <2>1, <2>2, <2>3
<1>4. CASE approvals' = approvals
           /\ (pc'[i] \in {"markProcessing", "issueCard", "backoff"} =>
                   pc[i] \in {"markProcessing", "issueCard", "backoff"})
  BY <1>1, <1>4 DEF Asking
<1>5. QED
  <2> USE DEF issuer_vars, Goto, TypeInv, TypeOK
  <2>1. CASE WasProcessed(i)
    BY <1>4, <2>1 DEF WasProcessed, EndDelivery
  <2>2. CASE MarkProcessing(i)
    BY <1>4, <2>2 DEF MarkProcessing, EndDelivery
  <2>3. CASE IssueFails(i) \/ Backoff(i)
    BY <1>4, <2>3 DEF IssueFails, Backoff
  <2>4. CASE MarkIssued(i) \/ PublishIssued(i) \/ MarkFailed(i) \/ PublishDlq(i)
    BY <1>4, <2>4 DEF MarkIssued, PublishIssued, MarkFailed, PublishDlq, ReturnsOrRejects,
                      EndDelivery
  <2>5. CASE MarkProcessed(i) \/ AwaitRejects(i)
    BY <1>4, <2>5 DEF MarkProcessed, AwaitRejects, EndDelivery
  <2>6. QED
    BY <1>2, <1>3, <2>1, <2>2, <2>3, <2>4, <2>5 DEF Execute

LEMMA NextGrants == TypeInv /\ ForwardInv /\ GrantsInv /\ [Next]_vars => GrantsInv'
<1> SUFFICES ASSUME TypeInv, ForwardInv, GrantsInv, [Next]_vars, NEW r \in Requests
             PROVE  (/\ approvals[r] + Cardinality(Asking(r)) <= Cardinality(Processors)
                     /\ status[r] \in {NoRow, "PENDING"} => approvals[r] = 0)'
  BY DEF GrantsInv
<1>1. /\ approvals[r] + Cardinality(Asking(r)) <= Cardinality(Processors)
      /\ status[r] \in {NoRow, "PENDING"} => approvals[r] = 0
      /\ approvals[r] \in Nat
  BY DEF GrantsInv, TypeInv, TypeOK
<1>2. /\ IsFiniteSet(Asking(r))
      /\ Cardinality(Asking(r)) \in Nat
      /\ Cardinality(Processors) \in Nat
  BY AskingFinite
<1>3. (Cardinality(Asking(r)) \in Nat /\ Cardinality(Asking(r)) <= Cardinality(Processors))'
  <2>1. Asking(r)' \in SUBSET Processors
    BY DEF Asking
  <2>2. QED
    BY <2>1, FS_Subset, FS_CardinalityType, FiniteAssumption
<1>4. CASE /\ approvals'[r] = approvals[r]
           /\ Asking(r)' \subseteq Asking(r)
           /\ status'[r] \in {NoRow, "PENDING"} => status[r] \in {NoRow, "PENDING"}
  <2>1. Cardinality(Asking(r)') <= Cardinality(Asking(r))
    BY <1>2, <1>4, FS_Subset
  <2>2. QED
    BY <1>1, <1>2, <1>3, <1>4, <2>1
<1>5. ASSUME NEW i \in Processors, Execute(i) \/ AwaitRejects(i)
      PROVE  (/\ approvals[r] + Cardinality(Asking(r)) <= Cardinality(Processors)
              /\ status[r] \in {NoRow, "PENDING"} => approvals[r] = 0)'
  <2>1. status'[r] \in {NoRow, "PENDING"} => status'[r] = status[r]
    BY <1>5, StepMovesForward DEF Beyond
  <2>2. CASE approvals'[r] = approvals[r] /\ status[r] = "PENDING"
    BY <1>1, <1>3, <2>1, <2>2
  <2>3. CASE approvals'[r] = approvals[r] /\ Asking(r)' \subseteq Asking(r)
    BY <1>4, <2>1, <2>3
  <2>4. CASE /\ approvals'[r] = approvals[r] + 1
             /\ i \in Asking(r)
             /\ Asking(r)' = Asking(r) \ {i}
             /\ status[r] \in Beyond
    <3>1. Cardinality(Asking(r)') = Cardinality(Asking(r)) - 1
      BY <1>2, <2>4, FS_RemoveElement
    <3>2. QED
      BY <1>1, <1>2, <2>1, <2>4, <3>1 DEF Beyond
  <2>5. QED
    BY <1>5, <2>2, <2>3, <2>4, StepAsks
<1>6. ASSUME NEW q \in Requests, Accept(q)
      PROVE  /\ approvals'[r] = approvals[r]
             /\ Asking(r)' \subseteq Asking(r)
             /\ status'[r] \in {NoRow, "PENDING"} => status[r] \in {NoRow, "PENDING"}
  BY <1>6 DEF Accept, TypeInv, TypeOK, Asking, handler_vars, issuer_vars
<1>7. ASSUME NEW i \in Processors, NEW p \in Partitions, Deliver(i, p)
      PROVE  approvals'[r] = approvals[r] /\ Asking(r)' \subseteq Asking(r) /\ status' = status
  BY <1>7 DEF Deliver, Goto, TypeInv, TypeOK, Asking, db_vars, issuer_vars
<1>8. ASSUME NEW i \in Processors, Crash(i)
      PROVE  approvals'[r] = approvals[r] /\ Asking(r)' \subseteq Asking(r) /\ status' = status
  BY <1>8 DEF Crash, Goto, TypeInv, TypeOK, Asking, db_vars, issuer_vars
<1>9. CASE UNCHANGED <<approvals, status, pc, cur>>
  <2>1. Asking(r)' = Asking(r)
    BY <1>9 DEF Asking
  <2>2. QED
    BY <1>4, <1>9, <2>1
<1>10. QED
  BY <1>4, <1>5, <1>6, <1>7, <1>8, <1>9
     DEF Next, Environment, Group, Produce, Assign, Commit, vars, db_vars, handler_vars,
         issuer_vars

LEMMA GrantsAlways == Spec => [](TypeInv /\ ForwardInv /\ GrantsInv)
  BY InitTypes, NextTypes, InitForward, NextForward, InitGrants, NextGrants, PTL DEF Spec

(* In every mode the issuer grants a request one card for each processor at *)
(* most, however often its event is delivered.                              *)
THEOREM GrantsBounded == Spec => []ApprovalsBoundedByProcessors
<1>1. TypeInv /\ GrantsInv => ApprovalsBoundedByProcessors
  <2> SUFFICES ASSUME TypeInv, GrantsInv, NEW r \in Requests
               PROVE  approvals[r] <= Cardinality(Processors)
    BY DEF ApprovalsBoundedByProcessors
  <2>1. approvals[r] \in Nat /\ approvals[r] + Cardinality(Asking(r)) <= Cardinality(Processors)
    BY DEF TypeInv, TypeOK, GrantsInv
  <2>2. QED
    BY <2>1, AskingFinite
<1>2. QED
  BY <1>1, GrantsAlways, PTL

-----------------------------------------------------------------------------
(* Where the group stands in its partitions, without session expiry. *)

(* It never reads past the end, nor ahead of what it commits, and a busy    *)
(* processor stands at the message it has in hand.                          *)
OffsetInv ==
    /\ \A p \in Partitions :
           /\ committed[p] >= 1
           /\ committed[p] <= position[p]
           /\ position[p] <= Len(topic[p]) + 1
    /\ \A i \in Processors : pc[i] # "idle" =>
           /\ position[PartitionOf[cur[i]]] \in DOMAIN topic[PartitionOf[cur[i]]]
           /\ topic[PartitionOf[cur[i]]][position[PartitionOf[cur[i]]]] = cur[i]

LEMMA InitOffsets ==
  ASSUME FreshGroup = FALSE
  PROVE  Init => OffsetInv
  BY DEF Init, OffsetInv

(* A handler's step moves the group only as it ends, past its own message.  *)
LEMMA StepMovesOn ==
  ASSUME TypeInv, NEW i \in Processors, Execute(i) \/ AwaitRejects(i)
  PROVE  /\ committed' = committed
         /\ \/ position' = position
            \/ /\ pc'[i] = "idle"
               /\ position' = [position EXCEPT ![PartitionOf[cur[i]]] = @ + 1]
  BY DEF TypeInv, TypeOK, Execute, WasProcessed, FindRequest, MarkProcessing,
         IssueSucceeds, IssueFails, Backoff, MarkIssued, PublishIssued, MarkFailed,
         PublishDlq, MarkProcessed, AwaitRejects, ReturnsOrRejects,
         EndDelivery, Goto, log_vars

(* So it keeps to what it may read.                                         *)
LEMMA EndKeepsOffsets ==
  ASSUME TypeInv, OwnInv, OffsetInv, NEW i \in Processors, pc[i] # "idle",
         topic' = topic, committed' = committed,
         \A j \in Processors \ {i} : pc'[j] = pc[j] /\ cur'[j] = cur[j],
         pc'[i] = "idle" \/ cur'[i] = cur[i],
         \/ position' = position
         \/ /\ pc'[i] = "idle"
            /\ position' = [position EXCEPT ![PartitionOf[cur[i]]] = @ + 1]
  PROVE  OffsetInv'
<1> USE PartitionsAssumption, NothingAssumption
<1>1. PartitionOf[cur[i]] \in Partitions
  BY DEF TypeInv, TypeOK
<1>2. \A p \in Partitions : Len(topic[p]) \in Nat /\ position[p] \in Nat /\ committed[p] \in Nat
                            /\ DOMAIN topic[p] = 1 .. Len(topic[p])
  BY DEF TypeInv, TypeOK
<1>3. CASE position' = position
  BY <1>1, <1>3 DEF OffsetInv
<1>4. CASE /\ pc'[i] = "idle"
           /\ position' = [position EXCEPT ![PartitionOf[cur[i]]] = @ + 1]
  <2>1. \A p \in Partitions :
            position'[p] = IF p = PartitionOf[cur[i]] THEN position[p] + 1 ELSE position[p]
    BY <1>4 DEF TypeInv, TypeOK
  <2>2. \A j \in Processors \ {i} :
            pc[j] # "idle" => /\ PartitionOf[cur[j]] \in Partitions
                              /\ PartitionOf[cur[j]] # PartitionOf[cur[i]]
    BY DEF OwnInv, OwnerInv, TypeInv, TypeOK
  <2>3. \A p \in Partitions :
            /\ committed[p] <= position'[p]
            /\ position'[p] <= Len(topic[p]) + 1
    BY <1>1, <1>2, <2>1 DEF OffsetInv
  <2>4. QED
    BY <1>1, <1>4, <2>1, <2>2, <2>3 DEF OffsetInv
<1>5. QED
  BY <1>3, <1>4

LEMMA NextOffsets ==
  ASSUME SessionExpiry = FALSE
  PROVE  TypeInv /\ OwnInv /\ OffsetInv /\ [Next]_vars => OffsetInv'
<1> SUFFICES ASSUME TypeInv, OwnInv, OffsetInv, [Next]_vars
             PROVE  OffsetInv'
  OBVIOUS
<1> USE PartitionsAssumption, NothingAssumption
<1>1. CASE UNCHANGED <<topic, committed, position, pc, cur>>
  BY <1>1 DEF OffsetInv
<1>2. ASSUME NEW r \in Requests, Produce(r)
      PROVE  OffsetInv'
  <2>1. UNCHANGED <<committed, position, pc, cur>>
    BY <1>2 DEF Produce, handler_vars
  <2>2. \A p \in Partitions :
            /\ Len(topic'[p]) >= Len(topic[p])
            /\ \A k \in DOMAIN topic[p] : k \in DOMAIN topic'[p] /\ topic'[p][k] = topic[p][k]
    <3> SUFFICES ASSUME NEW p \in Partitions
                 PROVE  /\ Len(topic'[p]) >= Len(topic[p])
                        /\ \A k \in DOMAIN topic[p] :
                               k \in DOMAIN topic'[p] /\ topic'[p][k] = topic[p][k]
      OBVIOUS
    <3>1. topic[p] \in Seq(Requests) /\ topic'[p] \in {topic[p], Append(topic[p], r)}
      BY <1>2 DEF Produce, TypeInv, TypeOK
    <3>2. QED
      BY <3>1
  <2>3. \A p \in Partitions : Len(topic[p]) \in Nat /\ Len(topic'[p]) \in Nat /\ position[p] \in Nat
    <3>1. TypeInv'
      BY NextTypes
    <3>2. topic \in [Partitions -> Seq(Requests)] /\ topic' \in [Partitions -> Seq(Requests)]
      BY <3>1 DEF TypeInv, TypeOK
    <3>3. QED
      BY <3>2 DEF TypeInv, TypeOK
  <2>4. \A i \in Processors : pc[i] # "idle" => PartitionOf[cur[i]] \in Partitions
    BY DEF TypeInv, TypeOK
  <2>5. QED
    BY <2>1, <2>2, <2>3, <2>4 DEF OffsetInv
<1>3. ASSUME NEW i \in Processors, NEW p \in Partitions, Assign(i, p)
      PROVE  OffsetInv'
  <2>1. \A q \in Partitions : Len(topic[q]) \in Nat /\ position[q] \in Nat /\ committed[q] \in Nat
    BY DEF TypeInv, TypeOK
  <2>2. StartOffset(p) = committed[p]
    BY <2>1 DEF StartOffset, OffsetInv
  <2>3. /\ UNCHANGED <<topic, committed, pc, cur>>
        /\ \A q \in Partitions : position'[q] = IF q = p THEN committed[p] ELSE position[q]
    BY <1>3, <2>2 DEF Assign, TypeInv, TypeOK
  <2>4. \A j \in Processors : pc[j] # "idle" =>
            /\ PartitionOf[cur[j]] \in Partitions
            /\ PartitionOf[cur[j]] # p
    BY <1>3 DEF Assign, HandlerRunsOn, TypeInv, TypeOK
  <2>5. \A q \in Partitions :
            /\ committed[q] <= position'[q]
            /\ position'[q] <= Len(topic[q]) + 1
    BY <2>1, <2>3 DEF OffsetInv
  <2>6. \A j \in Processors : pc[j] # "idle" =>
            position'[PartitionOf[cur[j]]] = position[PartitionOf[cur[j]]]
    BY <2>3, <2>4
  <2>7. QED
    BY <2>3, <2>5, <2>6 DEF OffsetInv
<1>4. ASSUME NEW i \in Processors, NEW p \in Partitions, Commit(i, p)
      PROVE  OffsetInv'
  BY <1>4 DEF Commit, OffsetInv, TypeInv, TypeOK, handler_vars
<1>5. ASSUME NEW i \in Processors, NEW p \in Partitions, Deliver(i, p)
      PROVE  OffsetInv'
  <2>1. /\ UNCHANGED <<topic, committed, position>>
        /\ cur' = [cur EXCEPT ![i] = topic[p][position[p]]]
        /\ pc' = [pc EXCEPT ![i] = "wasProcessed"]
    BY <1>5 DEF Deliver, Goto, log_vars
  <2>2. position[p] \in DOMAIN topic[p]
    BY <1>5 DEF Deliver, TypeInv, TypeOK
  <2>3. PartitionOf[topic[p][position[p]]] = p
    BY <2>2 DEF OwnInv, TopicInv
  <2>4. QED
    BY <2>1, <2>2, <2>3 DEF OffsetInv, TypeInv, TypeOK
<1>6. ASSUME NEW i \in Processors, Execute(i) \/ AwaitRejects(i)
      PROVE  OffsetInv'
  BY <1>6, StepKeepsHands, StepMovesOn, EndKeepsOffsets
<1>7. ASSUME NEW i \in Processors, Crash(i)
      PROVE  OffsetInv'
  BY <1>7 DEF Crash, Goto, OffsetInv, TypeInv, TypeOK
<1>8. QED
  BY <1>1, <1>2, <1>3, <1>4, <1>5, <1>6, <1>7
     DEF Next, Environment, Group, Accept, vars, log_vars, handler_vars

LEMMA OffsetsAlways ==
  ASSUME SessionExpiry = FALSE, FreshGroup = FALSE
  PROVE  Spec => [](TypeInv /\ OwnInv /\ SafeInv /\ ForwardInv /\ OffsetInv)
  BY InitTypes, NextTypes, InitOwn, NextOwn, InitSafe, NextSafe, InitForward, NextForward,
     InitOffsets, NextOffsets, PTL DEF Spec

-----------------------------------------------------------------------------
(* What a fault costs. *)

Engaged(r, steps) == \E i \in Processors : cur[i] = r /\ pc[i] \in steps

(* Nobody will carry the request to its outcome, though somebody may be     *)
(* busy with its event and about to find that nothing is left to do.        *)
Abandoned(r) ==
    \/ status[r] = "PENDING" /\ Passed(r) /\ ~WorkedOn(r)
    \/ /\ status[r] = "PROCESSING"
       /\ ~Engaged(r, {"issueCard", "backoff", "markIssued", "markFailed"})
    \/ status[r] = "ISSUED" /\ issuedTopic[r] = 0 /\ ~Engaged(r, {"publishIssued"})
    \/ status[r] = "FAILED" /\ dlqTopic[r] = 0 /\ ~Engaged(r, {"publishDlq"})

Losses == {r \in Requests : Abandoned(r)}

Paid == faults["error"] + faults["crash"]

LossInv == Cardinality(Losses) <= Paid

LEMMA KeptIfLeftAlone ==
  ASSUME NEW r \in Requests, status'[r] = status[r], issuedTopic'[r] = issuedTopic[r],
         dlqTopic'[r] = dlqTopic[r], Passed(r)' => Passed(r),
         \A j \in Processors : cur[j] = r => cur'[j] = r /\ pc'[j] = pc[j]
  PROVE  Abandoned(r)' => Abandoned(r)
<1>1. WorkedOn(r) => WorkedOn(r)'
  BY DEF WorkedOn
<1>2. ASSUME NEW steps, Engaged(r, steps)
      PROVE  Engaged(r, steps)'
  BY <1>2 DEF Engaged
<1>3. QED
  BY <1>1, <1>2 DEF Abandoned

(* The consumer moves past no message of a request nobody has in hand.      *)
LEMMA OthersKept ==
  ASSUME TypeInv, OffsetInv, NEW i \in Processors, pc[i] # "idle", topic' = topic,
         \/ position' = position
         \/ position' = [position EXCEPT ![PartitionOf[cur[i]]] = @ + 1],
         \A j \in Processors \ {i} : pc'[j] = pc[j] /\ cur'[j] = cur[j],
         NEW r \in Requests \ {cur[i]}, status'[r] = status[r],
         issuedTopic'[r] = issuedTopic[r], dlqTopic'[r] = dlqTopic[r], Abandoned(r)'
  PROVE  Abandoned(r)
<1>1. Passed(r)' => Passed(r)
  <2> DEFINE p == PartitionOf[r]
             q == PartitionOf[cur[i]]
  <2>1. p \in Partitions /\ q \in Partitions
    BY PartitionsAssumption DEF TypeInv, TypeOK
  <2>2. /\ topic[p] \in Seq(Requests) /\ position[p] \in Nat
        /\ position'[p] = position[p] \/ (p = q /\ position'[p] = position[p] + 1)
    <3>1. position' = position \/ position' = [position EXCEPT ![q] = @ + 1]
      OBVIOUS
    <3>2. position \in [Partitions -> Nat] /\ topic[p] \in Seq(Requests)
      BY <2>1 DEF TypeInv, TypeOK
    <3>3. QED
      BY <2>1, <3>1, <3>2
  <2>3. p = q => topic[p][position[p]] = cur[i]
    BY DEF OffsetInv
  <2>4. ASSUME NEW k \in DOMAIN topic[p], topic[p][k] = r, k < position'[p]
        PROVE  k < position[p]
    <3>1. k \in Nat
      BY <2>2
    <3>2. QED
      BY <2>2, <2>3, <2>4, <3>1
  <2>5. QED
    BY <2>1, <2>4 DEF Passed
<1>2. QED
  BY <1>1, KeptIfLeftAlone

(* The requests nobody has in hand are not touched by a handler's step.     *)
LEMMA OthersNotAbandoned ==
  ASSUME TypeInv, OffsetInv, NEW i \in Processors, Execute(i) \/ AwaitRejects(i),
         NEW r \in Requests \ {cur[i]}, Abandoned(r)'
  PROVE  Abandoned(r)
<1>1. /\ status'[r] = status[r]
      /\ issuedTopic'[r] = issuedTopic[r]
      /\ dlqTopic'[r] = dlqTopic[r]
  BY StepIsLocal
<1>2. QED
  BY <1>1, StepKeepsHands, StepMovesOn, OthersKept

(* A step that ends without a failure abandons nothing: what its handler    *)
(* leaves undone is done already.                                           *)
LEMMA OwnNotAbandoned ==
  ASSUME TypeInv, SafeInv, ForwardInv, NEW i \in Processors, Execute(i), faults' = faults,
         NEW r \in Requests, r = cur[i], Abandoned(r)'
  PROVE  Abandoned(r)
<1>1. HandlerKnows(i) /\ OutcomeAgrees(r) /\ Witnessed(i)
  BY DEF SafeInv, RequestInv, ForwardInv
<1>2. /\ r \in processed => status[r] # "PENDING"
      /\ issuedTopic[r] \in Nat /\ dlqTopic[r] \in Nat
  BY DEF ForwardInv, KnownInv, TypeInv, TypeOK
<1>3. ~Spend("error")
  BY DEF Spend, TypeInv, TypeOK, FaultKinds
<1>4. WorkedOn(r)
  BY DEF WorkedOn
<1>5. \A j \in Processors \ {i} : cur[j] = r => cur'[j] = r /\ pc'[j] = pc[j]
  BY StepKeepsHands
<1>6. ASSUME NEW steps, Engaged(r, steps), pc[i] \notin steps
      PROVE  Engaged(r, steps)'
  BY <1>5, <1>6 DEF Engaged
<1>7. ASSUME NEW step, Goto(i, step), cur' = cur
      PROVE  pc'[i] = step /\ cur'[i] = r /\ WorkedOn(r)'
  BY <1>7 DEF Goto, TypeInv, TypeOK, WorkedOn
<1> USE DEF Abandoned
<1>8. CASE WasProcessed(i) \/ FindRequest(i)
  <2>1. /\ status' = status /\ issuedTopic' = issuedTopic /\ dlqTopic' = dlqTopic
        /\ pc[i] \in {"wasProcessed", "findRequest"}
        /\ status[r] = "PENDING" => WorkedOn(r)'
    BY <1>2, <1>7, <1>8 DEF WasProcessed, FindRequest, db_vars, out_vars
  <2>2. QED
    BY <1>6, <2>1
<1>9. CASE MarkProcessing(i)
  <2>1. status'[r] = "PROCESSING" /\ Goto(i, "issueCard") /\ cur' = cur
    BY <1>3, <1>9 DEF MarkProcessing, TypeInv, TypeOK
  <2>2. QED
    BY <1>7, <2>1 DEF Engaged
<1>10. CASE IssueSucceeds(i) \/ IssueFails(i) \/ Backoff(i)
  <2>1. status'[r] = "PROCESSING" /\ pc'[i] \in {"issueCard", "backoff", "markIssued", "markFailed"}
        /\ cur'[i] = r
    BY <1>1, <1>7, <1>10 DEF IssueSucceeds, IssueFails, Backoff, HandlerKnows, db_vars
  <2>2. QED
    BY <2>1 DEF Engaged
<1>11. CASE MarkIssued(i)
  <2>1. status'[r] = "ISSUED" /\ Goto(i, "publishIssued") /\ cur' = cur
    BY <1>1, <1>3, <1>11
       DEF MarkIssued, ReturnsOrRejects, HandlerKnows, OutcomeAgrees, TypeInv, TypeOK
  <2>2. QED
    BY <1>7, <2>1 DEF Engaged
<1>12. CASE PublishIssued(i)
  <2>1. status'[r] = "ISSUED" /\ issuedTopic'[r] # 0
    BY <1>1, <1>2, <1>12 DEF PublishIssued, HandlerKnows, TypeInv, TypeOK, db_vars
  <2>2. QED
    BY <2>1
<1>13. CASE MarkFailed(i)
  <2>1. status'[r] = "FAILED" /\ Goto(i, "publishDlq") /\ cur' = cur
    BY <1>3, <1>13 DEF MarkFailed, ReturnsOrRejects, TypeInv, TypeOK
  <2>2. QED
    BY <1>7, <2>1 DEF Engaged
<1>14. CASE PublishDlq(i)
  <2>1. status'[r] = "FAILED" /\ dlqTopic'[r] # 0
    BY <1>1, <1>2, <1>14 DEF PublishDlq, HandlerKnows, TypeInv, TypeOK, db_vars
  <2>2. QED
    BY <2>1
<1>15. CASE MarkProcessed(i)
  <2>1. /\ status' = status /\ issuedTopic' = issuedTopic /\ dlqTopic' = dlqTopic
        /\ pc[i] = "markProcessed"
        /\ status[r] # "PENDING"
    BY <1>1, <1>15 DEF MarkProcessed, Witnessed, out_vars
  <2>2. QED
    BY <1>6, <2>1
<1>16. QED
  BY <1>8, <1>9, <1>10, <1>11, <1>12, <1>13, <1>14, <1>15 DEF Execute

LEMMA SpendPays ==
  ASSUME TypeInv, NEW kind \in {"error", "crash"}, Spend(kind)
  PROVE  Paid' = Paid + 1
  BY DEF TypeInv, TypeOK, FaultKinds, Spend, Paid

LEMMA StepPays ==
  ASSUME TypeInv, NEW i \in Processors, Execute(i) \/ AwaitRejects(i)
  PROVE  (Execute(i) /\ faults' = faults) \/ Paid' = Paid + 1
<1>1. Spend("error") => Paid' = Paid + 1
  BY SpendPays
<1>2. AwaitRejects(i) => Spend("error")
  BY DEF AwaitRejects
<1>3. Execute(i) => faults' = faults \/ Spend("error")
  BY DEF Execute, WasProcessed, FindRequest, MarkProcessing, IssueSucceeds, IssueFails,
         Backoff, MarkIssued, PublishIssued, MarkFailed, PublishDlq, MarkProcessed,
         ReturnsOrRejects
<1>4. QED
  BY <1>1, <1>2, <1>3

LEMMA LossesFinite == IsFiniteSet(Losses) /\ Cardinality(Losses) \in Nat
  BY FS_Subset, FS_CardinalityType, FiniteAssumption DEF Losses

LEMMA OneMoreAtMost ==
  ASSUME NEW S, IsFiniteSet(S), NEW x, NEW T, T \subseteq S \cup {x}
  PROVE  Cardinality(T) <= Cardinality(S) + 1
<1>1. IsFiniteSet(S \cup {x}) /\ Cardinality(S \cup {x}) <= Cardinality(S) + 1
  <2>1. Cardinality(S) \in Nat
    BY FS_CardinalityType
  <2>2. /\ IsFiniteSet(S \cup {x})
        /\ Cardinality(S \cup {x}) = IF x \in S THEN Cardinality(S) ELSE Cardinality(S) + 1
    BY FS_AddElement
  <2>3. QED
    BY <2>1, <2>2
<1>2. Cardinality(T) <= Cardinality(S \cup {x}) /\ IsFiniteSet(T)
  BY <1>1, FS_Subset
<1>3. Cardinality(S) \in Nat /\ Cardinality(T) \in Nat /\ Cardinality(S \cup {x}) \in Nat
  BY <1>1, <1>2, FS_CardinalityType
<1>4. QED
  BY <1>1, <1>2, <1>3

(* What a step may add to the losses, and what it must pay for it.          *)
LEMMA LossesPaid ==
  ASSUME LossInv, faults \in [FaultKinds -> Nat], faults' \in [FaultKinds -> Nat],
         \/ Losses' \subseteq Losses /\ Paid' >= Paid
         \/ Paid' = Paid + 1 /\ \E x : Losses' \subseteq Losses \cup {x}
  PROVE  LossInv'
<1>1. Paid \in Nat /\ Paid' \in Nat
  BY DEF Paid, FaultKinds
<1>2. IsFiniteSet(Losses') /\ Cardinality(Losses') \in Nat
  <2>1. Losses' \subseteq Requests
    BY DEF Losses
  <2>2. QED
    BY <2>1, FS_Subset, FS_CardinalityType, FiniteAssumption
<1>3. CASE Losses' \subseteq Losses /\ Paid' >= Paid
  <2>1. Cardinality(Losses') <= Cardinality(Losses)
    BY <1>3, LossesFinite, FS_Subset
  <2>2. QED
    BY <1>1, <1>2, <1>3, <2>1, LossesFinite DEF LossInv
<1>4. CASE Paid' = Paid + 1 /\ \E x : Losses' \subseteq Losses \cup {x}
  <2>1. PICK x : Losses' \subseteq Losses \cup {x}
    BY <1>4
  <2>2. Cardinality(Losses') <= Cardinality(Losses) + 1
    BY <2>1, LossesFinite, OneMoreAtMost
  <2>3. QED
    BY <1>1, <1>2, <1>4, <2>2, LossesFinite DEF LossInv
<1>5. QED
  BY <1>3, <1>4

LEMMA InitLosses == Init => LossInv
<1> SUFFICES ASSUME Init
             PROVE  LossInv
  OBVIOUS
<1>1. Losses = {}
  BY DEF Init, Losses, Abandoned
<1>2. Cardinality(Losses) = 0 /\ Paid = 0
  BY <1>1, FS_EmptySet DEF Init, Paid, FaultKinds
<1>3. QED
  BY <1>2 DEF LossInv

(* A step loses nothing, or one request at most and pays for it.            *)
Pays ==
    \/ Losses' \subseteq Losses /\ Paid' = Paid
    \/ Paid' = Paid + 1 /\ \E x : Losses' \subseteq Losses \cup {x}

LEMMA NextPays ==
  ASSUME TypeInv, OwnInv, SafeInv, ForwardInv, OffsetInv, [Next]_vars
  PROVE  Pays
<1> USE PartitionsAssumption, NothingAssumption
<1>1. faults \in [FaultKinds -> Nat] /\ faults' \in [FaultKinds -> Nat]
  BY NextTypes DEF TypeInv, TypeOK
<1>2. Paid \in Nat
  BY <1>1 DEF Paid, FaultKinds
<1>3. ASSUME \A r \in Requests : Abandoned(r)' => Abandoned(r), faults' = faults
      PROVE  Pays
  BY <1>3 DEF Pays, Losses, Paid
<1>4. CASE UNCHANGED vars
  <2>1. \A r \in Requests : Passed(r)' => Passed(r)
    BY <1>4 DEF Passed, vars, log_vars, handler_vars
  <2>2. QED
    BY <1>3, <1>4, <2>1, KeptIfLeftAlone DEF vars, db_vars, out_vars, handler_vars
<1>5. ASSUME NEW a \in Requests, Accept(a)
      PROVE  Pays
  <2>1. UNCHANGED <<topic, position, issuedTopic, dlqTopic, pc, cur, faults>>
    BY <1>5 DEF Accept, log_vars, out_vars, handler_vars
  <2>2. \A r \in Requests : Passed(r)' => Passed(r)
    BY <2>1 DEF Passed
  <2>3. \A r \in Requests \ {a} : Abandoned(r)' => Abandoned(r)
    BY <1>5, <2>1, <2>2, KeptIfLeftAlone DEF Accept, TypeInv, TypeOK
  <2>4. ~Passed(a)
    BY <1>5 DEF Accept, Passed, ForwardInv, KnownInv, Known
  <2>5. ~Abandoned(a)'
    BY <1>5, <2>2, <2>4 DEF Accept, Abandoned, TypeInv, TypeOK
  <2>6. QED
    BY <1>3, <2>1, <2>3, <2>5
<1>6. ASSUME NEW a \in Requests, Produce(a)
      PROVE  Pays
  <2>1. UNCHANGED <<status, position, issuedTopic, dlqTopic, pc, cur, faults>>
    BY <1>6 DEF Produce, db_vars, out_vars, handler_vars
  <2>2. ASSUME NEW r \in Requests, Passed(r)'
        PROVE  Passed(r)
    <3> DEFINE p == PartitionOf[r]
    <3>1. /\ topic[p] \in Seq(Requests)
          /\ position[p] \in Nat /\ position[p] <= Len(topic[p]) + 1
          /\ topic'[p] = topic[p] \/ (p = PartitionOf[a] /\ topic'[p] = Append(topic[p], a))
      BY <1>6 DEF Produce, TypeInv, TypeOK, OffsetInv
    <3>2. CASE topic'[p] = topic[p]
      BY <2>1, <2>2, <3>2 DEF Passed
    <3>3. CASE topic'[p] = Append(topic[p], a)
      <4>1. /\ DOMAIN topic'[p] = DOMAIN topic[p] \cup {Len(topic[p]) + 1}
            /\ \A k \in DOMAIN topic[p] : topic'[p][k] = topic[p][k]
            /\ topic'[p][Len(topic[p]) + 1] = a
        BY <3>1, <3>3
      <4>2. a # r
        BY <2>1, <2>2, <3>1, <4>1 DEF Passed
      <4>3. QED
        BY <2>1, <2>2, <4>1, <4>2 DEF Passed
    <3>4. QED
      BY <3>1, <3>2, <3>3
  <2>3. QED
    BY <1>3, <2>1, <2>2, KeptIfLeftAlone
<1>7. ASSUME NEW i \in Processors, NEW p \in Partitions, Assign(i, p)
      PROVE  Pays
  <2>1. UNCHANGED <<status, topic, issuedTopic, dlqTopic, pc, cur>> /\ Paid' = Paid
    BY <1>7, <1>1 DEF Assign, Spend, Paid, FaultKinds, db_vars, out_vars
  <2>2. \A q \in Partitions : position'[q] \in Nat /\ position[q] \in Nat /\ position'[q] <= position[q]
    BY <1>7 DEF Assign, StartOffset, OffsetInv, TypeInv, TypeOK
  <2>3. ASSUME NEW r \in Requests, Passed(r)'
        PROVE  Passed(r)
    <3>1. PartitionOf[r] \in Partitions /\ topic[PartitionOf[r]] \in Seq(Requests)
      BY DEF TypeInv, TypeOK
    <3>2. \A k \in DOMAIN topic[PartitionOf[r]] :
              k < position'[PartitionOf[r]] => k < position[PartitionOf[r]]
      BY <2>2, <3>1
    <3>3. QED
      BY <2>1, <2>3, <3>2 DEF Passed
  <2>4. Losses' \subseteq Losses
    BY <2>1, <2>3, KeptIfLeftAlone DEF Losses
  <2>5. QED
    BY <2>1, <2>4 DEF Pays
<1>8. ASSUME NEW i \in Processors, NEW p \in Partitions, Commit(i, p)
      PROVE  Pays
  <2>1. UNCHANGED <<status, topic, position, issuedTopic, dlqTopic, pc, cur, faults>>
    BY <1>8 DEF Commit, db_vars, out_vars, handler_vars
  <2>2. \A r \in Requests : Passed(r)' => Passed(r)
    BY <2>1 DEF Passed
  <2>3. QED
    BY <1>3, <2>1, <2>2, KeptIfLeftAlone
<1>9. ASSUME NEW i \in Processors, NEW p \in Partitions, Deliver(i, p)
      PROVE  Pays
  <2>1. UNCHANGED <<status, topic, position, issuedTopic, dlqTopic, faults>>
    BY <1>9 DEF Deliver, db_vars, log_vars, out_vars
  <2>2. \A r \in Requests : Passed(r)' => Passed(r)
    BY <2>1 DEF Passed
  <2>3. cur[i] \notin Requests
    BY <1>9 DEF Deliver, TypeInv, TypeOK
  <2>4. \A j \in Processors : cur[j] \in Requests => cur'[j] = cur[j] /\ pc'[j] = pc[j]
    BY <1>9, <2>3 DEF Deliver, Goto, TypeInv, TypeOK
  <2>5. QED
    BY <1>3, <2>1, <2>2, <2>4, KeptIfLeftAlone
<1>10. ASSUME NEW i \in Processors, Execute(i) \/ AwaitRejects(i)
       PROVE  Pays
  <2>1. Losses' \subseteq Losses \cup {cur[i]}
    BY <1>10, OthersNotAbandoned DEF Losses
  <2>2. CASE Paid' = Paid + 1
    BY <2>1, <2>2 DEF Pays
  <2>3. CASE Execute(i) /\ faults' = faults
    <3>1. ASSUME NEW r \in Requests, Abandoned(r)'
          PROVE  Abandoned(r)
      BY <2>3, <3>1, OthersNotAbandoned, OwnNotAbandoned
    <3>2. QED
      BY <1>3, <2>3, <3>1
  <2>4. QED
    BY <1>10, <2>2, <2>3, StepPays
<1>11. ASSUME NEW i \in Processors, Crash(i)
       PROVE  Pays
  <2>1. UNCHANGED <<status, topic, position, issuedTopic, dlqTopic>>
    BY <1>11 DEF Crash, db_vars, out_vars
  <2>2. \A r \in Requests : Passed(r)' => Passed(r)
    BY <2>1 DEF Passed
  <2>3. \A j \in Processors \ {i} : cur'[j] = cur[j] /\ pc'[j] = pc[j]
    BY <1>11 DEF Crash, Goto, TypeInv, TypeOK
  <2>4. Losses' \subseteq Losses \cup {cur[i]}
    BY <2>1, <2>2, <2>3, KeptIfLeftAlone DEF Losses
  <2>5. Paid' = Paid + 1
    BY <1>11, SpendPays DEF Crash
  <2>6. QED
    BY <2>4, <2>5 DEF Pays
<1>12. QED
  BY <1>4, <1>5, <1>6, <1>7, <1>8, <1>9, <1>10, <1>11 DEF Next, Environment, Group

LEMMA NextLosses ==
  TypeInv /\ OwnInv /\ SafeInv /\ ForwardInv /\ OffsetInv /\ LossInv /\ [Next]_vars => LossInv'
<1> SUFFICES ASSUME TypeInv, OwnInv, SafeInv, ForwardInv, OffsetInv, LossInv, [Next]_vars
             PROVE  LossInv'
  OBVIOUS
<1>1. faults \in [FaultKinds -> Nat] /\ faults' \in [FaultKinds -> Nat]
  BY NextTypes DEF TypeInv, TypeOK
<1>2. Paid \in Nat
  BY <1>1 DEF Paid, FaultKinds
<1>3. QED
  BY <1>1, <1>2, NextPays, LossesPaid DEF Pays

(* Unless a partition is handed over during its handler, or the group       *)
(* starts without offsets, each rejected await and each crash costs one     *)
(* request at most: nothing else is left in the middle or passed over.      *)
THEOREM FaultsStrandOneEach ==
  ASSUME SessionExpiry = FALSE, FreshGroup = FALSE
  PROVE  Spec => []EachFaultStrandsOneAtMost
<1>1. TypeInv /\ LossInv => EachFaultStrandsOneAtMost
  <2> SUFFICES ASSUME TypeInv, LossInv
               PROVE  EachFaultStrandsOneAtMost
    OBVIOUS
  <2> DEFINE Ends == {r \in Requests : Stranded(r)}
  <2>1. Ends \subseteq Losses
    BY DEF Losses, Stranded, Abandoned, WorkedOn, Engaged
  <2>2. Cardinality(Ends) <= Cardinality(Losses) /\ Cardinality(Ends) \in Nat
    BY <2>1, LossesFinite, FS_Subset, FS_CardinalityType
  <2>3. Paid \in Nat
    BY DEF Paid, TypeInv, TypeOK, FaultKinds
  <2>4. QED
    BY <2>2, <2>3, LossesFinite DEF LossInv, Paid, EachFaultStrandsOneAtMost
<1>2. QED
  BY OffsetsAlways, InitLosses, NextLosses, <1>1, PTL DEF Spec

(* The inductive invariant of the safe mode itself: types, one handler per  *)
(* request, and what each handler knows at its await.                       *)
THEOREM HandlersKnow ==
  ASSUME SessionExpiry = FALSE
  PROVE  Spec => []Inv
<1>1. TypeInv /\ OwnInv /\ SafeInv => Inv
  BY DEF TypeInv, OwnInv, SafeInv, RequestInv, Inv, PhaseInv, UntouchedInv, OneOutcome,
         AtMostOneApproval
<1>2. QED
  BY <1>1, SafeAlways, PTL
=============================================================================
