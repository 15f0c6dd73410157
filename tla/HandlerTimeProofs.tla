------------------------- MODULE HandlerTimeProofs -------------------------
(***************************************************************************)
(* Theorems about HandlerTime, for any delays, times and session timeout   *)
(* that satisfy FitsAssumption.                                            *)
(***************************************************************************)
EXTENDS HandlerTime, CardProcessorProofs

USE TimesAssumption, BoundsAssumption

Last == Spent[MAX_RETRIES + 1]

(* The time before a call is never more than that before the last, and a    *)
(* retry adds a call and its delay.                                         *)
LEMMA SpentGrows ==
  /\ Last \in Nat
  /\ \A n \in 1 .. MAX_RETRIES + 1 : Spent[n] \in Nat /\ Spent[n] <= Last
  /\ \A n \in 1 .. MAX_RETRIES :
        Spent[n] + MaxCall + RetryDelay[n] = Spent[n + 1] /\ RetryDelay[n] \in Nat
<1>1. MAX_RETRIES + 1 \in 1 .. MAX_RETRIES + 1
  OBVIOUS
<1>2. \A n \in 1 .. MAX_RETRIES + 1 : n = MAX_RETRIES + 1 \/ n \in 1 .. MAX_RETRIES
  OBVIOUS
<1>3. QED
  BY SpentAssumption, <1>1, <1>2 DEF Last

(* An await that rejects is a handler's last. *)
LEMMA FailuresEnd ==
  ASSUME TypeInv, NEW i \in Processors, Execute(i) \/ AwaitRejects(i), faults' # faults
  PROVE  pc'[i] = "idle"
<1> USE DEF TypeInv, TypeOK, Goto, EndDelivery, ReturnsOrRejects
<1>1. CASE WasProcessed(i) \/ FindRequest(i) \/ MarkProcessing(i) \/ IssueSucceeds(i)
  BY <1>1 DEF WasProcessed, FindRequest, MarkProcessing, IssueSucceeds
<1>2. CASE IssueFails(i) \/ Backoff(i) \/ MarkIssued(i) \/ PublishIssued(i)
  BY <1>2 DEF IssueFails, Backoff, MarkIssued, PublishIssued
<1>3. CASE MarkFailed(i) \/ PublishDlq(i) \/ MarkProcessed(i) \/ AwaitRejects(i)
  BY <1>3 DEF MarkFailed, PublishDlq, MarkProcessed, AwaitRejects
<1>4. QED
  BY <1>1, <1>2, <1>3 DEF Execute

(* No await takes longer than its longest time. *)
LEMMA TimesBounded ==
  ASSUME TypeInv, NEW i \in Processors, pc[i] # "idle",
         Execute(i) \/ AwaitRejects(i), NEW d \in Times(i)
  PROVE  /\ d \in Nat
         /\ pc[i] = "issueCard" => d <= MaxCall
         /\ pc[i] = "backoff" => d = RetryDelay[attempt[i]]
         /\ pc[i] \in RemoteSteps /\ pc'[i] # "idle" => d <= MaxRemote
<1>1. CASE pc[i] = "issueCard"
  BY <1>1 DEF Times, RemoteSteps
<1>2. CASE pc[i] = "backoff"
  <2>1. attempt[i] \in 1 .. MAX_RETRIES
    BY <1>2 DEF TypeInv, AttemptInv
  <2>2. d = RetryDelay[attempt[i]]
    BY <1>2, <2>1 DEF Times, SleepTime
  <2>3. QED
    BY <1>2, <2>1, <2>2 DEF RemoteSteps
<1>3. CASE pc[i] \notin {"issueCard", "backoff"}
  <2>1. CASE faults' = faults
    BY <1>3, <2>1 DEF Times
  <2>2. CASE faults' # faults
    <3>1. pc'[i] = "idle"
      BY <2>2, FailuresEnd
    <3>2. d \in RejectTimes
      BY <1>3, <2>2 DEF Times
    <3>3. d \in Nat
      BY <3>2
    <3>4. QED
      BY <1>3, <3>1, <3>3
  <2>3. QED
    BY <2>1, <2>2
<1>4. QED
  BY <1>1, <1>2, <1>3

(* Where a step of the use case leads. *)
LEMMA StepLeads ==
  ASSUME TypeInv, NEW i \in Processors, Execute(i) \/ AwaitRejects(i)
  PROVE  \/ pc'[i] = "idle"
         \/ pc[i] = "wasProcessed" /\ pc'[i] = "findRequest"
         \/ pc[i] = "findRequest" /\ pc'[i] \in {"markProcessing", "markProcessed"}
         \/ pc[i] = "markProcessing" /\ pc'[i] = "issueCard" /\ attempt'[i] = 1
         \/ pc[i] = "issueCard" /\ pc'[i] \in {"markIssued", "markFailed"}
         \/ pc[i] = "issueCard" /\ pc'[i] = "backoff" /\ attempt'[i] = attempt[i]
         \/ pc[i] = "backoff" /\ pc'[i] = "issueCard" /\ attempt'[i] = attempt[i] + 1
         \/ pc[i] = "markIssued" /\ pc'[i] = "publishIssued"
         \/ pc[i] = "markFailed" /\ pc'[i] = "publishDlq"
         \/ pc[i] \in {"publishIssued", "publishDlq"} /\ pc'[i] = "markProcessed"
<1> USE DEF TypeInv, TypeOK, Goto, EndDelivery, ReturnsOrRejects
<1>1. CASE WasProcessed(i) \/ FindRequest(i) \/ MarkProcessing(i) \/ IssueSucceeds(i)
  BY <1>1 DEF WasProcessed, FindRequest, MarkProcessing, IssueSucceeds
<1>2. CASE IssueFails(i) \/ Backoff(i) \/ MarkIssued(i) \/ PublishIssued(i)
  BY <1>2 DEF IssueFails, Backoff, MarkIssued, PublishIssued
<1>3. CASE MarkFailed(i) \/ PublishDlq(i) \/ MarkProcessed(i) \/ AwaitRejects(i)
  BY <1>3 DEF MarkFailed, PublishDlq, MarkProcessed, AwaitRejects
<1>4. QED
  BY <1>1, <1>2, <1>3 DEF Execute

LEMMA BeatBounded ==
  ASSUME NEW a \in Nat
  PROVE  Beat(a) \in Nat /\ Beat(a) < HeartbeatInterval
  BY DEF Beat

(* Time passes for the processor that steps, and for no other. *)
LEMMA ElapseOnly ==
  ASSUME age \in [Processors -> Nat], NEW i \in Processors, NEW d \in Nat, Elapse(i, d)
  PROVE  /\ age' \in [Processors -> Nat]
         /\ \A j \in Processors \ {i} : age'[j] = age[j]
         /\ pc'[i] = "idle" => age'[i] < HeartbeatInterval
         /\ pc'[i] # "idle" => age'[i] = age[i] + d
<1>1. age[i] + d \in Nat
  OBVIOUS
<1>2. QED
  BY <1>1, BeatBounded DEF Elapse

-----------------------------------------------------------------------------

LEMMA InitAge == TimedInit => AgeInv
  BY DEF TimedInit, Init, AgeInv, AgeBound

LEMMA AgeUnmoved ==
  ASSUME AgeInv, UNCHANGED <<pc, attempt, age>>
  PROVE  AgeInv'
  BY DEF AgeInv, AgeBound

(* A step of a handler at each await. *)
LEMMA StepAge ==
  ASSUME TypeInv, TypeInv', AgeInv, NEW i \in Processors, TimedStep(i)
  PROVE  AgeInv'
<1> PICK d \in Times(i) : Elapse(i, d)
  BY DEF TimedStep
<1>1. /\ pc[i] # "idle"
      /\ \A j \in Processors \ {i} : pc'[j] = pc[j] /\ attempt'[j] = attempt[j]
  BY StepKeepsHands DEF TimedStep
<1>2. /\ d \in Nat
      /\ pc[i] = "issueCard" => d <= MaxCall
      /\ pc[i] = "backoff" => d = RetryDelay[attempt[i]]
      /\ pc[i] \in RemoteSteps /\ pc'[i] # "idle" => d <= MaxRemote
  BY <1>1, TimesBounded DEF TimedStep
<1>3. /\ age' \in [Processors -> Nat]
      /\ \A j \in Processors \ {i} : age'[j] = age[j]
      /\ pc'[i] = "idle" => age'[i] < HeartbeatInterval
      /\ pc'[i] # "idle" => age'[i] = age[i] + d
  BY <1>2, ElapseOnly DEF AgeInv
<1>4. ASSUME NEW j \in Processors \ {i}
      PROVE  AgeBound(j)'
  <2>1. pc'[j] = pc[j] /\ attempt'[j] = attempt[j] /\ age'[j] = age[j] /\ AgeBound(j)
    BY <1>1, <1>3 DEF AgeInv
  <2>2. QED
    BY <2>1 DEF AgeBound
<1>5. AgeBound(i)'
  <2> DEFINE b == Before
             r == MaxRemote
             c == MaxCall
             l == Last
             a == age[i]
             x == age'[i]
  <2>1. a \in Nat /\ b \in Nat /\ r \in Nat /\ c \in Nat /\ l \in Nat
    BY SpentGrows DEF AgeInv, Before
  <2>2. AgeBound(i)
    BY DEF AgeInv
  <2>3. Execute(i) \/ AwaitRejects(i)
    BY DEF TimedStep
  <2>4. CASE pc'[i] = "idle"
    BY <1>3, <2>4 DEF AgeBound
  <2>5. CASE pc[i] = "wasProcessed" /\ pc'[i] = "findRequest"
    <3>1. a < b /\ d <= r /\ x = a + d
      BY <1>2, <1>3, <2>2, <2>5 DEF AgeBound, RemoteSteps
    <3>2. x < b + r
      BY <1>2, <2>1, <3>1
    <3>3. QED
      BY <2>5, <3>2 DEF AgeBound
  <2>6. CASE pc[i] = "findRequest" /\ pc'[i] \in {"markProcessing", "markProcessed"}
    <3>1. a < b + r /\ d <= r /\ x = a + d
      BY <1>2, <1>3, <2>2, <2>6 DEF AgeBound, RemoteSteps
    <3>2. x < b + 2 * r /\ x < b + 5 * r + l + c
      BY <1>2, <2>1, <3>1
    <3>3. QED
      BY <2>6, <3>2 DEF AgeBound, Last
  <2>7. CASE pc[i] = "markProcessing" /\ pc'[i] = "issueCard" /\ attempt'[i] = 1
    <3>1. a < b + 2 * r /\ d <= r /\ x = a + d
      BY <1>2, <1>3, <2>2, <2>7 DEF AgeBound, RemoteSteps
    <3>2. x < b + 3 * r + 0
      BY <1>2, <2>1, <3>1
    <3>3. QED
      BY <2>7, <3>2, SpentAssumption DEF AgeBound
  <2>8. CASE pc[i] = "issueCard" /\ pc'[i] \in {"markIssued", "markFailed"}
    <3> DEFINE s == Spent[attempt[i]]
    <3>1. a < b + 3 * r + s /\ d <= c /\ x = a + d
      BY <1>2, <1>3, <2>2, <2>8 DEF AgeBound
    <3>2. s \in Nat /\ s <= l
      BY <2>8, SpentGrows DEF TypeInv, AttemptInv
    <3>3. x < b + 3 * r + l + c
      BY <1>2, <2>1, <3>1, <3>2
    <3>4. QED
      BY <2>8, <3>3 DEF AgeBound, Last
  <2>9. CASE pc[i] = "issueCard" /\ pc'[i] = "backoff" /\ attempt'[i] = attempt[i]
    <3> DEFINE s == Spent[attempt[i]]
    <3>1. a < b + 3 * r + s /\ d <= c /\ x = a + d
      BY <1>2, <1>3, <2>2, <2>9 DEF AgeBound
    <3>2. s \in Nat
      BY <2>9, SpentGrows DEF TypeInv, AttemptInv
    <3>3. x < b + 3 * r + s + c
      BY <1>2, <2>1, <3>1, <3>2
    <3>4. QED
      BY <2>9, <3>3 DEF AgeBound
  <2>10. CASE pc[i] = "backoff" /\ pc'[i] = "issueCard" /\ attempt'[i] = attempt[i] + 1
    <3> DEFINE k == attempt[i]
    <3>1. a < b + 3 * r + Spent[k] + c /\ d = RetryDelay[k] /\ x = a + d
      BY <1>2, <1>3, <2>2, <2>10 DEF AgeBound
    <3>2. k \in 1 .. MAX_RETRIES
      BY <2>10 DEF TypeInv, AttemptInv
    <3> HIDE DEF k
    <3>3. /\ Spent[k] + c + RetryDelay[k] = Spent[k + 1]
          /\ RetryDelay[k] \in Nat
      BY <3>2, SpentGrows
    <3>4. Spent[k] \in Nat
      BY <3>2, SpentGrows
    <3>5. x < b + 3 * r + Spent[k + 1]
      BY <2>1, <3>1, <3>3, <3>4
    <3>6. QED
      BY <2>10, <3>5 DEF AgeBound, k
  <2>11. CASE \/ pc[i] = "markIssued" /\ pc'[i] = "publishIssued"
              \/ pc[i] = "markFailed" /\ pc'[i] = "publishDlq"
    <3>1. a < b + 3 * r + l + c /\ d <= r /\ x = a + d
      BY <1>2, <1>3, <2>2, <2>11 DEF AgeBound, RemoteSteps, Last
    <3>2. x < b + 4 * r + l + c
      BY <1>2, <2>1, <3>1
    <3>3. QED
      BY <2>11, <3>2 DEF AgeBound, Last
  <2>12. CASE pc[i] \in {"publishIssued", "publishDlq"} /\ pc'[i] = "markProcessed"
    <3>1. a < b + 4 * r + l + c /\ d <= r /\ x = a + d
      BY <1>2, <1>3, <2>2, <2>12 DEF AgeBound, RemoteSteps, Last
    <3>2. x < b + 5 * r + l + c
      <4> HIDE DEF a, b, r, c, l, x
      <4>1. d \in Nat
        BY <1>2
      <4>2. QED
        BY <2>1, <3>1, <4>1
    <3>3. QED
      BY <2>12, <3>2 DEF AgeBound, Last
  <2>13. QED
    BY <2>3, <2>4, <2>5, <2>6, <2>7, <2>8, <2>9, <2>10, <2>11, <2>12, StepLeads
<1>6. QED
  BY <1>3, <1>4, <1>5 DEF AgeInv

LEMMA NextAge ==
  TypeInv /\ TypeInv' /\ AgeInv /\ [TimedNext]_<<vars, age>> => AgeInv'
<1> SUFFICES ASSUME TypeInv, TypeInv', AgeInv, [TimedNext]_<<vars, age>>
             PROVE  AgeInv'
  OBVIOUS
<1>1. CASE UNCHANGED <<vars, age>>
  BY <1>1, AgeUnmoved DEF vars, handler_vars
<1>2. ASSUME NEW r \in Requests, Environment(r), UNCHANGED age
      PROVE  AgeInv'
  BY <1>2, AgeUnmoved DEF Environment, Accept, Produce, handler_vars
<1>3. ASSUME NEW i \in Processors, NEW p \in Partitions,
             TimedAssign(i, p) \/ (Commit(i, p) /\ UNCHANGED age)
      PROVE  AgeInv'
  BY <1>3, AgeUnmoved DEF TimedAssign, Assign, Commit, handler_vars
<1>4. ASSUME NEW i \in Processors, NEW p \in Partitions, TimedDeliver(i, p)
      PROVE  AgeInv'
  <2>1. PICK d \in FetchTimes : Elapse(i, d)
    BY <1>4 DEF TimedDeliver
  <2>2. d \in Nat /\ d <= MaxFetch
    OBVIOUS
  <2>3. /\ age' \in [Processors -> Nat]
        /\ \A j \in Processors \ {i} : age'[j] = age[j]
        /\ pc'[i] # "idle" => age'[i] = age[i] + d
    BY <2>1, <2>2, ElapseOnly DEF AgeInv
  <2>4. /\ pc[i] = "idle" /\ pc'[i] = "wasProcessed"
        /\ \A j \in Processors \ {i} : pc'[j] = pc[j] /\ attempt'[j] = attempt[j]
    BY <1>4 DEF TimedDeliver, Deliver, Goto, TypeInv, TypeOK
  <2>5. age'[i] < Before
    BY <2>2, <2>3, <2>4 DEF AgeInv, AgeBound, Before
  <2>6. AgeBound(i)'
    BY <2>4, <2>5 DEF AgeBound
  <2>7. ASSUME NEW j \in Processors \ {i}
        PROVE  AgeBound(j)'
    BY <2>3, <2>4 DEF AgeInv, AgeBound
  <2>8. QED
    BY <2>3, <2>6, <2>7 DEF AgeInv
<1>5. ASSUME NEW i \in Processors, FetchNothing(i)
      PROVE  AgeInv'
  <2>1. PICK d \in FetchTimes : Elapse(i, d)
    BY <1>5 DEF FetchNothing
  <2>2. pc' = pc /\ attempt' = attempt /\ pc[i] = "idle" /\ d \in Nat
    BY <1>5 DEF FetchNothing, vars, handler_vars
  <2>3. /\ age' \in [Processors -> Nat]
        /\ \A j \in Processors \ {i} : age'[j] = age[j]
        /\ age'[i] < HeartbeatInterval
    BY <2>1, <2>2, ElapseOnly DEF AgeInv
  <2>4. QED
    BY <2>2, <2>3 DEF AgeInv, AgeBound
<1>6. ASSUME NEW i \in Processors, TimedCrash(i)
      PROVE  AgeInv'
  BY <1>6 DEF TimedCrash, Crash, Goto, AgeInv, AgeBound, TypeInv, TypeOK
<1>7. QED
  BY <1>1, <1>2, <1>3, <1>4, <1>5, <1>6, StepAge DEF TimedNext

(* Time only restricts what the processors do. *)
LEMMA TimedIsNext == [TimedNext]_<<vars, age>> => [Next]_vars
  BY DEF TimedNext, TimedAssign, TimedDeliver, TimedStep, FetchNothing, TimedCrash, Next,
         Group

LEMMA AgeAlways == TimedSpec => [](TypeInv /\ AgeInv)
<1>1. TimedInit => Init
  BY DEF TimedInit
<1>2. QED
  BY <1>1, InitTypes, InitAge, TimedIsNext, NextTypes, NextAge, PTL DEF TimedSpec

(* Why heartbeats never come too late: what is left of the session at each  *)
(* await is longer than the await (retry-policy.ts, and the defaults of     *)
(* kafkajs).                                                                *)
THEOREM HeartbeatsInTime == TimedSpec => []AgeInv
  BY AgeAlways, PTL

LEMMA AgeHolds == TypeInv /\ AgeInv => SessionHeld
<1> SUFFICES ASSUME TypeInv, AgeInv, NEW i \in Processors, pc[i] # "idle"
             PROVE  ~Expires(i)
  BY DEF SessionHeld, AgeInv
<1> DEFINE a == age[i]
           k == attempt[i]
           b == Before
           r == MaxRemote
           c == MaxCall
           l == Last
           f == MaxReject
           w == Longest(i)
<1>1. /\ a \in Nat /\ b \in Nat /\ r \in Nat /\ c \in Nat /\ l \in Nat
      /\ f \in Nat /\ r <= f
  BY SpentGrows DEF AgeInv, Before
<1>2. b + 5 * r + l + c + f <= SessionTimeout
  BY <1>1, FitsAssumption DEF Before, Last
<1>3. AgeBound(i)
  BY DEF AgeInv
<1>4. SUFFICES w \in Nat /\ a + w < SessionTimeout
  <2> HIDE DEF a, w
  <2>1. ~(a + w >= SessionTimeout)
    BY <1>1, <1>4
  <2>2. QED
    BY <2>1 DEF Expires, a, w
<1>5. CASE pc[i] = "issueCard"
  <2> DEFINE s == Spent[k]
  <2>1. s \in Nat /\ s <= l
    BY <1>5, SpentGrows DEF TypeInv, AttemptInv
  <2>2. a < b + 3 * r + s
    BY <1>3, <1>5 DEF AgeBound
  <2>3. w = c
    BY <1>5 DEF Longest
  <2>4. QED
    <3> HIDE DEF a, b, r, c, l, s, f, w
    <3>1. QED
      BY <1>1, <1>2, <2>1, <2>2, <2>3
<1>6. CASE pc[i] = "backoff"
  <2> DEFINE s == Spent[k]
             n == Spent[k + 1]
  <2>1. k \in 1 .. MAX_RETRIES
    BY <1>6 DEF TypeInv, AttemptInv
  <2>2. a < b + 3 * r + s + c
    BY <1>3, <1>6 DEF AgeBound
  <2>3. w = RetryDelay[k]
    BY <1>6, <2>1 DEF Longest, SleepTime
  <2>4. w \in Nat /\ s \in Nat /\ s + c + w = n
    <3> HIDE DEF k, w
    <3>1. QED
      BY <2>1, <2>3, SpentGrows
  <2>5. n <= l
    <3> HIDE DEF k
    <3>1. QED
      BY <2>1, SpentGrows
  <2>6. QED
    <3> HIDE DEF a, b, r, c, l, s, n, f, w
    <3>1. QED
      BY <1>1, <1>2, <2>2, <2>4, <2>5
<1>7. CASE pc[i] \notin {"issueCard", "backoff"}
  <2>1. pc[i] \in RemoteSteps
    BY <1>7 DEF TypeInv, TypeOK, Steps
  <2>2. \/ a < b
        \/ a < b + r
        \/ a < b + 2 * r
        \/ a < b + 3 * r + l + c
        \/ a < b + 4 * r + l + c
        \/ a < b + 5 * r + l + c
    BY <1>3, <1>7, <2>1 DEF AgeBound, RemoteSteps, Last
  <2>3. w = f
    BY <1>7 DEF Longest
  <2>4. QED
    <3> HIDE DEF a, b, r, c, l, f, w
    <3>1. QED
      BY <1>1, <1>2, <2>2, <2>3
<1>8. QED
  BY <1>5, <1>6, <1>7

(* However often a handler retries, its await is over before its consumer   *)
(* has been silent for a session.                                           *)
THEOREM SessionsHold == TimedSpec => []SessionHeld
  BY AgeAlways, AgeHolds, PTL

-----------------------------------------------------------------------------
(* So partitions stay where they are while a handler runs. *)

LEMMA InitUndisturbed == Init => Undisturbed!Init
  BY DEF Init, Undisturbed!Init, NoRow, Undisturbed!NoRow, FaultKinds, Undisturbed!FaultKinds

(* What a handler does is the same in both modes. *)
LEMMA SameHandler ==
  ASSUME NEW i \in Processors
  PROVE  /\ Execute(i) => Undisturbed!Execute(i)
         /\ AwaitRejects(i) => Undisturbed!AwaitRejects(i)
         /\ Crash(i) => Undisturbed!Crash(i)
<1> USE DEF Spend, Undisturbed!Spend, Budget, Undisturbed!Budget,
            Goto, Undisturbed!Goto, EndDelivery, Undisturbed!EndDelivery,
            ReturnsOrRejects, Undisturbed!ReturnsOrRejects,
            RemoteSteps, Undisturbed!RemoteSteps,
            db_vars, Undisturbed!db_vars, log_vars, Undisturbed!log_vars,
            out_vars, Undisturbed!out_vars, issuer_vars, Undisturbed!issuer_vars
<1>1. WasProcessed(i) => Undisturbed!WasProcessed(i)
  BY DEF WasProcessed, Undisturbed!WasProcessed
<1>2. FindRequest(i) => Undisturbed!FindRequest(i)
  BY DEF FindRequest, Undisturbed!FindRequest
<1>3. MarkProcessing(i) => Undisturbed!MarkProcessing(i)
  BY DEF MarkProcessing, Undisturbed!MarkProcessing
<1>4. IssueSucceeds(i) => Undisturbed!IssueSucceeds(i)
  BY DEF IssueSucceeds, Undisturbed!IssueSucceeds
<1>5. IssueFails(i) => Undisturbed!IssueFails(i)
  BY DEF IssueFails, Undisturbed!IssueFails
<1>6. Backoff(i) => Undisturbed!Backoff(i)
  BY DEF Backoff, Undisturbed!Backoff
<1>7. MarkIssued(i) => Undisturbed!MarkIssued(i)
  BY DEF MarkIssued, Undisturbed!MarkIssued
<1>8. PublishIssued(i) => Undisturbed!PublishIssued(i)
  BY DEF PublishIssued, Undisturbed!PublishIssued
<1>9. MarkFailed(i) => Undisturbed!MarkFailed(i)
  BY DEF MarkFailed, Undisturbed!MarkFailed
<1>10. PublishDlq(i) => Undisturbed!PublishDlq(i)
  BY DEF PublishDlq, Undisturbed!PublishDlq
<1>11. MarkProcessed(i) => Undisturbed!MarkProcessed(i)
  BY DEF MarkProcessed, Undisturbed!MarkProcessed
<1>12. AwaitRejects(i) => Undisturbed!AwaitRejects(i)
  BY DEF AwaitRejects, Undisturbed!AwaitRejects
<1>13. Crash(i) => Undisturbed!Crash(i)
  BY DEF Crash, Undisturbed!Crash
<1>14. QED
  BY <1>1, <1>2, <1>3, <1>4, <1>5, <1>6, <1>7, <1>8, <1>9, <1>10, <1>11, <1>12, <1>13
     DEF Execute, Undisturbed!Execute

(* No session expires during a handler, so a partition whose handler runs   *)
(* is assigned to nobody else.                                              *)
LEMMA AssignWaits ==
  ASSUME SessionHeld, NEW i \in Processors, NEW p \in Partitions, TimedAssign(i, p)
  PROVE  Undisturbed!Assign(i, p)
<1>1. ~Undisturbed!HandlerRunsOn(p)
  BY DEF SessionHeld, TimedAssign, Undisturbed!HandlerRunsOn
<1>2. QED
  BY <1>1 DEF TimedAssign, Assign, Undisturbed!Assign, Spend, Undisturbed!Spend,
              Budget, Undisturbed!Budget, StartOffset, Undisturbed!StartOffset,
              db_vars, Undisturbed!db_vars, out_vars, Undisturbed!out_vars,
              issuer_vars, Undisturbed!issuer_vars

LEMMA NextUndisturbed ==
  SessionHeld /\ [TimedNext]_<<vars, age>> => [Undisturbed!Next]_(Undisturbed!vars)
<1> SUFFICES ASSUME SessionHeld, [TimedNext]_<<vars, age>>
             PROVE  [Undisturbed!Next]_(Undisturbed!vars)
  OBVIOUS
<1> USE DEF db_vars, Undisturbed!db_vars, log_vars, Undisturbed!log_vars,
            out_vars, Undisturbed!out_vars, handler_vars, Undisturbed!handler_vars,
            issuer_vars, Undisturbed!issuer_vars
<1>1. CASE UNCHANGED vars
  BY <1>1 DEF vars, Undisturbed!vars
<1>2. ASSUME NEW r \in Requests, Environment(r)
      PROVE  Undisturbed!Next
  <2>1. Accept(r) => Undisturbed!Accept(r)
    BY DEF Accept, NoRow, Undisturbed!Accept, Undisturbed!NoRow
  <2>2. Copies(r) = Undisturbed!Copies(r)
    BY DEF Copies, Undisturbed!Copies, Cardinality, Undisturbed!Cardinality
  <2>3. Produce(r) => Undisturbed!Produce(r)
    BY <2>2 DEF Produce, NoRow, Undisturbed!Produce, Undisturbed!NoRow
  <2>4. QED
    BY <1>2, <2>1, <2>3 DEF Environment, Undisturbed!Environment, Undisturbed!Next
<1>3. ASSUME NEW i \in Processors, NEW p \in Partitions,
             TimedAssign(i, p) \/ TimedDeliver(i, p) \/ Commit(i, p)
      PROVE  Undisturbed!Next
  <2>1. CASE TimedAssign(i, p)
    BY <2>1, AssignWaits DEF Undisturbed!Next, Undisturbed!Group
  <2>2. CASE TimedDeliver(i, p)
    <3>1. Undisturbed!Deliver(i, p)
      BY <2>2 DEF TimedDeliver, Deliver, Goto, Undisturbed!Deliver, Undisturbed!Goto
    <3>2. QED
      BY <3>1 DEF Undisturbed!Next, Undisturbed!Group
  <2>3. CASE Commit(i, p)
    <3>1. Undisturbed!Commit(i, p)
      BY <2>3 DEF Commit, Undisturbed!Commit
    <3>2. QED
      BY <3>1 DEF Undisturbed!Next, Undisturbed!Group
  <2>4. QED
    BY <1>3, <2>1, <2>2, <2>3
<1>4. ASSUME NEW i \in Processors, TimedStep(i) \/ TimedCrash(i)
      PROVE  Undisturbed!Next
  <2>1. Undisturbed!Execute(i) \/ Undisturbed!AwaitRejects(i) \/ Undisturbed!Crash(i)
    BY <1>4, SameHandler DEF TimedStep, TimedCrash
  <2>2. QED
    BY <2>1 DEF Undisturbed!Next
<1>5. ASSUME NEW i \in Processors, FetchNothing(i)
      PROVE  UNCHANGED Undisturbed!vars
  BY <1>5 DEF FetchNothing, vars, Undisturbed!vars
<1>6. QED
  BY <1>1, <1>2, <1>3, <1>4, <1>5 DEF TimedNext

(* With the delays of RetryPolicy inside the session, the processors are    *)
(* those of CardProcessor without session expiry.                           *)
THEOREM NeverDisturbed == TimedSpec => UndisturbedSpec
<1>1. TimedInit => Init
  BY DEF TimedInit
<1>2. QED
  BY <1>1, InitUndisturbed, NextUndisturbed, SessionsHold, PTL
     DEF TimedSpec, UndisturbedSpec, Undisturbed!Spec
=============================================================================
