----------------------- MODULE OutboxPublisherProofs ------------------------
(***************************************************************************)
(* Theorems about OutboxPublisher, for any number of events, instances,    *)
(* overlapping timers, crashes, stops and rejected awaits.                 *)
(***************************************************************************)
EXTENDS OutboxPublisher, FiniteSetTheorems, TLAPS

USE DEF NoRow

-----------------------------------------------------------------------------
(* The polls of the instances. *)

(* A poll holds records exactly while it deals with them, each once.        *)
Proper(x, b) ==
    /\ b = <<>> <=> x \in {"idle", "find"}
    /\ \A j, k \in DOMAIN b : j # k => b[j] # b[k]

BatchInv == \A i \in Instances, s \in Polls : Proper(step[i][s], batch[i][s])

PollInv == OutboxTypeOK /\ GuardHasPoll /\ BatchInv

(* What any step of one poll does to the polls.                             *)
Moves(i, s, x, b) ==
    /\ isPublishing' = [isPublishing EXCEPT ![i] = (x # "idle")]
    /\ step' = [step EXCEPT ![i][s] = x]
    /\ batch' = [batch EXCEPT ![i][s] = b]

PollTypes ==
    /\ isPublishing \in [Instances -> BOOLEAN]
    /\ step \in [Instances -> [Polls -> Steps]]
    /\ batch \in [Instances -> [Polls -> Seq(Events)]]
    /\ \A i \in Instances, s \in Polls : Len(batch[i][s]) <= BatchSize

LEMMA InitPolls == Init => PollInv
  BY OutboxBoundsAssumption, EventsAssumption
     DEF Init, PollInv, OutboxTypeOK, GuardHasPoll, BatchInv, Proper, OutboxEventRow,
         OutboxEventStatus, Steps

LEMMA OnlyOnePollMoves ==
  ASSUME PollTypes, NEW i \in Instances, NEW s \in Polls, NEW x, NEW b, Moves(i, s, x, b),
         NEW j \in Instances, NEW t \in Polls
  PROVE  /\ step'[j][t] = IF j = i /\ t = s THEN x ELSE step[j][t]
         /\ batch'[j][t] = IF j = i /\ t = s THEN b ELSE batch[j][t]
         /\ isPublishing'[j] = IF j = i THEN (x # "idle") ELSE isPublishing[j]
  BY DEF PollTypes, Moves

(* So one poll at most is under way in an instance, and it has its guard.   *)
LEMMA MovesKeepPolls ==
  ASSUME PollTypes, GuardHasPoll, BatchInv,
         NEW i \in Instances, NEW s \in Polls, NEW x \in Steps, NEW b \in Seq(Events),
         Moves(i, s, x, b), Proper(x, b), Len(b) <= BatchSize,
         step[i][s] # "idle" \/ ~isPublishing[i]
  PROVE  PollTypes' /\ GuardHasPoll' /\ BatchInv'
<1>1. PollTypes'
  <2>1. /\ isPublishing' \in [Instances -> BOOLEAN]
        /\ step' \in [Instances -> [Polls -> Steps]]
        /\ batch' \in [Instances -> [Polls -> Seq(Events)]]
    <3>1. isPublishing' \in [Instances -> BOOLEAN]
      BY DEF PollTypes, Moves
    <3>2. step' \in [Instances -> [Polls -> Steps]]
      BY DEF PollTypes, Moves
    <3>3. batch' \in [Instances -> [Polls -> Seq(Events)]]
      BY DEF PollTypes, Moves
    <3>4. QED
      BY <3>1, <3>2, <3>3
  <2>2. ASSUME NEW j \in Instances, NEW t \in Polls
        PROVE  Len(batch'[j][t]) <= BatchSize
    <3>1. batch'[j][t] = b \/ batch'[j][t] = batch[j][t]
      BY OnlyOnePollMoves
    <3>2. QED
      BY <3>1 DEF PollTypes
  <2>3. QED
    BY <2>1, <2>2 DEF PollTypes
<1>2. BatchInv'
  BY OnlyOnePollMoves DEF BatchInv, Proper
<1>3. \A t \in Polls : t # s => step[i][t] = "idle"
  BY DEF GuardHasPoll
<1>4. GuardHasPoll'
  <2> SUFFICES ASSUME NEW j \in Instances
               PROVE  /\ isPublishing'[j] <=> \E t \in Polls : step'[j][t] # "idle"
                      /\ \A t, u \in Polls :
                             step'[j][t] # "idle" /\ step'[j][u] # "idle" => t = u
    BY DEF GuardHasPoll
  <2>1. CASE j = i
    <3>1. isPublishing'[j] <=> x # "idle"
      <4>1. isPublishing'[j] = (x # "idle")
        BY <2>1 DEF PollTypes, Moves
      <4>2. QED
        BY <4>1, Zenon
    <3>2. \A t \in Polls : step'[j][t] = IF t = s THEN x ELSE "idle"
      BY <1>3, <2>1, OnlyOnePollMoves
    <3>3. QED
      BY <3>1, <3>2
  <2>2. CASE j # i
    BY <2>2, OnlyOnePollMoves DEF GuardHasPoll
  <2>3. QED
    BY <2>1, <2>2
<1>5. QED
  BY <1>1, <1>2, <1>4

(* What a batch holds: records that are PENDING, OUTBOX_BATCH_SIZE at most.  *)
LEMMA PendingFinite ==
  IsFiniteSet(Pending) /\ Cardinality(Pending) \in Nat
  BY FS_Subset, FS_CardinalityType, EventsAssumption DEF Pending

LEMMA MinOfTwo ==
  ASSUME NEW a \in Nat, NEW b \in Nat
  PROVE  Min({a, b}) <= b
<1> DEFINE P(x) == x \in {a, b} /\ \A y \in {a, b} : x <= y
<1>1. \E x \in {a, b} : \A y \in {a, b} : x <= y
  <2>1. CASE a <= b
    BY <2>1
  <2>2. CASE b <= a
    BY <2>2
  <2>3. QED
    BY <2>1, <2>2
<1>2. Min({a, b}) \in {a, b} /\ \A y \in {a, b} : Min({a, b}) <= y
  BY <1>1 DEF Min
<1>3. QED
  BY <1>2

LEMMA BatchFound ==
  ASSUME NEW b \in OrderedChoices, FindPendingBatch(b)
  PROVE  /\ b \in Seq(Events) /\ Len(b) <= BatchSize
         /\ \A k \in DOMAIN b : row[b[k]] = "PENDING"
         /\ \A j, k \in DOMAIN b : j # k => b[j] # b[k]
<1>1. PICK n \in 0 .. Cardinality(Pending) : b \in [1 .. n -> Pending]
  BY DEF OrderedChoices
<1>2. n \in Nat /\ Pending \subseteq Events /\ \A e \in Pending : row[e] = "PENDING"
  BY PendingFinite DEF Pending
<1>3. b \in Seq(Events) /\ DOMAIN b = 1 .. n
  BY <1>1, <1>2
<1>4. Len(b) <= BatchSize
  BY PendingFinite, MinOfTwo, OutboxBoundsAssumption DEF FindPendingBatch
<1>5. ASSUME NEW j \in DOMAIN b, NEW k \in DOMAIN b, j # k
      PROVE  b[j] # b[k]
  <2>1. j < k \/ k < j
    BY <1>3, <1>5
  <2>2. QED
    BY <2>1 DEF FindPendingBatch
<1>6. QED
  BY <1>1, <1>2, <1>3, <1>4, <1>5

LEMMA RestIsProper ==
  ASSUME NEW b \in Seq(Events), b # <<>>, \A j, k \in DOMAIN b : j # k => b[j] # b[k]
  PROVE  /\ Head(b) = b[1] /\ b[1] \in Events /\ 1 \in DOMAIN b
         /\ Tail(b) \in Seq(Events) /\ Len(Tail(b)) <= Len(b)
         /\ \A k \in DOMAIN Tail(b) : k + 1 \in DOMAIN b /\ k + 1 > 1 /\ Tail(b)[k] = b[k + 1]
         /\ \A j, k \in DOMAIN Tail(b) : j # k => Tail(b)[j] # Tail(b)[k]
<1>1. /\ Head(b) = b[1] /\ b[1] \in Events /\ 1 \in DOMAIN b
      /\ Tail(b) \in Seq(Events) /\ Len(Tail(b)) = Len(b) - 1 /\ Len(b) \in Nat
      /\ DOMAIN b = 1 .. Len(b) /\ DOMAIN Tail(b) = 1 .. Len(b) - 1
  OBVIOUS
<1>2. \A k \in DOMAIN Tail(b) : k + 1 \in DOMAIN b /\ k + 1 > 1 /\ Tail(b)[k] = b[k + 1]
  BY <1>1
<1>3. \A j, k \in DOMAIN Tail(b) : j # k => Tail(b)[j] # Tail(b)[k]
  BY <1>1, <1>2
<1>4. QED
  BY <1>1, <1>2, <1>3

LEMMA FinishMoves ==
  ASSUME NEW i, NEW s, Finish(i, s)
  PROVE  Moves(i, s, "idle", <<>>)
  BY DEF Finish, Moves

LEMMA CatchMoves ==
  ASSUME PollInv, NEW i \in Instances, NEW s \in Polls, step[i][s] # "idle", Catch(i, s)
  PROVE  Moves(i, s, "increment", batch[i][s])
<1>1. isPublishing[i] /\ isPublishing \in [Instances -> BOOLEAN]
  BY DEF PollInv, GuardHasPoll, OutboxTypeOK
<1>2. isPublishing = [isPublishing EXCEPT ![i] = ("increment" # "idle")]
  BY <1>1
<1>3. batch = [batch EXCEPT ![i][s] = batch[i][s]]
  BY DEF PollInv, OutboxTypeOK
<1>4. QED
  BY <1>2, <1>3 DEF Catch, Moves

LEMMA ContinueMoves ==
  ASSUME PollInv, NEW i \in Instances, NEW s \in Polls, step[i][s] # "idle",
         NEW rest \in Seq(Events), Continue(i, s, rest)
  PROVE  /\ rest = <<>> => Moves(i, s, "idle", rest)
         /\ rest # <<>> => Moves(i, s, "publish", rest)
<1>1. CASE rest = <<>>
  BY <1>1, FinishMoves DEF Continue
<1>2. CASE rest # <<>>
  <2>1. isPublishing[i] /\ isPublishing \in [Instances -> BOOLEAN] /\ isPublishing' = isPublishing
    BY <1>2 DEF Continue, PollInv, GuardHasPoll, OutboxTypeOK
  <2>2. isPublishing' = [isPublishing EXCEPT ![i] = ("publish" # "idle")]
    BY <2>1
  <2>3. QED
    BY <1>2, <2>2 DEF Continue, Moves
<1>3. QED
  BY <1>1, <1>2

-----------------------------------------------------------------------------
(* The three ways a poll goes on: it reads a batch, stays at a record, or   *)
(* leaves it for the rest.  A poll that ends leaves for nothing.            *)

Goes(i, s, x, b) ==
    /\ step[i][s] # "idle"
    /\ b \in Seq(Events) /\ Len(b) <= BatchSize
    /\ x \in Steps /\ Proper(x, b)
    /\ Moves(i, s, x, b)

Reads(i, s) ==
    /\ step[i][s] = "find"
    /\ \E x \in {"idle", "publish"}, b \in Seq(Events) :
           Goes(i, s, x, b) /\ \A k \in DOMAIN b : row[b[k]] = "PENDING"

Stays(i, s, x) ==
    /\ step[i][s] \in {"publish", "mark", "increment"}
    /\ x \in {"mark", "increment"}
    /\ Goes(i, s, x, batch[i][s])

Leaves(i, s) ==
    /\ step[i][s] \in {"mark", "increment"}
    /\ \E x \in {"idle", "publish"}, b \in {Tail(batch[i][s]), <<>>} : Goes(i, s, x, b)

(* What a poll that is past its find has in hand.                           *)
LEMMA InHand ==
  ASSUME PollInv, NEW i \in Instances, NEW s \in Polls,
         step[i][s] \in {"publish", "mark", "increment"}
  PROVE  /\ batch[i][s] \in Seq(Events) /\ batch[i][s] # <<>> /\ Len(batch[i][s]) <= BatchSize
         /\ \A j, k \in DOMAIN batch[i][s] : j # k => batch[i][s][j] # batch[i][s][k]
         /\ Current(i, s) \in Events /\ Current(i, s) = batch[i][s][1]
         /\ 1 \in DOMAIN batch[i][s]
<1>1. /\ batch[i][s] \in Seq(Events) /\ batch[i][s] # <<>> /\ Len(batch[i][s]) <= BatchSize
      /\ \A j, k \in DOMAIN batch[i][s] : j # k => batch[i][s][j] # batch[i][s][k]
  BY DEF PollInv, OutboxTypeOK, BatchInv, Proper
<1>2. QED
  BY <1>1, RestIsProper DEF Current

LEMMA EndGoes ==
  ASSUME NEW i \in Instances, NEW s \in Polls, step[i][s] # "idle", Moves(i, s, "idle", <<>>)
  PROVE  Goes(i, s, "idle", <<>>)
  BY OutboxBoundsAssumption DEF Goes, Proper, Steps

LEMMA FindReads ==
  ASSUME PollInv, NEW i \in Instances, NEW s \in Polls, Find(i, s)
  PROVE  Reads(i, s)
<1>1. step[i][s] = "find"
  BY DEF Find
<1>2. CASE Moves(i, s, "idle", <<>>)
  <2>1. Goes(i, s, "idle", <<>>)
    BY <1>1, <1>2, EndGoes
  <2>2. <<>> \in Seq(Events) /\ DOMAIN <<>> = {}
    OBVIOUS
  <2>3. QED
    BY <1>1, <2>1, <2>2 DEF Reads
<1>3. CASE \E b \in OrderedChoices : FindPendingBatch(b) /\ Continue(i, s, b)
  <2>1. PICK b \in OrderedChoices : FindPendingBatch(b) /\ Continue(i, s, b)
    BY <1>3
  <2>2. /\ b \in Seq(Events) /\ Len(b) <= BatchSize
        /\ \A k \in DOMAIN b : row[b[k]] = "PENDING"
        /\ \A j, k \in DOMAIN b : j # k => b[j] # b[k]
    BY <2>1, BatchFound
  <2>3. CASE b = <<>>
    BY <1>1, <1>2, <2>1, <2>2, <2>3, ContinueMoves
  <2>4. CASE b # <<>>
    <3>1. Moves(i, s, "publish", b)
      BY <1>1, <2>1, <2>2, <2>4, ContinueMoves
    <3>2. Goes(i, s, "publish", b)
      BY <1>1, <2>2, <2>4, <3>1 DEF Goes, Proper, Steps
    <3>3. QED
      BY <1>1, <2>2, <3>2 DEF Reads
  <2>5. QED
    BY <2>3, <2>4
<1>4. QED
  BY <1>2, <1>3, FinishMoves DEF Find

LEMMA StaysAt ==
  ASSUME PollInv, NEW i \in Instances, NEW s \in Polls, NEW x \in {"mark", "increment"},
         step[i][s] \in {"publish", "mark", "increment"}, Moves(i, s, x, batch[i][s])
  PROVE  Stays(i, s, x)
  BY InHand DEF Stays, Goes, Proper, Steps

LEMMA LeavesFor ==
  ASSUME PollInv, NEW i \in Instances, NEW s \in Polls, step[i][s] \in {"mark", "increment"},
         Continue(i, s, Tail(batch[i][s])) \/ Finish(i, s)
  PROVE  Leaves(i, s)
<1> DEFINE rest == Tail(batch[i][s])
<1>1. /\ rest \in Seq(Events) /\ Len(rest) <= BatchSize
      /\ \A j, k \in DOMAIN rest : j # k => rest[j] # rest[k]
  <2>1. /\ batch[i][s] \in Seq(Events) /\ batch[i][s] # <<>> /\ Len(batch[i][s]) <= BatchSize
        /\ \A j, k \in DOMAIN batch[i][s] : j # k => batch[i][s][j] # batch[i][s][k]
    BY InHand
  <2>2. /\ rest \in Seq(Events) /\ Len(rest) <= Len(batch[i][s])
        /\ \A j, k \in DOMAIN rest : j # k => rest[j] # rest[k]
    BY <2>1, RestIsProper
  <2>3. Len(rest) \in Nat /\ Len(batch[i][s]) \in Nat /\ BatchSize \in Nat
    BY <2>1, <2>2, OutboxBoundsAssumption
  <2>4. QED
    BY <2>1, <2>2, <2>3
<1>2. CASE Moves(i, s, "idle", <<>>)
  BY <1>2, EndGoes DEF Leaves
<1>3. CASE Continue(i, s, rest) /\ rest # <<>>
  <2>1. Moves(i, s, "publish", rest)
    BY <1>1, <1>3, ContinueMoves
  <2>2. Goes(i, s, "publish", rest)
    BY <1>1, <1>3, <2>1 DEF Goes, Proper, Steps
  <2>3. QED
    BY <2>2 DEF Leaves
<1>4. CASE Continue(i, s, rest) /\ rest = <<>>
  <2>1. Moves(i, s, "idle", <<>>)
    BY <1>4, FinishMoves DEF Continue
  <2>2. QED
    BY <1>2, <2>1
<1>5. QED
  BY <1>2, <1>3, <1>4, FinishMoves

LEMMA HowItGoes ==
  ASSUME PollInv, NEW i \in Instances, NEW s \in Polls
  PROVE  /\ Find(i, s) => Reads(i, s)
         /\ Publish(i, s) => Stays(i, s, "mark")
         /\ PublishFails(i, s) \/ MarkFails(i, s) => Stays(i, s, "increment")
         /\ MarkAsPublished(i, s) => Leaves(i, s) \/ Stays(i, s, "increment")
         /\ IncrementAttempts(i, s) \/ IncrementFails(i, s) => Leaves(i, s)
<1>1. Find(i, s) => Reads(i, s)
  BY FindReads
<1>2. ASSUME Publish(i, s)
      PROVE  Stays(i, s, "mark")
  <2>1. isPublishing[i] /\ isPublishing \in [Instances -> BOOLEAN]
    BY <1>2 DEF Publish, PollInv, GuardHasPoll, OutboxTypeOK
  <2>2. isPublishing = [isPublishing EXCEPT ![i] = ("mark" # "idle")]
    BY <2>1
  <2>3. batch = [batch EXCEPT ![i][s] = batch[i][s]]
    BY DEF PollInv, OutboxTypeOK
  <2>4. Moves(i, s, "mark", batch[i][s])
    BY <1>2, <2>2, <2>3 DEF Publish, Moves
  <2>5. QED
    BY <1>2, <2>4, StaysAt DEF Publish
<1>3. ASSUME PublishFails(i, s) \/ MarkFails(i, s)
      PROVE  Stays(i, s, "increment")
  BY <1>3, StaysAt, CatchMoves DEF PublishFails, MarkFails
<1>4. ASSUME MarkAsPublished(i, s)
      PROVE  Leaves(i, s) \/ Stays(i, s, "increment")
  BY <1>4, StaysAt, CatchMoves, LeavesFor DEF MarkAsPublished
<1>5. ASSUME IncrementAttempts(i, s) \/ IncrementFails(i, s)
      PROVE  Leaves(i, s)
  BY <1>5, LeavesFor DEF IncrementAttempts, IncrementFails
<1>6. QED
  BY <1>1, <1>2, <1>3, <1>4, <1>5

LEMMA GoesKeepPolls ==
  ASSUME PollInv, NEW i \in Instances, NEW s \in Polls, NEW x, NEW b, Goes(i, s, x, b)
  PROVE  PollTypes' /\ GuardHasPoll' /\ BatchInv'
<1>1. PollTypes /\ GuardHasPoll /\ BatchInv
  BY DEF PollInv, OutboxTypeOK, PollTypes
<1>2. QED
  BY <1>1, MovesKeepPolls DEF Goes

LEMMA FailsTypes ==
  ASSUME errors \in Nat, ends \in Nat, UNCHANGED faults \/ Fails
  PROVE  errors' \in Nat /\ ends' \in Nat
  BY DEF Fails, faults

(* The tables and the counts of a poll's step.                              *)
LEMMA SettleTypes ==
  ASSUME PollInv, NEW i \in Instances, NEW s \in Polls, Settle(i, s)
  PROVE  /\ row' \in [Events -> OutboxEventRow]
         /\ attempts' \in [Events -> 0 .. MaxAttempts]
         /\ sent' \in [Events -> Nat]
         /\ starting' = starting /\ stopping' = stopping
         /\ errors' \in Nat /\ ends' \in Nat
<1> USE OutboxBoundsAssumption
<1>1. /\ row \in [Events -> OutboxEventRow]
      /\ attempts \in [Events -> 0 .. MaxAttempts]
      /\ sent \in [Events -> Nat]
      /\ errors \in Nat /\ ends \in Nat
  BY DEF PollInv, OutboxTypeOK
<1>2. CASE Find(i, s)
  <2>1. UNCHANGED <<row, attempts, sent, starting, stopping>> /\ (UNCHANGED faults \/ Fails)
    BY <1>2 DEF Find, table, life
  <2>2. QED
    BY <1>1, <2>1, FailsTypes
<1>3. CASE Publish(i, s)
  <2>1. UNCHANGED <<row, attempts, starting, stopping, errors, ends>>
    BY <1>3 DEF Publish, table, life, faults
  <2>2. sent' = [sent EXCEPT ![Current(i, s)] = @ + 1]
    BY <1>3 DEF Publish
  <2>3. Current(i, s) \in Events
    BY <1>3, InHand DEF Publish
  <2>4. sent' \in [Events -> Nat]
    BY <1>1, <2>2, <2>3
  <2>5. QED
    BY <1>1, <2>1, <2>4
<1>4. CASE PublishFails(i, s)
  <2>1. UNCHANGED <<row, attempts, starting, stopping>> /\ (UNCHANGED faults \/ Fails)
    BY <1>4 DEF PublishFails, table, life
  <2>2. sent' = sent \/ sent' = [sent EXCEPT ![Current(i, s)] = @ + 1]
    BY <1>4 DEF PublishFails
  <2>3. sent' \in [Events -> Nat]
    BY <1>1, <2>2
  <2>4. QED
    BY <1>1, <2>1, <2>3, FailsTypes
<1>5. CASE MarkAsPublished(i, s)
  <2>1. row' \in [Events -> OutboxEventRow]
    BY <1>1, <1>5 DEF MarkAsPublished, OutboxEventRow, OutboxEventStatus
  <2>2. UNCHANGED <<attempts, sent, starting, stopping>> /\ (UNCHANGED faults \/ Fails)
    BY <1>5 DEF MarkAsPublished, life
  <2>3. QED
    BY <1>1, <2>1, <2>2, FailsTypes
<1>6. CASE MarkFails(i, s)
  BY <1>1, <1>6, FailsTypes DEF MarkFails, table, life
<1>7. CASE IncrementAttempts(i, s)
  <2>1. attempts' \in [Events -> 0 .. MaxAttempts]
    <3> DEFINE e == Current(i, s)
               more == IF attempts[e] < MaxAttempts THEN attempts[e] + 1 ELSE attempts[e]
    <3>1. e \in Events
      BY <1>7, InHand DEF IncrementAttempts
    <3>2. more \in 0 .. MaxAttempts
      BY <1>1, <3>1
    <3>3. attempts' = [attempts EXCEPT ![e] = more]
      BY <1>7 DEF IncrementAttempts
    <3>4. QED
      BY <1>1, <3>2, <3>3
  <2>2. UNCHANGED <<row, sent, starting, stopping>> /\ (UNCHANGED faults \/ Fails)
    BY <1>7 DEF IncrementAttempts, life
  <2>3. QED
    BY <1>1, <2>1, <2>2, FailsTypes
<1>8. CASE IncrementFails(i, s)
  BY <1>1, <1>8, FailsTypes DEF IncrementFails, table, life
<1>9. QED
  BY <1>2, <1>3, <1>4, <1>5, <1>6, <1>7, <1>8 DEF Settle

LEMMA TickGoes ==
  ASSUME PollInv, NEW i \in Instances, NEW s \in Polls, Tick(i, s)
  PROVE  Moves(i, s, "find", <<>>)
<1>1. batch[i][s] = <<>> /\ batch \in [Instances -> [Polls -> Seq(Events)]]
  BY DEF Tick, PollInv, OutboxTypeOK, BatchInv, Proper
<1>2. batch = [batch EXCEPT ![i][s] = <<>>]
  BY <1>1
<1>3. QED
  BY <1>2 DEF Tick, Moves

LEMMA RestartKeepsPolls ==
  ASSUME PollInv, NEW i \in Instances, Restart(i)
  PROVE  PollTypes' /\ GuardHasPoll' /\ BatchInv'
<1>1. ASSUME NEW j \in Instances, NEW t \in Polls
      PROVE  /\ step'[j][t] = IF j = i THEN "idle" ELSE step[j][t]
             /\ batch'[j][t] = IF j = i THEN <<>> ELSE batch[j][t]
  BY DEF Restart, PollInv, OutboxTypeOK
<1>2. ASSUME NEW j \in Instances
      PROVE  isPublishing'[j] <=> j # i /\ isPublishing[j]
  BY DEF Restart, PollInv, OutboxTypeOK
<1>3. PollTypes'
  <2>1. /\ isPublishing' \in [Instances -> BOOLEAN]
        /\ step' \in [Instances -> [Polls -> Steps]]
        /\ batch' \in [Instances -> [Polls -> Seq(Events)]]
    BY DEF Restart, PollInv, OutboxTypeOK, Steps
  <2>2. ASSUME NEW j \in Instances, NEW t \in Polls
        PROVE  Len(batch'[j][t]) <= BatchSize
    BY <1>1, OutboxBoundsAssumption DEF PollInv, OutboxTypeOK
  <2>3. QED
    BY <2>1, <2>2 DEF PollTypes
<1>4. GuardHasPoll'
  BY <1>1, <1>2 DEF PollInv, GuardHasPoll
<1>5. BatchInv'
  BY <1>1 DEF PollInv, BatchInv, Proper
<1>6. QED
  BY <1>3, <1>4, <1>5

LEMMA NextPolls == PollInv /\ [Next]_vars => PollInv'
<1> SUFFICES ASSUME PollInv, [Next]_vars
             PROVE  PollInv'
  OBVIOUS
<1>1. ASSUME PollTypes', GuardHasPoll', BatchInv',
             row' \in [Events -> OutboxEventRow],
             attempts' \in [Events -> 0 .. MaxAttempts],
             sent' \in [Events -> Nat],
             starting' \subseteq Instances, stopping' \subseteq Instances,
             errors' \in Nat, ends' \in Nat
      PROVE  PollInv'
  BY <1>1 DEF PollInv, OutboxTypeOK, PollTypes
<1>2. /\ row \in [Events -> OutboxEventRow]
      /\ attempts \in [Events -> 0 .. MaxAttempts]
      /\ sent \in [Events -> Nat]
      /\ starting \subseteq Instances /\ stopping \subseteq Instances
      /\ errors \in Nat /\ ends \in Nat
      /\ PollTypes /\ GuardHasPoll /\ BatchInv
  BY DEF PollInv, OutboxTypeOK, PollTypes
<1>3. UNCHANGED poll => PollTypes' /\ GuardHasPoll' /\ BatchInv'
  BY <1>2 DEF poll, PollTypes, GuardHasPoll, BatchInv
<1>4. CASE UNCHANGED vars
  BY <1>1, <1>2, <1>3, <1>4 DEF vars, table, life, faults
<1>5. ASSUME NEW e \in Events, Insert(e)
      PROVE  PollInv'
  <2>1. row' \in [Events -> OutboxEventRow]
    BY <1>2, <1>5 DEF Insert, OutboxEventRow, OutboxEventStatus
  <2>2. QED
    BY <1>1, <1>2, <1>3, <1>5, <2>1 DEF Insert, life, faults
<1>6. ASSUME NEW i \in Instances, NEW s \in Polls, Tick(i, s)
      PROVE  PollInv'
  <2>1. Moves(i, s, "find", <<>>) /\ ~isPublishing[i]
    BY <1>6, TickGoes DEF Tick
  <2>2. <<>> \in Seq(Events) /\ Len(<<>>) <= BatchSize /\ Proper("find", <<>>) /\ "find" \in Steps
    BY OutboxBoundsAssumption DEF Proper, Steps
  <2>3. PollTypes' /\ GuardHasPoll' /\ BatchInv'
    BY <1>2, <2>1, <2>2, MovesKeepPolls
  <2>4. QED
    BY <1>1, <1>2, <1>6, <2>3 DEF Tick, table, life, faults
<1>7. ASSUME NEW i \in Instances, NEW s \in Polls, Settle(i, s)
      PROVE  PollInv'
  <2>1. Reads(i, s) \/ Leaves(i, s) \/ Stays(i, s, "mark") \/ Stays(i, s, "increment")
    BY <1>7, HowItGoes DEF Settle
  <2>2. \E x, b : Goes(i, s, x, b)
    BY <2>1 DEF Reads, Leaves, Stays
  <2>3. PollTypes' /\ GuardHasPoll' /\ BatchInv'
    BY <2>2, GoesKeepPolls
  <2>4. QED
    BY <1>1, <1>2, <1>7, <2>3, SettleTypes
<1>8. ASSUME NEW i \in Instances, Crash(i) \/ Exit(i)
      PROVE  PollInv'
  <2>1. Restart(i) /\ errors' \in Nat /\ ends' \in Nat
    BY <1>2, <1>8 DEF Crash, Exit, faults
  <2>2. PollTypes' /\ GuardHasPoll' /\ BatchInv'
    BY <2>1, RestartKeepsPolls
  <2>3. /\ UNCHANGED <<table, sent>>
        /\ starting' \subseteq Instances /\ stopping' \subseteq Instances
    BY <1>2, <2>1 DEF Restart
  <2>4. QED
    BY <1>1, <1>2, <2>1, <2>2, <2>3 DEF table
<1>9. ASSUME NEW i \in Instances, Connect(i) \/ Stop(i)
      PROVE  PollInv'
  <2>1. /\ UNCHANGED <<table, sent, poll>> /\ errors' \in Nat /\ ends' \in Nat
        /\ starting' \subseteq Instances /\ stopping' \subseteq Instances
    BY <1>2, <1>9 DEF Connect, Stop, faults
  <2>2. QED
    BY <1>1, <1>2, <1>3, <2>1 DEF table
<1>10. QED
  BY <1>4, <1>5, <1>6, <1>7, <1>8, <1>9 DEF Next

(* Types, and batches within OUTBOX_BATCH_SIZE.                             *)
THEOREM OutboxTypesHold == Spec => []OutboxTypeOK
<1>1. PollInv => OutboxTypeOK
  BY DEF PollInv
<1>2. QED
  BY InitPolls, NextPolls, <1>1, PTL DEF Spec

(* isPublishing lets one poll of an instance run at a time, and is released *)
(* whatever way the poll ends.                                              *)
THEOREM GuardReleased == Spec => []GuardHasPoll
<1>1. PollInv => GuardHasPoll
  BY DEF PollInv
<1>2. QED
  BY InitPolls, NextPolls, <1>1, PTL DEF Spec

-----------------------------------------------------------------------------
(* What is sent. *)

Marks(i, s, e) == step[i][s] = "mark" /\ Current(i, s) = e

SentInv ==
    /\ PublishedIsOnTopic
    /\ \A i \in Instances, s \in Polls, e \in Events : Marks(i, s, e) => sent[e] > 0

(* A step of a poll as seen from the table and the topic.                   *)
LEMMA SettleSends ==
  ASSUME PollInv, NEW i \in Instances, NEW s \in Polls, Settle(i, s), NEW e \in Events
  PROVE  /\ sent'[e] = sent[e] \/
                (/\ sent'[e] = sent[e] + 1 /\ e = Current(i, s) /\ step[i][s] = "publish"
                 /\ Publish(i, s) \/ (PublishFails(i, s) /\ Fails))
         /\ row'[e] = row[e] \/ (MarkAsPublished(i, s) /\ e = Current(i, s) /\ row'[e] = "PUBLISHED")
         /\ Publish(i, s) => sent'[Current(i, s)] = sent[Current(i, s)] + 1
<1>1. /\ row \in [Events -> OutboxEventRow]
      /\ sent \in [Events -> Nat]
  BY DEF PollInv, OutboxTypeOK
<1>2. CASE UNCHANGED <<row, sent>> /\ ~Publish(i, s)
  BY <1>2
<1>3. CASE Publish(i, s)
  <2>1. step[i][s] = "publish" /\ Current(i, s) \in Events
    BY <1>3, InHand DEF Publish
  <2>2. sent' = [sent EXCEPT ![Current(i, s)] = @ + 1] /\ row' = row
    BY <1>3 DEF Publish, table
  <2>3. \A f \in Events : sent'[f] = IF f = Current(i, s) THEN sent[f] + 1 ELSE sent[f]
    BY <1>1, <2>1, <2>2
  <2>4. QED
    BY <1>3, <2>1, <2>2, <2>3
<1>4. CASE PublishFails(i, s)
  <2>1. step[i][s] = "publish" /\ Current(i, s) \in Events
    BY <1>4, InHand DEF PublishFails
  <2>2. /\ row' = row
        /\ sent' = sent \/ (Fails /\ sent' = [sent EXCEPT ![Current(i, s)] = @ + 1])
    BY <1>4 DEF PublishFails, table
  <2>3. ~Publish(i, s)
    BY <1>4, <2>1, CatchMoves DEF Publish, PublishFails, Catch, PollInv, OutboxTypeOK
  <2>4. QED
    BY <1>1, <1>4, <2>1, <2>2, <2>3
<1>5. CASE MarkAsPublished(i, s)
  <2>1. row' = [row EXCEPT ![Current(i, s)] = "PUBLISHED"] /\ sent' = sent /\ step[i][s] = "mark"
    BY <1>5 DEF MarkAsPublished
  <2>2. QED
    BY <1>1, <1>5, <2>1 DEF Publish
<1>6. QED
  BY <1>2, <1>3, <1>4, <1>5
     DEF Settle, Find, MarkFails, IncrementAttempts, IncrementFails, Publish, table

(* Who comes to mark an event has sent it.                                  *)
LEMMA SettleMarks ==
  ASSUME PollInv, NEW i \in Instances, NEW s \in Polls, Settle(i, s),
         NEW j \in Instances, NEW t \in Polls, NEW e \in Events, Marks(j, t, e)'
  PROVE  Marks(j, t, e) \/ (Publish(i, s) /\ e = Current(i, s))
<1>1. PollTypes
  BY DEF PollInv, OutboxTypeOK, PollTypes
<1>2. PICK x, b : Goes(i, s, x, b) /\ (x = "mark" => Publish(i, s) /\ b = batch[i][s])
  BY HowItGoes DEF Settle, Reads, Leaves, Stays
<1>3. CASE j = i /\ t = s
  BY <1>1, <1>2, <1>3, OnlyOnePollMoves DEF Goes, Marks, Current
<1>4. CASE ~(j = i /\ t = s)
  BY <1>1, <1>2, <1>4, OnlyOnePollMoves DEF Goes, Marks, Current
<1>5. QED
  BY <1>3, <1>4

LEMMA InitSent == Init => SentInv
  BY DEF Init, SentInv, PublishedIsOnTopic, Marks

LEMMA NextSent == PollInv /\ SentInv /\ [Next]_vars => SentInv'
<1> SUFFICES ASSUME PollInv, SentInv, [Next]_vars
             PROVE  SentInv'
  OBVIOUS
<1>1. /\ row \in [Events -> OutboxEventRow]
      /\ sent \in [Events -> Nat]
  BY DEF PollInv, OutboxTypeOK
<1>2. ASSUME sent' = sent,
             \A e \in Events : row'[e] = "PUBLISHED" => row[e] = "PUBLISHED",
             \A j \in Instances, t \in Polls, e \in Events : Marks(j, t, e)' => Marks(j, t, e)
      PROVE  SentInv'
  BY <1>2 DEF SentInv, PublishedIsOnTopic
<1>3. UNCHANGED <<step, batch>> =>
          \A j \in Instances, t \in Polls, e \in Events : Marks(j, t, e)' => Marks(j, t, e)
  BY DEF Marks, Current
<1>4. CASE UNCHANGED vars
  BY <1>2, <1>3, <1>4 DEF vars, table, poll
<1>5. ASSUME NEW e \in Events, Insert(e)
      PROVE  SentInv'
  BY <1>1, <1>2, <1>3, <1>5 DEF Insert, poll
<1>6. ASSUME NEW i \in Instances, NEW s \in Polls, Tick(i, s)
      PROVE  SentInv'
  <2>1. \A j \in Instances, t \in Polls, e \in Events : Marks(j, t, e)' => Marks(j, t, e)
    BY <1>6 DEF Tick, Marks, Current, PollInv, OutboxTypeOK
  <2>2. QED
    BY <1>2, <1>6, <2>1 DEF Tick, table
<1>7. ASSUME NEW i \in Instances, NEW s \in Polls, Settle(i, s)
      PROVE  SentInv'
  <2>1. ASSUME NEW e \in Events
        PROVE  sent[e] \in Nat /\ sent'[e] \in Nat /\ sent'[e] >= sent[e]
    <3>1. sent[e] \in Nat
      BY <1>1
    <3>2. sent'[e] = sent[e] \/ sent'[e] = sent[e] + 1
      BY <1>7, SettleSends
    <3>3. QED
      BY <3>1, <3>2
  <2>2. ASSUME NEW e \in Events, row'[e] = "PUBLISHED"
        PROVE  sent'[e] > 0
    <3>1. row[e] = "PUBLISHED" \/ Marks(i, s, e)
      BY <1>7, <2>2, SettleSends DEF MarkAsPublished, Marks
    <3>2. QED
      BY <2>1, <3>1 DEF SentInv, PublishedIsOnTopic
  <2>3. ASSUME NEW j \in Instances, NEW t \in Polls, NEW e \in Events, Marks(j, t, e)'
        PROVE  sent'[e] > 0
    <3>1. CASE Marks(j, t, e)
      BY <2>1, <3>1 DEF SentInv
    <3>2. CASE Publish(i, s) /\ e = Current(i, s)
      BY <1>7, <2>1, <3>2, SettleSends
    <3>3. QED
      BY <1>7, <2>3, <3>1, <3>2, SettleMarks
  <2>4. QED
    BY <2>2, <2>3 DEF SentInv, PublishedIsOnTopic
<1>8. ASSUME NEW i \in Instances, Crash(i) \/ Exit(i)
      PROVE  SentInv'
  <2>1. Restart(i)
    BY <1>8 DEF Crash, Exit
  <2>2. \A j \in Instances, t \in Polls, e \in Events : Marks(j, t, e)' => Marks(j, t, e)
    BY <2>1 DEF Restart, Marks, Current, PollInv, OutboxTypeOK
  <2>3. QED
    BY <1>2, <2>1, <2>2 DEF Restart, table
<1>9. ASSUME NEW i \in Instances, Connect(i) \/ Stop(i)
      PROVE  SentInv'
  BY <1>2, <1>3, <1>9 DEF Connect, Stop, table, poll
<1>10. QED
  BY <1>4, <1>5, <1>6, <1>7, <1>8, <1>9 DEF Next

(* The outbox keeps its promise whatever instances, crashes, stops and lost *)
(* answers do: a row that says PUBLISHED is on the topic.                   *)
THEOREM PublishedRowsAreSent == Spec => []PublishedIsOnTopic
<1>1. SentInv => PublishedIsOnTopic
  BY DEF SentInv
<1>2. QED
  BY InitPolls, NextPolls, InitSent, NextSent, <1>1, PTL DEF Spec

-----------------------------------------------------------------------------
(* What the copies of an event are accounted to. *)

(* A poll that read the event and has not dealt with it yet.                *)
Holds(i, s, e) ==
    \E k \in DOMAIN batch[i][s] : batch[i][s][k] = e /\ (k > 1 \/ step[i][s] = "publish")

Marking(e) == {i \in Instances : \E s \in Polls : Marks(i, s, e)}

Holding(e) == {i \in Instances : \E s \in Polls : Holds(i, s, e)}

(* The instances a copy of the event needs no excuse for: before it is       *)
(* marked those about to mark it, after that all but those that may send it *)
(* once more.                                                               *)
Covered(e) == IF row[e] = "PUBLISHED" THEN Instances \ Holding(e) ELSE Marking(e)

Owed(e) == sent[e] - Cardinality(Covered(e))

Debts == {d \in Events \X (Nat \ {0}) : d[2] <= Owed(d[1])}

(* The failures pay for the debts, and a stop in advance for what its exit  *)
(* leaves.                                                                  *)
DebtInv ==
    /\ IsFiniteSet(Debts)
    /\ Cardinality(Debts) + Cardinality(stopping) <= errors + ends

LEMMA CoveredFinite ==
  ASSUME NEW e \in Events
  PROVE  /\ Covered(e) \subseteq Instances /\ IsFiniteSet(Covered(e))
         /\ Cardinality(Covered(e)) \in Nat
         /\ Cardinality(Covered(e)) <= Cardinality(Instances)
         /\ Cardinality(Instances) \in Nat
<1>1. Covered(e) \subseteq Instances
  BY DEF Covered, Marking
<1>2. QED
  BY <1>1, FS_Subset, FS_CardinalityType, InstancesAssumption

LEMMA CoveredFiniteNext ==
  ASSUME NEW e \in Events
  PROVE  IsFiniteSet(Covered(e)') /\ Cardinality(Covered(e)') \in Nat
<1>1. Covered(e)' \subseteq Instances
  BY DEF Covered, Marking
<1>2. QED
  BY <1>1, FS_Subset, FS_CardinalityType, InstancesAssumption

(* What a step owes of one event.                                           *)
LEMMA Owing ==
  ASSUME NEW e \in Events, sent[e] \in Nat, sent'[e] \in Nat
  PROVE  /\ Owed(e) \in Int /\ Owed(e)' \in Int
         /\ sent'[e] = sent[e] /\ Covered(e) \subseteq Covered(e)' => Owed(e)' <= Owed(e)
         /\ sent'[e] = sent[e] + 1 /\ Covered(e) \subseteq Covered(e)' => Owed(e)' <= Owed(e) + 1
         /\ \A i \in Covered(e)' \ Covered(e) :
                sent'[e] = sent[e] + 1 /\ Covered(e) \subseteq Covered(e)' => Owed(e)' <= Owed(e)
         /\ \A i : sent'[e] = sent[e] /\ Covered(e) \ {i} \subseteq Covered(e)'
                       => Owed(e)' <= Owed(e) + 1
<1> DEFINE c == Cardinality(Covered(e))
           d == Cardinality(Covered(e)')
<1>1. c \in Nat /\ d \in Nat /\ IsFiniteSet(Covered(e)) /\ IsFiniteSet(Covered(e)')
  BY CoveredFinite, CoveredFiniteNext
<1>2. Owed(e) = sent[e] - c /\ Owed(e)' = sent'[e] - d
  BY DEF Owed
<1>3. Covered(e) \subseteq Covered(e)' => c <= d
  BY <1>1, FS_Subset
<1>4. ASSUME NEW i \in Covered(e)' \ Covered(e), Covered(e) \subseteq Covered(e)'
      PROVE  c + 1 <= d
  <2>1. /\ Cardinality(Covered(e) \cup {i}) = c + 1
        /\ IsFiniteSet(Covered(e) \cup {i})
    BY <1>1, <1>4, FS_AddElement
  <2>2. Cardinality(Covered(e) \cup {i}) <= d
    BY <1>1, <1>4, FS_Subset
  <2>3. QED
    BY <2>1, <2>2
<1>5. ASSUME NEW i, Covered(e) \ {i} \subseteq Covered(e)'
      PROVE  c - 1 <= d
  <2>1. Cardinality(Covered(e) \ {i}) = IF i \in Covered(e) THEN c - 1 ELSE c
    BY <1>1, FS_RemoveElement
  <2>2. Cardinality(Covered(e) \ {i}) <= d
    BY <1>1, <1>5, FS_Subset
  <2>3. QED
    BY <1>1, <2>1, <2>2
<1> HIDE DEF c, d
<1>6. QED
  BY <1>1, <1>2, <1>3, <1>4, <1>5

(* One event that owes one more is one more debt.                           *)
LEMMA NoNewDebt ==
  ASSUME \A e \in Events : Owed(e) \in Int /\ Owed(e)' \in Int /\ Owed(e)' <= Owed(e)
  PROVE  Debts' \subseteq Debts
  BY DEF Debts

LEMMA OneNewDebt ==
  ASSUME NEW f \in Events,
         \A e \in Events : /\ Owed(e) \in Int /\ Owed(e)' \in Int
                           /\ Owed(e)' <= IF e = f THEN Owed(e) + 1 ELSE Owed(e)
  PROVE  \E x : Debts' \subseteq Debts \cup {x}
<1> DEFINE x == <<f, Owed(f) + 1>>
<1>1. ASSUME NEW e \in Events, NEW n \in Nat \ {0}, n <= Owed(e)'
      PROVE  n <= Owed(e) \/ <<e, n>> = x
  BY <1>1
<1>2. Debts' \subseteq Debts \cup {x}
  BY <1>1 DEF Debts
<1>3. QED
  BY <1>2

(* How steps pay: nothing for nothing new, a failure for a new debt, and an *)
(* exit with what its stop has paid.                                        *)
LEMMA DebtsPaid ==
  ASSUME DebtInv, errors + ends \in Nat, errors' + ends' \in Nat, IsFiniteSet(stopping),
         \/ /\ Debts' \subseteq Debts
            /\ stopping' \subseteq stopping
            /\ errors + ends <= errors' + ends'
         \/ /\ Debts' \subseteq Debts
            /\ \E i : stopping' = stopping \cup {i}
            /\ errors' + ends' = errors + ends + 1
         \/ /\ \E x : Debts' \subseteq Debts \cup {x}
            /\ stopping' \subseteq stopping
            /\ errors' + ends' = errors + ends + 1
         \/ /\ \E x : Debts' \subseteq Debts \cup {x}
            /\ \E i \in stopping : stopping' = stopping \ {i}
            /\ errors' + ends' = errors + ends
  PROVE  DebtInv'
<1> DEFINE d == Cardinality(Debts)
           dn == Cardinality(Debts')
           s == Cardinality(stopping)
           sn == Cardinality(stopping')
<1>1. IsFiniteSet(Debts) /\ d \in Nat /\ s \in Nat /\ d + s <= errors + ends
  BY FS_CardinalityType DEF DebtInv
<1>2. IsFiniteSet(Debts') /\ dn \in Nat /\ dn <= d + 1 /\ (Debts' \subseteq Debts => dn <= d)
  <2>1. CASE Debts' \subseteq Debts
    BY <1>1, <2>1, FS_Subset, FS_CardinalityType
  <2>2. ASSUME NEW x, Debts' \subseteq Debts \cup {x}
        PROVE  IsFiniteSet(Debts') /\ dn \in Nat /\ dn <= d + 1
    <3>1. /\ IsFiniteSet(Debts \cup {x})
          /\ Cardinality(Debts \cup {x}) = IF x \in Debts THEN d ELSE d + 1
      BY <1>1, FS_AddElement
    <3>2. IsFiniteSet(Debts') /\ dn \in Nat /\ dn <= Cardinality(Debts \cup {x})
      BY <2>2, <3>1, FS_Subset, FS_CardinalityType
    <3>3. QED
      BY <1>1, <3>1, <3>2
  <2>3. QED
    BY <1>1, <2>1, <2>2
<1>3. ASSUME stopping' \subseteq stopping
      PROVE  sn \in Nat /\ sn <= s
  BY <1>3, FS_Subset, FS_CardinalityType
<1>4. ASSUME NEW i, stopping' = stopping \cup {i}
      PROVE  sn \in Nat /\ sn <= s + 1
  <2>1. IsFiniteSet(stopping') /\ sn = IF i \in stopping THEN s ELSE s + 1
    BY <1>4, FS_AddElement
  <2>2. QED
    BY <1>1, <2>1, FS_CardinalityType
<1>5. ASSUME NEW i \in stopping, stopping' = stopping \ {i}
      PROVE  sn \in Nat /\ sn = s - 1
  <2>1. IsFiniteSet(stopping') /\ sn = s - 1
    BY <1>5, FS_RemoveElement
  <2>2. QED
    BY <2>1, FS_CardinalityType
<1> HIDE DEF d, dn, s, sn
<1>6. IsFiniteSet(Debts') /\ dn + sn <= errors' + ends'
  BY <1>1, <1>2, <1>3, <1>4, <1>5
<1>7. QED
  BY <1>6 DEF DebtInv, dn, sn

(* Whose hands an event is in before and after a poll's step.               *)
LEMMA IdleHands ==
  ASSUME BatchInv, NEW i \in Instances, NEW s \in Polls, step[i][s] = "idle", NEW e
  PROVE  ~Marks(i, s, e) /\ ~Holds(i, s, e)
<1>1. batch[i][s] = <<>>
  BY DEF BatchInv, Proper
<1>2. DOMAIN batch[i][s] = {}
  BY <1>1
<1>3. QED
  BY <1>2 DEF Marks, Holds

LEMMA HandsBefore ==
  ASSUME PollInv, NEW i \in Instances, NEW s \in Polls, step[i][s] # "idle", NEW e \in Events
  PROVE  /\ i \in Marking(e) <=> Marks(i, s, e)
         /\ i \in Holding(e) <=> Holds(i, s, e)
<1>1. \A t \in Polls \ {s} : ~Marks(i, t, e) /\ ~Holds(i, t, e)
  BY IdleHands DEF PollInv, GuardHasPoll
<1>2. QED
  BY <1>1 DEF Marking, Holding

LEMMA HandsAfter ==
  ASSUME PollInv, NEW i \in Instances, NEW s \in Polls, NEW x, NEW b, Goes(i, s, x, b),
         NEW e \in Events
  PROVE  /\ i \in Marking(e)' <=> x = "mark" /\ Head(b) = e
         /\ i \in Holding(e)' <=> \E k \in DOMAIN b : b[k] = e /\ (k > 1 \/ x = "publish")
         /\ \A j \in Instances \ {i} : /\ j \in Marking(e)' <=> j \in Marking(e)
                                       /\ j \in Holding(e)' <=> j \in Holding(e)
<1>1. PollTypes /\ Moves(i, s, x, b) /\ step[i][s] # "idle"
  BY DEF PollInv, OutboxTypeOK, PollTypes, Goes
<1>2. \A j \in Instances, t \in Polls :
          /\ step'[j][t] = IF j = i /\ t = s THEN x ELSE step[j][t]
          /\ batch'[j][t] = IF j = i /\ t = s THEN b ELSE batch[j][t]
  BY <1>1, OnlyOnePollMoves
<1>3. ASSUME NEW j \in Instances, NEW t \in Polls, ~(j = i /\ t = s)
      PROVE  (Marks(j, t, e)' <=> Marks(j, t, e)) /\ (Holds(j, t, e)' <=> Holds(j, t, e))
  <2>1. step'[j][t] = step[j][t] /\ batch'[j][t] = batch[j][t]
    BY <1>2, <1>3
  <2>2. QED
    BY <2>1 DEF Marks, Holds, Current
<1>4. \A t \in Polls \ {s} : ~Marks(i, t, e)' /\ ~Holds(i, t, e)'
  <2>1. \A t \in Polls \ {s} : ~Marks(i, t, e) /\ ~Holds(i, t, e)
    BY <1>1, IdleHands DEF PollInv, GuardHasPoll
  <2>2. QED
    BY <1>3, <2>1
<1>5. /\ Marks(i, s, e)' <=> x = "mark" /\ Head(b) = e
      /\ Holds(i, s, e)' <=> \E k \in DOMAIN b : b[k] = e /\ (k > 1 \/ x = "publish")
  <2>1. step'[i][s] = x /\ batch'[i][s] = b
    BY <1>2
  <2>2. QED
    BY <2>1 DEF Marks, Holds, Current
<1>6. \A j \in Instances \ {i} : /\ j \in Marking(e)' <=> j \in Marking(e)
                                 /\ j \in Holding(e)' <=> j \in Holding(e)
  BY <1>3 DEF Marking, Holding
<1>7. QED
  BY <1>4, <1>5, <1>6 DEF Marking, Holding

(* Nobody about to mark an event will send it once more.                    *)
LEMMA MarkersHoldNot ==
  ASSUME PollInv, NEW e \in Events, NEW i \in Marking(e)
  PROVE  i \in Instances \ Holding(e)
<1>1. PICK s \in Polls : i \in Instances /\ Marks(i, s, e)
  BY DEF Marking
<1>2. step[i][s] = "mark"
  BY <1>1 DEF Marks
<1>3. /\ Current(i, s) = batch[i][s][1] /\ batch[i][s] \in Seq(Events) /\ 1 \in DOMAIN batch[i][s]
      /\ \A j, k \in DOMAIN batch[i][s] : j # k => batch[i][s][j] # batch[i][s][k]
  BY <1>1, <1>2, InHand
<1>4. ~Holds(i, s, e)
  BY <1>1, <1>2, <1>3 DEF Marks, Holds
<1>5. QED
  BY <1>1, <1>2, <1>4, HandsBefore

(* A poll that stays at a record will not send it again; one that leaves it *)
(* has nothing to do with it any more.                                      *)
LEMMA HandsWhenStaying ==
  ASSUME PollInv, NEW i \in Instances, NEW s \in Polls, NEW x, Stays(i, s, x), NEW e \in Events
  PROVE  /\ i \in Marking(e)' <=> x = "mark" /\ e = Current(i, s)
         /\ e = Current(i, s) => i \notin Holding(e)'
         /\ Holding(e)' \subseteq Holding(e)
         /\ Marking(e) \ {i} \subseteq Marking(e)'
<1> DEFINE b == batch[i][s]
<1>1. Goes(i, s, x, b) /\ step[i][s] # "idle" /\ x # "publish"
  BY DEF Stays
<1>2. /\ Current(i, s) = b[1] /\ Head(b) = Current(i, s) /\ 1 \in DOMAIN b
      /\ \A j, k \in DOMAIN b : j # k => b[j] # b[k]
  BY InHand DEF Stays, Current
<1>3. /\ i \in Marking(e)' <=> x = "mark" /\ Head(b) = e
      /\ i \in Holding(e)' <=> \E k \in DOMAIN b : b[k] = e /\ k > 1
      /\ \A j \in Instances \ {i} : /\ j \in Marking(e)' <=> j \in Marking(e)
                                    /\ j \in Holding(e)' <=> j \in Holding(e)
  BY <1>1, HandsAfter
<1>4. i \in Holding(e) <=> \E k \in DOMAIN b : b[k] = e /\ (k > 1 \/ step[i][s] = "publish")
  BY <1>1, HandsBefore DEF Holds
<1>5. e = Current(i, s) => i \notin Holding(e)'
  BY <1>2, <1>3
<1>6. Holding(e)' \subseteq Holding(e)
  BY <1>3, <1>4 DEF Holding
<1>7. Marking(e) \ {i} \subseteq Marking(e)'
  BY <1>3 DEF Marking
<1>8. QED
  BY <1>2, <1>3, <1>5, <1>6, <1>7

LEMMA HandsWhenLeaving ==
  ASSUME PollInv, NEW i \in Instances, NEW s \in Polls, Leaves(i, s), NEW e \in Events
  PROVE  /\ i \notin Marking(e)'
         /\ e = Current(i, s) => i \notin Holding(e)'
         /\ Holding(e)' \subseteq Holding(e)
         /\ Marking(e) \ {i} \subseteq Marking(e)'
<1> DEFINE b == batch[i][s]
<1>1. PICK x \in {"idle", "publish"}, rest \in {Tail(b), <<>>} : Goes(i, s, x, rest)
  BY DEF Leaves
<1>2. step[i][s] # "idle" /\ step[i][s] # "publish"
  BY DEF Leaves
<1>3. /\ b \in Seq(Events) /\ b # <<>> /\ Current(i, s) = b[1] /\ 1 \in DOMAIN b
      /\ \A j, k \in DOMAIN b : j # k => b[j] # b[k]
  BY InHand DEF Leaves
<1>4. \A k \in DOMAIN rest : k + 1 \in DOMAIN b /\ k + 1 > 1 /\ rest[k] = b[k + 1]
  <2>1. CASE rest = Tail(b)
    BY <1>3, <2>1, RestIsProper
  <2>2. CASE rest = <<>>
    BY <2>2
  <2>3. QED
    BY <2>1, <2>2
<1>5. /\ i \notin Marking(e)'
      /\ i \in Holding(e)' => \E k \in DOMAIN rest : rest[k] = e
      /\ \A j \in Instances \ {i} : /\ j \in Marking(e)' <=> j \in Marking(e)
                                    /\ j \in Holding(e)' <=> j \in Holding(e)
  BY <1>1, HandsAfter
<1>6. i \in Holding(e)' => \E k \in DOMAIN b : b[k] = e /\ k > 1
  BY <1>4, <1>5
<1>7. e = Current(i, s) => i \notin Holding(e)'
  BY <1>3, <1>6
<1>8. i \in Holding(e)' => i \in Holding(e)
  BY <1>2, <1>6, HandsBefore DEF Holds
<1>9. Holding(e)' \subseteq Holding(e)
  BY <1>5, <1>8 DEF Holding
<1>10. Marking(e) \ {i} \subseteq Marking(e)'
  BY <1>5 DEF Marking
<1>11. QED
  BY <1>5, <1>7, <1>9, <1>10

(* Whoever a copy needs no excuse for keeps his place.                      *)
LEMMA ReadingCovers ==
  ASSUME PollInv, NEW i \in Instances, NEW s \in Polls, Reads(i, s), row' = row,
         NEW e \in Events
  PROVE  Covered(e) \subseteq Covered(e)'
<1>1. PICK x \in {"idle", "publish"}, b \in Seq(Events) :
          Goes(i, s, x, b) /\ \A k \in DOMAIN b : row[b[k]] = "PENDING"
  BY DEF Reads
<1>2. step[i][s] = "find"
  BY DEF Reads
<1>3. /\ i \in Holding(e)' => \E k \in DOMAIN b : b[k] = e
      /\ \A j \in Instances \ {i} : /\ j \in Marking(e)' <=> j \in Marking(e)
                                    /\ j \in Holding(e)' <=> j \in Holding(e)
  BY <1>1, HandsAfter
<1>4. i \notin Marking(e)
  BY <1>2, HandsBefore DEF Marks
<1>5. CASE row[e] = "PUBLISHED"
  <2>1. i \notin Holding(e)'
    BY <1>1, <1>3, <1>5
  <2>2. Instances \ Holding(e) \subseteq Instances \ Holding(e)'
    BY <1>3, <2>1
  <2>3. row'[e] = "PUBLISHED"
    BY <1>5
  <2>4. QED
    BY <1>5, <2>2, <2>3 DEF Covered
<1>6. CASE row[e] # "PUBLISHED"
  <2>1. Marking(e) \subseteq Marking(e)'
    BY <1>3, <1>4 DEF Marking
  <2>2. row'[e] # "PUBLISHED"
    BY <1>6
  <2>3. QED
    BY <1>6, <2>1, <2>2 DEF Covered
<1>7. QED
  BY <1>5, <1>6

LEMMA StayingCovers ==
  ASSUME PollInv, NEW i \in Instances, NEW s \in Polls, NEW x, Stays(i, s, x),
         NEW e \in Events, row'[e] = row[e]
  PROVE  /\ Covered(e) \ {i} \subseteq Covered(e)'
         /\ step[i][s] # "mark" \/ e # Current(i, s) => Covered(e) \subseteq Covered(e)'
         /\ x = "mark" /\ step[i][s] = "publish" /\ e = Current(i, s)
                => i \in Covered(e)' \ Covered(e)
<1>1. /\ i \in Marking(e)' <=> x = "mark" /\ e = Current(i, s)
      /\ e = Current(i, s) => i \notin Holding(e)'
      /\ Holding(e)' \subseteq Holding(e)
      /\ Marking(e) \ {i} \subseteq Marking(e)'
  BY HandsWhenStaying
<1>2. /\ i \in Marking(e) => step[i][s] = "mark" /\ e = Current(i, s)
      /\ step[i][s] = "publish" /\ e = Current(i, s) => i \in Holding(e)
  <2>1. /\ i \in Marking(e) <=> Marks(i, s, e)
        /\ i \in Holding(e) <=> Holds(i, s, e)
    BY HandsBefore DEF Stays
  <2>2. Current(i, s) = batch[i][s][1] /\ 1 \in DOMAIN batch[i][s]
    BY InHand DEF Stays
  <2>3. QED
    BY <2>1, <2>2 DEF Marks, Holds
<1>3. CASE row[e] = "PUBLISHED"
  <2>1. Covered(e) = Instances \ Holding(e) /\ Covered(e)' = Instances \ Holding(e)'
    BY <1>3 DEF Covered
  <2>2. QED
    BY <1>1, <1>2, <2>1
<1>4. CASE row[e] # "PUBLISHED"
  <2>1. Covered(e) = Marking(e) /\ Covered(e)' = Marking(e)'
    BY <1>4 DEF Covered
  <2>2. QED
    BY <1>1, <1>2, <2>1
<1>5. QED
  BY <1>3, <1>4

LEMMA LeavingCovers ==
  ASSUME PollInv, NEW i \in Instances, NEW s \in Polls, Leaves(i, s),
         NEW e \in Events, row'[e] = row[e], step[i][s] # "mark" \/ e # Current(i, s)
  PROVE  Covered(e) \subseteq Covered(e)'
<1>1. Holding(e)' \subseteq Holding(e) /\ Marking(e) \ {i} \subseteq Marking(e)'
  BY HandsWhenLeaving
<1>2. i \notin Marking(e)
  BY HandsBefore DEF Leaves, Marks
<1>3. CASE row[e] = "PUBLISHED"
  BY <1>1, <1>3 DEF Covered
<1>4. CASE row[e] # "PUBLISHED"
  BY <1>1, <1>2, <1>4 DEF Covered
<1>5. QED
  BY <1>3, <1>4

LEMMA MarkingCovers ==
  ASSUME PollInv, NEW i \in Instances, NEW s \in Polls, MarkAsPublished(i, s),
         NEW e \in Events
  PROVE  Covered(e) \subseteq Covered(e)'
<1>1. step[i][s] = "mark" /\ row' = [row EXCEPT ![Current(i, s)] = "PUBLISHED"]
  BY DEF MarkAsPublished
<1>2. Leaves(i, s) \/ Stays(i, s, "increment")
  BY HowItGoes
<1>3. row'[e] = IF e = Current(i, s) THEN "PUBLISHED" ELSE row[e]
  BY <1>1 DEF PollInv, OutboxTypeOK
<1>4. CASE e = Current(i, s)
  <2>1. Holding(e)' \subseteq Holding(e)
    BY <1>2, HandsWhenStaying, HandsWhenLeaving
  <2>2. Covered(e) \subseteq Instances \ Holding(e)
    BY MarkersHoldNot DEF Covered
  <2>3. Covered(e)' = Instances \ Holding(e)'
    BY <1>3, <1>4 DEF Covered
  <2>4. QED
    BY <2>1, <2>2, <2>3
<1>5. CASE e # Current(i, s)
  BY <1>2, <1>3, <1>5, StayingCovers, LeavingCovers
<1>6. QED
  BY <1>4, <1>5

(* A copy is owed only for a failure: a lost answer to a publish, or a mark *)
(* that was not made.                                                       *)
LEMMA SettleOwes ==
  ASSUME PollInv, NEW i \in Instances, NEW s \in Polls, Settle(i, s), NEW e \in Events
  PROVE  /\ Owed(e) \in Int /\ Owed(e)' \in Int
         /\ Owed(e)' <= IF Fails /\ e = Current(i, s) THEN Owed(e) + 1 ELSE Owed(e)
<1>1. sent[e] \in Nat /\ sent'[e] \in Nat
  BY SettleTypes DEF PollInv, OutboxTypeOK
<1>2. /\ Owed(e) \in Int /\ Owed(e)' \in Int
      /\ sent'[e] = sent[e] /\ Covered(e) \subseteq Covered(e)' => Owed(e)' <= Owed(e)
      /\ sent'[e] = sent[e] + 1 /\ Covered(e) \subseteq Covered(e)' => Owed(e)' <= Owed(e) + 1
      /\ \A j \in Covered(e)' \ Covered(e) :
             sent'[e] = sent[e] + 1 /\ Covered(e) \subseteq Covered(e)' => Owed(e)' <= Owed(e)
      /\ \A j : sent'[e] = sent[e] /\ Covered(e) \ {j} \subseteq Covered(e)'
                    => Owed(e)' <= Owed(e) + 1
  BY <1>1, Owing
<1>3. CASE Find(i, s)
  <2>1. row' = row /\ sent' = sent
    BY <1>3 DEF Find, table
  <2>2. Covered(e) \subseteq Covered(e)'
    BY <1>3, <2>1, HowItGoes, ReadingCovers
  <2>3. QED
    BY <1>2, <2>1, <2>2
<1>4. CASE Publish(i, s)
  <2>1. /\ Stays(i, s, "mark") /\ step[i][s] = "publish" /\ row' = row
        /\ sent' = [sent EXCEPT ![Current(i, s)] = @ + 1]
    BY <1>4, HowItGoes DEF Publish, table
  <2>2. sent'[e] = IF e = Current(i, s) THEN sent[e] + 1 ELSE sent[e]
    BY <2>1 DEF PollInv, OutboxTypeOK
  <2>3. /\ Covered(e) \subseteq Covered(e)'
        /\ e = Current(i, s) => i \in Covered(e)' \ Covered(e)
    BY <2>1, StayingCovers
  <2>4. QED
    BY <1>2, <2>2, <2>3
<1>5. CASE PublishFails(i, s)
  <2>1. /\ Stays(i, s, "increment") /\ step[i][s] = "publish" /\ row' = row
        /\ sent' = sent \/ (Fails /\ sent' = [sent EXCEPT ![Current(i, s)] = @ + 1])
    BY <1>5, HowItGoes DEF PublishFails, table
  <2>2. sent'[e] = sent[e] \/ (Fails /\ e = Current(i, s) /\ sent'[e] = sent[e] + 1)
    BY <2>1 DEF PollInv, OutboxTypeOK
  <2>3. Covered(e) \subseteq Covered(e)'
    BY <2>1, StayingCovers
  <2>4. QED
    BY <1>2, <2>2, <2>3
<1>6. CASE MarkAsPublished(i, s)
  <2>1. sent' = sent
    BY <1>6 DEF MarkAsPublished
  <2>2. QED
    BY <1>2, <1>6, <2>1, MarkingCovers
<1>7. CASE MarkFails(i, s)
  <2>1. Stays(i, s, "increment") /\ row' = row /\ sent' = sent /\ Fails
    BY <1>7, HowItGoes DEF MarkFails, table
  <2>2. /\ Covered(e) \ {i} \subseteq Covered(e)'
        /\ e # Current(i, s) => Covered(e) \subseteq Covered(e)'
    BY <2>1, StayingCovers
  <2>3. QED
    BY <1>2, <2>1, <2>2
<1>8. CASE IncrementAttempts(i, s) \/ IncrementFails(i, s)
  <2>1. Leaves(i, s) /\ step[i][s] = "increment" /\ row' = row /\ sent' = sent
    BY <1>8, HowItGoes DEF IncrementAttempts, IncrementFails, table
  <2>2. Covered(e) \subseteq Covered(e)'
    BY <2>1, LeavingCovers
  <2>3. QED
    BY <1>2, <2>1, <2>2
<1>9. QED
  BY <1>3, <1>4, <1>5, <1>6, <1>7, <1>8 DEF Settle

(* The steps of a poll pay for the debts they make.                         *)
LEMMA SettlePays ==
  ASSUME PollInv, DebtInv, NEW i \in Instances, NEW s \in Polls, Settle(i, s)
  PROVE  DebtInv'
<1>1. /\ stopping' \subseteq stopping /\ IsFiniteSet(stopping)
      /\ errors \in Nat /\ ends \in Nat
      /\ errors + ends \in Nat /\ errors' + ends' \in Nat
  <2>1. stopping' = stopping /\ stopping \subseteq Instances
    BY SettleTypes DEF PollInv, OutboxTypeOK
  <2>2. IsFiniteSet(stopping)
    BY <2>1, FS_Subset, InstancesAssumption
  <2>3. errors \in Nat /\ ends \in Nat /\ errors' \in Nat /\ ends' \in Nat
    BY SettleTypes DEF PollInv, OutboxTypeOK
  <2>4. \A m, n \in Nat : m + n \in Nat
    OBVIOUS
  <2>5. errors + ends \in Nat /\ errors' + ends' \in Nat
    BY <2>3, <2>4
  <2>6. QED
    BY <2>1, <2>2, <2>3, <2>5
<1>2. Fails => errors' + ends' = errors + ends + 1
  BY <1>1 DEF Fails
<1>3. Fails \/ UNCHANGED faults
  BY DEF Settle, Find, Publish, PublishFails, MarkAsPublished, MarkFails, IncrementAttempts,
         IncrementFails
<1>4. CASE ~Fails
  <2>1. Debts' \subseteq Debts
    BY <1>4, SettleOwes, NoNewDebt
  <2>2. errors' = errors /\ ends' = ends
    BY <1>3, <1>4 DEF faults
  <2>3. errors + ends <= errors' + ends'
    BY <1>1, <2>2
  <2>4. QED
    BY <1>1, <2>1, <2>3, DebtsPaid
<1>5. CASE Fails /\ Events = {}
  <2>1. Debts' \subseteq Debts
    BY <1>5, NoNewDebt
  <2>2. QED
    BY <1>1, <1>2, <1>5, <2>1, DebtsPaid
<1>6. CASE Fails /\ Events # {}
  <2>1. PICK f \in Events : Current(i, s) \in Events => f = Current(i, s)
    BY <1>6
  <2>2. \A e \in Events : /\ Owed(e) \in Int /\ Owed(e)' \in Int
                          /\ Owed(e)' <= IF e = f THEN Owed(e) + 1 ELSE Owed(e)
    BY <2>1, SettleOwes
  <2>3. \E x : Debts' \subseteq Debts \cup {x}
    BY <2>2, OneNewDebt
  <2>4. QED
    BY <1>1, <1>2, <1>6, <2>3, DebtsPaid
<1>7. QED
  BY <1>4, <1>5, <1>6

(* A process that ends takes one poll with it at most, and so one mark that *)
(* is not made.                                                             *)
LEMMA RestartOwes ==
  ASSUME PollInv, NEW i \in Instances, Restart(i)
  PROVE  \E x : Debts' \subseteq Debts \cup {x}
<1>1. ASSUME NEW j \in Instances, NEW t \in Polls
      PROVE  /\ step'[j][t] = IF j = i THEN "idle" ELSE step[j][t]
             /\ batch'[j][t] = IF j = i THEN <<>> ELSE batch[j][t]
  BY DEF Restart, PollInv, OutboxTypeOK
<1>2. row' = row /\ sent' = sent /\ sent \in [Events -> Nat]
  BY DEF Restart, table, PollInv, OutboxTypeOK
<1>3. PICK q : \A s \in Polls : step[i][s] = "mark" => q = Current(i, s)
  <2>1. CASE \E s \in Polls : step[i][s] = "mark"
    <3>1. PICK s \in Polls : step[i][s] = "mark"
      BY <2>1
    <3>2. \A t \in Polls : step[i][t] = "mark" => t = s
      BY <3>1 DEF PollInv, GuardHasPoll
    <3>3. QED
      BY <3>1, <3>2
  <2>2. CASE ~\E s \in Polls : step[i][s] = "mark"
    BY <2>2
  <2>3. QED
    BY <2>1, <2>2
<1>4. ASSUME NEW e \in Events
      PROVE  /\ Covered(e) \ {i} \subseteq Covered(e)'
             /\ e # q => Covered(e) \subseteq Covered(e)'
  <2>1. i \in Marking(e) => e = q
    BY <1>3 DEF Marking, Marks
  <2>2. \A j \in Instances \ {i}, t \in Polls :
            (Marks(j, t, e) => Marks(j, t, e)') /\ (Holds(j, t, e)' => Holds(j, t, e))
    <3> SUFFICES ASSUME NEW j \in Instances \ {i}, NEW t \in Polls
                 PROVE  (Marks(j, t, e) => Marks(j, t, e)') /\ (Holds(j, t, e)' => Holds(j, t, e))
      OBVIOUS
    <3>1. step'[j][t] = step[j][t] /\ batch'[j][t] = batch[j][t]
      BY <1>1
    <3>2. QED
      BY <3>1 DEF Marks, Holds, Current
  <2>3. \A t \in Polls : ~Holds(i, t, e)'
    <3>1. \A t \in Polls : DOMAIN batch'[i][t] = {}
      BY <1>1
    <3>2. QED
      BY <3>1 DEF Holds
  <2>4. Marking(e) \ {i} \subseteq Marking(e)' /\ Holding(e)' \subseteq Holding(e)
    BY <2>2, <2>3 DEF Marking, Holding
  <2>5. CASE row[e] = "PUBLISHED"
    BY <1>2, <2>4, <2>5 DEF Covered
  <2>6. CASE row[e] # "PUBLISHED"
    BY <1>2, <2>1, <2>4, <2>6 DEF Covered
  <2>7. QED
    BY <2>5, <2>6
<1>5. \A e \in Events : /\ Owed(e) \in Int /\ Owed(e)' \in Int
                        /\ Owed(e)' <= IF e = q THEN Owed(e) + 1 ELSE Owed(e)
  BY <1>2, <1>4, Owing
<1>6. CASE q \in Events
  BY <1>5, <1>6, OneNewDebt
<1>7. CASE q \notin Events
  <2>1. Debts' \subseteq Debts
    BY <1>5, <1>7, NoNewDebt
  <2>2. QED
    BY <2>1
<1>8. QED
  BY <1>6, <1>7

LEMMA InitDebt == Init => DebtInv
<1> SUFFICES ASSUME Init
             PROVE  DebtInv
  OBVIOUS
<1>1. \A e \in Events : sent[e] = 0
  BY DEF Init
<1>2. \A e \in Events : Owed(e) \in Int /\ Owed(e) <= 0
  BY <1>1, CoveredFinite DEF Owed
<1>3. Debts = {}
  BY <1>2 DEF Debts
<1>4. stopping = {} /\ errors = 0 /\ ends = 0
  BY DEF Init
<1>5. QED
  BY <1>3, <1>4, FS_EmptySet DEF DebtInv

LEMMA NextDebt == PollInv /\ DebtInv /\ [Next]_vars => DebtInv'
<1> SUFFICES ASSUME PollInv, DebtInv, [Next]_vars
             PROVE  DebtInv'
  OBVIOUS
<1>1. /\ stopping \subseteq Instances /\ IsFiniteSet(stopping)
      /\ errors \in Nat /\ ends \in Nat /\ sent \in [Events -> Nat]
      /\ row \in [Events -> OutboxEventRow]
  <2>1. /\ stopping \subseteq Instances
        /\ errors \in Nat /\ ends \in Nat /\ sent \in [Events -> Nat]
        /\ row \in [Events -> OutboxEventRow]
    BY DEF PollInv, OutboxTypeOK
  <2>2. QED
    BY <2>1, FS_Subset, InstancesAssumption
<1>2. errors + ends \in Nat
  BY <1>1
<1>3. ASSUME sent' = sent, \A e \in Events : Covered(e) \subseteq Covered(e)'
      PROVE  Debts' \subseteq Debts
  <2>1. \A e \in Events : sent[e] \in Nat /\ sent'[e] = sent[e]
    BY <1>1, <1>3
  <2>2. \A e \in Events : Owed(e) \in Int /\ Owed(e)' \in Int /\ Owed(e)' <= Owed(e)
    BY <1>3, <2>1, Owing
  <2>3. QED
    BY <2>2, NoNewDebt
<1>4. ASSUME Debts' \subseteq Debts, stopping' = stopping, errors' = errors, ends' = ends
      PROVE  DebtInv'
  <2>1. errors + ends <= errors' + ends' /\ errors' + ends' \in Nat
    BY <1>2, <1>4
  <2>2. QED
    BY <1>1, <1>2, <1>4, <2>1, DebtsPaid
<1>5. CASE UNCHANGED vars
  <2>1. \A e \in Events : Covered(e)' = Covered(e)
    BY <1>5 DEF vars, table, poll, Covered, Marking, Holding, Marks, Holds, Current
  <2>2. QED
    BY <1>3, <1>4, <1>5, <2>1 DEF vars, life, faults
<1>6. ASSUME NEW f \in Events, Insert(f)
      PROVE  DebtInv'
  <2>1. row[f] = NoRow /\ row' = [row EXCEPT ![f] = "PENDING"] /\ UNCHANGED <<step, batch>>
    BY <1>6 DEF Insert, poll
  <2>2. \A e \in Events : row'[e] = "PUBLISHED" <=> row[e] = "PUBLISHED"
    BY <1>1, <2>1
  <2>3. \A e \in Events : Marking(e)' = Marking(e) /\ Holding(e)' = Holding(e)
    BY <2>1 DEF Marking, Holding, Marks, Holds, Current
  <2>4. \A e \in Events : Covered(e)' = Covered(e)
    BY <2>2, <2>3 DEF Covered
  <2>5. QED
    BY <1>3, <1>4, <1>6, <2>4 DEF Insert, life, faults
<1>7. ASSUME NEW i \in Instances, NEW s \in Polls, Tick(i, s)
      PROVE  DebtInv'
  <2>1. /\ step' = [step EXCEPT ![i][s] = "find"] /\ step[i][s] = "idle"
        /\ batch' = batch /\ row' = row
    BY <1>7 DEF Tick, table
  <2>2. \A j \in Instances, t \in Polls :
            step'[j][t] = IF j = i /\ t = s THEN "find" ELSE step[j][t]
    BY <2>1 DEF PollInv, OutboxTypeOK
  <2>3. \A j \in Instances, t \in Polls, e \in Events :
            (Marks(j, t, e)' <=> Marks(j, t, e)) /\ (Holds(j, t, e)' <=> Holds(j, t, e))
    BY <2>1, <2>2 DEF Marks, Holds, Current
  <2>4. \A e \in Events : Marking(e)' = Marking(e) /\ Holding(e)' = Holding(e)
    BY <2>3 DEF Marking, Holding
  <2>5. \A e \in Events : Covered(e)' = Covered(e)
    BY <2>1, <2>4 DEF Covered
  <2>6. QED
    BY <1>3, <1>4, <1>7, <2>5 DEF Tick, life, faults
<1>8. ASSUME NEW i \in Instances, NEW s \in Polls, Settle(i, s)
      PROVE  DebtInv'
  BY <1>8, SettlePays
<1>9. ASSUME NEW i \in Instances, Crash(i)
      PROVE  DebtInv'
  <2>1. Restart(i) /\ ends' = ends + 1 /\ errors' = errors
    BY <1>9 DEF Crash
  <2>2. errors' + ends' = errors + ends + 1 /\ errors' + ends' \in Nat
    BY <1>1, <2>1
  <2>3. stopping' \subseteq stopping
    BY <2>1 DEF Restart
  <2>4. \E x : Debts' \subseteq Debts \cup {x}
    BY <2>1, RestartOwes
  <2>5. QED
    BY <1>1, <1>2, <2>2, <2>3, <2>4, DebtsPaid
<1>10. ASSUME NEW i \in Instances, Exit(i)
       PROVE  DebtInv'
  <2>1. Restart(i) /\ i \in stopping /\ UNCHANGED faults
    BY <1>10 DEF Exit
  <2>2. errors' + ends' = errors + ends
    BY <2>1 DEF faults
  <2>3. stopping' = stopping \ {i}
    BY <2>1 DEF Restart
  <2>4. \E x : Debts' \subseteq Debts \cup {x}
    BY <2>1, RestartOwes
  <2>5. QED
    BY <1>1, <1>2, <2>1, <2>2, <2>3, <2>4, DebtsPaid
<1>11. ASSUME NEW i \in Instances, Stop(i)
       PROVE  DebtInv'
  <2>1. /\ stopping' = stopping \cup {i} /\ ends' = ends + 1 /\ errors' = errors
        /\ UNCHANGED <<row, sent, step, batch>>
    BY <1>11 DEF Stop, table, poll
  <2>2. errors' + ends' = errors + ends + 1 /\ errors' + ends' \in Nat
    BY <1>1, <2>1
  <2>3. \A e \in Events : Covered(e)' = Covered(e)
    BY <2>1 DEF Covered, Marking, Holding, Marks, Holds, Current
  <2>4. Debts' \subseteq Debts
    BY <1>3, <2>1, <2>3
  <2>5. QED
    BY <1>1, <1>2, <2>1, <2>2, <2>4, DebtsPaid
<1>12. ASSUME NEW i \in Instances, Connect(i)
       PROVE  DebtInv'
  <2>1. UNCHANGED <<row, sent, step, batch, stopping, errors, ends>>
    BY <1>12 DEF Connect, table, poll, faults
  <2>2. \A e \in Events : Covered(e)' = Covered(e)
    BY <2>1 DEF Covered, Marking, Holding, Marks, Holds, Current
  <2>3. QED
    BY <1>3, <1>4, <2>1, <2>2
<1>13. QED
  BY <1>5, <1>6, <1>7, <1>8, <1>9, <1>10, <1>11, <1>12 DEF Next

(* What polls hold are rows of the table. *)
HeldInv ==
    \A i \in Instances, s \in Polls : \A k \in DOMAIN batch[i][s] : row[batch[i][s][k]] # NoRow

LEMMA InitHeld == Init => HeldInv
  BY DEF Init, HeldInv

LEMMA NextHeld == PollInv /\ HeldInv /\ [Next]_vars => HeldInv'
<1> SUFFICES ASSUME PollInv, HeldInv, [Next]_vars
             PROVE  HeldInv'
  OBVIOUS
<1>1. /\ row \in [Events -> OutboxEventRow]
      /\ batch \in [Instances -> [Polls -> Seq(Events)]]
      /\ PollTypes
  BY DEF PollInv, OutboxTypeOK, PollTypes
<1>2. ASSUME \A e \in Events : row[e] # NoRow => row'[e] # NoRow, batch' = batch
      PROVE  HeldInv'
  <2>1. \A i \in Instances, s \in Polls : \A k \in DOMAIN batch[i][s] : batch[i][s][k] \in Events
    BY <1>1
  <2>2. QED
    BY <1>2, <2>1 DEF HeldInv
<1>3. ASSUME NEW i \in Instances, NEW s \in Polls, Settle(i, s)
      PROVE  HeldInv'
  <2>1. \A e \in Events : row'[e] = row[e] \/ row'[e] = "PUBLISHED"
    BY <1>3, SettleSends
  <2>2. PICK x, b : /\ Goes(i, s, x, b)
                    /\ \A k \in DOMAIN b : b[k] \in Events /\ row[b[k]] # NoRow
    <3>1. CASE Reads(i, s)
      <4>1. PICK x \in {"idle", "publish"}, b \in Seq(Events) :
                Goes(i, s, x, b) /\ \A k \in DOMAIN b : row[b[k]] = "PENDING"
        BY <3>1 DEF Reads
      <4>2. \A k \in DOMAIN b : b[k] \in Events
        OBVIOUS
      <4>3. QED
        BY <4>1, <4>2
    <3>2. ASSUME NEW x, Stays(i, s, x)
          PROVE  /\ Goes(i, s, x, batch[i][s])
                 /\ \A k \in DOMAIN batch[i][s] :
                        batch[i][s][k] \in Events /\ row[batch[i][s][k]] # NoRow
      BY <1>1, <3>2 DEF Stays, HeldInv
    <3>3. CASE Leaves(i, s)
      <4>1. PICK x \in {"idle", "publish"}, b \in {Tail(batch[i][s]), <<>>} : Goes(i, s, x, b)
        BY <3>3 DEF Leaves
      <4>2. /\ batch[i][s] \in Seq(Events) /\ batch[i][s] # <<>>
            /\ \A j, k \in DOMAIN batch[i][s] : j # k => batch[i][s][j] # batch[i][s][k]
        BY <3>3, InHand DEF Leaves
      <4>3. \A k \in DOMAIN b : \E j \in DOMAIN batch[i][s] : b[k] = batch[i][s][j]
        <5>1. CASE b = Tail(batch[i][s])
          BY <4>2, <5>1, RestIsProper
        <5>2. CASE b = <<>>
          BY <5>2
        <5>3. QED
          BY <5>1, <5>2
      <4>4. \A j \in DOMAIN batch[i][s] : batch[i][s][j] \in Events /\ row[batch[i][s][j]] # NoRow
        BY <4>2 DEF HeldInv
      <4>5. QED
        BY <4>1, <4>3, <4>4
    <3>4. Reads(i, s) \/ Leaves(i, s) \/ Stays(i, s, "mark") \/ Stays(i, s, "increment")
      BY <1>3, HowItGoes DEF Settle
    <3>5. QED
      BY <3>1, <3>2, <3>3, <3>4
  <2>3. \A j \in Instances, t \in Polls :
            batch'[j][t] = IF j = i /\ t = s THEN b ELSE batch[j][t]
    BY <1>1, <2>2, OnlyOnePollMoves DEF Goes
  <2>4. \A k \in DOMAIN b : row'[b[k]] # NoRow
    BY <2>1, <2>2
  <2>5. ASSUME NEW j \in Instances, NEW t \in Polls
        PROVE  \A k \in DOMAIN batch[j][t] : row'[batch[j][t][k]] # NoRow
    <3>1. \A k \in DOMAIN batch[j][t] : batch[j][t][k] \in Events /\ row[batch[j][t][k]] # NoRow
      BY <1>1 DEF HeldInv
    <3>2. QED
      BY <2>1, <3>1
  <2>6. QED
    BY <2>3, <2>4, <2>5 DEF HeldInv
<1>4. ASSUME NEW i \in Instances, Restart(i)
      PROVE  HeldInv'
  <2>1. row' = row
    BY <1>4 DEF Restart, table
  <2>2. \A j \in Instances, t \in Polls :
            batch'[j][t] = IF j = i THEN <<>> ELSE batch[j][t]
    BY <1>1, <1>4 DEF Restart
  <2>3. QED
    BY <2>1, <2>2 DEF HeldInv
<1>5. CASE UNCHANGED vars
  BY <1>2, <1>5 DEF vars, table, poll
<1>6. ASSUME NEW e \in Events, Insert(e)
      PROVE  HeldInv'
  BY <1>1, <1>2, <1>6 DEF Insert, poll
<1>7. ASSUME NEW i \in Instances, NEW s \in Polls, Tick(i, s)
      PROVE  HeldInv'
  BY <1>2, <1>7 DEF Tick, table
<1>8. ASSUME NEW i \in Instances, Connect(i) \/ Stop(i)
      PROVE  HeldInv'
  BY <1>2, <1>8 DEF Connect, Stop, table, poll
<1>9. QED
  BY <1>3, <1>4, <1>5, <1>6, <1>7, <1>8 DEF Next, Crash, Exit

(* Copies beyond one for each instance are debts.                           *)
LEMMA ExcessOwed ==
  ASSUME OutboxTypeOK, NEW e \in Events
  PROVE  Excess(e) \subseteq Debts
<1>1. sent[e] \in Nat /\ Cardinality(Covered(e)) <= Cardinality(Instances)
  BY CoveredFinite DEF OutboxTypeOK
<1>2. sent[e] - Cardinality(Instances) <= Owed(e) /\ Owed(e) \in Int
  BY <1>1, CoveredFinite DEF Owed
<1>3. ASSUME NEW n \in 1 .. sent[e] - Cardinality(Instances)
      PROVE  n \in Nat \ {0} /\ n <= Owed(e)
  BY <1>1, <1>2, CoveredFinite
<1>4. QED
  BY <1>3 DEF Excess, Debts

LEMMA StopsCounted ==
  ASSUME OutboxTypeOK, DebtInv
  PROVE  Cardinality(Debts) <= errors + ends
<1>1. Cardinality(stopping) \in Nat
  <2>1. IsFiniteSet(stopping)
    BY FS_Subset, InstancesAssumption DEF OutboxTypeOK
  <2>2. QED
    BY <2>1, FS_CardinalityType
<1>2. /\ Cardinality(Debts) + Cardinality(stopping) <= errors + ends
      /\ Cardinality(Debts) \in Nat
  BY FS_CardinalityType DEF DebtInv
<1>3. errors \in Nat /\ ends \in Nat
  BY DEF OutboxTypeOK
<1>4. QED
  BY <1>1, <1>2, <1>3

(* What a larger system needs to know of the outbox, and what the rest of   *)
(* that system may do to it: commit an event, and have awaits of its own    *)
(* rejected.                                                                *)
OutboxInv == PollInv /\ SentInv /\ DebtInv /\ HeldInv

LEMMA InitOutbox == Init => OutboxInv
  BY InitPolls, InitSent, InitDebt, InitHeld DEF OutboxInv

LEMMA NextOutbox == OutboxInv /\ [Next]_vars => OutboxInv'
  BY NextPolls, NextSent, NextDebt, NextHeld DEF OutboxInv

LEMMA NoneExceeds ==
  ASSUME OutboxInv, NEW e \in Events
  PROVE  sent[e] <= Cardinality(Instances) + errors + ends
<1> DEFINE n == sent[e] - Cardinality(Instances)
<1>1. sent[e] \in Nat /\ Cardinality(Instances) \in Nat /\ errors \in Nat /\ ends \in Nat
  BY CoveredFinite DEF OutboxInv, PollInv, OutboxTypeOK
<1>2. CASE n \in Nat
  <2>1. Excess(e) = {e} \X (1 .. n)
    BY DEF Excess
  <2>2. Excess(e) \subseteq Debts /\ IsFiniteSet(Debts)
    BY ExcessOwed DEF OutboxInv, PollInv, DebtInv
  <2>3. Cardinality(Excess(e)) <= Cardinality(Debts)
    BY <2>2, FS_Subset
  <2>4. Cardinality(Excess(e)) = n
    <3> HIDE DEF n
    <3>1. IsFiniteSet({e}) /\ Cardinality({e}) = 1
      BY FS_Singleton
    <3>2. IsFiniteSet(1 .. n) /\ Cardinality(1 .. n) = n
      BY <1>2, FS_Interval
    <3>3. Cardinality({e} \X (1 .. n)) = Cardinality({e}) * Cardinality(1 .. n)
      BY <3>1, <3>2, FS_Product, Zenon
    <3>4. Cardinality({e} \X (1 .. n)) = n
      BY <1>2, <3>1, <3>2, <3>3
    <3>5. QED
      BY <2>1, <3>4
  <2>5. Cardinality(Debts) <= errors + ends
    BY <1>1, StopsCounted DEF OutboxInv, PollInv
  <2>6. Cardinality(Debts) \in Nat
    BY <2>2, FS_CardinalityType
  <2> HIDE DEF n
  <2>7. n <= errors + ends
    BY <1>1, <1>2, <2>3, <2>4, <2>5, <2>6
  <2>8. QED
    BY <1>1, <2>7 DEF n
<1>3. CASE n \notin Nat
  BY <1>1, <1>3
<1>4. QED
  BY <1>2, <1>3

LEMMA SettleMarksHeld ==
  ASSUME OutboxInv, NEW i \in Instances, NEW s \in Polls, Settle(i, s)
  PROVE  \A e \in Events : row'[e] # NoRow <=> row[e] # NoRow
<1> SUFFICES ASSUME NEW e \in Events
             PROVE  row'[e] # NoRow <=> row[e] # NoRow
  OBVIOUS
<1>1. \/ row'[e] = row[e]
      \/ MarkAsPublished(i, s) /\ e = Current(i, s) /\ row'[e] = "PUBLISHED"
  BY SettleSends DEF OutboxInv
<1>2. CASE MarkAsPublished(i, s) /\ e = Current(i, s) /\ row'[e] = "PUBLISHED"
  <2>1. Current(i, s) = batch[i][s][1] /\ 1 \in DOMAIN batch[i][s]
    BY <1>2, InHand DEF OutboxInv, MarkAsPublished
  <2>2. QED
    BY <1>2, <2>1 DEF OutboxInv, HeldInv
<1>3. QED
  BY <1>1, <1>2

LEMMA CommitsElsewhere ==
  ASSUME OutboxInv, UNCHANGED <<attempts, sent, poll, life, ends>>,
         \/ row' = row
         \/ \E e \in Events : row[e] = NoRow /\ row' = [row EXCEPT ![e] = "PENDING"],
         errors' = errors \/ errors' = errors + 1
  PROVE  OutboxInv'
<1>1. /\ row \in [Events -> OutboxEventRow] /\ sent \in [Events -> Nat]
      /\ errors \in Nat /\ ends \in Nat
      /\ starting \subseteq Instances /\ stopping \subseteq Instances
  BY DEF OutboxInv, PollInv, OutboxTypeOK
<1>2. /\ row' \in [Events -> OutboxEventRow]
      /\ \A e \in Events : row'[e] = "PUBLISHED" <=> row[e] = "PUBLISHED"
  BY <1>1 DEF OutboxEventRow, OutboxEventStatus
<1>3. /\ attempts' = attempts /\ sent' = sent /\ ends' = ends
      /\ starting' = starting /\ stopping' = stopping
      /\ isPublishing' = isPublishing /\ step' = step /\ batch' = batch
      /\ errors' \in Nat /\ errors' >= errors
  BY <1>1 DEF poll, life
<1>4. PollInv'
  BY <1>2, <1>3 DEF OutboxInv, PollInv, OutboxTypeOK, GuardHasPoll, BatchInv
<1>5. SentInv'
  BY <1>2, <1>3 DEF OutboxInv, SentInv, PublishedIsOnTopic, Marks, Current
<1>6. DebtInv'
  <2>1. \A e \in Events : Marking(e)' = Marking(e) /\ Holding(e)' = Holding(e)
    BY <1>3 DEF Marking, Holding, Marks, Holds, Current
  <2>2. \A e \in Events : Covered(e)' = Covered(e)
    BY <1>2, <2>1 DEF Covered
  <2>3. \A e \in Events : Owed(e) \in Int /\ Owed(e)' \in Int /\ Owed(e)' <= Owed(e)
    BY <1>1, <1>3, <2>2, Owing
  <2>4. Debts' \subseteq Debts
    BY <2>3, NoNewDebt
  <2>5. IsFiniteSet(stopping)
    BY <1>1, FS_Subset, InstancesAssumption
  <2>6. errors + ends \in Nat /\ errors' + ends' \in Nat /\ errors + ends <= errors' + ends'
    <3>1. errors \in Nat /\ ends \in Nat /\ errors' \in Nat /\ ends' = ends /\ errors <= errors'
      BY <1>1, <1>3
    <3>2. \A m, n, k \in Nat : m <= n => m + k \in Nat /\ n + k \in Nat /\ m + k <= n + k
      OBVIOUS
    <3>3. QED
      BY <3>1, <3>2
  <2>7. DebtInv /\ stopping' \subseteq stopping
    BY <1>3 DEF OutboxInv
  <2>8. QED
    BY <2>4, <2>5, <2>6, <2>7, DebtsPaid
<1>7. HeldInv'
  <2>1. \A e \in Events : row[e] # NoRow => row'[e] # NoRow
    BY <1>1
  <2>2. \A i \in Instances, s \in Polls : \A k \in DOMAIN batch[i][s] :
            batch[i][s][k] \in Events /\ row[batch[i][s][k]] # NoRow
    BY DEF OutboxInv, PollInv, OutboxTypeOK, HeldInv
  <2>3. QED
    BY <1>3, <2>1, <2>2 DEF HeldInv
<1>8. QED
  BY <1>4, <1>5, <1>6, <1>7 DEF OutboxInv

LEMMA CopiesArePaid ==
  ASSUME PollInv, DebtInv
  PROVE  CopiesAccountedFor
<1>1. UNION {Excess(e) : e \in Events} \subseteq Debts
  BY ExcessOwed DEF PollInv
<1>2. /\ Cardinality(UNION {Excess(e) : e \in Events}) <= Cardinality(Debts)
      /\ Cardinality(UNION {Excess(e) : e \in Events}) \in Nat
      /\ Cardinality(Debts) \in Nat
  BY <1>1, FS_Subset, FS_CardinalityType DEF DebtInv
<1>3. Cardinality(Debts) <= errors + ends /\ errors \in Nat /\ ends \in Nat
  BY StopsCounted DEF PollInv, OutboxTypeOK
<1>4. QED
  BY <1>2, <1>3 DEF CopiesAccountedFor

(* At least once costs no more than the failures account for: every copy of *)
(* an event beyond one for each instance is paid for by a crash, a stop or  *)
(* a failure of its own.                                                    *)
THEOREM CopiesPaidFor == Spec => []CopiesAccountedFor
<1>1. OutboxInv => CopiesAccountedFor
  BY CopiesArePaid DEF OutboxInv
<1>2. QED
  BY InitOutbox, NextOutbox, <1>1, PTL DEF Spec
=============================================================================
