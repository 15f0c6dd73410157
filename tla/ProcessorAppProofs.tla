------------------------ MODULE ProcessorAppProofs -------------------------
(***************************************************************************)
(* Theorems about ProcessorApp, for any number of requests, processors,    *)
(* failures, crashes and SIGTERMs.                                         *)
(***************************************************************************)
EXTENDS ProcessorApp, CardProcessorFaultProofs

-----------------------------------------------------------------------------
(* Counting. *)

Units(f) == UNION {{r} \X (1 .. f[r]) : r \in Requests}

LEMMA UnitsFinite ==
  ASSUME NEW f \in [Requests -> Nat]
  PROVE  IsFiniteSet(Units(f)) /\ Total(f) \in Nat /\ Total(f) = Cardinality(Units(f))
<1> DEFINE parts == {{r} \X (1 .. f[r]) : r \in Requests}
<1>1. IsFiniteSet(parts)
  <2> DEFINE part == [r \in Requests |-> {r} \X (1 .. f[r])]
  <2>1. part \in [Requests -> parts] /\ \A S \in parts : \E r \in Requests : part[r] = S
    OBVIOUS
  <2>2. part \in Surjection(Requests, parts)
    BY <2>1 DEF Surjection
  <2>3. QED
    BY <2>2, FiniteAssumption, FS_Surjection
<1>2. ASSUME NEW S \in parts
      PROVE  IsFiniteSet(S)
  <2>1. PICK r \in Requests : S = {r} \X (1 .. f[r])
    OBVIOUS
  <2>2. IsFiniteSet({r}) /\ IsFiniteSet(1 .. f[r])
    <3>1. 1 \in Int /\ f[r] \in Int
      OBVIOUS
    <3>2. QED
      BY <3>1, FS_Singleton, FS_Interval
  <2>3. IsFiniteSet({r} \X (1 .. f[r]))
    BY <2>2, FS_Product, Zenon
  <2>4. QED
    BY <2>1, <2>3
<1>3. IsFiniteSet(UNION parts)
  <2> HIDE DEF parts
  <2>1. QED
    BY <1>1, <1>2, FS_UNION
<1>4. IsFiniteSet(Units(f)) /\ Total(f) = Cardinality(Units(f))
  BY <1>3 DEF Units, Total
<1>5. QED
  BY <1>4, FS_CardinalityType

LEMMA TotalGrows ==
  ASSUME NEW f \in [Requests -> Nat], NEW r \in Requests
  PROVE  Total([f EXCEPT ![r] = @ + 1]) = Total(f) + 1
<1> DEFINE g == [f EXCEPT ![r] = @ + 1]
           u == <<r, f[r] + 1>>
<1>1. g \in [Requests -> Nat] /\ \A q \in Requests : g[q] = IF q = r THEN f[q] + 1 ELSE f[q]
  OBVIOUS
<1>2. \A n : n \in 1 .. f[r] + 1 <=> n \in 1 .. f[r] \/ n = f[r] + 1
  OBVIOUS
<1>3. \A x : x \in Units(f) <=> (\E q \in Requests : (\E n \in 1 .. f[q] : x = <<q, n>>))
  BY DEF Units
<1>4. \A x : x \in Units(g) <=> (\E q \in Requests : (\E n \in 1 .. g[q] : x = <<q, n>>))
  BY DEF Units
<1> HIDE DEF g
<1>5. Units(g) = Units(f) \cup {u}
  <2>1. ASSUME NEW x \in Units(g)
        PROVE  x \in Units(f) \cup {u}
    <3>1. PICK q \in Requests : (\E n \in 1 .. g[q] : x = <<q, n>>)
      BY <1>4
    <3>2. PICK n \in 1 .. g[q] : x = <<q, n>>
      BY <3>1
    <3>3. n \in 1 .. f[q] \/ (q = r /\ n = f[r] + 1)
      BY <1>1, <1>2
    <3>4. QED
      BY <1>3, <3>2, <3>3
  <2>2. ASSUME NEW x \in Units(f)
        PROVE  x \in Units(g)
    <3>1. PICK q \in Requests : (\E n \in 1 .. f[q] : x = <<q, n>>)
      BY <1>3
    <3>2. PICK n \in 1 .. f[q] : x = <<q, n>>
      BY <3>1
    <3>3. n \in 1 .. g[q]
      BY <1>1, <1>2
    <3>4. QED
      BY <1>4, <3>2, <3>3
  <2>3. u \in Units(g)
    <3>1. f[r] + 1 \in 1 .. g[r]
      BY <1>1
    <3>2. QED
      BY <1>4, <3>1
  <2>4. QED
    BY <2>1, <2>2, <2>3
<1>6. u \notin Units(f)
  <2>1. SUFFICES ASSUME NEW q \in Requests, NEW n \in 1 .. f[q], u = <<q, n>>
                 PROVE  FALSE
    BY <1>3
  <2>2. q = r /\ n = f[r] + 1
    BY <2>1
  <2>3. QED
    BY <2>2
<1>7. Cardinality(Units(g)) = Cardinality(Units(f)) + 1
  BY <1>5, <1>6, UnitsFinite, FS_AddElement
<1>8. Total(g) = Total(f) + 1
  BY <1>1, <1>7, UnitsFinite
<1>9. QED
  BY <1>8 DEF g

(* A finite set that gains or loses one element, or neither.                *)
LEMMA SetGains ==
  ASSUME NEW S, NEW T, NEW x, IsFiniteSet(S), x \notin S, x \in T,
         \A y : y # x => (y \in T <=> y \in S)
  PROVE  IsFiniteSet(T) /\ Cardinality(T) = Cardinality(S) + 1
<1>1. T = S \cup {x}
  OBVIOUS
<1>2. QED
  BY <1>1, FS_AddElement

LEMMA SetLoses ==
  ASSUME NEW S, NEW T, NEW x, IsFiniteSet(S), x \in S, x \notin T,
         \A y : y # x => (y \in T <=> y \in S)
  PROVE  IsFiniteSet(T) /\ Cardinality(T) = Cardinality(S) - 1
<1>1. T = S \ {x}
  OBVIOUS
<1>2. QED
  BY <1>1, FS_RemoveElement

-----------------------------------------------------------------------------
(* Where the handlers stand. *)

Standing(step) == {i \in Processors : pc[i] = step}

LEMMA StandingFinite ==
  ASSUME NEW step
  PROVE  IsFiniteSet(Standing(step)) /\ At(step) \in Nat /\ At(step) = Cardinality(Standing(step))
<1>1. IsFiniteSet(Standing(step))
  BY FiniteAssumption, FS_Subset DEF Standing
<1>2. QED
  BY <1>1, FS_CardinalityType DEF At, Standing

Is(i, step) == IF pc[i] = step THEN 1 ELSE 0

(* One handler at a time changes its place.                                 *)
LEMMA AtMoves ==
  ASSUME NEW i \in Processors, NEW CONSTANT step,
         \A j \in Processors \ {i} : pc'[j] = pc[j]
  PROVE  At(step)' = At(step) - Is(i, step) + Is(i, step)'
<1> DEFINE S == Standing(step)
           T == {j \in Processors : pc'[j] = step}
<1>1. /\ At(step) = Cardinality(S) /\ IsFiniteSet(S) /\ Cardinality(S) \in Nat
      /\ At(step)' = Cardinality(T)
  BY StandingFinite DEF At
<1>2. /\ i \in S <=> pc[i] = step
      /\ i \in T <=> pc'[i] = step
      /\ \A y : y # i => (y \in T <=> y \in S)
  BY DEF Standing
<1> HIDE DEF S, T
<1>3. CASE pc[i] = step /\ pc'[i] = step
  <2>1. S = T
    BY <1>2, <1>3
  <2>2. QED
    BY <1>1, <1>3, <2>1 DEF Is
<1>4. CASE pc[i] # step /\ pc'[i] # step
  <2>1. S = T
    BY <1>2, <1>4
  <2>2. QED
    BY <1>1, <1>4, <2>1 DEF Is
<1>5. CASE pc[i] = step /\ pc'[i] # step
  <2>1. Cardinality(T) = Cardinality(S) - 1
    BY <1>1, <1>2, <1>5, SetLoses
  <2>2. QED
    BY <1>1, <1>5, <2>1 DEF Is
<1>6. CASE pc[i] # step /\ pc'[i] = step
  <2>1. Cardinality(T) = Cardinality(S) + 1
    BY <1>1, <1>2, <1>6, SetGains
  <2>2. QED
    BY <1>1, <1>6, <2>1 DEF Is
<1>7. QED
  BY <1>3, <1>4, <1>5, <1>6

-----------------------------------------------------------------------------
(* The steps of the process around the use case. *)

HandlerStep(i) == Handle(i) \/ HandleRejects(i) \/ PublishRefused(i)

(* What touches neither handlers nor counters.                              *)
QuietStep ==
    \/ \E r \in Requests : Environment(r) /\ UNCHANGED app_vars
    \/ \E i \in Processors, p \in Partitions : Join(i, p) \/ CommitOffset(i, p)
    \/ \E i \in Processors : Connected(i) \/ Stop(i) \/ Exit(i)
    \/ UNCHANGED <<vars, app_vars>>

LEMMA AppCases ==
  ASSUME [AppNext]_<<vars, app_vars>>
  PROVE  \/ QuietStep
         \/ \E i \in Processors, p \in Partitions : Consume(i, p)
         \/ \E i \in Processors : HandlerStep(i)
         \/ \E i \in Processors : Die(i)
  BY DEF AppNext, QuietStep, HandlerStep

(* The steps that are not those of CardProcessor. *)
LEMMA StepCases ==
  ASSUME [AppNext]_<<vars, app_vars>>
  PROVE  \/ [Next]_vars
         \/ \E i \in Processors : PublishRefused(i)
         \/ \E i \in Processors : Exit(i)
<1>1. CASE \E i \in Processors : Handle(i) \/ HandleRejects(i) \/ Die(i)
  BY <1>1 DEF Next, Handle, HandleRejects, Die
<1>2. CASE \E i \in Processors, p \in Partitions : Consume(i, p) \/ Join(i, p) \/ CommitOffset(i, p)
  BY <1>2 DEF Next, Group, Consume, Join, CommitOffset
<1>3. CASE \E r \in Requests : Environment(r)
  BY <1>3 DEF Next
<1>4. CASE \E i \in Processors : Connected(i) \/ Stop(i)
  BY <1>4 DEF Connected, Stop
<1>5. QED
  BY <1>1, <1>2, <1>3, <1>4 DEF AppNext

LEMMA QuietKeepsHands ==
  ASSUME TypeInv, QuietStep
  PROVE  /\ UNCHANGED <<pc, cur, attempt, counted, calls, cards, dlqTopic>>
         /\ faults'["crash"] = faults["crash"]
<1> DEFINE Goal == /\ UNCHANGED <<pc, cur, attempt, counted, calls, cards, dlqTopic>>
                   /\ faults'["crash"] = faults["crash"]
<1>1. ASSUME NEW r \in Requests, Environment(r), UNCHANGED app_vars
      PROVE  Goal
  BY <1>1 DEF Environment, Accept, Produce, app_vars, db_vars, out_vars, handler_vars, issuer_vars
<1>2. ASSUME NEW i \in Processors, NEW p \in Partitions, Join(i, p)
      PROVE  Goal
  <2>1. faults'["crash"] = faults["crash"]
    BY <1>2 DEF Join, Assign, Spend, TypeInv, TypeOK, FaultKinds
  <2>2. QED
    BY <1>2, <2>1 DEF Join, Assign, app_vars, db_vars, out_vars, issuer_vars
<1>3. ASSUME NEW i \in Processors, NEW p \in Partitions, CommitOffset(i, p)
      PROVE  Goal
  BY <1>3 DEF CommitOffset, Commit, app_vars, db_vars, out_vars, handler_vars, issuer_vars
<1>4. ASSUME NEW i \in Processors, Connected(i) \/ Stop(i)
      PROVE  Goal
  BY <1>4 DEF Connected, Stop, vars, db_vars, out_vars, handler_vars, issuer_vars
<1>5. ASSUME NEW i \in Processors, Exit(i)
      PROVE  Goal
  BY <1>5 DEF Exit, db_vars, out_vars, handler_vars, issuer_vars
<1>6. CASE UNCHANGED <<vars, app_vars>>
  BY <1>6 DEF vars, app_vars, db_vars, out_vars, handler_vars, issuer_vars
<1>7. QED
  BY <1>1, <1>2, <1>3, <1>4, <1>5, <1>6 DEF QuietStep

(* A handler's step, or the end of its process, moves that handler alone.   *)
LEMMA OneMoves ==
  ASSUME TypeInv, NEW i \in Processors, HandlerStep(i) \/ Die(i)
  PROVE  /\ \A j \in Processors \ {i} :
               pc'[j] = pc[j] /\ cur'[j] = cur[j] /\ attempt'[j] = attempt[j]
         /\ Die(i) \/ ~Handle(i) => pc'[i] = "idle"
<1>1. CASE Handle(i) /\ ~Die(i)
  BY <1>1, StepKeepsHands DEF Handle
<1>2. CASE HandleRejects(i)
  <2>1. AwaitRejects(i) /\ EndDelivery(i)
    BY <1>2 DEF HandleRejects, AwaitRejects
  <2>2. QED
    BY <2>1, StepKeepsHands DEF EndDelivery, Goto, TypeInv, TypeOK
<1>3. CASE PublishRefused(i)
  BY <1>3 DEF PublishRefused, Publishing, EndDelivery, Goto, TypeInv, TypeOK
<1>4. CASE Die(i)
  BY <1>4 DEF Die, Crash, Goto, TypeInv, TypeOK
<1>5. QED
  BY <1>1, <1>2, <1>3, <1>4 DEF HandlerStep

LEMMA OnlyTheBusyStep ==
  ASSUME TypeInv, NEW i \in Processors, HandlerStep(i)
  PROVE  pc[i] # "idle"
  BY StepKeepsHands DEF HandlerStep, Handle, HandleRejects, PublishRefused, Publishing

(* An event that is delivered leaves no trace but in its processor's hands. *)
LEMMA ConsumeMoves ==
  ASSUME TypeInv, NEW i \in Processors, NEW p \in Partitions, Consume(i, p)
  PROVE  /\ \A j \in Processors \ {i} :
               pc'[j] = pc[j] /\ cur'[j] = cur[j] /\ attempt'[j] = attempt[j]
         /\ pc[i] = "idle" /\ pc'[i] = "wasProcessed"
         /\ UNCHANGED <<counted, calls, cards, dlqTopic, status, faults>>
  BY DEF Consume, Deliver, Goto, TypeInv, TypeOK, app_vars, db_vars, out_vars, issuer_vars

LEMMA AppInitTypes == AppInit => TypeInv
  BY InitTypes DEF AppInit

LEMMA AppNextTypes == TypeInv /\ [AppNext]_<<vars, app_vars>> => TypeInv'
<1> SUFFICES ASSUME TypeInv, [AppNext]_<<vars, app_vars>>
             PROVE  TypeInv'
  OBVIOUS
<1>1. CASE [Next]_vars
  BY <1>1, NextTypes
<1>2. ASSUME NEW i \in Processors, PublishRefused(i)
      PROVE  TypeInv'
  <2>1. pc[i] # "idle" /\ EndDelivery(i)
        /\ UNCHANGED <<db_vars, log_vars, out_vars, issuer_vars, faults>>
    BY <1>2 DEF PublishRefused, Publishing
  <2>2. QED
    BY <2>1, EndDeliveryTypes
       DEF TypeInv, TypeOK, db_vars, log_vars, out_vars, issuer_vars
<1>3. ASSUME NEW i \in Processors, Exit(i)
      PROVE  TypeInv'
  <2>1. owner' \in [Partitions -> Processors \cup {NoOwner}]
    BY <1>3 DEF Exit, LeaveGroup, TypeInv, TypeOK
  <2>2. QED
    BY <1>3, <2>1 DEF Exit, TypeInv, TypeOK, AttemptInv, db_vars, out_vars, handler_vars, issuer_vars
<1>4. QED
  BY <1>1, <1>2, <1>3, StepCases

(* What a handler's step counts: an error as it ends, or what is due at the *)
(* next await.                                                              *)
LEMMA HandlerCounts ==
  ASSUME TypeInv, NEW i \in Processors, HandlerStep(i)
  PROVE  \/ pc'[i] = "idle" /\ Count({"errors"})
         \/ Handle(i) /\ faults' = faults /\ ~Throws(i) /\ Count(Due(i)')
<1>1. CASE Handle(i)
  <2>1. CASE Throws(i)
    <3>1. EndDelivery(i)
      BY <1>1, <2>1
         DEF Handle, Throws, Execute, WasProcessed, FindRequest, MarkProcessing, IssueSucceeds,
             IssueFails, Backoff, MarkIssued, PublishIssued, MarkFailed, PublishDlq,
             MarkProcessed, ReturnsOrRejects
    <3>2. QED
      BY <1>1, <2>1, <3>1 DEF Handle, CountStep, EndDelivery, Goto, TypeInv, TypeOK
  <2>2. CASE ~Throws(i)
    BY <1>1, <2>2 DEF Handle, CountStep, Throws
  <2>3. QED
    BY <2>1, <2>2
<1>2. CASE HandleRejects(i)
  <2>1. Throws(i)
    BY <1>2 DEF HandleRejects, AwaitRejects, Spend, Throws, TypeInv, TypeOK, FaultKinds
  <2>2. QED
    BY <1>2, <2>1 DEF HandleRejects, AwaitRejects, CountStep, EndDelivery, Goto, TypeInv, TypeOK
<1>3. CASE PublishRefused(i)
  BY <1>3 DEF PublishRefused, EndDelivery, Goto, TypeInv, TypeOK
<1>4. QED
  BY <1>1, <1>2, <1>3 DEF HandlerStep

-----------------------------------------------------------------------------
(* No counter falls below zero: what a death may take back was counted.     *)

ProcessInv == phase \in [Processors -> Phases] /\ stops \in Nat

DueTo(c) == {i \in Processors : c \in Due(i)}

CountInv ==
    /\ counted \in [Counters -> Nat]
    /\ \A c \in Counters : Cardinality(DueTo(c)) <= counted[c]

LEMMA DueToFinite ==
  ASSUME NEW c
  PROVE  IsFiniteSet(DueTo(c)) /\ Cardinality(DueTo(c)) \in Nat
<1>1. IsFiniteSet(DueTo(c))
  BY FiniteAssumption, FS_Subset DEF DueTo
<1>2. QED
  BY <1>1, FS_CardinalityType

LEMMA DueStays ==
  ASSUME NEW j \in Processors,
         \/ pc'[j] = pc[j] /\ attempt'[j] = attempt[j]
         \/ pc[j] = "idle" /\ pc'[j] = "wasProcessed"
  PROVE  Due(j)' = Due(j)
  BY DEF Due

LEMMA AppInitCounts == AppInit => ProcessInv /\ CountInv
<1> SUFFICES ASSUME AppInit
             PROVE  ProcessInv /\ CountInv
  OBVIOUS
<1>1. \A c : DueTo(c) = {}
  BY DEF AppInit, Init, DueTo, Due
<1>2. \A c : Cardinality(DueTo(c)) = 0
  BY <1>1, FS_EmptySet
<1>3. QED
  BY <1>2 DEF AppInit, ProcessInv, Phases, CountInv

LEMMA AppNextProcess == ProcessInv /\ [AppNext]_<<vars, app_vars>> => ProcessInv'
<1> SUFFICES ASSUME ProcessInv, [AppNext]_<<vars, app_vars>>
             PROVE  ProcessInv'
  OBVIOUS
<1>1. CASE UNCHANGED <<phase, stops>>
  BY <1>1 DEF ProcessInv
<1>2. ASSUME NEW i \in Processors, Connected(i) \/ Stop(i) \/ Exit(i) \/ Die(i)
      PROVE  ProcessInv'
  BY <1>2 DEF ProcessInv, Phases, Connected, Stop, Exit, Die
<1>3. QED
  BY <1>1, <1>2
     DEF AppNext, Consume, Join, CommitOffset, Handle, HandleRejects, PublishRefused, app_vars

(* A counter that covers what is due still does when one handler moves.     *)
LEMMA OneDue ==
  ASSUME NEW i \in Processors, NEW CONSTANT c,
         \A j \in Processors \ {i} : Due(j)' = Due(j)
  PROVE  /\ IF c \in Due(i)'
            THEN Cardinality(DueTo(c))' <= Cardinality(DueTo(c)) + 1
            ELSE Cardinality(DueTo(c))' =
                     Cardinality(DueTo(c)) - (IF c \in Due(i) THEN 1 ELSE 0)
         /\ Cardinality(DueTo(c))' \in Nat
<1> DEFINE S == DueTo(c)
           T == {j \in Processors : c \in Due(j)'}
<1>1. /\ IsFiniteSet(S) /\ Cardinality(S) \in Nat
      /\ Cardinality(DueTo(c)) = Cardinality(S) /\ Cardinality(DueTo(c))' = Cardinality(T)
      /\ i \in S <=> c \in Due(i)
      /\ i \in T <=> c \in Due(i)'
      /\ \A y : y # i => (y \in T <=> y \in S)
  BY DueToFinite DEF DueTo
<1>2. IsFiniteSet(T) /\ Cardinality(T) \in Nat
  <2>1. IsFiniteSet(T)
    BY FiniteAssumption, FS_Subset
  <2>2. QED
    BY <2>1, FS_CardinalityType
<1> HIDE DEF S, T
<1>3. CASE c \in Due(i)'
  <2>1. T \subseteq S \cup {i}
    BY <1>1
  <2>2. Cardinality(T) <= Cardinality(S) + 1
    BY <1>1, <2>1, OneMoreAtMost
  <2>3. QED
    BY <1>1, <1>2, <1>3, <2>2
<1>4. CASE c \notin Due(i)' /\ c \in Due(i)
  <2>1. Cardinality(T) = Cardinality(S) - 1
    BY <1>1, <1>4, SetLoses
  <2>2. QED
    BY <1>1, <1>2, <1>4, <2>1
<1>5. CASE c \notin Due(i)' /\ c \notin Due(i)
  <2>1. T = S
    BY <1>1, <1>5
  <2>2. QED
    BY <1>1, <1>2, <1>5, <2>1
<1>6. QED
  BY <1>3, <1>4, <1>5

LEMMA AppNextCounts == TypeInv /\ CountInv /\ [AppNext]_<<vars, app_vars>> => CountInv'
<1> SUFFICES ASSUME TypeInv, CountInv, [AppNext]_<<vars, app_vars>>
             PROVE  CountInv'
  OBVIOUS
<1>1. CASE counted' = counted /\ \A j \in Processors : Due(j)' = Due(j)
  <2>1. ASSUME NEW c \in Counters
        PROVE  (DueTo(c))' = DueTo(c)
    BY <1>1 DEF DueTo
  <2>2. QED
    BY <1>1, <2>1 DEF CountInv
<1>2. CASE QuietStep
  <2>1. \A j \in Processors : Due(j)' = Due(j)
    BY <1>2, QuietKeepsHands, DueStays
  <2>2. QED
    BY <1>1, <1>2, <2>1, QuietKeepsHands
<1>3. ASSUME NEW i \in Processors, NEW p \in Partitions, Consume(i, p)
      PROVE  CountInv'
  <2>1. \A j \in Processors : Due(j)' = Due(j)
    BY <1>3, ConsumeMoves, DueStays
  <2>2. QED
    BY <1>1, <1>3, <2>1, ConsumeMoves
<1>4. ASSUME NEW i \in Processors, HandlerStep(i)
      PROVE  CountInv'
  <2>1. \A j \in Processors \ {i} : Due(j)' = Due(j)
    BY <1>4, OneMoves, DueStays
  <2>2. ASSUME NEW c \in Counters
        PROVE  counted'[c] \in Nat /\ Cardinality(DueTo(c))' <= counted'[c]
    <3>1. counted[c] \in Nat /\ Cardinality(DueTo(c)) <= counted[c] /\ Cardinality(DueTo(c)) \in Nat
      BY DueToFinite DEF CountInv
    <3>2. CASE c \in Due(i)'
      <4>1. counted'[c] = counted[c] + 1
        BY <1>4, <3>2, HandlerCounts DEF Count, Due
      <4>2. QED
        BY <2>1, <3>1, <3>2, <4>1, OneDue
    <3>3. CASE c \notin Due(i)'
      <4>1. counted'[c] \in Nat /\ counted'[c] >= counted[c]
        BY <1>4, <3>1, HandlerCounts DEF Count
      <4>2. Cardinality(DueTo(c))' <= Cardinality(DueTo(c)) /\ Cardinality(DueTo(c))' \in Nat
        BY <2>1, <3>1, <3>3, OneDue
      <4>3. QED
        BY <3>1, <4>1, <4>2
    <3>4. QED
      BY <3>2, <3>3
  <2>3. DOMAIN counted' = Counters /\ counted' = [c \in Counters |-> counted'[c]]
    BY <1>4, HandlerCounts DEF Count
  <2>4. QED
    BY <2>2, <2>3 DEF CountInv
<1>5. ASSUME NEW i \in Processors, Die(i)
      PROVE  CountInv'
  <2>1. (\A j \in Processors \ {i} : Due(j)' = Due(j)) /\ Due(i)' = {}
    BY <1>5, OneMoves, DueStays DEF Due
  <2>2. ASSUME NEW c \in Counters
        PROVE  counted'[c] \in Nat /\ Cardinality(DueTo(c))' <= counted'[c]
    <3>1. counted[c] \in Nat /\ Cardinality(DueTo(c)) <= counted[c] /\ Cardinality(DueTo(c)) \in Nat
      BY DueToFinite DEF CountInv
    <3>2. \/ counted'[c] = counted[c]
          \/ counted'[c] = IF c \in Due(i) THEN counted[c] - 1 ELSE counted[c]
      BY <1>5 DEF Die
    <3>3. /\ Cardinality(DueTo(c))' = Cardinality(DueTo(c)) - (IF c \in Due(i) THEN 1 ELSE 0)
          /\ Cardinality(DueTo(c))' \in Nat
      BY <2>1, OneDue
    <3>4. QED
      BY <3>1, <3>2, <3>3
  <2>3. counted' = [c \in Counters |-> counted'[c]]
    BY <1>5 DEF Die, CountInv
  <2>4. QED
    BY <2>2, <2>3 DEF CountInv
<1>6. QED
  BY <1>2, <1>3, <1>4, <1>5, AppCases

(* Every variable keeps its type; no counter is ever taken below zero, by   *)
(* no crash (MetricsService).                                               *)
THEOREM AppTypesCorrect == AppSpec => []AppTypeOK
<1>1. TypeInv /\ ProcessInv /\ CountInv => AppTypeOK
  BY DEF TypeInv, ProcessInv, CountInv, AppTypeOK
<1>2. QED
  BY AppInitTypes, AppNextTypes, AppInitCounts, AppNextProcess, AppNextCounts, <1>1, PTL
     DEF AppSpec

-----------------------------------------------------------------------------
(* Calls and durations. *)

(* From which await a handler that throws nothing reaches which.            *)
LEMMA HandlerPath ==
  ASSUME TypeInv, NEW i \in Processors, Handle(i), ~Throws(i)
  PROVE  /\ pc'[i] = "issueCard" =>
               \/ pc[i] = "markProcessing" /\ attempt'[i] = 1
               \/ pc[i] = "backoff" /\ attempt'[i] # 1
         /\ pc[i] = "backoff" => pc'[i] = "issueCard"
         /\ pc[i] = "issueCard" <=> pc'[i] \in {"backoff", "markIssued", "markFailed"}
         /\ pc[i] = "markIssued" <=> pc'[i] = "publishIssued"
         /\ pc[i] = "markFailed" <=> pc'[i] = "publishDlq"
<1> USE DEF TypeInv, TypeOK, Goto
<1>0. Execute(i) /\ faults' = faults /\ ~(pc[i] = "markIssued" /\ cur[i] \in cards) /\ ~Spend("error")
  BY DEF Handle, Throws, Spend, FaultKinds
<1>1. CASE WasProcessed(i) \/ FindRequest(i)
  BY <1>1 DEF WasProcessed, FindRequest, EndDelivery
<1>2. CASE MarkProcessing(i)
  BY <1>0, <1>2 DEF MarkProcessing
<1>3. CASE IssueSucceeds(i) \/ IssueFails(i)
  BY <1>3 DEF IssueSucceeds, IssueFails
<1>4. CASE Backoff(i)
  <2>1. attempt[i] \in Nat /\ attempt[i] # 0
    BY <1>4, BoundsAssumption DEF Backoff, AttemptInv
  <2>2. QED
    BY <1>4, <2>1 DEF Backoff
<1>5. CASE MarkIssued(i) \/ MarkFailed(i) \/ PublishIssued(i) \/ PublishDlq(i)
  BY <1>0, <1>5 DEF MarkIssued, MarkFailed, PublishIssued, PublishDlq, ReturnsOrRejects
<1>6. CASE MarkProcessed(i)
  BY <1>6 DEF MarkProcessed, EndDelivery
<1>7. QED
  BY <1>0, <1>1, <1>2, <1>3, <1>4, <1>5, <1>6 DEF Execute

(* Only issueCard calls the issuer, and always does.                        *)
LEMMA HandlerCalls ==
  ASSUME TypeInv, NEW i \in Processors, HandlerStep(i)
  PROVE  Total(calls)' = Total(calls) + Is(i, "issueCard")
<1> DEFINE books(f) == Cardinality(UNION {{r} \X (1 .. f[r]) : r \in Requests})
<1>1. Total(calls)' = books(calls') /\ Total(calls) = books(calls)
  BY DEF Total
<1>2. Total(calls) \in Nat
  BY UnitsFinite DEF TypeInv, TypeOK
<1>3. CASE pc[i] # "issueCard"
  <2>1. calls' = calls
    BY <1>3 DEF HandlerStep, Handle, HandleRejects, PublishRefused, Execute, WasProcessed,
                FindRequest, MarkProcessing, IssueSucceeds, IssueFails, Backoff, MarkIssued,
                PublishIssued, MarkFailed, PublishDlq, MarkProcessed, AwaitRejects, issuer_vars
  <2>2. QED
    BY <1>1, <1>2, <1>3, <2>1 DEF Is
<1>4. CASE pc[i] = "issueCard"
  <2>1. PICK r \in Requests : calls' = [calls EXCEPT ![r] = @ + 1]
    <3>1. cur[i] \in Requests
      BY <1>4 DEF TypeInv, TypeOK
    <3>2. calls' = [calls EXCEPT ![cur[i]] = @ + 1]
      BY <1>4 DEF HandlerStep, Handle, HandleRejects, PublishRefused, Publishing, Execute,
                  WasProcessed, FindRequest, MarkProcessing, IssueSucceeds, IssueFails, Backoff,
                  MarkIssued, PublishIssued, MarkFailed, PublishDlq, MarkProcessed,
                  AwaitRejects, RemoteSteps
    <3>3. QED
      BY <3>1, <3>2
  <2>2. calls \in [Requests -> Nat]
    BY DEF TypeInv, TypeOK
  <2>3. Total([calls EXCEPT ![r] = @ + 1]) = Total(calls) + 1
    BY <2>2, TotalGrows
  <2>4. books([calls EXCEPT ![r] = @ + 1]) = Total(calls) + 1
    BY <2>3 DEF Total
  <2>5. QED
    BY <1>1, <1>4, <2>1, <2>4 DEF Is
<1>5. QED
  BY <1>3, <1>4

(* What a handler's step counts of calls and durations.                     *)
LEMMA HandlerCountsCalls ==
  ASSUME TypeInv, CountInv, NEW i \in Processors, HandlerStep(i)
  PROVE  /\ counted'["requests"] + counted'["retries"] =
                counted["requests"] + counted["retries"] + Is(i, "issueCard")'
         /\ counted'["requests"] - counted'["durations"] =
                counted["requests"] - counted["durations"]
                - Is(i, "issueCard") - Is(i, "backoff")
                + Is(i, "issueCard")' + Is(i, "backoff")'
<1>1. \A c \in {"requests", "retries", "durations"} : c \in Counters /\ counted[c] \in Nat
  BY DEF CountInv, Counters
<1>2. CASE pc'[i] = "idle" /\ Count({"errors"})
  <2>1. \A c \in {"requests", "retries", "durations"} : counted'[c] = counted[c]
    BY <1>1, <1>2 DEF Count
  <2>2. pc[i] \notin {"issueCard", "backoff"}
    <3>1. CASE Handle(i) /\ ~Throws(i)
      BY <1>2, <3>1, HandlerPath
    <3>2. CASE Handle(i) /\ Throws(i)
      BY <3>2 DEF Handle, Throws, Execute, WasProcessed, FindRequest, MarkProcessing,
                  IssueSucceeds, IssueFails, Backoff, MarkIssued, PublishIssued, MarkFailed,
                  PublishDlq, MarkProcessed
    <3>3. CASE HandleRejects(i) \/ PublishRefused(i)
      BY <3>3 DEF HandleRejects, AwaitRejects, RemoteSteps, PublishRefused, Publishing
    <3>4. QED
      BY <3>1, <3>2, <3>3 DEF HandlerStep
  <2>3. QED
    BY <1>1, <1>2, <2>1, <2>2 DEF Is
<1>3. CASE Handle(i) /\ ~Throws(i) /\ Count(Due(i)')
  <2>1. \A c \in {"requests", "retries", "durations"} :
            counted'[c] = counted[c] + (IF c \in Due(i)' THEN 1 ELSE 0)
    BY <1>1, <1>3 DEF Count
  <2>2. /\ "requests" \in Due(i)' <=> pc'[i] = "issueCard" /\ attempt'[i] = 1
        /\ "retries" \in Due(i)' <=> pc'[i] = "issueCard" /\ attempt'[i] # 1
        /\ "durations" \in Due(i)' <=> pc'[i] \in {"markIssued", "markFailed"}
    BY DEF Due
  <2>3. QED
    BY <1>1, <1>3, <2>1, <2>2, HandlerPath DEF Is
<1>4. QED
  BY <1>2, <1>3, HandlerCounts

Noted == counted["requests"] + counted["retries"]

CallInv ==
    /\ Total(calls) + At("issueCard") <= Noted
    /\ Noted <= Total(calls) + At("issueCard") + faults["crash"]
    /\ counted["durations"] + At("issueCard") + At("backoff") <= counted["requests"]
    /\ counted["requests"] <=
           counted["durations"] + At("issueCard") + At("backoff") + faults["crash"]

LEMMA TotalsSame ==
  ASSUME UNCHANGED <<calls, dlqTopic>>
  PROVE  Total(calls)' = Total(calls) /\ Total(dlqTopic)' = Total(dlqTopic)
  BY DEF Total

LEMMA AtSame ==
  ASSUME UNCHANGED pc, NEW CONSTANT step
  PROVE  At(step)' = At(step)
  BY DEF At

LEMMA TotalsType ==
  ASSUME TypeInv
  PROVE  Total(calls) \in Nat /\ Total(dlqTopic) \in Nat
  BY UnitsFinite DEF TypeInv, TypeOK

LEMMA AppInitTotals ==
  ASSUME AppInit
  PROVE  /\ Total(calls) = 0 /\ Total(dlqTopic) = 0
         /\ \A step \in Steps \ {"idle"} : At(step) = 0
<1>1. calls = [r \in Requests |-> 0] /\ dlqTopic = [r \in Requests |-> 0]
  BY DEF AppInit, Init
<1>2. \A r \in Requests : {r} \X (1 .. calls[r]) = {} /\ {r} \X (1 .. dlqTopic[r]) = {}
  BY <1>1
<1>3. /\ UNION {{r} \X (1 .. calls[r]) : r \in Requests} = {}
      /\ UNION {{r} \X (1 .. dlqTopic[r]) : r \in Requests} = {}
  BY <1>2
<1>4. \A step \in Steps \ {"idle"} : {i \in Processors : pc[i] = step} = {}
  BY DEF AppInit, Init
<1>5. QED
  BY <1>3, <1>4, FS_EmptySet DEF Total, At

(* A process that dies takes its handler with it, and one call that it may  *)
(* have counted before.                                                     *)
LEMMA DieCounts ==
  ASSUME TypeInv, CountInv, NEW i \in Processors, Die(i)
  PROVE  /\ UNCHANGED <<calls, cards, dlqTopic, status, issuedTopic, processed>>
         /\ faults'["crash"] = faults["crash"] + 1 /\ faults'["error"] = faults["error"]
         /\ \/ \A c \in Counters : counted'[c] = counted[c]
            \/ \A c \in Counters : counted'[c] = counted[c] - (IF c \in Due(i) THEN 1 ELSE 0)
<1>1. UNCHANGED <<calls, cards, dlqTopic, status, issuedTopic, processed>>
  BY DEF Die, Crash, db_vars, out_vars, issuer_vars
<1>2. faults'["crash"] = faults["crash"] + 1 /\ faults'["error"] = faults["error"]
  BY DEF Die, Crash, Spend, TypeInv, TypeOK, FaultKinds
<1>3. CASE counted' = counted
  BY <1>1, <1>2, <1>3
<1>4. CASE counted' = [c \in Counters |-> IF c \in Due(i) THEN counted[c] - 1 ELSE counted[c]]
  <2>1. \A c \in Counters : counted'[c] = counted[c] - (IF c \in Due(i) THEN 1 ELSE 0)
    BY <1>4 DEF CountInv
  <2>2. QED
    BY <1>1, <1>2, <2>1
<1>5. QED
  BY <1>3, <1>4 DEF Die

LEMMA NumbersType ==
  ASSUME TypeInv, CountInv, TypeInv', CountInv'
  PROVE  /\ \A c \in Counters : counted[c] \in Nat /\ counted'[c] \in Nat
         /\ \A kind \in FaultKinds : faults[kind] \in Nat /\ faults'[kind] \in Nat
         /\ Total(calls) \in Nat /\ Total(dlqTopic) \in Nat
         /\ \A step : At(step) \in Nat
  BY TotalsType, StandingFinite DEF TypeInv, TypeOK, CountInv

LEMMA AppInitCalls == AppInit => CallInv
<1> SUFFICES ASSUME AppInit
             PROVE  CallInv
  OBVIOUS
<1>1. At("issueCard") = 0 /\ At("backoff") = 0 /\ Total(calls) = 0
  BY AppInitTotals DEF Steps
<1>2. QED
  BY <1>1 DEF AppInit, Init, CallInv, Noted, Counters, FaultKinds

LEMMA AppNextCalls ==
  TypeInv /\ CountInv /\ CallInv /\ [AppNext]_<<vars, app_vars>> => CallInv'
<1> SUFFICES ASSUME TypeInv, CountInv, CallInv, [AppNext]_<<vars, app_vars>>
             PROVE  CallInv'
  OBVIOUS
<1>1. TypeInv' /\ CountInv'
  BY AppNextTypes, AppNextCounts
<1>2. /\ counted["requests"] \in Nat /\ counted'["requests"] \in Nat
      /\ counted["retries"] \in Nat /\ counted'["retries"] \in Nat
      /\ counted["durations"] \in Nat /\ counted'["durations"] \in Nat
      /\ faults["crash"] \in Nat /\ faults'["crash"] \in Nat
      /\ Total(calls) \in Nat /\ At("issueCard") \in Nat /\ At("backoff") \in Nat
  BY <1>1, NumbersType DEF FaultKinds, Counters
<1>3. {"requests", "retries", "durations"} \subseteq Counters
  BY DEF Counters
<1>4. CASE UNCHANGED <<pc, calls, dlqTopic, counted>> /\ faults'["crash"] = faults["crash"]
  BY <1>4, TotalsSame, AtSame DEF CallInv, Noted
<1>5. CASE QuietStep
  BY <1>4, <1>5, QuietKeepsHands
<1>6. ASSUME NEW i \in Processors, NEW p \in Partitions, Consume(i, p)
      PROVE  CallInv'
  <2>1. At("issueCard")' = At("issueCard") /\ At("backoff")' = At("backoff")
    <3>1. \A step \in {"issueCard", "backoff"} : Is(i, step) = 0 /\ Is(i, step)' = 0
      BY <1>6, ConsumeMoves DEF Is
    <3>2. At("issueCard")' = At("issueCard") - Is(i, "issueCard") + Is(i, "issueCard")'
      BY <1>6, ConsumeMoves, AtMoves
    <3>3. At("backoff")' = At("backoff") - Is(i, "backoff") + Is(i, "backoff")'
      BY <1>6, ConsumeMoves, AtMoves
    <3>4. QED
      BY <1>2, <3>1, <3>2, <3>3
  <2>2. QED
    BY <1>6, <2>1, ConsumeMoves, TotalsSame DEF CallInv, Noted
<1>7. ASSUME NEW i \in Processors, HandlerStep(i)
      PROVE  CallInv'
  <2>1. At("issueCard")' = At("issueCard") - Is(i, "issueCard") + Is(i, "issueCard")'
    BY <1>7, OneMoves, AtMoves
  <2>2. At("backoff")' = At("backoff") - Is(i, "backoff") + Is(i, "backoff")'
    BY <1>7, OneMoves, AtMoves
  <2>3. /\ Is(i, "issueCard") \in 0 .. 1 /\ Is(i, "issueCard")' \in 0 .. 1
        /\ Is(i, "backoff") \in 0 .. 1 /\ Is(i, "backoff")' \in 0 .. 1
    BY DEF Is
  <2>4. faults'["crash"] = faults["crash"]
    BY <1>7 DEF HandlerStep, Handle, HandleRejects, PublishRefused, Execute, WasProcessed,
                FindRequest, MarkProcessing, IssueSucceeds, IssueFails, Backoff, MarkIssued,
                PublishIssued, MarkFailed, PublishDlq, MarkProcessed, AwaitRejects,
                ReturnsOrRejects, Spend, TypeInv, TypeOK, FaultKinds
  <2>5. Total(calls)' = Total(calls) + Is(i, "issueCard")
    BY <1>7, HandlerCalls
  <2>6. /\ counted'["requests"] + counted'["retries"] =
               counted["requests"] + counted["retries"] + Is(i, "issueCard")'
        /\ counted'["requests"] - counted'["durations"] =
               counted["requests"] - counted["durations"]
               - Is(i, "issueCard") - Is(i, "backoff")
               + Is(i, "issueCard")' + Is(i, "backoff")'
    BY <1>7, HandlerCountsCalls
  <2>7. QED
    BY <1>2, <1>3, <2>1, <2>2, <2>3, <2>4, <2>5, <2>6 DEF CallInv, Noted
<1>8. ASSUME NEW i \in Processors, Die(i)
      PROVE  CallInv'
  <2>1. At("issueCard")' = At("issueCard") - Is(i, "issueCard") + Is(i, "issueCard")'
    BY <1>8, OneMoves, AtMoves
  <2>2. At("backoff")' = At("backoff") - Is(i, "backoff") + Is(i, "backoff")'
    BY <1>8, OneMoves, AtMoves
  <2>3. /\ Is(i, "issueCard") \in 0 .. 1 /\ Is(i, "backoff") \in 0 .. 1
        /\ Is(i, "issueCard") = 1 => Is(i, "backoff") = 0
        /\ Is(i, "issueCard")' = 0 /\ Is(i, "backoff")' = 0
    BY <1>8, OneMoves DEF Is
  <2>4. Total(calls)' = Total(calls) /\ faults'["crash"] = faults["crash"] + 1
    BY <1>8, DieCounts, TotalsSame
  <2>5. CASE \A c \in Counters : counted'[c] = counted[c]
    <3>1. /\ counted'["requests"] = counted["requests"]
          /\ counted'["retries"] = counted["retries"]
          /\ counted'["durations"] = counted["durations"]
      BY <1>3, <2>5
    <3>2. QED
      BY <1>2, <2>1, <2>2, <2>3, <2>4, <3>1 DEF CallInv, Noted
  <2>6. CASE \A c \in Counters : counted'[c] = counted[c] - (IF c \in Due(i) THEN 1 ELSE 0)
    <3>1. /\ ("requests" \in Due(i) \/ "retries" \in Due(i)) <=> Is(i, "issueCard") = 1
          /\ ~("requests" \in Due(i) /\ "retries" \in Due(i))
          /\ "durations" \in Due(i) => Is(i, "issueCard") = 0 /\ Is(i, "backoff") = 0
      BY DEF Due, Is
    <3>2. \/ /\ Is(i, "issueCard") = 1 /\ counted'["durations"] = counted["durations"]
             /\ \/ /\ counted'["requests"] = counted["requests"] - 1
                   /\ counted'["retries"] = counted["retries"]
                \/ /\ counted'["requests"] = counted["requests"]
                   /\ counted'["retries"] = counted["retries"] - 1
          \/ /\ Is(i, "issueCard") = 0
             /\ counted'["requests"] = counted["requests"]
             /\ counted'["retries"] = counted["retries"]
             /\ \/ counted'["durations"] = counted["durations"]
                \/ /\ Is(i, "backoff") = 0
                   /\ counted'["durations"] = counted["durations"] - 1
      BY <1>2, <1>3, <2>3, <2>6, <3>1
    <3>3. QED
      BY <1>2, <2>1, <2>2, <2>3, <2>4, <3>2 DEF CallInv, Noted
  <2>7. QED
    BY <1>8, <2>5, <2>6, DieCounts
<1>9. QED
  BY <1>5, <1>6, <1>7, <1>8, AppCases

(* In every mode: the two counters of card-processor's calls miss none the  *)
(* issuer got, and exceed them by the calls under way and one for each      *)
(* crash; what is counted as a request is timed once, unless its handler    *)
(* crashed.                                                                 *)
THEOREM CallsCounted == AppSpec => []CallsAreCounted
<1>1. TypeInv /\ CountInv /\ CallInv => CallsAreCounted
  <2> SUFFICES ASSUME TypeInv, CountInv, CallInv
               PROVE  CallsAreCounted
    OBVIOUS
  <2>1. /\ counted["requests"] \in Nat /\ counted["retries"] \in Nat
        /\ counted["durations"] \in Nat /\ faults["crash"] \in Nat
    BY DEF CountInv, Counters, TypeInv, TypeOK, FaultKinds
  <2>2. Total(calls) \in Nat /\ At("issueCard") \in Nat /\ At("backoff") \in Nat
    BY TotalsType, StandingFinite
  <2>3. QED
    BY <2>1, <2>2 DEF CallInv, Noted, CallsAreCounted
<1>2. QED
  BY AppInitTypes, AppNextTypes, AppInitCounts, AppNextCounts, AppInitCalls, AppNextCalls,
     <1>1, PTL DEF AppSpec

-----------------------------------------------------------------------------
(* Dead letters. *)

DlqInv ==
    /\ Total(dlqTopic) + At("publishDlq") <= counted["dlq"]
    /\ counted["dlq"] <= Total(dlqTopic) + At("publishDlq") + Unsure

LEMMA UnsureType ==
  ASSUME TypeInv, CountInv
  PROVE  Unsure \in Nat
  BY DEF Unsure, TypeInv, TypeOK, FaultKinds, CountInv, Counters

(* What a step of a handler adds to the faults that may hide something.     *)
LEMMA HandlerUnsure ==
  ASSUME TypeInv, CountInv, NEW i \in Processors, HandlerStep(i)
  PROVE  \/ pc'[i] = "idle" /\ Unsure' = Unsure + 1
            /\ \A c \in Counters \ {"errors"} : counted'[c] = counted[c]
         \/ Handle(i) /\ faults' = faults /\ ~Throws(i) /\ Unsure' = Unsure
            /\ \A c \in Counters \ {"errors"} :
                   counted'[c] = counted[c] + (IF c \in Due(i)' THEN 1 ELSE 0)
<1>1. faults'["crash"] = faults["crash"]
  BY DEF HandlerStep, Handle, HandleRejects, PublishRefused, Execute, WasProcessed,
         FindRequest, MarkProcessing, IssueSucceeds, IssueFails, Backoff, MarkIssued,
         PublishIssued, MarkFailed, PublishDlq, MarkProcessed, AwaitRejects,
         ReturnsOrRejects, Spend, TypeInv, TypeOK, FaultKinds
<1>2. faults["crash"] \in Nat /\ \A c \in Counters : counted[c] \in Nat
  BY DEF TypeInv, TypeOK, FaultKinds, CountInv
<1>3. "errors" \in Counters
  BY DEF Counters
<1>4. CASE pc'[i] = "idle" /\ Count({"errors"})
  BY <1>1, <1>2, <1>3, <1>4 DEF Count, Unsure
<1>5. CASE Handle(i) /\ faults' = faults /\ ~Throws(i) /\ Count(Due(i)')
  <2>1. "errors" \notin Due(i)'
    BY DEF Due
  <2>2. \A c \in Counters : counted'[c] = counted[c] + (IF c \in Due(i)' THEN 1 ELSE 0)
    BY <1>2, <1>5 DEF Count
  <2>3. Unsure' = Unsure
    BY <1>1, <1>2, <1>3, <2>1, <2>2 DEF Unsure
  <2>4. QED
    BY <1>5, <2>2, <2>3
<1>6. QED
  BY <1>4, <1>5, HandlerCounts

LEMMA DieUnsure ==
  ASSUME TypeInv, CountInv, NEW i \in Processors, Die(i)
  PROVE  Unsure' = Unsure + 1
<1>1. counted'["errors"] = counted["errors"] /\ counted["errors"] \in Nat
  <2>1. "errors" \notin Due(i)
    BY DEF Due
  <2>2. QED
    BY <2>1, DieCounts DEF CountInv, Counters
<1>2. faults["crash"] \in Nat /\ faults'["crash"] = faults["crash"] + 1
  BY DieCounts DEF TypeInv, TypeOK, FaultKinds
<1>3. QED
  BY <1>1, <1>2 DEF Unsure

(* A dead letter is written by publishDlq alone.                            *)
LEMMA HandlerDlq ==
  ASSUME TypeInv, NEW i \in Processors, HandlerStep(i)
  PROVE  /\ Total(dlqTopic)' \in {Total(dlqTopic), Total(dlqTopic) + Is(i, "publishDlq")}
         /\ Handle(i) => Total(dlqTopic)' = Total(dlqTopic) + Is(i, "publishDlq")
<1> DEFINE letters(f) == Cardinality(UNION {{r} \X (1 .. f[r]) : r \in Requests})
<1>1. Total(dlqTopic)' = letters(dlqTopic') /\ Total(dlqTopic) = letters(dlqTopic)
  BY DEF Total
<1>2. Total(dlqTopic) \in Nat
  BY TotalsType
<1>3. CASE dlqTopic' = dlqTopic /\ (Handle(i) => pc[i] # "publishDlq")
  BY <1>1, <1>2, <1>3 DEF Is
<1>4. CASE pc[i] = "publishDlq" /\ Handle(i)
  <2>1. PICK r \in Requests : dlqTopic' = [dlqTopic EXCEPT ![r] = @ + 1]
    <3>1. cur[i] \in Requests
      BY <1>4 DEF TypeInv, TypeOK
    <3>2. dlqTopic' = [dlqTopic EXCEPT ![cur[i]] = @ + 1]
      BY <1>4 DEF Handle, Execute, WasProcessed, FindRequest, MarkProcessing, IssueSucceeds,
                  IssueFails, Backoff, MarkIssued, PublishIssued, MarkFailed, PublishDlq,
                  MarkProcessed
    <3>3. QED
      BY <3>1, <3>2
  <2>2. dlqTopic \in [Requests -> Nat]
    BY DEF TypeInv, TypeOK
  <2>3. Total([dlqTopic EXCEPT ![r] = @ + 1]) = Total(dlqTopic) + 1
    BY <2>2, TotalGrows
  <2>4. letters([dlqTopic EXCEPT ![r] = @ + 1]) = Total(dlqTopic) + 1
    BY <2>3 DEF Total
  <2>5. QED
    BY <1>1, <1>4, <2>1, <2>4 DEF Is
<1>5. CASE pc[i] # "publishDlq" \/ ~Handle(i)
  <2>1. dlqTopic' = dlqTopic
    BY <1>5 DEF HandlerStep, Handle, HandleRejects, PublishRefused, Execute, WasProcessed,
                FindRequest, MarkProcessing, IssueSucceeds, IssueFails, Backoff, MarkIssued,
                PublishIssued, MarkFailed, PublishDlq, MarkProcessed, AwaitRejects, out_vars
  <2>2. QED
    BY <1>3, <1>5, <2>1
<1>6. QED
  BY <1>4, <1>5

LEMMA AppInitDlq == AppInit => DlqInv
<1> SUFFICES ASSUME AppInit
             PROVE  DlqInv
  OBVIOUS
<1>1. At("publishDlq") = 0 /\ Total(dlqTopic) = 0
  BY AppInitTotals DEF Steps, RemoteSteps
<1>2. QED
  BY <1>1 DEF AppInit, Init, DlqInv, Unsure, Counters, FaultKinds

LEMMA AppNextDlq ==
  TypeInv /\ CountInv /\ DlqInv /\ [AppNext]_<<vars, app_vars>> => DlqInv'
<1> SUFFICES ASSUME TypeInv, CountInv, DlqInv, [AppNext]_<<vars, app_vars>>
             PROVE  DlqInv'
  OBVIOUS
<1>1. TypeInv' /\ CountInv'
  BY AppNextTypes, AppNextCounts
<1>2. /\ counted["dlq"] \in Nat /\ counted'["dlq"] \in Nat
      /\ Unsure \in Nat
      /\ Total(dlqTopic) \in Nat /\ At("publishDlq") \in Nat
  BY <1>1, NumbersType, UnsureType DEF Counters
<1>3. CASE UNCHANGED <<pc, calls, dlqTopic, counted>> /\ faults'["crash"] = faults["crash"]
  BY <1>3, TotalsSame, AtSame DEF DlqInv, Unsure
<1>4. CASE QuietStep
  BY <1>3, <1>4, QuietKeepsHands
<1>5. ASSUME NEW i \in Processors, NEW p \in Partitions, Consume(i, p)
      PROVE  DlqInv'
  <2>1. Is(i, "publishDlq") = 0 /\ Is(i, "publishDlq")' = 0
    BY <1>5, ConsumeMoves DEF Is
  <2>2. At("publishDlq")' = At("publishDlq") - Is(i, "publishDlq") + Is(i, "publishDlq")'
    BY <1>5, ConsumeMoves, AtMoves
  <2>3. At("publishDlq")' = At("publishDlq")
    BY <1>2, <2>1, <2>2
  <2>4. QED
    BY <1>5, <2>3, ConsumeMoves, TotalsSame DEF DlqInv, Unsure
<1>6. ASSUME NEW i \in Processors, HandlerStep(i)
      PROVE  DlqInv'
  <2>1. At("publishDlq")' = At("publishDlq") - Is(i, "publishDlq") + Is(i, "publishDlq")'
    BY <1>6, OneMoves, AtMoves
  <2>2. Is(i, "publishDlq") \in 0 .. 1 /\ Is(i, "publishDlq")' \in 0 .. 1
    BY DEF Is
  <2>3. "dlq" \in Counters \ {"errors"}
    BY DEF Counters
  <2>4. Total(dlqTopic)' \in {Total(dlqTopic), Total(dlqTopic) + Is(i, "publishDlq")}
    BY <1>6, HandlerDlq
  <2>5. CASE pc'[i] = "idle" /\ Unsure' = Unsure + 1 /\ counted'["dlq"] = counted["dlq"]
    <3>1. Is(i, "publishDlq")' = 0
      BY <2>5 DEF Is
    <3>2. QED
      BY <1>2, <2>1, <2>2, <2>4, <2>5, <3>1 DEF DlqInv
  <2>6. CASE /\ Handle(i) /\ Unsure' = Unsure
             /\ counted'["dlq"] = counted["dlq"] + (IF "dlq" \in Due(i)' THEN 1 ELSE 0)
    <3>1. counted'["dlq"] = counted["dlq"] + Is(i, "publishDlq")'
      BY <1>2, <2>6 DEF Due, Is
    <3>2. Total(dlqTopic)' = Total(dlqTopic) + Is(i, "publishDlq")
      BY <1>6, <2>6, HandlerDlq
    <3>3. QED
      BY <1>2, <2>1, <2>2, <2>6, <3>1, <3>2 DEF DlqInv
  <2>7. QED
    BY <1>6, <2>3, <2>5, <2>6, HandlerUnsure
<1>7. ASSUME NEW i \in Processors, Die(i)
      PROVE  DlqInv'
  <2>1. At("publishDlq")' = At("publishDlq") - Is(i, "publishDlq") + Is(i, "publishDlq")'
    BY <1>7, OneMoves, AtMoves
  <2>2. Is(i, "publishDlq") \in 0 .. 1 /\ Is(i, "publishDlq")' = 0
    BY <1>7, OneMoves DEF Is
  <2>3. Total(dlqTopic)' = Total(dlqTopic)
    BY <1>7, DieCounts, TotalsSame
  <2>4. "dlq" \in Due(i) <=> Is(i, "publishDlq") = 1
    BY DEF Due, Is
  <2>5. \/ counted'["dlq"] = counted["dlq"]
        \/ counted'["dlq"] = counted["dlq"] - Is(i, "publishDlq")
    BY <1>2, <1>7, <2>2, <2>4, DieCounts DEF Counters
  <2>6. Unsure' = Unsure + 1
    BY <1>7, DieUnsure
  <2>7. QED
    BY <1>2, <2>1, <2>2, <2>3, <2>5, <2>6 DEF DlqInv
<1>8. QED
  BY <1>4, <1>5, <1>6, <1>7, AppCases

(* In every mode card_dlq_total misses no dead letter, and exceeds what is  *)
(* on the topic by the publishes under way and those that failed, were      *)
(* refused or died.                                                         *)
THEOREM DeadLettersCounted == AppSpec => []DeadLettersAreCounted
<1>1. TypeInv /\ CountInv /\ DlqInv => DeadLettersAreCounted
  <2> SUFFICES ASSUME TypeInv, CountInv, DlqInv
               PROVE  DeadLettersAreCounted
    OBVIOUS
  <2>1. /\ counted["dlq"] \in Nat /\ Total(dlqTopic) \in Nat /\ At("publishDlq") \in Nat
        /\ Unsure \in Nat
    BY TotalsType, StandingFinite, UnsureType DEF CountInv, Counters
  <2>2. QED
    BY <2>1 DEF DlqInv, DeadLettersAreCounted
<1>2. QED
  BY AppInitTypes, AppNextTypes, AppInitCounts, AppNextCounts, AppInitDlq, AppNextDlq,
     <1>1, PTL DEF AppSpec

-----------------------------------------------------------------------------
(* With one handler for each request, whatever is refused and whoever stops. *)

LEMMA RefusedKeeps ==
  ASSUME TypeInv, NEW i \in Processors, PublishRefused(i)
  PROVE  /\ UNCHANGED <<status, cards, processed, topic, committed, owner, issuedTopic, dlqTopic,
                        calls, approvals, faults>>
         /\ pc[i] \in {"publishIssued", "publishDlq"} /\ pc'[i] = "idle" /\ EndDelivery(i)
         /\ \A j \in Processors \ {i} :
               pc'[j] = pc[j] /\ cur'[j] = cur[j] /\ attempt'[j] = attempt[j]
  BY DEF PublishRefused, Publishing, EndDelivery, Goto, TypeInv, TypeOK, db_vars, log_vars,
         out_vars, issuer_vars

LEMMA ExitKeeps ==
  ASSUME NEW i \in Processors, Exit(i)
  PROVE  /\ UNCHANGED <<status, cards, processed, topic, committed, position, issuedTopic, dlqTopic,
                        calls, approvals, faults, pc, cur, attempt, counted>>
         /\ pc[i] = "idle"
         /\ owner' = [p \in Partitions |-> IF owner[p] = i THEN NoOwner ELSE owner[p]]
  BY DEF Exit, LeaveGroup, db_vars, out_vars, handler_vars, issuer_vars

LEMMA AppNextOwn ==
  ASSUME SessionExpiry = FALSE
  PROVE  TypeInv /\ OwnInv /\ [AppNext]_<<vars, app_vars>> => OwnInv'
<1> SUFFICES ASSUME TypeInv, OwnInv, [AppNext]_<<vars, app_vars>>
             PROVE  OwnInv'
  OBVIOUS
<1>1. CASE [Next]_vars
  BY <1>1, NextOwn
<1>2. ASSUME NEW i \in Processors, PublishRefused(i)
      PROVE  OwnInv'
  BY <1>2, RefusedKeeps DEF OwnInv, TopicInv, OwnerInv
<1>3. ASSUME NEW i \in Processors, Exit(i)
      PROVE  OwnInv'
  <2>1. ASSUME NEW j \in Processors, pc[j] # "idle"
        PROVE  owner'[PartitionOf[cur[j]]] = j
    <3>1. owner[PartitionOf[cur[j]]] = j /\ j # i
      BY <1>3, <2>1, ExitKeeps DEF OwnInv, OwnerInv
    <3>2. PartitionOf[cur[j]] \in Partitions
      BY <2>1, PartitionsAssumption DEF TypeInv, TypeOK
    <3>3. QED
      BY <1>3, <3>1, <3>2, ExitKeeps
  <2>2. QED
    BY <1>3, <2>1, ExitKeeps DEF OwnInv, TopicInv, OwnerInv
<1>4. QED
  BY <1>1, <1>2, <1>3, StepCases

LEMMA AppNextSafe ==
  TypeInv /\ OwnInv /\ SafeInv /\ [AppNext]_<<vars, app_vars>> => SafeInv'
<1> SUFFICES ASSUME TypeInv, OwnInv, SafeInv, [AppNext]_<<vars, app_vars>>
             PROVE  SafeInv'
  OBVIOUS
<1>1. CASE [Next]_vars
  BY <1>1, NextSafe
<1>2. ASSUME NEW i \in Processors, PublishRefused(i)
      PROVE  SafeInv'
  BY <1>2, RefusedKeeps DEF SafeInv, HandlerKnows, RequestInv, Untouched, OutcomeAgrees
<1>3. ASSUME NEW i \in Processors, Exit(i)
      PROVE  SafeInv'
  BY <1>3, ExitKeeps DEF SafeInv, HandlerKnows, RequestInv, Untouched, OutcomeAgrees
<1>4. QED
  BY <1>1, <1>2, <1>3, StepCases

LEMMA AppSafeAlways ==
  ASSUME SessionExpiry = FALSE
  PROVE  AppSpec => [](TypeInv /\ OwnInv /\ SafeInv /\ CountInv)
<1>1. AppInit => OwnInv /\ SafeInv
  BY InitOwn, InitSafe DEF AppInit
<1>2. QED
  BY <1>1, AppInitTypes, AppNextTypes, AppNextOwn, AppNextSafe, AppInitCounts, AppNextCounts, PTL
     DEF AppSpec

-----------------------------------------------------------------------------
(* Outcomes. *)

FailedRows == {r \in Requests : status[r] = "FAILED"}

OutcomeInv ==
    /\ counted["issued"] <= Cardinality(cards)
    /\ Cardinality(cards) <= counted["issued"] + Unsure
    /\ counted["failed"] <= Cardinality(FailedRows)
    /\ Cardinality(FailedRows) <= counted["failed"] + Unsure

LEMMA TablesFinite ==
  ASSUME TypeInv
  PROVE  /\ IsFiniteSet(cards) /\ Cardinality(cards) \in Nat
         /\ IsFiniteSet(FailedRows) /\ Cardinality(FailedRows) \in Nat
<1>1. cards \subseteq Requests /\ FailedRows \subseteq Requests
  BY DEF TypeInv, TypeOK, FailedRows
<1>2. IsFiniteSet(cards) /\ IsFiniteSet(FailedRows)
  BY <1>1, FiniteAssumption, FS_Subset
<1>3. QED
  BY <1>2, FS_CardinalityType

(* A handler that throws nothing creates a card on its way to publishIssued *)
(* and a FAILED row on its way to publishDlq, and only there.               *)
LEMMA HandlerOutcomes ==
  ASSUME TypeInv, SafeInv, NEW i \in Processors, Handle(i), ~Throws(i)
  PROVE  /\ \/ pc'[i] # "publishIssued" /\ cards' = cards
            \/ pc'[i] = "publishIssued" /\ cur[i] \notin cards /\ cards' = cards \cup {cur[i]}
         /\ \/ pc'[i] # "publishDlq" /\ FailedRows' = FailedRows
            \/ pc'[i] = "publishDlq" /\ cur[i] \notin FailedRows
               /\ FailedRows' = FailedRows \cup {cur[i]}
<1>1. cur[i] \in Requests /\ pc[i] # "idle" /\ Execute(i)
  BY OnlyTheBusyStep DEF HandlerStep, Handle, TypeInv, TypeOK
<1>2. HandlerKnows(i)
  BY DEF SafeInv
<1>3. ~(pc[i] = "markIssued" /\ cur[i] \in cards)
  BY DEF Throws
<1>4. /\ pc[i] = "markIssued" <=> pc'[i] = "publishIssued"
      /\ pc[i] = "markFailed" <=> pc'[i] = "publishDlq"
  BY HandlerPath
<1>5. CASE MarkProcessing(i)
  <2>1. pc[i] = "markProcessing" /\ cards' = cards
    BY <1>5 DEF MarkProcessing
  <2>2. FailedRows' = FailedRows
    BY <1>1, <1>2, <1>5 DEF MarkProcessing, HandlerKnows, FailedRows, TypeInv, TypeOK
  <2>3. QED
    BY <1>4, <2>1, <2>2
<1>6. CASE MarkIssued(i)
  <2>1. pc[i] = "markIssued" /\ cur[i] \notin cards /\ cards' = cards \cup {cur[i]}
    BY <1>3, <1>6 DEF MarkIssued
  <2>2. FailedRows' = FailedRows
    BY <1>1, <1>2, <1>3, <1>6 DEF MarkIssued, HandlerKnows, FailedRows, TypeInv, TypeOK
  <2>3. QED
    BY <1>4, <2>1, <2>2
<1>7. CASE MarkFailed(i)
  <2>1. pc[i] = "markFailed" /\ cards' = cards
    BY <1>7 DEF MarkFailed
  <2>2. cur[i] \notin FailedRows /\ FailedRows' = FailedRows \cup {cur[i]}
    BY <1>1, <1>2, <1>7 DEF MarkFailed, HandlerKnows, FailedRows, TypeInv, TypeOK
  <2>3. QED
    BY <1>4, <2>1, <2>2
<1>8. CASE pc[i] \notin {"markProcessing", "markIssued", "markFailed"}
  <2>1. cards' = cards /\ status' = status
    BY <1>1, <1>8 DEF Execute, WasProcessed, FindRequest, MarkProcessing, IssueSucceeds,
       IssueFails, Backoff, MarkIssued, PublishIssued, MarkFailed, PublishDlq, MarkProcessed, db_vars
  <2>2. QED
    BY <1>4, <1>8, <2>1 DEF FailedRows
<1>9. QED
  BY <1>1, <1>5, <1>6, <1>7, <1>8
     DEF Execute, WasProcessed, FindRequest, IssueSucceeds, IssueFails, Backoff, PublishIssued,
         PublishDlq, MarkProcessed

(* A step that throws may have added either all the same, and drops none.   *)
LEMMA HandlerKeepsOutcomes ==
  ASSUME TypeInv, SafeInv, NEW i \in Processors, HandlerStep(i)
  PROVE  /\ cards' = cards \/ (cur[i] \notin cards /\ cards' = cards \cup {cur[i]})
         /\ \/ FailedRows' = FailedRows
            \/ cur[i] \notin FailedRows /\ FailedRows' = FailedRows \cup {cur[i]}
<1>1. CASE PublishRefused(i)
  BY <1>1, RefusedKeeps DEF FailedRows
<1>2. CASE Execute(i) \/ AwaitRejects(i)
  <2>1. cur[i] \in Requests /\ HandlerKnows(i)
    BY <1>2, StepKeepsHands DEF SafeInv, TypeInv, TypeOK
  <2>2. CASE MarkProcessing(i)
    BY <2>1, <2>2 DEF MarkProcessing, HandlerKnows, FailedRows, TypeInv, TypeOK
  <2>3. CASE MarkIssued(i)
    BY <2>1, <2>3 DEF MarkIssued, HandlerKnows, FailedRows, TypeInv, TypeOK
  <2>4. CASE MarkFailed(i)
    BY <2>1, <2>4 DEF MarkFailed, HandlerKnows, FailedRows, TypeInv, TypeOK
  <2>5. CASE cards' = cards /\ status' = status
    BY <2>5 DEF FailedRows
  <2>6. QED
    BY <1>2, <2>2, <2>3, <2>4, <2>5
       DEF Execute, WasProcessed, FindRequest, IssueSucceeds, IssueFails, Backoff,
           PublishIssued, PublishDlq, MarkProcessed, AwaitRejects, db_vars
<1>3. QED
  BY <1>1, <1>2 DEF HandlerStep, Handle, HandleRejects

LEMMA QuietKeepsOutcomes ==
  ASSUME TypeInv, QuietStep
  PROVE  FailedRows' = FailedRows
<1>1. ASSUME NEW r \in Requests, Accept(r)
      PROVE  FailedRows' = FailedRows
  BY <1>1 DEF Accept, FailedRows, TypeInv, TypeOK, NoRow
<1>2. CASE status' = status
  BY <1>2 DEF FailedRows
<1>3. QED
  BY <1>1, <1>2
     DEF QuietStep, Environment, Produce, Join, CommitOffset, Assign, Commit, Connected, Stop,
         Exit, vars, db_vars

LEMMA AppInitOutcomes == AppInit => OutcomeInv
<1> SUFFICES ASSUME AppInit
             PROVE  OutcomeInv
  OBVIOUS
<1>1. cards = {} /\ FailedRows = {}
  BY DEF AppInit, Init, FailedRows, NoRow
<1>2. Cardinality(cards) = 0 /\ Cardinality(FailedRows) = 0
  BY <1>1, FS_EmptySet
<1>3. QED
  BY <1>2 DEF AppInit, Init, OutcomeInv, Unsure, Counters, FaultKinds

LEMMA AppNextOutcomes ==
  TypeInv /\ SafeInv /\ CountInv /\ OutcomeInv /\ [AppNext]_<<vars, app_vars>> => OutcomeInv'
<1> SUFFICES ASSUME TypeInv, SafeInv, CountInv, OutcomeInv, [AppNext]_<<vars, app_vars>>
             PROVE  OutcomeInv'
  OBVIOUS
<1>1. TypeInv' /\ CountInv'
  BY AppNextTypes, AppNextCounts
<1>2. /\ counted["issued"] \in Nat /\ counted'["issued"] \in Nat
      /\ counted["failed"] \in Nat /\ counted'["failed"] \in Nat
      /\ Unsure \in Nat
      /\ Cardinality(cards) \in Nat /\ Cardinality(FailedRows) \in Nat
      /\ {"issued", "failed"} \subseteq Counters \ {"errors"}
  BY <1>1, NumbersType, UnsureType, TablesFinite DEF Counters
<1>3. CASE /\ cards' = cards /\ FailedRows' = FailedRows
           /\ counted' = counted /\ faults'["crash"] = faults["crash"]
  BY <1>3 DEF OutcomeInv, Unsure
<1>4. CASE QuietStep
  BY <1>3, <1>4, QuietKeepsHands, QuietKeepsOutcomes
<1>5. ASSUME NEW i \in Processors, NEW p \in Partitions, Consume(i, p)
      PROVE  OutcomeInv'
  BY <1>3, <1>5, ConsumeMoves DEF FailedRows
<1>6. ASSUME NEW i \in Processors, HandlerStep(i)
      PROVE  OutcomeInv'
  <2>1. \A x : x \notin cards => Cardinality(cards \cup {x}) = Cardinality(cards) + 1
    BY TablesFinite, FS_AddElement
  <2>2. \A x : x \notin FailedRows => Cardinality(FailedRows \cup {x}) = Cardinality(FailedRows) + 1
    BY TablesFinite, FS_AddElement
  <2>3. CASE /\ Unsure' = Unsure + 1
             /\ \A c \in Counters \ {"errors"} : counted'[c] = counted[c]
    <3>1. Cardinality(cards') \in {Cardinality(cards), Cardinality(cards) + 1}
      BY <1>6, <2>1, HandlerKeepsOutcomes
    <3>2. Cardinality(FailedRows') \in {Cardinality(FailedRows), Cardinality(FailedRows) + 1}
      BY <1>6, <2>2, HandlerKeepsOutcomes
    <3>3. counted'["issued"] = counted["issued"] /\ counted'["failed"] = counted["failed"]
      BY <1>2, <2>3
    <3>4. QED
      BY <1>2, <2>3, <3>1, <3>2, <3>3 DEF OutcomeInv
  <2>4. CASE /\ Handle(i) /\ ~Throws(i) /\ Unsure' = Unsure
             /\ \A c \in Counters \ {"errors"} :
                    counted'[c] = counted[c] + (IF c \in Due(i)' THEN 1 ELSE 0)
    <3>1. /\ counted'["issued"] = counted["issued"] + Is(i, "publishIssued")'
          /\ counted'["failed"] = counted["failed"] + Is(i, "publishDlq")'
      BY <1>2, <2>4 DEF Due, Is
    <3>2. Cardinality(cards') = Cardinality(cards) + Is(i, "publishIssued")'
      BY <1>2, <2>1, <2>4, HandlerOutcomes DEF Is
    <3>3. Cardinality(FailedRows') = Cardinality(FailedRows) + Is(i, "publishDlq")'
      BY <1>2, <2>2, <2>4, HandlerOutcomes DEF Is
    <3>4. Is(i, "publishIssued")' \in 0 .. 1 /\ Is(i, "publishDlq")' \in 0 .. 1
      BY DEF Is
    <3>5. QED
      BY <1>2, <2>4, <3>1, <3>2, <3>3, <3>4 DEF OutcomeInv
  <2>5. QED
    BY <1>6, <2>3, <2>4, HandlerUnsure
<1>7. ASSUME NEW i \in Processors, Die(i)
      PROVE  OutcomeInv'
  <2>1. cards' = cards /\ FailedRows' = FailedRows
    BY <1>7, DieCounts DEF FailedRows
  <2>2. /\ counted'["issued"] \in {counted["issued"], counted["issued"] - 1}
        /\ counted'["failed"] \in {counted["failed"], counted["failed"] - 1}
    BY <1>2, <1>7, DieCounts
  <2>3. Unsure' = Unsure + 1
    BY <1>7, DieUnsure
  <2>4. QED
    BY <1>2, <2>1, <2>2, <2>3 DEF OutcomeInv
<1>8. QED
  BY <1>4, <1>5, <1>6, <1>7, AppCases

(* Without overlapping handlers card_issued_total and card_failed_total     *)
(* never run ahead of the tables and lag behind them by what was counted as *)
(* an error or crashed: however events are redelivered and processes stop,  *)
(* no outcome is counted twice.                                             *)
THEOREM OutcomesCounted ==
  ASSUME SessionExpiry = FALSE
  PROVE  AppSpec => []OutcomesAreCounted
<1>1. OutcomeInv => OutcomesAreCounted
  BY DEF OutcomeInv, OutcomesAreCounted, FailedRows
<1>2. QED
  BY <1>1, AppSafeAlways, AppInitOutcomes, AppNextOutcomes, PTL DEF AppSpec

-----------------------------------------------------------------------------
(* Losses. *)

LEMMA AppNextForward ==
  TypeInv /\ ForwardInv /\ [AppNext]_<<vars, app_vars>> => ForwardInv'
<1> SUFFICES ASSUME TypeInv, ForwardInv, [AppNext]_<<vars, app_vars>>
             PROVE  ForwardInv'
  OBVIOUS
<1>1. CASE [Next]_vars
  BY <1>1, NextForward
<1>2. ASSUME NEW i \in Processors, PublishRefused(i)
      PROVE  ForwardInv'
  BY <1>2, RefusedKeeps DEF ForwardInv, KnownInv, Known, Witnessed
<1>3. ASSUME NEW i \in Processors, Exit(i)
      PROVE  ForwardInv'
  BY <1>3, ExitKeeps DEF ForwardInv, KnownInv, Known, Witnessed
<1>4. QED
  BY <1>1, <1>2, <1>3, StepCases

(* A refused publish moves the consumer on past the message it had in hand. *)
LEMMA RefusedMovesOn ==
  ASSUME NEW i \in Processors, PublishRefused(i)
  PROVE  \/ position' = position
         \/ position' = [position EXCEPT ![PartitionOf[cur[i]]] = @ + 1]
  BY DEF PublishRefused, EndDelivery

LEMMA AppNextOffsets ==
  ASSUME SessionExpiry = FALSE
  PROVE  TypeInv /\ OwnInv /\ OffsetInv /\ [AppNext]_<<vars, app_vars>> => OffsetInv'
<1> SUFFICES ASSUME TypeInv, OwnInv, OffsetInv, [AppNext]_<<vars, app_vars>>
             PROVE  OffsetInv'
  OBVIOUS
<1>1. CASE [Next]_vars
  BY <1>1, NextOffsets
<1>2. ASSUME NEW i \in Processors, PublishRefused(i)
      PROVE  OffsetInv'
  BY <1>2, RefusedKeeps, RefusedMovesOn, EndKeepsOffsets
<1>3. ASSUME NEW i \in Processors, Exit(i)
      PROVE  OffsetInv'
  BY <1>3, ExitKeeps DEF OffsetInv
<1>4. QED
  BY <1>1, <1>2, <1>3, StepCases

AppLossInv == Cardinality(Losses) <= Unsure

LEMMA AppLossesPaid ==
  ASSUME AppLossInv, Unsure \in Nat,
         \/ Losses' \subseteq Losses /\ Unsure' = Unsure
         \/ (\E x : Losses' \subseteq Losses \cup {x}) /\ Unsure' = Unsure + 1
  PROVE  AppLossInv'
<1>1. IsFiniteSet(Losses') /\ Cardinality(Losses') \in Nat
  <2>1. Losses' \subseteq Requests
    BY DEF Losses
  <2>2. QED
    BY <2>1, FS_Subset, FS_CardinalityType, FiniteAssumption
<1>2. CASE Losses' \subseteq Losses /\ Unsure' = Unsure
  <2>1. Cardinality(Losses') <= Cardinality(Losses)
    BY <1>2, LossesFinite, FS_Subset
  <2>2. QED
    BY <1>1, <1>2, <2>1, LossesFinite DEF AppLossInv
<1>3. CASE (\E x : Losses' \subseteq Losses \cup {x}) /\ Unsure' = Unsure + 1
  <2>1. PICK x : Losses' \subseteq Losses \cup {x}
    BY <1>3
  <2>2. Cardinality(Losses') <= Cardinality(Losses) + 1
    BY <2>1, LossesFinite, OneMoreAtMost
  <2>3. QED
    BY <1>1, <1>3, <2>2, LossesFinite DEF AppLossInv
<1>4. QED
  BY <1>2, <1>3

LEMMA RefusedLosesOne ==
  ASSUME TypeInv, OffsetInv, NEW i \in Processors, PublishRefused(i)
  PROVE  Losses' \subseteq Losses \cup {cur[i]}
<1>1. ASSUME NEW r \in Requests \ {cur[i]}, Abandoned(r)'
      PROVE  Abandoned(r)
  <2>1. /\ pc[i] # "idle" /\ topic' = topic
        /\ \A j \in Processors \ {i} : pc'[j] = pc[j] /\ cur'[j] = cur[j]
        /\ status'[r] = status[r] /\ issuedTopic'[r] = issuedTopic[r] /\ dlqTopic'[r] = dlqTopic[r]
    BY RefusedKeeps
  <2>2. QED
    BY <1>1, <2>1, RefusedMovesOn, OthersKept
<1>2. QED
  BY <1>1 DEF Losses

LEMMA ExitLosesNone ==
  ASSUME NEW i \in Processors, Exit(i)
  PROVE  Losses' \subseteq Losses
<1>1. UNCHANGED <<status, topic, position, issuedTopic, dlqTopic, pc, cur>>
  BY ExitKeeps
<1>2. \A r \in Requests : Passed(r)' => Passed(r)
  BY <1>1 DEF Passed
<1>3. QED
  BY <1>1, <1>2, KeptIfLeftAlone DEF Losses

LEMMA QuietPaysNothing ==
  ASSUME TypeInv, QuietStep
  PROVE  /\ Paid' = Paid /\ Unsure' = Unsure
         /\ [Next]_vars \/ \E i \in Processors : Exit(i)
<1>1. faults'["error"] = faults["error"]
  BY DEF QuietStep, Environment, Accept, Produce, Join, CommitOffset, Assign, Commit,
         Connected, Stop, Exit, Spend, vars, TypeInv, TypeOK, FaultKinds
<1>2. counted' = counted /\ faults'["crash"] = faults["crash"]
  BY QuietKeepsHands
<1>3. [Next]_vars \/ \E i \in Processors : Exit(i)
  BY DEF QuietStep, Join, CommitOffset, Connected, Stop, Next, Group
<1>4. QED
  BY <1>1, <1>2, <1>3 DEF Paid, Unsure

LEMMA AppInitLosses == AppInit => AppLossInv
<1> SUFFICES ASSUME AppInit
             PROVE  AppLossInv
  OBVIOUS
<1>1. Losses = {}
  BY DEF AppInit, Init, Losses, Abandoned, NoRow
<1>2. Cardinality(Losses) = 0 /\ Unsure = 0
  BY <1>1, FS_EmptySet DEF AppInit, Init, Unsure, Counters, FaultKinds
<1>3. QED
  BY <1>2 DEF AppLossInv

LEMMA AppNextLosses ==
  TypeInv /\ OwnInv /\ SafeInv /\ ForwardInv /\ OffsetInv /\ CountInv /\ AppLossInv
    /\ [AppNext]_<<vars, app_vars>> => AppLossInv'
<1> SUFFICES ASSUME TypeInv, OwnInv, SafeInv, ForwardInv, OffsetInv, CountInv, AppLossInv,
                    [AppNext]_<<vars, app_vars>>
             PROVE  AppLossInv'
  OBVIOUS
<1>1. Unsure \in Nat /\ Paid \in Nat
  BY UnsureType DEF Paid, TypeInv, TypeOK, FaultKinds
<1>2. ASSUME [Next]_vars
      PROVE  /\ \E x : Losses' \subseteq Losses \cup {x}
             /\ Paid' = Paid => Losses' \subseteq Losses
  BY <1>1, <1>2, NextPays DEF Pays
<1>3. CASE QuietStep
  <2>1. Losses' \subseteq Losses
    BY <1>2, <1>3, QuietPaysNothing, ExitLosesNone
  <2>2. QED
    BY <1>1, <1>3, <2>1, QuietPaysNothing, AppLossesPaid
<1>4. ASSUME NEW i \in Processors, NEW p \in Partitions, Consume(i, p)
      PROVE  AppLossInv'
  <2>1. [Next]_vars
    BY <1>4 DEF Consume, Next, Group
  <2>2. Paid' = Paid /\ Unsure' = Unsure
    BY <1>4, ConsumeMoves DEF Paid, Unsure
  <2>3. QED
    BY <1>1, <1>2, <2>1, <2>2, AppLossesPaid
<1>5. ASSUME NEW i \in Processors, Handle(i) \/ HandleRejects(i)
      PROVE  AppLossInv'
  <2>1. [Next]_vars /\ HandlerStep(i)
    BY <1>5 DEF Handle, HandleRejects, Next, HandlerStep
  <2>2. CASE Unsure' = Unsure + 1
    BY <1>1, <1>2, <2>1, <2>2, AppLossesPaid
  <2>3. CASE Unsure' = Unsure /\ faults' = faults
    <3>1. Paid' = Paid
      BY <2>3 DEF Paid
    <3>2. QED
      BY <1>1, <1>2, <2>1, <2>3, <3>1, AppLossesPaid
  <2>4. QED
    BY <2>1, <2>2, <2>3, HandlerUnsure
<1>6. ASSUME NEW i \in Processors, PublishRefused(i)
      PROVE  AppLossInv'
  <2>1. ~Handle(i)
    BY <1>6 DEF PublishRefused, Handle
  <2>2. Unsure' = Unsure + 1
    BY <1>6, <2>1, HandlerUnsure DEF HandlerStep
  <2>3. QED
    BY <1>1, <1>6, <2>2, RefusedLosesOne, AppLossesPaid
<1>7. ASSUME NEW i \in Processors, Die(i)
      PROVE  AppLossInv'
  <2>1. [Next]_vars
    BY <1>7 DEF Die, Next
  <2>2. QED
    BY <1>1, <1>2, <1>7, <2>1, DieUnsure, AppLossesPaid
<1>8. QED
  BY <1>3, <1>4, <1>5, <1>6, <1>7, AppCases DEF HandlerStep

LEMMA AppOffsetsAlways ==
  ASSUME SessionExpiry = FALSE, FreshGroup = FALSE
  PROVE  AppSpec => [](TypeInv /\ OwnInv /\ SafeInv /\ ForwardInv /\ OffsetInv /\ CountInv)
<1>1. AppInit => ForwardInv /\ OffsetInv
  BY InitForward, InitOffsets DEF AppInit
<1>2. QED
  BY <1>1, AppSafeAlways, AppNextForward, AppNextOffsets, PTL DEF AppSpec

(* Unless a partition is handed over during its handler, or the group       *)
(* starts without offsets, no request is left unfinished unseen: each one   *)
(* shows in kafka_consumer_errors_total, be it for a rejected await or for  *)
(* a stop in the middle of its handler, or is the one its crash cost.       *)
THEOREM LossesCounted ==
  ASSUME SessionExpiry = FALSE, FreshGroup = FALSE
  PROVE  AppSpec => []LossesAreCounted
<1>1. TypeInv /\ CountInv /\ AppLossInv => LossesAreCounted
  <2> SUFFICES ASSUME TypeInv, CountInv, AppLossInv
               PROVE  LossesAreCounted
    OBVIOUS
  <2> DEFINE Ends == {r \in Requests : Stranded(r)}
  <2>1. Ends \subseteq Losses
    BY DEF Losses, Stranded, Abandoned, WorkedOn, Engaged
  <2>2. Cardinality(Ends) <= Cardinality(Losses) /\ Cardinality(Ends) \in Nat
    BY <2>1, LossesFinite, FS_Subset, FS_CardinalityType
  <2>3. Cardinality(Ends) <= Unsure
    BY <2>2, LossesFinite, UnsureType DEF AppLossInv
  <2>4. QED
    BY <2>3 DEF LossesAreCounted
<1>2. QED
  BY <1>1, AppOffsetsAlways, AppInitLosses, AppNextLosses, PTL DEF AppSpec
=============================================================================
