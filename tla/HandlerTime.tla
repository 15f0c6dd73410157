---------------------------- MODULE HandlerTime ----------------------------
(***************************************************************************)
(* CardProcessor with time: how long a handler keeps its consumer from     *)
(* sending heartbeats, and what the group does about it.                   *)
(*                                                                         *)
(* kafkajs sends heartbeats between messages and between fetches, never    *)
(* during eachMessage.  RetryPolicy waits inside it.  When a consumer has  *)
(* been silent for its session timeout, its partitions go to another while *)
(* its handler still runs.  So whether CardProcessor may be read with      *)
(* SessionExpiry FALSE is a matter of time, and this module decides it.    *)
(*                                                                         *)
(* A processor's clock advances with its own steps, by a duration chosen   *)
(* from the times a step may take.                                         *)
(***************************************************************************)
EXTENDS CardProcessor

CONSTANTS
    RetryDelay,         \* RETRY_DELAYS_MS, counted from 1
    RemoteTimes,        \* times an await on PostgreSQL or Kafka may take
    RejectTimes,        \* the same when it rejects, after the client's retries
    CallTimes,          \* times a call of the external issuer may take
    FetchTimes,         \* times a fetch may take before it has messages
    MaxRemote, MaxReject, MaxCall, MaxFetch,   \* the longest of each
    HeartbeatInterval,  \* kafkajs
    SessionTimeout,     \* kafkajs
    Spent               \* longest time from the first call to the n-th

ASSUME TimesAssumption ==
    /\ RetryDelay \in [1 .. MAX_RETRIES -> Nat]
    /\ RemoteTimes \subseteq 0 .. MaxRemote
    /\ RejectTimes \subseteq 0 .. MaxReject
    /\ CallTimes \subseteq 0 .. MaxCall
    /\ FetchTimes \subseteq 0 .. MaxFetch
    /\ MaxRemote \in Nat /\ MaxReject \in Nat /\ MaxCall \in Nat /\ MaxFetch \in Nat
    /\ MaxRemote <= MaxReject
    /\ HeartbeatInterval \in Nat \ {0}
    /\ SessionTimeout \in Nat

ASSUME SpentAssumption ==
    /\ Spent \in [1 .. MAX_RETRIES + 1 -> Nat]
    /\ Spent[1] = 0
    /\ \A n \in 1 .. MAX_RETRIES : Spent[n + 1] = Spent[n] + MaxCall + RetryDelay[n]
    /\ \A n \in 1 .. MAX_RETRIES : Spent[n] <= Spent[MAX_RETRIES + 1]

(* The handler that waits longest, after the longest silence before it,     *)
(* ends within the session: five awaits, all the calls, all the delays, and *)
(* a last await that rejects, which ends any handler.                       *)
ASSUME FitsAssumption ==
    HeartbeatInterval + MaxFetch + 5 * MaxRemote + Spent[MAX_RETRIES + 1] + MaxCall + MaxReject
        <= SessionTimeout

ASSUME ExpiryAssumption == SessionExpiry = TRUE

VARIABLES age   \* time since a consumer's last heartbeat

-----------------------------------------------------------------------------

(* Mutated form of SleepTime: the delay grows with the attempt.  *)
SleepTimeGrowing(i) ==
    IF attempt[i] \in DOMAIN RetryDelay THEN attempt[i] * RetryDelay[attempt[i]] ELSE 0

(* Past the end of RETRY_DELAYS_MS setTimeout gets undefined, and waits for *)
(* nothing.                                                                 *)
SleepTime(i) == IF attempt[i] \in DOMAIN RetryDelay THEN RetryDelay[attempt[i]] ELSE 0

(* How long the await a handler stands at takes in this step. *)
Times(i) ==
    CASE pc[i] = "issueCard" -> CallTimes
      [] pc[i] = "backoff" -> {SleepTime(i)}
      [] OTHER -> IF faults' = faults THEN RemoteTimes ELSE RejectTimes

Longest(i) ==
    CASE pc[i] = "issueCard" -> MaxCall
      [] pc[i] = "backoff" -> SleepTime(i)
      [] OTHER -> MaxReject

(* The consumer may be taken for dead before the await is over. *)
Expires(i) == age[i] + Longest(i) >= SessionTimeout

(* A heartbeat is sent if it is due. *)
Beat(a) == IF a >= HeartbeatInterval THEN 0 ELSE a

Elapse(i, d) ==
    age' = [age EXCEPT ![i] = IF pc'[i] = "idle" THEN Beat(@ + d) ELSE @ + d]

-----------------------------------------------------------------------------

TimedInit == Init /\ age = [i \in Processors |-> 0]

TimedStep(i) ==
    /\ Execute(i) \/ AwaitRejects(i)
    /\ \E d \in Times(i) : Elapse(i, d)

TimedDeliver(i, p) ==
    /\ Deliver(i, p)
    /\ \E d \in FetchTimes : Elapse(i, d)

(* A fetch that brings nothing. *)
FetchNothing(i) ==
    /\ pc[i] = "idle"
    /\ UNCHANGED vars
    /\ \E d \in FetchTimes : Elapse(i, d)

(* A partition is taken from under a handler only when the session of its   *)
(* consumer expires.                                                        *)
TimedAssign(i, p) ==
    /\ Assign(i, p)
    /\ \A j \in Processors : pc[j] # "idle" /\ PartitionOf[cur[j]] = p => Expires(j)
    /\ UNCHANGED age

TimedCrash(i) ==
    /\ Crash(i)
    /\ age' = [age EXCEPT ![i] = 0]

TimedNext ==
    \/ \E r \in Requests : Environment(r) /\ UNCHANGED age
    \/ \E i \in Processors, p \in Partitions :
           \/ TimedAssign(i, p)
           \/ TimedDeliver(i, p)
           \/ Commit(i, p) /\ UNCHANGED age
    \/ \E i \in Processors : TimedStep(i) \/ FetchNothing(i) \/ TimedCrash(i)

TimedSpec == TimedInit /\ [][TimedNext]_<<vars, age>>

-----------------------------------------------------------------------------
(* Properties *)

(* No consumer falls silent for as long as its session lasts, however often *)
(* its handler retries: whatever await it stands at is over before.         *)
SessionHeld ==
    /\ age \in [Processors -> Nat]
    /\ \A i \in Processors : pc[i] # "idle" => ~Expires(i)

(* So no partition moves under a running handler, and the processors are    *)
(* those of CardProcessor without session expiry, of which it is proved     *)
(* that outcomes agree and cards are granted once.                          *)
Undisturbed == INSTANCE CardProcessor WITH SessionExpiry <- FALSE

UndisturbedSpec == Undisturbed!Spec

-----------------------------------------------------------------------------
(* Why they hold: how old a consumer's last heartbeat can be at each await. *)

Before == HeartbeatInterval + MaxFetch

AgeBound(i) ==
    /\ pc[i] = "idle" => age[i] < HeartbeatInterval
    /\ pc[i] = "wasProcessed" => age[i] < Before
    /\ pc[i] = "findRequest" => age[i] < Before + MaxRemote
    /\ pc[i] = "markProcessing" => age[i] < Before + 2 * MaxRemote
    /\ pc[i] = "issueCard" => age[i] < Before + 3 * MaxRemote + Spent[attempt[i]]
    /\ pc[i] = "backoff" => age[i] < Before + 3 * MaxRemote + Spent[attempt[i]] + MaxCall
    /\ pc[i] \in {"markIssued", "markFailed"} =>
           age[i] < Before + 3 * MaxRemote + Spent[MAX_RETRIES + 1] + MaxCall
    /\ pc[i] \in {"publishIssued", "publishDlq"} =>
           age[i] < Before + 4 * MaxRemote + Spent[MAX_RETRIES + 1] + MaxCall
    /\ pc[i] = "markProcessed" =>
           age[i] < Before + 5 * MaxRemote + Spent[MAX_RETRIES + 1] + MaxCall

AgeInv ==
    /\ age \in [Processors -> Nat]
    /\ \A i \in Processors : AgeBound(i)
=============================================================================
