----------------------- MODULE CardStatusQueryProofs ------------------------
(***************************************************************************)
(* Theorems about CardStatusQuery: what a client may conclude from the     *)
(* answers it gets, although two reads in no transaction make one.         *)
(***************************************************************************)
EXTENDS CardStatusQuery, CardProcessorProofs

USE DEF NoRow

query_steps == {"idle", "findRequest", "findCard"}

(* A status seen is behind the present one: a request moves forward only,   *)
(* and a terminal status is its last.                                       *)
Behind(seen, now) == Rank(seen) <= Rank(now) /\ (seen \in Terminal => now = seen)

LEMMA BehindIsTransitive ==
  ASSUME NEW a \in CardRequestRow, NEW b \in CardRequestRow, NEW c \in CardRequestRow
  PROVE  /\ Behind(a, a)
         /\ Behind(a, b) /\ Behind(b, c) => Behind(a, c)
  BY DEF Behind, Rank, CardRequestRow, CardRequestStatus, Terminal

-----------------------------------------------------------------------------
(* The processors' side. *)

StatusForward ==
    \A r \in Requests :
        /\ Behind(status[r], status'[r])
        /\ r \in cards => r \in cards'

LEMMA NextMovesForward == TypeInv /\ SafeInv /\ [Next]_vars => StatusForward
<1> SUFFICES ASSUME TypeInv, SafeInv, [Next]_vars
             PROVE  StatusForward
  OBVIOUS
<1>1. status \in [Requests -> CardRequestRow]
  BY DEF TypeInv, TypeOK
<1>2. \A s \in CardRequestRow : Behind(s, s)
  BY BehindIsTransitive
<1>3. CASE UNCHANGED Lifecycle!vars
  BY <1>1, <1>2, <1>3 DEF StatusForward, Lifecycle!vars
<1>4. CASE Lifecycle!Next
  <2>1. PICK own \in Requests :
            \/ Lifecycle!Accepted(own) \/ Lifecycle!Started(own) \/ Lifecycle!Granted(own)
            \/ Lifecycle!Refused(own) \/ Lifecycle!Issued(own) \/ Lifecycle!GivenUp(own)
            \/ Lifecycle!Announced(own) \/ Lifecycle!DeadLettered(own)
    BY <1>4 DEF Lifecycle!Next
  <2>2. /\ \A r \in Requests \ {own} : status'[r] = status[r]
        /\ \/ status'[own] = status[own]
           \/ status[own] = "NONE" /\ status'[own] = "PENDING"
           \/ status[own] = "PENDING" /\ status'[own] = "PROCESSING"
           \/ status[own] = "PROCESSING" /\ status'[own] \in {"ISSUED", "FAILED"}
        /\ cards \subseteq cards'
    BY <1>1, <2>1
       DEF Lifecycle!Accepted, Lifecycle!Started, Lifecycle!Granted, Lifecycle!Refused,
           Lifecycle!Asked, Lifecycle!Issued, Lifecycle!GivenUp, Lifecycle!Announced,
           Lifecycle!DeadLettered, Lifecycle!Moves, Lifecycle!NoRow
  <2>3. Behind(status[own], status'[own])
    BY <1>1, <1>2, <2>2 DEF Behind, Rank, Terminal
  <2>4. QED
    BY <1>1, <1>2, <2>2, <2>3 DEF StatusForward
<1>5. QED
  BY <1>3, <1>4, NextLifecycle

-----------------------------------------------------------------------------
(* The clients' side. *)

Answers == [status : CardRequestRow, card : BOOLEAN]

QueryTypes ==
    /\ query \in [Clients -> query_steps]
    /\ asked \in [Clients -> Requests \cup {NoRequest}]
    /\ found \in [Clients -> CardRequestRow]
    /\ answered \in [Clients -> [Requests -> Answers]]
    /\ \A c \in Clients : query[c] # "idle" => asked[c] \in Requests

(* What a client was told is behind what is, and told the whole outcome.    *)
Told(c, r) ==
    /\ Behind(answered[c][r].status, status[r])
    /\ answered[c][r].card => r \in cards
    /\ answered[c][r].status = "ISSUED" => answered[c][r].card
    /\ answered[c][r].status = "FAILED" => ~answered[c][r].card

(* What the first read found lies between the client's last answer and what *)
(* is.                                                                      *)
Found(c) ==
    query[c] = "findCard" =>
        /\ Behind(found[c], status[asked[c]])
        /\ Behind(answered[c][asked[c]].status, found[c])

QueryInv ==
    /\ QueryTypes
    /\ \A c \in Clients : Found(c)
    /\ \A c \in Clients, r \in Requests : Told(c, r)

LEMMA InitQuery == QueryInit => QueryInv
<1> SUFFICES ASSUME QueryInit
             PROVE  QueryInv
  OBVIOUS
<1>1. QueryTypes
  BY DEF QueryInit, QueryTypes, query_steps, Answers, NoAnswer, CardRequestRow
<1>2. ASSUME NEW c \in Clients, NEW r \in Requests
      PROVE  answered[c][r].status = "NONE" /\ ~answered[c][r].card /\ status[r] = "NONE"
  BY DEF QueryInit, Init, NoAnswer
<1>3. \A c \in Clients, r \in Requests : Told(c, r)
  BY <1>2 DEF Told, Behind, Rank, Terminal
<1>4. QED
  BY <1>1, <1>3 DEF QueryInit, QueryInv, Found

(* The processors move requests on under the clients' reads.                *)
LEMMA ProcessorsKeepAnswers ==
  ASSUME TypeInv, TypeInv', QueryInv, StatusForward, UNCHANGED query_vars
  PROVE  QueryInv'
<1>1. status \in [Requests -> CardRequestRow] /\ status' \in [Requests -> CardRequestRow]
  BY DEF TypeInv, TypeOK
<1>2. QueryTypes'
  BY DEF QueryInv, QueryTypes, query_vars
<1>3. ASSUME NEW c \in Clients, NEW r \in Requests
      PROVE  Told(c, r)'
  <2>1. Told(c, r) /\ answered[c][r] \in Answers
    BY DEF QueryInv, QueryTypes
  <2>2. Behind(answered[c][r].status, status'[r])
    BY <1>1, <2>1, BehindIsTransitive DEF Told, StatusForward, Answers
  <2>3. QED
    BY <2>1, <2>2 DEF Told, StatusForward, query_vars
<1>4. ASSUME NEW c \in Clients
      PROVE  Found(c)'
  <2>1. CASE query[c] = "findCard"
    <3>1. Found(c) /\ asked[c] \in Requests /\ found[c] \in CardRequestRow
      BY <2>1 DEF QueryInv, QueryTypes
    <3>2. Behind(found[c], status'[asked[c]])
      BY <1>1, <2>1, <3>1, BehindIsTransitive DEF Found, StatusForward
    <3>3. QED
      BY <2>1, <3>1, <3>2 DEF Found, query_vars
  <2>2. CASE query[c] # "findCard"
    BY <2>2 DEF Found, query_vars
  <2>3. QED
    BY <2>1, <2>2
<1>5. QED
  BY <1>2, <1>3, <1>4 DEF QueryInv

LEMMA ForwardIsReflexive ==
  ASSUME NEW a \in Answers
  PROVE  Forward(a, a)
<1>1. a.status \in CardRequestRow
  BY DEF Answers
<1>2. Behind(a.status, a.status)
  BY <1>1, BehindIsTransitive
<1>3. QED
  BY <1>2 DEF Forward, Behind

(* One client's query moves nobody else's.                                  *)
LEMMA OthersKeepAnswers ==
  ASSUME QueryInv, NEW c \in Clients, UNCHANGED vars, QueryTypes', Found(c)',
         \A r \in Requests : Told(c, r)',
         \A d \in Clients \ {c} : /\ query'[d] = query[d] /\ asked'[d] = asked[d]
                                  /\ found'[d] = found[d] /\ answered'[d] = answered[d]
  PROVE  QueryInv'
<1>1. ASSUME NEW d \in Clients \ {c}
      PROVE  Found(d)' /\ \A r \in Requests : Told(d, r)'
  BY DEF QueryInv, Found, Told, vars, db_vars
<1>2. QED
  BY <1>1 DEF QueryInv

(* A query's step, and what its answers tell after those before.            *)
LEMMA QueryKeepsAnswers ==
  ASSUME TypeInv, SafeInv, QueryInv, NEW c \in Clients, Query(c), UNCHANGED vars
  PROVE  QueryInv' /\ \A d \in Clients, r \in Requests : Forward(answered[d][r], answered'[d][r])
<1> USE NothingAssumption DEF QueryTypes, query_steps
<1>1. QueryTypes /\ Found(c) /\ \A r \in Requests : Told(c, r)
  BY DEF QueryInv
<1>2. UNCHANGED <<status, cards>> /\ status \in [Requests -> CardRequestRow]
  BY DEF vars, db_vars, TypeInv, TypeOK
<1>3. CASE answered' = answered
  <2>1. QueryTypes' /\ Found(c)'
        /\ \A d \in Clients \ {c} : /\ query'[d] = query[d] /\ asked'[d] = asked[d]
                                    /\ found'[d] = found[d] /\ answered'[d] = answered[d]
    <3>1. CASE \E r \in Requests : Ask(c, r)
      BY <1>1, <1>3, <3>1 DEF Ask, Found
    <3>2. CASE EndQuery(c)
      BY <1>1, <1>3, <3>2 DEF EndQuery, Found, CardRequestRow
    <3>3. CASE /\ query[c] = "findRequest"
               /\ query' = [query EXCEPT ![c] = "findCard"]
               /\ found' = [found EXCEPT ![c] = status[asked[c]]]
               /\ UNCHANGED asked
      <4>1. asked[c] \in Requests /\ status[asked[c]] \in CardRequestRow
        BY <1>1, <1>2, <3>3
      <4>2. QueryTypes'
        BY <1>1, <1>3, <3>3, <4>1
      <4>3. Behind(status[asked[c]], status[asked[c]])
        BY <4>1, BehindIsTransitive
      <4>4. Told(c, asked[c])
        BY <1>1, <4>1
      <4>5. found'[c] = status[asked[c]]
        BY <1>1, <3>3
      <4>6. Found(c)'
        BY <1>2, <1>3, <3>3, <4>3, <4>4, <4>5 DEF Found, Told
      <4>7. QED
        BY <1>1, <1>3, <3>3, <4>2, <4>6
    <3>4. CASE FindCard(c)
      BY <1>1, <1>3, <3>4 DEF FindCard, EndQuery, Found, CardRequestRow
    <3>5. QED
      BY <3>1, <3>2, <3>3, <3>4 DEF Query, FindByRequestId, QueryFails
  <2>2. \A r \in Requests : Told(c, r)'
    BY <1>1, <1>2, <1>3 DEF Told
  <2>3. ASSUME NEW d \in Clients, NEW r \in Requests
        PROVE  Forward(answered[d][r], answered'[d][r])
    <3>1. answered[d][r] \in Answers
      BY <1>1
    <3>2. QED
      BY <1>3, <3>1, ForwardIsReflexive
  <2>4. QED
    BY <2>1, <2>2, <2>3, OthersKeepAnswers
<1>4. CASE FindCard(c)
  <2> PICK q \in Requests : q = asked[c]
    BY <1>1, <1>4 DEF FindCard
  <2> DEFINE was == found[c]
             new == [status |-> was, card |-> q \in cards]
  <2>1. q \in Requests /\ query[c] = "findCard" /\ was \in CardRequestRow /\ new \in Answers
    BY <1>1, <1>4 DEF FindCard, Answers
  <2>2. /\ Told(c, q) /\ OutcomeAgrees(q)
        /\ Behind(was, status[q]) /\ Behind(answered[c][q].status, was)
    BY <1>1, <2>1 DEF Found, SafeInv, RequestInv
  <2>3. \A d \in Clients, r \in Requests :
            answered'[d][r] = IF d = c /\ r = q THEN new ELSE answered[d][r]
    BY <1>1, <1>4, <2>1 DEF FindCard
  <2>4. new.status = was /\ new.card = (q \in cards)
    OBVIOUS
  <2>5. QueryTypes'
    <3>1. answered' \in [Clients -> [Requests -> Answers]]
      BY <1>1, <1>4, <2>1 DEF FindCard
    <3>2. QED
      BY <1>1, <1>4, <3>1 DEF FindCard, EndQuery, CardRequestRow
  <2>6. Found(c)'
    BY <1>1, <1>4 DEF FindCard, EndQuery, Found
  <2>7. Told(c, q)'
    <3>1. was = "ISSUED" => q \in cards
      BY <2>2 DEF Behind, Terminal, OutcomeAgrees
    <3>2. was = "FAILED" => q \notin cards
      BY <2>2 DEF Behind, Terminal, OutcomeAgrees
    <3>3. QED
      BY <1>2, <2>1, <2>2, <2>3, <2>4, <3>1, <3>2 DEF Told
  <2>8. \A r \in Requests : Told(c, r)'
    BY <1>1, <1>2, <2>3, <2>7 DEF Told
  <2>9. \A d \in Clients \ {c} : /\ query'[d] = query[d] /\ asked'[d] = asked[d]
                                 /\ found'[d] = found[d] /\ answered'[d] = answered[d]
    BY <1>1, <1>4 DEF FindCard, EndQuery
  <2>10. ASSUME NEW d \in Clients, NEW r \in Requests
         PROVE  Forward(answered[d][r], answered'[d][r])
    <3>1. CASE d = c /\ r = q
      BY <2>1, <2>2, <2>3, <2>4, <3>1 DEF Forward, Behind, Told
    <3>2. CASE ~(d = c /\ r = q)
      <4>1. answered'[d][r] = answered[d][r] /\ answered[d][r] \in Answers
        BY <1>1, <2>3, <3>2
      <4>2. QED
        BY <4>1, ForwardIsReflexive
    <3>3. QED
      BY <3>1, <3>2
  <2>11. QED
    BY <2>5, <2>6, <2>8, <2>9, <2>10, OthersKeepAnswers
<1>5. QED
  BY <1>3, <1>4 DEF Query, Ask, FindByRequestId, QueryFails

-----------------------------------------------------------------------------

QueryAllInv == TypeInv /\ OwnInv /\ SafeInv /\ QueryInv

LEMMA NextQuery ==
  ASSUME SessionExpiry = FALSE
  PROVE  QueryAllInv /\ [QueryNext]_<<vars, query_vars>> =>
             /\ QueryAllInv'
             /\ [\A c \in Clients, r \in Requests :
                     Forward(answered[c][r], answered'[c][r])]_query_vars
<1> SUFFICES ASSUME QueryAllInv, [QueryNext]_<<vars, query_vars>>
             PROVE  /\ QueryAllInv'
                    /\ \/ \A c \in Clients, r \in Requests :
                              Forward(answered[c][r], answered'[c][r])
                       \/ UNCHANGED query_vars
  OBVIOUS
<1>1. [Next]_vars
  BY DEF QueryNext
<1>2. (TypeInv /\ OwnInv /\ SafeInv)'
  BY <1>1, NextTypes, NextOwn, NextSafe DEF QueryAllInv
<1>3. StatusForward
  BY <1>1, NextMovesForward DEF QueryAllInv
<1>4. CASE UNCHANGED query_vars
  BY <1>2, <1>3, <1>4, ProcessorsKeepAnswers DEF QueryAllInv
<1>5. CASE \E c \in Clients : Query(c) /\ UNCHANGED vars
  BY <1>2, <1>5, QueryKeepsAnswers DEF QueryAllInv
<1>6. QED
  BY <1>4, <1>5 DEF QueryNext

LEMMA InitAllQuery == QueryInit => QueryAllInv
  BY InitTypes, InitOwn, InitSafe, InitQuery DEF QueryInit, QueryAllInv

(* An answer made of two reads is one the request was in: ISSUED comes with  *)
(* its card, FAILED never does, for any number of clients, processors and   *)
(* requests.                                                                *)
THEOREM AnswersAreWhole ==
  ASSUME SessionExpiry = FALSE
  PROVE  QuerySpec => []AnswersAgree
<1>1. QueryAllInv => AnswersAgree
  BY DEF QueryAllInv, QueryInv, Told, AnswersAgree
<1>2. QED
  BY InitAllQuery, NextQuery, <1>1, PTL DEF QuerySpec

(* Who asks repeatedly never sees a request go back, a terminal status      *)
(* change, or a card vanish.                                                *)
THEOREM AnswersOnlyMoveForward ==
  ASSUME SessionExpiry = FALSE
  PROVE  QuerySpec => AnswersMoveForward
  BY InitAllQuery, NextQuery, PTL DEF QuerySpec, AnswersMoveForward
=============================================================================
