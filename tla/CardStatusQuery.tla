-------------------------- MODULE CardStatusQuery --------------------------
(***************************************************************************)
(* GET /card-requests/:requestId of apps/card-issuer, beside the           *)
(* processors that move the request on: GetCardRequestStatusUseCase reads  *)
(* card_requests, and then cards, in no transaction.  A client asks again  *)
(* and again until it likes the answer.                                    *)
(***************************************************************************)
EXTENDS CardProcessor

CONSTANTS Clients   \* each asks for one request at a time

VARIABLES
    query,      \* the await a client's query stands at
    asked,      \* the request it is about
    found,      \* the status the first read found
    answered    \* the last answer a client got about a request

query_vars == <<query, asked, found, answered>>

NoAnswer == [status |-> NoRow, card |-> FALSE]

QueryInit ==
    /\ Init
    /\ query = [c \in Clients |-> "idle"]
    /\ asked = [c \in Clients |-> NoRequest]
    /\ found = [c \in Clients |-> NoRow]
    /\ answered = [c \in Clients |-> [r \in Requests |-> NoAnswer]]

Ask(c, r) ==
    /\ query[c] = "idle"
    /\ query' = [query EXCEPT ![c] = "findRequest"]
    /\ asked' = [asked EXCEPT ![c] = r]
    /\ UNCHANGED <<found, answered>>

(* The query is over; what the first read found is forgotten. *)
EndQuery(c) ==
    /\ query' = [query EXCEPT ![c] = "idle"]
    /\ asked' = [asked EXCEPT ![c] = NoRequest]
    /\ found' = [found EXCEPT ![c] = NoRow]

(* 404, when there is no row yet. *)
FindByRequestId(c) ==
    /\ query[c] = "findRequest"
    /\ IF status[asked[c]] = NoRow
       THEN EndQuery(c)
       ELSE /\ query' = [query EXCEPT ![c] = "findCard"]
            /\ found' = [found EXCEPT ![c] = status[asked[c]]]
            /\ UNCHANGED asked
    /\ UNCHANGED answered

(* 200, with the card if there is one by now. *)
FindCard(c) ==
    /\ query[c] = "findCard"
    /\ answered' = [answered EXCEPT ![c][asked[c]] =
                       [status |-> found[c], card |-> asked[c] \in cards]]
    /\ EndQuery(c)

(* Either read rejects, or the instance dies: the client gets no status. *)
QueryFails(c) ==
    /\ query[c] # "idle"
    /\ EndQuery(c)
    /\ UNCHANGED answered

Query(c) ==
    \/ \E r \in Requests : Ask(c, r)
    \/ FindByRequestId(c)
    \/ FindCard(c)
    \/ QueryFails(c)

QueryNext ==
    \/ Next /\ UNCHANGED query_vars
    \/ \E c \in Clients : Query(c) /\ UNCHANGED vars

QuerySpec == QueryInit /\ [][QueryNext]_<<vars, query_vars>>

-----------------------------------------------------------------------------
(* Properties *)

(* Though the two reads see different moments, an answer ISSUED always      *)
(* carries its card, and no answer FAILED ever carries one.                 *)
AnswersAgree ==
    \A c \in Clients, r \in Requests :
        /\ answered[c][r].status = "ISSUED" => answered[c][r].card
        /\ answered[c][r].status = "FAILED" => ~answered[c][r].card

(* For one who asks repeatedly a request only moves forward, and a card     *)
(* once shown is shown ever after, through crashes, redeliveries and        *)
(* rebalances.                                                              *)
Rank(s) == CASE s = NoRow -> 0 [] s = "PENDING" -> 1 [] s = "PROCESSING" -> 2 [] OTHER -> 3

Forward(old, new) ==
    /\ Rank(old.status) <= Rank(new.status)
    /\ old.status \in Terminal => new.status = old.status
    /\ old.card => new.card

AnswersMoveForward ==
    [][\A c \in Clients, r \in Requests : Forward(answered[c][r], answered'[c][r])]_query_vars
=============================================================================
