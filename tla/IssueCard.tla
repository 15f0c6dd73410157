----------------------------- MODULE IssueCard -----------------------------
(***************************************************************************)
(* POST /cards/issue of apps/card-issuer, from the controller to the       *)
(* response: IssueCardUseCase looks for the document, and if it is new     *)
(* PrismaCardRequestWriter inserts the request and its outbox event in one *)
(* transaction.  Handlers of one or several instances interleave at their  *)
(* awaits; the unique document_number of card_requests decides.            *)
(*                                                                         *)
(* A post stands for the requestId its handler would draw (uuid): it is    *)
(* the key of the row and the aggregateId of the event.                    *)
(***************************************************************************)
EXTENDS CardDomain, Integers, FiniteSets

CONSTANTS
    Posts,          \* requests to the endpoint
    Documents,      \* document numbers
    NoPost,         \* the document has no row
    NoDocument,     \* no handler has the post
    MaxErrors,      \* bound: awaits that reject, P2002 apart
    MaxCrashes      \* bound: crashes with posts under way

ASSUME IssueCardAssumption ==
    /\ NoPost \notin Posts
    /\ NoDocument \notin Documents
    /\ MaxErrors \in Nat
    /\ MaxCrashes \in Nat

VARIABLES
    requestOf,      \* card_requests: the request of a document, unique
    outbox,         \* outbox_events: aggregateIds
    document,       \* what a post asks for
    pc,             \* the await its handler stands at
    answer,         \* what the client got
    errors,
    crashes

db == <<requestOf, outbox>>
vars == <<db, document, pc, answer, errors, crashes>>

(* GlobalExceptionFilter turns a BadRequestException into 400, a            *)
(* CardAlreadyExistsError into 409 and whatever it does not know into 500.  *)
(* A crash cuts the connection.                                             *)
Answers == {202, 400, 409, 500, 0}
Lost == 0
Unanswered == -1

-----------------------------------------------------------------------------

Init ==
    /\ requestOf = [d \in Documents |-> NoPost]
    /\ outbox = {}
    /\ document = [p \in Posts |-> NoDocument]
    /\ pc = [p \in Posts |-> "idle"]
    /\ answer = [p \in Posts |-> Unanswered]
    /\ errors = 0
    /\ crashes = 0

Respond(p, code) ==
    /\ answer' = [answer EXCEPT ![p] = code]
    /\ pc' = [pc EXCEPT ![p] = "done"]

Fails == errors < MaxErrors /\ errors' = errors + 1

(* ValidationPipe: a field breaks its constraint, or is not known.          *)
RefuseInvalid(p) ==
    /\ pc[p] = "idle"
    /\ Respond(p, 400)
    /\ UNCHANGED <<db, document, errors, crashes>>

(* customer or product is absent.  ValidateNested passes over what is not   *)
(* there, and the controller trips over it before any await.                *)
TripOverAbsent(p) ==
    /\ pc[p] = "idle"
    /\ Respond(p, 500)
    /\ UNCHANGED <<db, document, errors, crashes>>

Arrive(p, d) ==
    /\ pc[p] = "idle"
    /\ document' = [document EXCEPT ![p] = d]
    /\ pc' = [pc EXCEPT ![p] = "find"]
    /\ UNCHANGED <<db, answer, errors, crashes>>

(* Mutated form of FindByDocumentNumber: it answers and goes on. *)
FindWithoutThrow(p) ==
    /\ pc[p] = "find"
    /\ pc' = [pc EXCEPT ![p] = "create"]
    /\ answer' = IF requestOf[document[p]] = NoPost THEN answer ELSE [answer EXCEPT ![p] = 409]
    /\ UNCHANGED <<db, document, errors, crashes>>

FindByDocumentNumber(p) ==
    /\ pc[p] = "find"
    /\ IF requestOf[document[p]] = NoPost
       THEN pc' = [pc EXCEPT ![p] = "create"] /\ UNCHANGED answer
       ELSE Respond(p, 409)
    /\ UNCHANGED <<db, document, errors, crashes>>

(* Mutated form of CreateWithOutboxEvent: two writes outside a transaction. *)
CreateThenOutboxEvent(p) ==
    /\ pc[p] = "create"
    /\ requestOf[document[p]] = NoPost
    /\ requestOf' = [requestOf EXCEPT ![document[p]] = p]
    /\ \/ outbox' = outbox \cup {p} /\ Respond(p, 202) /\ UNCHANGED errors
       \/ Fails /\ Respond(p, 500) /\ UNCHANGED outbox
    /\ UNCHANGED <<document, crashes>>

(* Mutated form of CreateWithOutboxEvent: an upsert. *)
UpsertWithOutboxEvent(p) ==
    /\ pc[p] = "create"
    /\ requestOf' = [requestOf EXCEPT ![document[p]] = p]
    /\ outbox' = outbox \cup {p}
    /\ \/ Respond(p, 202) /\ UNCHANGED errors
       \/ Fails /\ Respond(p, 500)
    /\ UNCHANGED <<document, crashes>>

(* The transaction commits; its answer may still be lost. *)
CreateWithOutboxEvent(p) ==
    /\ pc[p] = "create"
    /\ requestOf[document[p]] = NoPost
    /\ requestOf' = [requestOf EXCEPT ![document[p]] = p]
    /\ outbox' = outbox \cup {p}
    /\ \/ Respond(p, 202) /\ UNCHANGED errors
       \/ Fails /\ Respond(p, 500)
    /\ UNCHANGED <<document, crashes>>

(* P2002: someone else committed the document since it was looked for. *)
CreateConflicts(p) ==
    /\ pc[p] = "create"
    /\ requestOf[document[p]] # NoPost
    /\ Respond(p, 409)
    /\ UNCHANGED <<db, document, errors, crashes>>

(* Mutated form of AwaitRejects: every failure of the insert is a conflict. *)
AwaitRejectsAsConflict(p) ==
    /\ pc[p] \in {"find", "create"}
    /\ Fails
    /\ Respond(p, IF pc[p] = "create" THEN 409 ELSE 500)
    /\ UNCHANGED <<db, document, crashes>>

AwaitRejects(p) ==
    /\ pc[p] \in {"find", "create"}
    /\ Fails
    /\ Respond(p, 500)
    /\ UNCHANGED <<db, document, crashes>>

(* An instance dies with some of the posts under way in it. *)
Crash(ps) ==
    /\ crashes < MaxCrashes
    /\ crashes' = crashes + 1
    /\ pc' = [p \in Posts |-> IF p \in ps THEN "done" ELSE pc[p]]
    /\ answer' = [p \in Posts |-> IF p \in ps THEN Lost ELSE answer[p]]
    /\ UNCHANGED <<db, document, errors>>

UnderWay == {p \in Posts : pc[p] \in {"find", "create"}}

Execute(p) ==
    \/ FindByDocumentNumber(p)
    \/ CreateWithOutboxEvent(p)
    \/ CreateConflicts(p)
    \/ AwaitRejects(p)

Next ==
    \/ \E p \in Posts, d \in Documents : Arrive(p, d)
    \/ \E p \in Posts : RefuseInvalid(p) \/ TripOverAbsent(p) \/ Execute(p)
    \/ \E ps \in SUBSET UnderWay \ {{}} : Crash(ps)

Spec == Init /\ [][Next]_vars

-----------------------------------------------------------------------------
(* Properties *)

(* Every variable holds a value of its type, and a handler answers once, at *)
(* its end.                                                                 *)
IntakeTypeOK ==
    /\ requestOf \in [Documents -> Posts \cup {NoPost}]
    /\ outbox \subseteq Posts
    /\ document \in [Posts -> Documents \cup {NoDocument}]
    /\ \A p \in Posts : document[p] = NoDocument =>
           pc[p] = "idle" \/ (pc[p] = "done" /\ answer[p] \in {400, 500})
    /\ \A p \in Posts : pc[p] = "idle" => document[p] = NoDocument
    /\ pc \in [Posts -> {"idle", "find", "create", "done"}]
    /\ answer \in [Posts -> Answers \cup {Unanswered}]
    /\ \A p \in Posts : answer[p] # Unanswered <=> pc[p] = "done"
    /\ errors \in Nat
    /\ crashes \in Nat

(* The transaction of PrismaCardRequestWriter: a request is stored exactly  *)
(* when its event waits in the outbox, under its document and no other, so  *)
(* no request can be stored and never reach Kafka.                          *)
OutboxMatchesRows ==
    /\ outbox = {requestOf[d] : d \in Documents} \ {NoPost}
    /\ \A d \in Documents : requestOf[d] # NoPost => document[requestOf[d]] = d

(* A client told 202 keeps its request for good, though others race for the *)
(* document; one told 409 was told so because another's request holds the   *)
(* document, never because of its own or of a failure of the database.      *)
AnswersAreTrue ==
    \A p \in Posts :
        /\ answer[p] = 202 => requestOf[document[p]] = p /\ p \in outbox
        /\ answer[p] = 409 => requestOf[document[p]] \notin {NoPost, p}

(* However the posts for a document interleave, once all are answered and   *)
(* nothing failed exactly one of them won (the e2e test does this with two  *)
(* posts in one order).                                                     *)
OneWinner ==
    errors = 0 /\ crashes = 0 =>
        \A d \in Documents :
            LET asked == {p \in Posts : document[p] = d} IN
            asked # {} /\ (\A p \in asked : pc[p] = "done") =>
                \E winner \in asked :
                    \A p \in asked : answer[p] = IF p = winner THEN 202 ELSE 409

(* The contract of docs/openapi.yaml, which requires customer and product   *)
(* and answers an invalid payload with 400: so does whatever is turned away *)
(* before the use case.                                                     *)
InvalidBodyGets400 ==
    \A p \in Posts : pc[p] = "done" /\ document[p] = NoDocument => answer[p] = 400
=============================================================================
