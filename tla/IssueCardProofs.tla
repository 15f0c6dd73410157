-------------------------- MODULE IssueCardProofs --------------------------
(***************************************************************************)
(* Theorems about IssueCard, for any number of posts, documents, failures  *)
(* and crashes.                                                            *)
(***************************************************************************)
EXTENDS IssueCard, TLAPS

USE IssueCardAssumption

(* A post is stored by its handler's last step, never before. *)
StoredAtTheEnd == \A p \in Posts : pc[p] # "done" => p \notin outbox

(* Without failures an answer tells the outcome, and whoever holds a       *)
(* document was told so.                                                   *)
AnswersTellAll ==
    errors = 0 /\ crashes = 0 =>
        /\ \A p \in Posts :
               pc[p] = "done" /\ document[p] # NoDocument => answer[p] \in {202, 409}
        /\ \A d \in Documents : requestOf[d] # NoPost => answer[requestOf[d]] = 202

IInv ==
    /\ IntakeTypeOK
    /\ OutboxMatchesRows
    /\ StoredAtTheEnd
    /\ AnswersAreTrue
    /\ AnswersTellAll

LEMMA InitInv == Init => IInv
  BY DEF Init, IInv, IntakeTypeOK, OutboxMatchesRows, StoredAtTheEnd, AnswersAreTrue,
         AnswersTellAll, Answers, Unanswered, Lost

-----------------------------------------------------------------------------
(* Steps that end a handler without touching the database. *)

(* Whether a handler answers 400, 409 or 500, or is cut off, the invariant  *)
(* asks three things of the answer: that it is one, that a 409 has its      *)
(* cause, and that only a failure answers anything else.                    *)
LEMMA RespondInv ==
  ASSUME IInv, NEW p \in Posts, NEW code \in {400, 409, 500}, pc[p] # "done",
         Respond(p, code), UNCHANGED <<db, document, crashes>>, errors' \in {errors, errors + 1},
         document[p] = NoDocument <=> pc[p] = "idle",
         code = 400 => document[p] = NoDocument,
         code = 500 => document[p] = NoDocument \/ errors' # errors,
         code = 409 => /\ document[p] # NoDocument
                       /\ requestOf[document[p]] # NoPost
  PROVE  IInv'
<1>1. IntakeTypeOK'
  BY DEF IInv, IntakeTypeOK, Respond, Answers, Unanswered, Lost, db
<1>2. OutboxMatchesRows'
  BY DEF IInv, OutboxMatchesRows, db
<1>3. StoredAtTheEnd'
  BY DEF IInv, IntakeTypeOK, StoredAtTheEnd, Respond, db
<1>4. AnswersAreTrue'
  <2>1. p \notin outbox
    BY DEF IInv, StoredAtTheEnd
  <2>2. code = 409 => requestOf[document[p]] # p
    BY <2>1 DEF IInv, OutboxMatchesRows, IntakeTypeOK
  <2>3. QED
    BY <2>2 DEF IInv, IntakeTypeOK, AnswersAreTrue, Respond, db
<1>5. AnswersTellAll'
  <2>1. \A d \in Documents : requestOf[d] # p
    BY DEF IInv, StoredAtTheEnd, OutboxMatchesRows
  <2>2. errors' = 0 => errors = 0
    BY DEF IInv, IntakeTypeOK
  <2>3. QED
    BY <2>1, <2>2 DEF IInv, IntakeTypeOK, AnswersTellAll, Respond, db
<1>6. QED
  BY <1>1, <1>2, <1>3, <1>4, <1>5 DEF IInv

-----------------------------------------------------------------------------
(* The other steps. *)

LEMMA ArriveInv ==
  ASSUME IInv, NEW p \in Posts, NEW d \in Documents, Arrive(p, d)
  PROVE  IInv'
<1>1. IntakeTypeOK'
  BY DEF IInv, IntakeTypeOK, Arrive, db
<1>2. OutboxMatchesRows'
  BY DEF IInv, IntakeTypeOK, OutboxMatchesRows, Arrive, db
<1>3. StoredAtTheEnd'
  BY DEF IInv, IntakeTypeOK, StoredAtTheEnd, Arrive, db
<1>4. AnswersAreTrue'
  BY DEF IInv, IntakeTypeOK, AnswersAreTrue, Arrive, Unanswered, db
<1>5. AnswersTellAll'
  BY DEF IInv, IntakeTypeOK, AnswersTellAll, Arrive, db
<1>6. QED
  BY <1>1, <1>2, <1>3, <1>4, <1>5 DEF IInv

LEMMA FindInv ==
  ASSUME IInv, NEW p \in Posts, FindByDocumentNumber(p)
  PROVE  IInv'
<1>1. document[p] # NoDocument /\ pc[p] = "find"
  BY DEF IInv, IntakeTypeOK, FindByDocumentNumber
<1>2. CASE requestOf[document[p]] = NoPost
  <2>1. /\ pc' = [pc EXCEPT ![p] = "create"]
        /\ UNCHANGED <<db, document, answer, errors, crashes>>
    BY <1>2 DEF FindByDocumentNumber
  <2>2. IntakeTypeOK'
    BY <1>1, <2>1 DEF IInv, IntakeTypeOK, db
  <2>3. OutboxMatchesRows' /\ AnswersAreTrue'
    BY <2>1 DEF IInv, OutboxMatchesRows, AnswersAreTrue, db
  <2>4. StoredAtTheEnd' /\ AnswersTellAll'
    BY <1>1, <2>1 DEF IInv, IntakeTypeOK, StoredAtTheEnd, AnswersTellAll, db
  <2>5. QED
    BY <2>2, <2>3, <2>4 DEF IInv
<1>3. CASE requestOf[document[p]] # NoPost
  <2>1. /\ Respond(p, 409)
        /\ UNCHANGED <<db, document, errors, crashes>>
    BY <1>3 DEF FindByDocumentNumber
  <2>2. QED
    BY <1>1, <1>3, <2>1, RespondInv
<1>4. QED
  BY <1>2, <1>3

(* The transaction: the post's request and event appear together, under a   *)
(* document nobody holds.                                                   *)
LEMMA CreateInv ==
  ASSUME IInv, NEW p \in Posts, CreateWithOutboxEvent(p)
  PROVE  IInv'
<1>1. document[p] \in Documents /\ pc[p] = "create" /\ requestOf[document[p]] = NoPost
  BY DEF IInv, IntakeTypeOK, CreateWithOutboxEvent
<1>2. PICK code \in {202, 500} :
          /\ Respond(p, code)
          /\ errors' \in {errors, errors + 1}
          /\ code = 500 => errors' = errors + 1
  BY DEF CreateWithOutboxEvent, Fails
<1>3. /\ requestOf' = [requestOf EXCEPT ![document[p]] = p]
      /\ outbox' = outbox \cup {p}
      /\ UNCHANGED <<document, crashes>>
  BY DEF CreateWithOutboxEvent
<1>4. \A d \in Documents : requestOf[d] # p
  BY <1>1 DEF IInv, StoredAtTheEnd, OutboxMatchesRows
<1>5. IntakeTypeOK'
  BY <1>1, <1>2, <1>3 DEF IInv, IntakeTypeOK, Respond, Answers, Unanswered, Lost
<1>6. OutboxMatchesRows'
  <2>1. \A d \in Documents : requestOf'[d] = IF d = document[p] THEN p ELSE requestOf[d]
    BY <1>1, <1>3 DEF IInv, IntakeTypeOK
  <2>2. outbox' = {requestOf'[d] : d \in Documents} \ {NoPost}
    BY <1>1, <1>3, <2>1 DEF IInv, OutboxMatchesRows
  <2>3. QED
    BY <1>3, <2>1, <2>2 DEF IInv, OutboxMatchesRows
<1>7. StoredAtTheEnd'
  BY <1>2, <1>3 DEF IInv, IntakeTypeOK, StoredAtTheEnd, Respond
<1>8. AnswersAreTrue'
  <2> SUFFICES ASSUME NEW q \in Posts
               PROVE  /\ answer'[q] = 202 => requestOf'[document'[q]] = q /\ q \in outbox'
                      /\ answer'[q] = 409 => requestOf'[document'[q]] \notin {NoPost, q}
    BY DEF AnswersAreTrue
  <2>1. CASE q = p
    BY <1>1, <1>2, <1>3, <2>1 DEF IInv, IntakeTypeOK, Respond
  <2>2. CASE q # p
    <3>1. answer'[q] = answer[q] /\ document'[q] = document[q]
      BY <1>2, <1>3, <2>2 DEF IInv, IntakeTypeOK, Respond
    <3>2. CASE document[q] = document[p]
      BY <1>1, <1>3, <2>2, <3>1, <3>2 DEF IInv, IntakeTypeOK, AnswersAreTrue
    <3>3. CASE document[q] # document[p]
      BY <1>1, <1>3, <3>1, <3>3 DEF IInv, IntakeTypeOK, AnswersAreTrue
    <3>4. QED
      BY <3>2, <3>3
  <2>3. QED
    BY <2>1, <2>2
<1>9. AnswersTellAll'
  <2>1. errors' = 0 => errors = 0 /\ code = 202
    BY <1>2 DEF IInv, IntakeTypeOK
  <2>2. \A q \in Posts : q # p =>
            answer'[q] = answer[q] /\ pc'[q] = pc[q] /\ document'[q] = document[q]
    BY <1>2, <1>3 DEF IInv, IntakeTypeOK, Respond
  <2>3. answer'[p] = code
    BY <1>2 DEF IInv, IntakeTypeOK, Respond
  <2>4. QED
    BY <1>1, <1>3, <1>4, <2>1, <2>2, <2>3 DEF IInv, IntakeTypeOK, AnswersTellAll
<1>10. QED
  BY <1>5, <1>6, <1>7, <1>8, <1>9 DEF IInv

LEMMA CrashInv ==
  ASSUME IInv, NEW ps \in SUBSET UnderWay, Crash(ps)
  PROVE  IInv'
<1>1. \A p \in ps : p \in Posts /\ pc[p] \in {"find", "create"}
  BY DEF UnderWay
<1>2. crashes' # 0
  BY DEF IInv, IntakeTypeOK, Crash
<1>3. IntakeTypeOK'
  BY <1>1 DEF IInv, IntakeTypeOK, Crash, Answers, Unanswered, Lost, db
<1>4. OutboxMatchesRows'
  BY DEF IInv, OutboxMatchesRows, Crash, db
<1>5. StoredAtTheEnd'
  BY <1>1 DEF IInv, IntakeTypeOK, StoredAtTheEnd, Crash, db
<1>6. AnswersAreTrue'
  BY DEF IInv, IntakeTypeOK, AnswersAreTrue, Crash, Lost, db
<1>7. AnswersTellAll'
  BY <1>2 DEF AnswersTellAll
<1>8. QED
  BY <1>3, <1>4, <1>5, <1>6, <1>7 DEF IInv

LEMMA NextInv == IInv /\ [Next]_vars => IInv'
<1> SUFFICES ASSUME IInv, [Next]_vars
             PROVE  IInv'
  OBVIOUS
<1>1. CASE UNCHANGED vars
  BY <1>1 DEF vars, db, IInv, IntakeTypeOK, OutboxMatchesRows, StoredAtTheEnd, AnswersAreTrue,
              AnswersTellAll
<1>2. ASSUME NEW p \in Posts, NEW d \in Documents, Arrive(p, d)
      PROVE  IInv'
  BY <1>2, ArriveInv
<1>3. ASSUME NEW p \in Posts, RefuseInvalid(p) \/ TripOverAbsent(p)
      PROVE  IInv'
  <2>1. PICK code \in {400, 500} : Respond(p, code)
    BY <1>3 DEF RefuseInvalid, TripOverAbsent
  <2>2. /\ pc[p] = "idle" /\ document[p] = NoDocument
        /\ UNCHANGED <<db, document, errors, crashes>>
    BY <1>3 DEF RefuseInvalid, TripOverAbsent, IInv, IntakeTypeOK
  <2>3. QED
    BY <2>1, <2>2, RespondInv
<1>4. ASSUME NEW p \in Posts, FindByDocumentNumber(p)
      PROVE  IInv'
  BY <1>4, FindInv
<1>5. ASSUME NEW p \in Posts, CreateWithOutboxEvent(p)
      PROVE  IInv'
  BY <1>5, CreateInv
<1>6. ASSUME NEW p \in Posts, CreateConflicts(p)
      PROVE  IInv'
  <2>1. document[p] # NoDocument /\ pc[p] = "create"
    BY <1>6 DEF CreateConflicts, IInv, IntakeTypeOK
  <2>2. QED
    BY <1>6, <2>1, RespondInv DEF CreateConflicts
<1>7. ASSUME NEW p \in Posts, AwaitRejects(p)
      PROVE  IInv'
  <2>1. document[p] # NoDocument /\ pc[p] \in {"find", "create"}
    BY <1>7 DEF AwaitRejects, IInv, IntakeTypeOK
  <2>2. /\ Respond(p, 500)
        /\ errors' = errors + 1 /\ errors' # errors
        /\ UNCHANGED <<db, document, crashes>>
    BY <1>7 DEF AwaitRejects, Fails, IInv, IntakeTypeOK
  <2>3. QED
    BY <2>1, <2>2, RespondInv
<1>8. ASSUME NEW ps \in SUBSET UnderWay, Crash(ps)
      PROVE  IInv'
  BY <1>8, CrashInv
<1>9. QED
  BY <1>1, <1>2, <1>3, <1>4, <1>5, <1>6, <1>7, <1>8 DEF Next, Execute

LEMMA InvAlways == Spec => []IInv
  BY InitInv, NextInv, PTL DEF Spec

-----------------------------------------------------------------------------

(* Types: a handler answers once, at its end, and only a post that was      *)
(* turned away before its look-up has no document.                          *)
THEOREM TypesHold == Spec => []IntakeTypeOK
<1>1. IInv => IntakeTypeOK
  BY DEF IInv
<1>2. QED
  BY <1>1, InvAlways, PTL

(* A request is stored exactly when its event waits in the outbox, under    *)
(* its own document, whatever rejects or crashes.                           *)
THEOREM RowsHaveEvents == Spec => []OutboxMatchesRows
<1>1. IInv => OutboxMatchesRows
  BY DEF IInv
<1>2. QED
  BY <1>1, InvAlways, PTL

(* A 202 is durable and a 409 has a cause that is another's request.        *)
THEOREM ClientsAreToldTheTruth == Spec => []AnswersAreTrue
<1>1. IInv => AnswersAreTrue
  BY DEF IInv
<1>2. QED
  BY <1>1, InvAlways, PTL

(* However many posts race for a document, without failures exactly one is  *)
(* told 202 and all others 409.                                             *)
THEOREM RacesHaveOneWinner == Spec => []OneWinner
<1>1. IInv => OneWinner
  <2> SUFFICES ASSUME IInv, errors = 0, crashes = 0, NEW d \in Documents,
                      NEW first \in Posts, document[first] = d,
                      \A p \in Posts : document[p] = d => pc[p] = "done"
               PROVE  \E winner \in Posts :
                          /\ document[winner] = d
                          /\ \A p \in Posts : document[p] = d =>
                                 answer[p] = IF p = winner THEN 202 ELSE 409
    BY DEF OneWinner
  <2>1. \A p \in Posts : document[p] = d => answer[p] \in {202, 409}
    BY DEF IInv, AnswersTellAll
  <2>2. requestOf[d] # NoPost
    BY <2>1 DEF IInv, AnswersAreTrue
  <2>3. requestOf[d] \in Posts /\ document[requestOf[d]] = d /\ answer[requestOf[d]] = 202
    BY <2>2 DEF IInv, IntakeTypeOK, OutboxMatchesRows, AnswersTellAll
  <2>4. \A p \in Posts : document[p] = d /\ p # requestOf[d] => answer[p] = 409
    BY <2>1 DEF IInv, AnswersAreTrue
  <2>5. QED
    BY <2>3, <2>4
<1>2. QED
  BY <1>1, InvAlways, PTL
=============================================================================
