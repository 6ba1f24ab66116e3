-------------------------- MODULE LeadPipelineProofs -------------------------
(***************************************************************************)
(* Theorems about LeadPipeline, for any handlers, replies and bounds.      *)
(*                                                                         *)
(* First those that hold for torn loads too: types, that every request     *)
(* ends within a number of steps of its own, that "sent" means delivered,  *)
(* and that ids, decisions and emails come once.  Then those that hold as  *)
(* long as no load is torn (NoLoadIsTorn): IInv is an invariant, what a    *)
(* handler saves continues what is on record.  From it follow the other    *)
(* safety properties, that the pipeline implements LeadLifecycle, and what *)
(* it owes to that.                                                        *)
(***************************************************************************)
EXTENDS LeadPipeline, FiniteSetTheorems, TLAPS

------------------------------------------------------------------------------
(* The commands of the aggregate.                                           *)

(* When the borrower is due a notice there is an outcome to tell.           *)
LEMMA NotifyHasOutcome ==
  ASSUME NEW l \in LeadRecord, NextStep(l) = "notify"
  PROVE  FinalOutcome(l) \in Finals
BY DEF NextStep, FinalOutcome, LeadRecord, AwaitsDocuments, Outcomes, Finals

(* Every command turns a Lead into a Lead.                                  *)
LEMMA CommandsKeepType ==
  ASSUME NEW l \in LeadRecord
  PROVE  /\ StartPrequalification(l) \in LeadRecord
         /\ \A o \in Outcomes : RecordDecision(l, o) \in LeadRecord
         /\ Fail(l) \in LeadRecord
         /\ OpenChase(l) \in LeadRecord
         /\ MarkChaseSent(l) \in LeadRecord
         /\ MarkChaseFailed(l) \in LeadRecord
         /\ \A r \in Replies : AcceptReply(l, r) \in LeadRecord
         /\ StartReview(l) \in LeadRecord
         /\ \A o \in Finals : RecordReview(l, o) \in LeadRecord
         /\ OpenNotice(l) \in LeadRecord
         /\ NextStep(l) = "notify" => MarkNoticeSent(l) \in LeadRecord
         /\ MarkNoticeFailed(l) \in LeadRecord
<1> USE DEF LeadRecord, Statuses, Outcomes, Finals, Deliveries
<1>0. NewId(l) \in Nat
  BY DEF NewId
<1>1. StartPrequalification(l) \in LeadRecord
  BY DEF StartPrequalification
<1>2. \A o \in Outcomes : RecordDecision(l, o) \in LeadRecord
  BY DEF RecordDecision
<1>3. Fail(l) \in LeadRecord
  BY DEF Fail
<1>4. OpenChase(l) \in LeadRecord
  BY <1>0 DEF OpenChase
<1>5. MarkChaseSent(l) \in LeadRecord
  BY DEF MarkChaseSent
<1>6. MarkChaseFailed(l) \in LeadRecord
  BY DEF MarkChaseFailed, Fail
<1>7. \A r \in Replies : AcceptReply(l, r) \in LeadRecord
  BY DEF AcceptReply
<1>8. StartReview(l) \in LeadRecord
  BY DEF StartReview
<1>9. \A o \in Finals : RecordReview(l, o) \in LeadRecord
  BY DEF RecordReview
<1>10. OpenNotice(l) \in LeadRecord
  BY <1>0 DEF OpenNotice
<1>11. NextStep(l) = "notify" => MarkNoticeSent(l) \in LeadRecord
  BY NotifyHasOutcome DEF MarkNoticeSent
<1>12. MarkNoticeFailed(l) \in LeadRecord
  BY DEF MarkNoticeFailed, Fail
<1>13. QED
  BY <1>1, <1>2, <1>3, <1>4, <1>5, <1>6, <1>7, <1>8, <1>9, <1>10, <1>11, <1>12

(* A Lead as submitted is a Lead.                                          *)
LEMMA SubmittedIsLead == Submitted \in LeadRecord
BY DEF Submitted, LeadRecord, Statuses, Outcomes, Finals, Deliveries

(* The rows after a save, and the Lead in memory after it, are Leads.      *)
LEMMA SavedIsLead ==
  ASSUME NEW l \in LeadRecord, TypeOK
  PROVE  Saved(l) \in LeadRecord /\ Persisted(l) \in LeadRecord
<1>1. db \in LeadRecord
  BY DEF TypeOK
<1>2. Saved(l) \in LeadRecord
  BY <1>1, SMTT(60) DEF Saved, SavedOver, LeadRecord
<1>3. Persisted(l) \in LeadRecord
  BY DEF Persisted, LeadRecord
<1>4. QED
  BY <1>2, <1>3

(* Whatever mixture of states the four selects see, they assemble a Lead.  *)
LEMMA SelectIsLead ==
  ASSUME NEW l \in LeadRecord, NEW tables, TypeOK
  PROVE  SelectFrom(db, l, tables) \in LeadRecord
BY DEF TypeOK, SelectFrom, LeadRecord, Statuses, Outcomes, Finals, Deliveries

------------------------------------------------------------------------------
(* What a handler remembers: types, and that the command it is about to    *)
(* give is due.  This part holds for torn loads too.                        *)

HandlerTypes ==
  /\ pc \in [Handlers -> Places]
  /\ kind \in [Handlers -> Kinds]
  /\ todo \in [Handlers -> SUBSET Tables]
  /\ mem \in [Handlers -> LeadRecord]
  /\ email \in [Handlers -> Replies \union {NoReply}]
  /\ answer \in [Handlers -> Outcomes \union {"none"}]

HandlersLocal == HandlerTypes /\ \A g \in Handlers : CarriesEmail(g) /\ Due(g)

OtherTypes ==
  /\ db \in LeadRecord
  /\ failedStep \in {"none", "prequalify", "chase", "review", "notify"}
  /\ pulls \in Nat /\ reviews \in Nat
  /\ requested \subseteq Emails
  /\ inbox \subseteq Emails
  /\ requests \in Nat /\ faults \in Nat

(* LocalInv, split into the handlers' memory and everything else.          *)
LEMMA LocalParts == LocalInv <=> HandlersLocal /\ OtherTypes
BY DEF LocalInv, TypeOK, HandlersLocal, HandlerTypes, OtherTypes

(* The version plays no part in what a Lead needs next.                     *)
LEMMA PersistedNeedsTheSame ==
  ASSUME NEW l \in LeadRecord
  PROVE  /\ NextStep(Persisted(l)) = NextStep(l)
         /\ CanRecordDecision(Persisted(l)) <=> CanRecordDecision(l)
         /\ FinalOutcome(Persisted(l)) = FinalOutcome(l)
         /\ AwaitsDocuments(Persisted(l)) <=> AwaitsDocuments(l)
<1>1. /\ Persisted(l).decision = l.decision
      /\ Persisted(l).status = l.status
      /\ Persisted(l).review = l.review
      /\ Persisted(l).chase = l.chase
      /\ Persisted(l).reply = l.reply
      /\ Persisted(l).notice = l.notice
  BY DEF Persisted, LeadRecord
<1>2. QED
  BY <1>1 DEF NextStep, CanRecordDecision, FinalOutcome, AwaitsDocuments

(* A handler that ends its request remembers nothing.                      *)
LEMMA LeaveKeepsLocal ==
  ASSUME HandlersLocal, NEW h \in Handlers, Leave(h)
  PROVE  HandlersLocal'
<1>1. HandlerTypes'
  BY SubmittedIsLead DEF HandlersLocal, HandlerTypes, Leave, Places, Kinds
<1>2. ASSUME NEW g \in Handlers PROVE CarriesEmail(g)' /\ Due(g)'
  <2>1. CASE g = h
    BY <2>1 DEF HandlersLocal, HandlerTypes, Leave, CarriesEmail, Due
  <2>2. CASE g # h
    BY <2>2 DEF HandlersLocal, HandlerTypes, Leave, CarriesEmail, Due
  <2>3. QED
    BY <2>1, <2>2
<1>3. QED
  BY <1>1, <1>2 DEF HandlersLocal

(* A save, and then the next await, for which the saved Lead must be ready. *)
LEMMA SaveThenKeepsLocal ==
  ASSUME HandlersLocal, OtherTypes,
         NEW h \in Handlers, NEW l \in LeadRecord, NEW place \in {"advance", "pull", "review"},
         place = "pull" => CanRecordDecision(l),
         place = "review" => CanReview(l),
         SaveThen(h, l, place)
  PROVE  HandlersLocal' /\ db' \in LeadRecord
<1>1. CASE ~ CanCommit(l)
  BY <1>1, LeaveKeepsLocal DEF SaveThen, OtherTypes
<1>2. CASE CanCommit(l)
  <2>1. Saved(l) \in LeadRecord /\ Persisted(l) \in LeadRecord
    BY SavedIsLead, LocalParts DEF HandlersLocal, LocalInv
  <2>2. db' = Saved(l) /\ mem' = [mem EXCEPT ![h] = Persisted(l)]
        /\ pc' = [pc EXCEPT ![h] = place] /\ answer' = [answer EXCEPT ![h] = "none"]
        /\ UNCHANGED <<kind, todo, email>>
    BY <1>2 DEF SaveThen
  <2>3. HandlerTypes'
    BY <2>1, <2>2 DEF HandlersLocal, HandlerTypes, Places, Waiting
  <2>4. ASSUME NEW g \in Handlers PROVE CarriesEmail(g)' /\ Due(g)'
    <3>1. CASE g = h
      <4>1. pc'[g] = place /\ mem'[g] = Persisted(l) /\ answer'[g] = "none"
        BY <2>2, <3>1 DEF HandlersLocal, HandlerTypes
      <4>2. QED
        BY <4>1, PersistedNeedsTheSame DEF CarriesEmail, Due, CanReview
    <3>2. CASE g # h
      BY <2>2, <3>2 DEF HandlersLocal, HandlerTypes, CarriesEmail, Due
    <3>3. QED
      BY <3>1, <3>2
  <2>5. QED
    BY <2>1, <2>2, <2>3, <2>4 DEF HandlersLocal
<1>3. QED
  BY <1>1, <1>2

(* A save that is the last thing a request does.                           *)
LEMMA SaveAndLeaveKeepsLocal ==
  ASSUME HandlersLocal, OtherTypes,
         NEW h \in Handlers, NEW l \in LeadRecord, SaveAndLeave(h, l)
  PROVE  HandlersLocal' /\ db' \in LeadRecord
<1>1. Saved(l) \in LeadRecord
  BY SavedIsLead, LocalParts DEF HandlersLocal, LocalInv
<1>2. QED
  BY <1>1, LeaveKeepsLocal DEF SaveAndLeave, OtherTypes

(* LocalInv holds before the first request.                                *)
LEMMA InitLocal == Init => LocalInv
<1> SUFFICES ASSUME Init PROVE LocalInv
  OBVIOUS
<1>1. OtherTypes
  BY SubmittedIsLead DEF Init, OtherTypes
<1>2. HandlersLocal
  BY SubmittedIsLead DEF Init, HandlersLocal, HandlerTypes, Places, Kinds, CarriesEmail, Due
<1>3. QED
  BY <1>1, <1>2, LocalParts

(* Starting to load: nothing is remembered but the email that arrived.      *)
LEMMA StartLoadingKeepsLocal ==
  ASSUME HandlersLocal, NEW h \in Handlers, NEW k \in Kinds, StartLoading(h, k),
         NEW r \in Replies \union {NoReply}, k = "reply" => r \in Replies,
         email' = email \/ email' = [email EXCEPT ![h] = r],
         k = "reply" => email' = [email EXCEPT ![h] = r],
         answer' = answer
  PROVE  HandlersLocal'
<1>1. HandlerTypes'
  BY SubmittedIsLead DEF HandlersLocal, HandlerTypes, StartLoading, Places
<1>2. ASSUME NEW g \in Handlers PROVE CarriesEmail(g)' /\ Due(g)'
  <2>1. CASE g = h
    BY <2>1 DEF HandlersLocal, HandlerTypes, StartLoading, CarriesEmail, Due
  <2>2. CASE g # h
    BY <2>2 DEF HandlersLocal, HandlerTypes, StartLoading, CarriesEmail, Due
  <2>3. QED
    BY <2>1, <2>2
<1>3. QED
  BY <1>1, <1>2 DEF HandlersLocal

(* findById, whole or one select at a time.                                *)
LEMMA LoadKeepsLocal ==
  ASSUME LocalInv, NEW h \in Handlers, Load(h)
  PROVE  HandlersLocal'
<1>1. PICK tables : /\ todo' = [todo EXCEPT ![h] = @ \ tables]
                    /\ mem' = [mem EXCEPT ![h] = SelectFrom(db, @, tables)]
                    /\ pc' = [pc EXCEPT ![h] =
                         IF tables # todo[h] THEN "load"
                         ELSE IF kind[h] = "continue" THEN "advance" ELSE "start"]
  BY DEF Load
<1>2. pc[h] = "load" /\ kind' = kind /\ email' = email /\ answer' = answer
  BY DEF Load
<1>3. HandlersLocal
  BY LocalParts
<1>4. SelectFrom(db, mem[h], tables) \in LeadRecord
  BY <1>3, SelectIsLead DEF HandlersLocal, HandlerTypes, LocalInv
<1>5. HandlerTypes'
  BY <1>1, <1>2, <1>3, <1>4 DEF HandlersLocal, HandlerTypes, Places
<1>6. ASSUME NEW g \in Handlers PROVE CarriesEmail(g)' /\ Due(g)'
  <2>1. CASE g = h
    <3>1. pc'[h] \in {"load", "start", "advance"}
      BY <1>1, <1>3 DEF HandlersLocal, HandlerTypes
    <3>2. QED
      BY <1>2, <1>3, <2>1, <3>1 DEF HandlersLocal, HandlerTypes, CarriesEmail, Due
  <2>2. CASE g # h
    BY <1>1, <1>2, <1>3, <2>2 DEF HandlersLocal, HandlerTypes, CarriesEmail, Due
  <2>3. QED
    BY <2>1, <2>2
<1>7. QED
  BY <1>5, <1>6 DEF HandlersLocal

(* A request is written to a service: the handler waits.                    *)
LEMMA RequestKeepsLocal ==
  ASSUME HandlersLocal, NEW h \in Handlers, NEW e, NEW place \in {"chase", "notice"},
         place = "chase" => NextStep(mem[h]) = "chase" /\ mem[h].chaseId # 0,
         place = "notice" => NextStep(mem[h]) = "notify" /\ mem[h].noticeId # 0,
         Request(h, e, place)
  PROVE  HandlersLocal'
<1>1. HandlerTypes'
  BY DEF HandlersLocal, HandlerTypes, Request, Places, Waiting
<1>2. ASSUME NEW g \in Handlers PROVE CarriesEmail(g)' /\ Due(g)'
  <2>1. CASE g = h
    BY <2>1 DEF HandlersLocal, HandlerTypes, Request, CarriesEmail, Due
  <2>2. CASE g # h
    BY <2>2 DEF HandlersLocal, HandlerTypes, Request, CarriesEmail, Due
  <2>3. QED
    BY <2>1, <2>2
<1>3. QED
  BY <1>1, <1>2 DEF HandlersLocal

(* Figure's answer is on its way to the handler.                           *)
LEMMA FigureAnswersKeepsLocal ==
  ASSUME HandlersLocal, NEW h \in Handlers, NEW place \in {"pull", "review"},
         NEW outcome \in Outcomes, place = "review" => outcome \in Finals,
         FigureAnswers(h, place, outcome)
  PROVE  HandlersLocal'
<1>1. HandlerTypes'
  BY DEF HandlersLocal, HandlerTypes, FigureAnswers
<1>2. ASSUME NEW g \in Handlers PROVE CarriesEmail(g)' /\ Due(g)'
  <2>1. CASE g = h
    BY <2>1 DEF HandlersLocal, HandlerTypes, FigureAnswers, CarriesEmail, Due
  <2>2. CASE g # h
    BY <2>2 DEF HandlersLocal, HandlerTypes, FigureAnswers, CarriesEmail, Due
  <2>3. QED
    BY <2>1, <2>2
<1>3. QED
  BY <1>1, <1>2 DEF HandlersLocal

(* An email delivered concerns no handler's memory.                        *)
LEMMA DeliverKeepsLocal ==
  ASSUME LocalInv, NEW e \in requested, Deliver(e)
  PROVE  LocalInv'
<1>1. HandlersLocal'
  BY LocalParts DEF HandlersLocal, HandlerTypes, CarriesEmail, Due, Deliver
<1>2. OtherTypes'
  BY LocalParts DEF OtherTypes, Deliver
<1>3. QED
  BY <1>1, <1>2, LocalParts DEF LocalInv, TypeOK, HandlersLocal, HandlerTypes, OtherTypes, CarriesEmail, Due

(* One step per action: the handlers' part by the lemma about the way the   *)
(* action ends (a save, a request, an answer, the end of the request).      *)
LEMMA StepKeepsLocal == LocalInv /\ [Next]_vars => LocalInv'
<1> SUFFICES ASSUME LocalInv, [Next]_vars PROVE LocalInv'
  OBVIOUS
<1>1. HandlersLocal /\ OtherTypes
  BY LocalParts
<1>2. HandlersLocal' /\ OtherTypes' => LocalInv'
  BY DEF LocalInv, TypeOK, HandlersLocal, HandlerTypes, OtherTypes, CarriesEmail, Due
<1>3. \A h \in Handlers : mem[h] \in LeadRecord /\ Due(h) /\ CarriesEmail(h)
                         /\ answer[h] \in Outcomes \union {"none"}
                         /\ email[h] \in Replies \union {NoReply}
  BY <1>1 DEF HandlersLocal, HandlerTypes
<1>4. \A h \in Handlers :
        mem[h].decision \in Outcomes \union {"none"} /\ mem[h].status \in Statuses
  BY <1>3 DEF LeadRecord
<1>5. ASSUME NEW h \in Handlers, Submit(h) PROVE LocalInv'
  <2>1. HandlersLocal' /\ db' \in LeadRecord
    BY <1>1, <1>5, SubmittedIsLead, SaveThenKeepsLocal DEF Submit
  <2>2. QED
    BY <1>1, <1>2, <1>5, <2>1 DEF OtherTypes, Submit, Begin, services
<1>6. ASSUME NEW h \in Handlers, RequestReplay(h) PROVE LocalInv'
  <2>1. HandlersLocal'
    BY <1>1, <1>6, StartLoadingKeepsLocal DEF RequestReplay, Kinds
  <2>2. QED
    BY <1>1, <1>2, <1>6, <2>1 DEF OtherTypes, RequestReplay, Begin, services
<1>7. ASSUME NEW h \in Handlers, NEW r \in Replies, EmailArrives(h, r) PROVE LocalInv'
  <2>1. HandlersLocal'
    BY <1>1, <1>7, StartLoadingKeepsLocal DEF EmailArrives, Kinds
  <2>2. QED
    BY <1>1, <1>2, <1>7, <2>1 DEF OtherTypes, EmailArrives, Begin, services
<1>8. ASSUME NEW h \in Handlers, Load(h) PROVE LocalInv'
  <2>1. HandlersLocal'
    BY <1>8, LoadKeepsLocal
  <2>2. QED
    BY <1>1, <1>2, <1>8, <2>1 DEF OtherTypes, Load, services
<1>9. ASSUME NEW h \in Handlers, Replay(h) PROVE LocalInv'
  <2>1. mem[h] \in LeadRecord
    BY <1>3
  <2>9. HandlersLocal' /\ db' \in LeadRecord
    BY <1>1, <1>9, <2>1, SaveThenKeepsLocal DEF Replay
  <2>10. QED
    BY <1>1, <1>2, <1>9, <2>9 DEF OtherTypes, Replay, services
<1>10. ASSUME NEW h \in Handlers, RefuseReply(h) PROVE LocalInv'
  <2>1. HandlersLocal' /\ db' \in LeadRecord
    BY <1>1, <1>3, <1>10, SaveAndLeaveKeepsLocal DEF RefuseReply
  <2>2. QED
    BY <1>1, <1>2, <1>10, <2>1 DEF OtherTypes, RefuseReply, services
<1>11. ASSUME NEW h \in Handlers, TakeReply(h) PROVE LocalInv'
  <2> DEFINE l == AcceptReply(mem[h], email[h])
  <2>1. email[h] \in Replies
    BY <1>3, <1>11 DEF TakeReply, CarriesEmail
  <2>2. l \in LeadRecord
    BY <1>3, <2>1, CommandsKeepType
  <2>3. Saved(l) \in LeadRecord
    BY <2>2, SavedIsLead DEF LocalInv
  <2>4. CASE CanCommit(l)
    <3>1. db' = Saved(l) /\ StartLoading(h, "continue") /\ email' = email /\ answer' = answer
      BY <1>11, <2>4 DEF TakeReply
    <3>2. HandlersLocal'
      BY <1>1, <3>1, StartLoadingKeepsLocal DEF Kinds
    <3>3. QED
      BY <1>1, <1>2, <1>11, <2>3, <3>1, <3>2 DEF OtherTypes, TakeReply, services
  <2>5. CASE ~ CanCommit(l)
    <3>1. db' = db /\ Leave(h)
      BY <1>11, <2>5 DEF TakeReply
    <3>2. HandlersLocal'
      BY <1>1, <3>1, LeaveKeepsLocal
    <3>3. QED
      BY <1>1, <1>2, <1>11, <3>1, <3>2 DEF OtherTypes, TakeReply, services
  <2>6. QED
    BY <2>4, <2>5
<1>12. ASSUME NEW h \in Handlers, RedeliveredReply(h) PROVE LocalInv'
  <2>1. HandlersLocal'
    BY <1>1, <1>12, StartLoadingKeepsLocal DEF RedeliveredReply, Kinds
  <2>2. QED
    BY <1>1, <1>2, <1>12, <2>1 DEF OtherTypes, RedeliveredReply, services
<1>13. ASSUME NEW h \in Handlers, Finish(h) PROVE LocalInv'
  <2>1. HandlersLocal'
    BY <1>1, <1>13, LeaveKeepsLocal DEF Finish
  <2>2. QED
    BY <1>1, <1>2, <1>13, <2>1 DEF OtherTypes, Finish, services
<1>14. ASSUME NEW h \in Handlers, Prequalify(h) PROVE LocalInv'
  <2>1. StartPrequalification(mem[h]) \in LeadRecord
    BY <1>3, CommandsKeepType
  <2>2. CanRecordDecision(StartPrequalification(mem[h]))
    BY <1>3, <1>4, <1>14 DEF Prequalify, AdvanceTo, NextStep, CanRecordDecision,
         StartPrequalification, LeadRecord, AwaitsDocuments
  <2>9. HandlersLocal' /\ db' \in LeadRecord
    BY <1>1, <1>14, <2>1, <2>2, SaveThenKeepsLocal DEF Prequalify
  <2>10. QED
    BY <1>1, <1>2, <1>14, <2>9 DEF OtherTypes, Prequalify, services
<1>15. ASSUME NEW h \in Handlers, Review(h) PROVE LocalInv'
  <2>1. StartReview(mem[h]) \in LeadRecord
    BY <1>3, CommandsKeepType
  <2>2. CanReview(StartReview(mem[h]))
    BY <1>3, <1>15 DEF Review, AdvanceTo, NextStep, CanReview, StartReview,
         LeadRecord, AwaitsDocuments
  <2>9. HandlersLocal' /\ db' \in LeadRecord
    BY <1>1, <1>15, <2>1, <2>2, SaveThenKeepsLocal DEF Review
  <2>10. QED
    BY <1>1, <1>2, <1>15, <2>9 DEF OtherTypes, Review, services
<1>16. ASSUME NEW h \in Handlers, BeginChase(h) PROVE LocalInv'
  <2>1. OpenChase(mem[h]) \in LeadRecord
    BY <1>3, CommandsKeepType
  <2>9. HandlersLocal' /\ db' \in LeadRecord
    BY <1>1, <1>16, <2>1, SaveThenKeepsLocal DEF BeginChase
  <2>10. QED
    BY <1>1, <1>2, <1>16, <2>9 DEF OtherTypes, BeginChase, services
<1>17. ASSUME NEW h \in Handlers, BeginNotice(h) PROVE LocalInv'
  <2>1. OpenNotice(mem[h]) \in LeadRecord
    BY <1>3, CommandsKeepType
  <2>9. HandlersLocal' /\ db' \in LeadRecord
    BY <1>1, <1>17, <2>1, SaveThenKeepsLocal DEF BeginNotice
  <2>10. QED
    BY <1>1, <1>2, <1>17, <2>9 DEF OtherTypes, BeginNotice, services
<1>18. ASSUME NEW h \in Handlers, SendChase(h) PROVE LocalInv'
  <2>1. ChaseEmail(mem[h]) \in Emails
    BY <1>3, <1>18, NotifyHasOutcome DEF SendChase, AdvanceTo, ChaseEmail, Emails, LeadRecord, Outcomes
  <2>2. HandlersLocal'
    BY <1>1, <1>18, RequestKeepsLocal DEF SendChase, AdvanceTo
  <2>3. QED
    BY <1>1, <1>2, <1>18, <2>1, <2>2 DEF OtherTypes, SendChase, Request
<1>19. ASSUME NEW h \in Handlers, SendNotice(h) PROVE LocalInv'
  <2>1. NoticeEmail(mem[h]) \in Emails
    BY <1>3, <1>19, NotifyHasOutcome DEF SendNotice, AdvanceTo, NoticeEmail, Emails, LeadRecord, Outcomes
  <2>2. HandlersLocal'
    BY <1>1, <1>19, RequestKeepsLocal DEF SendNotice, AdvanceTo
  <2>3. QED
    BY <1>1, <1>2, <1>19, <2>1, <2>2 DEF OtherTypes, SendNotice, Request
<1>20. ASSUME NEW h \in Handlers, NEW outcome \in Outcomes, SoftPull(h, outcome) PROVE LocalInv'
  <2>1. HandlersLocal'
    BY <1>1, <1>20, FigureAnswersKeepsLocal DEF SoftPull, Outcomes, Finals
  <2>2. QED
    BY <1>1, <1>2, <1>20, <2>1 DEF OtherTypes, SoftPull, FigureAnswers
<1>21. ASSUME NEW h \in Handlers, NEW outcome \in Finals, DocumentReview(h, outcome) PROVE LocalInv'
  <2>1. HandlersLocal'
    BY <1>1, <1>21, FigureAnswersKeepsLocal DEF DocumentReview, Outcomes, Finals
  <2>2. QED
    BY <1>1, <1>2, <1>21, <2>1 DEF OtherTypes, DocumentReview, FigureAnswers
<1>22. ASSUME NEW h \in Handlers, DecisionArrives(h) PROVE LocalInv'
  <2>1. RecordDecision(mem[h], answer[h]) \in LeadRecord
    BY <1>3, <1>22, CommandsKeepType DEF DecisionArrives
  <2>9. HandlersLocal' /\ db' \in LeadRecord
    BY <1>1, <1>22, <2>1, SaveThenKeepsLocal DEF DecisionArrives
  <2>10. QED
    BY <1>1, <1>2, <1>22, <2>9 DEF OtherTypes, DecisionArrives, services
<1>23. ASSUME NEW h \in Handlers, ReviewArrives(h) PROVE LocalInv'
  <2>1. RecordReview(mem[h], answer[h]) \in LeadRecord
    BY <1>3, <1>23, CommandsKeepType DEF ReviewArrives, Due
  <2>9. HandlersLocal' /\ db' \in LeadRecord
    BY <1>1, <1>23, <2>1, SaveThenKeepsLocal DEF ReviewArrives
  <2>10. QED
    BY <1>1, <1>2, <1>23, <2>9 DEF OtherTypes, ReviewArrives, services
<1>24. ASSUME NEW h \in Handlers, ChaseAnswered(h) PROVE LocalInv'
  <2>1. MarkChaseSent(mem[h]) \in LeadRecord
    BY <1>3, CommandsKeepType
  <2>9. HandlersLocal' /\ db' \in LeadRecord
    BY <1>1, <1>24, <2>1, SaveThenKeepsLocal DEF ChaseAnswered
  <2>10. QED
    BY <1>1, <1>2, <1>24, <2>9 DEF OtherTypes, ChaseAnswered, services
<1>25. ASSUME NEW h \in Handlers, NoticeAnswered(h) PROVE LocalInv'
  <2>1. MarkNoticeSent(mem[h]) \in LeadRecord
    BY <1>3, <1>25, CommandsKeepType DEF NoticeAnswered, Due
  <2>9. HandlersLocal' /\ db' \in LeadRecord
    BY <1>1, <1>25, <2>1, SaveThenKeepsLocal DEF NoticeAnswered
  <2>10. QED
    BY <1>1, <1>2, <1>25, <2>9 DEF OtherTypes, NoticeAnswered, services
<1>26. ASSUME NEW h \in Handlers, PullFails(h) PROVE LocalInv'
  <2>1. Fail(mem[h]) \in LeadRecord
    BY <1>3, CommandsKeepType
  <2>2. HandlersLocal' /\ db' \in LeadRecord
    BY <1>1, <1>26, <2>1, SaveAndLeaveKeepsLocal DEF PullFails, SaveFailureAndLeave
  <2>3. QED
    BY <1>1, <1>2, <1>26, <2>2 DEF OtherTypes, PullFails, SaveFailureAndLeave, Fault, services
<1>27. ASSUME NEW h \in Handlers, ReviewFails(h) PROVE LocalInv'
  <2>1. Fail(mem[h]) \in LeadRecord
    BY <1>3, CommandsKeepType
  <2>2. HandlersLocal' /\ db' \in LeadRecord
    BY <1>1, <1>27, <2>1, SaveAndLeaveKeepsLocal DEF ReviewFails, SaveFailureAndLeave
  <2>3. QED
    BY <1>1, <1>2, <1>27, <2>2 DEF OtherTypes, ReviewFails, SaveFailureAndLeave, Fault, services
<1>28. ASSUME NEW h \in Handlers, ChaseFails(h) PROVE LocalInv'
  <2>1. MarkChaseFailed(mem[h]) \in LeadRecord
    BY <1>3, CommandsKeepType
  <2>2. HandlersLocal' /\ db' \in LeadRecord
    BY <1>1, <1>28, <2>1, SaveAndLeaveKeepsLocal DEF ChaseFails, SaveFailureAndLeave
  <2>3. QED
    BY <1>1, <1>2, <1>28, <2>2 DEF OtherTypes, ChaseFails, SaveFailureAndLeave, Fault, services
<1>29. ASSUME NEW h \in Handlers, NoticeFails(h) PROVE LocalInv'
  <2>1. MarkNoticeFailed(mem[h]) \in LeadRecord
    BY <1>3, CommandsKeepType
  <2>2. HandlersLocal' /\ db' \in LeadRecord
    BY <1>1, <1>29, <2>1, SaveAndLeaveKeepsLocal DEF NoticeFails, SaveFailureAndLeave
  <2>3. QED
    BY <1>1, <1>2, <1>29, <2>2 DEF OtherTypes, NoticeFails, SaveFailureAndLeave, Fault, services
<1>30. ASSUME NEW h \in Handlers, Die(h) PROVE LocalInv'
  <2>1. HandlersLocal'
    BY <1>1, <1>30, LeaveKeepsLocal DEF Die
  <2>2. QED
    BY <1>1, <1>2, <1>30, <2>1 DEF OtherTypes, Die, Fault, services
<1>31. CASE UNCHANGED vars
  BY <1>1, <1>2, <1>31 DEF vars, HandlersLocal, HandlerTypes, OtherTypes, CarriesEmail, Due
<1>32. QED
  BY <1>5, <1>6, <1>7, <1>8, <1>9, <1>10, <1>11, <1>12, <1>13, <1>14, <1>15, <1>16, <1>17, <1>18, <1>19, <1>20, <1>21, <1>22, <1>23, <1>24, <1>25, <1>26, <1>27, <1>28, <1>29, <1>30, <1>31, DeliverKeepsLocal
  DEF Next, Arrival, HandlerStep, FaultStep, FigureStep

(* Whatever the interleaving, and for torn loads too, every variable has its *)
(* type and every handler's memory is what its next command needs.          *)
THEOREM LocalInvariant == Spec => []LocalInv
BY InitLocal, StepKeepsLocal, PTL DEF Spec

(* Type correctness of the pipeline.                                        *)
THEOREM TypeCorrect == Spec => []TypeOK
<1>1. LocalInv => TypeOK
  BY DEF LocalInv
<1>2. QED
  BY <1>1, LocalInvariant, PTL

(* No command of advance runs into a DomainError.                           *)
THEOREM CommandsNeverRefused == Spec => []CommandsAreDue
<1>1. LocalInv => CommandsAreDue
  <2> SUFFICES ASSUME LocalInv, NEW h \in Handlers
               PROVE  /\ pc[h] = "pull" => CanRecordDecision(mem[h]) /\ CanFail(mem[h])
                      /\ pc[h] = "review" => CanReview(mem[h]) /\ CanFail(mem[h])
                      /\ pc[h] = "chase" => RequiresUnsentChase(mem[h])
                      /\ pc[h] = "notice" => /\ RequiresUnsentNotice(mem[h])
                                             /\ FinalOutcome(mem[h]) # "none"
                      /\ pc[h] = "advance" /\ NextStep(mem[h]) = "chase" /\ mem[h].chaseId = 0 =>
                           CanOpenChase(mem[h])
                      /\ pc[h] = "advance" /\ NextStep(mem[h]) = "notify" /\ mem[h].noticeId = 0 =>
                           CanOpenNotice(mem[h])
    BY DEF CommandsAreDue
  <2>1. mem[h] \in LeadRecord /\ Due(h)
    BY DEF LocalInv, TypeOK
  <2>2. CanRecordDecision(mem[h]) => CanFail(mem[h])
    BY DEF CanRecordDecision, CanFail, NextStep
  <2>3. CanReview(mem[h]) => CanFail(mem[h])
    BY DEF CanReview, CanFail
  <2>4. NextStep(mem[h]) = "chase" => mem[h].chase # "sent" /\ mem[h].decision = "need_more_documents"
    BY DEF NextStep, AwaitsDocuments
  <2>5. NextStep(mem[h]) = "notify" => mem[h].notice # "sent"
    BY DEF NextStep, AwaitsDocuments
  <2>6. NextStep(mem[h]) = "notify" => FinalOutcome(mem[h]) # "none"
    BY <2>1, NotifyHasOutcome DEF Finals
  <2>7. QED
    BY <2>1, <2>2, <2>3, <2>4, <2>5, <2>6
    DEF Due, CanOpenChase, CanOpenNotice, RequiresUnsentChase, RequiresUnsentNotice
<1>2. QED
  BY <1>1, LocalInvariant, PTL

------------------------------------------------------------------------------
(* advance ends.  Its loop has no bound of its own: what a request still    *)
(* has to do gets less with each of its steps and never more by another's.  *)

Missing(there) == IF there THEN 0 ELSE 4

\* Four for each entry the Lead does not have yet.
Undone(l) ==
  Missing(l.decision # "none") + Missing(l.review # "none")
  + Missing(l.chaseId # 0) + Missing(l.chase = "sent")
  + Missing(l.noticeId # 0) + Missing(l.notice = "sent")

\* The steps a request at place may have left: each round of advance takes up to three,
\* and makes an entry on its Lead l; before them it loads what is left of the tables, twice
\* if it delivers a reply.
StepsLeft(place, serves, tables, l, answered) ==
  CASE place = "idle" -> 0
    [] place = "load" /\ serves # "continue" -> 34 + Cardinality(tables)
    [] place = "start" -> 33
    [] place = "load" /\ serves = "continue" -> 28 + Cardinality(tables)
    [] place = "advance" -> 3 + Undone(l)
    [] place \in {"pull", "review"} /\ answered # "none" -> 1 + Undone(l)
    [] OTHER -> 2 + Undone(l)

Left(h) == StepsLeft(pc[h], kind[h], todo[h], mem[h], answer[h])

Untouched(h) == UNCHANGED <<pc[h], kind[h], todo[h], mem[h], email[h], answer[h]>>

\* The request of h takes a step, and no other does.
Moves(h) == Left(h)' < Left(h) /\ \A g \in Handlers \ {h} : Untouched(g)

(* The tables still to select from are counted down.                        *)
LEMMA TablesAreCounted ==
  ASSUME NEW T \in SUBSET Tables
  PROVE  /\ Cardinality(T) \in 0..4
         /\ \A t \in T : Cardinality(T \ {t}) = Cardinality(T) - 1
<1>1. IsFiniteSet(Tables) /\ Cardinality(Tables) <= 4
  <2>1. ASSUME NEW S, NEW x, IsFiniteSet(S)
        PROVE  IsFiniteSet(S \union {x}) /\ Cardinality(S \union {x}) <= Cardinality(S) + 1
    BY <2>1, FS_AddElement, FS_CardinalityType
  <2> DEFINE A == {} \union {"leads"}
             B == A \union {"figure_decisions"}
             C == B \union {"chases"}
             D == C \union {"outcome_notices"}
  <2>2. IsFiniteSet(A) /\ Cardinality(A) <= Cardinality({}) + 1 /\ Cardinality({}) = 0
    BY <2>1, FS_EmptySet
  <2> HIDE DEF A
  <2>3. IsFiniteSet(B) /\ Cardinality(B) <= Cardinality(A) + 1
    BY <2>1, <2>2
  <2> HIDE DEF B
  <2>4. IsFiniteSet(C) /\ Cardinality(C) <= Cardinality(B) + 1
    BY <2>1, <2>3
  <2> HIDE DEF C
  <2>5. IsFiniteSet(D) /\ Cardinality(D) <= Cardinality(C) + 1
    BY <2>1, <2>4
  <2>6. D = Tables
    BY DEF A, B, C, Tables
  <2> HIDE DEF D
  <2>7. /\ Cardinality(A) \in Nat /\ Cardinality(B) \in Nat /\ Cardinality(C) \in Nat
        /\ Cardinality(D) \in Nat
    BY <2>2, <2>3, <2>4, <2>5, FS_CardinalityType
  <2>8. Cardinality(D) <= 4
    BY <2>2, <2>3, <2>4, <2>5, <2>7
  <2>9. QED
    BY <2>5, <2>6, <2>8
<1>2. IsFiniteSet(T) /\ Cardinality(T) <= Cardinality(Tables)
  BY <1>1, FS_Subset
<1>3. Cardinality(T) \in Nat /\ Cardinality(Tables) \in Nat
  BY <1>1, <1>2, FS_CardinalityType
<1>4. \A t \in T : Cardinality(T \ {t}) = Cardinality(T) - 1
  BY <1>2, FS_RemoveElement
<1>5. QED
  BY <1>1, <1>2, <1>3, <1>4

LEMMA UndoneIsBounded ==
  ASSUME NEW l \in LeadRecord
  PROVE  Undone(l) \in 0..24 /\ Undone(Persisted(l)) = Undone(l)
<1>1. /\ Persisted(l).decision = l.decision /\ Persisted(l).review = l.review
      /\ Persisted(l).chaseId = l.chaseId /\ Persisted(l).chase = l.chase
      /\ Persisted(l).noticeId = l.noticeId /\ Persisted(l).notice = l.notice
  BY DEF Persisted, LeadRecord
<1>2. Undone(Persisted(l)) = Undone(l)
  BY <1>1 DEF Undone
<1>3. /\ Missing(l.decision # "none") \in {0, 4}
      /\ Missing(l.review # "none") \in {0, 4}
      /\ Missing(l.chaseId # 0) \in {0, 4}
      /\ Missing(l.chase = "sent") \in {0, 4}
      /\ Missing(l.noticeId # 0) \in {0, 4}
      /\ Missing(l.notice = "sent") \in {0, 4}
  BY DEF Missing
<1>4. Undone(l) \in 0..24
  BY <1>3 DEF Undone
<1>5. QED
  BY <1>2, <1>4

(* Each command of advance adds the entry it is for, and takes none away.   *)
LEMMA CommandsMakeEntries ==
  ASSUME NEW l \in LeadRecord
  PROVE  /\ Undone(StartPrequalification(l)) = Undone(l)
         /\ Undone(StartReview(l)) = Undone(l)
         /\ \A o \in Outcomes :
              l.decision = "none" => Undone(RecordDecision(l, o)) = Undone(l) - 4
         /\ \A o \in Finals :
              l.review = "none" => Undone(RecordReview(l, o)) = Undone(l) - 4
         /\ l.chaseId = 0 /\ l.chase # "sent" => Undone(OpenChase(l)) = Undone(l) - 4
         /\ l.noticeId = 0 /\ l.notice # "sent" => Undone(OpenNotice(l)) = Undone(l) - 4
         /\ l.chase # "sent" => Undone(MarkChaseSent(l)) = Undone(l) - 4
         /\ l.notice # "sent" => Undone(MarkNoticeSent(l)) = Undone(l) - 4
<1> USE DEF LeadRecord, Undone, Missing
<1>1. Undone(StartPrequalification(l)) = Undone(l)
  BY DEF StartPrequalification
<1>2. Undone(StartReview(l)) = Undone(l)
  BY DEF StartReview
<1>3. \A o \in Outcomes :
        l.decision = "none" => Undone(RecordDecision(l, o)) = Undone(l) - 4
  BY DEF RecordDecision, Outcomes, Finals
<1>4. \A o \in Finals :
        l.review = "none" => Undone(RecordReview(l, o)) = Undone(l) - 4
  BY DEF RecordReview, Finals
<1>5. l.chaseId = 0 /\ l.chase # "sent" => Undone(OpenChase(l)) = Undone(l) - 4
  <2> DEFINE k == OpenChase(l)
  <2>1. /\ k.decision = l.decision /\ k.review = l.review
        /\ k.chaseId = l.version + 1 /\ k.chase = "pending"
        /\ k.noticeId = l.noticeId /\ k.notice = l.notice
    BY DEF OpenChase, NewId
  <2>2. k.chaseId # 0
    BY <2>1
  <2> HIDE DEF k
  <2>3. l.chaseId = 0 /\ l.chase # "sent" => Undone(k) = Undone(l) - 4
    BY <2>1, <2>2
  <2>4. QED
    BY <2>3 DEF k
<1>6. l.noticeId = 0 /\ l.notice # "sent" => Undone(OpenNotice(l)) = Undone(l) - 4
  <2> DEFINE k == OpenNotice(l)
  <2>1. /\ k.decision = l.decision /\ k.review = l.review
        /\ k.noticeId = l.version + 1 /\ k.notice = "pending"
        /\ k.chaseId = l.chaseId /\ k.chase = l.chase
    BY DEF OpenNotice, NewId
  <2>2. k.noticeId # 0
    BY <2>1
  <2> HIDE DEF k
  <2>3. l.noticeId = 0 /\ l.notice # "sent" => Undone(k) = Undone(l) - 4
    BY <2>1, <2>2
  <2>4. QED
    BY <2>3 DEF k
<1>7. l.chase # "sent" => Undone(MarkChaseSent(l)) = Undone(l) - 4
  BY DEF MarkChaseSent
<1>8. l.notice # "sent" => Undone(MarkNoticeSent(l)) = Undone(l) - 4
  BY DEF MarkNoticeSent
<1>9. QED
  BY <1>1, <1>2, <1>3, <1>4, <1>5, <1>6, <1>7, <1>8

(* A request that leaves has nothing left to do.                            *)
LEMMA LeavingMoves ==
  ASSUME HandlersLocal, NEW h \in Handlers, pc[h] # "idle", Leave(h)
  PROVE  Moves(h)
<1>1. pc'[h] = "idle" /\ \A g \in Handlers \ {h} : Untouched(g)
  BY DEF Leave, HandlersLocal, HandlerTypes, Untouched
<1>2. mem[h] \in LeadRecord /\ todo[h] \in SUBSET Tables
  BY DEF HandlersLocal, HandlerTypes
<1>3. Left(h)' = 0
  BY <1>1 DEF Left, StepsLeft
<1>4. Left(h) > 0
  BY <1>2, UndoneIsBounded, TablesAreCounted DEF Left, StepsLeft
<1>5. QED
  BY <1>1, <1>3, <1>4 DEF Moves

(* Either the save throws and the request is over, or it goes on at place.  *)
LEMMA SavingMoves ==
  ASSUME HandlersLocal, NEW h \in Handlers, pc[h] # "idle",
         NEW l \in LeadRecord, NEW place \in {"advance", "pull", "review"},
         SaveThen(h, l, place),
         (IF place = "advance" THEN 3 ELSE 2) + Undone(l) < Left(h)
  PROVE  Moves(h)
<1>1. CASE Leave(h)
  BY <1>1, LeavingMoves
<1>2. CASE ~ Leave(h)
  <2>1. /\ pc' = [pc EXCEPT ![h] = place] /\ mem' = [mem EXCEPT ![h] = Persisted(l)]
        /\ answer' = [answer EXCEPT ![h] = "none"] /\ UNCHANGED <<kind, todo, email>>
    BY <1>2 DEF SaveThen
  <2>2. pc'[h] = place /\ mem'[h] = Persisted(l) /\ answer'[h] = "none"
    BY <2>1 DEF HandlersLocal, HandlerTypes
  <2>3. \A g \in Handlers \ {h} : Untouched(g)
    BY <2>1 DEF HandlersLocal, HandlerTypes, Untouched
  <2>4. Undone(Persisted(l)) = Undone(l)
    BY UndoneIsBounded
  <2>5. Left(h)' = (IF place = "advance" THEN 3 ELSE 2) + Undone(l)
    BY <2>2, <2>4 DEF Left, StepsLeft
  <2>6. QED
    BY <2>3, <2>5 DEF Moves
<1>3. QED
  BY <1>1, <1>2

(* A request that begins to load again, to continue after a reply.          *)
LEMMA LoadingAgainMoves ==
  ASSUME HandlersLocal, NEW h \in Handlers, pc[h] = "start", StartLoading(h, "continue"),
         UNCHANGED <<email, answer>>
  PROVE  Moves(h)
<1>1. /\ pc'[h] = "load" /\ kind'[h] = "continue" /\ todo'[h] = Tables
      /\ \A g \in Handlers \ {h} : Untouched(g)
  BY DEF StartLoading, HandlersLocal, HandlerTypes, Untouched
<1>2. Cardinality(Tables) \in 0..4
  BY TablesAreCounted
<1>3. Left(h)' < Left(h)
  BY <1>1, <1>2 DEF Left, StepsLeft
<1>4. QED
  BY <1>1, <1>3 DEF Moves

(* Loading is over after as many selects as there are tables.               *)
LEMMA LoadMoves ==
  ASSUME HandlersLocal, TypeOK, NEW h \in Handlers, Load(h)
  PROVE  Moves(h)
<1>1. PICK tables \in IF AtomicLoad THEN {todo[h]} ELSE {{t} : t \in todo[h]} :
        /\ todo' = [todo EXCEPT ![h] = @ \ tables]
        /\ mem' = [mem EXCEPT ![h] = SelectFrom(db, @, tables)]
        /\ pc' = [pc EXCEPT ![h] =
                    IF tables # todo[h] THEN "load"
                    ELSE IF kind[h] = "continue" THEN "advance" ELSE "start"]
  BY DEF Load
<1>2. /\ pc[h] = "load" /\ UNCHANGED <<kind, email, answer>>
      /\ todo[h] \in SUBSET Tables /\ SelectFrom(db, mem[h], tables) \in LeadRecord
  BY SelectIsLead DEF Load, HandlersLocal, HandlerTypes
<1>3. /\ todo'[h] = todo[h] \ tables /\ mem'[h] \in LeadRecord /\ kind'[h] = kind[h]
      /\ \A g \in Handlers \ {h} : Untouched(g)
  BY <1>1, <1>2 DEF HandlersLocal, HandlerTypes, Untouched
<1>4. Cardinality(todo[h]) \in 0..4 /\ Undone(mem'[h]) \in 0..24
  BY <1>2, <1>3, TablesAreCounted, UndoneIsBounded
<1>5. CASE tables = todo[h]
  <2>1. pc'[h] = IF kind[h] = "continue" THEN "advance" ELSE "start"
    BY <1>1, <1>5 DEF HandlersLocal, HandlerTypes
  <2>2. Left(h)' < Left(h)
    BY <1>2, <1>3, <1>4, <2>1 DEF Left, StepsLeft
  <2>3. QED
    BY <1>3, <2>2 DEF Moves
<1>6. CASE tables # todo[h]
  <2>1. pc'[h] = "load"
    BY <1>1, <1>6 DEF HandlersLocal, HandlerTypes
  <2>2. PICK t \in todo[h] : tables = {t}
    BY <1>1, <1>6
  <2>3. Cardinality(todo'[h]) = Cardinality(todo[h]) - 1
    BY <1>2, <1>3, <2>2, TablesAreCounted
  <2>4. Left(h)' < Left(h)
    BY <1>2, <1>3, <1>4, <2>1, <2>3 DEF Left, StepsLeft
  <2>5. QED
    BY <1>3, <2>4 DEF Moves
<1>7. QED
  BY <1>5, <1>6

(* What the code of a request does on its own, faults included, brings the  *)
(* request nearer to its end; so does an answer of Figure.                  *)
LEMMA OwnStepsMove ==
  ASSUME LocalInv, NEW h \in Handlers, HandlerStep(h) \/ FaultStep(h) \/ FigureStep(h)
  PROVE  Moves(h)
<1>1. /\ HandlersLocal /\ TypeOK
      /\ mem[h] \in LeadRecord /\ answer[h] \in Outcomes \union {"none"} /\ Due(h)
      /\ Undone(mem[h]) \in 0..24
  BY LocalParts, UndoneIsBounded DEF LocalInv, TypeOK
<1>2. ASSUME pc[h] = "advance" PROVE Left(h) = 3 + Undone(mem[h])
  BY <1>2 DEF Left, StepsLeft
<1>3. ASSUME pc[h] \in {"chase", "notice"} PROVE Left(h) = 2 + Undone(mem[h])
  BY <1>3 DEF Left, StepsLeft
<1>4. ASSUME pc[h] \in {"pull", "review"}
      PROVE  Left(h) = (IF answer[h] = "none" THEN 2 ELSE 1) + Undone(mem[h])
  BY <1>4 DEF Left, StepsLeft
<1>5. CASE Load(h)
  BY <1>1, <1>5, LoadMoves
<1>6. CASE Replay(h)
  <2>1. pc[h] = "start" /\ SaveThen(h, mem[h], "advance")
    BY <1>6 DEF Replay
  <2>2. Left(h) = 33
    BY <2>1 DEF Left, StepsLeft
  <2>3. QED
    BY <1>1, <2>1, <2>2, SavingMoves
<1>7. CASE RefuseReply(h)
  BY <1>1, <1>7, LeavingMoves DEF RefuseReply, SaveAndLeave
<1>8. CASE TakeReply(h)
  <2>1. pc[h] = "start"
    BY <1>8 DEF TakeReply
  <2>2. Leave(h) \/ (StartLoading(h, "continue") /\ UNCHANGED <<email, answer>>)
    BY <1>8 DEF TakeReply
  <2>3. QED
    BY <1>1, <2>1, <2>2, LeavingMoves, LoadingAgainMoves
<1>9. CASE RedeliveredReply(h)
  BY <1>1, <1>9, LoadingAgainMoves DEF RedeliveredReply
<1>10. CASE Finish(h)
  BY <1>1, <1>10, LeavingMoves DEF Finish, AdvanceTo
<1>11. CASE Prequalify(h)
  <2>1. pc[h] = "advance" /\ SaveThen(h, StartPrequalification(mem[h]), "pull")
    BY <1>11 DEF Prequalify, AdvanceTo
  <2>2. StartPrequalification(mem[h]) \in LeadRecord
        /\ Undone(StartPrequalification(mem[h])) = Undone(mem[h])
    BY <1>1, CommandsKeepType, CommandsMakeEntries
  <2>3. QED
    BY <1>1, <1>2, <2>1, <2>2, SavingMoves
<1>12. CASE Review(h)
  <2>1. pc[h] = "advance" /\ SaveThen(h, StartReview(mem[h]), "review")
    BY <1>12 DEF Review, AdvanceTo
  <2>2. StartReview(mem[h]) \in LeadRecord /\ Undone(StartReview(mem[h])) = Undone(mem[h])
    BY <1>1, CommandsKeepType, CommandsMakeEntries
  <2>3. QED
    BY <1>1, <1>2, <2>1, <2>2, SavingMoves
<1>13. CASE BeginChase(h)
  <2>1. /\ pc[h] = "advance" /\ NextStep(mem[h]) = "chase" /\ mem[h].chaseId = 0
        /\ SaveThen(h, OpenChase(mem[h]), "advance")
    BY <1>13 DEF BeginChase, AdvanceTo
  <2>2. mem[h].chase # "sent"
    BY <2>1 DEF NextStep
  <2>3. OpenChase(mem[h]) \in LeadRecord /\ Undone(OpenChase(mem[h])) = Undone(mem[h]) - 4
    BY <1>1, <2>1, <2>2, CommandsKeepType, CommandsMakeEntries
  <2>4. QED
    BY <1>1, <1>2, <2>1, <2>3, SavingMoves
<1>14. CASE BeginNotice(h)
  <2>1. /\ pc[h] = "advance" /\ NextStep(mem[h]) = "notify" /\ mem[h].noticeId = 0
        /\ SaveThen(h, OpenNotice(mem[h]), "advance")
    BY <1>14 DEF BeginNotice, AdvanceTo
  <2>2. mem[h].notice # "sent"
    BY <2>1 DEF NextStep
  <2>3. OpenNotice(mem[h]) \in LeadRecord /\ Undone(OpenNotice(mem[h])) = Undone(mem[h]) - 4
    BY <1>1, <2>1, <2>2, CommandsKeepType, CommandsMakeEntries
  <2>4. QED
    BY <1>1, <1>2, <2>1, <2>3, SavingMoves
<1>15. CASE SendChase(h) \/ SendNotice(h)
  <2>1. /\ pc[h] = "advance" /\ pc'[h] \in {"chase", "notice"}
        /\ mem'[h] = mem[h] /\ \A g \in Handlers \ {h} : Untouched(g)
    BY <1>1, <1>15
    DEF SendChase, SendNotice, Request, AdvanceTo, HandlersLocal, HandlerTypes, Untouched
  <2>2. Left(h)' = 2 + Undone(mem[h])
    BY <2>1 DEF Left, StepsLeft
  <2>3. QED
    BY <1>1, <1>2, <2>1, <2>2 DEF Moves
<1>16. CASE DecisionArrives(h)
  <2>1. /\ pc[h] = "pull" /\ answer[h] \in Outcomes
        /\ SaveThen(h, RecordDecision(mem[h], answer[h]), "advance")
    BY <1>1, <1>16 DEF DecisionArrives
  <2>2. mem[h].decision = "none"
    BY <1>1, <2>1 DEF Due, CanRecordDecision
  <2>3. /\ RecordDecision(mem[h], answer[h]) \in LeadRecord
        /\ Undone(RecordDecision(mem[h], answer[h])) = Undone(mem[h]) - 4
    BY <1>1, <2>1, <2>2, CommandsKeepType, CommandsMakeEntries
  <2>4. QED
    BY <1>1, <1>4, <2>1, <2>3, SavingMoves
<1>17. CASE ReviewArrives(h)
  <2>1. /\ pc[h] = "review" /\ answer[h] # "none"
        /\ SaveThen(h, RecordReview(mem[h], answer[h]), "advance")
    BY <1>17 DEF ReviewArrives
  <2>2. answer[h] \in Finals /\ mem[h].review = "none"
    BY <1>1, <2>1 DEF Due, CanReview, NextStep
  <2>3. /\ RecordReview(mem[h], answer[h]) \in LeadRecord
        /\ Undone(RecordReview(mem[h], answer[h])) = Undone(mem[h]) - 4
    BY <1>1, <2>2, CommandsKeepType, CommandsMakeEntries
  <2>4. QED
    BY <1>1, <1>4, <2>1, <2>3, SavingMoves
<1>18. CASE ChaseAnswered(h)
  <2>1. pc[h] = "chase" /\ SaveThen(h, MarkChaseSent(mem[h]), "advance")
    BY <1>18 DEF ChaseAnswered
  <2>2. mem[h].chase # "sent"
    BY <1>1, <2>1 DEF Due, NextStep
  <2>3. /\ MarkChaseSent(mem[h]) \in LeadRecord
        /\ Undone(MarkChaseSent(mem[h])) = Undone(mem[h]) - 4
    BY <1>1, <2>2, CommandsKeepType, CommandsMakeEntries
  <2>4. QED
    BY <1>1, <1>3, <2>1, <2>3, SavingMoves
<1>19. CASE NoticeAnswered(h)
  <2>1. pc[h] = "notice" /\ SaveThen(h, MarkNoticeSent(mem[h]), "advance")
    BY <1>19 DEF NoticeAnswered
  <2>2. NextStep(mem[h]) = "notify" /\ mem[h].notice # "sent"
    BY <1>1, <2>1 DEF Due, NextStep
  <2>3. /\ MarkNoticeSent(mem[h]) \in LeadRecord
        /\ Undone(MarkNoticeSent(mem[h])) = Undone(mem[h]) - 4
    BY <1>1, <2>2, CommandsKeepType, CommandsMakeEntries
  <2>4. QED
    BY <1>1, <1>3, <2>1, <2>3, SavingMoves
<1>20. CASE FaultStep(h)
  <2>1. pc[h] # "idle" /\ Leave(h)
    BY <1>20
    DEF FaultStep, PullFails, ReviewFails, ChaseFails, NoticeFails, Die, SaveFailureAndLeave,
        SaveAndLeave
  <2>2. QED
    BY <1>1, <2>1, LeavingMoves
<1>21. CASE FigureStep(h)
  <2>1. PICK place \in {"pull", "review"}, outcome \in Outcomes : FigureAnswers(h, place, outcome)
    BY <1>21 DEF FigureStep, SoftPull, DocumentReview, Outcomes
  <2>2. /\ pc[h] \in {"pull", "review"} /\ answer[h] = "none"
        /\ pc'[h] = pc[h] /\ answer'[h] = outcome /\ mem'[h] = mem[h]
        /\ \A g \in Handlers \ {h} : Untouched(g)
    BY <1>1, <2>1 DEF FigureAnswers, HandlersLocal, HandlerTypes, Untouched
  <2>3. outcome # "none"
    BY DEF Outcomes, Finals
  <2>4. Left(h)' = 1 + Undone(mem[h])
    BY <2>2, <2>3 DEF Left, StepsLeft
  <2>5. QED
    BY <1>1, <1>4, <2>2, <2>4 DEF Moves
<1>22. QED
  BY <1>5, <1>6, <1>7, <1>8, <1>9, <1>10, <1>11, <1>12, <1>13, <1>14, <1>15, <1>16, <1>17,
     <1>18, <1>19, <1>20, <1>21 DEF HandlerStep

(* What other requests and Borrower Outreach do leaves a request alone.     *)
LEMMA ArrivalsTouchNoOther ==
  ASSUME LocalInv, NEW h \in Handlers, Arrival(h)
  PROVE  pc[h] = "idle" /\ \A g \in Handlers \ {h} : Untouched(g)
<1>1. HandlerTypes
  BY LocalParts DEF HandlersLocal
<1>2. CASE Submit(h)
  BY <1>1, <1>2 DEF Submit, Begin, SaveThen, Leave, HandlerTypes, Untouched
<1>3. CASE RequestReplay(h)
  BY <1>1, <1>3 DEF RequestReplay, Begin, StartLoading, HandlerTypes, Untouched
<1>4. ASSUME NEW r \in Replies, EmailArrives(h, r)
      PROVE  pc[h] = "idle" /\ \A g \in Handlers \ {h} : Untouched(g)
  BY <1>1, <1>4 DEF EmailArrives, Begin, StartLoading, HandlerTypes, Untouched
<1>5. QED
  BY <1>2, <1>3, <1>4 DEF Arrival

LEMMA LeftIsBounded ==
  ASSUME LocalInv, NEW h \in Handlers
  PROVE  Left(h) \in 0..38 /\ (Left(h) = 0 <=> pc[h] = "idle")
<1>1. todo[h] \in SUBSET Tables /\ mem[h] \in LeadRecord
  BY DEF LocalInv, TypeOK
<1>2. Cardinality(todo[h]) \in 0..4 /\ Undone(mem[h]) \in 0..24
  BY <1>1, TablesAreCounted, UndoneIsBounded
<1>3. QED
  BY <1>2 DEF Left, StepsLeft

\* A request has at most 38 steps to do, its calls' answers and faults included.
NeverFar == \A h \in Handlers : Left(h) \in 0..38 /\ (Left(h) = 0 <=> pc[h] = "idle")

\* Each step of a request brings it nearer to its end, and no other step touches it.
OnlyNearer ==
  [][\A h \in Handlers : pc[h] # "idle" =>
       \/ Left(h)' < Left(h)
       \/ Untouched(h) /\ ~ (HandlerStep(h) \/ FaultStep(h) \/ FigureStep(h))]_vars

\* advance's endless loop ends: a request of intake, torn loads, conflicts, faults and any
\* number of other requests included, comes to its end within 38 steps of its own; nothing
\* another does adds a step to it (the safety part of RequestsEnd).
THEOREM RequestsAreFinite == Spec => []NeverFar /\ OnlyNearer
<1>1. LocalInv => NeverFar
  BY LeftIsBounded DEF NeverFar
<1> DEFINE Nearer(h) ==
      \/ Left(h)' < Left(h)
      \/ Untouched(h) /\ ~ (HandlerStep(h) \/ FaultStep(h) \/ FigureStep(h))
<1>2. ASSUME LocalInv, Next, NEW h \in Handlers, pc[h] # "idle" PROVE Nearer(h)
  <2>1. CASE HandlerStep(h) \/ FaultStep(h) \/ FigureStep(h)
    BY <1>2, <2>1, OwnStepsMove DEF Moves
  <2>2. CASE ~ (HandlerStep(h) \/ FaultStep(h) \/ FigureStep(h))
    <3>1. ASSUME NEW e \in requested, Deliver(e) PROVE Untouched(h)
      BY <3>1 DEF Deliver, Untouched
    <3>2. ASSUME NEW g \in Handlers, Arrival(g) PROVE Untouched(h)
      BY <1>2, <3>2, ArrivalsTouchNoOther
    <3>3. ASSUME NEW g \in Handlers, HandlerStep(g) \/ FaultStep(g) \/ FigureStep(g)
          PROVE  Untouched(h)
      BY <1>2, <2>2, <3>3, OwnStepsMove DEF Moves
    <3>4. QED
      BY <1>2, <2>2, <3>1, <3>2, <3>3 DEF Next
  <2>3. QED
    BY <2>1, <2>2
<1> HIDE DEF Nearer
<1>3. LocalInv /\ [Next]_vars => [\A h \in Handlers : pc[h] # "idle" => Nearer(h)]_vars
  BY <1>2
<1>4. Spec => [][\A h \in Handlers : pc[h] # "idle" => Nearer(h)]_vars
  BY <1>3, LocalInvariant, PTL DEF Spec
<1>5. Spec => OnlyNearer
  BY <1>4 DEF Nearer, OnlyNearer
<1>6. QED
  BY <1>1, <1>5, LocalInvariant, PTL

\* What a request waits for can come: there are tables left to select from, the use case is
\* one that works on a Lead it loaded, the email it asked for was handed over.
Awaits(h) ==
  /\ pc[h] = "load" => todo[h] # {} /\ kind[h] \in {"replay", "reply", "continue"}
  /\ pc[h] = "start" => kind[h] \in {"replay", "reply"}
  /\ pc[h] = "chase" => ChaseEmail(mem[h]) \in requested
  /\ pc[h] = "notice" => NoticeEmail(mem[h]) \in requested

NobodyWaitsInVain == \A h \in Handlers : Awaits(h)

(* Where a save leads, nothing has to come that was not asked for.          *)
LEMMA SavingAwaits ==
  ASSUME HandlersLocal, NEW h \in Handlers, NEW l,
         NEW place \in {"advance", "pull", "review"}, SaveThen(h, l, place)
  PROVE  Awaits(h)'
<1>1. pc'[h] \in {"idle", "advance", "pull", "review"}
  BY DEF SaveThen, Leave, HandlersLocal, HandlerTypes
<1>2. QED
  BY <1>1 DEF Awaits

LEMMA LeavingAwaits ==
  ASSUME HandlersLocal, NEW h \in Handlers, Leave(h)
  PROVE  Awaits(h)'
<1>1. pc'[h] = "idle"
  BY DEF Leave, HandlersLocal, HandlerTypes
<1>2. QED
  BY <1>1 DEF Awaits

LEMMA StartLoadingAwaits ==
  ASSUME HandlersLocal, NEW h \in Handlers, NEW k \in {"replay", "reply", "continue"},
         StartLoading(h, k)
  PROVE  Awaits(h)'
<1>1. pc'[h] = "load" /\ kind'[h] = k /\ todo'[h] = Tables
  BY DEF StartLoading, HandlersLocal, HandlerTypes
<1>2. QED
  BY <1>1 DEF Awaits, Tables

(* The request that takes a step awaits afterwards what can come.           *)
LEMMA OwnStepAwaits ==
  ASSUME LocalInv, NEW h \in Handlers, Awaits(h),
         Arrival(h) \/ HandlerStep(h) \/ FaultStep(h) \/ FigureStep(h)
  PROVE  Awaits(h)'
<1>1. HandlersLocal
  BY LocalParts
<1>2. CASE Arrival(h)
  <2>1. CASE Submit(h)
    BY <1>1, <2>1, SavingAwaits DEF Submit
  <2>2. CASE RequestReplay(h)
    BY <1>1, <2>2, StartLoadingAwaits DEF RequestReplay
  <2>3. ASSUME NEW r \in Replies, EmailArrives(h, r) PROVE Awaits(h)'
    BY <1>1, <2>3, StartLoadingAwaits DEF EmailArrives
  <2>4. QED
    BY <1>2, <2>1, <2>2, <2>3 DEF Arrival
<1>3. CASE FaultStep(h)
  <2>1. Leave(h)
    BY <1>3
    DEF FaultStep, PullFails, ReviewFails, ChaseFails, NoticeFails, Die, SaveFailureAndLeave,
        SaveAndLeave
  <2>2. QED
    BY <1>1, <2>1, LeavingAwaits
<1>4. CASE FigureStep(h)
  <2>1. PICK place \in {"pull", "review"}, outcome \in Outcomes : FigureAnswers(h, place, outcome)
    BY <1>4 DEF FigureStep, SoftPull, DocumentReview, Outcomes
  <2>2. QED
    BY <2>1 DEF FigureAnswers, Awaits
<1>5. CASE Load(h)
  <2>1. PICK tables \in IF AtomicLoad THEN {todo[h]} ELSE {{t} : t \in todo[h]} :
          /\ todo' = [todo EXCEPT ![h] = @ \ tables]
          /\ pc' = [pc EXCEPT ![h] =
                      IF tables # todo[h] THEN "load"
                      ELSE IF kind[h] = "continue" THEN "advance" ELSE "start"]
    BY <1>5 DEF Load
  <2>2. pc[h] = "load" /\ kind' = kind
    BY <1>5 DEF Load
  <2>3. todo'[h] = todo[h] \ tables /\ tables \subseteq todo[h]
    BY <1>1, <2>1 DEF HandlersLocal, HandlerTypes
  <2>4. pc'[h] = IF tables # todo[h] THEN "load"
                 ELSE IF kind[h] = "continue" THEN "advance" ELSE "start"
    BY <1>1, <2>1 DEF HandlersLocal, HandlerTypes
  <2>5. QED
    BY <2>2, <2>3, <2>4 DEF Awaits
<1>6. CASE RefuseReply(h) \/ Finish(h)
  BY <1>1, <1>6, LeavingAwaits DEF RefuseReply, SaveAndLeave, Finish
<1>7. CASE TakeReply(h)
  <2>1. StartLoading(h, "continue") \/ Leave(h)
    BY <1>7 DEF TakeReply
  <2>2. QED
    BY <1>1, <2>1, StartLoadingAwaits, LeavingAwaits
<1>8. CASE RedeliveredReply(h)
  BY <1>1, <1>8, StartLoadingAwaits DEF RedeliveredReply
<1>9. CASE SendChase(h)
  <2>1. pc'[h] = "chase" /\ mem' = mem /\ requested' = requested \union {ChaseEmail(mem[h])}
    BY <1>1, <1>9 DEF SendChase, Request, HandlersLocal, HandlerTypes
  <2>2. QED
    BY <2>1 DEF Awaits
<1>10. CASE SendNotice(h)
  <2>1. pc'[h] = "notice" /\ mem' = mem /\ requested' = requested \union {NoticeEmail(mem[h])}
    BY <1>1, <1>10 DEF SendNotice, Request, HandlersLocal, HandlerTypes
  <2>2. QED
    BY <2>1 DEF Awaits
<1>11. CASE \/ Replay(h) \/ Prequalify(h) \/ Review(h) \/ BeginChase(h) \/ BeginNotice(h)
            \/ DecisionArrives(h) \/ ReviewArrives(h) \/ ChaseAnswered(h) \/ NoticeAnswered(h)
  <2>1. \/ SaveThen(h, mem[h], "advance")
        \/ SaveThen(h, StartPrequalification(mem[h]), "pull")
        \/ SaveThen(h, StartReview(mem[h]), "review")
        \/ SaveThen(h, OpenChase(mem[h]), "advance")
        \/ SaveThen(h, OpenNotice(mem[h]), "advance")
        \/ SaveThen(h, RecordDecision(mem[h], answer[h]), "advance")
        \/ SaveThen(h, RecordReview(mem[h], answer[h]), "advance")
        \/ SaveThen(h, MarkChaseSent(mem[h]), "advance")
        \/ SaveThen(h, MarkNoticeSent(mem[h]), "advance")
    BY <1>11
    DEF Replay, Prequalify, Review, BeginChase, BeginNotice, DecisionArrives, ReviewArrives,
        ChaseAnswered, NoticeAnswered
  <2>2. QED
    BY <1>1, <2>1, SavingAwaits
<1>12. QED
  BY <1>2, <1>3, <1>4, <1>5, <1>6, <1>7, <1>8, <1>9, <1>10, <1>11 DEF HandlerStep

(* Emails asked of Borrower Outreach stay asked for.                        *)
LEMMA RequestedGrows ==
  ASSUME [Next]_vars
  PROVE  requested \subseteq requested'
BY DEF Next, vars, Arrival, HandlerStep, FaultStep, FigureStep, services,
       Submit, RequestReplay, EmailArrives, Load, Replay, RefuseReply, TakeReply,
       RedeliveredReply, Finish, Prequalify, Review, BeginChase, BeginNotice, SendChase,
       SendNotice, Request, Deliver, SoftPull, DocumentReview, FigureAnswers, DecisionArrives,
       ReviewArrives, ChaseAnswered, NoticeAnswered, PullFails, ReviewFails, ChaseFails,
       NoticeFails, Die

\* No request of intake waits for something that cannot come: with RequestsAreFinite, only
\* the scheduler (Fairness) stands between a request and its end (advance, findById).
THEOREM RequestsNeverStick == Spec => []NobodyWaitsInVain
<1>1. Init => NobodyWaitsInVain
  BY DEF Init, NobodyWaitsInVain, Awaits
<1>2. ASSUME LocalInv, NobodyWaitsInVain, [Next]_vars, NEW h \in Handlers PROVE Awaits(h)'
  <2>1. Awaits(h) /\ requested \subseteq requested'
    BY <1>2, RequestedGrows DEF NobodyWaitsInVain
  <2>2. ASSUME Untouched(h) PROVE Awaits(h)'
    BY <2>1, <2>2 DEF Untouched, Awaits
  <2>3. CASE UNCHANGED vars
    BY <2>2, <2>3 DEF vars, Untouched
  <2>4. ASSUME NEW e \in requested, Deliver(e) PROVE Awaits(h)'
    BY <2>2, <2>4 DEF Deliver, Untouched
  <2>5. ASSUME NEW g \in Handlers, g # h,
               Arrival(g) \/ HandlerStep(g) \/ FaultStep(g) \/ FigureStep(g)
        PROVE  Awaits(h)'
    BY <1>2, <2>2, <2>5, ArrivalsTouchNoOther, OwnStepsMove DEF Moves
  <2>6. CASE Arrival(h) \/ HandlerStep(h) \/ FaultStep(h) \/ FigureStep(h)
    BY <1>2, <2>1, <2>6, OwnStepAwaits
  <2>7. QED
    BY <1>2, <2>3, <2>4, <2>5, <2>6 DEF Next
<1>3. LocalInv /\ NobodyWaitsInVain /\ [Next]_vars => NobodyWaitsInVain'
  BY <1>2 DEF NobodyWaitsInVain
<1>4. QED
  BY <1>1, <1>3, LocalInvariant, PTL DEF Spec

------------------------------------------------------------------------------
(* "sent" means delivered, torn loads or not: a claim of delivery and the   *)
(* id it is about are read in one select and written in one save.          *)

\* What l claims as sent is in box.
ClaimsHold(l, box) ==
  /\ l.chase = "sent" => \E d \in box : d.about = "chase" /\ d.key = l.chaseId
  /\ l.notice = "sent" => \E d \in box : d.about = "notice" /\ d.key = l.noticeId

DeliveryInv == ClaimsHold(db, inbox) /\ \A h \in Handlers : ClaimsHold(mem[h], inbox)

(* Claims of l that k took over hold for k.                                 *)
LEMMA TakenOverClaimsHold ==
  ASSUME NEW l, NEW k, NEW box, ClaimsHold(l, box),
         k.chase = "sent" => l.chase = "sent" /\ k.chaseId = l.chaseId,
         k.notice = "sent" => l.notice = "sent" /\ k.noticeId = l.noticeId
  PROVE  ClaimsHold(k, box)
BY DEF ClaimsHold

(* No command but the two that record a delivery claims one.                *)
LEMMA CommandsClaimNothing ==
  ASSUME NEW l \in LeadRecord, NEW box, ClaimsHold(l, box)
  PROVE  /\ ClaimsHold(StartPrequalification(l), box)
         /\ \A o : ClaimsHold(RecordDecision(l, o), box)
         /\ ClaimsHold(Fail(l), box)
         /\ ClaimsHold(OpenChase(l), box)
         /\ ClaimsHold(MarkChaseFailed(l), box)
         /\ \A r : ClaimsHold(AcceptReply(l, r), box)
         /\ ClaimsHold(StartReview(l), box)
         /\ \A o : ClaimsHold(RecordReview(l, o), box)
         /\ ClaimsHold(OpenNotice(l), box)
         /\ ClaimsHold(MarkNoticeFailed(l), box)
         /\ ClaimsHold(Persisted(l), box)
<1> USE DEF LeadRecord, ClaimsHold
<1>1. ClaimsHold(StartPrequalification(l), box)
  BY DEF StartPrequalification
<1>2. \A o : ClaimsHold(RecordDecision(l, o), box)
  BY DEF RecordDecision
<1>3. ClaimsHold(Fail(l), box)
  BY DEF Fail
<1>4. ClaimsHold(OpenChase(l), box)
  BY DEF OpenChase
<1>5. ClaimsHold(MarkChaseFailed(l), box)
  BY DEF MarkChaseFailed, Fail
<1>6. \A r : ClaimsHold(AcceptReply(l, r), box)
  BY DEF AcceptReply
<1>7. ClaimsHold(StartReview(l), box)
  BY DEF StartReview
<1>8. \A o : ClaimsHold(RecordReview(l, o), box)
  BY DEF RecordReview
<1>9. ClaimsHold(OpenNotice(l), box)
  BY DEF OpenNotice
<1>10. ClaimsHold(MarkNoticeFailed(l), box)
  BY DEF MarkNoticeFailed, Fail
<1>11. ClaimsHold(Persisted(l), box)
  BY DEF Persisted
<1>12. QED
  BY <1>1, <1>2, <1>3, <1>4, <1>5, <1>6, <1>7, <1>8, <1>9, <1>10, <1>11

(* A save of a Lead whose claims hold keeps all claims true.                *)
LEMMA SaveKeepsClaims ==
  ASSUME TypeOK, DeliveryInv, NEW h \in Handlers, NEW l \in LeadRecord,
         ClaimsHold(l, inbox), inbox' = inbox, db' = db \/ db' = Saved(l),
         mem' = mem \/ mem' = [mem EXCEPT ![h] = Submitted] \/ mem' = [mem EXCEPT ![h] = Persisted(l)]
  PROVE  DeliveryInv'
<1>1. ClaimsHold(Saved(l), inbox)
  BY DEF DeliveryInv, ClaimsHold, Saved, SavedOver
<1>2. ClaimsHold(Persisted(l), inbox)
  BY CommandsClaimNothing
<1>3. ClaimsHold(Submitted, inbox)
  BY DEF ClaimsHold, Submitted
<1>4. mem \in [Handlers -> LeadRecord]
  BY DEF TypeOK
<1>5. ASSUME NEW g \in Handlers PROVE ClaimsHold(mem'[g], inbox)
  BY <1>2, <1>3, <1>4 DEF DeliveryInv
<1>6. QED
  BY <1>1, <1>5 DEF DeliveryInv

(* No step makes a claim of delivery false.                                *)
LEMMA StepKeepsClaims ==
  ASSUME LocalInv, DeliveryInv, [Next]_vars
  PROVE  DeliveryInv'
<1>1. TypeOK /\ mem \in [Handlers -> LeadRecord] /\ db \in LeadRecord
  BY DEF LocalInv, TypeOK
<1>2. \A h \in Handlers : mem[h] \in LeadRecord /\ ClaimsHold(mem[h], inbox)
  BY <1>1 DEF DeliveryInv
<1>3. Submitted \in LeadRecord /\ ClaimsHold(Submitted, inbox)
  BY SubmittedIsLead DEF ClaimsHold, Submitted
<1>4. ASSUME NEW h \in Handlers, Submit(h) PROVE DeliveryInv'
  <2>1. Submitted \in LeadRecord /\ ClaimsHold(Submitted, inbox)
    BY <1>3
  <2>2. QED
    BY <1>1, <1>4, <2>1, SaveKeepsClaims
    DEF Submit, SaveThen, Leave, services
<1>5. ASSUME NEW h \in Handlers, Replay(h) PROVE DeliveryInv'
  <2>1. mem[h] \in LeadRecord /\ ClaimsHold(mem[h], inbox)
    BY <1>2
  <2>2. QED
    BY <1>1, <1>5, <2>1, SaveKeepsClaims
    DEF Replay, SaveThen, Leave, services
<1>6. ASSUME NEW h \in Handlers, RefuseReply(h) PROVE DeliveryInv'
  <2>1. mem[h] \in LeadRecord /\ ClaimsHold(mem[h], inbox)
    BY <1>2
  <2>2. QED
    BY <1>1, <1>6, <2>1, SaveKeepsClaims
    DEF RefuseReply, SaveAndLeave, Leave, services
<1>7. ASSUME NEW h \in Handlers, TakeReply(h) PROVE DeliveryInv'
  <2>1. AcceptReply(mem[h], email[h]) \in LeadRecord /\ ClaimsHold(AcceptReply(mem[h], email[h]), inbox)
    BY <1>2, <1>7, CommandsKeepType, CommandsClaimNothing DEF LocalInv, CarriesEmail, TakeReply
  <2>2. QED
    BY <1>1, <1>7, <2>1, SaveKeepsClaims
    DEF TakeReply, StartLoading, Leave, services
<1>8. ASSUME NEW h \in Handlers, Prequalify(h) PROVE DeliveryInv'
  <2>1. StartPrequalification(mem[h]) \in LeadRecord /\ ClaimsHold(StartPrequalification(mem[h]), inbox)
    BY <1>2, CommandsKeepType, CommandsClaimNothing
  <2>2. QED
    BY <1>1, <1>8, <2>1, SaveKeepsClaims
    DEF Prequalify, SaveThen, Leave, services
<1>9. ASSUME NEW h \in Handlers, Review(h) PROVE DeliveryInv'
  <2>1. StartReview(mem[h]) \in LeadRecord /\ ClaimsHold(StartReview(mem[h]), inbox)
    BY <1>2, CommandsKeepType, CommandsClaimNothing
  <2>2. QED
    BY <1>1, <1>9, <2>1, SaveKeepsClaims
    DEF Review, SaveThen, Leave, services
<1>10. ASSUME NEW h \in Handlers, BeginChase(h) PROVE DeliveryInv'
  <2>1. OpenChase(mem[h]) \in LeadRecord /\ ClaimsHold(OpenChase(mem[h]), inbox)
    BY <1>2, CommandsKeepType, CommandsClaimNothing
  <2>2. QED
    BY <1>1, <1>10, <2>1, SaveKeepsClaims
    DEF BeginChase, SaveThen, Leave, services
<1>11. ASSUME NEW h \in Handlers, BeginNotice(h) PROVE DeliveryInv'
  <2>1. OpenNotice(mem[h]) \in LeadRecord /\ ClaimsHold(OpenNotice(mem[h]), inbox)
    BY <1>2, CommandsKeepType, CommandsClaimNothing
  <2>2. QED
    BY <1>1, <1>11, <2>1, SaveKeepsClaims
    DEF BeginNotice, SaveThen, Leave, services
<1>12. ASSUME NEW h \in Handlers, DecisionArrives(h) PROVE DeliveryInv'
  <2>1. RecordDecision(mem[h], answer[h]) \in LeadRecord /\ ClaimsHold(RecordDecision(mem[h], answer[h]), inbox)
    BY <1>1, <1>2, <1>12, CommandsKeepType, CommandsClaimNothing DEF TypeOK, DecisionArrives
  <2>2. QED
    BY <1>1, <1>12, <2>1, SaveKeepsClaims
    DEF DecisionArrives, SaveThen, Leave, services
<1>13. ASSUME NEW h \in Handlers, ReviewArrives(h) PROVE DeliveryInv'
  <2>1. RecordReview(mem[h], answer[h]) \in LeadRecord /\ ClaimsHold(RecordReview(mem[h], answer[h]), inbox)
    BY <1>2, <1>13, CommandsKeepType, CommandsClaimNothing DEF LocalInv, Due, ReviewArrives
  <2>2. QED
    BY <1>1, <1>13, <2>1, SaveKeepsClaims
    DEF ReviewArrives, SaveThen, Leave, services
<1>14. ASSUME NEW h \in Handlers, ChaseAnswered(h) PROVE DeliveryInv'
  <2> DEFINE l == MarkChaseSent(mem[h])
  <2>1. l \in LeadRecord
    BY <1>2, <1>14, CommandsKeepType DEF LocalInv, Due, ChaseAnswered
  <2>2. l.chaseId = mem[h].chaseId /\ l.notice = mem[h].notice /\ l.noticeId = mem[h].noticeId
    BY <1>2 DEF MarkChaseSent, LeadRecord
  <2>3. ClaimsHold(l, inbox)
    BY <1>2, <1>14, <2>2 DEF ChaseAnswered, Delivered, ChaseEmail, ClaimsHold
  <2>4. QED
    BY <1>1, <1>14, <2>1, <2>3, SaveKeepsClaims DEF ChaseAnswered, SaveThen, Leave, services
<1>15. ASSUME NEW h \in Handlers, NoticeAnswered(h) PROVE DeliveryInv'
  <2> DEFINE l == MarkNoticeSent(mem[h])
  <2>1. l \in LeadRecord
    BY <1>2, <1>15, CommandsKeepType DEF LocalInv, Due, NoticeAnswered
  <2>2. l.noticeId = mem[h].noticeId /\ l.chase = mem[h].chase /\ l.chaseId = mem[h].chaseId
    BY <1>2 DEF MarkNoticeSent, LeadRecord
  <2>3. ClaimsHold(l, inbox)
    BY <1>2, <1>15, <2>2 DEF NoticeAnswered, Delivered, NoticeEmail, ClaimsHold
  <2>4. QED
    BY <1>1, <1>15, <2>1, <2>3, SaveKeepsClaims DEF NoticeAnswered, SaveThen, Leave, services
<1>16. ASSUME NEW h \in Handlers, PullFails(h) PROVE DeliveryInv'
  <2>1. Fail(mem[h]) \in LeadRecord /\ ClaimsHold(Fail(mem[h]), inbox)
    BY <1>2, CommandsKeepType, CommandsClaimNothing
  <2>2. QED
    BY <1>1, <1>16, <2>1, SaveKeepsClaims
    DEF PullFails, SaveFailureAndLeave, SaveAndLeave, Leave, services
<1>17. ASSUME NEW h \in Handlers, ReviewFails(h) PROVE DeliveryInv'
  <2>1. Fail(mem[h]) \in LeadRecord /\ ClaimsHold(Fail(mem[h]), inbox)
    BY <1>2, CommandsKeepType, CommandsClaimNothing
  <2>2. QED
    BY <1>1, <1>17, <2>1, SaveKeepsClaims
    DEF ReviewFails, SaveFailureAndLeave, SaveAndLeave, Leave, services
<1>18. ASSUME NEW h \in Handlers, ChaseFails(h) PROVE DeliveryInv'
  <2>1. MarkChaseFailed(mem[h]) \in LeadRecord /\ ClaimsHold(MarkChaseFailed(mem[h]), inbox)
    BY <1>2, CommandsKeepType, CommandsClaimNothing
  <2>2. QED
    BY <1>1, <1>18, <2>1, SaveKeepsClaims
    DEF ChaseFails, SaveFailureAndLeave, SaveAndLeave, Leave, services
<1>19. ASSUME NEW h \in Handlers, NoticeFails(h) PROVE DeliveryInv'
  <2>1. MarkNoticeFailed(mem[h]) \in LeadRecord /\ ClaimsHold(MarkNoticeFailed(mem[h]), inbox)
    BY <1>2, CommandsKeepType, CommandsClaimNothing
  <2>2. QED
    BY <1>1, <1>19, <2>1, SaveKeepsClaims
    DEF NoticeFails, SaveFailureAndLeave, SaveAndLeave, Leave, services
<1>20. ASSUME NEW h \in Handlers, Finish(h) \/ Die(h) \/ RedeliveredReply(h) \/ RequestReplay(h) PROVE DeliveryInv'
  BY <1>1, <1>3, <1>20, SaveKeepsClaims
  DEF Finish, Die, RedeliveredReply, RequestReplay, StartLoading, Leave, services
<1>21. ASSUME NEW h \in Handlers, NEW r \in Replies, EmailArrives(h, r) PROVE DeliveryInv'
  BY <1>1, <1>3, <1>21, SaveKeepsClaims DEF EmailArrives, StartLoading, services
<1>22. ASSUME NEW h \in Handlers, Load(h) PROVE DeliveryInv'
  <2>1. PICK tables : mem' = [mem EXCEPT ![h] = SelectFrom(db, @, tables)]
    BY <1>22 DEF Load
  <2>2. db' = db /\ inbox' = inbox
    BY <1>22 DEF Load, services
  <2>3. ClaimsHold(SelectFrom(db, mem[h], tables), inbox)
    BY <1>2 DEF DeliveryInv, ClaimsHold, SelectFrom
  <2>4. QED
    BY <1>1, <1>2, <2>1, <2>2, <2>3 DEF DeliveryInv
<1>23. ASSUME NEW h \in Handlers, SendChase(h) \/ SendNotice(h) PROVE DeliveryInv'
  BY <1>1, <1>3, <1>23, SaveKeepsClaims DEF SendChase, SendNotice, Request
<1>24. ASSUME NEW h \in Handlers, NEW o \in Outcomes, SoftPull(h, o) \/ DocumentReview(h, o) PROVE DeliveryInv'
  BY <1>1, <1>3, <1>24, SaveKeepsClaims DEF SoftPull, DocumentReview, FigureAnswers
<1>25. ASSUME NEW e \in requested, Deliver(e) PROVE DeliveryInv'
  BY <1>25 DEF Deliver, DeliveryInv, ClaimsHold
<1>26. CASE UNCHANGED vars
  BY <1>26 DEF vars, DeliveryInv, ClaimsHold
<1>27. Finals \subseteq Outcomes
  BY DEF Outcomes
<1>28. QED
  BY <1>4, <1>5, <1>6, <1>7, <1>8, <1>9, <1>10, <1>11, <1>12, <1>13, <1>14, <1>15, <1>16, <1>17, <1>18, <1>19, <1>20, <1>21, <1>22, <1>23, <1>24, <1>25, <1>26, <1>27
  DEF Next, Arrival, HandlerStep, FaultStep, FigureStep

(* Whatever is torn, lost or retried, "sent" is claimed only for an email   *)
(* that reached the borrower.                                               *)
THEOREM DeliveryClaimsAreTrue == Spec => []SentMeansDelivered
<1>1. Init => DeliveryInv
  BY DEF Init, DeliveryInv, ClaimsHold, Submitted
<1>2. LocalInv /\ DeliveryInv /\ [Next]_vars => DeliveryInv'
  BY StepKeepsClaims
<1>3. DeliveryInv => SentMeansDelivered
  BY DEF DeliveryInv, ClaimsHold, SentMeansDelivered, SentOnlyIfDelivered, Delivered,
         ChaseEmail, NoticeEmail
<1>4. QED
  BY <1>1, <1>2, <1>3, LocalInvariant, PTL DEF Spec

------------------------------------------------------------------------------
(* Written once, torn loads or not: ids and decisions are never replaced,   *)
(* so the borrower gets one Chase and one Outcome Notice at most.           *)

(* What no save can replace: decisions are inserted with ON CONFLICT DO     *)
(* NOTHING, and the ids are the keys the upserts go by.                     *)
WrittenOnce(l, later) ==
  /\ l.version <= later.version
  /\ l.decision # "none" => later.decision = l.decision
  /\ l.review # "none" => later.review = l.review
  /\ l.chaseId # 0 => later.chaseId = l.chaseId
  /\ l.noticeId # 0 => later.noticeId = l.noticeId

KnowsIdsOf(l, rows) == l.chaseId \in {0, rows.chaseId} /\ l.noticeId \in {0, rows.noticeId}

KeyIsOf(e, rows) ==
  e.key # 0 /\ e.key = IF e.about = "chase" THEN rows.chaseId ELSE rows.noticeId

AtMostOneOfEach == \A d, e \in inbox : d.about = e.about => d = e

IdsInv ==
  /\ \A h \in Handlers : KnowsIdsOf(mem[h], db)
  /\ \A e \in requested : KeyIsOf(e, db)
  /\ inbox \subseteq requested
  /\ AtMostOneOfEach

(* A step that saves l at most, and asks nothing of anybody.               *)
SavesAtMost(h, l) ==
  /\ UNCHANGED <<requested, inbox>>
  /\ \/ db' = db /\ (mem' = mem \/ mem' = [mem EXCEPT ![h] = Submitted])
     \/ /\ CanCommit(l) /\ db' = Saved(l)
        /\ mem' = [mem EXCEPT ![h] = Submitted] \/ mem' = [mem EXCEPT ![h] = Persisted(l)]

(* markPersisted changes nothing but the version.                          *)
LEMMA PersistedFields ==
  ASSUME NEW l \in LeadRecord
  PROVE  /\ Persisted(l).version = l.version + 1
         /\ Persisted(l).decision = l.decision /\ Persisted(l).status = l.status
         /\ Persisted(l).review = l.review
         /\ Persisted(l).chaseId = l.chaseId /\ Persisted(l).chase = l.chase
         /\ Persisted(l).reply = l.reply
         /\ Persisted(l).noticeId = l.noticeId /\ Persisted(l).notice = l.notice
BY DEF Persisted, LeadRecord

(* Whatever Lead is saved, what is written once stays, and with it the ids  *)
(* that the handlers and the emails carry.                                  *)
LEMMA SavesKeepIds ==
  ASSUME TypeOK, IdsInv, NEW h \in Handlers, NEW l \in LeadRecord, SavesAtMost(h, l)
  PROVE  IdsInv' /\ WrittenOnce(db, db')
<1>1. db \in LeadRecord /\ mem \in [Handlers -> LeadRecord] /\ db.version \in Nat
  BY DEF TypeOK, LeadRecord
<1>2. WrittenOnce(db, db') /\ (CanCommit(l) /\ db' = Saved(l) => KnowsIdsOf(Persisted(l), db'))
  <2>1. CASE db' = db
    BY <1>1, <2>1, PersistedFields DEF WrittenOnce, KnowsIdsOf, CanCommit, Saved, SavedOver
  <2>2. CASE CanCommit(l) /\ db' = Saved(l)
    BY <1>1, <2>2, PersistedFields DEF WrittenOnce, KnowsIdsOf, CanCommit, Saved, SavedOver
  <2>3. QED
    BY <2>1, <2>2 DEF SavesAtMost
<1>3. \A k : KnowsIdsOf(k, db) => KnowsIdsOf(k, db')
  BY <1>2 DEF WrittenOnce, KnowsIdsOf
<1>4. KnowsIdsOf(Submitted, db')
  BY DEF KnowsIdsOf, Submitted
<1>5. ASSUME NEW g \in Handlers PROVE KnowsIdsOf(mem'[g], db')
  BY <1>1, <1>2, <1>3, <1>4 DEF SavesAtMost, IdsInv
<1>6. \A e \in requested : KeyIsOf(e, db')
  BY <1>2 DEF IdsInv, KeyIsOf, WrittenOnce
<1>7. QED
  BY <1>2, <1>5, <1>6 DEF IdsInv, SavesAtMost, AtMostOneOfEach

(* All a step can do to the rows, the handlers' Leads and the emails.      *)
LEMMA StepsSaveLoadOrSend ==
  ASSUME LocalInv, [Next]_vars
  PROVE  \/ \E h \in Handlers, l \in LeadRecord : SavesAtMost(h, l)
         \/ \E h \in Handlers : Load(h) \/ SendChase(h) \/ SendNotice(h)
         \/ \E e \in requested : Deliver(e)
         \/ UNCHANGED <<db, mem, requested, inbox>>
<1> DEFINE Goal == \E h \in Handlers, l \in LeadRecord : SavesAtMost(h, l)
<1>1. TypeOK /\ mem \in [Handlers -> LeadRecord]
  BY DEF LocalInv, TypeOK
<1>2. ASSUME NEW h \in Handlers, NEW l \in LeadRecord, SavesAtMost(h, l) PROVE Goal
  BY <1>2
<1>3. ASSUME NEW h \in Handlers, NEW l, NEW place, SaveThen(h, l, place), UNCHANGED <<requested, inbox>>
      PROVE  SavesAtMost(h, l)
  BY <1>3 DEF SaveThen, Leave, SavesAtMost
<1>4. ASSUME NEW h \in Handlers, NEW l, SaveAndLeave(h, l), UNCHANGED <<requested, inbox>>
      PROVE  SavesAtMost(h, l)
  BY <1>4 DEF SaveAndLeave, Leave, SavesAtMost
<1>5. ASSUME NEW h \in Handlers, UNCHANGED <<db, requested, inbox>>,
             mem' = mem \/ mem' = [mem EXCEPT ![h] = Submitted]
      PROVE  SavesAtMost(h, Submitted)
  BY <1>5 DEF SavesAtMost
<1> HIDE DEF Goal
<1>6. ASSUME NEW h \in Handlers, Submit(h) PROVE Goal
  BY <1>2, <1>3, <1>6, SubmittedIsLead DEF Submit, services
<1>7. ASSUME NEW h \in Handlers, NEW r \in Replies, RequestReplay(h) \/ EmailArrives(h, r) PROVE Goal
  BY <1>2, <1>5, <1>7, SubmittedIsLead DEF RequestReplay, EmailArrives, StartLoading, services
<1>8. ASSUME NEW h \in Handlers, RequestReplay(h) \/ RedeliveredReply(h) \/ Finish(h) \/ Die(h)
      PROVE  Goal
  BY <1>2, <1>5, <1>8, SubmittedIsLead
  DEF RequestReplay, RedeliveredReply, StartLoading, Finish, Die, Leave, services
<1>9. ASSUME NEW h \in Handlers, Replay(h) \/ RefuseReply(h) PROVE Goal
  BY <1>1, <1>2, <1>3, <1>4, <1>9 DEF Replay, RefuseReply, services
<1>10. ASSUME NEW h \in Handlers, TakeReply(h) PROVE Goal
  <2>1. AcceptReply(mem[h], email[h]) \in LeadRecord
    BY <1>1, <1>10, CommandsKeepType DEF LocalInv, CarriesEmail, TakeReply
  <2>2. SavesAtMost(h, AcceptReply(mem[h], email[h]))
    BY <1>10 DEF TakeReply, StartLoading, Leave, SavesAtMost, services
  <2>3. QED
    BY <1>2, <2>1, <2>2
<1>11. ASSUME NEW h \in Handlers, Prequalify(h) \/ Review(h) \/ BeginChase(h) \/ BeginNotice(h)
       PROVE  Goal
  <2>1. mem[h] \in LeadRecord
    BY <1>1
  <2>2. QED
    BY <1>2, <1>3, <1>11, <2>1, CommandsKeepType
    DEF Prequalify, Review, BeginChase, BeginNotice, services
<1>12. ASSUME NEW h \in Handlers, DecisionArrives(h) \/ ReviewArrives(h) PROVE Goal
  <2>1. mem[h] \in LeadRecord
    BY <1>1
  <2>2. /\ DecisionArrives(h) => RecordDecision(mem[h], answer[h]) \in LeadRecord
        /\ ReviewArrives(h) => RecordReview(mem[h], answer[h]) \in LeadRecord
    BY <1>1, <2>1, CommandsKeepType DEF LocalInv, TypeOK, Due, DecisionArrives, ReviewArrives
  <2>3. QED
    BY <1>2, <1>3, <1>12, <2>2 DEF DecisionArrives, ReviewArrives, services
<1>13. ASSUME NEW h \in Handlers, ChaseAnswered(h) \/ NoticeAnswered(h) PROVE Goal
  <2>1. mem[h] \in LeadRecord
    BY <1>1
  <2>2. /\ MarkChaseSent(mem[h]) \in LeadRecord
        /\ NoticeAnswered(h) => MarkNoticeSent(mem[h]) \in LeadRecord
    BY <2>1, CommandsKeepType DEF LocalInv, Due, NoticeAnswered
  <2>3. QED
    BY <1>2, <1>3, <1>13, <2>2 DEF ChaseAnswered, NoticeAnswered, services
<1>14. ASSUME NEW h \in Handlers, PullFails(h) \/ ReviewFails(h) \/ ChaseFails(h) \/ NoticeFails(h)
       PROVE  Goal
  <2>1. /\ Fail(mem[h]) \in LeadRecord /\ MarkChaseFailed(mem[h]) \in LeadRecord
        /\ MarkNoticeFailed(mem[h]) \in LeadRecord
    BY <1>1, CommandsKeepType
  <2>2. QED
    BY <1>2, <1>4, <1>14, <2>1
    DEF PullFails, ReviewFails, ChaseFails, NoticeFails, SaveFailureAndLeave, services
<1>15. ASSUME NEW h \in Handlers, FigureStep(h) PROVE UNCHANGED <<db, mem, requested, inbox>>
  BY <1>15 DEF FigureStep, SoftPull, DocumentReview, FigureAnswers
<1>16. CASE UNCHANGED vars
  BY <1>16 DEF vars
<1>17. QED
  BY <1>6, <1>7, <1>8, <1>9, <1>10, <1>11, <1>12, <1>13, <1>14, <1>15, <1>16
  DEF Next, Arrival, HandlerStep, FaultStep, Goal

(* No step disturbs an id or a decision.                                    *)
LEMMA StepKeepsIds ==
  ASSUME LocalInv, IdsInv, [Next]_vars
  PROVE  IdsInv' /\ WrittenOnce(db, db')
<1> DEFINE Goal == IdsInv' /\ WrittenOnce(db, db')
<1> SUFFICES Goal
  OBVIOUS
<1>1. /\ TypeOK /\ mem \in [Handlers -> LeadRecord] /\ db \in LeadRecord /\ db.version \in Nat
      /\ requested \subseteq Emails
  BY DEF LocalInv, TypeOK, LeadRecord
<1>2. WrittenOnce(db, db)
  BY <1>1 DEF WrittenOnce
<1> HIDE DEF Goal
<1>3. ASSUME NEW h \in Handlers, NEW l \in LeadRecord, SavesAtMost(h, l) PROVE Goal
  BY <1>1, <1>3, SavesKeepIds DEF Goal
<1>4. ASSUME NEW h \in Handlers, Load(h) PROVE Goal
  <2>1. PICK tables : mem' = [mem EXCEPT ![h] = SelectFrom(db, @, tables)]
    BY <1>4 DEF Load
  <2>2. UNCHANGED <<db, requested, inbox>>
    BY <1>4 DEF Load, services
  <2>3. KnowsIdsOf(SelectFrom(db, mem[h], tables), db)
    BY DEF IdsInv, KnowsIdsOf, SelectFrom
  <2>4. QED
    BY <1>1, <1>2, <2>1, <2>2, <2>3 DEF Goal, IdsInv, AtMostOneOfEach
<1>5. ASSUME NEW h \in Handlers, SendChase(h) \/ SendNotice(h) PROVE Goal
  <2>1. \/ mem[h].chaseId # 0 /\ Request(h, ChaseEmail(mem[h]), "chase")
        \/ mem[h].noticeId # 0 /\ Request(h, NoticeEmail(mem[h]), "notice")
    BY <1>5 DEF SendChase, SendNotice
  <2>2. KnowsIdsOf(mem[h], db)
    BY DEF IdsInv
  <2>3. PICK e, place : Request(h, e, place) /\ KeyIsOf(e, db)
    BY <2>1, <2>2 DEF ChaseEmail, NoticeEmail, KeyIsOf, KnowsIdsOf
  <2>4. requested' = requested \union {e} /\ UNCHANGED <<db, mem, inbox>>
    BY <2>3 DEF Request
  <2>5. QED
    BY <1>2, <2>3, <2>4 DEF Goal, IdsInv, AtMostOneOfEach
<1>6. ASSUME NEW e \in requested, Deliver(e) PROVE Goal
  <2>1. /\ inbox' = inbox \union {e} /\ UNCHANGED <<db, mem, requested>>
        /\ ~ \E d \in inbox : d.about = e.about /\ d.key = e.key
    BY <1>6 DEF Deliver
  <2>2. \A d \in inbox : d.about # e.about
    BY <2>1 DEF IdsInv, KeyIsOf
  <2>3. QED
    BY <1>2, <2>1, <2>2 DEF Goal, IdsInv, AtMostOneOfEach
<1>7. CASE UNCHANGED <<db, mem, requested, inbox>>
  BY <1>2, <1>7 DEF Goal, IdsInv, AtMostOneOfEach
<1>8. QED
  BY <1>3, <1>4, <1>5, <1>6, <1>7, StepsSaveLoadOrSend

(* Before the first request there are no ids and no emails.                 *)
LEMMA IdsInvariant == Spec => []IdsInv
<1>1. Init => IdsInv
  BY DEF Init, IdsInv, AtMostOneOfEach, KnowsIdsOf, Submitted
<1>2. LocalInv /\ IdsInv /\ [Next]_vars => IdsInv'
  BY StepKeepsIds
<1>3. QED
  BY <1>1, <1>2, LocalInvariant, PTL DEF Spec

(* Also when handlers save over one another from torn copies, the borrower  *)
(* receives one Chase and one Outcome Notice at most: the ids the emails    *)
(* are delivered by are written once.                                       *)
THEOREM OneEmailOfEach == Spec => []AtMostOneOfEach
<1>1. IdsInv => AtMostOneOfEach
  BY DEF IdsInv
<1>2. QED
  BY <1>1, IdsInvariant, PTL

(* Also when handlers save over one another from torn copies, versions only *)
(* grow, and no decision, review or id is replaced once written.            *)
THEOREM DecisionsAreWrittenOnce == Spec => [][WrittenOnce(db, db')]_vars
<1>1. LocalInv /\ IdsInv /\ [Next]_vars => [WrittenOnce(db, db')]_vars
  BY StepKeepsIds
<1>2. QED
  BY <1>1, LocalInvariant, IdsInvariant, PTL DEF Spec

------------------------------------------------------------------------------
(* The condition of the theorems that follow, and the runs that meet it.    *)

AllTablesLeft == \A h \in Handlers : pc[h] = "load" => todo[h] = Tables

(* A handler comes to load in one way, with all tables before it, and       *)
(* leaves it loaded in one way.                                             *)
LEMMA LoadingSteps ==
  ASSUME LocalInv, [Next]_vars, NEW g \in Handlers
  PROVE  /\ pc[g] = "load" => \/ Load(g) \/ pc'[g] = "idle"
                              \/ pc'[g] = pc[g] /\ todo'[g] = todo[g]
         /\ pc[g] # "load" /\ pc'[g] = "load" => todo'[g] = Tables
<1> DEFINE Goal == /\ pc[g] = "load" => \/ Load(g) \/ pc'[g] = "idle"
                                        \/ pc'[g] = pc[g] /\ todo'[g] = todo[g]
                   /\ pc[g] # "load" /\ pc'[g] = "load" => todo'[g] = Tables
<1> SUFFICES Goal
  OBVIOUS
<1>1. pc \in [Handlers -> Places] /\ todo \in [Handlers -> SUBSET Tables]
  BY DEF LocalInv, TypeOK
<1>2. ASSUME pc' = pc, todo' = todo PROVE Goal
  BY <1>2
<1>3. ASSUME NEW h \in Handlers, Leave(h) PROVE Goal
  BY <1>1, <1>3 DEF Leave
<1>4. ASSUME NEW h \in Handlers, NEW l, NEW place \in {"advance", "pull", "review"},
             pc[h] # "load", SaveThen(h, l, place)
      PROVE  Goal
  BY <1>1, <1>3, <1>4 DEF SaveThen
<1>5. ASSUME NEW h \in Handlers, NEW k, pc[h] # "load", StartLoading(h, k) PROVE Goal
  BY <1>1, <1>5 DEF StartLoading
<1> HIDE DEF Goal
<1>6. ASSUME NEW h \in Handlers, Arrival(h) PROVE Goal
  BY <1>4, <1>5, <1>6 DEF Arrival, Begin, Submit, RequestReplay, EmailArrives
<1>7. ASSUME NEW h \in Handlers, FaultStep(h) PROVE Goal
  BY <1>3, <1>7 DEF FaultStep, PullFails, ReviewFails, ChaseFails, NoticeFails, Die,
       SaveFailureAndLeave, SaveAndLeave
<1>8. ASSUME NEW h \in Handlers, FigureStep(h) PROVE Goal
  BY <1>2, <1>8 DEF FigureStep, SoftPull, DocumentReview, FigureAnswers
<1>9. ASSUME NEW e \in requested, Deliver(e) PROVE Goal
  BY <1>2, <1>9 DEF Deliver
<1>10. ASSUME NEW h \in Handlers, HandlerStep(h) PROVE Goal
  <2>1. CASE Load(h)
    BY <1>1, <2>1 DEF Load, Goal
  <2>2. CASE Replay(h) \/ BeginChase(h) \/ BeginNotice(h)
    BY <1>4, <2>2 DEF Replay, BeginChase, BeginNotice, AdvanceTo
  <2>3. CASE DecisionArrives(h) \/ ReviewArrives(h) \/ ChaseAnswered(h) \/ NoticeAnswered(h)
    BY <1>4, <2>3 DEF DecisionArrives, ReviewArrives, ChaseAnswered, NoticeAnswered
  <2>4. CASE RefuseReply(h) \/ Finish(h)
    BY <1>3, <2>4 DEF RefuseReply, SaveAndLeave, Finish
  <2>5. CASE TakeReply(h)
    BY <1>3, <1>5, <2>5 DEF TakeReply
  <2>6. CASE RedeliveredReply(h)
    BY <1>5, <2>6 DEF RedeliveredReply
  <2>7. CASE SendChase(h) \/ SendNotice(h)
    BY <1>1, <2>7 DEF SendChase, SendNotice, AdvanceTo, Request, Goal
  <2>8. CASE Prequalify(h) \/ Review(h)
    BY <1>4, <2>8 DEF Prequalify, Review, AdvanceTo
  <2>9. QED
    BY <1>10, <2>1, <2>2, <2>3, <2>4, <2>5, <2>6, <2>7, <2>8 DEF HandlerStep
<1>11. CASE UNCHANGED vars
  BY <1>2, <1>11 DEF vars
<1>12. QED
  BY <1>6, <1>7, <1>8, <1>9, <1>10, <1>11 DEF Next

(* When the four selects of every load see one state of the database, as in *)
(* the runs with AtomicLoad, every load is whole.                           *)
THEOREM AtomicLoadsAreWhole ==
  ASSUME AtomicLoad PROVE Spec => LoadsAreWhole
<1> DEFINE Whole == \A h \in Handlers : pc[h] = "load" /\ Loaded(h)' => mem'[h] = db
<1>1. Init => AllTablesLeft
  BY DEF Init, AllTablesLeft
<1>2. ASSUME LocalInv, AllTablesLeft, [Next]_vars PROVE AllTablesLeft' /\ Whole
  <2> SUFFICES ASSUME NEW h \in Handlers
               PROVE  /\ pc'[h] = "load" => todo'[h] = Tables
                      /\ pc[h] = "load" /\ Loaded(h)' => mem'[h] = db
    BY DEF AllTablesLeft
  <2>1. /\ pc \in [Handlers -> Places] /\ todo \in [Handlers -> SUBSET Tables]
        /\ mem \in [Handlers -> LeadRecord] /\ db \in LeadRecord
    BY <1>2 DEF LocalInv, TypeOK
  <2>2. CASE pc[h] = "load" /\ Load(h)
    <3>1. todo[h] = Tables
      BY <1>2, <2>2 DEF AllTablesLeft
    <3>2. pc'[h] # "load" /\ mem'[h] = SelectFrom(db, mem[h], Tables)
      BY <2>1, <2>2, <3>1 DEF Load
    <3>3. SelectFrom(db, mem[h], Tables) = db
      BY <2>1 DEF SelectFrom, Tables, LeadRecord
    <3>4. QED
      BY <3>2, <3>3
  <2>3. CASE ~ (pc[h] = "load" /\ Load(h))
    BY <1>2, <2>3, LoadingSteps DEF AllTablesLeft, Loaded
  <2>4. QED
    BY <2>2, <2>3
<1> HIDE DEF Whole
<1>3. LocalInv /\ AllTablesLeft /\ [Next]_vars => AllTablesLeft' /\ [Whole]_vars
  BY <1>2
<1>4. [][Whole]_vars => LoadsAreWhole
  BY PTL DEF LoadsAreWhole, Whole
<1>5. QED
  BY <1>1, <1>3, <1>4, LocalInvariant, PTL DEF Spec

(* A whole load is not torn.                                                *)
THEOREM WholeLoadsAreNotTorn == LoadsAreWhole => NoLoadIsTorn
<1> DEFINE Whole == \A h \in Handlers : pc[h] = "load" /\ Loaded(h)' => mem'[h] = db
           Untorn == \A h \in Handlers : ~ EndsTorn(h)
<1>1. [Whole]_vars => [Untorn]_vars
  BY DEF EndsTorn, Torn
<1> HIDE DEF Whole, Untorn
<1>2. (LoadsAreWhole => [][Whole]_vars) /\ ([][Untorn]_vars => NoLoadIsTorn)
  BY PTL DEF LoadsAreWhole, NoLoadIsTorn, Whole, Untorn
<1>3. QED
  BY <1>1, <1>2, PTL

------------------------------------------------------------------------------
(* Keeps: what is on record stays.                                         *)

(* A Lead keeps what is on its own record.                                 *)
LEMMA KeepsReflexive ==
  ASSUME NEW l PROVE Keeps(l, l)
BY DEF Keeps

(* What a keeps in b and b keeps in c, a keeps in c.                       *)
LEMMA KeepsTransitive ==
  ASSUME NEW a \in LeadRecord, NEW b \in LeadRecord, NEW c \in LeadRecord,
         Keeps(a, b), Keeps(b, c)
  PROVE  Keeps(a, c)
BY DEF Keeps

(* An outcome once final stays the final one.                              *)
LEMMA FinalOutcomeStays ==
  ASSUME NEW a \in LeadRecord, NEW b \in LeadRecord,
         Consistent(b), Keeps(a, b), FinalOutcome(a) # "none"
  PROVE  FinalOutcome(b) = FinalOutcome(a)
<1>1. CASE a.review # "none"
  BY <1>1 DEF Keeps, FinalOutcome
<1>2. CASE a.review = "none"
  <2>1. a.decision \in Finals /\ a.decision # "none" /\ a.decision # "need_more_documents"
    BY <1>2 DEF FinalOutcome, Finals
  <2>2. b.decision = a.decision
    BY <2>1 DEF Keeps
  <2>3. b.review = "none"
    BY <2>1, <2>2 DEF Consistent, StatusMatches
  <2>4. QED
    BY <1>2, <2>1, <2>2, <2>3 DEF FinalOutcome
<1>3. QED
  BY <1>1, <1>2

------------------------------------------------------------------------------
(* The commands, given when they are due, continue the Lead.               *)

Continues(l, k) == k.version = l.version /\ Keeps(l, k) /\ Consistent(k)

\* k claims no delivery that l does not claim.
ClaimsNoMore(l, k) ==
  /\ k.chase = "sent" => l.chase = "sent"
  /\ k.notice = "sent" => l.notice = "sent"

(* Starting prequalification, when it is the next step.                    *)
LEMMA StartPrequalificationContinues ==
  ASSUME NEW l \in LeadRecord, Consistent(l), NextStep(l) = "prequalify"
  PROVE  LET k == StartPrequalification(l)
         IN  Continues(l, k) /\ ClaimsNoMore(l, k) /\ k.status # "failed"
<1> DEFINE k == StartPrequalification(l)
<1>1. /\ k.version = l.version /\ k.decision = l.decision /\ k.review = l.review
      /\ k.chaseId = l.chaseId /\ k.chase = l.chase /\ k.reply = l.reply
      /\ k.noticeId = l.noticeId /\ k.notice = l.notice /\ k.status = "processing"
  BY DEF StartPrequalification, LeadRecord
<1>2. l.decision = "none"
  BY DEF NextStep, AwaitsDocuments
<1> HIDE DEF k
<1>3. QED
  BY <1>1, <1>2 DEF Continues, ClaimsNoMore, Keeps, Consistent, StatusMatches, FinalOutcome, Finals, k

(* Recording the soft pull's decision, when none is on record.             *)
LEMMA RecordDecisionContinues ==
  ASSUME NEW l \in LeadRecord, Consistent(l), CanRecordDecision(l), NEW o \in Outcomes
  PROVE  LET k == RecordDecision(l, o)
         IN  Continues(l, k) /\ ClaimsNoMore(l, k) /\ k.status # "failed"
<1> DEFINE k == RecordDecision(l, o)
<1>1. /\ k.version = l.version /\ k.decision = o /\ k.review = l.review
      /\ k.chaseId = l.chaseId /\ k.chase = l.chase /\ k.reply = l.reply
      /\ k.noticeId = l.noticeId /\ k.notice = l.notice /\ k.status = o
  BY DEF RecordDecision, LeadRecord
<1>2. l.decision = "none"
  BY DEF CanRecordDecision
<1>3. l.chaseId = 0 /\ l.chase = "none" /\ l.reply = NoReply /\ l.review = "none"
  BY <1>2 DEF Consistent, StatusMatches
<1>4. l.noticeId = 0 /\ l.notice = "none"
  BY <1>2, <1>3 DEF Consistent, FinalOutcome, Finals
<1> HIDE DEF k
<1>5. Keeps(l, k) /\ ClaimsNoMore(l, k)
  BY <1>1, <1>2, <1>3, <1>4 DEF Keeps, ClaimsNoMore
<1>6. Consistent(k) /\ k.status # "failed"
  BY <1>1, <1>3, <1>4
  DEF Consistent, StatusMatches, NextStep, AwaitsDocuments, FinalOutcome, Outcomes, Finals
<1>7. QED
  BY <1>1, <1>5, <1>6 DEF Continues, k

(* Failing a Lead that has a step left: the step stays the next one.       *)
LEMMA FailContinues ==
  ASSUME NEW l \in LeadRecord, Consistent(l), NextStep(l) # "done"
  PROVE  LET k == Fail(l)
         IN  Continues(l, k) /\ ClaimsNoMore(l, k) /\ NextStep(k) = NextStep(l)
<1> DEFINE k == Fail(l)
<1>1. /\ k.version = l.version /\ k.decision = l.decision /\ k.review = l.review
      /\ k.chaseId = l.chaseId /\ k.chase = l.chase /\ k.reply = l.reply
      /\ k.noticeId = l.noticeId /\ k.notice = l.notice /\ k.status = "failed"
  BY DEF Fail, LeadRecord
<1> HIDE DEF k
<1>2. NextStep(k) = NextStep(l) /\ FinalOutcome(k) = FinalOutcome(l)
  BY <1>1 DEF NextStep, AwaitsDocuments, FinalOutcome
<1>3. QED
  BY <1>1, <1>2 DEF Continues, ClaimsNoMore, Keeps, Consistent, StatusMatches, Finals, k

(* Opening the Chase, when it is the next step and there is none.          *)
LEMMA OpenChaseContinues ==
  ASSUME NEW l \in LeadRecord, Consistent(l), NextStep(l) = "chase", l.chaseId = 0
  PROVE  LET k == OpenChase(l)
         IN  Continues(l, k) /\ ClaimsNoMore(l, k) /\ NextStep(k) = NextStep(l) /\ k.status = l.status
<1> DEFINE k == OpenChase(l)
<1>0. NewId(l) \in Nat \ {0}
  BY DEF NewId, LeadRecord
<1>1. /\ k.version = l.version /\ k.decision = l.decision /\ k.review = l.review
      /\ k.chaseId = NewId(l) /\ k.chase = "pending" /\ k.reply = l.reply
      /\ k.noticeId = l.noticeId /\ k.notice = l.notice /\ k.status = l.status
  BY DEF OpenChase, LeadRecord
<1>2. l.decision = "need_more_documents" /\ l.chase = "none" /\ l.reply = NoReply
      /\ l.review = "none" /\ l.status \notin {"chase_sent", "documents_received"} \union Finals
  BY DEF NextStep, AwaitsDocuments, Consistent, StatusMatches, FinalOutcome, Finals
<1> HIDE DEF k
<1>3. NextStep(k) = NextStep(l) /\ FinalOutcome(k) = FinalOutcome(l)
  BY <1>1, <1>2 DEF NextStep, AwaitsDocuments, FinalOutcome
<1>4. Consistent(k)
  BY <1>0, <1>1, <1>2, <1>3 DEF Consistent, StatusMatches, Finals
<1>5. QED
  BY <1>1, <1>2, <1>3, <1>4 DEF Continues, ClaimsNoMore, Keeps, k

(* Recording that the Chase was sent, when it is the next step.            *)
LEMMA MarkChaseSentContinues ==
  ASSUME NEW l \in LeadRecord, Consistent(l), NextStep(l) = "chase", l.chaseId # 0
  PROVE  LET k == MarkChaseSent(l)
         IN  /\ Continues(l, k) /\ k.status # "failed" /\ k.chaseId = l.chaseId
             /\ k.notice = "sent" => l.notice = "sent"
<1> DEFINE k == MarkChaseSent(l)
<1>1. /\ k.version = l.version /\ k.decision = l.decision /\ k.review = l.review
      /\ k.chaseId = l.chaseId /\ k.chase = "sent" /\ k.reply = l.reply
      /\ k.noticeId = l.noticeId /\ k.notice = l.notice /\ k.status = "chase_sent"
  BY DEF MarkChaseSent, LeadRecord
<1>2. l.decision = "need_more_documents" /\ l.chase # "sent" /\ l.reply = NoReply /\ l.review = "none"
  BY DEF NextStep, AwaitsDocuments, Consistent, StatusMatches
<1> HIDE DEF k
<1>3. Consistent(k)
  BY <1>1, <1>2 DEF Consistent, StatusMatches, AwaitsDocuments, FinalOutcome, Finals
<1>4. QED
  BY <1>1, <1>2, <1>3 DEF Continues, Keeps, k

(* Recording that sending the Chase failed, when it is the next step.      *)
LEMMA MarkChaseFailedContinues ==
  ASSUME NEW l \in LeadRecord, Consistent(l), NextStep(l) = "chase", l.chaseId # 0
  PROVE  LET k == MarkChaseFailed(l)
         IN  Continues(l, k) /\ ClaimsNoMore(l, k) /\ NextStep(k) = "chase"
<1> DEFINE k == MarkChaseFailed(l)
<1>1. /\ k.version = l.version /\ k.decision = l.decision /\ k.review = l.review
      /\ k.chaseId = l.chaseId /\ k.chase = "failed" /\ k.reply = l.reply
      /\ k.noticeId = l.noticeId /\ k.notice = l.notice /\ k.status = "failed"
  BY DEF MarkChaseFailed, Fail, LeadRecord
<1>2. l.decision = "need_more_documents" /\ l.chase # "sent" /\ l.reply = NoReply /\ l.review = "none"
  BY DEF NextStep, AwaitsDocuments, Consistent, StatusMatches
<1> HIDE DEF k
<1>3. NextStep(k) = "chase" /\ FinalOutcome(k) = FinalOutcome(l)
  BY <1>1, <1>2 DEF NextStep, AwaitsDocuments, FinalOutcome
<1>4. Consistent(k)
  BY <1>1, <1>2, <1>3 DEF Consistent, StatusMatches, Finals
<1>5. QED
  BY <1>1, <1>2, <1>3, <1>4 DEF Continues, ClaimsNoMore, Keeps, k

(* Recording an accepted reply: the review becomes the next step.          *)
LEMMA AcceptReplyContinues ==
  ASSUME NEW l \in LeadRecord, Consistent(l), NEW r \in Replies, ReplyVerdict(l, r) = "accepted"
  PROVE  LET k == AcceptReply(l, r)
         IN  Continues(l, k) /\ ClaimsNoMore(l, k) /\ k.status # "failed"
<1> DEFINE k == AcceptReply(l, r)
<1>1. /\ k.version = l.version /\ k.decision = l.decision /\ k.review = l.review
      /\ k.chaseId = l.chaseId /\ k.chase = l.chase /\ k.reply = r
      /\ k.noticeId = l.noticeId /\ k.notice = l.notice /\ k.status = "documents_received"
  BY DEF AcceptReply, LeadRecord
<1>2. l.chase = "sent" /\ l.reply = NoReply
  BY DEF ReplyVerdict
<1>3. l.decision = "need_more_documents" /\ l.review = "none" /\ r # NoReply
  BY <1>2, NoReplyAssumption DEF Consistent, StatusMatches
<1> HIDE DEF k
<1>4. NextStep(k) = "review" /\ FinalOutcome(k) = FinalOutcome(l)
  BY <1>1, <1>2, <1>3 DEF NextStep, AwaitsDocuments, FinalOutcome
<1>5. Consistent(k)
  BY <1>1, <1>2, <1>3, <1>4 DEF Consistent, StatusMatches, Finals
<1>6. QED
  BY <1>1, <1>2, <1>5 DEF Continues, ClaimsNoMore, Keeps, k

(* What is known of a Lead that is due a review.                            *)
LEMMA ReviewIsOfReply ==
  ASSUME NEW l \in LeadRecord, Consistent(l), NextStep(l) = "review"
  PROVE  /\ l.decision = "need_more_documents" /\ l.chase = "sent" /\ l.reply # NoReply
         /\ l.review = "none" /\ l.noticeId = 0 /\ l.notice = "none"
<1>1. l.decision = "need_more_documents" /\ l.chase = "sent" /\ l.reply # NoReply /\ l.review = "none"
  BY DEF NextStep, AwaitsDocuments
<1>2. l.noticeId = 0
  BY <1>1 DEF Consistent, FinalOutcome, Finals
<1>3. QED
  BY <1>1, <1>2 DEF Consistent

(* Starting the Document Review, when it is the next step.                 *)
LEMMA StartReviewContinues ==
  ASSUME NEW l \in LeadRecord, Consistent(l), NextStep(l) = "review"
  PROVE  LET k == StartReview(l)
         IN  Continues(l, k) /\ ClaimsNoMore(l, k) /\ k.status # "failed"
<1> DEFINE k == StartReview(l)
<1>1. /\ k.version = l.version /\ k.decision = l.decision /\ k.review = l.review
      /\ k.chaseId = l.chaseId /\ k.chase = l.chase /\ k.reply = l.reply
      /\ k.noticeId = l.noticeId /\ k.notice = l.notice /\ k.status = "documents_received"
  BY DEF StartReview, LeadRecord
<1> HIDE DEF k
<1>2. NextStep(k) = "review" /\ FinalOutcome(k) = FinalOutcome(l)
  BY <1>1 DEF NextStep, AwaitsDocuments, FinalOutcome
<1>3. QED
  BY <1>1, <1>2, ReviewIsOfReply
  DEF Continues, ClaimsNoMore, Keeps, Consistent, StatusMatches, Finals, k

(* Recording the review's outcome, when the review is the next step.       *)
LEMMA RecordReviewContinues ==
  ASSUME NEW l \in LeadRecord, Consistent(l), NextStep(l) = "review", NEW o \in Finals
  PROVE  LET k == RecordReview(l, o)
         IN  Continues(l, k) /\ ClaimsNoMore(l, k) /\ k.status # "failed"
<1> DEFINE k == RecordReview(l, o)
<1>1. /\ k.version = l.version /\ k.decision = l.decision /\ k.review = o
      /\ k.chaseId = l.chaseId /\ k.chase = l.chase /\ k.reply = l.reply
      /\ k.noticeId = l.noticeId /\ k.notice = l.notice /\ k.status = o
  BY DEF RecordReview, LeadRecord
<1> HIDE DEF k
<1>2. QED
  BY <1>1, ReviewIsOfReply
  DEF Continues, ClaimsNoMore, Keeps, Consistent, StatusMatches, FinalOutcome, Finals, k

(* Opening the Outcome Notice, when it is the next step and there is none. *)
LEMMA OpenNoticeContinues ==
  ASSUME NEW l \in LeadRecord, Consistent(l), NextStep(l) = "notify", l.noticeId = 0
  PROVE  LET k == OpenNotice(l)
         IN  Continues(l, k) /\ ClaimsNoMore(l, k) /\ NextStep(k) = NextStep(l) /\ k.status = l.status
<1> DEFINE k == OpenNotice(l)
<1>0. NewId(l) \in Nat \ {0}
  BY DEF NewId, LeadRecord
<1>1. /\ k.version = l.version /\ k.decision = l.decision /\ k.review = l.review
      /\ k.chaseId = l.chaseId /\ k.chase = l.chase /\ k.reply = l.reply
      /\ k.noticeId = NewId(l) /\ k.notice = "pending" /\ k.status = l.status
  BY DEF OpenNotice, LeadRecord
<1>2. l.notice = "none" /\ FinalOutcome(l) # "none"
  BY NotifyHasOutcome DEF Consistent, Finals
<1> HIDE DEF k
<1>3. NextStep(k) = NextStep(l) /\ FinalOutcome(k) = FinalOutcome(l)
      /\ (AwaitsDocuments(k) <=> AwaitsDocuments(l))
  BY <1>1, <1>2 DEF NextStep, AwaitsDocuments, FinalOutcome
<1>4. Consistent(k)
  BY <1>0, <1>1, <1>2, <1>3 DEF Consistent, StatusMatches
<1>5. QED
  BY <1>1, <1>2, <1>3, <1>4 DEF Continues, ClaimsNoMore, Keeps, k

(* Recording that the notice was sent, when it is the next step.           *)
LEMMA MarkNoticeSentContinues ==
  ASSUME NEW l \in LeadRecord, Consistent(l), NextStep(l) = "notify", l.noticeId # 0
  PROVE  LET k == MarkNoticeSent(l)
         IN  /\ Continues(l, k) /\ k.status # "failed" /\ k.noticeId = l.noticeId
             /\ k.chase = "sent" => l.chase = "sent"
<1> DEFINE k == MarkNoticeSent(l)
<1>0. FinalOutcome(l) \in Finals
  BY NotifyHasOutcome
<1>1. /\ k.version = l.version /\ k.decision = l.decision /\ k.review = l.review
      /\ k.chaseId = l.chaseId /\ k.chase = l.chase /\ k.reply = l.reply
      /\ k.noticeId = l.noticeId /\ k.notice = "sent" /\ k.status = FinalOutcome(l)
  BY DEF MarkNoticeSent, LeadRecord
<1> HIDE DEF k
<1>2. FinalOutcome(k) = FinalOutcome(l)
  BY <1>1 DEF FinalOutcome
<1>3. Consistent(k) /\ k.status # "failed"
  BY <1>0, <1>1, <1>2 DEF Consistent, StatusMatches, Finals
<1>4. QED
  BY <1>1, <1>3 DEF Continues, Keeps, k

(* Recording that sending the notice failed, when it is the next step.     *)
LEMMA MarkNoticeFailedContinues ==
  ASSUME NEW l \in LeadRecord, Consistent(l), NextStep(l) = "notify", l.noticeId # 0
  PROVE  LET k == MarkNoticeFailed(l)
         IN  Continues(l, k) /\ ClaimsNoMore(l, k) /\ NextStep(k) = "notify"
<1> DEFINE k == MarkNoticeFailed(l)
<1>1. /\ k.version = l.version /\ k.decision = l.decision /\ k.review = l.review
      /\ k.chaseId = l.chaseId /\ k.chase = l.chase /\ k.reply = l.reply
      /\ k.noticeId = l.noticeId /\ k.notice = "failed" /\ k.status = "failed"
  BY DEF MarkNoticeFailed, Fail, LeadRecord
<1>2. l.notice # "sent"
  BY DEF NextStep, AwaitsDocuments
<1> HIDE DEF k
<1>3. NextStep(k) = "notify" /\ FinalOutcome(k) = FinalOutcome(l)
  BY <1>1, <1>2 DEF NextStep, AwaitsDocuments, FinalOutcome
<1>4. Consistent(k)
  BY <1>1, <1>3 DEF Consistent, StatusMatches, Finals
<1>5. QED
  BY <1>1, <1>2, <1>3, <1>4 DEF Continues, ClaimsNoMore, Keeps, k

------------------------------------------------------------------------------
(* A committed save, and everybody else.                                   *)

RecordInv ==
  /\ RowInv
  /\ Consistent(db)
  /\ MailInv
  /\ SentMeansDelivered
  /\ ErrorExplainsFailedStep

(* The version plays no part in what is consistent.                        *)
LEMMA PersistedIsConsistent ==
  ASSUME NEW l \in LeadRecord, Consistent(l)
  PROVE  Consistent(Persisted(l))
BY PersistedFields, PersistedNeedsTheSame DEF Consistent, StatusMatches

(* The rows after a save are the Lead that was saved, when it continues the *)
(* rows.                                                                    *)
LEMMA SavedIsPersisted ==
  ASSUME NEW l \in LeadRecord, db \in LeadRecord, Consistent(db), Continues(db, l)
  PROVE  Saved(l) = Persisted(l)
<1>1. /\ Saved(l).decision = l.decision
      /\ Saved(l).review = l.review
  BY DEF Continues, Keeps, Saved, SavedOver
<1>2. /\ l.chaseId = 0 => /\ db.chaseId = 0 /\ db.chase = "none" /\ l.chase = "none"
                          /\ db.reply = NoReply /\ l.reply = NoReply
      /\ l.noticeId = 0 => db.noticeId = 0 /\ db.notice = "none" /\ l.notice = "none"
  BY DEF Continues, Keeps, Consistent
<1>3. Saved(l) = [version |-> l.version + 1, status |-> l.status, decision |-> l.decision,
                  review |-> l.review, chaseId |-> l.chaseId, chase |-> l.chase,
                  reply |-> l.reply, noticeId |-> l.noticeId, notice |-> l.notice]
  BY <1>1, <1>2 DEF Saved, SavedOver
<1>4. Persisted(l) = [version |-> l.version + 1, status |-> l.status, decision |-> l.decision,
                  review |-> l.review, chaseId |-> l.chaseId, chase |-> l.chase,
                  reply |-> l.reply, noticeId |-> l.noticeId, notice |-> l.notice]
  BY DEF Persisted, LeadRecord
<1>5. QED
  BY <1>3, <1>4

(* A save of a Lead that continues the rows keeps the record intact.       *)
LEMMA CommitKeepsRecord ==
  ASSUME IInv, NEW l \in LeadRecord, Continues(db, l), SentOnlyIfDelivered(l),
         db' = Saved(l), UNCHANGED <<requested, inbox>>,
         l.status = "failed" => failedStep' = NextStep(l)
  PROVE  /\ RecordInv' /\ Keeps(db, db') /\ db' = Persisted(l)
         /\ db'.version = db.version + 1 /\ db' \in LeadRecord
<1>1. db \in LeadRecord /\ LocalInv /\ TypeOK /\ RecordInv
  BY DEF IInv, LocalInv, TypeOK, RecordInv
<1>2. db' = Persisted(l) /\ db' \in LeadRecord
  BY <1>1, SavedIsPersisted, SavedIsLead DEF RecordInv
<1>3. db'.version = db.version + 1
  BY <1>2, PersistedFields DEF Continues
<1>4. Keeps(db, db')
  BY <1>2, PersistedFields DEF Continues, Keeps
<1>5. RowInv'
  BY <1>1, <1>3 DEF RowInv, LeadRecord
<1>6. Consistent(db)'
  BY <1>2, PersistedIsConsistent DEF Continues
<1>7. MailInv'
  <2>1. \A e \in requested : e.about = "chase" =>
          e.key = db'.chaseId /\ db'.decision = "need_more_documents"
    BY <1>1, <1>4 DEF RecordInv, MailInv, EveryChaseEmailIsTheChase, Keeps
  <2>2. \A e \in requested : e.about = "notice" =>
          e.key = db'.noticeId /\ e.says = FinalOutcome(db')
    <3> SUFFICES ASSUME NEW e \in requested, e.about = "notice"
                 PROVE  e.key = db'.noticeId /\ e.says = FinalOutcome(db')
      OBVIOUS
    <3>1. e.key = db.noticeId /\ e.says = FinalOutcome(db) /\ db.noticeId # 0
      BY <1>1 DEF RecordInv, MailInv, NoticeTellsTheOutcome
    <3>2. FinalOutcome(db) # "none" /\ Consistent(db)
      BY <1>1, <3>1 DEF RecordInv, Consistent
    <3>3. FinalOutcome(db') = FinalOutcome(db)
      BY <1>1, <1>2, <1>4, <1>6, <3>2, FinalOutcomeStays
    <3>4. QED
      BY <1>4, <3>1, <3>3 DEF Keeps
  <2>3. QED
    BY <1>1, <2>1, <2>2 DEF RecordInv, MailInv, EveryChaseEmailIsTheChase, NoticeTellsTheOutcome
<1>8. SentMeansDelivered'
  <2>1. db'.chase = l.chase /\ db'.chaseId = l.chaseId /\ db'.notice = l.notice
        /\ db'.noticeId = l.noticeId
    BY <1>2, PersistedFields
  <2>2. QED
    BY <2>1 DEF SentMeansDelivered, SentOnlyIfDelivered, Delivered, ChaseEmail, NoticeEmail
<1>9. ErrorExplainsFailedStep'
  BY <1>2, PersistedFields, PersistedNeedsTheSame DEF ErrorExplainsFailedStep
<1>10. QED
  BY <1>2, <1>3, <1>4, <1>5, <1>6, <1>7, <1>8, <1>9 DEF RecordInv

(* A handler that does not move is not disturbed by a save of another.     *)
LEMMA OthersAreUndisturbed ==
  ASSUME IInv, NEW g \in Handlers, db' \in LeadRecord,
         pc'[g] = pc[g], todo'[g] = todo[g], mem'[g] = mem[g],
         db' = db \/ (db'.version = db.version + 1 /\ Keeps(db, db'))
  PROVE  HandlerInv(g)'
<1>1. db \in LeadRecord /\ mem[g] \in LeadRecord /\ HandlerInv(g)
  BY DEF IInv, LocalInv, TypeOK
<1>2. CASE db' = db
  BY <1>1, <1>2 DEF HandlerInv, Loaded, Torn
<1>3. CASE db'.version = db.version + 1 /\ Keeps(db, db')
  <2>1. db.version \in Nat /\ mem[g].version \in Nat
    BY <1>1 DEF LeadRecord
  <2>2. Keeps(mem[g], db')
    BY <1>1, <1>3, KeepsTransitive DEF HandlerInv
  <2>3. QED
    BY <1>1, <1>3, <2>1, <2>2 DEF HandlerInv, Loaded, Torn
<1>4. QED
  BY <1>2, <1>3

(* A Lead as submitted is older than any rows and has nothing on record.   *)
LEMMA SubmittedIsOld ==
  ASSUME NEW l \in LeadRecord
  PROVE  Submitted.version <= l.version /\ Keeps(Submitted, l)
BY DEF Submitted, Keeps, LeadRecord

(* A handler that leaves, or starts to load, remembers nothing.            *)
LEMMA LeavingIsFine ==
  ASSUME IInv, NEW h \in Handlers, Leave(h), db' \in LeadRecord,
         db' = db \/ (db'.version = db.version + 1 /\ Keeps(db, db'))
  PROVE  \A g \in Handlers : HandlerInv(g)'
<1> SUFFICES ASSUME NEW g \in Handlers PROVE HandlerInv(g)'
  OBVIOUS
<1>1. /\ pc \in [Handlers -> Places] /\ todo \in [Handlers -> SUBSET Tables]
      /\ mem \in [Handlers -> LeadRecord]
  BY DEF IInv, LocalInv, TypeOK
<1>2. CASE g = h
  BY <1>1, <1>2, SubmittedIsOld DEF Leave, HandlerInv, Loaded
<1>3. CASE g # h
  <2>1. pc'[g] = pc[g] /\ todo'[g] = todo[g] /\ mem'[g] = mem[g]
    BY <1>1, <1>3 DEF Leave
  <2>2. QED
    BY <2>1, OthersAreUndisturbed
<1>4. QED
  BY <1>2, <1>3

(* A handler that starts to load knows nothing of the Lead yet.            *)
LEMMA StartLoadingIsFine ==
  ASSUME IInv, NEW h \in Handlers, NEW k, StartLoading(h, k), db' \in LeadRecord, db'.version # 0,
         db' = db \/ (db'.version = db.version + 1 /\ Keeps(db, db'))
  PROVE  \A g \in Handlers : HandlerInv(g)'
<1> SUFFICES ASSUME NEW g \in Handlers PROVE HandlerInv(g)'
  OBVIOUS
<1>1. /\ pc \in [Handlers -> Places] /\ todo \in [Handlers -> SUBSET Tables]
      /\ mem \in [Handlers -> LeadRecord]
  BY DEF IInv, LocalInv, TypeOK
<1>2. CASE g = h
  BY <1>1, <1>2, SubmittedIsOld DEF StartLoading, HandlerInv, Loaded
<1>3. CASE g # h
  <2>1. pc'[g] = pc[g] /\ todo'[g] = todo[g] /\ mem'[g] = mem[g]
    BY <1>1, <1>3 DEF StartLoading
  <2>2. QED
    BY <2>1, OthersAreUndisturbed
<1>4. QED
  BY <1>2, <1>3

(* Nothing saved and nobody asked: the record stands.                       *)
LEMMA RecordStands ==
  ASSUME IInv, UNCHANGED <<db, failedStep, requested, inbox>>
  PROVE  RecordInv' /\ Keeps(db, db') /\ db' \in LeadRecord
BY DEF IInv, LocalInv, TypeOK, RecordInv, RowInv, MailInv, EveryChaseEmailIsTheChase,
       NoticeTellsTheOutcome, SentMeansDelivered, SentOnlyIfDelivered, Delivered,
       ChaseEmail, NoticeEmail, ErrorExplainsFailedStep, Keeps

(* What a handler about to save the Lead l may rely on: if the save goes    *)
(* through, l continues the rows and claims only deliveries that happened.  *)
Sound(l, step) ==
  l.version = db.version =>
    /\ Continues(db, l)
    /\ SentOnlyIfDelivered(l)
    /\ l.status = "failed" => step = NextStep(l)

(* No command changes the version: save() does.                            *)
LEMMA CommandsKeepVersion ==
  ASSUME NEW l \in LeadRecord
  PROVE  /\ StartPrequalification(l).version = l.version
         /\ \A o : RecordDecision(l, o).version = l.version
         /\ Fail(l).version = l.version
         /\ OpenChase(l).version = l.version
         /\ MarkChaseSent(l).version = l.version
         /\ MarkChaseFailed(l).version = l.version
         /\ \A r : AcceptReply(l, r).version = l.version
         /\ StartReview(l).version = l.version
         /\ \A o : RecordReview(l, o).version = l.version
         /\ OpenNotice(l).version = l.version
         /\ MarkNoticeSent(l).version = l.version
         /\ MarkNoticeFailed(l).version = l.version
BY DEF LeadRecord, StartPrequalification, RecordDecision, Fail, OpenChase, MarkChaseSent,
       MarkChaseFailed, AcceptReply, StartReview, RecordReview, OpenNotice, MarkNoticeSent,
       MarkNoticeFailed

(* A sound save, and then the next await.                                  *)
LEMMA SaveThenKeepsRecord ==
  ASSUME IInv, NEW h \in Handlers, NEW l \in LeadRecord, NEW place \in {"advance", "pull", "review"},
         Sound(l, failedStep), SaveThen(h, l, place), UNCHANGED <<failedStep, requested, inbox>>
  PROVE  RecordInv' /\ Keeps(db, db') /\ \A g \in Handlers : HandlerInv(g)'
<1>1. CASE ~ CanCommit(l)
  BY <1>1, RecordStands, LeavingIsFine DEF SaveThen
<1>2. CASE CanCommit(l)
  <2>1. /\ db' = Saved(l) /\ mem' = [mem EXCEPT ![h] = Persisted(l)]
        /\ pc' = [pc EXCEPT ![h] = place] /\ todo' = todo
    BY <1>2 DEF SaveThen
  <2>2. /\ Continues(db, l) /\ SentOnlyIfDelivered(l)
        /\ l.status = "failed" => failedStep' = NextStep(l)
    BY <1>2 DEF CanCommit, Sound
  <2>3. /\ RecordInv' /\ Keeps(db, db') /\ db' = Persisted(l)
        /\ db'.version = db.version + 1 /\ db' \in LeadRecord
    BY <2>1, <2>2, CommitKeepsRecord
  <2>4. /\ pc \in [Handlers -> Places] /\ mem \in [Handlers -> LeadRecord] /\ db \in LeadRecord
    BY DEF IInv, LocalInv, TypeOK
  <2>5. ASSUME NEW g \in Handlers PROVE HandlerInv(g)'
    <3>1. CASE g = h
      <4>1. pc'[g] = place /\ mem'[g] = db'
        BY <2>1, <2>3, <2>4, <3>1
      <4>2. db'.version \in Nat /\ db'.version # 0
        BY <2>3, <2>4 DEF LeadRecord
      <4>3. Keeps(mem'[g], db')
        BY <4>1, KeepsReflexive
      <4>4. QED
        BY <4>1, <4>2, <4>3 DEF HandlerInv, Loaded, Torn
    <3>2. CASE g # h
      <4>1. pc'[g] = pc[g] /\ todo'[g] = todo[g] /\ mem'[g] = mem[g]
        BY <2>1, <2>4, <3>2
      <4>2. QED
        BY <2>3, <4>1, OthersAreUndisturbed
    <3>3. QED
      BY <3>1, <3>2
  <2>6. QED
    BY <2>3, <2>5
<1>3. QED
  BY <1>1, <1>2

(* A sound save that ends the request, with or without a lead.failed event. *)
LEMMA SaveAndLeaveKeepsRecord ==
  ASSUME IInv, NEW h \in Handlers, NEW l \in LeadRecord, NEW step,
         Sound(l, step), SaveAndLeave(h, l), UNCHANGED <<requested, inbox>>,
         failedStep' = IF CanCommit(l) THEN step ELSE failedStep
  PROVE  RecordInv' /\ Keeps(db, db') /\ \A g \in Handlers : HandlerInv(g)'
<1>1. CASE ~ CanCommit(l)
  BY <1>1, RecordStands, LeavingIsFine DEF SaveAndLeave
<1>2. CASE CanCommit(l)
  <2>1. db' = Saved(l) /\ Leave(h) /\ failedStep' = step
    BY <1>2 DEF SaveAndLeave
  <2>2. /\ Continues(db, l) /\ SentOnlyIfDelivered(l)
        /\ l.status = "failed" => failedStep' = NextStep(l)
    BY <1>2, <2>1 DEF CanCommit, Sound
  <2>3. QED
    BY <2>1, <2>2, CommitKeepsRecord, LeavingIsFine
<1>3. QED
  BY <1>1, <1>2

(* A command is sound to save when it continues the rows, if those are what *)
(* the handler holds: the save of any other copy is refused.                *)
LEMMA CommandIsSound ==
  ASSUME IInv, NEW h \in Handlers, Loaded(h), NEW l \in LeadRecord, NEW step,
         l.version = mem[h].version,
         mem[h] = db => /\ Continues(mem[h], l) /\ ClaimsNoMore(mem[h], l)
                        /\ l.status = "failed" => step = NextStep(l)
  PROVE  Sound(l, step)
<1> SUFFICES ASSUME l.version = db.version
             PROVE  /\ Continues(db, l) /\ SentOnlyIfDelivered(l)
                    /\ l.status = "failed" => step = NextStep(l)
  BY DEF Sound
<1>1. mem[h] = db
  BY DEF IInv, HandlerInv, Torn
<1>2. Consistent(db) /\ SentOnlyIfDelivered(db)
  BY DEF IInv, SentMeansDelivered
<1>3. SentOnlyIfDelivered(l)
  <2>1. l.chase = "sent" => Delivered(ChaseEmail(db)) /\ l.chaseId = db.chaseId
    BY <1>1, <1>2 DEF ClaimsNoMore, SentOnlyIfDelivered, Consistent, Continues, Keeps
  <2>2. l.notice = "sent" => Delivered(NoticeEmail(db)) /\ l.noticeId = db.noticeId
    BY <1>1, <1>2 DEF ClaimsNoMore, SentOnlyIfDelivered, Consistent, Continues, Keeps
  <2>3. QED
    BY <2>1, <2>2 DEF SentOnlyIfDelivered, Delivered, ChaseEmail, NoticeEmail
<1>4. QED
  BY <1>1, <1>3

------------------------------------------------------------------------------

(* The invariant holds before the first request.                           *)
LEMMA InitRecord == Init => IInv
<1> SUFFICES ASSUME Init PROVE IInv
  OBVIOUS
<1>1. LocalInv
  BY InitLocal
<1>2. Consistent(db)
  BY DEF Init, Submitted, Consistent, StatusMatches, FinalOutcome, Finals
<1>3. RowInv /\ MailInv
  BY DEF Init, RowInv, MailInv, EveryChaseEmailIsTheChase, NoticeTellsTheOutcome
<1>4. SentMeansDelivered /\ ErrorExplainsFailedStep
  BY DEF Init, Submitted, SentMeansDelivered, SentOnlyIfDelivered, ErrorExplainsFailedStep
<1>5. \A h \in Handlers : HandlerInv(h)
  BY SubmittedIsLead, SubmittedIsOld DEF Init, HandlerInv, Loaded
<1>6. QED
  BY <1>1, <1>2, <1>3, <1>4, <1>5 DEF IInv

(* One step per action: the command continues the Lead the handler holds,   *)
(* so its save continues the rows or does not happen.                       *)
LEMMA StepKeepsRecord ==
  ASSUME IInv, [Next]_vars, [\A h \in Handlers : ~ EndsTorn(h)]_vars
  PROVE  RecordInv' /\ Keeps(db, db') /\ \A g \in Handlers : HandlerInv(g)'
<1> DEFINE Goal == RecordInv' /\ Keeps(db, db') /\ \A g \in Handlers : HandlerInv(g)'
<1> SUFFICES Goal
  OBVIOUS
<1> HIDE DEF Goal
<1>1. /\ TypeOK /\ LocalInv /\ RecordInv /\ db \in LeadRecord /\ db.version \in Nat
      /\ pc \in [Handlers -> Places] /\ todo \in [Handlers -> SUBSET Tables]
      /\ mem \in [Handlers -> LeadRecord] /\ kind \in [Handlers -> Kinds]
  BY DEF IInv, LocalInv, TypeOK, RecordInv, LeadRecord
<1>2. ASSUME NEW h \in Handlers
      PROVE  /\ mem[h] \in LeadRecord /\ Due(h) /\ CarriesEmail(h)
             /\ pc[h] # "idle" => db.version # 0
             /\ mem[h].version <= db.version /\ Keeps(mem[h], db)
             /\ mem[h] = db => Consistent(mem[h])
             /\ Loaded(h) /\ mem[h].version = db.version => mem[h] = db
  BY <1>1, <1>2 DEF IInv, LocalInv, HandlerInv, RecordInv, Torn
<1>3. ASSUME NEW h \in Handlers, Submit(h) PROVE Goal
  <2>1. db = Submitted
    BY <1>1, <1>3 DEF Submit, RecordInv, RowInv
  <2>2. Sound(Submitted, failedStep)
    BY <1>1, <2>1, KeepsReflexive DEF Sound, Continues, RecordInv, SentMeansDelivered, Submitted
  <2>3. QED
    BY <1>3, <2>2, SubmittedIsLead, SaveThenKeepsRecord DEF Submit, services, Goal
<1>4. ASSUME NEW h \in Handlers, RequestReplay(h) PROVE Goal
  <2>1. StartLoading(h, "replay") /\ UNCHANGED <<db, failedStep, requested, inbox>>
    BY <1>4 DEF RequestReplay, services
  <2>2. db.version # 0
    BY <1>4 DEF RequestReplay
  <2>3. QED
    BY <2>1, <2>2, RecordStands, StartLoadingIsFine DEF Goal
<1>5. ASSUME NEW h \in Handlers, NEW r \in Replies, EmailArrives(h, r) PROVE Goal
  <2>1. StartLoading(h, "reply") /\ UNCHANGED <<db, failedStep, requested, inbox>>
    BY <1>5 DEF EmailArrives, services
  <2>2. db.version # 0
    BY <1>1, <1>5 DEF EmailArrives, RecordInv, RowInv, MailInv
  <2>3. QED
    BY <2>1, <2>2, RecordStands, StartLoadingIsFine DEF Goal
<1>6. ASSUME NEW h \in Handlers, Load(h) PROVE Goal
  <2>1. PICK tables :
          /\ mem' = [mem EXCEPT ![h] = SelectFrom(db, @, tables)]
          /\ todo' = [todo EXCEPT ![h] = @ \ tables]
          /\ pc' = [pc EXCEPT ![h] = IF tables # todo[h] THEN "load"
                                   ELSE IF kind[h] = "continue" THEN "advance" ELSE "start"]
    BY <1>6 DEF Load
  <2>2. pc[h] = "load" /\ UNCHANGED <<db, failedStep, requested, inbox>>
    BY <1>6 DEF Load, services
  <2>3. SelectFrom(db, mem[h], tables).version <= db.version
        /\ Keeps(SelectFrom(db, mem[h], tables), db)
    BY <1>1, <1>2 DEF SelectFrom, Keeps, LeadRecord
  <2>4. RecordInv' /\ Keeps(db, db') /\ db' \in LeadRecord
    BY <2>2, RecordStands
  <2>5. ~ EndsTorn(h)
    <3>1. CASE UNCHANGED vars
      BY <2>2, <3>1 DEF vars, EndsTorn, Loaded
    <3>2. QED
      BY <3>1
  <2>6. ASSUME NEW g \in Handlers PROVE HandlerInv(g)'
    <3>1. CASE g = h
      <4>1. mem'[g] = SelectFrom(db, mem[h], tables) /\ db' = db
        BY <1>1, <2>1, <2>2, <3>1
      <4>2. Loaded(g)' => ~ Torn(db', mem'[g])
        BY <2>2, <2>5, <3>1 DEF EndsTorn
      <4>3. db'.version # 0
        BY <1>2, <2>2
      <4>4. QED
        BY <2>3, <4>1, <4>2, <4>3 DEF HandlerInv
    <3>2. CASE g # h
      <4>1. pc'[g] = pc[g] /\ todo'[g] = todo[g] /\ mem'[g] = mem[g]
        BY <1>1, <2>1, <3>2
      <4>2. QED
        BY <2>2, <2>4, <4>1, OthersAreUndisturbed
    <3>3. QED
      BY <3>1, <3>2
  <2>7. QED
    BY <2>4, <2>6 DEF Goal
<1>7. ASSUME NEW h \in Handlers, Replay(h) PROVE Goal
  <2>1. mem[h] \in LeadRecord /\ Loaded(h) /\ (mem[h] = db => Consistent(mem[h]))
    BY <1>2, <1>7 DEF Replay, Loaded
  <2>2. mem[h] = db => /\ Continues(mem[h], mem[h]) /\ ClaimsNoMore(mem[h], mem[h])
                       /\ mem[h].status = "failed" => failedStep = NextStep(mem[h])
    BY <1>1, <2>1, KeepsReflexive DEF Continues, ClaimsNoMore, RecordInv, ErrorExplainsFailedStep
  <2>3. SaveThen(h, mem[h], "advance") /\ UNCHANGED <<failedStep, requested, inbox>>
    BY <1>7 DEF Replay, services
  <2>4. Sound(mem[h], failedStep)
    BY <2>1, <2>2, CommandIsSound
  <2>5. QED
    BY <2>1, <2>3, <2>4, SaveThenKeepsRecord DEF Goal
<1>8. ASSUME NEW h \in Handlers, RefuseReply(h) PROVE Goal
  <2>1. mem[h] \in LeadRecord /\ Loaded(h) /\ (mem[h] = db => Consistent(mem[h]))
    BY <1>2, <1>8 DEF RefuseReply, Loaded
  <2>2. mem[h] = db => /\ Continues(mem[h], mem[h]) /\ ClaimsNoMore(mem[h], mem[h])
                       /\ mem[h].status = "failed" => failedStep = NextStep(mem[h])
    BY <1>1, <2>1, KeepsReflexive DEF Continues, ClaimsNoMore, RecordInv, ErrorExplainsFailedStep
  <2>3. SaveAndLeave(h, mem[h]) /\ UNCHANGED <<failedStep, requested, inbox>>
    BY <1>8 DEF RefuseReply, services
  <2>4. Sound(mem[h], failedStep)
    BY <2>1, <2>2, CommandIsSound
  <2>5. QED
    BY <2>1, <2>3, <2>4, SaveAndLeaveKeepsRecord DEF Goal
<1>9. ASSUME NEW h \in Handlers, TakeReply(h) PROVE Goal
  <2> DEFINE l == AcceptReply(mem[h], email[h])
  <2>1. mem[h] \in LeadRecord /\ Loaded(h) /\ (mem[h] = db => Consistent(mem[h])) /\ email[h] \in Replies
    BY <1>2, <1>9 DEF TakeReply, Loaded, CarriesEmail
  <2>2. l \in LeadRecord
    BY <2>1, CommandsKeepType
  <2>3. /\ l.version = mem[h].version
        /\ mem[h] = db => Continues(mem[h], l) /\ ClaimsNoMore(mem[h], l) /\ l.status # "failed"
    BY CommandsKeepVersion, <1>9, <2>1, AcceptReplyContinues DEF TakeReply
  <2>4. UNCHANGED <<failedStep, requested, inbox>>
    BY <1>9 DEF TakeReply, services
  <2>5. CASE CanCommit(l)
    <3>1. db' = Saved(l) /\ StartLoading(h, "continue")
      BY <1>9, <2>5 DEF TakeReply
    <3>2. Continues(db, l) /\ SentOnlyIfDelivered(l) /\ l.status # "failed"
      <4>1. Sound(l, failedStep)
        BY <2>1, <2>2, <2>3, CommandIsSound
      <4>2. mem[h] = db
        BY <1>2, <2>1, <2>3, <2>5 DEF CanCommit
      <4>3. QED
        BY <2>3, <2>5, <4>1, <4>2 DEF Sound, CanCommit
    <3>3. /\ RecordInv' /\ Keeps(db, db') /\ db' = Persisted(l)
          /\ db'.version = db.version + 1 /\ db' \in LeadRecord
      BY <2>2, <2>4, <3>1, <3>2, CommitKeepsRecord
    <3>4. db'.version # 0
      BY <1>1, <3>3
    <3>5. QED
      BY <3>1, <3>3, <3>4, StartLoadingIsFine DEF Goal
  <2>6. CASE ~ CanCommit(l)
    <3>1. db' = db /\ Leave(h)
      BY <1>9, <2>6 DEF TakeReply
    <3>2. QED
      BY <2>4, <3>1, RecordStands, LeavingIsFine DEF Goal
  <2>7. QED
    BY <2>5, <2>6
<1>10. ASSUME NEW h \in Handlers, RedeliveredReply(h) PROVE Goal
  <2>1. StartLoading(h, "continue") /\ UNCHANGED <<db, failedStep, requested, inbox>> /\ db.version # 0
    BY <1>2, <1>10 DEF RedeliveredReply, services
  <2>2. QED
    BY <2>1, RecordStands, StartLoadingIsFine DEF Goal
<1>11. ASSUME NEW h \in Handlers, Finish(h) PROVE Goal
  <2>1. Leave(h) /\ UNCHANGED <<db, failedStep, requested, inbox>>
    BY <1>11 DEF Finish, services
  <2>2. QED
    BY <2>1, RecordStands, LeavingIsFine DEF Goal
<1>12. ASSUME NEW h \in Handlers, Die(h) PROVE Goal
  <2>1. Leave(h) /\ UNCHANGED <<db, failedStep, requested, inbox>>
    BY <1>12 DEF Die, services
  <2>2. QED
    BY <2>1, RecordStands, LeavingIsFine DEF Goal
<1>13. ASSUME NEW h \in Handlers, Prequalify(h) PROVE Goal
  <2> DEFINE l == StartPrequalification(mem[h])
  <2>1. mem[h] \in LeadRecord /\ Loaded(h) /\ (mem[h] = db => Consistent(mem[h]))
    BY <1>2, <1>13 DEF Prequalify, AdvanceTo, Loaded
  <2>2. l \in LeadRecord
    BY <1>2, <1>13, <2>1, CommandsKeepType DEF Prequalify, AdvanceTo, Due
  <2>3. /\ l.version = mem[h].version
        /\ mem[h] = db => /\ Continues(mem[h], l) /\ ClaimsNoMore(mem[h], l)
                          /\ l.status = "failed" => failedStep = NextStep(l)
    BY CommandsKeepVersion, <1>1, <1>2, <1>13, <2>1, StartPrequalificationContinues
    DEF Prequalify, AdvanceTo, Due, RecordInv, ErrorExplainsFailedStep
  <2>4. SaveThen(h, l, "pull") /\ UNCHANGED <<failedStep, requested, inbox>>
    BY <1>13 DEF Prequalify, services
  <2>5. Sound(l, failedStep)
    BY <2>1, <2>2, <2>3, CommandIsSound
  <2>6. QED
    BY <2>2, <2>4, <2>5, SaveThenKeepsRecord DEF Goal
<1>14. ASSUME NEW h \in Handlers, Review(h) PROVE Goal
  <2> DEFINE l == StartReview(mem[h])
  <2>1. mem[h] \in LeadRecord /\ Loaded(h) /\ (mem[h] = db => Consistent(mem[h]))
    BY <1>2, <1>14 DEF Review, AdvanceTo, Loaded
  <2>2. l \in LeadRecord
    BY <1>2, <1>14, <2>1, CommandsKeepType DEF Review, AdvanceTo, Due
  <2>3. /\ l.version = mem[h].version
        /\ mem[h] = db => /\ Continues(mem[h], l) /\ ClaimsNoMore(mem[h], l)
                          /\ l.status = "failed" => failedStep = NextStep(l)
    BY CommandsKeepVersion, <1>1, <1>2, <1>14, <2>1, StartReviewContinues
    DEF Review, AdvanceTo, Due, RecordInv, ErrorExplainsFailedStep
  <2>4. SaveThen(h, l, "review") /\ UNCHANGED <<failedStep, requested, inbox>>
    BY <1>14 DEF Review, services
  <2>5. Sound(l, failedStep)
    BY <2>1, <2>2, <2>3, CommandIsSound
  <2>6. QED
    BY <2>2, <2>4, <2>5, SaveThenKeepsRecord DEF Goal
<1>15. ASSUME NEW h \in Handlers, BeginChase(h) PROVE Goal
  <2> DEFINE l == OpenChase(mem[h])
  <2>1. mem[h] \in LeadRecord /\ Loaded(h) /\ (mem[h] = db => Consistent(mem[h]))
    BY <1>2, <1>15 DEF BeginChase, AdvanceTo, Loaded
  <2>2. l \in LeadRecord
    BY <1>2, <1>15, <2>1, CommandsKeepType DEF BeginChase, AdvanceTo, Due
  <2>3. /\ l.version = mem[h].version
        /\ mem[h] = db => /\ Continues(mem[h], l) /\ ClaimsNoMore(mem[h], l)
                          /\ l.status = "failed" => failedStep = NextStep(l)
    BY CommandsKeepVersion, <1>1, <1>2, <1>15, <2>1, OpenChaseContinues
    DEF BeginChase, AdvanceTo, Due, RecordInv, ErrorExplainsFailedStep
  <2>4. SaveThen(h, l, "advance") /\ UNCHANGED <<failedStep, requested, inbox>>
    BY <1>15 DEF BeginChase, services
  <2>5. Sound(l, failedStep)
    BY <2>1, <2>2, <2>3, CommandIsSound
  <2>6. QED
    BY <2>2, <2>4, <2>5, SaveThenKeepsRecord DEF Goal
<1>16. ASSUME NEW h \in Handlers, BeginNotice(h) PROVE Goal
  <2> DEFINE l == OpenNotice(mem[h])
  <2>1. mem[h] \in LeadRecord /\ Loaded(h) /\ (mem[h] = db => Consistent(mem[h]))
    BY <1>2, <1>16 DEF BeginNotice, AdvanceTo, Loaded
  <2>2. l \in LeadRecord
    BY <1>2, <1>16, <2>1, CommandsKeepType DEF BeginNotice, AdvanceTo, Due
  <2>3. /\ l.version = mem[h].version
        /\ mem[h] = db => /\ Continues(mem[h], l) /\ ClaimsNoMore(mem[h], l)
                          /\ l.status = "failed" => failedStep = NextStep(l)
    BY CommandsKeepVersion, <1>1, <1>2, <1>16, <2>1, OpenNoticeContinues
    DEF BeginNotice, AdvanceTo, Due, RecordInv, ErrorExplainsFailedStep
  <2>4. SaveThen(h, l, "advance") /\ UNCHANGED <<failedStep, requested, inbox>>
    BY <1>16 DEF BeginNotice, services
  <2>5. Sound(l, failedStep)
    BY <2>1, <2>2, <2>3, CommandIsSound
  <2>6. QED
    BY <2>2, <2>4, <2>5, SaveThenKeepsRecord DEF Goal
<1>17. ASSUME NEW h \in Handlers, DecisionArrives(h) PROVE Goal
  <2> DEFINE l == RecordDecision(mem[h], answer[h])
  <2>0. answer[h] \in Outcomes
    BY <1>1, <1>17 DEF DecisionArrives, TypeOK
  <2>1. mem[h] \in LeadRecord /\ Loaded(h) /\ (mem[h] = db => Consistent(mem[h]))
    BY <1>2, <1>17 DEF DecisionArrives, AdvanceTo, Loaded
  <2>2. l \in LeadRecord
    BY <2>0, <2>1, CommandsKeepType DEF DecisionArrives
  <2>3. /\ l.version = mem[h].version
        /\ mem[h] = db => /\ Continues(mem[h], l) /\ ClaimsNoMore(mem[h], l)
                          /\ l.status = "failed" => failedStep = NextStep(l)
    BY CommandsKeepVersion, <1>1, <1>2, <1>17, <2>1, <2>0, RecordDecisionContinues
    DEF DecisionArrives, Due, RecordInv, ErrorExplainsFailedStep
  <2>4. SaveThen(h, l, "advance") /\ UNCHANGED <<failedStep, requested, inbox>>
    BY <1>17 DEF DecisionArrives, services
  <2>5. Sound(l, failedStep)
    BY <2>1, <2>2, <2>3, CommandIsSound
  <2>6. QED
    BY <2>2, <2>4, <2>5, SaveThenKeepsRecord DEF Goal
<1>18. ASSUME NEW h \in Handlers, ReviewArrives(h) PROVE Goal
  <2> DEFINE l == RecordReview(mem[h], answer[h])
  <2>0. answer[h] \in Finals
    BY <1>2, <1>18 DEF ReviewArrives, Due
  <2>1. mem[h] \in LeadRecord /\ Loaded(h) /\ (mem[h] = db => Consistent(mem[h]))
    BY <1>2, <1>18 DEF ReviewArrives, AdvanceTo, Loaded
  <2>2. l \in LeadRecord
    BY <2>0, <2>1, CommandsKeepType DEF ReviewArrives
  <2>3. /\ l.version = mem[h].version
        /\ mem[h] = db => /\ Continues(mem[h], l) /\ ClaimsNoMore(mem[h], l)
                          /\ l.status = "failed" => failedStep = NextStep(l)
    BY CommandsKeepVersion, <1>1, <1>2, <1>18, <2>1, <2>0, RecordReviewContinues
    DEF ReviewArrives, CanReview, Due, RecordInv, ErrorExplainsFailedStep
  <2>4. SaveThen(h, l, "advance") /\ UNCHANGED <<failedStep, requested, inbox>>
    BY <1>18 DEF ReviewArrives, services
  <2>5. Sound(l, failedStep)
    BY <2>1, <2>2, <2>3, CommandIsSound
  <2>6. QED
    BY <2>2, <2>4, <2>5, SaveThenKeepsRecord DEF Goal
<1>19. ASSUME NEW h \in Handlers, ChaseAnswered(h) PROVE Goal
  <2> DEFINE l == MarkChaseSent(mem[h])
  <2>1. mem[h] \in LeadRecord /\ Loaded(h) /\ (mem[h] = db => Consistent(mem[h])) /\ Due(h)
    BY <1>2, <1>19 DEF ChaseAnswered, Loaded
  <2>2. l \in LeadRecord
    BY <1>19, <2>1, CommandsKeepType DEF ChaseAnswered, Due
  <2>3. /\ l.version = mem[h].version
        /\ mem[h] = db => /\ Continues(mem[h], l) /\ l.status # "failed" /\ l.chaseId = mem[h].chaseId
                          /\ l.notice = "sent" => mem[h].notice = "sent"
    BY CommandsKeepVersion, <1>19, <2>1, MarkChaseSentContinues DEF ChaseAnswered, Due
  <2>4. Sound(l, failedStep)
    <3> SUFFICES ASSUME l.version = db.version
                 PROVE  Continues(db, l) /\ SentOnlyIfDelivered(l) /\ l.status # "failed"
      BY DEF Sound
    <3>1. mem[h] = db
      BY <1>2, <2>1, <2>3
    <3>2. Delivered(ChaseEmail(l))
      BY <1>19, <2>3, <3>1 DEF ChaseAnswered, Delivered, ChaseEmail
    <3>3. l.notice = "sent" => Delivered(NoticeEmail(db)) /\ l.noticeId = db.noticeId
      BY <1>1, <2>3, <3>1 DEF RecordInv, SentMeansDelivered, SentOnlyIfDelivered,
           Consistent, Continues, Keeps
    <3>4. QED
      BY <2>3, <3>1, <3>2, <3>3 DEF SentOnlyIfDelivered, Delivered, ChaseEmail, NoticeEmail
  <2>5. SaveThen(h, l, "advance") /\ UNCHANGED <<failedStep, requested, inbox>>
    BY <1>19 DEF ChaseAnswered, services
  <2>6. QED
    BY <2>2, <2>4, <2>5, SaveThenKeepsRecord DEF Goal
<1>20. ASSUME NEW h \in Handlers, NoticeAnswered(h) PROVE Goal
  <2> DEFINE l == MarkNoticeSent(mem[h])
  <2>1. mem[h] \in LeadRecord /\ Loaded(h) /\ (mem[h] = db => Consistent(mem[h])) /\ Due(h)
    BY <1>2, <1>20 DEF NoticeAnswered, Loaded
  <2>2. l \in LeadRecord
    BY <1>20, <2>1, CommandsKeepType DEF NoticeAnswered, Due
  <2>3. /\ l.version = mem[h].version
        /\ mem[h] = db => /\ Continues(mem[h], l) /\ l.status # "failed" /\ l.noticeId = mem[h].noticeId
                          /\ l.chase = "sent" => mem[h].chase = "sent"
    BY CommandsKeepVersion, <1>20, <2>1, MarkNoticeSentContinues DEF NoticeAnswered, Due
  <2>4. Sound(l, failedStep)
    <3> SUFFICES ASSUME l.version = db.version
                 PROVE  Continues(db, l) /\ SentOnlyIfDelivered(l) /\ l.status # "failed"
      BY DEF Sound
    <3>1. mem[h] = db
      BY <1>2, <2>1, <2>3
    <3>2. Delivered(NoticeEmail(l))
      BY <1>20, <2>3, <3>1 DEF NoticeAnswered, Delivered, NoticeEmail
    <3>3. l.chase = "sent" => Delivered(ChaseEmail(db)) /\ l.chaseId = db.chaseId
      BY <1>1, <2>3, <3>1 DEF RecordInv, SentMeansDelivered, SentOnlyIfDelivered,
           Consistent, Continues, Keeps
    <3>4. QED
      BY <2>3, <3>1, <3>2, <3>3 DEF SentOnlyIfDelivered, Delivered, ChaseEmail, NoticeEmail
  <2>5. SaveThen(h, l, "advance") /\ UNCHANGED <<failedStep, requested, inbox>>
    BY <1>20 DEF NoticeAnswered, services
  <2>6. QED
    BY <2>2, <2>4, <2>5, SaveThenKeepsRecord DEF Goal
<1>21. ASSUME NEW h \in Handlers, PullFails(h) PROVE Goal
  <2> DEFINE l == Fail(mem[h])
  <2>1. mem[h] \in LeadRecord /\ Loaded(h) /\ (mem[h] = db => Consistent(mem[h])) /\ Due(h)
    BY <1>2, <1>21 DEF PullFails, Loaded
  <2>2. l \in LeadRecord
    BY <2>1, CommandsKeepType
  <2>3. NextStep(mem[h]) = "prequalify"
    BY <1>21, <2>1 DEF PullFails, Due, CanRecordDecision, CanReview, NextStep
  <2>4. /\ l.version = mem[h].version
        /\ mem[h] = db => Continues(mem[h], l) /\ ClaimsNoMore(mem[h], l) /\ NextStep(l) = "prequalify"
    BY CommandsKeepVersion, <1>21, <2>1, <2>3, FailContinues DEF PullFails, Due
  <2>5. Sound(l, "prequalify")
    BY <2>1, <2>2, <2>4, CommandIsSound
  <2>6. /\ SaveAndLeave(h, l) /\ UNCHANGED <<requested, inbox>>
        /\ failedStep' = IF CanCommit(l) THEN "prequalify" ELSE failedStep
    BY <1>21 DEF PullFails, SaveFailureAndLeave, services
  <2>7. QED
    BY <2>2, <2>5, <2>6, SaveAndLeaveKeepsRecord DEF Goal
<1>22. ASSUME NEW h \in Handlers, ReviewFails(h) PROVE Goal
  <2> DEFINE l == Fail(mem[h])
  <2>1. mem[h] \in LeadRecord /\ Loaded(h) /\ (mem[h] = db => Consistent(mem[h])) /\ Due(h)
    BY <1>2, <1>22 DEF ReviewFails, Loaded
  <2>2. l \in LeadRecord
    BY <2>1, CommandsKeepType
  <2>3. NextStep(mem[h]) = "review"
    BY <1>22, <2>1 DEF ReviewFails, Due, CanRecordDecision, CanReview, NextStep
  <2>4. /\ l.version = mem[h].version
        /\ mem[h] = db => Continues(mem[h], l) /\ ClaimsNoMore(mem[h], l) /\ NextStep(l) = "review"
    BY CommandsKeepVersion, <1>22, <2>1, <2>3, FailContinues DEF ReviewFails, Due
  <2>5. Sound(l, "review")
    BY <2>1, <2>2, <2>4, CommandIsSound
  <2>6. /\ SaveAndLeave(h, l) /\ UNCHANGED <<requested, inbox>>
        /\ failedStep' = IF CanCommit(l) THEN "review" ELSE failedStep
    BY <1>22 DEF ReviewFails, SaveFailureAndLeave, services
  <2>7. QED
    BY <2>2, <2>5, <2>6, SaveAndLeaveKeepsRecord DEF Goal
<1>23. ASSUME NEW h \in Handlers, ChaseFails(h) PROVE Goal
  <2> DEFINE l == MarkChaseFailed(mem[h])
  <2>1. mem[h] \in LeadRecord /\ Loaded(h) /\ (mem[h] = db => Consistent(mem[h])) /\ Due(h)
    BY <1>2, <1>23 DEF ChaseFails, Loaded
  <2>2. l \in LeadRecord
    BY <2>1, CommandsKeepType
  <2>3. NextStep(mem[h]) = "chase"
    BY <1>23, <2>1 DEF ChaseFails, Due, CanRecordDecision, CanReview, NextStep
  <2>4. /\ l.version = mem[h].version
        /\ mem[h] = db => Continues(mem[h], l) /\ ClaimsNoMore(mem[h], l) /\ NextStep(l) = "chase"
    BY CommandsKeepVersion, <1>23, <2>1, <2>3, MarkChaseFailedContinues DEF ChaseFails, Due
  <2>5. Sound(l, "chase")
    BY <2>1, <2>2, <2>4, CommandIsSound
  <2>6. /\ SaveAndLeave(h, l) /\ UNCHANGED <<requested, inbox>>
        /\ failedStep' = IF CanCommit(l) THEN "chase" ELSE failedStep
    BY <1>23 DEF ChaseFails, SaveFailureAndLeave, services
  <2>7. QED
    BY <2>2, <2>5, <2>6, SaveAndLeaveKeepsRecord DEF Goal
<1>24. ASSUME NEW h \in Handlers, NoticeFails(h) PROVE Goal
  <2> DEFINE l == MarkNoticeFailed(mem[h])
  <2>1. mem[h] \in LeadRecord /\ Loaded(h) /\ (mem[h] = db => Consistent(mem[h])) /\ Due(h)
    BY <1>2, <1>24 DEF NoticeFails, Loaded
  <2>2. l \in LeadRecord
    BY <2>1, CommandsKeepType
  <2>3. NextStep(mem[h]) = "notify"
    BY <1>24, <2>1 DEF NoticeFails, Due, CanRecordDecision, CanReview, NextStep
  <2>4. /\ l.version = mem[h].version
        /\ mem[h] = db => Continues(mem[h], l) /\ ClaimsNoMore(mem[h], l) /\ NextStep(l) = "notify"
    BY CommandsKeepVersion, <1>24, <2>1, <2>3, MarkNoticeFailedContinues DEF NoticeFails, Due
  <2>5. Sound(l, "notify")
    BY <2>1, <2>2, <2>4, CommandIsSound
  <2>6. /\ SaveAndLeave(h, l) /\ UNCHANGED <<requested, inbox>>
        /\ failedStep' = IF CanCommit(l) THEN "notify" ELSE failedStep
    BY <1>24 DEF NoticeFails, SaveFailureAndLeave, services
  <2>7. QED
    BY <2>2, <2>5, <2>6, SaveAndLeaveKeepsRecord DEF Goal
<1>25. ASSUME NEW h \in Handlers, SendChase(h) PROVE Goal
  <2> DEFINE e == ChaseEmail(mem[h])
  <2>1. mem[h] \in LeadRecord /\ Keeps(mem[h], db) /\ db.version # 0
    BY <1>2, <1>25 DEF SendChase, AdvanceTo
  <2>2. /\ requested' = requested \union {e} /\ pc' = [pc EXCEPT ![h] = "chase"]
        /\ UNCHANGED <<db, failedStep, todo, mem, inbox>>
    BY <1>25 DEF SendChase, Request
  <2>3. e.about = "chase" /\ e.key = db.chaseId /\ e.key # 0 /\ db.decision = "need_more_documents"
    BY <1>25, <2>1 DEF SendChase, AdvanceTo, NextStep, Keeps, ChaseEmail
  <2>4. RecordInv'
    BY <1>1, <2>1, <2>2, <2>3 DEF RecordInv, RowInv, MailInv, EveryChaseEmailIsTheChase,
         NoticeTellsTheOutcome, SentMeansDelivered, SentOnlyIfDelivered, Delivered, ChaseEmail,
         NoticeEmail, ErrorExplainsFailedStep
  <2>5. ASSUME NEW g \in Handlers PROVE HandlerInv(g)'
    <3>1. mem'[g] = mem[g] /\ todo'[g] = todo[g] /\ pc'[g] = IF g = h THEN "chase" ELSE pc[g]
      BY <1>1, <2>2
    <3>2. HandlerInv(g) /\ pc[h] = "advance"
      BY <1>25 DEF IInv, SendChase, AdvanceTo
    <3>3. QED
      BY <2>2, <3>1, <3>2 DEF HandlerInv, Loaded
  <2>6. QED
    BY <2>2, <2>4, <2>5, KeepsReflexive DEF Goal
<1>26. ASSUME NEW h \in Handlers, SendNotice(h) PROVE Goal
  <2> DEFINE e == NoticeEmail(mem[h])
  <2>1. mem[h] \in LeadRecord /\ Keeps(mem[h], db) /\ db.version # 0
    BY <1>2, <1>26 DEF SendNotice, AdvanceTo
  <2>2. /\ requested' = requested \union {e} /\ pc' = [pc EXCEPT ![h] = "notice"]
        /\ UNCHANGED <<db, failedStep, todo, mem, inbox>>
    BY <1>26 DEF SendNotice, Request
  <2>3. e.about = "notice" /\ e.key = db.noticeId /\ e.key # 0 /\ e.says = FinalOutcome(db)
    <3>1. FinalOutcome(mem[h]) # "none"
      BY <1>26, <2>1, NotifyHasOutcome DEF SendNotice, AdvanceTo, Finals
    <3>2. FinalOutcome(db) = FinalOutcome(mem[h])
      BY <1>1, <2>1, <3>1, FinalOutcomeStays DEF RecordInv
    <3>3. QED
      BY <1>26, <2>1, <3>2 DEF SendNotice, Keeps, NoticeEmail
  <2>4. RecordInv'
    BY <1>1, <2>1, <2>2, <2>3 DEF RecordInv, RowInv, MailInv, EveryChaseEmailIsTheChase,
         NoticeTellsTheOutcome, SentMeansDelivered, SentOnlyIfDelivered, Delivered, ChaseEmail,
         NoticeEmail, ErrorExplainsFailedStep
  <2>5. ASSUME NEW g \in Handlers PROVE HandlerInv(g)'
    <3>1. mem'[g] = mem[g] /\ todo'[g] = todo[g] /\ pc'[g] = IF g = h THEN "notice" ELSE pc[g]
      BY <1>1, <2>2
    <3>2. HandlerInv(g) /\ pc[h] = "advance"
      BY <1>26 DEF IInv, SendNotice, AdvanceTo
    <3>3. QED
      BY <2>2, <3>1, <3>2 DEF HandlerInv, Loaded
  <2>6. QED
    BY <2>2, <2>4, <2>5, KeepsReflexive DEF Goal
<1>27. ASSUME NEW h \in Handlers, NEW outcome \in Outcomes, SoftPull(h, outcome) PROVE Goal
  <2>1. UNCHANGED <<db, failedStep, pc, todo, mem, requested, inbox>>
    BY <1>27 DEF SoftPull, FigureAnswers
  <2>2. RecordInv' /\ Keeps(db, db') /\ db' \in LeadRecord
    BY <2>1, RecordStands
  <2>3. QED
    BY <2>1, <2>2, OthersAreUndisturbed DEF Goal
<1>28. ASSUME NEW h \in Handlers, NEW outcome \in Finals, DocumentReview(h, outcome) PROVE Goal
  <2>1. UNCHANGED <<db, failedStep, pc, todo, mem, requested, inbox>>
    BY <1>28 DEF DocumentReview, FigureAnswers
  <2>2. RecordInv' /\ Keeps(db, db') /\ db' \in LeadRecord
    BY <2>1, RecordStands
  <2>3. QED
    BY <2>1, <2>2, OthersAreUndisturbed DEF Goal
<1>29. ASSUME NEW e \in requested, Deliver(e) PROVE Goal
  <2>1. inbox' = inbox \union {e} /\ UNCHANGED <<db, failedStep, pc, todo, mem, requested>>
    BY <1>29 DEF Deliver
  <2>2. RecordInv'
    BY <1>1, <1>29, <2>1 DEF RecordInv, RowInv, MailInv, EveryChaseEmailIsTheChase,
         NoticeTellsTheOutcome, SentMeansDelivered, SentOnlyIfDelivered, Delivered, ChaseEmail,
         NoticeEmail, ErrorExplainsFailedStep
  <2>3. QED
    BY <1>1, <2>1, <2>2, KeepsReflexive, OthersAreUndisturbed DEF Goal
<1>30. CASE UNCHANGED vars
  <2>1. UNCHANGED <<db, failedStep, pc, todo, mem, requested, inbox>>
    BY <1>30 DEF vars
  <2>2. RecordInv' /\ Keeps(db, db') /\ db' \in LeadRecord
    BY <2>1, RecordStands
  <2>3. QED
    BY <2>1, <2>2, OthersAreUndisturbed DEF Goal
<1>31. QED
  BY <1>3, <1>4, <1>5, <1>6, <1>7, <1>8, <1>9, <1>10, <1>11, <1>12, <1>13, <1>14, <1>15, <1>16, <1>17, <1>18, <1>19, <1>20, <1>21, <1>22, <1>23, <1>24, <1>25, <1>26, <1>27, <1>28, <1>29, <1>30
  DEF Next, Arrival, HandlerStep, FaultStep, FigureStep

(* As long as no load is torn IInv holds: no handler ever saves, or asks    *)
(* for, anything the rows contradict.                                       *)
THEOREM RecordInvariant == Spec /\ NoLoadIsTorn => []IInv
<1> DEFINE Whole == \A h \in Handlers : ~ EndsTorn(h)
<1>1. IInv /\ [Next]_vars /\ [Whole]_vars => IInv'
  BY StepKeepsLocal, StepKeepsRecord DEF IInv, RecordInv
<1> HIDE DEF Whole
<1>2. NoLoadIsTorn => [][Whole]_vars
  BY PTL DEF NoLoadIsTorn, Whole
<1>3. QED
  BY InitRecord, <1>1, <1>2, PTL DEF Spec

(* As long as no load is torn the optimistic version check suffices: a      *)
(* handler whose version matches holds the Lead of the database.            *)
THEOREM VersionCheckSuffices ==
  Spec /\ NoLoadIsTorn => []MatchingVersionIsFresh
<1>1. IInv => MatchingVersionIsFresh
  BY DEF IInv, HandlerInv, Torn, MatchingVersionIsFresh
<1>2. QED
  BY <1>1, RecordInvariant, PTL

(* As long as no load is torn the status never contradicts the data the     *)
(* pipeline is derived from.                                                *)
THEOREM StatusIsTruthful ==
  Spec /\ NoLoadIsTorn => []StatusMatchesData
<1>1. IInv => StatusMatchesData
  BY DEF IInv, Consistent, StatusMatchesData
<1>2. QED
  BY <1>1, RecordInvariant, PTL

(* As long as no load is torn there is one Chase: every Chase email ever    *)
(* asked for carries its id.                                                *)
THEOREM OneChase ==
  Spec /\ NoLoadIsTorn => []EveryChaseEmailIsTheChase
<1>1. IInv => EveryChaseEmailIsTheChase
  BY DEF IInv, MailInv
<1>2. QED
  BY <1>1, RecordInvariant, PTL

(* As long as no load is torn the borrower is never told an outcome other   *)
(* than the one on record.                                                  *)
THEOREM NoticeIsTruthful ==
  Spec /\ NoLoadIsTorn => []NoticeTellsTheOutcome
<1>1. IInv => NoticeTellsTheOutcome
  BY DEF IInv, MailInv
<1>2. QED
  BY <1>1, RecordInvariant, PTL

(* As long as no load is torn no save replaces or takes back what is on     *)
(* record.                                                                  *)
THEOREM RecordIsKept ==
  Spec /\ NoLoadIsTorn => RecordStays
<1> DEFINE Whole == \A h \in Handlers : ~ EndsTorn(h)
<1>1. IInv /\ [Next]_vars /\ [Whole]_vars => [Keeps(db, db')]_vars
  BY StepKeepsRecord
<1> HIDE DEF Whole
<1>2. NoLoadIsTorn => [][Whole]_vars
  BY PTL DEF NoLoadIsTorn, Whole
<1>3. QED
  BY <1>1, <1>2, RecordInvariant, PTL DEF Spec, RecordStays

(* As long as no load is torn a failed Lead's error and its failed step     *)
(* speak of the same step.                                                  *)
THEOREM FailureIsExplained ==
  Spec /\ NoLoadIsTorn => []ErrorExplainsFailedStep
<1>1. IInv => ErrorExplainsFailedStep
  BY DEF IInv
<1>2. QED
  BY <1>1, RecordInvariant, PTL

(* As long as no load is torn, what the operator's list offers to Replay    *)
(* has a step left to run.                                                  *)
THEOREM ListOffersRealWork ==
  Spec /\ NoLoadIsTorn => []ListedIsActionable
<1>1. ASSUME IInv, ListedOnceStale(db) PROVE NextStep(db) # "done"
  <2>1. db \in LeadRecord /\ Consistent(db)
    BY <1>1 DEF IInv, LocalInv, TypeOK
  <2>2. CASE db.status \in {"submitted", "processing"}
    BY <2>1, <2>2 DEF Consistent, StatusMatches, NextStep
  <2>3. CASE db.status \in {"failed", "documents_received"}
    BY <2>1, <2>3 DEF Consistent, StatusMatches
  <2>4. CASE db.status \in Finals /\ db.notice = "pending"
    <3>1. FinalOutcome(db) \in Finals
      BY <2>1, <2>4 DEF Consistent, StatusMatches
    <3>2. db.decision # "none" /\ (db.decision = "need_more_documents" => db.review # "none")
      BY <2>1, <3>1 DEF Consistent, StatusMatches, FinalOutcome, Finals
    <3>3. db.review # "none" => db.reply # NoReply /\ db.chase = "sent"
      BY <2>1 DEF Consistent, StatusMatches
    <3>4. QED
      BY <2>4, <3>2, <3>3 DEF NextStep, AwaitsDocuments
  <2>5. QED
    BY <1>1, <2>2, <2>3, <2>4 DEF ListedOnceStale
<1>2. IInv => ListedIsActionable
  BY <1>1 DEF ListedIsActionable
<1>3. QED
  BY <1>2, RecordInvariant, PTL

(* Only Prequalify and Review make a handler wait for Figure.               *)
LEMMA CallsToFigure ==
  ASSUME LocalInv, [Next]_vars, NEW g \in Handlers,
         pc'[g] # pc[g], pc'[g] \in {"pull", "review"}
  PROVE  \/ pc'[g] = "pull" /\ Prequalify(g)
         \/ pc'[g] = "review" /\ Review(g)
<1>1. pc \in [Handlers -> Places]
  BY DEF LocalInv, TypeOK
<1>2. ~ UNCHANGED pc
  OBVIOUS
<1>3. ASSUME NEW h \in Handlers, Leave(h) PROVE FALSE
  BY <1>1, <1>3 DEF Leave
<1>4. ASSUME NEW h \in Handlers, NEW l, SaveThen(h, l, "advance") PROVE FALSE
  BY <1>1, <1>3, <1>4 DEF SaveThen
<1>5. ASSUME NEW h \in Handlers, NEW k, StartLoading(h, k) PROVE FALSE
  BY <1>1, <1>5 DEF StartLoading
<1>6. ASSUME NEW h \in Handlers, Arrival(h) PROVE FALSE
  BY <1>4, <1>5, <1>6 DEF Arrival, Submit, RequestReplay, EmailArrives
<1>7. ASSUME NEW h \in Handlers, FaultStep(h) PROVE FALSE
  BY <1>3, <1>7 DEF FaultStep, PullFails, ReviewFails, ChaseFails, NoticeFails, Die,
       SaveFailureAndLeave, SaveAndLeave
<1>8. ASSUME NEW h \in Handlers, FigureStep(h) PROVE FALSE
  BY <1>2, <1>8 DEF FigureStep, SoftPull, DocumentReview, FigureAnswers
<1>9. ASSUME NEW e \in requested, Deliver(e) PROVE FALSE
  BY <1>2, <1>9 DEF Deliver
<1>10. ASSUME NEW h \in Handlers, HandlerStep(h)
       PROVE  \/ h = g /\ pc'[g] = "pull" /\ Prequalify(g)
              \/ h = g /\ pc'[g] = "review" /\ Review(g)
  <2>1. CASE Load(h)
    BY <1>1, <2>1 DEF Load
  <2>2. CASE Replay(h) \/ BeginChase(h) \/ BeginNotice(h)
    BY <1>4, <2>2 DEF Replay, BeginChase, BeginNotice
  <2>3. CASE DecisionArrives(h) \/ ReviewArrives(h) \/ ChaseAnswered(h) \/ NoticeAnswered(h)
    BY <1>4, <2>3 DEF DecisionArrives, ReviewArrives, ChaseAnswered, NoticeAnswered
  <2>4. CASE RefuseReply(h) \/ Finish(h)
    BY <1>3, <2>4 DEF RefuseReply, SaveAndLeave, Finish
  <2>5. CASE TakeReply(h)
    BY <1>3, <1>5, <2>5 DEF TakeReply
  <2>6. CASE RedeliveredReply(h)
    BY <1>5, <2>6 DEF RedeliveredReply
  <2>7. CASE SendChase(h) \/ SendNotice(h)
    BY <1>1, <2>7 DEF SendChase, SendNotice, Request
  <2>8. CASE Prequalify(h)
    BY <1>1, <1>3, <2>8 DEF Prequalify, SaveThen
  <2>9. CASE Review(h)
    BY <1>1, <1>3, <2>9 DEF Review, SaveThen
  <2>10. QED
    BY <1>10, <2>1, <2>2, <2>3, <2>4, <2>5, <2>6, <2>7, <2>8, <2>9 DEF HandlerStep
<1>11. CASE UNCHANGED vars
  BY <1>2, <1>11 DEF vars
<1>12. QED
  BY <1>6, <1>7, <1>8, <1>9, <1>10, <1>11 DEF Next

(* As long as no load is torn a pull or a review starts only while none is  *)
(* on record.                                                               *)
THEOREM NothingIsRepeated ==
  Spec /\ NoLoadIsTorn => NothingRecordedIsRepeated
<1> DEFINE Step == \A h \in Handlers :
                     /\ pc[h] # "pull" /\ pc'[h] = "pull" => db.decision = "none"
                     /\ pc[h] # "review" /\ pc'[h] = "review" => db.review = "none"
<1>1. ASSUME IInv, [Next]_vars, NEW h \in Handlers
      PROVE  /\ pc[h] # "pull" /\ pc'[h] = "pull" => db.decision = "none"
             /\ pc[h] # "review" /\ pc'[h] = "review" => db.review = "none"
  <2>1. mem[h] \in LeadRecord /\ HandlerInv(h) /\ LocalInv /\ pc \in [Handlers -> Places]
    BY <1>1 DEF IInv, LocalInv, TypeOK
  <2>2. ASSUME Prequalify(h), pc'[h] = "pull" PROVE db.decision = "none"
    <3>1. ~ Leave(h) /\ Loaded(h)
      BY <2>1, <2>2 DEF Leave, Prequalify, AdvanceTo, Loaded
    <3>2. mem[h].version = db.version
      BY <2>1, <2>2, <3>1 DEF Prequalify, SaveThen, CanCommit, StartPrequalification, LeadRecord
    <3>3. mem[h] = db
      BY <2>1, <3>1, <3>2 DEF HandlerInv, Torn
    <3>4. QED
      BY <2>2, <3>3 DEF Prequalify, AdvanceTo, NextStep
  <2>3. ASSUME Review(h), pc'[h] = "review" PROVE db.review = "none"
    <3>1. ~ Leave(h) /\ Loaded(h)
      BY <2>1, <2>3 DEF Leave, Review, AdvanceTo, Loaded
    <3>2. mem[h].version = db.version
      BY <2>1, <2>3, <3>1 DEF Review, SaveThen, CanCommit, StartReview, LeadRecord
    <3>3. mem[h] = db
      BY <2>1, <3>1, <3>2 DEF HandlerInv, Torn
    <3>4. QED
      BY <2>3, <3>3 DEF Review, AdvanceTo, NextStep
  <2>4. QED
    BY <1>1, <2>1, <2>2, <2>3, CallsToFigure
<1>2. IInv /\ [Next]_vars => [Step]_vars
  BY <1>1
<1>3. QED
  BY <1>2, RecordInvariant, PTL DEF Spec, NothingRecordedIsRepeated

------------------------------------------------------------------------------
(* The refinement of LeadLifecycle.                                         *)

\* The stage of the Lead l, as Stage is of the rows.
StageOf(l) ==
  IF l.version = 0 THEN "none"
  ELSE IF AwaitsDocuments(l) THEN "documents"
  ELSE IF NextStep(l) = "done" THEN "settled"
  ELSE NextStep(l)

(* The stage depends on what is on record, not on status, ids or version.   *)
LEMMA StageIsOfTheRecord ==
  ASSUME NEW l \in LeadRecord, NEW k \in LeadRecord, l.version # 0, k.version # 0,
         k.decision = l.decision, k.review = l.review, k.reply = l.reply,
         k.chase = "sent" <=> l.chase = "sent", k.notice = "sent" <=> l.notice = "sent"
  PROVE  StageOf(k) = StageOf(l) /\ FinalOutcome(k) = FinalOutcome(l)
BY DEF StageOf, NextStep, AwaitsDocuments, FinalOutcome

(* Recording the decision settles the Lead or asks for documents.           *)
LEMMA DecisionMovesStage ==
  ASSUME NEW l \in LeadRecord, l.version # 0, Consistent(l), CanRecordDecision(l),
         NEW o \in Outcomes
  PROVE  LET k == Persisted(RecordDecision(l, o))
         IN  /\ StageOf(l) = "prequalify"
             /\ \/ o \in Finals /\ StageOf(k) = "notify" /\ FinalOutcome(k) = o
                \/ StageOf(k) = "chase" /\ FinalOutcome(k) = FinalOutcome(l)
<1> DEFINE k == Persisted(RecordDecision(l, o))
<1>1. /\ k.version = l.version + 1 /\ k.decision = o /\ k.review = l.review
      /\ k.chase = l.chase /\ k.reply = l.reply /\ k.notice = l.notice
  BY DEF Persisted, RecordDecision, LeadRecord
<1>2. l.decision = "none" /\ l.chase = "none" /\ l.reply = NoReply /\ l.review = "none"
  BY DEF CanRecordDecision, Consistent, StatusMatches
<1>3. l.notice = "none"
  BY <1>2 DEF Consistent, FinalOutcome, Finals
<1>4. k.version # 0
  BY <1>1 DEF LeadRecord
<1> HIDE DEF k
<1>5. /\ StageOf(l) = "prequalify"
      /\ \/ o \in Finals /\ StageOf(k) = "notify" /\ FinalOutcome(k) = o
         \/ StageOf(k) = "chase" /\ FinalOutcome(k) = FinalOutcome(l)
  BY <1>1, <1>2, <1>3, <1>4 DEF StageOf, NextStep, AwaitsDocuments, FinalOutcome, Outcomes, Finals
<1>6. QED
  BY <1>5 DEF k

(* Once the Chase was sent, the Lead awaits documents.                      *)
LEMMA ChaseSentMovesStage ==
  ASSUME NEW l \in LeadRecord, l.version # 0, Consistent(l), NextStep(l) = "chase"
  PROVE  LET k == Persisted(MarkChaseSent(l))
         IN  /\ StageOf(l) = "chase" /\ StageOf(k) = "documents"
             /\ FinalOutcome(k) = FinalOutcome(l)
<1> DEFINE k == Persisted(MarkChaseSent(l))
<1>1. /\ k.version = l.version + 1 /\ k.decision = l.decision /\ k.review = l.review
      /\ k.chase = "sent" /\ k.reply = l.reply
  BY DEF Persisted, MarkChaseSent, LeadRecord
<1>2. l.decision = "need_more_documents" /\ l.chase # "sent" /\ l.reply = NoReply
  BY DEF NextStep, AwaitsDocuments, Consistent
<1>3. k.version # 0
  BY <1>1 DEF LeadRecord
<1> HIDE DEF k
<1>4. StageOf(l) = "chase" /\ StageOf(k) = "documents" /\ FinalOutcome(k) = FinalOutcome(l)
  BY <1>1, <1>2, <1>3 DEF StageOf, AwaitsDocuments, FinalOutcome
<1>5. QED
  BY <1>4 DEF k

(* Once a reply is accepted, the Lead is due a review.                      *)
LEMMA ReplyMovesStage ==
  ASSUME NEW l \in LeadRecord, l.version # 0, Consistent(l), NEW r \in Replies,
         ReplyVerdict(l, r) = "accepted"
  PROVE  LET k == Persisted(AcceptReply(l, r))
         IN  /\ StageOf(l) = "documents" /\ StageOf(k) = "review"
             /\ FinalOutcome(k) = FinalOutcome(l)
<1> DEFINE k == Persisted(AcceptReply(l, r))
<1>1. /\ k.version = l.version + 1 /\ k.decision = l.decision /\ k.review = l.review
      /\ k.chase = l.chase /\ k.reply = r
  BY DEF Persisted, AcceptReply, LeadRecord
<1>2. l.chase = "sent" /\ l.reply = NoReply
  BY DEF ReplyVerdict
<1>3. l.decision = "need_more_documents" /\ l.review = "none" /\ r # NoReply
  BY <1>2, NoReplyAssumption DEF Consistent, StatusMatches
<1>4. k.version # 0
  BY <1>1 DEF LeadRecord
<1> HIDE DEF k
<1>5. StageOf(l) = "documents" /\ StageOf(k) = "review" /\ FinalOutcome(k) = FinalOutcome(l)
  BY <1>1, <1>2, <1>3, <1>4 DEF StageOf, NextStep, AwaitsDocuments, FinalOutcome
<1>6. QED
  BY <1>5 DEF k

(* The review settles the Lead.                                             *)
LEMMA ReviewMovesStage ==
  ASSUME NEW l \in LeadRecord, l.version # 0, Consistent(l), CanReview(l), NEW o \in Finals
  PROVE  LET k == Persisted(RecordReview(l, o))
         IN  StageOf(l) = "review" /\ StageOf(k) = "notify" /\ FinalOutcome(k) = o
<1> DEFINE k == Persisted(RecordReview(l, o))
<1>1. /\ k.version = l.version + 1 /\ k.decision = l.decision /\ k.review = o
      /\ k.chase = l.chase /\ k.reply = l.reply /\ k.notice = l.notice
  BY DEF Persisted, RecordReview, LeadRecord
<1>2. l.decision = "need_more_documents" /\ l.chase = "sent" /\ l.reply # NoReply
      /\ l.review = "none" /\ l.notice = "none"
  BY ReviewIsOfReply DEF CanReview
<1>3. k.version # 0
  BY <1>1 DEF LeadRecord
<1> HIDE DEF k
<1>4. StageOf(l) = "review" /\ StageOf(k) = "notify" /\ FinalOutcome(k) = o
  BY <1>1, <1>2, <1>3 DEF StageOf, NextStep, AwaitsDocuments, FinalOutcome, Finals
<1>5. QED
  BY <1>4 DEF k

(* Once the notice was sent, nothing is left.                               *)
LEMMA NoticeSentMovesStage ==
  ASSUME NEW l \in LeadRecord, l.version # 0, Consistent(l), NextStep(l) = "notify"
  PROVE  LET k == Persisted(MarkNoticeSent(l))
         IN  /\ StageOf(l) = "notify" /\ StageOf(k) = "settled"
             /\ FinalOutcome(k) = FinalOutcome(l)
<1> DEFINE k == Persisted(MarkNoticeSent(l))
<1>1. /\ k.version = l.version + 1 /\ k.decision = l.decision /\ k.review = l.review
      /\ k.chase = l.chase /\ k.reply = l.reply /\ k.notice = "sent"
  BY DEF Persisted, MarkNoticeSent, LeadRecord
<1>2. /\ l.decision # "none" /\ ~ AwaitsDocuments(l)
      /\ l.decision = "need_more_documents" => l.chase = "sent" /\ l.review # "none"
  BY DEF NextStep
<1>3. k.version # 0
  BY <1>1 DEF LeadRecord
<1> HIDE DEF k
<1>4. StageOf(l) = "notify" /\ StageOf(k) = "settled" /\ FinalOutcome(k) = FinalOutcome(l)
  BY <1>1, <1>2, <1>3 DEF StageOf, NextStep, AwaitsDocuments, FinalOutcome
<1>5. QED
  BY <1>4 DEF k

(* A save that goes through is of the Lead the rows held, as the command    *)
(* left it; any other leaves the rows alone.                                *)
Command(h, l) == db' = db \/ (mem[h] = db /\ db' = Persisted(l))

LEMMA SavesAreCommands ==
  ASSUME IInv, NEW h \in Handlers, Loaded(h), NEW l \in LeadRecord, Continues(mem[h], l),
         db' = db \/ (CanCommit(l) /\ db' = Saved(l))
  PROVE  Command(h, l)
<1> SUFFICES ASSUME CanCommit(l), db' = Saved(l) PROVE mem[h] = db /\ db' = Persisted(l)
  BY DEF Command
<1>1. mem[h] = db
  BY DEF CanCommit, Continues, IInv, HandlerInv, Torn
<1>2. db \in LeadRecord /\ Consistent(db)
  BY DEF IInv, LocalInv, TypeOK
<1>3. QED
  BY <1>1, <1>2, SavedIsPersisted

\* A step the lifecycle does not see.
Unseen == UNCHANGED <<Stage, FinalOutcome(db), Chased, Told>>

(* A command that changes no more than status, ids and version is not seen. *)
LEMMA QuietCommand ==
  ASSUME IInv, NEW h \in Handlers, Loaded(h), NEW l \in LeadRecord, Command(h, l),
         UNCHANGED inbox,
         l.version = mem[h].version, l.decision = mem[h].decision,
         l.review = mem[h].review, l.reply = mem[h].reply,
         l.chase = "sent" <=> mem[h].chase = "sent",
         l.notice = "sent" <=> mem[h].notice = "sent"
  PROVE  Unseen
<1>1. UNCHANGED <<Chased, Told>>
  BY DEF Chased, Told
<1>2. CASE db' = db
  BY <1>1, <1>2 DEF Unseen, Stage
<1>3. CASE mem[h] = db /\ db' = Persisted(l)
  <2>1. db \in LeadRecord /\ db.version # 0
    BY <1>3 DEF IInv, LocalInv, TypeOK, HandlerInv, Loaded
  <2>2. Persisted(l) \in LeadRecord /\ Persisted(l).version # 0
    BY <1>3 DEF Persisted, LeadRecord
  <2>3. StageOf(db') = StageOf(db) /\ FinalOutcome(db') = FinalOutcome(db)
    BY <1>3, <2>1, <2>2, PersistedFields, StageIsOfTheRecord
  <2>4. QED
    BY <1>1, <2>3 DEF Unseen, Stage, StageOf
<1>4. QED
  BY <1>2, <1>3 DEF Command

(* When a handler's call was answered, its email is what the borrower has.  *)
LEMMA AnsweredIsSeen ==
  ASSUME IInv
  PROVE  /\ Delivered(ChaseEmail(db)) => Chased
         /\ Delivered(NoticeEmail(db)) => Told = {FinalOutcome(db)}
<1>1. Delivered(ChaseEmail(db)) => Chased
  BY DEF Delivered, ChaseEmail, Chased
<1>2. \A e \in inbox : e.about = "notice" => e.says = FinalOutcome(db)
  BY DEF IInv, MailInv, NoticeTellsTheOutcome
<1>3. Delivered(NoticeEmail(db)) => \E e \in inbox : e.about = "notice"
  BY DEF Delivered, NoticeEmail
<1>4. QED
  BY <1>1, <1>2, <1>3 DEF Told

(* What a delivery shows the borrower is the next thing due to be shown.    *)
LEMMA DeliveryIsALifecycleStep ==
  ASSUME IInv, NEW e \in requested, Deliver(e)
  PROVE  Lifecycle!ChaseReachesBorrower \/ Lifecycle!NoticeReachesBorrower
<1>1. /\ inbox' = inbox \union {e} /\ db' = db
      /\ ~ \E d \in inbox : d.about = e.about /\ d.key = e.key
  BY DEF Deliver
<1>2. /\ db \in LeadRecord /\ Consistent(db) /\ db.version # 0 /\ e \in Emails /\ e.key # 0
      /\ inbox \subseteq requested
  BY DEF IInv, LocalInv, TypeOK, RowInv, MailInv
<1>3. Stage = StageOf(db) /\ Stage' = Stage /\ UNCHANGED FinalOutcome(db)
  BY <1>1 DEF Stage, StageOf
<1>4. CASE e.about = "chase"
  <2>1. /\ \A d \in requested : d.about = "chase" => d.key = db.chaseId
        /\ e.key = db.chaseId /\ db.decision = "need_more_documents"
    BY <1>4 DEF IInv, MailInv, EveryChaseEmailIsTheChase
  <2>2. ~ Chased /\ Chased'
    BY <1>1, <1>2, <1>4, <2>1 DEF Chased
  <2>3. UNCHANGED Told
    BY <1>1, <1>4 DEF Told
  <2>4. db.chase # "sent"
    BY <1>1, <1>4, <2>1 DEF IInv, SentMeansDelivered, SentOnlyIfDelivered, Delivered, ChaseEmail
  <2>5. Stage = "chase"
    BY <1>2, <1>3, <2>1, <2>4 DEF StageOf, NextStep, AwaitsDocuments
  <2>6. QED
    BY <1>3, <2>2, <2>3, <2>5 DEF Lifecycle!ChaseReachesBorrower
<1>5. CASE e.about = "notice"
  <2>1. /\ \A d \in requested : d.about = "notice" => d.key = db.noticeId
        /\ e.key = db.noticeId /\ e.says = FinalOutcome(db)
    BY <1>5 DEF IInv, MailInv, NoticeTellsTheOutcome
  <2>2. ~ \E d \in inbox : d.about = "notice"
    BY <1>1, <1>2, <1>5, <2>1
  <2>3. Told = {} /\ Told' = {FinalOutcome(db)}
    BY <1>1, <1>5, <2>1, <2>2 DEF Told
  <2>4. UNCHANGED Chased
    BY <1>1, <1>5 DEF Chased
  <2>5. db.notice # "sent"
    BY <2>2 DEF IInv, SentMeansDelivered, SentOnlyIfDelivered, Delivered, NoticeEmail
  <2>6. FinalOutcome(db) # "none" /\ FinalOutcome(db) # "need_more_documents"
    BY <1>2, <2>1 DEF Consistent, FinalOutcome, Finals, LeadRecord, Outcomes
  <2>7. Stage = "notify"
    <3>1. db.review # "none" => db.reply # NoReply /\ db.chase = "sent"
      BY <1>2 DEF Consistent, StatusMatches
    <3>2. db.decision # "none" /\ (db.decision = "need_more_documents" => db.review # "none")
      BY <1>2, <2>6, <3>1 DEF Consistent, StatusMatches, FinalOutcome, Finals
    <3>3. QED
      BY <1>2, <1>3, <2>5, <3>1, <3>2 DEF StageOf, NextStep, AwaitsDocuments
  <2>8. QED
    BY <1>3, <2>3, <2>4, <2>7 DEF Lifecycle!NoticeReachesBorrower
<1>6. QED
  BY <1>2, <1>4, <1>5 DEF Emails

(* Every step of the handlers is a step of the lifecycle, or is not seen.   *)
LEMMA StepsAreLifecycleSteps ==
  ASSUME IInv, [Next]_vars
  PROVE  Lifecycle!Next \/ Unseen
<1> DEFINE Goal == Lifecycle!Next \/ Unseen
<1> SUFFICES Goal
  OBVIOUS
<1> HIDE DEF Goal
<1>1. /\ db \in LeadRecord /\ mem \in [Handlers -> LeadRecord]
      /\ answer \in [Handlers -> Outcomes \union {"none"}]
  BY DEF IInv, LocalInv, TypeOK
<1>2. ASSUME NEW h \in Handlers
      PROVE  /\ mem[h] \in LeadRecord /\ Due(h) /\ CarriesEmail(h)
             /\ Loaded(h) /\ mem[h].version = db.version =>
                  mem[h] = db /\ mem[h].version # 0 /\ Consistent(mem[h])
  BY <1>1, <1>2 DEF IInv, LocalInv, HandlerInv, Torn, Loaded
<1>3. ASSUME UNCHANGED <<db, inbox>> PROVE Goal
  BY <1>3 DEF Goal, Unseen, Stage, Chased, Told
<1> SUFFICES ASSUME ~ UNCHANGED <<db, inbox>> PROVE Goal
  BY <1>3
<1>4. ASSUME UNCHANGED inbox PROVE UNCHANGED <<Chased, Told>>
  BY <1>4 DEF Chased, Told
<1> DEFINE Commits(h, l) == /\ CanCommit(l) /\ db' = Saved(l)
                            /\ Consistent(mem[h]) /\ mem[h].version # 0
<1>5. ASSUME NEW h \in Handlers, Loaded(h), NEW l, l.version = mem[h].version, UNCHANGED inbox,
             NEW place, SaveThen(h, l, place)
      PROVE  Commits(h, l)
  <2>1. CanCommit(l) /\ db' = Saved(l)
    BY <1>5 DEF SaveThen
  <2>2. QED
    BY <1>2, <1>5, <2>1 DEF CanCommit
<1>6. ASSUME NEW h \in Handlers, Loaded(h), NEW l, l.version = mem[h].version, UNCHANGED inbox,
             SaveAndLeave(h, l)
      PROVE  Commits(h, l)
  <2>1. CanCommit(l) /\ db' = Saved(l)
    BY <1>6 DEF SaveAndLeave
  <2>2. QED
    BY <1>2, <1>6, <2>1 DEF CanCommit
<1>7. Stage = StageOf(db) /\ Stage' = StageOf(db')
  BY DEF Stage, StageOf
<1>8. ASSUME NEW h \in Handlers, Submit(h) PROVE Goal
  <2>1. db = Submitted /\ UNCHANGED inbox /\ (db' = db \/ db' = Saved(Submitted))
    BY <1>8 DEF Submit, SaveThen, services, IInv, RowInv
  <2>2. CASE db' = Saved(Submitted)
    <3>1. db' = [Submitted EXCEPT !.version = 1]
      BY <2>1, <2>2 DEF Saved, SavedOver, Submitted
    <3>2. StageOf(db') = "prequalify" /\ FinalOutcome(db') = FinalOutcome(db)
      BY <2>1, <3>1 DEF StageOf, NextStep, AwaitsDocuments, FinalOutcome, Submitted
    <3>3. StageOf(db) = "none"
      BY <2>1 DEF StageOf, Submitted
    <3>4. Lifecycle!Submit
      BY <1>4, <1>7, <2>1, <3>2, <3>3 DEF Lifecycle!Submit
    <3>5. QED
      BY <3>4 DEF Goal, Lifecycle!Next
  <2>3. QED
    BY <1>3, <2>1, <2>2
<1>9. ASSUME NEW h \in Handlers, RequestReplay(h) PROVE Goal
  BY <1>3, <1>9 DEF RequestReplay, services
<1>10. ASSUME NEW h \in Handlers, NEW r \in Replies, EmailArrives(h, r) PROVE Goal
  BY <1>3, <1>10 DEF EmailArrives, services
<1>11. ASSUME NEW h \in Handlers, Load(h) \/ RedeliveredReply(h) \/ Finish(h) PROVE Goal
  BY <1>3, <1>11 DEF Load, RedeliveredReply, Finish, services
<1>12. ASSUME NEW h \in Handlers, SendChase(h) \/ SendNotice(h) \/ Die(h) PROVE Goal
  BY <1>3, <1>12 DEF SendChase, SendNotice, Request, Die, services
<1>13. ASSUME NEW h \in Handlers, FigureStep(h) PROVE Goal
  BY <1>3, <1>13 DEF FigureStep, SoftPull, DocumentReview, FigureAnswers
<1>14. ASSUME NEW h \in Handlers, Replay(h) \/ RefuseReply(h) PROVE Goal
  <2>1. Loaded(h) /\ UNCHANGED inbox
    BY <1>14 DEF Replay, RefuseReply, Loaded, services
  <2>2. Commits(h, mem[h])
    BY <1>5, <1>6, <1>14, <2>1 DEF Replay, RefuseReply
  <2>3. mem[h] \in LeadRecord /\ Continues(mem[h], mem[h])
    BY <1>2, <2>2, KeepsReflexive DEF Continues
  <2>4. Command(h, mem[h])
    BY <2>1, <2>2, <2>3, SavesAreCommands
  <2>5. QED
    BY <2>1, <2>3, <2>4, QuietCommand DEF Goal
<1>15. ASSUME NEW h \in Handlers, Prequalify(h) PROVE Goal
  <2> DEFINE l == StartPrequalification(mem[h])
  <2>0. /\ mem[h] \in LeadRecord /\ Loaded(h)
        /\ NextStep(mem[h]) = "prequalify" /\ UNCHANGED inbox
        /\ SaveThen(h, l, "pull")
    BY <1>2, <1>15 DEF Prequalify, AdvanceTo, Loaded, services
  <2>1. /\ Commits(h, l)
        /\ mem[h] \in LeadRecord /\ Loaded(h)
        /\ NextStep(mem[h]) = "prequalify" /\ UNCHANGED inbox
    BY <1>5, <2>0, CommandsKeepVersion
  <2>2. l \in LeadRecord /\ Continues(mem[h], l)
    BY <2>1, CommandsKeepType, StartPrequalificationContinues
  <2>3. /\ l.version = mem[h].version /\ l.decision = mem[h].decision
        /\ l.review = mem[h].review /\ l.reply = mem[h].reply
        /\ l.chase = mem[h].chase /\ l.notice = mem[h].notice
    BY <2>1 DEF StartPrequalification, LeadRecord
  <2>4. Command(h, l)
    BY <2>1, <2>2, SavesAreCommands
  <2>5. QED
    BY <2>1, <2>2, <2>3, <2>4, QuietCommand DEF Goal
<1>16. ASSUME NEW h \in Handlers, Review(h) PROVE Goal
  <2> DEFINE l == StartReview(mem[h])
  <2>0. /\ mem[h] \in LeadRecord /\ Loaded(h)
        /\ NextStep(mem[h]) = "review" /\ UNCHANGED inbox
        /\ SaveThen(h, l, "review")
    BY <1>2, <1>16 DEF Review, AdvanceTo, Loaded, services
  <2>1. /\ Commits(h, l)
        /\ mem[h] \in LeadRecord /\ Loaded(h)
        /\ NextStep(mem[h]) = "review" /\ UNCHANGED inbox
    BY <1>5, <2>0, CommandsKeepVersion
  <2>2. l \in LeadRecord /\ Continues(mem[h], l)
    BY <2>1, CommandsKeepType, StartReviewContinues
  <2>3. /\ l.version = mem[h].version /\ l.decision = mem[h].decision
        /\ l.review = mem[h].review /\ l.reply = mem[h].reply
        /\ l.chase = mem[h].chase /\ l.notice = mem[h].notice
    BY <2>1 DEF StartReview, LeadRecord
  <2>4. Command(h, l)
    BY <2>1, <2>2, SavesAreCommands
  <2>5. QED
    BY <2>1, <2>2, <2>3, <2>4, QuietCommand DEF Goal
<1>17. ASSUME NEW h \in Handlers, BeginChase(h) PROVE Goal
  <2> DEFINE l == OpenChase(mem[h])
  <2>0. /\ mem[h] \in LeadRecord /\ Loaded(h)
        /\ NextStep(mem[h]) = "chase" /\ mem[h].chaseId = 0 /\ UNCHANGED inbox
        /\ SaveThen(h, l, "advance")
    BY <1>2, <1>17 DEF BeginChase, AdvanceTo, Loaded, services
  <2>1. /\ Commits(h, l)
        /\ mem[h] \in LeadRecord /\ Loaded(h)
        /\ NextStep(mem[h]) = "chase" /\ mem[h].chaseId = 0 /\ UNCHANGED inbox
    BY <1>5, <2>0, CommandsKeepVersion
  <2>2. l \in LeadRecord /\ Continues(mem[h], l)
    BY <2>1, CommandsKeepType, OpenChaseContinues
  <2>3. /\ l.version = mem[h].version /\ l.decision = mem[h].decision
        /\ l.review = mem[h].review /\ l.reply = mem[h].reply
        /\ l.chase = "pending" /\ l.notice = mem[h].notice /\ mem[h].chase = "none"
    BY <2>1 DEF OpenChase, LeadRecord, Consistent
  <2>4. Command(h, l)
    BY <2>1, <2>2, SavesAreCommands
  <2>5. QED
    BY <2>1, <2>2, <2>3, <2>4, QuietCommand DEF Goal
<1>18. ASSUME NEW h \in Handlers, BeginNotice(h) PROVE Goal
  <2> DEFINE l == OpenNotice(mem[h])
  <2>0. /\ mem[h] \in LeadRecord /\ Loaded(h)
        /\ NextStep(mem[h]) = "notify" /\ mem[h].noticeId = 0 /\ UNCHANGED inbox
        /\ SaveThen(h, l, "advance")
    BY <1>2, <1>18 DEF BeginNotice, AdvanceTo, Loaded, services
  <2>1. /\ Commits(h, l)
        /\ mem[h] \in LeadRecord /\ Loaded(h)
        /\ NextStep(mem[h]) = "notify" /\ mem[h].noticeId = 0 /\ UNCHANGED inbox
    BY <1>5, <2>0, CommandsKeepVersion
  <2>2. l \in LeadRecord /\ Continues(mem[h], l)
    BY <2>1, CommandsKeepType, OpenNoticeContinues
  <2>3. /\ l.version = mem[h].version /\ l.decision = mem[h].decision
        /\ l.review = mem[h].review /\ l.reply = mem[h].reply
        /\ l.chase = mem[h].chase /\ l.notice = "pending" /\ mem[h].notice = "none"
    BY <2>1 DEF OpenNotice, LeadRecord, Consistent
  <2>4. Command(h, l)
    BY <2>1, <2>2, SavesAreCommands
  <2>5. QED
    BY <2>1, <2>2, <2>3, <2>4, QuietCommand DEF Goal
<1>19. ASSUME NEW h \in Handlers, PullFails(h) \/ ReviewFails(h) PROVE Goal
  <2> DEFINE l == Fail(mem[h])
  <2>0. /\ mem[h] \in LeadRecord /\ Loaded(h) /\ UNCHANGED inbox
        /\ SaveAndLeave(h, l)
    BY <1>2, <1>19 DEF PullFails, ReviewFails, SaveFailureAndLeave, Loaded, services
  <2>1. /\ Commits(h, l)
        /\ mem[h] \in LeadRecord /\ Loaded(h) /\ UNCHANGED inbox
    BY <1>6, <2>0, CommandsKeepVersion
  <2>2. NextStep(mem[h]) # "done"
    BY <1>2, <1>19 DEF PullFails, ReviewFails, Due, CanRecordDecision, CanReview, NextStep
  <2>3. l \in LeadRecord /\ Continues(mem[h], l)
    BY <2>1, <2>2, CommandsKeepType, FailContinues
  <2>4. /\ l.version = mem[h].version /\ l.decision = mem[h].decision
        /\ l.review = mem[h].review /\ l.reply = mem[h].reply
        /\ l.chase = mem[h].chase /\ l.notice = mem[h].notice
    BY <2>1 DEF Fail, LeadRecord
  <2>5. Command(h, l)
    BY <2>1, <2>3, SavesAreCommands
  <2>6. QED
    BY <2>1, <2>3, <2>4, <2>5, QuietCommand DEF Goal
<1>20. ASSUME NEW h \in Handlers, ChaseFails(h) PROVE Goal
  <2> DEFINE l == MarkChaseFailed(mem[h])
  <2>0. /\ mem[h] \in LeadRecord /\ Loaded(h) /\ UNCHANGED inbox
        /\ NextStep(mem[h]) = "chase" /\ mem[h].chaseId # 0
        /\ SaveAndLeave(h, l)
    BY <1>2, <1>20 DEF ChaseFails, SaveFailureAndLeave, Loaded, Due, services
  <2>1. /\ Commits(h, l)
        /\ mem[h] \in LeadRecord /\ Loaded(h) /\ UNCHANGED inbox
        /\ NextStep(mem[h]) = "chase" /\ mem[h].chaseId # 0
    BY <1>6, <2>0, CommandsKeepVersion
  <2>2. l \in LeadRecord /\ Continues(mem[h], l)
    BY <2>1, CommandsKeepType, MarkChaseFailedContinues
  <2>3. /\ l.version = mem[h].version /\ l.decision = mem[h].decision
        /\ l.review = mem[h].review /\ l.reply = mem[h].reply
        /\ l.chase = "failed" /\ l.notice = mem[h].notice
    BY <2>1 DEF MarkChaseFailed, Fail, LeadRecord
  <2>4. mem[h].chase # "sent"
    BY <2>1 DEF NextStep, AwaitsDocuments
  <2>5. Command(h, l)
    BY <2>1, <2>2, SavesAreCommands
  <2>6. QED
    BY <2>1, <2>2, <2>3, <2>4, <2>5, QuietCommand DEF Goal
<1>21. ASSUME NEW h \in Handlers, NoticeFails(h) PROVE Goal
  <2> DEFINE l == MarkNoticeFailed(mem[h])
  <2>0. /\ mem[h] \in LeadRecord /\ Loaded(h) /\ UNCHANGED inbox
        /\ NextStep(mem[h]) = "notify" /\ mem[h].noticeId # 0
        /\ SaveAndLeave(h, l)
    BY <1>2, <1>21 DEF NoticeFails, SaveFailureAndLeave, Loaded, Due, services
  <2>1. /\ Commits(h, l)
        /\ mem[h] \in LeadRecord /\ Loaded(h) /\ UNCHANGED inbox
        /\ NextStep(mem[h]) = "notify" /\ mem[h].noticeId # 0
    BY <1>6, <2>0, CommandsKeepVersion
  <2>2. l \in LeadRecord /\ Continues(mem[h], l)
    BY <2>1, CommandsKeepType, MarkNoticeFailedContinues
  <2>3. /\ l.version = mem[h].version /\ l.decision = mem[h].decision
        /\ l.review = mem[h].review /\ l.reply = mem[h].reply
        /\ l.chase = mem[h].chase /\ l.notice = "failed"
    BY <2>1 DEF MarkNoticeFailed, Fail, LeadRecord
  <2>4. mem[h].notice # "sent"
    BY <2>1 DEF NextStep
  <2>5. Command(h, l)
    BY <2>1, <2>2, SavesAreCommands
  <2>6. QED
    BY <2>1, <2>2, <2>3, <2>4, <2>5, QuietCommand DEF Goal
<1>22. ASSUME NEW h \in Handlers, DecisionArrives(h) PROVE Goal
  <2> DEFINE l == RecordDecision(mem[h], answer[h])
  <2>0. /\ mem[h] \in LeadRecord /\ Loaded(h)
        /\ CanRecordDecision(mem[h]) /\ answer[h] \in Outcomes /\ UNCHANGED inbox
        /\ SaveThen(h, l, "advance")
    BY <1>1, <1>2, <1>22 DEF DecisionArrives, Loaded, Due, services
  <2>1. /\ Commits(h, l)
        /\ mem[h] \in LeadRecord /\ Loaded(h)
        /\ CanRecordDecision(mem[h]) /\ answer[h] \in Outcomes /\ UNCHANGED inbox
    BY <1>5, <2>0, CommandsKeepVersion
  <2>2. l \in LeadRecord /\ Continues(mem[h], l)
    BY <2>1, CommandsKeepType, RecordDecisionContinues
  <2>3. CASE mem[h] = db /\ db' = Persisted(l)
    <3>1. /\ StageOf(db) = "prequalify"
          /\ \/ \E o \in Finals : StageOf(db') = "notify" /\ FinalOutcome(db') = o
             \/ StageOf(db') = "chase" /\ FinalOutcome(db') = FinalOutcome(db)
      BY <2>1, <2>3, DecisionMovesStage
    <3>2. (\E o \in Finals : Lifecycle!Settle("prequalify", o)) \/ Lifecycle!NeedDocuments
      BY <1>4, <1>7, <2>1, <3>1 DEF Lifecycle!Settle, Lifecycle!NeedDocuments
    <3>3. QED
      BY <3>2 DEF Goal, Lifecycle!Next, Lifecycle!Finals, Finals
  <2>4. QED
    BY <1>3, <2>1, <2>2, <2>3, SavesAreCommands DEF Command
<1>23. ASSUME NEW h \in Handlers, ReviewArrives(h) PROVE Goal
  <2> DEFINE l == RecordReview(mem[h], answer[h])
  <2>0. /\ mem[h] \in LeadRecord /\ Loaded(h)
        /\ CanReview(mem[h]) /\ answer[h] \in Finals /\ UNCHANGED inbox
        /\ SaveThen(h, l, "advance")
    BY <1>1, <1>2, <1>23 DEF ReviewArrives, Loaded, Due, services
  <2>1. /\ Commits(h, l)
        /\ mem[h] \in LeadRecord /\ Loaded(h)
        /\ CanReview(mem[h]) /\ answer[h] \in Finals /\ UNCHANGED inbox
    BY <1>5, <2>0, CommandsKeepVersion
  <2>2. l \in LeadRecord /\ Continues(mem[h], l)
    BY <2>1, CommandsKeepType, RecordReviewContinues DEF CanReview
  <2>3. CASE mem[h] = db /\ db' = Persisted(l)
    <3>1. StageOf(db) = "review" /\ StageOf(db') = "notify" /\ FinalOutcome(db') = answer[h]
      BY <2>1, <2>3, ReviewMovesStage
    <3>2. Lifecycle!Settle("review", answer[h])
      BY <1>4, <1>7, <2>1, <3>1 DEF Lifecycle!Settle
    <3>3. QED
      BY <2>1, <3>2 DEF Goal, Lifecycle!Next, Lifecycle!Finals, Finals
  <2>4. QED
    BY <1>3, <2>1, <2>2, <2>3, SavesAreCommands DEF Command
<1>24. ASSUME NEW h \in Handlers, ChaseAnswered(h) PROVE Goal
  <2> DEFINE l == MarkChaseSent(mem[h])
  <2>0. /\ mem[h] \in LeadRecord /\ Loaded(h)
        /\ NextStep(mem[h]) = "chase" /\ mem[h].chaseId # 0 /\ UNCHANGED inbox
        /\ Delivered(ChaseEmail(mem[h]))
        /\ SaveThen(h, l, "advance")
    BY <1>2, <1>24 DEF ChaseAnswered, Loaded, Due, services
  <2>1. /\ Commits(h, l)
        /\ mem[h] \in LeadRecord /\ Loaded(h)
        /\ NextStep(mem[h]) = "chase" /\ mem[h].chaseId # 0 /\ UNCHANGED inbox
        /\ Delivered(ChaseEmail(mem[h]))
    BY <1>5, <2>0, CommandsKeepVersion
  <2>2. l \in LeadRecord /\ Continues(mem[h], l)
    BY <2>1, CommandsKeepType, MarkChaseSentContinues
  <2>3. CASE mem[h] = db /\ db' = Persisted(l)
    <3>1. /\ StageOf(db) = "chase" /\ StageOf(db') = "documents"
          /\ FinalOutcome(db') = FinalOutcome(db)
      BY <2>1, <2>3, ChaseSentMovesStage
    <3>2. Chased
      BY <2>1, <2>3, AnsweredIsSeen
    <3>3. Lifecycle!AwaitDocuments
      BY <1>4, <1>7, <2>1, <3>1, <3>2 DEF Lifecycle!AwaitDocuments
    <3>4. QED
      BY <3>3 DEF Goal, Lifecycle!Next
  <2>4. QED
    BY <1>3, <2>1, <2>2, <2>3, SavesAreCommands DEF Command
<1>25. ASSUME NEW h \in Handlers, NoticeAnswered(h) PROVE Goal
  <2> DEFINE l == MarkNoticeSent(mem[h])
  <2>0. /\ mem[h] \in LeadRecord /\ Loaded(h)
        /\ NextStep(mem[h]) = "notify" /\ mem[h].noticeId # 0 /\ UNCHANGED inbox
        /\ Delivered(NoticeEmail(mem[h]))
        /\ SaveThen(h, l, "advance")
    BY <1>2, <1>25 DEF NoticeAnswered, Loaded, Due, services
  <2>1. /\ Commits(h, l)
        /\ mem[h] \in LeadRecord /\ Loaded(h)
        /\ NextStep(mem[h]) = "notify" /\ mem[h].noticeId # 0 /\ UNCHANGED inbox
        /\ Delivered(NoticeEmail(mem[h]))
    BY <1>5, <2>0, CommandsKeepVersion
  <2>2. l \in LeadRecord /\ Continues(mem[h], l)
    BY <2>1, CommandsKeepType, NotifyHasOutcome, MarkNoticeSentContinues
  <2>3. CASE mem[h] = db /\ db' = Persisted(l)
    <3>1. /\ StageOf(db) = "notify" /\ StageOf(db') = "settled"
          /\ FinalOutcome(db') = FinalOutcome(db)
      BY <2>1, <2>3, NoticeSentMovesStage
    <3>2. Told = {FinalOutcome(db)}
      BY <2>1, <2>3, AnsweredIsSeen
    <3>3. Lifecycle!Close
      BY <1>4, <1>7, <2>1, <3>1, <3>2 DEF Lifecycle!Close
    <3>4. QED
      BY <3>3 DEF Goal, Lifecycle!Next
  <2>4. QED
    BY <1>3, <2>1, <2>2, <2>3, SavesAreCommands DEF Command
<1>26. ASSUME NEW h \in Handlers, TakeReply(h) PROVE Goal
  <2> DEFINE l == AcceptReply(mem[h], email[h])
  <2>0. /\ mem[h] \in LeadRecord /\ Loaded(h)
        /\ email[h] \in Replies /\ ReplyVerdict(mem[h], email[h]) = "accepted" /\ UNCHANGED inbox
        /\ CanCommit(l) /\ db' = Saved(l)
    BY <1>2, <1>26 DEF TakeReply, CarriesEmail, Loaded, services
  <2>1. /\ Commits(h, l)
        /\ mem[h] \in LeadRecord /\ Loaded(h)
        /\ email[h] \in Replies /\ ReplyVerdict(mem[h], email[h]) = "accepted" /\ UNCHANGED inbox
    BY <1>2, <2>0, CommandsKeepVersion DEF CanCommit
  <2>2. l \in LeadRecord /\ Continues(mem[h], l)
    BY <2>1, CommandsKeepType, AcceptReplyContinues
  <2>3. CASE mem[h] = db /\ db' = Persisted(l)
    <3>1. /\ StageOf(db) = "documents" /\ StageOf(db') = "review"
          /\ FinalOutcome(db') = FinalOutcome(db)
      BY <2>1, <2>3, ReplyMovesStage
    <3>2. Lifecycle!AcceptDocuments
      BY <1>4, <1>7, <2>1, <3>1 DEF Lifecycle!AcceptDocuments
    <3>3. QED
      BY <3>2 DEF Goal, Lifecycle!Next
  <2>4. QED
    BY <1>3, <2>1, <2>2, <2>3, SavesAreCommands DEF Command
<1>27. ASSUME NEW e \in requested, Deliver(e) PROVE Goal
  BY <1>27, DeliveryIsALifecycleStep DEF Goal, Lifecycle!Next
<1>28. CASE UNCHANGED vars
  BY <1>3, <1>28 DEF vars
<1>29. QED
  BY <1>8, <1>9, <1>10, <1>11, <1>12, <1>13, <1>14, <1>15, <1>16, <1>17, <1>18, <1>19, <1>20,
     <1>21, <1>22, <1>23, <1>24, <1>25, <1>26, <1>27, <1>28
  DEF Next, Arrival, HandlerStep, FaultStep

(* Seen from outside, and as long as no load is torn, the handlers together *)
(* behave as one Lead of the lifecycle, however they interleave, fail and   *)
(* die.                                                                     *)
THEOREM PipelineImplementsLifecycle ==
  Spec /\ NoLoadIsTorn => ImplementsLifecycle
<1>1. Init => Lifecycle!Init
  BY DEF Init, Submitted, Lifecycle!Init, Stage, FinalOutcome, Finals, Chased, Told
<1>2. IInv /\ [Next]_vars => [Lifecycle!Next]_(Lifecycle!vars)
  BY StepsAreLifecycleSteps DEF Unseen, Lifecycle!vars
<1>3. QED
  BY <1>1, <1>2, RecordInvariant, PTL DEF Spec, ImplementsLifecycle, Lifecycle!Spec

(* What the lifecycle promises, the pipeline keeps.                         *)

(* What the lifecycle promises follows from its own steps.                  *)
LEMMA LifecycleKnows ==
  Lifecycle!Spec => [](Lifecycle!TypeOK /\ Lifecycle!BorrowerKnows)
<1> DEFINE LInv == Lifecycle!TypeOK /\ Lifecycle!BorrowerKnows
<1>1. Lifecycle!Init => LInv
  BY DEF Lifecycle!Init, Lifecycle!TypeOK, Lifecycle!BorrowerKnows, Lifecycle!Finals,
         Lifecycle!Stages
<1>2. ASSUME LInv, Lifecycle!Next PROVE LInv'
  <2> USE <1>2 DEF Lifecycle!TypeOK, Lifecycle!BorrowerKnows, Lifecycle!Finals, Lifecycle!Stages
  <2>1. CASE Lifecycle!Submit
    BY <2>1 DEF Lifecycle!Submit
  <2>2. CASE Lifecycle!NeedDocuments
    BY <2>2 DEF Lifecycle!NeedDocuments
  <2>3. CASE Lifecycle!ChaseReachesBorrower
    BY <2>3 DEF Lifecycle!ChaseReachesBorrower
  <2>4. CASE Lifecycle!AwaitDocuments
    BY <2>4 DEF Lifecycle!AwaitDocuments
  <2>5. CASE Lifecycle!AcceptDocuments
    BY <2>5 DEF Lifecycle!AcceptDocuments
  <2>6. CASE Lifecycle!NoticeReachesBorrower
    BY <2>6 DEF Lifecycle!NoticeReachesBorrower
  <2>7. CASE Lifecycle!Close
    BY <2>7 DEF Lifecycle!Close
  <2>8. ASSUME NEW o \in Lifecycle!Finals,
               Lifecycle!Settle("prequalify", o) \/ Lifecycle!Settle("review", o)
        PROVE  LInv'
    BY <2>8 DEF Lifecycle!Settle
  <2>9. QED
    BY <2>1, <2>2, <2>3, <2>4, <2>5, <2>6, <2>7, <2>8 DEF Lifecycle!Next
<1>3. LInv /\ UNCHANGED Lifecycle!vars => LInv'
  BY DEF Lifecycle!vars, Lifecycle!TypeOK, Lifecycle!BorrowerKnows
<1> HIDE DEF LInv
<1>4. LInv /\ [Lifecycle!Next]_(Lifecycle!vars) => LInv'
  BY <1>2, <1>3
<1>5. Lifecycle!Spec => []LInv
  BY <1>1, <1>4, PTL DEF Lifecycle!Spec
<1>6. QED
  BY <1>5 DEF LInv

\* For any number of requests that interleave, fail and die, as long as no load is torn:
\* the borrower knows what the Lead says, and a Lead is settled only once the borrower was
\* told its outcome (advance).
THEOREM SettledMeansTold ==
  Spec /\ NoLoadIsTorn => []Lifecycle!BorrowerKnows
<1>1. Spec /\ NoLoadIsTorn => Lifecycle!Spec
  BY PipelineImplementsLifecycle DEF ImplementsLifecycle
<1>2. QED
  BY <1>1, LifecycleKnows, PTL

\* However the requests interleave and whatever is replayed, as long as no load is torn: no
\* stage of a Lead comes again, and neither its outcome nor an email is taken back
\* (replayLead, advance).
THEOREM StagesNeverComeBack ==
  Spec /\ NoLoadIsTorn => Lifecycle!NothingComesBack
<1> DEFINE LInv == Lifecycle!TypeOK /\ Lifecycle!BorrowerKnows
           Forward == /\ Lifecycle!Rank[Stage] <= Lifecycle!Rank[Stage']
                      /\ Stage' = Stage => FinalOutcome(db)' = FinalOutcome(db)
                      /\ FinalOutcome(db) # "none" => FinalOutcome(db)' = FinalOutcome(db)
                      /\ Chased => Chased'
                      /\ Told \subseteq Told'
<1>1. ASSUME LInv, Lifecycle!Next PROVE Forward
  <2> USE <1>1 DEF Lifecycle!BorrowerKnows, Lifecycle!Rank
  <2>1. CASE Lifecycle!Submit
    BY <2>1 DEF Lifecycle!Submit
  <2>2. CASE Lifecycle!NeedDocuments
    BY <2>2 DEF Lifecycle!NeedDocuments
  <2>3. CASE Lifecycle!ChaseReachesBorrower
    BY <2>3 DEF Lifecycle!ChaseReachesBorrower
  <2>4. CASE Lifecycle!AwaitDocuments
    BY <2>4 DEF Lifecycle!AwaitDocuments
  <2>5. CASE Lifecycle!AcceptDocuments
    BY <2>5 DEF Lifecycle!AcceptDocuments
  <2>6. CASE Lifecycle!NoticeReachesBorrower
    BY <2>6 DEF Lifecycle!NoticeReachesBorrower
  <2>7. CASE Lifecycle!Close
    BY <2>7 DEF Lifecycle!Close
  <2>8. ASSUME NEW o \in Lifecycle!Finals,
               Lifecycle!Settle("prequalify", o) \/ Lifecycle!Settle("review", o)
        PROVE  Forward
    BY <2>8 DEF Lifecycle!Settle
  <2>9. QED
    BY <2>1, <2>2, <2>3, <2>4, <2>5, <2>6, <2>7, <2>8 DEF Lifecycle!Next
<1>2. LInv /\ [Lifecycle!Next]_(Lifecycle!vars) => [Forward]_(Lifecycle!vars)
  BY <1>1
<1>3. Spec /\ NoLoadIsTorn => Lifecycle!Spec
  BY PipelineImplementsLifecycle DEF ImplementsLifecycle
<1>4. QED
  BY <1>2, <1>3, LifecycleKnows, PTL DEF Lifecycle!Spec, Lifecycle!NothingComesBack
==============================================================================
