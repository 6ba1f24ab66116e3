--------------------------- MODULE LeadViewProofs ----------------------------
(***************************************************************************)
(* What intake answers and the result page shows of a Lead is true, for    *)
(* any handlers, replies and bounds, as long as every load is whole        *)
(* (LoadsAreWhole: an answer may be made from a copy whose version nothing *)
(* checks); and, as long as no load is torn, every offer to Replay has     *)
(* work behind it.  The argument: each statement of a card follows from a  *)
(* few fields of one consistent Lead, and a record keeps what a handler's  *)
(* copy of it says.                                                        *)
(***************************************************************************)
EXTENDS LeadView, LeadPipelineProofs

------------------------------------------------------------------------------
(* What the cards say of an answer, whatever its fields.                    *)

LEMMA Whens ==
  ASSUME NEW c \in BOOLEAN, NEW s, NEW t
  PROVE  t \in When(c, s) <=> c /\ t = s
BY DEF When

(* The answers intake can give have these types.                           *)
AnswerTyped(r) ==
  /\ r.status \in Statuses
  /\ r.offer \in BOOLEAN /\ r.reason \in BOOLEAN /\ r.documents_received \in BOOLEAN
  /\ r.offer => ~ r.reason

LEMMA DecisionCards ==
  ASSUME NEW r, AnswerTyped(r)
  PROVE  /\ "offered" \in StatusCard(r) <=>
              /\ r.offer
              /\ \/ r.status = "approved"
                 \/ r.status = "failed" /\ r.failed_step = "notify"
         /\ "refused" \in StatusCard(r) <=>
              \/ r.status = "rejected"
              \/ r.status = "failed" /\ r.failed_step = "notify" /\ r.reason /\ ~ r.offer
         /\ "start_over" \in StatusCard(r) <=> "refused" \in StatusCard(r)
         /\ "based_on_documents" \in StatusCard(r) =>
              r.documents_received /\ {"offered", "refused"} \intersect StatusCard(r) # {}
         /\ "result_emailed" \in StatusCard(r) =>
              r.notice = "sent" /\ {"offered", "refused"} \intersect StatusCard(r) # {}
<1>1. \A s \in {"offered", "refused", "start_over", "based_on_documents", "result_emailed"} :
        s \notin FailedCard(r) /\ s \notin PendingCard /\ s \notin DocumentsCard(r)
        /\ s \notin DocumentsReceivedCard(r)
  BY DEF FailedCard, FAILURE_COPY, When, PendingCard, DocumentsCard, ReplyInstructions,
     DocumentsReceivedCard
<1>2. /\ "offered" \in OfferCard(r) /\ "offered" \notin RejectedCard(r)
      /\ "refused" \in RejectedCard(r) /\ "refused" \notin OfferCard(r)
      /\ "start_over" \in RejectedCard(r) /\ "start_over" \notin OfferCard(r)
  BY DEF OfferCard, RejectedCard, DecisionNote, When
<1>3. \A card \in {OfferCard(r), RejectedCard(r)} :
        /\ "based_on_documents" \in card => r.documents_received
        /\ "result_emailed" \in card => r.notice = "sent"
  BY DEF OfferCard, RejectedCard, DecisionNote, When
<1>4. CASE r.status = "approved"
  BY <1>1, <1>2, <1>3, <1>4 DEF StatusCard
<1>5. CASE r.status = "rejected"
  BY <1>1, <1>2, <1>3, <1>5 DEF StatusCard
<1>6. CASE r.status = "failed"
  BY <1>1, <1>2, <1>3, <1>6 DEF StatusCard, DecisionBelow, AnswerTyped
<1>7. CASE r.status \notin {"approved", "rejected", "failed"}
  BY <1>1, <1>7 DEF StatusCard
<1>8. QED
  BY <1>4, <1>5, <1>6, <1>7

LEMMA WaitingCards ==
  ASSUME NEW r, AnswerTyped(r)
  PROVE  /\ \A s \in {"documents_needed", "checklist_on_its_way", "reply_to_our_email"} :
              s \in StatusCard(r) => r.status \in {"need_more_documents", "chase_sent"}
         /\ r.status \in {"need_more_documents", "chase_sent"} => "documents_needed" \in StatusCard(r)
         /\ "reply_to_our_email" \in StatusCard(r) => r.chase = "sent" /\ r.reply_to # 0
         /\ "under_review" \in StatusCard(r) <=> r.status = "documents_received"
         /\ "files_received" \in StatusCard(r) <=>
              r.status = "documents_received" /\ r.documents_received
         /\ r.status \in {"submitted", "processing"} => "checking" \in StatusCard(r)
<1> DEFINE Mine == {"documents_needed", "checklist_on_its_way", "reply_to_our_email",
                    "under_review", "files_received"}
<1>1. \A s \in Mine : s \notin FailedCard(r) /\ s \notin PendingCard
                      /\ s \notin OfferCard(r) /\ s \notin RejectedCard(r)
  BY DEF FailedCard, FAILURE_COPY, When, PendingCard, OfferCard, RejectedCard, DecisionNote
<1>2. CASE r.status \in {"need_more_documents", "chase_sent"}
  BY <1>2 DEF StatusCard, DocumentsCard, ReplyInstructions
<1>3. CASE r.status = "documents_received"
  BY <1>3 DEF StatusCard, DocumentsReceivedCard, When, AnswerTyped
<1>4. CASE r.status \in {"approved", "rejected", "failed"}
  BY <1>1, <1>4 DEF StatusCard, DecisionBelow
<1>5. CASE r.status \in {"submitted", "processing"}
  BY <1>1, <1>5 DEF StatusCard, PendingCard
<1>6. QED
  BY <1>2, <1>3, <1>4, <1>5 DEF AnswerTyped, Statuses, Outcomes, Finals

LEMMA FailureCards ==
  ASSUME NEW r, AnswerTyped(r)
  PROVE  /\ "try_again" \in StatusCard(r) <=> r.status = "failed"
         /\ "documents_known" \in StatusCard(r) => r.status = "failed" /\ r.failed_step = "chase"
         /\ "documents_kept" \in StatusCard(r) => r.status = "failed" /\ r.failed_step = "review"
         /\ "result_below" \in StatusCard(r) => r.status = "failed" /\ r.failed_step = "notify"
<1> DEFINE Mine == {"try_again", "documents_known", "documents_kept", "result_below"}
<1>1. \A s \in Mine : /\ s \notin PendingCard /\ s \notin DocumentsCard(r)
                      /\ s \notin DocumentsReceivedCard(r)
                      /\ s \notin OfferCard(r) /\ s \notin RejectedCard(r)
  BY DEF PendingCard, OfferCard, RejectedCard, DecisionNote, When, DocumentsCard,
     ReplyInstructions, DocumentsReceivedCard
<1>2. /\ "try_again" \in FailedCard(r)
      /\ "documents_known" \in FailedCard(r) => r.failed_step = "chase"
      /\ "documents_kept" \in FailedCard(r) => r.failed_step = "review"
      /\ "result_below" \in FailedCard(r) => r.failed_step = "notify"
  BY DEF FailedCard, FAILURE_COPY, When
<1>3. CASE r.status = "failed"
  BY <1>1, <1>2, <1>3 DEF StatusCard, DecisionBelow
<1>4. CASE r.status # "failed"
  BY <1>1, <1>4 DEF StatusCard
<1>5. QED
  BY <1>3, <1>4

------------------------------------------------------------------------------
(* The fields of an answer.                                                 *)

Result(l) == toLeadResult(l, failedStep)

LEMMA ResultFields ==
  ASSUME NEW l \in LeadRecord
  PROVE  /\ AnswerTyped(Result(l))
         /\ Result(l).status = l.status
         /\ Result(l).chase = l.chase
         /\ Result(l).reply_to = IF l.chase = "sent" THEN l.chaseId ELSE 0
         /\ Result(l).notice = l.notice
         /\ Result(l).documents_received <=> l.reply # NoReply
         /\ Result(l).offer <=> FinalOutcome(l) = "approved"
         /\ Result(l).reason <=> FinalOutcome(l) = "rejected"
         /\ Result(l).failed_step = IF l.status = "failed" /\ NextStep(l) # "done"
                                    THEN NextStep(l) ELSE "none"
<1> DEFINE final == IF l.review # "none" THEN l.review ELSE l.decision
<1>1. l.status \in Statuses /\ l.review \in Finals \union {"none"} /\ l.decision \in Outcomes \union {"none"}
  BY DEF LeadRecord
<1>2. /\ final = "approved" <=> FinalOutcome(l) = "approved"
      /\ final = "rejected" <=> FinalOutcome(l) = "rejected"
  BY <1>1 DEF FinalOutcome, Finals, Outcomes
<1>3. QED
  BY <1>1, <1>2 DEF Result, toLeadResult, AnswerTyped

(* What a consistent Lead with a given status has on record.                *)
LEMMA StatusFacts ==
  ASSUME NEW l \in LeadRecord, Consistent(l)
  PROVE  /\ l.status \in Finals => FinalOutcome(l) = l.status
         /\ l.status = "failed" => NextStep(l) # "done"
         /\ l.status \in {"need_more_documents", "chase_sent"} => l.decision = "need_more_documents"
         /\ l.status = "documents_received" => l.reply # NoReply /\ NextStep(l) = "review"
         /\ NextStep(l) = "chase" => l.decision = "need_more_documents"
         /\ NextStep(l) = "review" => l.reply # NoReply
         /\ NextStep(l) = "notify" => FinalOutcome(l) \in Finals
         /\ l.reply # NoReply => l.chase = "sent"
         /\ l.chase = "sent" => l.chaseId # 0
         /\ l.notice = "sent" => l.noticeId # 0
<1>1. l.status \in Finals => FinalOutcome(l) = l.status
  BY DEF Consistent, StatusMatches
<1>2. l.status = "failed" => NextStep(l) # "done"
  BY DEF Consistent, StatusMatches
<1>3. NextStep(l) = "chase" => l.decision = "need_more_documents"
  BY DEF NextStep
<1>4. l.status \in {"need_more_documents", "chase_sent"} => l.decision = "need_more_documents"
  BY <1>3 DEF Consistent, StatusMatches, AwaitsDocuments
<1>5. NextStep(l) = "review" => l.reply # NoReply
  BY DEF NextStep, AwaitsDocuments
<1>6. l.status = "documents_received" => NextStep(l) = "review"
  BY DEF Consistent, StatusMatches
<1>7. NextStep(l) = "notify" => FinalOutcome(l) \in Finals
  BY DEF NextStep, AwaitsDocuments, FinalOutcome, LeadRecord, Outcomes, Finals
<1>8. QED
  BY <1>1, <1>2, <1>3, <1>4, <1>5, <1>6, <1>7 DEF Consistent

(* What a handler that has loaded holds: the Lead of before, the one it has *)
(* saved, or the one just loaded.                                          *)
LEMMA LoadedCopies ==
  ASSUME LocalInv, [Next]_vars, NEW g \in Handlers, Loaded(g)'
  PROVE  \/ Loaded(g) /\ mem'[g] = mem[g]
         \/ mem'[g].version = db'.version
         \/ pc[g] = "load"
<1> DEFINE Goal == \/ Loaded(g) /\ mem'[g] = mem[g]
                   \/ mem'[g].version = db'.version
                   \/ pc[g] = "load"
<1> SUFFICES Goal
  OBVIOUS
<1>1. TypeOK /\ pc \in [Handlers -> Places] /\ mem \in [Handlers -> LeadRecord]
  BY DEF LocalInv, TypeOK
<1>2. ASSUME mem'[g] = mem[g], pc[g] # "idle" PROVE Goal
  BY <1>2 DEF Loaded
<1>3. ASSUME NEW h \in Handlers, Leave(h) PROVE Goal
  BY <1>1, <1>3 DEF Leave, Loaded
<1>4. ASSUME NEW h \in Handlers, NEW l \in LeadRecord, NEW place, SaveThen(h, l, place) PROVE Goal
  <2>1. CASE ~ CanCommit(l)
    BY <1>3, <1>4, <2>1 DEF SaveThen
  <2>2. CASE CanCommit(l)
    <3>1. db' = Saved(l) /\ mem' = [mem EXCEPT ![h] = Persisted(l)] /\ pc' = [pc EXCEPT ![h] = place]
      BY <1>4, <2>2 DEF SaveThen
    <3>2. db'.version = l.version + 1 /\ Persisted(l).version = l.version + 1
      BY <3>1, PersistedFields DEF Saved, SavedOver
    <3>3. QED
      BY <1>1, <3>1, <3>2 DEF Loaded
  <2>3. QED
    BY <2>1, <2>2
<1>5. ASSUME NEW h \in Handlers, NEW k, StartLoading(h, k) PROVE Goal
  BY <1>1, <1>5 DEF StartLoading, Loaded
<1> HIDE DEF Goal
<1>6. ASSUME NEW h \in Handlers, Arrival(h) PROVE Goal
  BY <1>4, <1>5, <1>6, SubmittedIsLead DEF Arrival, Submit, RequestReplay, EmailArrives
<1>7. ASSUME NEW h \in Handlers, FaultStep(h) PROVE Goal
  BY <1>3, <1>7 DEF FaultStep, PullFails, ReviewFails, ChaseFails, NoticeFails, Die,
       SaveFailureAndLeave, SaveAndLeave
<1>8. ASSUME UNCHANGED <<mem, pc>> PROVE Goal
  BY <1>2, <1>8 DEF Loaded
<1>9. ASSUME NEW h \in Handlers, FigureStep(h) PROVE Goal
  BY <1>8, <1>9 DEF FigureStep, SoftPull, DocumentReview, FigureAnswers
<1>10. ASSUME NEW e \in requested, Deliver(e) PROVE Goal
  BY <1>8, <1>10 DEF Deliver
<1>11. ASSUME NEW h \in Handlers, HandlerStep(h) PROVE Goal
  <2>1. CASE Load(h)
    BY <1>1, <2>1 DEF Load, Loaded, Goal
  <2>2. CASE Replay(h)
    BY <1>1, <1>4, <2>2 DEF Replay
  <2>3. CASE Prequalify(h) \/ Review(h) \/ BeginChase(h) \/ BeginNotice(h)
    <3>1. mem[h] \in LeadRecord
      BY <1>1
    <3>2. QED
      BY <1>4, <2>3, <3>1, CommandsKeepType DEF Prequalify, Review, BeginChase, BeginNotice
  <2>4. CASE DecisionArrives(h) \/ ReviewArrives(h)
    <3>1. mem[h] \in LeadRecord
      BY <1>1
    <3>2. /\ DecisionArrives(h) => RecordDecision(mem[h], answer[h]) \in LeadRecord
          /\ ReviewArrives(h) => RecordReview(mem[h], answer[h]) \in LeadRecord
      BY <1>1, <3>1, CommandsKeepType DEF LocalInv, TypeOK, Due, DecisionArrives, ReviewArrives
    <3>3. QED
      BY <1>4, <2>4, <3>2 DEF DecisionArrives, ReviewArrives
  <2>5. CASE ChaseAnswered(h) \/ NoticeAnswered(h)
    <3>1. mem[h] \in LeadRecord
      BY <1>1
    <3>2. /\ MarkChaseSent(mem[h]) \in LeadRecord
          /\ NoticeAnswered(h) => MarkNoticeSent(mem[h]) \in LeadRecord
      BY <3>1, CommandsKeepType DEF LocalInv, Due, NoticeAnswered
    <3>3. QED
      BY <1>4, <2>5, <3>2 DEF ChaseAnswered, NoticeAnswered
  <2>6. CASE RefuseReply(h) \/ Finish(h)
    BY <1>3, <2>6 DEF RefuseReply, SaveAndLeave, Finish
  <2>7. CASE TakeReply(h) \/ RedeliveredReply(h)
    BY <1>3, <1>5, <2>7 DEF TakeReply, RedeliveredReply
  <2>8. CASE SendChase(h) \/ SendNotice(h)
    BY <1>1, <2>8 DEF SendChase, SendNotice, AdvanceTo, Request, Loaded, Goal
  <2>9. QED
    BY <1>11, <2>1, <2>2, <2>3, <2>4, <2>5, <2>6, <2>7, <2>8 DEF HandlerStep
<1>12. CASE UNCHANGED vars
  BY <1>8, <1>12 DEF vars
<1>13. QED
  BY <1>6, <1>7, <1>9, <1>10, <1>11, <1>12 DEF Next

\* A copy, however old, was the Lead at one time.
CopiesAgree == \A h \in Handlers : Loaded(h) => Consistent(mem[h])

(* Loads that are whole, and saves that are not refused, leave the handler  *)
(* with the Lead of the rows; after that it is only the rows that move on.  *)
LEMMA CopiesAreConsistent == Spec /\ LoadsAreWhole => [](IInv /\ CopiesAgree)
<1> DEFINE Whole == \A h \in Handlers : pc[h] = "load" /\ Loaded(h)' => mem'[h] = db
<1>1. Init => CopiesAgree
  BY DEF Init, CopiesAgree, Loaded
<1>2. ASSUME IInv, IInv', CopiesAgree, [Next]_vars, [Whole]_vars PROVE CopiesAgree'
  <2> SUFFICES ASSUME NEW g \in Handlers, Loaded(g)' PROVE Consistent(mem'[g])
    BY DEF CopiesAgree
  <2>1. LocalInv /\ Consistent(db) /\ Consistent(db') /\ HandlerInv(g)'
    BY <1>2 DEF IInv
  <2>2. CASE Loaded(g) /\ mem'[g] = mem[g]
    BY <1>2, <2>2 DEF CopiesAgree
  <2>3. CASE mem'[g].version = db'.version
    BY <2>1, <2>3 DEF HandlerInv, Torn
  <2>4. CASE pc[g] = "load"
    <3>1. CASE UNCHANGED vars
      BY <2>4, <3>1 DEF vars, Loaded
    <3>2. QED
      BY <1>2, <2>1, <2>4, <3>1
  <2>5. QED
    BY <1>2, <2>1, <2>2, <2>3, <2>4, LoadedCopies
<1> HIDE DEF Whole
<1>3. IInv /\ IInv' /\ CopiesAgree /\ [Next]_vars /\ [Whole]_vars => CopiesAgree'
  BY <1>2
<1>4. LoadsAreWhole => [][Whole]_vars
  BY PTL DEF LoadsAreWhole, Whole
<1>5. Spec /\ LoadsAreWhole => []IInv
  BY RecordInvariant, WholeLoadsAreNotTorn, PTL
<1>6. QED
  BY <1>1, <1>3, <1>4, <1>5, PTL DEF Spec

(* A Lead somebody may be told of is a consistent past of the record.       *)
LEMMA AnswersAreOnRecord ==
  ASSUME IInv, CopiesAgree, NEW l \in Answerable
  PROVE  l \in LeadRecord /\ Consistent(l) /\ Keeps(l, db)
<1>1. CASE l = db
  BY <1>1, KeepsReflexive DEF IInv, LocalInv, TypeOK
<1>2. CASE \E h \in Handlers : Loaded(h) /\ l = mem[h]
  BY <1>2 DEF IInv, LocalInv, TypeOK, HandlerInv, CopiesAgree
<1>3. QED
  BY <1>1, <1>2 DEF Answerable, When

(* The record says what an answer says: the outcome, and the reply.         *)
LEMMA OutcomeOfAnswer ==
  ASSUME IInv, NEW l \in LeadRecord, Consistent(l), Keeps(l, db)
  PROVE  /\ FinalOutcome(l) # "none" => FinalOutcome(db) = FinalOutcome(l)
         /\ l.decision # "none" => db.decision = l.decision
         /\ l.reply # NoReply => db.reply # NoReply
<1>1. db \in LeadRecord /\ Consistent(db)
  BY DEF IInv, LocalInv, TypeOK
<1>2. QED
  BY <1>1, FinalOutcomeStays DEF Keeps

(* Who was emailed an outcome was emailed the one on record.                *)
LEMMA NoticeInInbox ==
  ASSUME IInv, NEW e \in inbox, e.about = "notice"
  PROVE  e.says = FinalOutcome(db) /\ FinalOutcome(db) # "none" /\ db.noticeId # 0
<1>1. e \in requested /\ e.key # 0
  BY DEF IInv, MailInv
<1>2. e.key = db.noticeId /\ e.says = FinalOutcome(db)
  BY <1>1 DEF IInv, MailInv, NoticeTellsTheOutcome
<1>3. QED
  BY <1>1, <1>2 DEF IInv, Consistent

LEMMA SentIsInInbox ==
  ASSUME IInv
  PROVE  /\ db.notice = "sent" => \E e \in inbox : e.about = "notice" /\ e.says = FinalOutcome(db)
         /\ db.chase = "sent" => \E e \in inbox : e.about = "chase" /\ e.key = db.chaseId
<1>1. ASSUME db.notice = "sent"
      PROVE  \E e \in inbox : e.about = "notice" /\ e.says = FinalOutcome(db)
  <2>1. \E e \in inbox : e.about = "notice"
    BY <1>1 DEF IInv, SentMeansDelivered, SentOnlyIfDelivered, Delivered, NoticeEmail
  <2>2. QED
    BY <2>1, NoticeInInbox
<1>2. ASSUME db.chase = "sent"
      PROVE  \E e \in inbox : e.about = "chase" /\ e.key = db.chaseId
  BY <1>2 DEF IInv, SentMeansDelivered, SentOnlyIfDelivered, Delivered, ChaseEmail
<1>3. QED
  BY <1>1, <1>2

------------------------------------------------------------------------------
(* The statements, one group after the other.                               *)

LEMMA DecisionsAreTrue ==
  ASSUME IInv, CopiesAgree, NEW l \in Answerable
  PROVE  DecisionIsTrue(Says(l))
<1> DEFINE r == Result(l)
<1>1. l \in LeadRecord /\ Consistent(l) /\ Keeps(l, db) /\ Says(l) = StatusCard(r)
  BY AnswersAreOnRecord DEF Says, Result
<1>2. AnswerTyped(r)
  BY <1>1, ResultFields
<1>3. "offered" \in Says(l) => FinalOutcome(l) = "approved"
  BY <1>1, <1>2, DecisionCards, ResultFields
<1>4. "refused" \in Says(l) => FinalOutcome(l) = "rejected"
  BY <1>1, <1>2, DecisionCards, ResultFields, StatusFacts DEF Finals
<1>5. "offered" \in Says(l) => FinalOutcome(db) = "approved"
  BY <1>1, <1>3, OutcomeOfAnswer
<1>6. "refused" \in Says(l) => FinalOutcome(db) = "rejected"
  BY <1>1, <1>4, OutcomeOfAnswer
<1>7. ASSUME "based_on_documents" \in Says(l)
      PROVE  db.reply # NoReply /\ db.review # "none"
  <2>1. l.reply # NoReply /\ FinalOutcome(l) # "none"
    BY <1>1, <1>2, <1>3, <1>4, <1>7, DecisionCards, ResultFields
  <2>2. db.reply # NoReply /\ FinalOutcome(db) # "none"
    BY <1>1, <2>1, OutcomeOfAnswer
  <2>3. db.chaseId # 0 /\ db.decision = "need_more_documents"
    BY <2>2 DEF IInv, Consistent
  <2>4. QED
    BY <2>2, <2>3 DEF FinalOutcome, Finals
<1>8. ASSUME "result_emailed" \in Says(l)
      PROVE  Emailed(FinalOutcome(db))
  <2>1. l.notice = "sent"
    BY <1>1, <1>2, <1>8, DecisionCards, ResultFields
  <2>2. db.notice = "sent"
    BY <1>1, <2>1 DEF Keeps
  <2>3. QED
    BY <2>2, SentIsInInbox DEF Emailed
<1>9. QED
  BY <1>5, <1>6, <1>7, <1>8 DEF DecisionIsTrue

LEMMA RequestsAreTrue ==
  ASSUME IInv, CopiesAgree, NEW l \in Answerable
  PROVE  RequestIsTrue(Says(l))
<1> DEFINE r == Result(l)
<1>1. l \in LeadRecord /\ Consistent(l) /\ Keeps(l, db) /\ Says(l) = StatusCard(r)
  BY AnswersAreOnRecord DEF Says, Result
<1>2. AnswerTyped(r)
  BY <1>1, ResultFields
<1>3. "documents_needed" \in Says(l) => db.decision = "need_more_documents"
  BY <1>1, <1>2, WaitingCards, ResultFields, StatusFacts, OutcomeOfAnswer
<1>4. ASSUME "reply_to_our_email" \in Says(l)
      PROVE  \E e \in inbox : e.about = "chase" /\ e.key = db.chaseId
  <2>1. l.chase = "sent"
    BY <1>1, <1>2, <1>4, WaitingCards, ResultFields
  <2>2. db.chase = "sent"
    BY <1>1, <2>1 DEF Keeps
  <2>3. QED
    BY <2>2, SentIsInInbox
<1>5. l.status = "documents_received" => l.reply # NoReply
  BY <1>1, StatusFacts
<1>6. "under_review" \in Says(l) => "files_received" \in Says(l)
  BY <1>1, <1>2, <1>5, WaitingCards, ResultFields
<1>7. "files_received" \in Says(l) => db.reply # NoReply
  BY <1>1, <1>2, <1>5, WaitingCards, ResultFields, OutcomeOfAnswer
<1>8. QED
  BY <1>3, <1>4, <1>6, <1>7 DEF RequestIsTrue

LEMMA FailuresAreTrue ==
  ASSUME IInv, CopiesAgree, NEW l \in Answerable
  PROVE  FailureIsTrue(Says(l))
<1> DEFINE r == Result(l)
<1>1. l \in LeadRecord /\ Consistent(l) /\ Keeps(l, db) /\ Says(l) = StatusCard(r)
  BY AnswersAreOnRecord DEF Says, Result
<1>2. AnswerTyped(r)
  BY <1>1, ResultFields
<1>3. \A step \in {"chase", "review", "notify"} :
        r.failed_step = step => l.status = "failed" /\ NextStep(l) = step
  BY <1>1, ResultFields
<1>4. "documents_known" \in Says(l) => db.decision = "need_more_documents"
  BY <1>1, <1>2, <1>3, FailureCards, StatusFacts, OutcomeOfAnswer
<1>5. "documents_kept" \in Says(l) => db.reply # NoReply
  BY <1>1, <1>2, <1>3, FailureCards, StatusFacts, OutcomeOfAnswer
<1>6. ASSUME "result_below" \in Says(l)
      PROVE  {"offered", "refused"} \intersect Says(l) # {}
  <2>1. r.status = "failed" /\ r.failed_step = "notify"
    BY <1>1, <1>2, <1>6, FailureCards
  <2>2. FinalOutcome(l) \in Finals
    BY <1>1, <1>3, <2>1, StatusFacts
  <2>3. r.offer \/ (r.reason /\ ~ r.offer)
    BY <1>1, <2>2, ResultFields DEF Finals
  <2>4. QED
    BY <1>1, <1>2, <2>1, <2>3, DecisionCards
<1>7. QED
  BY <1>4, <1>5, <1>6 DEF FailureIsTrue

LEMMA FrameIsTrue ==
  ASSUME IInv, CopiesAgree, NEW l \in Answerable
  PROVE  OneWayToStartOver(l) /\ BadgeAgrees(STATUS_LABELS[l.status], Says(l))
<1> DEFINE r == Result(l)
<1>1. l \in LeadRecord /\ Consistent(l) /\ Keeps(l, db) /\ Says(l) = StatusCard(r)
  BY AnswersAreOnRecord DEF Says, Result
<1>2. AnswerTyped(r) /\ r.status = l.status
  BY <1>1, ResultFields
<1>3. OneWayToStartOver(l)
  BY <1>1, <1>2, DecisionCards DEF OneWayToStartOver, StartOverLink, hasRejection, Result, AnswerTyped
<1>4. l.status \in Finals => FinalOutcome(l) = l.status
  BY <1>1, StatusFacts
<1>5. l.status = "approved" => "offered" \in Says(l)
  BY <1>1, <1>2, <1>4, DecisionCards, ResultFields DEF Finals
<1>6. l.status = "rejected" => "refused" \in Says(l)
  BY <1>1, <1>2, DecisionCards
<1>7. l.status = "failed" => "try_again" \in Says(l)
  BY <1>1, <1>2, FailureCards
<1>8. BadgeAgrees(STATUS_LABELS[l.status], Says(l))
  <2>1. l.status \in Statuses
    BY <1>1 DEF LeadRecord
  <2>2. CASE l.status \in {"submitted", "processing"}
    BY <1>1, <1>2, <2>1, <2>2, WaitingCards DEF BadgeAgrees, STATUS_LABELS
  <2>3. CASE l.status \in {"need_more_documents", "chase_sent", "documents_received"}
    BY <1>1, <1>2, <2>1, <2>3, WaitingCards DEF BadgeAgrees, STATUS_LABELS
  <2>4. CASE l.status \in {"approved", "rejected", "failed"}
    BY <1>5, <1>6, <1>7, <2>1, <2>4 DEF BadgeAgrees, STATUS_LABELS
  <2>5. QED
    BY <2>1, <2>2, <2>3, <2>4 DEF Statuses, Outcomes, Finals
<1>9. QED
  BY <1>3, <1>8

LEMMA EmailAndPageDoAgree ==
  ASSUME IInv
  PROVE  EmailAndPageAgree
<1> DEFINE r == Result(db)
<1> SUFFICES ASSUME NEW e \in inbox, e.about = "notice"
             PROVE  (IF e.says = "approved" THEN "offered" ELSE "refused") \in Says(db)
  BY DEF EmailAndPageAgree
<1>1. db \in LeadRecord /\ Consistent(db) /\ Says(db) = StatusCard(r)
  BY DEF IInv, LocalInv, TypeOK, Says, Result
<1>2. AnswerTyped(r) /\ r.status = db.status
  BY <1>1, ResultFields
<1>3. e.says = FinalOutcome(db) /\ FinalOutcome(db) # "none"
  BY NoticeInInbox
<1>4. FinalOutcome(db) \in Finals
  BY <1>1, <1>3 DEF FinalOutcome, LeadRecord, Finals
<1>5. db.status \in Finals \/ (db.status = "failed" /\ NextStep(db) = "notify")
  <2>1. db.decision # "none" /\ (db.decision = "need_more_documents" => db.review # "none")
    BY <1>1, <1>3 DEF FinalOutcome, Finals, Consistent, StatusMatches
  <2>2. db.review # "none" => db.reply # NoReply /\ db.chase = "sent"
    BY <1>1 DEF Consistent, StatusMatches
  <2>3. NextStep(db) \in {"notify", "done"} /\ ~ AwaitsDocuments(db)
    BY <2>1, <2>2 DEF NextStep, AwaitsDocuments
  <2>4. db.status \notin {"submitted", "processing", "need_more_documents", "chase_sent",
                          "documents_received"}
    BY <1>1, <2>1, <2>3 DEF Consistent, StatusMatches
  <2>5. QED
    BY <1>1, <2>3, <2>4 DEF LeadRecord, Statuses, Outcomes, Finals, Consistent, StatusMatches
<1>6. CASE db.status \in Finals
  BY <1>1, <1>2, <1>3, <1>6, StatusFacts, ResultFields, DecisionCards DEF Finals
<1>7. CASE db.status = "failed" /\ NextStep(db) = "notify"
  <2>1. r.status = "failed" /\ r.failed_step = "notify"
    BY <1>1, <1>7, ResultFields
  <2>2. QED
    BY <1>1, <1>2, <1>3, <1>4, <2>1, ResultFields, DecisionCards DEF Finals
<1>8. QED
  BY <1>5, <1>6, <1>7

------------------------------------------------------------------------------

(* As long as every load is whole, what the page tells the borrower is so.  *)
THEOREM PageTellsTheTruth ==
  Spec /\ LoadsAreWhole => []PageIsTruthful
<1>1. IInv /\ CopiesAgree => PageIsTruthful
  <2>1. IInv => ErrorExplainsFailedStep
    BY DEF IInv
  <2>2. QED
    BY <2>1, DecisionsAreTrue, RequestsAreTrue, FailuresAreTrue, FrameIsTrue, EmailAndPageDoAgree
    DEF PageIsTruthful
<1>2. QED
  BY <1>1, CopiesAreConsistent, PTL

(* As long as no load is torn, every offer to Replay has a step to run: of  *)
(* the list (ListOffersRealWork), of the page and of the command line.      *)
THEOREM ReplayIsNeverEmpty ==
  Spec /\ NoLoadIsTorn => []ReplayHasWork
<1> DEFINE Offers == db.version # 0 /\ ("try_again" \in Says(db) \/ ReplayQuestion(db)) => NextStep(db) # "done"
<1>1. ASSUME IInv PROVE Offers
  <2>1. db \in LeadRecord /\ Consistent(db)
    BY <1>1 DEF IInv, LocalInv, TypeOK
  <2>2. "try_again" \in Says(db) => db.status = "failed"
    BY <2>1, ResultFields, FailureCards DEF Says, Result
  <2>3. db.status = "failed" => NextStep(db) # "done"
    BY <2>1, StatusFacts
  <2>4. db.status \in {"submitted", "processing"} => NextStep(db) # "done"
    BY <2>1 DEF Consistent, StatusMatches, NextStep
  <2>5. db.status = "documents_received" => NextStep(db) # "done"
    BY <2>1, StatusFacts
  <2>6. QED
    BY <2>2, <2>3, <2>4, <2>5 DEF ReplayQuestion
<1>2. IInv => Offers
  BY <1>1
<1>3. ListedIsActionable /\ Offers => ReplayHasWork
  BY DEF ReplayHasWork
<1>4. QED
  BY <1>2, <1>3, RecordInvariant, ListOffersRealWork, PTL
==============================================================================
