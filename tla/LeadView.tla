------------------------------ MODULE LeadView -------------------------------
(***************************************************************************)
(* What people are told of a Lead: the answer of intake (toLeadResult in   *)
(* apps/intake/src/interface/http/lead-presenter.ts), the cards of the     *)
(* result page (apps/web/src/components/result), and the offers to Replay  *)
(* of the page, the operator's list and the operator's command line        *)
(* (scripts/ops.ts).                                                       *)
(*                                                                         *)
(* A card is the set of statements it makes to the borrower; layout,       *)
(* wording and amounts are left out.  Answers are computed from a handler's*)
(* copy of the Lead, which others may have changed since; the page shows   *)
(* the answer it got.  So a statement is judged against the record and the *)
(* borrower's inbox, not against the copy it was made from.                *)
(***************************************************************************)
EXTENDS LeadPipeline

------------------------------------------------------------------------------
(* The answer.                                                              *)

toLeadResultOfPull(l, lastFailure) ==   \* mutant: the review is not the final word
  [status |-> l.status, offer |-> l.decision = "approved", reason |-> l.decision = "rejected",
   documents |-> l.decision = "need_more_documents", chase |-> l.chase,
   reply_to |-> IF l.chase = "sent" THEN l.chaseId ELSE 0,
   documents_received |-> l.reply # NoReply, notice |-> l.notice,
   error |-> IF l.status = "failed" THEN lastFailure ELSE "none",
   failed_step |-> IF l.status = "failed" /\ NextStep(l) # "done" THEN NextStep(l) ELSE "none"]

\* offer, reason, documents, documents_received: whether the field is present.
\* lastFailure: the step of the last lead.failed event, whose reason is the error.
toLeadResult(l, lastFailure) ==
  LET final == IF l.review # "none" THEN l.review ELSE l.decision
      failed == l.status = "failed"
  IN [status             |-> l.status,
      offer              |-> final = "approved",
      reason             |-> final = "rejected",
      documents          |-> l.decision = "need_more_documents",
      chase              |-> l.chase,
      reply_to           |-> IF l.chase = "sent" THEN l.chaseId ELSE 0,
      documents_received |-> l.reply # NoReply,
      notice             |-> l.notice,
      error              |-> IF failed THEN lastFailure ELSE "none",
      failed_step        |-> IF failed /\ NextStep(l) # "done" THEN NextStep(l) ELSE "none"]

------------------------------------------------------------------------------
(* The cards.                                                               *)

When(condition, statement) == IF condition THEN {statement} ELSE {}

DecisionNote(r) ==
  When(r.documents_received, "based_on_documents") \union When(r.notice = "sent", "result_emailed")

OfferCard(r) == {"offered"} \union DecisionNote(r)

RejectedCard(r) == {"refused", "start_over"} \union DecisionNote(r)

ReplyInstructions == {"reply_to_our_email"}

DocumentsCard(r) ==
  {"documents_needed"} \union
  (IF r.chase = "sent" /\ r.reply_to # 0 THEN ReplyInstructions ELSE {"checklist_on_its_way"})

DocumentsReceivedCard(r) ==
  {"under_review"} \union When(r.documents_received, "files_received")

PendingCard == {"checking"}

FAILURE_COPY(step) ==
  IF step = "chase" THEN "documents_known"
  ELSE IF step = "review" THEN "documents_kept"
  ELSE IF step = "notify" THEN "result_below"
  ELSE "application_saved"

FailedCard(r) ==
  {"try_again", FAILURE_COPY(r.failed_step)} \union When(r.error # "none", "technical_details")

\* A decision survives the failure to send its notice, and is shown below it.
DecisionBelow(r) ==
  IF r.failed_step # "notify" THEN {}
  ELSE IF r.offer THEN OfferCard(r)
  ELSE IF r.reason THEN RejectedCard(r) ELSE {}

StatusCard(r) ==
  IF r.status = "approved" THEN (IF r.offer THEN OfferCard(r) ELSE PendingCard)
  ELSE IF r.status = "rejected" THEN RejectedCard(r)
  ELSE IF r.status \in {"need_more_documents", "chase_sent"} THEN DocumentsCard(r)
  ELSE IF r.status = "documents_received" THEN DocumentsReceivedCard(r)
  ELSE IF r.status = "failed" THEN FailedCard(r) \union DecisionBelow(r)
  ELSE PendingCard

hasRejection(r) == r.status = "failed" /\ r.failed_step = "notify" /\ ~ r.offer /\ r.reason

\* The page's own link to start over, next to the one of the RejectedCard.
StartOverLink(r) == r.status # "rejected" /\ ~ hasRejection(r)

(* The badge next to the Lead's id.                                         *)
STATUS_LABELS ==
  [s \in Statuses |->
     IF s \in {"submitted", "processing"} THEN "In progress"
     ELSE IF s = "approved" THEN "Prequalified"
     ELSE IF s = "rejected" THEN "Not prequalified"
     ELSE IF s \in {"need_more_documents", "chase_sent"} THEN "Documents needed"
     ELSE IF s = "documents_received" THEN "Under review"
     ELSE "Needs attention"]

------------------------------------------------------------------------------
(* Offers to Replay besides the list's.                                     *)

ReplayOffersAnyUnfinished(l) ==   \* mutant: waiting for the borrower counts as stuck
  l.status \in {"failed", "submitted", "processing", "documents_received", "chase_sent"}

\* pnpm ops replay asks before it replays; else: "Nothing to resume".
ReplayQuestion(l) ==
  \/ l.status = "failed"
  \/ l.status \in {"submitted", "processing", "documents_received"}   \* STUCK_STATUSES

------------------------------------------------------------------------------
(* Truth.                                                                   *)

\* Answers intake gives, or may give, now: of the rows, and of a handler's copy.
Answerable == When(db.version # 0, db) \union {mem[h] : h \in {g \in Handlers : Loaded(g)}}

Says(l) == StatusCard(toLeadResult(l, failedStep))

Emailed(outcome) == \E e \in inbox : e.about = "notice" /\ e.says = outcome

DecisionIsTrue(says) ==
  /\ "offered" \in says => FinalOutcome(db) = "approved"
  /\ "refused" \in says => FinalOutcome(db) = "rejected"
  /\ "based_on_documents" \in says => db.reply # NoReply /\ db.review # "none"
  /\ "result_emailed" \in says => Emailed(FinalOutcome(db))

RequestIsTrue(says) ==
  /\ "documents_needed" \in says => db.decision = "need_more_documents"
  /\ "reply_to_our_email" \in says => \E e \in inbox : e.about = "chase" /\ e.key = db.chaseId
  /\ "under_review" \in says => "files_received" \in says
  /\ "files_received" \in says => db.reply # NoReply

FailureIsTrue(says) ==
  /\ "documents_known" \in says => db.decision = "need_more_documents"
  /\ "documents_kept" \in says => db.reply # NoReply
  /\ "result_below" \in says => {"offered", "refused"} \intersect says # {}

OneWayToStartOver(l) ==
  StartOverLink(toLeadResult(l, failedStep)) <=> "start_over" \notin Says(l)

BadgeAgrees(badge, says) ==
  /\ badge = "In progress"      => "checking" \in says
  /\ badge = "Prequalified"     => "offered" \in says
  /\ badge = "Not prequalified" => "refused" \in says
  /\ badge = "Documents needed" => "documents_needed" \in says
  /\ badge = "Under review"     => "under_review" \in says
  /\ badge = "Needs attention"  => "try_again" \in says

\* Whoever was emailed an outcome finds it on the page, whatever failed since.
EmailAndPageAgree ==
  \A e \in inbox : e.about = "notice" =>
    (IF e.says = "approved" THEN "offered" ELSE "refused") \in Says(db)

\* What the page tells the borrower is so, also when it was computed from a copy of the
\* Lead that is out of date: an outcome shown is the one on record and the one emailed,
\* "reply to the email we sent" has an email to reply to, a failure names the step
\* that failed, and promises ("your result is below", "we have your documents") are kept
\* by the rest of the page (lead-presenter.ts, lead-result-view.tsx, labels.ts).
PageIsTruthful ==
  /\ \A l \in Answerable :
       /\ DecisionIsTrue(Says(l))
       /\ RequestIsTrue(Says(l))
       /\ FailureIsTrue(Says(l))
       /\ OneWayToStartOver(l)
       /\ BadgeAgrees(STATUS_LABELS[l.status], Says(l))
  /\ EmailAndPageAgree
  /\ ErrorExplainsFailedStep

\* Every offer to Replay has work behind it: the borrower's Try again, the operator's
\* list and the question of the command line are made, by rules of their own, only of a
\* Lead with a step left to run (FailedCard, needingAttention, STUCK_STATUSES).
ReplayHasWork ==
  /\ ListedIsActionable
  /\ db.version # 0 /\ ("try_again" \in Says(db) \/ ReplayQuestion(db)) => NextStep(db) # "done"
==============================================================================
