---------------------------- MODULE LeadAggregate ----------------------------
(***************************************************************************)
(* The Lead, aggregate root of Lead Intake (apps/intake/src/domain/lead.ts)*)
(* as constant operators: what each command does to the Lead it is applied *)
(* to, and the DomainError guard it checks first.  A Lead is one record;   *)
(* its fields are the columns of the leads, figure_decisions, chases and   *)
(* outcome_notices rows the control flow depends on.  Offers, reasons,     *)
(* missing documents and timestamps do not steer it and are left out.      *)
(*                                                                         *)
(* ids.newId() returns a UUID nobody else holds.  Its stand-in here is     *)
(* NewId: the version the opening save will produce.  Only one save can    *)
(* produce a version, and an id is not used before it is saved.            *)
(***************************************************************************)
EXTENDS Naturals

CONSTANTS Replies,  \* emails that may arrive at the Lead's Reply Address: records
                    \* [messageId, dmarc, fromBorrower, attachments]
          NoReply   \* the Chase has no accepted reply

ASSUME NoReplyAssumption == NoReply \notin Replies

ASSUME RepliesAssumption ==
  \A r \in Replies : /\ r.dmarc \in {"pass", "fail", "none", "unknown"}
                     /\ r.fromBorrower \in BOOLEAN
                     /\ r.attachments \in BOOLEAN

Finals == {"approved", "rejected"}
Outcomes == Finals \union {"need_more_documents"}
Statuses == Outcomes \union
            {"submitted", "processing", "chase_sent", "documents_received", "failed"}
Deliveries == {"none", "pending", "sent", "failed"}

\* version = 0: not persisted.  decision, review, chase, notice = "none": absent.
LeadRecord ==
  [version  : Nat,
   status   : Statuses,
   decision : Outcomes \union {"none"},
   review   : Finals \union {"none"},
   chaseId  : Nat,  chase  : Deliveries, reply : Replies \union {NoReply},
   noticeId : Nat,  notice : Deliveries]

Submitted ==
  [version |-> 0, status |-> "submitted", decision |-> "none", review |-> "none",
   chaseId |-> 0, chase |-> "none", reply |-> NoReply,
   noticeId |-> 0, notice |-> "none"]

NewId(l) == l.version + 1

------------------------------------------------------------------------------
(* What the Lead's data say about it.                                       *)

\* Done because the borrower's documents are outstanding, not because it settled.
AwaitsDocuments(l) ==
  l.decision = "need_more_documents" /\ l.chase = "sent" /\ l.reply = NoReply

NextStep(l) ==
  IF l.decision = "none" THEN "prequalify"
  ELSE IF l.decision = "need_more_documents" /\ l.chase # "sent" THEN "chase"
  ELSE IF AwaitsDocuments(l) THEN "done"
  ELSE IF l.decision = "need_more_documents" /\ l.review = "none" THEN "review"
  ELSE IF l.notice # "sent" THEN "notify"
  ELSE "done"

FinalOutcome(l) ==
  IF l.review # "none" THEN l.review
  ELSE IF l.decision \in Finals THEN l.decision ELSE "none"

IsOpen(l) == l.status \notin Finals

------------------------------------------------------------------------------
(* Prequalification.                                                        *)

StartPrequalificationSilently(l) == l   \* mutant: the transition is forgotten
StartPrequalification(l) == [l EXCEPT !.status = "processing"]

CanRecordDecision(l) == l.decision = "none" /\ l.status = "processing"
RecordDecision(l, outcome) == [l EXCEPT !.decision = outcome, !.status = outcome]

(* A step failed: status only; nextStep() still names the step to resume.   *)
CanFail(l) == NextStep(l) # "done"
Fail(l) == [l EXCEPT !.status = "failed"]

------------------------------------------------------------------------------
(* The Chase and the borrower's reply.                                      *)

CanOpenChase(l) == l.decision = "need_more_documents" /\ l.chaseId = 0
OpenChase(l) == [l EXCEPT !.chaseId = NewId(l), !.chase = "pending"]

RequiresUnsentChase(l) == l.chaseId # 0 /\ l.chase # "sent"
MarkChaseSent(l) == [l EXCEPT !.chase = "sent", !.status = "chase_sent"]
MarkChaseFailedAsSent(l) == Fail([l EXCEPT !.chase = "sent"])   \* mutant: a timeout counts as sent
MarkChaseFailed(l) == Fail([l EXCEPT !.chase = "failed"])

ReplyVerdict(l, r) ==
  IF l.chase # "sent" THEN "chase_not_sent"
  ELSE IF l.reply # NoReply THEN
         IF l.reply.messageId = r.messageId THEN "duplicate" ELSE "already_received"
  ELSE IF r.dmarc # "pass" THEN "not_authenticated"
  ELSE IF ~ r.fromBorrower THEN "sender_mismatch"
  ELSE IF ~ r.attachments THEN "no_attachments"
  ELSE "accepted"

AcceptReplySilently(l, r) == [l EXCEPT !.reply = r]   \* mutant: the transition is forgotten
AcceptReply(l, r) == [l EXCEPT !.reply = r, !.status = "documents_received"]

------------------------------------------------------------------------------
(* Document Review and Outcome Notice.                                      *)

CanReview(l) == NextStep(l) = "review"
StartReview(l) == [l EXCEPT !.status = "documents_received"]
RecordReview(l, outcome) == [l EXCEPT !.review = outcome, !.status = outcome]

CanOpenNotice(l) == NextStep(l) = "notify" /\ l.noticeId = 0
OpenNotice(l) == [l EXCEPT !.noticeId = NewId(l), !.notice = "pending"]

RequiresUnsentNotice(l) == l.noticeId # 0 /\ l.notice # "sent"
MarkNoticeSentAfterReview(l) == [l EXCEPT !.notice = "sent", !.status = l.review]   \* mutant: only reviews have notices
MarkNoticeSent(l) == [l EXCEPT !.notice = "sent", !.status = FinalOutcome(l)]
MarkNoticeFailed(l) == Fail([l EXCEPT !.notice = "failed"])
==============================================================================
