---------------------------- MODULE LeadPipeline -----------------------------
(***************************************************************************)
(* One Lead, from its insert to its Outcome Notice: the requests of Lead   *)
(* Intake that work on it (apps/intake/src/application/lead-use-cases.ts), *)
(* the rows they save with an optimistic version check                     *)
(* (infrastructure/db/drizzle-lead-repository.ts), and the two services    *)
(* they call.                                                              *)
(*                                                                         *)
(* A handler is one request of intake working on the Lead.  It holds a     *)
(* copy of the Lead in memory and other handlers run at each of its        *)
(* awaits, so one action is the code between two awaits.  save() is one    *)
(* transaction, hence one action.  Figure answers a request, and the       *)
(* answer reaches the handler, in different steps; a request to Borrower   *)
(* Outreach outlives the handler that gave up on it.                       *)
(***************************************************************************)
EXTENDS LeadStore, FiniteSets

CONSTANTS Handlers,    \* requests intake can be serving at one time
          MaxRequests, \* bound: requests and emails received in all
          MaxFaults,   \* bound: calls that fail and handlers that die
          AtomicLoad   \* TRUE: the four selects of findById see one state of
                       \* the database; FALSE: each sees its own, as in the code

ASSUME PipelineAssumption ==
  MaxRequests \in Nat /\ MaxFaults \in Nat /\ AtomicLoad \in BOOLEAN

VARIABLES
  db,         \* the Lead's rows
  failedStep, \* the step named by the latest lead.failed event of the timeline
  pc, kind,   \* handler -> where it is, and which use case it serves
  todo,       \* handler -> the tables it has still to select from
  mem,        \* handler -> its Lead
  email,      \* handler -> the reply it carries, for a reply handler
  answer,     \* handler -> what Figure answered to its outstanding call
  pulls, reviews, \* successful soft pulls and document reviews at Figure
  requested,  \* emails asked of Borrower Outreach
  inbox,      \* emails that reached the borrower
  requests, faults

vars == <<db, failedStep, pc, kind, todo, mem, email, answer, pulls, reviews,
          requested, inbox, requests, faults>>

Kinds == {"submit", "replay", "reply", "continue"}
Waiting == {"pull", "review", "chase", "notice"}   \* a call is outstanding
Places == {"idle", "load", "start", "advance"} \union Waiting
Emails == [about : {"chase", "notice"}, key : Nat, says : Outcomes]

TypeOK ==
  /\ db \in LeadRecord
  /\ failedStep \in {"none", "prequalify", "chase", "review", "notify"}
  /\ pc \in [Handlers -> Places]
  /\ kind \in [Handlers -> Kinds]
  /\ todo \in [Handlers -> SUBSET Tables]
  /\ mem \in [Handlers -> LeadRecord]
  /\ email \in [Handlers -> Replies \union {NoReply}]
  /\ answer \in [Handlers -> Outcomes \union {"none"}]
  /\ pulls \in Nat /\ reviews \in Nat
  /\ requested \subseteq Emails
  /\ inbox \subseteq Emails
  /\ requests \in Nat /\ faults \in Nat

Init ==
  /\ db = Submitted
  /\ failedStep = "none"
  /\ pc = [h \in Handlers |-> "idle"]
  /\ kind = [h \in Handlers |-> "submit"]
  /\ todo = [h \in Handlers |-> {}]
  /\ mem = [h \in Handlers |-> Submitted]
  /\ email = [h \in Handlers |-> NoReply]
  /\ answer = [h \in Handlers |-> "none"]
  /\ pulls = 0 /\ reviews = 0
  /\ requested = {} /\ inbox = {}
  /\ requests = 0 /\ faults = 0

------------------------------------------------------------------------------
(* Saving.                                                                  *)

(* The update matches the row only at the version the Lead was loaded at; a *)
(* second chases or outcome_notices row for the Lead violates a unique key. *)
CanCommitAnyVersion(l) ==   \* mutant: no version in the update's where clause
  /\ l.chaseId # 0 => db.chaseId \in {0, l.chaseId}
  /\ l.noticeId # 0 => db.noticeId \in {0, l.noticeId}

CanCommit(l) ==
  /\ l.version = db.version
  /\ l.chaseId # 0 => db.chaseId \in {0, l.chaseId}
  /\ l.noticeId # 0 => db.noticeId \in {0, l.noticeId}

Saved(l) == SavedOver(db, l)
Persisted(l) == [l EXCEPT !.version = @ + 1]

(* The handler is through with its request, or the request failed.          *)
Leave(h) ==
  /\ pc' = [pc EXCEPT ![h] = "idle"]
  /\ mem' = [mem EXCEPT ![h] = Submitted]
  /\ kind' = [kind EXCEPT ![h] = "submit"]
  /\ todo' = [todo EXCEPT ![h] = {}]
  /\ email' = [email EXCEPT ![h] = NoReply]
  /\ answer' = [answer EXCEPT ![h] = "none"]

(* await save(l), then on to place.  When the save throws (ConcurrencyError,*)
(* or a unique violation) nothing catches it and the request fails.         *)
SaveThen(h, l, place) ==
  \/ /\ CanCommit(l)
     /\ db' = Saved(l)
     /\ mem' = [mem EXCEPT ![h] = Persisted(l)]
     /\ pc' = [pc EXCEPT ![h] = place]
     /\ answer' = [answer EXCEPT ![h] = "none"]
     /\ UNCHANGED <<kind, todo, email>>
  \/ /\ ~ CanCommit(l)
     /\ UNCHANGED db
     /\ Leave(h)

(* await save(l) as the last thing the handler does.                        *)
SaveAndLeave(h, l) ==
  /\ db' = IF CanCommit(l) THEN Saved(l) ELSE db
  /\ Leave(h)

(* await save(l) with a lead.failed event for step, then return.            *)
SaveFailureAndLeave(h, l, step) ==
  /\ SaveAndLeave(h, l)
  /\ failedStep' = IF CanCommit(l) THEN step ELSE failedStep

------------------------------------------------------------------------------
(* Requests arrive.                                                         *)

services == <<pulls, reviews, requested, inbox>>

Begin(h) ==
  /\ pc[h] = "idle"
  /\ requests < MaxRequests
  /\ requests' = requests + 1

(* POST /v1/leads with a new Lead: Lead.submit, then the insert.            *)
Submit(h) ==
  /\ Begin(h)
  /\ db.version = 0
  /\ SaveThen(h, Submitted, "advance")
  /\ UNCHANGED <<failedStep, services, faults>>

StartLoading(h, k) ==
  /\ pc' = [pc EXCEPT ![h] = "load"]
  /\ kind' = [kind EXCEPT ![h] = k]
  /\ todo' = [todo EXCEPT ![h] = Tables]
  /\ mem' = [mem EXCEPT ![h] = Submitted]

(* POST /v1/leads/:id/replay.                                               *)
RequestReplay(h) ==
  /\ Begin(h)
  /\ db.version # 0
  /\ StartLoading(h, "replay")
  /\ UNCHANGED <<db, failedStep, email, answer, services, faults>>

(* POST /v1/inbound-emails: an email to the Reply Address, which is known   *)
(* to whoever received the Chase; its key finds the Lead.                   *)
EmailArrives(h, r) ==
  /\ Begin(h)
  /\ \E e \in inbox : e.about = "chase" /\ e.key = db.chaseId
  /\ StartLoading(h, "reply")
  /\ email' = [email EXCEPT ![h] = r]
  /\ UNCHANGED <<db, failedStep, answer, services, faults>>

(* findById selects from four tables at once, on connections of its own.    *)
Load(h) ==
  /\ pc[h] = "load"
  /\ \E tables \in IF AtomicLoad THEN {todo[h]} ELSE {{t} : t \in todo[h]} :
       /\ todo' = [todo EXCEPT ![h] = @ \ tables]
       /\ mem' = [mem EXCEPT ![h] = SelectFrom(db, @, tables)]
       /\ pc' = [pc EXCEPT ![h] =
                   IF tables # todo[h] THEN "load"
                   ELSE IF kind[h] = "continue" THEN "advance" ELSE "start"]
  /\ UNCHANGED <<db, failedStep, kind, email, answer, services, requests, faults>>

(* replayLead: lead.replay() records an event and changes nothing.          *)
Replay(h) ==
  /\ pc[h] = "start" /\ kind[h] = "replay"
  /\ SaveThen(h, mem[h], "advance")
  /\ UNCHANGED <<failedStep, services, requests, faults>>

(* receiveChaseReply.  A refused email is saved too: it records an event.   *)
(* Accepted, or a redelivery: answer 202, then continueLead loads the Lead. *)
RefuseReply(h) ==
  /\ pc[h] = "start" /\ kind[h] = "reply"
  /\ ReplyVerdict(mem[h], email[h]) \notin {"accepted", "duplicate"}
  /\ SaveAndLeave(h, mem[h])
  /\ UNCHANGED <<failedStep, services, requests, faults>>

TakeReply(h) ==
  /\ pc[h] = "start" /\ kind[h] = "reply"
  /\ ReplyVerdict(mem[h], email[h]) = "accepted"
  /\ LET l == AcceptReply(mem[h], email[h]) IN
       \/ /\ CanCommit(l)
          /\ db' = Saved(l)
          /\ StartLoading(h, "continue")
          /\ UNCHANGED <<email, answer>>
       \/ /\ ~ CanCommit(l)
          /\ UNCHANGED db
          /\ Leave(h)
  /\ UNCHANGED <<failedStep, services, requests, faults>>

RedeliveredReply(h) ==
  /\ pc[h] = "start" /\ kind[h] = "reply"
  /\ ReplyVerdict(mem[h], email[h]) = "duplicate"
  /\ StartLoading(h, "continue")
  /\ UNCHANGED <<db, failedStep, email, answer, services, requests, faults>>

------------------------------------------------------------------------------
(* advance: the step the Lead needs next, up to the next await.             *)

AdvanceTo(h, step) == pc[h] = "advance" /\ NextStep(mem[h]) = step

FinishOnceMore(h) ==   \* mutant: the loop does not return when nothing is left to do
  /\ AdvanceTo(h, "done") /\ db.version = 0
  /\ Leave(h)
  /\ UNCHANGED <<db, failedStep, services, requests, faults>>

Finish(h) ==
  /\ AdvanceTo(h, "done")
  /\ Leave(h)
  /\ UNCHANGED <<db, failedStep, services, requests, faults>>

Prequalify(h) ==
  /\ AdvanceTo(h, "prequalify")
  /\ SaveThen(h, StartPrequalification(mem[h]), "pull")
  /\ UNCHANGED <<failedStep, services, requests, faults>>

Review(h) ==
  /\ AdvanceTo(h, "review")
  /\ SaveThen(h, StartReview(mem[h]), "review")
  /\ UNCHANGED <<failedStep, services, requests, faults>>

BeginChaseUnsaved(h) ==   \* mutant: the Chase is sent before it is on record
  /\ AdvanceTo(h, "chase")
  /\ mem[h].chaseId = 0
  /\ mem' = [mem EXCEPT ![h] = OpenChase(@)]
  /\ UNCHANGED <<db, pc, kind, todo, email, answer>>
  /\ UNCHANGED <<failedStep, services, requests, faults>>

BeginChase(h) ==
  /\ AdvanceTo(h, "chase")
  /\ mem[h].chaseId = 0
  /\ SaveThen(h, OpenChase(mem[h]), "advance")
  /\ UNCHANGED <<failedStep, services, requests, faults>>

BeginNotice(h) ==
  /\ AdvanceTo(h, "notify")
  /\ mem[h].noticeId = 0
  /\ SaveThen(h, OpenNotice(mem[h]), "advance")
  /\ UNCHANGED <<failedStep, services, requests, faults>>

ChaseEmail(l) == [about |-> "chase", key |-> l.chaseId, says |-> "need_more_documents"]
NoticeEmailOfDecision(l) ==   \* mutant: the soft pull's outcome is sent after a review
  [about |-> "notice", key |-> l.noticeId, says |-> l.decision]
NoticeEmail(l) == [about |-> "notice", key |-> l.noticeId, says |-> FinalOutcome(l)]

Request(h, e, place) ==
  /\ requested' = requested \union {e}
  /\ pc' = [pc EXCEPT ![h] = place]
  /\ UNCHANGED <<db, failedStep, kind, todo, mem, email, answer,
                 pulls, reviews, inbox, requests, faults>>

SendChase(h) ==
  /\ AdvanceTo(h, "chase")
  /\ mem[h].chaseId # 0
  /\ Request(h, ChaseEmail(mem[h]), "chase")

SendNotice(h) ==
  /\ AdvanceTo(h, "notify")
  /\ mem[h].noticeId # 0
  /\ Request(h, NoticeEmail(mem[h]), "notice")

------------------------------------------------------------------------------
(* The services, and what their answers do to the Lead.                     *)

(* Borrower Outreach hands an email to Email Delivery, which delivers one   *)
(* email per idempotency key and answers a repetition with the first.       *)
Deliver(e) ==
  /\ e \in requested
  /\ ~ \E d \in inbox : d.about = e.about /\ d.key = e.key
  /\ inbox' = inbox \union {e}
  /\ UNCHANGED <<db, failedStep, pc, kind, todo, mem, email, answer,
                 pulls, reviews, requested, requests, faults>>

Delivered(e) == \E d \in inbox : d.about = e.about /\ d.key = e.key

FigureAnswers(h, place, outcome) ==
  /\ pc[h] = place
  /\ answer[h] = "none"
  /\ answer' = [answer EXCEPT ![h] = outcome]
  /\ UNCHANGED <<db, failedStep, pc, kind, todo, mem, email,
                 requested, inbox, requests, faults>>

SoftPull(h, outcome) ==
  /\ FigureAnswers(h, "pull", outcome)
  /\ pulls' = pulls + 1
  /\ UNCHANGED reviews

DocumentReview(h, outcome) ==
  /\ FigureAnswers(h, "review", outcome)
  /\ reviews' = reviews + 1
  /\ UNCHANGED pulls

DecisionArrives(h) ==
  /\ pc[h] = "pull" /\ answer[h] # "none"
  /\ SaveThen(h, RecordDecision(mem[h], answer[h]), "advance")
  /\ UNCHANGED <<failedStep, services, requests, faults>>

ReviewArrives(h) ==
  /\ pc[h] = "review" /\ answer[h] # "none"
  /\ SaveThen(h, RecordReview(mem[h], answer[h]), "advance")
  /\ UNCHANGED <<failedStep, services, requests, faults>>

ChaseAnswered(h) ==
  /\ pc[h] = "chase" /\ Delivered(ChaseEmail(mem[h]))
  /\ SaveThen(h, MarkChaseSent(mem[h]), "advance")
  /\ UNCHANGED <<failedStep, services, requests, faults>>

NoticeAnswered(h) ==
  /\ pc[h] = "notice" /\ Delivered(NoticeEmail(mem[h]))
  /\ SaveThen(h, MarkNoticeSent(mem[h]), "advance")
  /\ UNCHANGED <<failedStep, services, requests, faults>>

(* The call throws: refused, unreachable, or timed out, whether or not the  *)
(* service did the work or still does it.                                   *)
Fault == faults < MaxFaults /\ faults' = faults + 1

PullFails(h) ==
  /\ pc[h] = "pull" /\ Fault
  /\ SaveFailureAndLeave(h, Fail(mem[h]), "prequalify")
  /\ UNCHANGED <<services, requests>>

ReviewFails(h) ==
  /\ pc[h] = "review" /\ Fault
  /\ SaveFailureAndLeave(h, Fail(mem[h]), "review")
  /\ UNCHANGED <<services, requests>>

ChaseFails(h) ==
  /\ pc[h] = "chase" /\ Fault
  /\ SaveFailureAndLeave(h, MarkChaseFailed(mem[h]), "chase")
  /\ UNCHANGED <<services, requests>>

NoticeFails(h) ==
  /\ pc[h] = "notice" /\ Fault
  /\ SaveFailureAndLeave(h, MarkNoticeFailed(mem[h]), "notify")
  /\ UNCHANGED <<services, requests>>

(* The process stops, or the database fails a statement of the handler.     *)
Die(h) ==
  /\ pc[h] # "idle" /\ Fault
  /\ Leave(h)
  /\ UNCHANGED <<db, failedStep, services, requests>>

------------------------------------------------------------------------------

(* What the code of a handler does on its own.                              *)
HandlerStep(h) ==
  \/ Load(h) \/ Replay(h) \/ RefuseReply(h) \/ TakeReply(h) \/ RedeliveredReply(h)
  \/ Finish(h) \/ Prequalify(h) \/ Review(h) \/ BeginChase(h) \/ BeginNotice(h)
  \/ SendChase(h) \/ SendNotice(h)
  \/ DecisionArrives(h) \/ ReviewArrives(h) \/ ChaseAnswered(h) \/ NoticeAnswered(h)

FaultStep(h) ==
  PullFails(h) \/ ReviewFails(h) \/ ChaseFails(h) \/ NoticeFails(h) \/ Die(h)

FigureStep(h) ==
  \/ \E outcome \in Outcomes : SoftPull(h, outcome)
  \/ \E outcome \in Finals : DocumentReview(h, outcome)

Arrival(h) ==
  Submit(h) \/ RequestReplay(h) \/ \E r \in Replies : EmailArrives(h, r)

Next ==
  \/ \E h \in Handlers : Arrival(h) \/ HandlerStep(h) \/ FaultStep(h) \/ FigureStep(h)
  \/ \E e \in requested : Deliver(e)

Spec == Init /\ [][Next]_vars

------------------------------------------------------------------------------
(* Safety.  But for SentMeansDelivered and CommandsAreDue it needs that no  *)
(* load is torn (NoLoadIsTorn, below), which the code does not ensure: the  *)
(* run pipeline assumes AtomicLoad, pipeline_torn_load shows the code.      *)

Loaded(h) == pc[h] \notin {"idle", "load"}

\* A handler whose version would still match holds exactly the Lead in the
\* database, so the version check of save() is enough to keep one handler from
\* overwriting what another saved since (lead-repository.ts: ConcurrencyError).
MatchingVersionIsFresh ==
  \A h \in Handlers : Loaded(h) /\ mem[h].version = db.version => mem[h] = db

StatusMatches(l) ==
  /\ l.status \in {"submitted", "processing"} => l.decision = "none"
  /\ l.status = "need_more_documents" => NextStep(l) = "chase"
  /\ l.status = "chase_sent" => AwaitsDocuments(l)
  /\ l.status = "documents_received" => NextStep(l) = "review"
  /\ l.status \in Finals => l.status = FinalOutcome(l)
  /\ l.status = "failed" => NextStep(l) # "done"
  /\ l.review # "none" => l.reply # NoReply /\ l.chase = "sent"

\* The status the borrower and the operator see never contradicts the data
\* nextStep() derives the pipeline from (ADR-0003: chase_sent only when the Chase
\* was sent, a settled status is the final outcome, a failed Lead has a step left), and
\* no review is on record without the reply it reviewed (ADR-0004).
StatusMatchesData == StatusMatches(db)

\* Every Chase email ever asked for, also by a handler that has since lost its
\* save or died, carries the id of the Lead's one Chase: whichever email the
\* borrower answers, its Reply Address leads to this Lead (advance, openChase).
EveryChaseEmailIsTheChase ==
  \A e \in requested : e.about = "chase" =>
     e.key = db.chaseId /\ db.decision = "need_more_documents"

\* The borrower is told the outcome on record and no other, and only once it is on
\* record, however many handlers raced to send the Outcome Notice (ADR-0004).
NoticeTellsTheOutcome ==
  \A e \in requested : e.about = "notice" =>
     e.key = db.noticeId /\ e.says = FinalOutcome(db)

SentOnlyIfDelivered(l) ==
  /\ l.chase = "sent" => Delivered(ChaseEmail(l))
  /\ l.notice = "sent" => Delivered(NoticeEmail(l))

\* "sent" is never claimed for an email that did not reach the borrower
\* (markChaseSent, markNoticeSent), also when a torn load made a handler save over
\* what another had saved.
SentMeansDelivered == SentOnlyIfDelivered(db)

\* A failed Lead shows as failed_step the step nextStep() derives, and as error the
\* reason of the latest lead.failed event: both speak of the same step
\* (lead-presenter.ts toLeadResult).
ErrorExplainsFailedStep ==
  db.status = "failed" => failedStep = NextStep(db)

\* needingAttention, for a Lead nobody updated for STUCK_AFTER_MS.
ListedOnceStale(l) ==
  \/ l.status \in {"failed", "submitted", "processing", "documents_received"}
  \/ l.status \in Finals /\ l.notice = "pending"

\* What the operator's list offers to Replay has a step left to run (needingAttention
\* against nextStep): a Replay from the list is never an empty one.
ListedIsActionable ==
  db.version # 0 /\ ListedOnceStale(db) => NextStep(db) # "done"

\* advance never runs into a DomainError of the aggregate: every command it gives
\* after an await still meets the precondition it was chosen for.
CommandsAreDue ==
  \A h \in Handlers :
    /\ pc[h] = "pull" => CanRecordDecision(mem[h]) /\ CanFail(mem[h])
    /\ pc[h] = "review" => CanReview(mem[h]) /\ CanFail(mem[h])
    /\ pc[h] = "chase" => RequiresUnsentChase(mem[h])
    /\ pc[h] = "notice" => RequiresUnsentNotice(mem[h]) /\ FinalOutcome(mem[h]) # "none"
    /\ pc[h] = "advance" /\ NextStep(mem[h]) = "chase" /\ mem[h].chaseId = 0 =>
         CanOpenChase(mem[h])
    /\ pc[h] = "advance" /\ NextStep(mem[h]) = "notify" /\ mem[h].noticeId = 0 =>
         CanOpenNotice(mem[h])

\* Later keeps what is on record in l.
Keeps(l, later) ==
  /\ l.decision # "none" => later.decision = l.decision
  /\ l.review # "none" => later.review = l.review
  /\ l.reply # NoReply => later.reply = l.reply
  /\ l.chase = "sent" => later.chase = "sent"
  /\ l.notice = "sent" => later.notice = "sent"
  /\ l.chaseId # 0 => later.chaseId = l.chaseId
  /\ l.noticeId # 0 => later.noticeId = l.noticeId

\* What is on record stays: a decision, a review, an accepted reply, a delivery and
\* the ids of the Chase and the notice are never replaced or taken back by a save
\* (ADR-0003, ADR-0004), however old the copy the saving handler held in memory.
RecordStays == [][Keeps(db, db')]_vars

\* No handler starts a soft pull, or a review, of a Lead that has one on record: a Replay
\* repeats only what was not recorded (ADR-0003: "Replay never re-runs a soft pull").
NothingRecordedIsRepeated ==
  [][\A h \in Handlers :
       /\ pc[h] # "pull" /\ pc'[h] = "pull" => db.decision = "none"
       /\ pc[h] # "review" /\ pc'[h] = "review" => db.review = "none"]_vars

------------------------------------------------------------------------------
(* The inductive invariant behind these properties, while no load is torn.  *)

(* A load ends with the version of the rows and contents older than that:   *)
(* a save came between its selects, and the leads row was read after it.    *)
EndsTorn(h) == pc[h] = "load" /\ Loaded(h)' /\ Torn(db, mem'[h])

\* The condition of most theorems: whoever read the rows' version read the rows of that
\* version.  A copy of an older version may be any mixture: its saves are refused.  The
\* code does not ensure it (findById); the theorems without it hold for torn loads too.
NoLoadIsTorn == [][\A h \in Handlers : ~ EndsTorn(h)]_vars

\* The condition of what is shown from such copies, which nothing checks the version of.
LoadsAreWhole == [][\A h \in Handlers : pc[h] = "load" /\ Loaded(h)' => mem'[h] = db]_vars

Consistent(l) ==
  /\ StatusMatches(l)
  /\ l.chaseId = 0 <=> l.chase = "none"
  /\ l.chaseId # 0 => l.decision = "need_more_documents"
  /\ l.reply # NoReply => l.chase = "sent"
  /\ l.noticeId = 0 <=> l.notice = "none"
  /\ l.noticeId # 0 => FinalOutcome(l) # "none"

RowInv == db.version = 0 => db = Submitted /\ requested = {}

MailInv ==
  /\ inbox \subseteq requested
  /\ \A e \in requested : e.key # 0
  /\ EveryChaseEmailIsTheChase
  /\ NoticeTellsTheOutcome

Due(h) ==
  /\ pc[h] = "pull" => CanRecordDecision(mem[h])
  /\ pc[h] = "review" => CanReview(mem[h]) /\ answer[h] \in Finals \union {"none"}
  /\ pc[h] = "chase" => NextStep(mem[h]) = "chase" /\ mem[h].chaseId # 0
  /\ pc[h] = "notice" => NextStep(mem[h]) = "notify" /\ mem[h].noticeId # 0

CarriesEmail(h) ==
  pc[h] \in {"load", "start"} /\ kind[h] = "reply" => email[h] \in Replies

HandlerInv(h) ==
  /\ pc[h] # "idle" => db.version # 0
  /\ mem[h].version <= db.version /\ Keeps(mem[h], db)
  /\ Loaded(h) => ~ Torn(db, mem[h])

\* A handler's own memory is enough for this part, torn loads or not.
LocalInv == TypeOK /\ \A h \in Handlers : CarriesEmail(h) /\ Due(h)

\* What the handlers know of the Lead is on record, and what is on record is
\* consistent with itself, with the emails asked for and with the timeline.
IInv ==
  /\ LocalInv
  /\ RowInv
  /\ Consistent(db)
  /\ MailInv
  /\ SentMeansDelivered
  /\ ErrorExplainsFailedStep
  /\ \A h \in Handlers : HandlerInv(h)

------------------------------------------------------------------------------
(* The pipeline implements the lifecycle.                                   *)

Stage ==
  IF db.version = 0 THEN "none"
  ELSE IF AwaitsDocuments(db) THEN "documents"
  ELSE IF NextStep(db) = "done" THEN "settled"
  ELSE NextStep(db)

Chased == \E e \in inbox : e.about = "chase"
Told == {e.says : e \in {d \in inbox : d.about = "notice"}}

Lifecycle == INSTANCE LeadLifecycle
  WITH stage <- Stage, outcome <- FinalOutcome(db), chased <- Chased, told <- Told

\* Every behaviour of the handlers, however they interleave, fail and die, is one of
\* the lifecycle: forward only, one Chase, one review, one truthful notice.
ImplementsLifecycle == Lifecycle!Spec

------------------------------------------------------------------------------
(* Liveness.                                                                *)

\* A handler runs when it can (the event loop), Figure and Borrower Outreach work off
\* what they were asked, and a call that gets no answer times out (a FaultStep).
Fairness ==
  /\ \A h \in Handlers : WF_vars(HandlerStep(h) \/ FaultStep(h)) /\ WF_vars(FigureStep(h))
  /\ WF_vars(\E e \in requested : Deliver(e))

FairSpec == Spec /\ Fairness

\* advance's endless loop ends: whatever fails, conflicts or dies, every request
\* of intake comes to its end (advance returns, or a save throws).
RequestsEnd == \A h \in Handlers : pc[h] # "idle" ~> pc[h] = "idle"

\* Nothing fails and nobody dies, yet the pipeline stops before the borrower knows.
\* A reply once accepted is followed by the review and the notice (receiveChaseReply:
\* the next steps run via continueLead; ADR-0004: a refused reply changes nothing).
AcceptedReplyIsAnswered == db.reply # NoReply ~> db.notice = "sent"

\* A Lead nobody is working on that has a step left is on the operator's list once
\* stale (ports.ts needingAttention).
StuckIsListed ==
  /\ db.version # 0
  /\ \A h \in Handlers : pc[h] = "idle"
  /\ NextStep(db) # "done"
  => ListedOnceStale(db)
==============================================================================
