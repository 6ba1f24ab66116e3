----------------------------- MODULE InboundEmail -----------------------------
(***************************************************************************)
(* How a borrower's email reaches the Lead: the sending mail server, which *)
(* keeps an email until it is taken over; the Cloudflare Email Worker      *)
(* (apps/email-inbound), which turns it into an Inbound Email and forwards *)
(* it; and POST /v1/inbound-emails of Lead Intake, which records the reply *)
(* or refuses it.  The Worker gives up on intake after ten seconds, intake *)
(* does not notice: requests of several attempts can be under way at once. *)
(*                                                                         *)
(* The Chase has reached the borrower; intake may not know yet.  The rest  *)
(* of the pipeline is reduced to the saves that can get in between.        *)
(***************************************************************************)
EXTENDS LeadStore, Sequences, FiniteSets

CONSTANTS Messages,    \* emails somebody may send; each stands for its raw bytes too
          Mail(_),     \* what is in one
          MaxEmails,   \* bound: emails that are sent
          NoMessageId, \* the email has no Message-ID header
          NoAddress,   \* no usable From address
          MaxAttempts, \* deliveries the sender tries before it bounces the email
          MaxFaults,   \* bound: calls and answers that fail
          AtomicLoad   \* TRUE: the four selects of findById see one state of
                       \* the database; FALSE: each sees its own, as in the code

ASSUME InboundAssumption ==
  /\ MaxEmails \in Nat /\ MaxAttempts \in Nat /\ MaxFaults \in Nat
  /\ AtomicLoad \in BOOLEAN
  /\ NoMessageId \notin Messages
  /\ \A m \in Messages :   \* Cloudflare has judged it; the parts and the From address are parsed
       LET mail == Mail(m) IN
       /\ mail.headers \in Seq({mail.headers[i] : i \in DOMAIN mail.headers})
       /\ mail.verdict.key = "authentication-results" /\ mail.verdict.authserv = "cloudflare"
       /\ mail.parts \subseteq {"attached", "inline", "related"}
       /\ mail.from # NoAddress => mail.from.borrower \in BOOLEAN
  /\ \A m \in Messages, dmarc \in {"pass", "fail", "none", "unknown"}, b, a \in BOOLEAN :
       \A id \in {m, Mail(m).messageId} \ {NoMessageId} :
         [messageId |-> id, dmarc |-> dmarc, fromBorrower |-> b, attachments |-> a] \in Replies

VARIABLES
  sender,   \* message -> unsent, queued, done (taken over) or bounced
  attempts, \* message -> deliveries tried
  session,  \* message -> the attempt whose Worker waits for intake, or 0
  requests, \* what intake is working on, and its answers on their way
  db,       \* the Lead's rows
  tooEarly, \* messages refused because intake had no sent Chase
  faults

vars == <<sender, attempts, session, requests, db, tooEarly, faults>>

------------------------------------------------------------------------------
(* The Worker's view of a message (authentication.ts, inbound-email.ts).    *)

(* A header field: Authentication-Results with its authserv-id, its dmarc   *)
(* result and the domain that was evaluated; From; or any other.            *)
AuthenticationResults(authserv, dmarc, headerFrom) ==
  [key |-> "authentication-results", authserv |-> authserv,
   dmarc |-> dmarc, headerFrom |-> headerFrom]
OtherHeader(key) == [key |-> key, authserv |-> "", dmarc |-> "", headerFrom |-> ""]

IsCloudflareVerdict(h) == h.key = "authentication-results" /\ h.authserv = "cloudflare"

LastVerdict(headers) ==   \* mutant: the copy furthest down is taken
  LET verdicts == {i \in DOMAIN headers : IsCloudflareVerdict(headers[i])}
  IN  IF verdicts = {} THEN {} ELSE {headers[CHOOSE i \in verdicts : \A j \in verdicts : j <= i]}

(* headers.find: the first one, if there is one.                            *)
TopmostVerdict(headers) ==
  LET verdicts == {i \in DOMAIN headers : IsCloudflareVerdict(headers[i])}
  IN  IF verdicts = {} THEN {} ELSE {headers[CHOOSE i \in verdicts : \A j \in verdicts : i <= j]}

FromFields(headers) == {i \in DOMAIN headers : headers[i].key = "from"}

VerdictOfAnyFrom(headers, from) ==   \* mutant: several From headers are not noticed
  LET top == TopmostVerdict(headers)
  IN  IF ~ \E h \in top : h.dmarc \in {"pass", "fail", "none"} THEN "unknown"
      ELSE IF \E h \in top : h.headerFrom # from.domain THEN "fail"
      ELSE (CHOOSE h \in top : TRUE).dmarc

AuthenticationVerdict(headers, from) ==
  LET top == TopmostVerdict(headers)
  IN  IF ~ \E h \in top : h.dmarc \in {"pass", "fail", "none"} THEN "unknown"
      ELSE IF \E i, j \in FromFields(headers) : i # j THEN "fail"
      ELSE IF \E h \in top : h.headerFrom # from.domain THEN "fail"
      ELSE (CHOOSE h \in top : TRUE).dmarc

(* Cloudflare prepends its verdict to what the sender wrote.                *)
Received(m) == <<Mail(m).verdict>> \o Mail(m).headers

(* Without a Message-ID, the hash of the raw email stands in for it.         *)
MessageIdHeader(m) == Mail(m).messageId   \* mutant: the stand-in is forgotten
MessageId(m) == IF Mail(m).messageId = NoMessageId THEN m ELSE Mail(m).messageId

(* Related parts, such as the logo of a signature, are no attachments.      *)
RealAttachments(m) == Mail(m).parts \ {"related"}

(* What intake makes of the Inbound Email (receiveReply).                   *)
IsInboundEmail(m) == Mail(m).from # NoAddress
Reply(m) ==
  [messageId    |-> MessageId(m),
   dmarc        |-> AuthenticationVerdict(Received(m), Mail(m).from),
   fromBorrower |-> Mail(m).from.borrower,
   attachments  |-> RealAttachments(m) # {}]

TypeOK ==
  /\ sender \in [Messages -> {"unsent", "queued", "done", "bounced"}]
  /\ attempts \in [Messages -> 0..MaxAttempts]
  /\ session \in [Messages -> 0..MaxAttempts]
  /\ requests \subseteq [message : Messages, attempt : 1..MaxAttempts,
                         place : {"load", "decide", "answered"},
                         todo : SUBSET Tables, lead : LeadRecord, status : Nat]
  /\ db \in LeadRecord
  /\ tooEarly \subseteq Messages
  /\ faults \in Nat

(* The Lead has a pending Chase, which the borrower has in the inbox.       *)
Chasing ==
  [Submitted EXCEPT !.version = 4, !.status = "need_more_documents",
                    !.decision = "need_more_documents", !.chaseId = 4, !.chase = "pending"]

Init ==
  /\ \E sent \in SUBSET Messages :
       /\ Cardinality(sent) <= MaxEmails
       /\ sender = [m \in Messages |-> IF m \in sent THEN "queued" ELSE "unsent"]
  /\ attempts = [m \in Messages |-> 0]
  /\ session = [m \in Messages |-> 0]
  /\ requests = {}
  /\ db = Chasing
  /\ tooEarly = {}
  /\ faults = 0

------------------------------------------------------------------------------
(* The sending mail server and the Worker.                                  *)

Fault == faults < MaxFaults /\ faults' = faults + 1

Attempt(m) ==
  /\ sender[m] = "queued" /\ session[m] = 0
  /\ attempts[m] < MaxAttempts
  /\ attempts' = [attempts EXCEPT ![m] = @ + 1]

(* Unparseable, or not an Inbound Email: logged, and accepted from the sender. *)
DropInvalid(m) ==
  /\ Attempt(m) /\ ~ IsInboundEmail(m)
  /\ sender' = [sender EXCEPT ![m] = "done"]
  /\ UNCHANGED <<session, requests, db, tooEarly, faults>>

Forward(m) ==
  /\ Attempt(m) /\ IsInboundEmail(m)
  /\ session' = [session EXCEPT ![m] = attempts[m] + 1]
  /\ requests' = requests \union
       {[message |-> m, attempt |-> attempts[m] + 1, place |-> "load",
         todo |-> Tables, lead |-> Submitted, status |-> 0]}
  /\ UNCHANGED <<sender, db, tooEarly, faults>>

GiveUp(m) ==
  /\ sender[m] = "queued" /\ session[m] = 0 /\ attempts[m] = MaxAttempts
  /\ sender' = [sender EXCEPT ![m] = "bounced"]
  /\ UNCHANGED <<attempts, session, requests, db, tooEarly, faults>>

------------------------------------------------------------------------------
(* POST /v1/inbound-emails.                                                 *)

Becomes(r, next) == requests' = (requests \ {r}) \union {next}
Answer(r, status) ==
  Becomes(r, [r EXCEPT !.place = "answered", !.todo = {}, !.lead = Submitted, !.status = status])

Saved(l) == SavedOver(db, l)

(* An error nothing translates, ConcurrencyError of save() included, is a 500. *)
SaveAnyVersionAndAnswer(r, l) ==   \* mutant: no version in the update's where clause
  db' = Saved(l) /\ Answer(r, 202)

SaveOrConflict(r, l) ==   \* mutant: translated to 409, as on the Lead routes
  \/ r.lead.version = db.version /\ db' = Saved(l) /\ Answer(r, 202)
  \/ r.lead.version # db.version /\ UNCHANGED db /\ Answer(r, 409)

SaveAndAnswer(r, l) ==
  \/ r.lead.version = db.version /\ db' = Saved(l) /\ Answer(r, 202)
  \/ r.lead.version # db.version /\ UNCHANGED db /\ Answer(r, 500)

(* No Chase has the address: logged, and answered as accepted.              *)
NotFound(r) ==
  /\ r.place = "load" /\ Mail(r.message).to # "chase"
  /\ Answer(r, 202)
  /\ UNCHANGED <<sender, attempts, session, db, tooEarly, faults>>

(* findByChaseId: the id of the Lead, which never changes, then findById's  *)
(* four selects in the order the database answers them.                     *)
Load(r) ==
  /\ r.place = "load" /\ Mail(r.message).to = "chase"
  /\ \E tables \in IF AtomicLoad THEN {r.todo} ELSE {{t} : t \in r.todo} :
       Becomes(r, [r EXCEPT !.place = IF tables = r.todo THEN "decide" ELSE "load",
                            !.todo = @ \ tables,
                            !.lead = SelectFrom(db, @, tables)])
  /\ UNCHANGED <<sender, attempts, session, db, tooEarly, faults>>

Accept(r) ==
  /\ r.place = "decide" /\ ReplyVerdict(r.lead, Reply(r.message)) = "accepted"
  /\ SaveAndAnswer(r, AcceptReply(r.lead, Reply(r.message)))
  /\ UNCHANGED <<sender, attempts, session, tooEarly, faults>>

Redelivered(r) ==
  /\ r.place = "decide" /\ ReplyVerdict(r.lead, Reply(r.message)) = "duplicate"
  /\ Answer(r, 202)
  /\ UNCHANGED <<sender, attempts, session, db, tooEarly, faults>>

(* A refusal is saved for its event.                                        *)
Refuse(r) ==
  /\ r.place = "decide"
  /\ ReplyVerdict(r.lead, Reply(r.message)) \notin {"accepted", "duplicate"}
  /\ SaveAndAnswer(r, r.lead)
  /\ tooEarly' = IF r.lead.version = db.version /\ r.lead.chase # "sent"
                 THEN tooEarly \union {r.message} ELSE tooEarly
  /\ UNCHANGED <<sender, attempts, session, faults>>

(* Intake, or what is in front of it, fails the request: restarting, not    *)
(* deployed, wrong key, too many requests.                                  *)
RequestFails(r) ==
  /\ r.place # "answered" /\ Fault
  /\ \E status \in {401, 404, 429, 503} : Answer(r, status)
  /\ UNCHANGED <<sender, attempts, session, db, tooEarly>>

------------------------------------------------------------------------------
(* What the Worker makes of the answer (intake-client.ts, handler.ts).      *)

IsTemporaryOnlyServerErrors(status) == status >= 500   \* mutant: 401, 404, 429 are final
IsTemporary(status) == status >= 500 \/ status \in {401, 403, 404, 408, 429}

Hears(r) == session[r.message] = r.attempt

AnswerArrives(r) ==
  /\ r.place = "answered" /\ Hears(r)
  /\ requests' = requests \ {r}
  /\ session' = [session EXCEPT ![r.message] = 0]
  /\ sender' = [sender EXCEPT ![r.message] = IF IsTemporary(r.status) THEN @ ELSE "done"]
  /\ UNCHANGED <<attempts, db, tooEarly, faults>>

(* Nobody waits for it any more.                                            *)
AnswerIsLate(r) ==
  /\ r.place = "answered" /\ ~ Hears(r)
  /\ requests' = requests \ {r}
  /\ UNCHANGED <<sender, attempts, session, db, tooEarly, faults>>

(* The timeout, a network error, or a broken session with the sender: the   *)
(* email stays queued, whatever intake does with the request.               *)
WorkerFails(m) ==
  /\ session[m] # 0 /\ Fault
  /\ session' = [session EXCEPT ![m] = 0]
  /\ UNCHANGED <<sender, attempts, requests, db, tooEarly>>

------------------------------------------------------------------------------
(* Meanwhile: the Lead's pipeline.                                          *)

Pipeline(l) ==
  /\ db' = Saved(l)
  /\ UNCHANGED <<sender, attempts, session, requests, tooEarly, faults>>

ChaseSent == RequiresUnsentChase(db) /\ Pipeline(MarkChaseSent(db))

(* Borrower Outreach delivered the Chase but the call timed out.            *)
ChaseCallFails ==
  /\ RequiresUnsentChase(db) /\ Fault
  /\ db' = Saved(MarkChaseFailed(db))
  /\ UNCHANGED <<sender, attempts, session, requests, tooEarly>>

Reviewed == CanReview(db) /\ Pipeline(RecordReview(db, "approved"))

------------------------------------------------------------------------------

Worker(m) == DropInvalid(m) \/ Forward(m) \/ GiveUp(m)
Intake(r) == NotFound(r) \/ Load(r) \/ Accept(r) \/ Redelivered(r) \/ Refuse(r)
Network(r) == AnswerArrives(r) \/ AnswerIsLate(r)

Next ==
  \/ \E m \in Messages : Worker(m) \/ WorkerFails(m)
  \/ \E r \in requests : Intake(r) \/ RequestFails(r) \/ Network(r)
  \/ ChaseSent \/ ChaseCallFails \/ Reviewed

Spec == Init /\ [][Next]_vars

(* Senders retry, the Worker and intake finish what they began.             *)
FairSpec ==
  /\ Spec
  /\ \A m \in Messages : WF_vars(Worker(m))
  /\ WF_vars(\E r \in requests : Intake(r) \/ Network(r))

------------------------------------------------------------------------------

\* What a reply has to be, said of the message: Cloudflare itself passed the domain of the
\* one From header, it is the borrower's address, and a document is attached (ADR-0004).
Genuine(m) ==
  LET mail == Mail(m) IN
  /\ IsInboundEmail(m) /\ mail.to = "chase"
  /\ mail.verdict.dmarc = "pass" /\ mail.verdict.headerFrom = mail.from.domain
  /\ ~ \E i, j \in DOMAIN mail.headers :
       i # j /\ mail.headers[i].key = "from" /\ mail.headers[j].key = "from"
  /\ mail.from.borrower
  /\ mail.parts \intersect {"attached", "inline"} # {}

\* The reply on record is a genuine one, whatever headers senders write and in whatever
\* order the emails and their retries reach intake.
AcceptedIsGenuine ==
  db.reply # NoReply => \E m \in Messages : Genuine(m) /\ db.reply.messageId = MessageId(m)

\* No genuine reply is taken from the sender's hands without an accepted one on record:
\* when intake fails, answers late or loses a race, the sender keeps the email and retries.
\* (Only a Chase intake does not know to be sent makes it lose one.)  Needs NoLoadIsTorn:
\* a refusal saved from a torn copy without the reply takes the reply off the record.
NothingIsLost ==
  \A m \in Messages :
    Genuine(m) /\ sender[m] = "done" /\ m \notin tooEarly => db.reply # NoReply

\* The first accepted reply stays; a redelivery of it changes nothing, and neither
\* does another email, whichever was loaded before the other was saved.  Needs NoLoadIsTorn:
\* receiveReply looks only at the copy's Chase, so with a Chase row read before the other
\* save and a leads row read after it, the other reply is replaced.
FirstReplyStays == [][db.reply # NoReply => db'.reply = db.reply]_vars

\* No request ends its load with the version of the rows and contents older than that, as
\* it can when another save falls between its selects.  The code does not ensure it.
NoLoadIsTorn ==
  [][\A r \in requests' \ requests : r.place = "decide" => ~ Torn(db, r.lead)]_vars

\* The borrower's documents arrive, are refused as too early, or the borrower gets the
\* email back: none is left in a queue or between Worker and intake.
GenuineIsSettled ==
  <>(\A m \in Messages :
       Genuine(m) /\ sender[m] # "unsent" =>
         db.reply # NoReply \/ m \in tooEarly \/ sender[m] = "bounced")

\* "chase_not_sent": the Chase email has not gone out (RUNBOOK), so nobody can have
\* answered it yet.
NobodyIsTooEarly == tooEarly = {}
==============================================================================
