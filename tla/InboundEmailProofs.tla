------------------------- MODULE InboundEmailProofs --------------------------
(***************************************************************************)
(* That only a genuine reply is recorded, once, and that none is lost, for *)
(* any emails, deliveries and failures.                                    *)
(*                                                                         *)
(* Intake holds a copy of the Lead while it decides, which others may have *)
(* overtaken (CopiesAreOlder); what it answers is only "taken over" when   *)
(* the reply is on record or was not a genuine one (TakenOverIsRecorded).  *)
(* Both need that no load is torn (NoLoadIsTorn); that whatever is on      *)
(* record is genuine, and that no request is stuck, does not.              *)
(***************************************************************************)
EXTENDS InboundEmail, TLAPS

USE DEF IsInboundEmail

------------------------------------------------------------------------------
(* The Worker's view of a message.                                          *)

\* The header Cloudflare prepends is the one whose verdict counts.
LEMMA CloudflaresCounts ==
  ASSUME NEW m \in Messages
  PROVE  TopmostVerdict(Received(m)) = {Mail(m).verdict}
<1> DEFINE mail == Mail(m)
           h == Received(m)
           verdicts == {i \in DOMAIN h : IsCloudflareVerdict(h[i])}
<1>1. /\ mail.headers \in Seq({mail.headers[i] : i \in DOMAIN mail.headers})
      /\ mail.verdict.key = "authentication-results" /\ mail.verdict.authserv = "cloudflare"
  BY InboundAssumption
<1>2. h[1] = mail.verdict /\ 1 \in DOMAIN h /\ \A i \in DOMAIN h : i \in Nat /\ 1 <= i
  BY <1>1 DEF Received
<1>3. 1 \in verdicts /\ \A j \in verdicts : 1 <= j
  BY <1>1, <1>2 DEF IsCloudflareVerdict
<1>4. (CHOOSE i \in verdicts : \A j \in verdicts : i <= j) = 1
  <2> DEFINE least == CHOOSE i \in verdicts : \A j \in verdicts : i <= j
  <2>1. least \in verdicts /\ \A j \in verdicts : least <= j
    BY <1>3
  <2>2. least <= 1 /\ 1 <= least /\ least \in Nat
    BY <2>1, <1>3, <1>2
  <2> QED
    BY <2>2
<1> QED
  BY <1>2, <1>3, <1>4 DEF TopmostVerdict

\* It adds no From field to those the sender wrote.
LEMMA FromsAreTheSenders ==
  ASSUME NEW m \in Messages
  PROVE  (\E i, j \in FromFields(Received(m)) : i # j) <=>
           \E i, j \in DOMAIN Mail(m).headers :
             i # j /\ Mail(m).headers[i].key = "from" /\ Mail(m).headers[j].key = "from"
<1> DEFINE w == Mail(m).headers
           h == Received(m)
<1>1. /\ w \in Seq({w[i] : i \in DOMAIN w})
      /\ Mail(m).verdict.key = "authentication-results"
  BY InboundAssumption
<1>2. /\ DOMAIN w = 1 .. Len(w) /\ Len(w) \in Nat
      /\ DOMAIN h = 1 .. Len(w) + 1
      /\ h[1].key # "from"
      /\ \A i \in 1 .. Len(w) : h[i + 1] = w[i]
  BY <1>1 DEF Received
<1>3. ASSUME NEW i \in FromFields(h), NEW j \in FromFields(h), i # j
      PROVE  /\ i - 1 \in DOMAIN w /\ j - 1 \in DOMAIN w /\ i - 1 # j - 1
             /\ w[i - 1].key = "from" /\ w[j - 1].key = "from"
  <2>1. i \in 2 .. Len(w) + 1 /\ j \in 2 .. Len(w) + 1 /\ h[i].key = "from" /\ h[j].key = "from"
    BY <1>2 DEF FromFields
  <2>2. i - 1 \in 1 .. Len(w) /\ j - 1 \in 1 .. Len(w) /\ i - 1 # j - 1
    BY <2>1, <1>2, <1>3
  <2>3. h[i] = w[i - 1] /\ h[j] = w[j - 1]
    BY <2>1, <2>2, <1>2
  <2> QED
    BY <2>1, <2>2, <2>3, <1>2
<1>4. ASSUME NEW i \in DOMAIN w, NEW j \in DOMAIN w, i # j, w[i].key = "from", w[j].key = "from"
      PROVE  i + 1 \in FromFields(h) /\ j + 1 \in FromFields(h) /\ i + 1 # j + 1
  <2>1. i \in 1 .. Len(w) /\ j \in 1 .. Len(w)
    BY <1>2
  <2>2. h[i + 1] = w[i] /\ h[j + 1] = w[j]
    BY <2>1, <1>2
  <2>3. i + 1 \in DOMAIN h /\ j + 1 \in DOMAIN h /\ i + 1 # j + 1
    BY <2>1, <1>2, <1>4
  <2> QED
    BY <2>2, <2>3, <1>4 DEF FromFields
<1> QED
  BY <1>3, <1>4

\* The verdict passes exactly when Cloudflare passed the domain of the one From field.
LEMMA PassIsGenuine ==
  ASSUME NEW m \in Messages
  PROVE  LET mail == Mail(m)
             verdict == AuthenticationVerdict(Received(m), mail.from)
         IN  /\ verdict \in {"pass", "fail", "none", "unknown"}
             /\ verdict = "pass" <=>
                  /\ mail.verdict.dmarc = "pass" /\ mail.verdict.headerFrom = mail.from.domain
                  /\ ~ \E i, j \in DOMAIN mail.headers :
                       i # j /\ mail.headers[i].key = "from" /\ mail.headers[j].key = "from"
<1>1. (CHOOSE h \in {Mail(m).verdict} : TRUE) = Mail(m).verdict
  OBVIOUS
<1> QED
  BY <1>1, CloudflaresCounts, FromsAreTheSenders DEF AuthenticationVerdict

\* What intake looks at of a reply to the Chase, and no more, makes it genuine.
LEMMA ReplyIsGenuine ==
  ASSUME NEW m \in Messages, IsInboundEmail(m)
  PROVE  /\ Reply(m) \in Replies
         /\ Mail(m).to = "chase" =>
              (Genuine(m) <=> /\ Reply(m).dmarc = "pass" /\ Reply(m).fromBorrower
                              /\ Reply(m).attachments)
<1>1. MessageId(m) \in {m, Mail(m).messageId} \ {NoMessageId}
  BY InboundAssumption DEF MessageId
<1>2. Mail(m).from.borrower \in BOOLEAN /\ Mail(m).parts \subseteq {"attached", "inline", "related"}
  BY InboundAssumption
<1>3. (RealAttachments(m) # {}) \in BOOLEAN
  OBVIOUS
<1>4. Reply(m) \in Replies
  BY <1>1, <1>2, <1>3, PassIsGenuine, InboundAssumption DEF Reply
<1>5. RealAttachments(m) # {} <=> Mail(m).parts \intersect {"attached", "inline"} # {}
  BY <1>2 DEF RealAttachments
<1> QED
  BY <1>2, <1>4, <1>5, PassIsGenuine DEF Reply, Genuine

------------------------------------------------------------------------------
(* Types.                                                                   *)

Requests ==
  [message : Messages, attempt : 1..MaxAttempts, place : {"load", "decide", "answered"},
   todo : SUBSET Tables, lead : LeadRecord, status : Nat]

LEMMA LeadTypes ==
  /\ Submitted \in LeadRecord /\ Chasing \in LeadRecord
  /\ \A l \in LeadRecord :
       /\ MarkChaseSent(l) \in LeadRecord /\ MarkChaseFailed(l) \in LeadRecord
       /\ RecordReview(l, "approved") \in LeadRecord
       /\ \A r \in Replies : AcceptReply(l, r) \in LeadRecord
<1> USE DEF LeadRecord, Statuses, Outcomes, Finals, Deliveries
<1>1. Submitted \in LeadRecord
  BY DEF Submitted
<1>2. Chasing \in LeadRecord
  BY DEF Submitted, Chasing
<1>3. ASSUME NEW l \in LeadRecord PROVE MarkChaseSent(l) \in LeadRecord
  BY <1>3 DEF MarkChaseSent
<1>4. ASSUME NEW l \in LeadRecord PROVE MarkChaseFailed(l) \in LeadRecord
  BY <1>4 DEF MarkChaseFailed, Fail
<1>5. ASSUME NEW l \in LeadRecord PROVE RecordReview(l, "approved") \in LeadRecord
  BY <1>5 DEF RecordReview
<1>6. ASSUME NEW l \in LeadRecord, NEW r \in Replies PROVE AcceptReply(l, r) \in LeadRecord
  BY <1>6 DEF AcceptReply
<1> QED
  BY <1>1, <1>2, <1>3, <1>4, <1>5, <1>6

\* Whatever is saved, the rows are a Lead, and so is whatever mixture of states the selects
\* of a load see.
LEMMA RowTypes ==
  ASSUME db \in LeadRecord, NEW l \in LeadRecord
  PROVE  Saved(l) \in LeadRecord /\ \A tables : SelectFrom(db, l, tables) \in LeadRecord
<1>1. Saved(l) \in LeadRecord
  BY SMTT(60) DEF Saved, SavedOver, LeadRecord
<1>2. ASSUME NEW tables PROVE SelectFrom(db, l, tables) \in LeadRecord
  BY DEF SelectFrom, LeadRecord, Statuses, Outcomes, Finals, Deliveries
<1> QED
  BY <1>1, <1>2

LEMMA AnswerTyped ==
  ASSUME requests \subseteq Requests, db \in LeadRecord, NEW r \in requests, NEW status \in Nat,
         Answer(r, status)
  PROVE  requests' \subseteq Requests
BY LeadTypes DEF Answer, Becomes, Requests

LEMMA SaveTyped ==
  ASSUME requests \subseteq Requests, db \in LeadRecord, NEW r \in requests, NEW l \in LeadRecord,
         SaveAndAnswer(r, l)
  PROVE  requests' \subseteq Requests /\ db' \in LeadRecord
BY RowTypes, AnswerTyped DEF SaveAndAnswer

\* Only Inbound Emails are forwarded; a decision is made of replies to the Chase; and a
\* request that is loading has a select to run.
Forwarded ==
  \A r \in requests :
    /\ IsInboundEmail(r.message)
    /\ r.place = "decide" => Mail(r.message).to = "chase"
    /\ r.place = "load" => r.todo # {}

LEMMA BecomesForwarded ==
  ASSUME Forwarded, NEW r \in requests, NEW q, Becomes(r, q), q.message = r.message,
         q.place = "decide" => Mail(r.message).to = "chase",
         q.place = "load" => q.todo # {}
  PROVE  Forwarded'
BY DEF Forwarded, Becomes

LEMMA AnswerForwarded ==
  ASSUME Forwarded, requests \subseteq Requests, NEW r \in requests, NEW status, Answer(r, status)
  PROVE  Forwarded'
<1> DEFINE q == [r EXCEPT !.place = "answered", !.todo = {}, !.lead = Submitted, !.status = status]
<1>1. q.message = r.message /\ q.place = "answered" /\ Becomes(r, q)
  BY DEF Answer, Requests
<1> HIDE DEF q
<1> QED
  BY <1>1, BecomesForwarded

\* What a load leaves of a request: it has selected from some tables.
LEMMA LoadingOn ==
  ASSUME TypeOK, Forwarded, NEW r \in requests, Load(r)
  PROVE  \E q \in Requests : \E tables :
           /\ Becomes(r, q)
           /\ q.message = r.message /\ q.attempt = r.attempt
           /\ q.lead = SelectFrom(db, r.lead, tables)
           /\ \/ q.place = "decide"
              \/ q.place = "load" /\ q.todo # {} /\ q.todo \subseteq r.todo /\ q.todo # r.todo
           /\ AtomicLoad => q.place = "decide" /\ tables = r.todo
<1>1. r \in Requests /\ db \in LeadRecord /\ r.place = "load"
  BY DEF TypeOK, Requests, Load
<1>2. PICK tables \in IF AtomicLoad THEN {r.todo} ELSE {{t} : t \in r.todo} :
        Becomes(r, [r EXCEPT !.place = IF tables = r.todo THEN "decide" ELSE "load",
                             !.todo = @ \ tables,
                             !.lead = SelectFrom(db, @, tables)])
  BY DEF Load
<1> DEFINE q == [r EXCEPT !.place = IF tables = r.todo THEN "decide" ELSE "load",
                          !.todo = @ \ tables,
                          !.lead = SelectFrom(db, @, tables)]
<1>3. r.todo \subseteq Tables /\ SelectFrom(db, r.lead, tables) \in LeadRecord
  BY <1>1, RowTypes DEF Requests
<1>4. /\ q.message = r.message /\ q.attempt = r.attempt /\ q.todo = r.todo \ tables
      /\ q.place = IF tables = r.todo THEN "decide" ELSE "load"
      /\ q.lead = SelectFrom(db, r.lead, tables)
      /\ q \in Requests
  BY <1>1, <1>3 DEF Requests
<1>5. \/ tables = r.todo
      \/ r.todo \ tables # {} /\ r.todo \ tables # r.todo
  BY <1>2
<1>6. AtomicLoad => tables = r.todo
  BY <1>2
<1>7. Becomes(r, q)
  BY <1>2
<1> HIDE DEF q
<1> QED
  BY <1>1, <1>4, <1>5, <1>6, <1>7

TInv == TypeOK /\ Forwarded

LEMMA TypeStep == TInv /\ [Next]_vars => TInv'
<1> SUFFICES ASSUME TInv, [Next]_vars PROVE TInv'
  OBVIOUS
<1>0. TypeOK /\ Forwarded /\ requests \subseteq Requests /\ db \in LeadRecord
      /\ MaxAttempts \in Nat
  BY InboundAssumption DEF TInv, TypeOK, Requests
<1>1. ASSUME NEW m \in Messages, DropInvalid(m) PROVE TInv'
  BY <1>0, <1>1 DEF DropInvalid, Attempt, TypeOK, Forwarded, TInv
<1>2. ASSUME NEW m \in Messages, Forward(m) PROVE TInv'
  <2>1. attempts[m] + 1 \in 1 .. MaxAttempts
    BY <1>0, <1>2 DEF Forward, Attempt, TypeOK
  <2>2. [message |-> m, attempt |-> attempts[m] + 1, place |-> "load", todo |-> Tables,
         lead |-> Submitted, status |-> 0] \in Requests
    BY <1>0, <2>1, LeadTypes DEF Requests
  <2>3. requests' \subseteq Requests
    BY <1>0, <1>2, <2>2 DEF Forward
  <2>4. TypeOK'
    BY <1>0, <1>2, <2>1, <2>3 DEF Forward, Attempt, TypeOK, Requests
  <2>5. Forwarded'
    BY <1>0, <1>2 DEF Forward, Forwarded, Tables
  <2> QED
    BY <2>4, <2>5 DEF TInv
<1>3. ASSUME NEW m \in Messages, GiveUp(m) PROVE TInv'
  BY <1>0, <1>3 DEF GiveUp, TypeOK, Forwarded, TInv
<1>4. ASSUME NEW m \in Messages, WorkerFails(m) PROVE TInv'
  BY <1>0, <1>4 DEF WorkerFails, Fault, TypeOK, Forwarded, TInv
<1>5. ASSUME NEW r \in requests, Load(r) PROVE TInv'
  <2>1. PICK q \in Requests :
          /\ Becomes(r, q) /\ q.message = r.message
          /\ q.place = "decide" \/ (q.place = "load" /\ q.todo # {})
    BY <1>0, <1>5, LoadingOn
  <2>2. requests' \subseteq Requests
    BY <1>0, <2>1 DEF Becomes
  <2>3. Forwarded'
    BY <1>0, <1>5, <2>1, BecomesForwarded DEF Load
  <2> QED
    BY <1>0, <1>5, <2>2, <2>3 DEF Load, TypeOK, TInv, Requests
<1>14. ASSUME NEW r \in requests, NotFound(r) PROVE TInv'
  <2>1. requests' \subseteq Requests /\ Forwarded'
    BY <1>0, <1>14, AnswerTyped, AnswerForwarded DEF NotFound
  <2> QED
    BY <1>0, <1>14, <2>1 DEF NotFound, TypeOK, TInv, Requests
<1>6. ASSUME NEW r \in requests, Accept(r) PROVE TInv'
  <2>1. AcceptReply(r.lead, Reply(r.message)) \in LeadRecord
    BY <1>0, ReplyIsGenuine, LeadTypes DEF Forwarded, Requests
  <2>2. requests' \subseteq Requests /\ db' \in LeadRecord
    BY <1>0, <1>6, <2>1, SaveTyped DEF Accept
  <2>3. Forwarded'
    BY <1>0, <1>6, AnswerForwarded DEF Accept, SaveAndAnswer
  <2> QED
    BY <1>0, <1>6, <2>2, <2>3 DEF Accept, TypeOK, TInv, Requests
<1>7. ASSUME NEW r \in requests, Redelivered(r) PROVE TInv'
  <2>1. requests' \subseteq Requests
    BY <1>0, <1>7, AnswerTyped DEF Redelivered
  <2>2. Forwarded'
    BY <1>0, <1>7, AnswerForwarded DEF Redelivered
  <2> QED
    BY <1>0, <1>7, <2>1, <2>2 DEF Redelivered, TypeOK, TInv, Requests
<1>8. ASSUME NEW r \in requests, Refuse(r) PROVE TInv'
  <2>1. requests' \subseteq Requests /\ db' \in LeadRecord
    BY <1>0, <1>8, SaveTyped DEF Refuse, Requests
  <2>2. Forwarded'
    BY <1>0, <1>8, AnswerForwarded DEF Refuse, SaveAndAnswer
  <2>3. tooEarly' \subseteq Messages
    BY <1>0, <1>8 DEF Refuse, TypeOK
  <2> QED
    BY <1>0, <1>8, <2>1, <2>2, <2>3 DEF Refuse, TypeOK, TInv, Requests
<1>9. ASSUME NEW r \in requests, RequestFails(r) PROVE TInv'
  <2>1. requests' \subseteq Requests
    BY <1>0, <1>9, AnswerTyped DEF RequestFails
  <2>2. Forwarded'
    BY <1>0, <1>9, AnswerForwarded DEF RequestFails
  <2> QED
    BY <1>0, <1>9, <2>1, <2>2 DEF RequestFails, Fault, TypeOK, TInv, Requests
<1>10. ASSUME NEW r \in requests, Network(r) PROVE TInv'
  <2>1. requests' = requests \ {r} /\ db' = db
    BY <1>10 DEF Network, AnswerArrives, AnswerIsLate
  <2>2. session' \in [Messages -> 0..MaxAttempts]
        /\ sender' \in [Messages -> {"unsent", "queued", "done", "bounced"}]
    BY <1>0, <1>10 DEF Network, AnswerArrives, AnswerIsLate, TypeOK
  <2> QED
    BY <1>0, <1>10, <2>1, <2>2 DEF Network, AnswerArrives, AnswerIsLate, TypeOK, Forwarded, TInv
<1>11. ASSUME ChaseSent \/ Reviewed PROVE TInv'
  BY <1>0, <1>11, LeadTypes, RowTypes DEF ChaseSent, Reviewed, Pipeline, TypeOK, Forwarded, TInv
<1>12. ASSUME ChaseCallFails PROVE TInv'
  BY <1>0, <1>12, LeadTypes, RowTypes DEF ChaseCallFails, Fault, TypeOK, Forwarded, TInv
<1>13. ASSUME UNCHANGED vars PROVE TInv'
  BY <1>0, <1>13 DEF vars, TypeOK, Forwarded, TInv
<1> QED
  BY <1>1, <1>2, <1>3, <1>4, <1>5, <1>6, <1>7, <1>8, <1>9, <1>10, <1>11, <1>12, <1>13, <1>14
     DEF Next, Worker, Intake

LEMMA TypeInit == Init => TInv
<1> SUFFICES ASSUME Init PROVE TInv
  OBVIOUS
<1>1. db \in LeadRecord
  BY DEF Init, Chasing, Submitted, LeadRecord, Statuses, Outcomes, Finals, Deliveries
<1> QED
  BY <1>1, LeadTypes, InboundAssumption DEF Init, TypeOK, Forwarded, TInv

\* Whatever is sent, delivered and lost, the variables keep their types (InboundEmail).
THEOREM InboundTypes == Spec => []TypeOK
<1>1. Spec => []TInv
  BY TypeInit, TypeStep, PTL DEF Spec
<1> QED
  BY <1>1, PTL DEF TInv

------------------------------------------------------------------------------
(* Only a genuine reply is recorded, whatever the loads see.                *)

\* A copy may be torn, but whatever reply is in it has been the Lead's.
IsGenuineReply(reply) ==
  reply # NoReply => \E m \in Messages : Genuine(m) /\ reply.messageId = MessageId(m)
GenuineInv ==
  IsGenuineReply(db.reply) /\ \A r \in requests : IsGenuineReply(r.lead.reply)

LEMMA AnswerKeepsTheMessage ==
  ASSUME requests \subseteq Requests, NEW r \in requests, NEW status, Answer(r, status)
  PROVE  \A q \in requests' :
           \/ q \in requests
           \/ /\ q.message = r.message /\ q.attempt = r.attempt /\ q.place = "answered"
              /\ q.lead = Submitted /\ q.status = status
BY DEF Answer, Becomes, Requests

\* A verdict says of the message what Genuine says.
LEMMA VerdictOfTheCopy ==
  ASSUME TInv, NEW r \in requests, r.place = "decide"
  PROVE  /\ r \in Requests /\ r.message \in Messages /\ r.lead \in LeadRecord
         /\ ReplyVerdict(r.lead, Reply(r.message)) = "accepted" =>
              /\ Genuine(r.message) /\ Reply(r.message) \in Replies
              /\ r.lead.reply = NoReply
         /\ ReplyVerdict(r.lead, Reply(r.message)) = "duplicate" => r.lead.reply # NoReply
         /\ /\ ReplyVerdict(r.lead, Reply(r.message)) \notin {"accepted", "duplicate"}
            /\ Genuine(r.message)
            => r.lead.chase # "sent" \/ r.lead.reply # NoReply
<1>1. r \in Requests
  BY DEF TInv, TypeOK, Requests
<1>2. r.message \in Messages /\ r.lead \in LeadRecord
  BY <1>1 DEF Requests
<1>3. IsInboundEmail(r.message) /\ Mail(r.message).to = "chase"
  BY DEF TInv, Forwarded
<1>4. /\ Reply(r.message) \in Replies
      /\ Genuine(r.message) <=> /\ Reply(r.message).dmarc = "pass"
                                /\ Reply(r.message).fromBorrower
                                /\ Reply(r.message).attachments
  BY <1>2, <1>3, ReplyIsGenuine
<1> QED
  BY <1>1, <1>2, <1>4 DEF ReplyVerdict

\* What the save of l leaves of a reply on record.
LEMMA SavedReply ==
  ASSUME NEW l
  PROVE  /\ Saved(l).version = l.version + 1
         /\ Saved(l).reply = IF l.chaseId = 0 THEN db.reply ELSE l.reply
BY DEF Saved, SavedOver

\* The pipeline keeps the reply.
LEMMA PipelineKeepsReply ==
  ASSUME TInv, ChaseSent \/ ChaseCallFails \/ Reviewed
  PROVE  /\ db'.version = db.version + 1 /\ db'.reply = db.reply
         /\ requests' = requests /\ tooEarly' = tooEarly
<1>1. db \in LeadRecord
  BY DEF TInv, TypeOK
<1>2. /\ MarkChaseSent(db).reply = db.reply /\ MarkChaseSent(db).version = db.version
      /\ MarkChaseFailed(db).reply = db.reply /\ MarkChaseFailed(db).version = db.version
      /\ RecordReview(db, "approved").reply = db.reply
      /\ RecordReview(db, "approved").version = db.version
  BY <1>1 DEF MarkChaseSent, MarkChaseFailed, Fail, RecordReview, LeadRecord
<1> QED
  BY <1>2, SavedReply DEF ChaseSent, ChaseCallFails, Reviewed, Pipeline

LEMMA GenuineStep == TInv /\ GenuineInv /\ [Next]_vars => GenuineInv'
<1> SUFFICES ASSUME TInv, GenuineInv, [Next]_vars PROVE GenuineInv'
  OBVIOUS
<1>0. requests \subseteq Requests /\ db \in LeadRecord /\ Submitted.reply = NoReply
  BY DEF TInv, TypeOK, Requests, Submitted
<1>1. ASSUME NEW reply \in {db.reply} \union {r.lead.reply : r \in requests} \union {NoReply}
      PROVE  IsGenuineReply(reply)
  BY <1>1 DEF GenuineInv, IsGenuineReply
<1>2. ASSUME NEW r \in requests, NEW status, Answer(r, status)
      PROVE  \A q \in requests' : IsGenuineReply(q.lead.reply)
  BY <1>0, <1>1, <1>2, AnswerKeepsTheMessage
<1>3. ASSUME db' = db, \A q \in requests' : q \in requests \/ q.lead = Submitted
      PROVE  GenuineInv'
  <2>1. IsGenuineReply(db'.reply) /\ \A q \in requests' : IsGenuineReply(q.lead.reply)
    BY <1>0, <1>1, <1>3
  <2> QED
    BY <2>1 DEF GenuineInv, IsGenuineReply
<1>4. ASSUME NEW m \in Messages, Worker(m) \/ WorkerFails(m) PROVE GenuineInv'
  BY <1>3, <1>4 DEF Worker, DropInvalid, Forward, GiveUp, WorkerFails
<1>5. ASSUME NEW r \in requests, Network(r) PROVE GenuineInv'
  BY <1>3, <1>5 DEF Network, AnswerArrives, AnswerIsLate
<1>6. ASSUME NEW r \in requests, NotFound(r) \/ Redelivered(r) \/ RequestFails(r)
      PROVE  GenuineInv'
  <2>1. db' = db /\ \E status : Answer(r, status)
    BY <1>6 DEF NotFound, Redelivered, RequestFails
  <2> QED
    BY <1>0, <1>3, <2>1, AnswerKeepsTheMessage
<1>7. ASSUME NEW r \in requests, Load(r) PROVE GenuineInv'
  <2>1. PICK q, tables : Becomes(r, q) /\ q.lead = SelectFrom(db, r.lead, tables)
    BY <1>7, LoadingOn DEF TInv
  <2>2. q.lead.reply \in {db.reply, r.lead.reply}
    BY <2>1 DEF SelectFrom
  <2>3. \A p \in requests' : IsGenuineReply(p.lead.reply)
    BY <1>1, <2>1, <2>2 DEF Becomes
  <2>4. IsGenuineReply(db'.reply)
    BY <1>1, <1>7 DEF Load
  <2> QED
    BY <2>3, <2>4 DEF GenuineInv, IsGenuineReply
<1>8. ASSUME NEW r \in requests, NEW l, SaveAndAnswer(r, l), IsGenuineReply(l.reply)
      PROVE  GenuineInv'
  <2>1. \A q \in requests' : IsGenuineReply(q.lead.reply)
    BY <1>2, <1>8 DEF SaveAndAnswer
  <2>2. db'.reply \in {db.reply, l.reply}
    BY <1>8, SavedReply DEF SaveAndAnswer
  <2>3. IsGenuineReply(db'.reply)
    BY <1>1, <1>8, <2>2
  <2> QED
    BY <2>1, <2>3 DEF GenuineInv, IsGenuineReply
<1>9. ASSUME NEW r \in requests, Accept(r) PROVE GenuineInv'
  <2>1. Genuine(r.message) /\ r.message \in Messages /\ r.lead \in LeadRecord
    BY <1>9, VerdictOfTheCopy DEF Accept
  <2>2. AcceptReply(r.lead, Reply(r.message)).reply = Reply(r.message)
    BY <2>1 DEF AcceptReply, LeadRecord
  <2>3. Reply(r.message).messageId = MessageId(r.message)
    BY DEF Reply
  <2> HIDE DEF Reply
  <2>4. IsGenuineReply(Reply(r.message))
    BY <2>1, <2>3 DEF IsGenuineReply
  <2> QED
    BY <1>8, <1>9, <2>2, <2>4 DEF Accept
<1>10. ASSUME NEW r \in requests, Refuse(r) PROVE GenuineInv'
  BY <1>1, <1>8, <1>10 DEF Refuse
<1>11. ASSUME ChaseSent \/ ChaseCallFails \/ Reviewed PROVE GenuineInv'
  BY <1>11, PipelineKeepsReply DEF GenuineInv, IsGenuineReply
<1>12. ASSUME UNCHANGED vars PROVE GenuineInv'
  BY <1>3, <1>12 DEF vars
<1> QED
  BY <1>4, <1>5, <1>6, <1>7, <1>9, <1>10, <1>11, <1>12 DEF Next, Intake

\* The reply on record is genuine, whatever headers senders write, however their emails
\* and the retries of them race in intake, and whatever its loads see.
THEOREM InboundAcceptedIsGenuine == Spec => []AcceptedIsGenuine
<1>1. Init => GenuineInv
  BY DEF Init, GenuineInv, IsGenuineReply, Chasing, Submitted
<1>2. GenuineInv => AcceptedIsGenuine
  BY DEF GenuineInv, IsGenuineReply, AcceptedIsGenuine
<1> QED
  BY <1>1, <1>2, TypeInit, TypeStep, GenuineStep, PTL DEF Spec

------------------------------------------------------------------------------
(* It is recorded once, and none is lost, as long as no load is torn.       *)

Untorn == \A r \in requests' \ requests : r.place = "decide" => ~ Torn(db, r.lead)

\* The copy a decision is made of is the Lead, or some rows of it are older; a reply it
\* has, the Lead has.
CopiesAreOlder ==
  \A r \in requests :
    /\ r.lead.version <= db.version
    /\ r.place = "decide" /\ r.lead.version = db.version => r.lead = db
    /\ r.lead.reply # NoReply => db.reply = r.lead.reply

\* What makes the Worker take an email from the sender's hands is no genuine reply lost.
OnRecord(r) ==
  ~ IsTemporary(r.status) /\ Genuine(r.message) /\ r.message \notin tooEarly
    => db.reply # NoReply
TakenOverIsRecorded == \A r \in requests : r.place = "answered" => OnRecord(r)

ReplyInv == db.chaseId # 0 /\ NothingIsLost /\ CopiesAreOlder /\ TakenOverIsRecorded

\* What a step may do to the Lead,
DbStep ==
  \/ db' = db
  \/ /\ db'.version = db.version + 1
     /\ db'.reply = db.reply \/ db.reply = NoReply

\* and to the requests under way.
RequestStep ==
  /\ tooEarly \subseteq tooEarly'
  /\ \A q \in requests' :
       \/ q \in requests
       \/ q.place = "load" /\ q.lead = Submitted /\ db' = db
       \/ /\ q.place \in {"load", "decide"} /\ db' = db
          /\ \E r \in requests : \E tables : q.lead = SelectFrom(db, r.lead, tables)
       \/ q.place = "answered" /\ q.lead = Submitted /\ OnRecord(q)'

LEMMA LoadStep ==
  ASSUME TInv, NEW r \in requests, Load(r)
  PROVE  DbStep /\ RequestStep
<1>1. PICK q, tables :
        /\ Becomes(r, q) /\ q.lead = SelectFrom(db, r.lead, tables)
        /\ q.place \in {"load", "decide"}
  BY LoadingOn DEF TInv
<1> QED
  BY <1>1 DEF Load, Becomes, DbStep, RequestStep

LEMMA NotFoundStep ==
  ASSUME TInv, NEW r \in requests, NotFound(r)
  PROVE  DbStep /\ RequestStep
<1>1. requests \subseteq Requests /\ db' = db /\ tooEarly' = tooEarly
  BY DEF TInv, TypeOK, Requests, NotFound
<1>2. ~ Genuine(r.message)
  BY DEF Genuine, NotFound
<1> QED
  BY <1>1, <1>2, AnswerKeepsTheMessage DEF NotFound, DbStep, RequestStep, OnRecord

\* A save that is refused is answered 500.
LEMMA ConflictStep ==
  ASSUME TInv, NEW r \in requests, UNCHANGED db, Answer(r, 500), tooEarly \subseteq tooEarly'
  PROVE  DbStep /\ RequestStep
<1>1. requests \subseteq Requests
  BY DEF TInv, TypeOK, Requests
<1> QED
  BY <1>1, AnswerKeepsTheMessage DEF DbStep, RequestStep, OnRecord, IsTemporary

LEMMA AcceptStep ==
  ASSUME TInv, ReplyInv, NEW r \in requests, Accept(r)
  PROVE  DbStep /\ RequestStep
<1> DEFINE reply == Reply(r.message)
           l == AcceptReply(r.lead, reply)
<1>1. /\ r \in Requests /\ r.lead \in LeadRecord /\ r.message \in Messages
      /\ requests \subseteq Requests /\ tooEarly' = tooEarly
      /\ Genuine(r.message) /\ reply \in Replies /\ r.lead.reply = NoReply
  BY VerdictOfTheCopy DEF TInv, TypeOK, Requests, Accept
<1>2. CASE r.lead.version = db.version /\ db' = Saved(l) /\ Answer(r, 202)
  <2>1. r.lead = db
    BY <1>2 DEF ReplyInv, CopiesAreOlder, Accept
  <2>2. l.version = db.version /\ l.chaseId = db.chaseId /\ l.reply = reply
    BY <1>1, <2>1 DEF AcceptReply, LeadRecord
  <2>3. db'.version = db.version + 1 /\ db'.reply = IF db.chaseId = 0 THEN NoReply ELSE reply
    BY <1>1, <1>2, <2>1, <2>2, SavedReply
  <2>4. reply # NoReply
    BY <1>1, NoReplyAssumption
  <2>5. db.chaseId # 0
    BY DEF ReplyInv
  <2>6. RequestStep
    BY <1>1, <1>2, <2>3, <2>4, <2>5, AnswerKeepsTheMessage DEF RequestStep, OnRecord
  <2> QED
    BY <1>1, <2>1, <2>3, <2>6 DEF DbStep
<1>3. CASE UNCHANGED db /\ Answer(r, 500)
  BY <1>1, <1>3, ConflictStep
<1> QED
  BY <1>2, <1>3 DEF Accept, SaveAndAnswer

LEMMA RedeliveredStep ==
  ASSUME TInv, ReplyInv, NEW r \in requests, Redelivered(r)
  PROVE  DbStep /\ RequestStep
<1>1. /\ r \in Requests /\ requests \subseteq Requests
      /\ db' = db /\ tooEarly' = tooEarly /\ r.lead.reply # NoReply
  BY VerdictOfTheCopy DEF TInv, TypeOK, Requests, Redelivered
<1>2. db.reply # NoReply
  BY <1>1 DEF ReplyInv, CopiesAreOlder
<1> QED
  BY <1>1, <1>2, AnswerKeepsTheMessage DEF Redelivered, DbStep, RequestStep, OnRecord

LEMMA RefuseStep ==
  ASSUME TInv, ReplyInv, NEW r \in requests, Refuse(r)
  PROVE  DbStep /\ RequestStep
<1>1. /\ r \in Requests /\ r.lead \in LeadRecord /\ requests \subseteq Requests
      /\ tooEarly \subseteq tooEarly'
      /\ Genuine(r.message) => r.lead.chase # "sent" \/ r.lead.reply # NoReply
  BY VerdictOfTheCopy DEF TInv, TypeOK, Requests, Refuse
<1>2. CASE r.lead.version = db.version /\ db' = Saved(r.lead) /\ Answer(r, 202)
  <2>1. r.lead = db
    BY <1>2 DEF ReplyInv, CopiesAreOlder, Refuse
  <2>2. db'.version = db.version + 1 /\ db'.reply = db.reply
    BY <1>2, <2>1, SavedReply
  <2>3. Genuine(r.message) /\ r.message \notin tooEarly' => db'.reply # NoReply
    BY <1>1, <1>2, <2>1, <2>2 DEF Refuse
  <2>4. RequestStep
    BY <1>1, <1>2, <2>3, AnswerKeepsTheMessage DEF RequestStep, OnRecord
  <2> QED
    BY <2>2, <2>4 DEF DbStep
<1>3. CASE UNCHANGED db /\ Answer(r, 500)
  BY <1>1, <1>3, ConflictStep
<1> QED
  BY <1>2, <1>3 DEF Refuse, SaveAndAnswer

LEMMA FailureStep ==
  ASSUME TInv, NEW r \in requests, RequestFails(r)
  PROVE  DbStep /\ RequestStep
<1>1. requests \subseteq Requests /\ db' = db /\ tooEarly' = tooEarly
  BY DEF TInv, TypeOK, Requests, RequestFails
<1>2. PICK status \in {401, 404, 429, 503} : Answer(r, status)
  BY DEF RequestFails
<1>3. IsTemporary(status)
  BY <1>2 DEF IsTemporary
<1> QED
  BY <1>1, <1>2, <1>3, AnswerKeepsTheMessage DEF DbStep, RequestStep, OnRecord

\* So these two cover every step.
LEMMA EveryStep ==
  ASSUME TInv, ReplyInv, [Next]_vars
  PROVE  DbStep /\ RequestStep
<1>1. ASSUME NEW m \in Messages, DropInvalid(m) \/ GiveUp(m) \/ WorkerFails(m)
      PROVE  DbStep /\ RequestStep
  BY <1>1 DEF DropInvalid, GiveUp, WorkerFails, DbStep, RequestStep
<1>2. ASSUME NEW m \in Messages, Forward(m) PROVE DbStep /\ RequestStep
  BY <1>2 DEF Forward, DbStep, RequestStep
<1>3. ASSUME NEW r \in requests, Network(r) PROVE DbStep /\ RequestStep
  BY <1>3 DEF Network, AnswerArrives, AnswerIsLate, DbStep, RequestStep
<1>4. ASSUME NEW r \in requests, Intake(r) \/ RequestFails(r) PROVE DbStep /\ RequestStep
  BY <1>4, NotFoundStep, LoadStep, AcceptStep, RedeliveredStep, RefuseStep, FailureStep
     DEF Intake
<1>5. ASSUME ChaseSent \/ ChaseCallFails \/ Reviewed PROVE DbStep /\ RequestStep
  BY <1>5, PipelineKeepsReply DEF DbStep, RequestStep
<1>6. ASSUME UNCHANGED vars PROVE DbStep /\ RequestStep
  BY <1>6 DEF vars, DbStep, RequestStep
<1> QED
  BY <1>1, <1>2, <1>3, <1>4, <1>5, <1>6 DEF Next, Worker

\* The sender is rid of a parseable email by an answer that is final only.
LEMMA Taken ==
  ASSUME TInv, [Next]_vars, NEW m \in Messages, Genuine(m), sender[m] # "done", sender'[m] = "done"
  PROVE  \E r \in requests : AnswerArrives(r) /\ r.message = m /\ ~ IsTemporary(r.status)
<1>0. sender \in [Messages -> {"unsent", "queued", "done", "bounced"}]
  BY DEF TInv, TypeOK
<1>1. ASSUME NEW n \in Messages, DropInvalid(n) PROVE FALSE
  BY <1>0, <1>1 DEF DropInvalid, Genuine
<1>2. ASSUME NEW n \in Messages, GiveUp(n) PROVE FALSE
  BY <1>0, <1>2 DEF GiveUp
<1>3. ASSUME NEW r \in requests, AnswerArrives(r)
      PROVE  r.message = m /\ ~ IsTemporary(r.status)
  BY <1>0, <1>3 DEF AnswerArrives
<1>4. sender' # sender
  OBVIOUS
<1> QED
  BY <1>1, <1>2, <1>3, <1>4
     DEF Next, Worker, Intake, Network, Forward, WorkerFails, NotFound, Load, Accept, Redelivered,
         Refuse, RequestFails, AnswerIsLate, ChaseSent, ChaseCallFails, Reviewed, Pipeline, vars

LEMMA ChaseStays ==
  ASSUME db.chaseId # 0, [Next]_vars
  PROVE  db'.chaseId # 0
<1>1. db' = db \/ \E l : db' = Saved(l)
  BY DEF Next, Worker, Intake, Network, DropInvalid, Forward, GiveUp, WorkerFails, NotFound,
         Load, Accept, Redelivered, Refuse, SaveAndAnswer, RequestFails, AnswerArrives,
         AnswerIsLate, ChaseSent, ChaseCallFails, Reviewed, Pipeline, vars
<1>2. \A l : Saved(l).chaseId = IF l.chaseId = 0 THEN db.chaseId ELSE l.chaseId
  BY DEF Saved, SavedOver
<1> QED
  BY <1>1, <1>2

LEMMA ReplyKept ==
  ASSUME DbStep
  PROVE  db.reply # NoReply => db'.reply = db.reply
BY DEF DbStep

LEMMA ReplyStep == TInv /\ TInv' /\ ReplyInv /\ [Next]_vars /\ [Untorn]_vars => ReplyInv'
<1> SUFFICES ASSUME TInv, TInv', ReplyInv, [Next]_vars, [Untorn]_vars PROVE ReplyInv'
  OBVIOUS
<1>1. DbStep /\ RequestStep
  BY EveryStep
<1>2. db.version \in Nat /\ \A r \in requests : r.lead.version \in Nat
  BY DEF TInv, TypeOK, LeadRecord
<1>3. db'.chaseId # 0
  BY ChaseStays DEF ReplyInv
<1>4. CopiesAreOlder'
  <2> SUFFICES ASSUME NEW q \in requests'
               PROVE  /\ q.lead.version <= db'.version
                      /\ q.place = "decide" /\ q.lead.version = db'.version => q.lead = db'
                      /\ q.lead.reply # NoReply => db'.reply = q.lead.reply
    BY DEF CopiesAreOlder
  <2>1. CASE q \in requests
    <3>1. /\ q.lead.version <= db.version /\ q.lead.version \in Nat
          /\ q.place = "decide" /\ q.lead.version = db.version => q.lead = db
          /\ q.lead.reply # NoReply => db'.reply = q.lead.reply
      BY <1>1, <1>2, <2>1, ReplyKept DEF ReplyInv, CopiesAreOlder
    <3>2. db' = db \/ db'.version = db.version + 1
      BY <1>1 DEF DbStep
    <3> QED
      BY <1>2, <3>1, <3>2
  <2>2. CASE q \notin requests /\ q.lead = Submitted /\ q.place # "decide"
    <3>1. db'.version \in Nat
      BY DEF TInv, TypeOK, LeadRecord
    <3> QED
      BY <2>2, <3>1 DEF Submitted
  <2>3. ASSUME q \notin requests, db' = db, q.place \in {"load", "decide"},
               NEW r \in requests, NEW tables, q.lead = SelectFrom(db, r.lead, tables)
        PROVE  /\ q.lead.version <= db.version
               /\ q.place = "decide" /\ q.lead.version = db.version => q.lead = db
               /\ q.lead.reply # NoReply => db.reply = q.lead.reply
    <3>1. r.lead.version <= db.version /\ (r.lead.reply # NoReply => db.reply = r.lead.reply)
      BY DEF ReplyInv, CopiesAreOlder
    <3>2. q.lead.version \in {db.version, r.lead.version} /\ q.lead.reply \in {db.reply, r.lead.reply}
      BY <2>3 DEF SelectFrom
    <3>3. requests' # requests
      BY <2>3
    <3>4. q.place = "decide" => ~ Torn(db, q.lead)
      BY <2>3, <3>3 DEF Untorn, vars
    <3> QED
      BY <1>2, <3>1, <3>2, <3>4 DEF Torn
  <2> QED
    BY <1>1, <2>1, <2>2, <2>3 DEF RequestStep
<1>5. ASSUME NEW q \in requests, OnRecord(q) PROVE OnRecord(q)'
  BY <1>1, <1>5, ReplyKept DEF OnRecord, RequestStep
<1>6. TakenOverIsRecorded'
  <2> SUFFICES ASSUME NEW q \in requests', q.place = "answered" PROVE OnRecord(q)'
    BY DEF TakenOverIsRecorded
  <2> QED
    BY <1>1, <1>5 DEF RequestStep, ReplyInv, TakenOverIsRecorded
<1>7. NothingIsLost'
  <2> SUFFICES ASSUME NEW m \in Messages, Genuine(m), sender'[m] = "done", m \notin tooEarly'
               PROVE  db'.reply # NoReply
    BY DEF NothingIsLost
  <2>1. CASE sender[m] = "done"
    BY <1>1, <2>1, ReplyKept DEF RequestStep, ReplyInv, NothingIsLost
  <2>2. CASE sender[m] # "done"
    <3>1. PICK r \in requests : AnswerArrives(r) /\ r.message = m /\ ~ IsTemporary(r.status)
      BY <2>2, Taken
    <3>2. OnRecord(r)
      BY <3>1 DEF AnswerArrives, ReplyInv, TakenOverIsRecorded
    <3> QED
      BY <1>1, <3>1, <3>2, ReplyKept DEF OnRecord, RequestStep
  <2> QED
    BY <2>1, <2>2
<1> QED
  BY <1>3, <1>4, <1>6, <1>7 DEF ReplyInv

LEMMA ReplyInit == Init => ReplyInv
BY DEF Init, ReplyInv, NothingIsLost, CopiesAreOlder, TakenOverIsRecorded, Chasing, Submitted

LEMMA ReplyInvariant == Spec /\ NoLoadIsTorn => [](TInv /\ ReplyInv)
<1>1. Init => TInv /\ ReplyInv
  BY TypeInit, ReplyInit
<1>2. TInv /\ ReplyInv /\ [Next]_vars /\ [Untorn]_vars => (TInv /\ ReplyInv)'
  BY TypeStep, ReplyStep
<1>3. NoLoadIsTorn => [][Untorn]_vars
  BY PTL DEF NoLoadIsTorn, Untorn
<1> QED
  BY <1>1, <1>2, <1>3, PTL DEF Spec

\* As long as no load is torn: an email is taken from the sender's hands only if it is no
\* genuine reply, or came before intake knew of the Chase, or a reply is on record, whatever
\* fails, times out or conflicts.
THEOREM InboundNothingIsLost == Spec /\ NoLoadIsTorn => []NothingIsLost
<1>1. ReplyInv => NothingIsLost
  BY DEF ReplyInv
<1> QED
  BY <1>1, ReplyInvariant, PTL

\* As long as no load is torn: no save, on however old a copy it was decided, replaces the
\* reply on record or takes it back.
THEOREM InboundFirstReplyStays == Spec /\ NoLoadIsTorn => FirstReplyStays
<1>1. TInv /\ ReplyInv /\ [Next]_vars => [db.reply # NoReply => db'.reply = db.reply]_vars
  BY EveryStep, ReplyKept
<1> QED
  BY <1>1, ReplyInvariant, PTL DEF Spec, FirstReplyStays

\* A request that loads has all its selects to run, when they are to see one state.
AllTablesLeft == \A r \in requests : r.place = "load" => r.todo = Tables

LEMMA TablesStep ==
  ASSUME AtomicLoad, TInv, AllTablesLeft, [Next]_vars
  PROVE  AllTablesLeft' /\ Untorn
<1>0. requests \subseteq Requests /\ db \in LeadRecord
  BY DEF TInv, TypeOK, Requests
<1>1. ASSUME \A q \in requests' : q \in requests \/ q.place = "answered"
                                \/ (q.place = "load" /\ q.todo = Tables)
      PROVE  AllTablesLeft' /\ Untorn
  BY <1>1 DEF AllTablesLeft, Untorn
<1>2. ASSUME NEW r \in requests, NEW status, Answer(r, status) PROVE AllTablesLeft' /\ Untorn
  BY <1>0, <1>1, <1>2, AnswerKeepsTheMessage
<1>3. ASSUME NEW m \in Messages, Worker(m) \/ WorkerFails(m) PROVE AllTablesLeft' /\ Untorn
  BY <1>1, <1>3 DEF Worker, DropInvalid, Forward, GiveUp, WorkerFails
<1>4. ASSUME NEW r \in requests, Load(r) PROVE AllTablesLeft' /\ Untorn
  <2>1. PICK q, tables : /\ Becomes(r, q) /\ q.lead = SelectFrom(db, r.lead, tables)
                         /\ q.place = "decide" /\ tables = r.todo
    BY <1>4, LoadingOn DEF TInv
  <2>2. tables = Tables
    BY <1>4, <2>1 DEF AllTablesLeft, Load
  <2>3. q.lead = db
    BY <1>0, <2>1, <2>2 DEF SelectFrom, Tables, LeadRecord
  <2> QED
    BY <2>1, <2>3 DEF Becomes, AllTablesLeft, Untorn, Torn
<1>5. ASSUME NEW r \in requests,
             NotFound(r) \/ Accept(r) \/ Redelivered(r) \/ Refuse(r) \/ RequestFails(r)
      PROVE  AllTablesLeft' /\ Untorn
  BY <1>2, <1>5 DEF NotFound, Accept, Redelivered, Refuse, SaveAndAnswer, RequestFails
<1>6. ASSUME NEW r \in requests, Network(r) PROVE AllTablesLeft' /\ Untorn
  BY <1>1, <1>6 DEF Network, AnswerArrives, AnswerIsLate
<1>7. ASSUME ChaseSent \/ ChaseCallFails \/ Reviewed PROVE AllTablesLeft' /\ Untorn
  BY <1>1, <1>7 DEF ChaseSent, ChaseCallFails, Reviewed, Pipeline
<1>8. ASSUME UNCHANGED vars PROVE AllTablesLeft' /\ Untorn
  BY <1>1, <1>8 DEF vars
<1> QED
  BY <1>3, <1>4, <1>5, <1>6, <1>7, <1>8 DEF Next, Intake

\* When the four selects of every load see one state of the database, as in the runs, no
\* load is torn.
THEOREM InboundAtomicLoads == ASSUME AtomicLoad PROVE Spec => NoLoadIsTorn
<1>1. Init => AllTablesLeft
  BY DEF Init, AllTablesLeft
<1>2. TInv /\ AllTablesLeft /\ [Next]_vars => AllTablesLeft' /\ [Untorn]_vars
  BY TablesStep
<1>3. [][Untorn]_vars => NoLoadIsTorn
  BY PTL DEF NoLoadIsTorn, Untorn
<1> QED
  BY <1>1, <1>2, <1>3, TypeInit, TypeStep, PTL DEF Spec

------------------------------------------------------------------------------
(* None is stuck: whoever waits is served, and what serves goes on.         *)

Order == [load |-> 0, decide |-> 1, answered |-> 2]

\* The Worker that waits, waits for the request of its own attempt, and an attempt has one
\* request at most: no answer is taken for that of another attempt, or twice.
EachIsServed ==
  /\ \A m \in Messages : session[m] # 0 =>
       /\ sender[m] = "queued" /\ session[m] = attempts[m]
       /\ \E r \in requests : r.message = m /\ r.attempt = session[m]
  /\ \A r \in requests : r.attempt <= attempts[r.message]
  /\ \A r, q \in requests : r.message = q.message /\ r.attempt = q.attempt => r = q

\* A request has come nearer to its answer: on to a later place, or by a select of its load.
Nearer(r, q) ==
  \/ Order[r.place] < Order[q.place]
  \/ r.place = q.place /\ q.todo \subseteq r.todo /\ q.todo # r.todo

\* Each step is one of the sender's next attempts, or brings a request nearer to its answer;
\* and an email the sender is rid of stays so.
GoesOn ==
  /\ \A m \in Messages :
       /\ attempts'[m] \in {attempts[m], attempts[m] + 1}
       /\ sender[m] # "queued" => sender'[m] = sender[m] /\ attempts'[m] = attempts[m]
  /\ \A q \in requests' :
       \/ q \in requests
       \/ q.attempt = attempts'[q.message] /\ attempts[q.message] < q.attempt
       \/ \E r \in requests \ requests' :
            /\ q.message = r.message /\ q.attempt = r.attempt
            /\ Nearer(r, q)

\* An email is with its sender, or one request of its latest attempt works on it and has
\* something to do.
NoEmailSticks ==
  \A m \in Messages : sender[m] = "queued" /\ session[m] # 0 =>
    \E r \in requests :
      r.message = m /\ Hears(r) /\ (r.place = "load" => r.todo # {})

\* It is with its sender, or on its way, or the documents are on record, were too early, or
\* the borrower has it back.
NoEmailIsForgotten ==
  \A m \in Messages : Genuine(m) =>
    \/ sender[m] = "unsent"
    \/ sender[m] = "queued" /\ (session[m] = 0 \/ \E r \in requests : r.message = m /\ Hears(r))
    \/ sender[m] = "bounced"
    \/ sender[m] = "done" /\ (db.reply # NoReply \/ m \in tooEarly)

\* What intake does to a request brings it nearer to its answer.
Handles(r) ==
  /\ \E q : /\ requests' = (requests \ {r}) \union {q}
            /\ q.message = r.message /\ q.attempt = r.attempt
            /\ Nearer(r, q)
  /\ UNCHANGED <<sender, attempts, session>>

LEMMA AnswerHandles ==
  ASSUME TypeOK, NEW r \in requests, r.place # "answered", NEW status, Answer(r, status),
         UNCHANGED <<sender, attempts, session>>
  PROVE  Handles(r)
<1> DEFINE q == [r EXCEPT !.place = "answered", !.todo = {}, !.lead = Submitted, !.status = status]
<1>1. requests' = (requests \ {r}) \union {q}
  BY DEF Answer, Becomes
<1>2. q.message = r.message /\ q.attempt = r.attempt /\ q.place = "answered"
      /\ r.place \in {"load", "decide"}
  BY DEF TypeOK
<1> HIDE DEF q
<1>3. Nearer(r, q)
  BY <1>2 DEF Nearer, Order
<1> QED
  BY <1>1, <1>2, <1>3 DEF Handles

LEMMA IntakeHandles ==
  ASSUME TInv, NEW r \in requests, Intake(r) \/ RequestFails(r)
  PROVE  Handles(r)
<1>0. TypeOK
  BY DEF TInv
<1>1. CASE Load(r)
  <2>1. PICK q :
          /\ Becomes(r, q) /\ q.message = r.message /\ q.attempt = r.attempt
          /\ \/ q.place = "decide"
             \/ q.place = "load" /\ q.todo \subseteq r.todo /\ q.todo # r.todo
    BY <1>1, LoadingOn DEF TInv
  <2>2. Nearer(r, q)
    BY <1>1, <2>1 DEF Load, Nearer, Order
  <2> QED
    BY <1>1, <2>1, <2>2 DEF Load, Becomes, Handles
<1>2. CASE Accept(r) \/ Refuse(r)
  BY <1>0, <1>2, AnswerHandles DEF Accept, Refuse, SaveAndAnswer
<1>3. CASE Redelivered(r) \/ NotFound(r)
  BY <1>0, <1>3, AnswerHandles DEF Redelivered, NotFound
<1>4. CASE RequestFails(r)
  BY <1>0, <1>4, AnswerHandles DEF RequestFails
<1> QED
  BY <1>1, <1>2, <1>3, <1>4 DEF Intake

LEMMA HandlingServes ==
  ASSUME TInv, EachIsServed, NEW r \in requests, Handles(r)
  PROVE  EachIsServed' /\ GoesOn
<1>1. PICK q : /\ requests' = (requests \ {r}) \union {q}
               /\ q.message = r.message /\ q.attempt = r.attempt
               /\ Nearer(r, q)
  BY DEF Handles
<1>2. UNCHANGED <<sender, attempts, session>> /\ r \notin requests'
  <2>1. r.place \in {"load", "decide", "answered"}
    BY DEF TInv, TypeOK
  <2>2. q # r
    BY <1>1, <2>1 DEF Nearer, Order
  <2> QED
    BY <1>1, <2>2 DEF Handles
<1>3. attempts \in [Messages -> Nat] /\ r.message \in Messages
  BY InboundAssumption DEF TInv, TypeOK
<1>4. GoesOn
  BY <1>1, <1>2, <1>3 DEF GoesOn
<1>5. EachIsServed'
  <2>1. ASSUME NEW m \in Messages, session'[m] # 0
        PROVE  /\ sender'[m] = "queued" /\ session'[m] = attempts'[m]
               /\ \E p \in requests' : p.message = m /\ p.attempt = session'[m]
    BY <1>1, <1>2, <2>1 DEF EachIsServed
  <2>2. \A p \in requests' : p.attempt <= attempts'[p.message]
    BY <1>1, <1>2 DEF EachIsServed
  <2>3. \A p, s \in requests' : p.message = s.message /\ p.attempt = s.attempt => p = s
    BY <1>1 DEF EachIsServed
  <2> QED
    BY <2>1, <2>2, <2>3 DEF EachIsServed
<1> QED
  BY <1>4, <1>5

LEMMA ServedStep ==
  ASSUME TInv, EachIsServed, [Next]_vars
  PROVE  EachIsServed' /\ GoesOn
<1>0. /\ attempts \in [Messages -> 0..MaxAttempts] /\ session \in [Messages -> 0..MaxAttempts]
      /\ sender \in [Messages -> {"unsent", "queued", "done", "bounced"}]
      /\ \A r \in requests : r.message \in Messages /\ r.attempt \in Nat
      /\ MaxAttempts \in Nat
  BY InboundAssumption DEF TInv, TypeOK
<1>1. ASSUME UNCHANGED <<sender, attempts, session, requests>> PROVE EachIsServed' /\ GoesOn
  BY <1>0, <1>1 DEF EachIsServed, GoesOn
<1>2. ASSUME NEW m \in Messages, DropInvalid(m) PROVE EachIsServed' /\ GoesOn
  BY <1>0, <1>2 DEF DropInvalid, Attempt, EachIsServed, GoesOn
<1>3. ASSUME NEW m \in Messages, Forward(m) PROVE EachIsServed' /\ GoesOn
  <2> DEFINE new == [message |-> m, attempt |-> attempts[m] + 1, place |-> "load",
                     todo |-> Tables, lead |-> Submitted, status |-> 0]
  <2>1. /\ sender[m] = "queued" /\ session[m] = 0 /\ UNCHANGED sender
        /\ attempts' = [attempts EXCEPT ![m] = @ + 1]
        /\ session' = [session EXCEPT ![m] = attempts[m] + 1]
        /\ requests' = requests \union {new}
    BY <1>3 DEF Forward, Attempt
  <2>2. new.message = m /\ new.attempt = attempts[m] + 1
    OBVIOUS
  <2> HIDE DEF new
  <2>3. /\ attempts'[m] = attempts[m] + 1 /\ session'[m] = attempts[m] + 1
        /\ \A n \in Messages \ {m} : attempts'[n] = attempts[n] /\ session'[n] = session[n]
    BY <1>0, <2>1
  <2>4. GoesOn
    BY <1>0, <2>1, <2>2, <2>3 DEF GoesOn
  <2>5. ASSUME NEW n \in Messages, session'[n] # 0
        PROVE  /\ sender'[n] = "queued" /\ session'[n] = attempts'[n]
               /\ \E p \in requests' : p.message = n /\ p.attempt = session'[n]
    BY <2>1, <2>2, <2>3, <2>5 DEF EachIsServed
  <2>6. \A p \in requests' : p.attempt <= attempts'[p.message]
    BY <1>0, <2>1, <2>2, <2>3 DEF EachIsServed
  <2>7. \A p \in requests : ~ (p.message = m /\ p.attempt = attempts[m] + 1)
    BY <1>0 DEF EachIsServed
  <2>8. \A p, s \in requests' : p.message = s.message /\ p.attempt = s.attempt => p = s
    BY <2>1, <2>2, <2>7 DEF EachIsServed
  <2> QED
    BY <2>4, <2>5, <2>6, <2>8 DEF EachIsServed
<1>4. ASSUME NEW m \in Messages, GiveUp(m) PROVE EachIsServed' /\ GoesOn
  BY <1>0, <1>4 DEF GiveUp, EachIsServed, GoesOn
<1>5. ASSUME NEW m \in Messages, WorkerFails(m) PROVE EachIsServed' /\ GoesOn
  BY <1>0, <1>5 DEF WorkerFails, EachIsServed, GoesOn
<1>6. ASSUME NEW r \in requests, Intake(r) \/ RequestFails(r) PROVE EachIsServed' /\ GoesOn
  BY <1>6, IntakeHandles, HandlingServes DEF TInv
<1>7. ASSUME NEW r \in requests, AnswerArrives(r) PROVE EachIsServed' /\ GoesOn
  <2>1. /\ session[r.message] = r.attempt /\ session[r.message] # 0
        /\ requests' = requests \ {r} /\ UNCHANGED attempts
        /\ session' = [session EXCEPT ![r.message] = 0]
        /\ \A m \in Messages \ {r.message} : sender'[m] = sender[m]
        /\ sender[r.message] = "queued"
    <3>1. r.attempt # 0
      BY DEF TInv, TypeOK
    <3> QED
      BY <1>0, <1>7, <3>1 DEF AnswerArrives, Hears, EachIsServed
  <2>2. ASSUME NEW m \in Messages, session'[m] # 0
        PROVE  /\ sender'[m] = "queued" /\ session'[m] = attempts'[m]
               /\ \E p \in requests' : p.message = m /\ p.attempt = session'[m]
    BY <1>0, <2>1, <2>2 DEF EachIsServed
  <2>3. GoesOn
    BY <1>0, <2>1 DEF GoesOn
  <2> QED
    BY <2>1, <2>2, <2>3 DEF EachIsServed
<1>8. ASSUME NEW r \in requests, AnswerIsLate(r) PROVE EachIsServed' /\ GoesOn
  BY <1>0, <1>8 DEF AnswerIsLate, Hears, EachIsServed, GoesOn
<1>9. ASSUME ChaseSent \/ ChaseCallFails \/ Reviewed PROVE EachIsServed' /\ GoesOn
  BY <1>1, <1>9 DEF ChaseSent, ChaseCallFails, Reviewed, Pipeline
<1>10. ASSUME UNCHANGED vars PROVE EachIsServed' /\ GoesOn
  BY <1>1, <1>10 DEF vars
<1> QED
  BY <1>2, <1>3, <1>4, <1>5, <1>6, <1>7, <1>8, <1>9, <1>10 DEF Next, Worker, Network

\* No email is stuck between its sender and the record, whatever fails, times out or comes
\* late: its sender has an attempt or the bounce left, or a request works on it and only
\* goes on (handler.ts, intake-client.ts).
THEOREM NoneIsStuck == Spec => []NoEmailSticks /\ [][GoesOn]_vars
<1>1. Init => EachIsServed
  <2> SUFFICES ASSUME Init PROVE EachIsServed
    OBVIOUS
  <2> QED
    BY DEF Init, EachIsServed
<1>2. TInv /\ EachIsServed /\ [Next]_vars => EachIsServed' /\ [GoesOn]_vars
  BY ServedStep
<1>3. TInv /\ EachIsServed => NoEmailSticks
  BY DEF TInv, Forwarded, EachIsServed, NoEmailSticks, Hears
<1>4. Spec => [](TInv /\ EachIsServed)
  BY <1>1, <1>2, TypeInit, TypeStep, PTL DEF Spec
<1> QED
  BY <1>2, <1>3, <1>4, PTL DEF Spec

\* As long as no load is torn, no genuine email is forgotten: it is in its sender's hands,
\* or worked on, or settled.
THEOREM NoneIsForgotten == Spec /\ NoLoadIsTorn => []NoEmailIsForgotten
<1>1. ASSUME TInv, ReplyInv, NoEmailSticks PROVE NoEmailIsForgotten
  <2>1. sender \in [Messages -> {"unsent", "queued", "done", "bounced"}]
    BY <1>1 DEF TInv, TypeOK
  <2>2. ASSUME NEW m \in Messages, Genuine(m), sender[m] = "done"
        PROVE  db.reply # NoReply \/ m \in tooEarly
    BY <1>1, <2>2 DEF ReplyInv, NothingIsLost
  <2> QED
    BY <1>1, <2>1, <2>2 DEF NoEmailIsForgotten, NoEmailSticks
<1> QED
  BY <1>1, NoneIsStuck, ReplyInvariant, PTL
==============================================================================
