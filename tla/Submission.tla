----------------------------- MODULE Submission ------------------------------
(***************************************************************************)
(* POST /v1/leads: which submissions become Leads and which are answered   *)
(* with an earlier one (ADR-0007).  A handler is one request; requests run *)
(* concurrently and interleave at every await of submitLead                *)
(* (lead-use-cases.ts).  Of the transaction that stores a Lead two steps   *)
(* are kept, the check for an Open Lead and the insert; an advisory lock on*)
(* the email keeps other submissions out from one to the other.            *)
(*                                                                         *)
(* The pipeline that runs on a Lead (LeadPipeline) is reduced to the stages*)
(* this part of the code looks at.  An email stands for all its spellings: *)
(* the code compares lower-cased addresses throughout.                     *)
(***************************************************************************)
EXTENDS Naturals, Sequences

CONSTANTS Handlers,    \* requests intake can be serving at one time
          Emails, Answers, \* what requests carry
          Stored,      \* answers -> what the leads row keeps of them: amounts are
                       \* numeric(12,2), a fraction of a cent is rounded away
          Keys, NoKey,     \* Idempotency-Key headers; none sent
          Window,      \* DUPLICATE_WINDOW_MS, in ticks of the clock
          MaxRequests, \* bound: submissions received in all
          MaxClock     \* bound: ticks

ASSUME SubmissionAssumption ==
  /\ Window \in Nat /\ MaxRequests \in Nat /\ MaxClock \in Nat /\ NoKey \notin Keys
  /\ Stored \in [Answers -> Answers] /\ \A a \in Answers : Stored[Stored[a]] = Stored[a]

VARIABLES
  leads,     \* the Leads, in the order they were inserted
  clock,
  pc,        \* handler -> where it is
  input,     \* handler -> the submission it serves
  recent,    \* handler -> recent Leads of the email it has still to load
  repeated,  \* handler -> the Lead that has the same answers, or 0
  refusal,   \* handler -> what the insert threw
  answer,    \* handler -> what its latest request was answered
  requests

vars == <<leads, clock, pc, input, recent, repeated, refusal, answer, requests>>

\* undecided: no final outcome yet, also when a step failed or documents are
\* outstanding; settled: approved or rejected, the notice still to be sent;
\* notice_failed: sending it failed, status failed; told: it was sent.
Stages == {"undecided", "settled", "notice_failed", "told"}
Places == {"idle", "byKey", "recent", "match", "insert", "write", "refused"}
Submissions == [email : Emails, answers : Answers, key : Keys \union {NoKey}]
LeadRows ==
  [email : Emails, answers : Answers, key : Keys \union {NoKey},
   createdAt : Nat, stage : Stages]
Refusals == {"none", "application_in_progress", "duplicate_submission"}
Answered == [lead : Nat, error : Refusals \union {"idempotency_key_reused", "interrupted"}]

NoAnswer == [lead |-> 0, error |-> "none"]
LeadAnswer(i) == [lead |-> i, error |-> "none"]
ErrorAnswer(e) == [lead |-> 0, error |-> e]

TypeOK ==
  /\ leads \in Seq(LeadRows)
  /\ clock \in Nat /\ requests \in Nat
  /\ pc \in [Handlers -> Places]
  /\ input \in [Handlers -> Submissions]
  /\ recent \in [Handlers -> SUBSET Nat]
  /\ repeated \in [Handlers -> Nat]
  /\ refusal \in [Handlers -> Refusals]
  /\ answer \in [Handlers -> Answered]

Init ==
  /\ leads = << >>
  /\ clock = 1 /\ requests = 0
  /\ pc = [h \in Handlers |-> "idle"]
  /\ input \in [Handlers -> Submissions]   \* whatever: not read before Submit
  /\ recent = [h \in Handlers |-> {}]
  /\ repeated = [h \in Handlers |-> 0]
  /\ refusal = [h \in Handlers |-> "none"]
  /\ answer = [h \in Handlers |-> NoAnswer]

------------------------------------------------------------------------------
(* The Leads.                                                               *)

IsOpen(i) == leads[i].stage \in {"undecided", "notice_failed"}

\* The row is compared with the answers as the request carries them.
MatchesEmailOnly(i, s) == leads[i].email = s.email   \* mutant: the answers are not compared
MatchesSubmission(i, s) == leads[i].email = s.email /\ leads[i].answers = s.answers

\* The Lead first submitted with key k, or 0.
HasKey(i, k) == k # NoKey /\ leads[i].key = k
LeadOfKey(k) ==
  IF \E i \in DOMAIN leads : HasKey(i, k)
  THEN CHOOSE i \in DOMAIN leads : HasKey(i, k) ELSE 0

------------------------------------------------------------------------------
(* submitLead.                                                              *)

Goto(h, place) == pc' = [pc EXCEPT ![h] = place]

Reply(h, a) ==
  /\ Goto(h, "idle")
  /\ answer' = [answer EXCEPT ![h] = a]

Submit(h, s) ==
  /\ pc[h] = "idle" /\ requests < MaxRequests
  /\ requests' = requests + 1
  /\ input' = [input EXCEPT ![h] = s]
  /\ answer' = [answer EXCEPT ![h] = NoAnswer]
  /\ Goto(h, IF s.key = NoKey THEN "recent" ELSE "byKey")
  /\ UNCHANGED <<leads, clock, recent, repeated, refusal>>

\* submittedWithKey: the earlier Lead, or 422 when the answers differ.
AnswerWithKeysLead(h) ==
  LET i == LeadOfKey(input[h].key) IN
    Reply(h, IF MatchesSubmission(i, input[h]) THEN LeadAnswer(i)
             ELSE ErrorAnswer("idempotency_key_reused"))

FindByKey(h) ==
  /\ pc[h] = "byKey"
  /\ \/ LeadOfKey(input[h].key) # 0 /\ AnswerWithKeysLead(h)
     \/ LeadOfKey(input[h].key) = 0 /\ Goto(h, "recent") /\ UNCHANGED answer
  /\ UNCHANGED <<leads, clock, input, recent, repeated, refusal, requests>>

\* recentForEmail: the ids first ...
FindRecent(h) ==
  /\ pc[h] = "recent"
  /\ recent' = [recent EXCEPT ![h] =
       {i \in DOMAIN leads : leads[i].email = input[h].email
                             /\ leads[i].createdAt + Window >= clock}]
  /\ repeated' = [repeated EXCEPT ![h] = 0]
  /\ Goto(h, "match")
  /\ UNCHANGED <<leads, clock, input, refusal, answer, requests>>

\* ... then each Lead; the newest that repeats the answers and is settled counts.
LoadRecent(h, i) ==
  /\ pc[h] = "match" /\ i \in recent[h]
  /\ recent' = [recent EXCEPT ![h] = @ \ {i}]
  /\ repeated' = [repeated EXCEPT ![h] =
       IF ~ IsOpen(i) /\ MatchesSubmission(i, input[h]) /\ i > @ THEN i ELSE @]
  /\ UNCHANGED <<leads, clock, pc, input, refusal, answer, requests>>

MatchRecent(h) ==
  /\ pc[h] = "match" /\ recent[h] = {}
  /\ \/ repeated[h] # 0 /\ Reply(h, LeadAnswer(repeated[h]))
     \/ repeated[h] = 0 /\ Goto(h, "insert") /\ UNCHANGED answer
  /\ UNCHANGED <<leads, clock, input, recent, repeated, refusal, requests>>

NewLeadWithStatus(s) ==   \* mutant: the column's status, not one of the stages
  [email |-> s.email, answers |-> Stored[s.answers], key |-> s.key,
   createdAt |-> clock, stage |-> "submitted"]
NewLead(s) ==
  [email |-> s.email, answers |-> Stored[s.answers], key |-> s.key,
   createdAt |-> clock, stage |-> "undecided"]

HasOpen(e) == \E i \in DOMAIN leads : leads[i].email = e /\ IsOpen(i)

Refuse(h, error) ==
  /\ refusal' = [refusal EXCEPT ![h] = error]
  /\ Goto(h, "refused")
  /\ UNCHANGED <<leads, answer>>

\* pg_advisory_xact_lock: held by the transactions of this email until they end.
NoLock(h) == TRUE   \* mutant: transactions only, no lock
LockIsFree(h) ==
  ~ \E g \in Handlers \ {h} : pc[g] = "write" /\ input[g].email = input[h].email

\* save() of a new Lead: with the lock taken, no other Open Lead may be there.
CheckOpen(h) ==
  /\ pc[h] = "insert" /\ LockIsFree(h)
  /\ \/ HasOpen(input[h].email) /\ Refuse(h, "application_in_progress")
     \/ ~ HasOpen(input[h].email) /\ Goto(h, "write") /\ UNCHANGED <<leads, refusal, answer>>
  /\ UNCHANGED <<clock, input, recent, repeated, requests>>

\* The insert and the commit, then the Lead's pipeline.  The borrower may get no answer from
\* that: it lost a save to another handler (409), the process stopped, the network failed.
Inserted(h) ==
  /\ LeadOfKey(input[h].key) = 0
  /\ leads' = Append(leads, NewLead(input[h]))
  /\ Reply(h, LeadAnswer(Len(leads) + 1)) \/ Reply(h, ErrorAnswer("interrupted"))
  /\ UNCHANGED refusal

\* The unique index on the idempotency key.
InsertRefused(h) ==
  /\ LeadOfKey(input[h].key) # 0
  /\ Refuse(h, "duplicate_submission")

Insert(h) ==
  /\ pc[h] = "write"
  /\ Inserted(h) \/ InsertRefused(h)
  /\ UNCHANGED <<clock, input, recent, repeated, requests>>

RefusedWithoutLookup(h) ==   \* mutant: a lost race is not looked up again
  /\ pc[h] = "refused"
  /\ Reply(h, ErrorAnswer(refusal[h]))
  /\ UNCHANGED <<leads, clock, input, recent, repeated, refusal, requests>>

\* A concurrent retry of the same request won the race: answer with its Lead.
Refused(h) ==
  /\ pc[h] = "refused"
  /\ \/ LeadOfKey(input[h].key) # 0 /\ AnswerWithKeysLead(h)
     \/ LeadOfKey(input[h].key) = 0 /\ Reply(h, ErrorAnswer(refusal[h]))
  /\ UNCHANGED <<leads, clock, input, recent, repeated, refusal, requests>>

------------------------------------------------------------------------------
(* Meanwhile, the pipeline and the clock.                                   *)

Moves(i, stage) ==
  /\ leads' = [leads EXCEPT ![i] = [@ EXCEPT !.stage = stage]]
  /\ UNCHANGED <<clock, pc, input, recent, repeated, refusal, answer, requests>>

Settle(i) == leads[i].stage = "undecided" /\ Moves(i, "settled")
NoticeFails(i) == leads[i].stage = "settled" /\ Moves(i, "notice_failed")
NoticeSent(i) == leads[i].stage \in {"settled", "notice_failed"} /\ Moves(i, "told")

Tick ==
  /\ clock < MaxClock
  /\ clock' = clock + 1
  /\ UNCHANGED <<leads, pc, input, recent, repeated, refusal, answer, requests>>

Next ==
  \/ \E h \in Handlers :
       \/ \E s \in Submissions : Submit(h, s)
       \/ FindByKey(h) \/ FindRecent(h) \/ MatchRecent(h) \/ CheckOpen(h) \/ Insert(h)
       \/ Refused(h)
       \/ \E i \in recent[h] : LoadRecent(h, i)
  \/ \E i \in DOMAIN leads : Settle(i) \/ NoticeFails(i) \/ NoticeSent(i)
  \/ Tick

Spec == Init /\ [][Next]_vars

------------------------------------------------------------------------------

\* While a borrower's application is undecided no other of the same email is, however
\* many submissions race from the check to the insert (ADR-0007, rule 1).
OneUndecidedPerEmail ==
  \A i, j \in DOMAIN leads :
    /\ leads[i].email = leads[j].email
    /\ leads[i].stage = "undecided" /\ leads[j].stage = "undecided"
    => i = j

\* Whatever Lead a request is answered with, it is the borrower's own: same email, same
\* answers.  A key used again with other answers reveals nothing (submittedWithKey).
AnswerIsOwnLead ==
  \A h \in Handlers : answer[h].lead # 0 =>
    /\ answer[h].lead \in DOMAIN leads
    /\ leads[answer[h].lead].email = input[h].email
    /\ leads[answer[h].lead].answers = Stored[input[h].answers]

\* A request is refused as in progress, or as a duplicate, only when no Lead was submitted
\* with its key: a retry that lost the race is answered with the Lead of the winner.
RetryIsNeverRefused ==
  [][\A h \in Handlers :
       answer'[h] # answer[h] /\ answer'[h].error \in Refusals \ {"none"} =>
         LeadOfKey(input[h].key) = 0]_vars
==============================================================================
