-------------------------------- MODULE Quiz ---------------------------------
(***************************************************************************)
(* One borrower's quiz page (lead-quiz.tsx), the requests it sends, intake *)
(* answering them (Submission, step by step) and Figure deciding on the    *)
(* Leads they become (Underwriting).  The page may be opened anew at any   *)
(* time, and gives up a request whose answer the network loses; intake     *)
(* goes on with it all the same.                                           *)
(*                                                                         *)
(* Of the nine questions three are kept: the two amounts, which are typed, *)
(* parsed and reformatted, and the credit band, for everything that is a   *)
(* plain value.  The other six hold valid answers that do not change.      *)
(***************************************************************************)
EXTENDS Underwriting, Sequences, FiniteSets

CONSTANTS Handlers,     \* requests intake can be serving at one time
          Borrower,     \* the email address in the form
          Income,       \* the income band in the form
          Missing, NaN, \* parseMoney of an empty field and of one it cannot read
          Typed,        \* field -> what the borrower may type or choose
          Outcomes,     \* what the demo outcome may be set to
          NoOutcome,
          MaxEdits,     \* bound: changes to the form
          MaxRequests,  \* bound: submissions
          MaxPages      \* bound: times the page is opened

MoneyFields == {"estimated_home_value", "mortgage_balance"}
LeadFields == MoneyFields \union {"credit_band"}

MaxUsd == 100000000   \* the largest amount of a valid application

\* What a money field holds: the amount its text stands for, with separators or without.
RawMoney == [amount : Nat, formatted : BOOLEAN]
              \union [amount : {Missing, NaN}, formatted : {FALSE}]
ASSUME QuizAssumption ==
  /\ \A f \in MoneyFields : Typed[f] \subseteq RawMoney
  /\ Typed.credit_band \subseteq CreditBands \union {Missing}
  /\ Income \in IncomeBands /\ Outcomes \subseteq Statuses
  /\ MaxEdits \in Nat /\ MaxRequests \in Nat /\ MaxPages \in Nat

VARIABLES
  \* the page
  page,        \* how many times it was opened
  draft, errors, attempted, mockOutcome, submitting, formError,
  last,        \* what keyFor remembers: the answers last submitted and their key
  result,      \* the Lead whose result page it went to, or 0
  \* the network
  posted,      \* the submissions sent so far
  inFlight,    \* those that have not arrived
  waiting,     \* the one whose answer the page awaits, or 0
  \* intake
  serving,     \* handler -> the submission it serves
  leads, pc, input, recent, repeated, refusal, answer, requests, clock,
  decisions,   \* Lead -> what Figure decided on it
  edits

pageVars == <<page, draft, errors, attempted, mockOutcome, submitting, formError, last, result>>
intakeVars == <<leads, pc, input, recent, repeated, refusal, answer, requests, clock>>
vars == <<pageVars, posted, inFlight, waiting, serving, intakeVars, decisions, edits>>

------------------------------------------------------------------------------
(* The form.                                                                *)

ParseMoney(raw) == raw.amount
FormatAnyInput(raw) == [raw EXCEPT !.formatted = TRUE]   \* mutant: also what is no amount
FormatMoneyInput(raw) ==
  IF ParseMoney(raw) \in {Missing, NaN} THEN raw ELSE [raw EXCEPT !.formatted = TRUE]

EmptyMoney == [amount |-> Missing, formatted |-> FALSE]
EmptyDraft ==
  [estimated_home_value |-> EmptyMoney, mortgage_balance |-> EmptyMoney, credit_band |-> Missing]

IsEmpty(d, f) == IF f \in MoneyFields THEN ParseMoney(d[f]) = Missing ELSE d[f] = Missing

\* leadInputSchema looks at each field by itself.
ValidField(d, f) ==
  IF f \in MoneyFields
  THEN /\ ParseMoney(d[f]) \notin {Missing, NaN}
       /\ ParseMoney(d[f]) <= MaxUsd
       /\ f = "estimated_home_value" => ParseMoney(d[f]) > 0
  ELSE d[f] # Missing
ValidateLead(d) == {f \in LeadFields : ~ ValidField(d, f)}

LeadInput(d) ==
  [home |-> ParseMoney(d.estimated_home_value), mortgage |-> ParseMoney(d.mortgage_balance),
   credit |-> d.credit_band, income |-> Income]

\* What the page says of one field: errors is the set of fields with a message.
WithField(d, f) == IF ValidField(d, f) THEN errors \ {f} ELSE errors \union {f}

------------------------------------------------------------------------------
(* Idempotency keys.  A key is the number of the submission it was made for.*)

Keys == 1..MaxRequests
NoKey == 0
NothingSubmitted == [answers |-> << >>, key |-> NoKey]

KeyForAnything(answers) ==   \* mutant: the first key is kept
  IF last # NothingSubmitted THEN last ELSE [answers |-> answers, key |-> Len(posted) + 1]
KeyForNew(answers) ==   \* mutant: a new key for every submission
  [answers |-> answers, key |-> Len(posted) + 1]
KeyFor(answers) ==
  IF last.answers = answers THEN last ELSE [answers |-> answers, key |-> Len(posted) + 1]

------------------------------------------------------------------------------
(* Intake: the modules Submission and Underwriting.                         *)

S == INSTANCE Submission WITH
       Emails <- {Borrower}, Answers <- SoftPulls, Stored <- [a \in SoftPulls |-> a],
       Window <- 1, MaxClock <- 1

NoInput ==   \* of a handler that serves nothing yet
  [email |-> Borrower, answers |-> [home |-> 1, mortgage |-> 0, credit |-> 1, income |-> Income],
   key |-> NoKey]

Undecided == [forced |-> NoOutcome, pull |-> NoOutcome, review |-> NoOutcome]

------------------------------------------------------------------------------

Init ==
  /\ page = 1 /\ draft = EmptyDraft /\ errors = {} /\ attempted = FALSE
  /\ mockOutcome = NoOutcome /\ submitting = FALSE /\ formError = "none"
  /\ last = NothingSubmitted /\ result = 0
  /\ posted = << >> /\ inFlight = {} /\ waiting = 0
  /\ serving = [h \in Handlers |-> 0]
  /\ leads = << >> /\ clock = 1 /\ requests = 0
  /\ pc = [h \in Handlers |-> "idle"]
  /\ input = [h \in Handlers |-> NoInput]
  /\ recent = [h \in Handlers |-> {}]
  /\ repeated = [h \in Handlers |-> 0]
  /\ refusal = [h \in Handlers |-> "none"]
  /\ answer = [h \in Handlers |-> S!NoAnswer]
  /\ decisions = << >>
  /\ edits = 0

------------------------------------------------------------------------------
(* The borrower.  While a submission runs the fieldset and the demo outcome *)
(* are disabled; after it succeeded the page stays so until it is left.     *)

Editing == ~ submitting /\ result = 0
Edit == edits < MaxEdits /\ edits' = edits + 1

UpdateWith(f, v, judged) ==
  /\ Edit
  /\ draft' = [draft EXCEPT ![f] = v]
  /\ errors' = IF attempted \/ f \in errors THEN WithField(judged, f) ELSE errors
  /\ UNCHANGED <<page, attempted, mockOutcome, submitting, formError, last, result,
                 posted, inFlight, waiting, serving, intakeVars, decisions>>
UpdateLate(f, v) == Editing /\ UpdateWith(f, v, draft)   \* mutant: judges the old draft
UpdateEnabled(f, v) == UpdateWith(f, v, draft')          \* mutant: never disabled
Update(f, v) == Editing /\ UpdateWith(f, v, draft')

\* Leaving a field reformats an amount and shows what is wrong with what was entered.
Blur(f) ==
  /\ Editing
  /\ draft' = [draft EXCEPT ![f] = IF f \in MoneyFields THEN FormatMoneyInput(@) ELSE @]
  /\ errors' = IF ~ IsEmpty(draft', f) \/ attempted THEN WithField(draft', f) ELSE errors
  /\ UNCHANGED <<page, attempted, mockOutcome, submitting, formError, last, result,
                 posted, inFlight, waiting, serving, intakeVars, decisions, edits>>

ChooseOutcome(o) ==
  /\ Editing /\ Edit
  /\ mockOutcome' = o
  /\ UNCHANGED <<page, draft, errors, attempted, submitting, formError, last, result,
                 posted, inFlight, waiting, serving, intakeVars, decisions>>

SubmitInvalid ==
  /\ Editing /\ ValidateLead(draft) # {}
  /\ attempted' = TRUE /\ formError' = "none"
  /\ errors' = ValidateLead(draft)
  /\ UNCHANGED <<page, draft, mockOutcome, submitting, last, result,
                 posted, inFlight, waiting, serving, intakeVars, decisions, edits>>

SubmitValid ==
  /\ Editing /\ ValidateLead(draft) = {}
  /\ Len(posted) < MaxRequests
  /\ attempted' = TRUE /\ formError' = "none" /\ submitting' = TRUE
  /\ last' = KeyFor(<<LeadInput(draft), mockOutcome>>)
  /\ posted' = Append(posted, [answers |-> LeadInput(draft), mock |-> mockOutcome,
                               key |-> last'.key, page |-> page])
  /\ inFlight' = inFlight \union {Len(posted')}
  /\ waiting' = Len(posted')
  /\ UNCHANGED <<page, draft, errors, mockOutcome, result, serving, intakeVars, decisions, edits>>

\* A reload, the way back from the result page, another visit: a fresh component.
OpenPage ==
  /\ page < MaxPages
  /\ page' = page + 1
  /\ draft' = EmptyDraft /\ errors' = {} /\ attempted' = FALSE
  /\ mockOutcome' = NoOutcome /\ submitting' = FALSE /\ formError' = "none"
  /\ last' = NothingSubmitted /\ result' = 0 /\ waiting' = 0
  /\ UNCHANGED <<posted, inFlight, serving, intakeVars, decisions, edits>>

------------------------------------------------------------------------------
(* The network.  A submission may arrive late, or never.                    *)

Arrive(h, n) ==
  /\ n \in inFlight
  /\ S!Submit(h, [email |-> Borrower, answers |-> posted[n].answers, key |-> posted[n].key])
  /\ serving' = [serving EXCEPT ![h] = n]
  /\ inFlight' = inFlight \ {n}
  /\ UNCHANGED <<pageVars, posted, waiting, decisions, edits>>

\* Any error but the open application is 'Please try again'.  A 400 does not occur: intake
\* parses with the schema whose output it is sent.
Shown(error) == IF error = "application_in_progress" THEN "in_progress" ELSE "try_again"

SettleForm(h) ==
  \/ answer[h].lead # 0 /\ result' = answer[h].lead /\ UNCHANGED <<submitting, formError>>
  \/ /\ answer[h].lead = 0
     /\ submitting' = FALSE /\ formError' = Shown(answer[h].error) /\ UNCHANGED result

Hear(h) ==
  /\ waiting # 0 /\ serving[h] = waiting /\ pc[h] = "idle"
  /\ waiting' = 0
  /\ SettleForm(h)
  /\ UNCHANGED <<page, draft, errors, attempted, mockOutcome, last,
                 posted, inFlight, serving, intakeVars, decisions, edits>>

\* fetch throws: no connection, or the answer was lost.
NetworkError ==
  /\ waiting # 0
  /\ waiting' = 0 /\ submitting' = FALSE /\ formError' = "try_again"
  /\ UNCHANGED <<page, draft, errors, attempted, mockOutcome, last, result,
                 posted, inFlight, serving, intakeVars, decisions, edits>>

------------------------------------------------------------------------------
(* Intake and Figure.                                                       *)

Inserting(h) ==
  /\ S!Insert(h)
  /\ decisions' = IF leads' # leads THEN Append(decisions, Undecided) ELSE decisions
Intake(h) ==
  /\ \/ Inserting(h)
     \/ /\ \/ S!FindByKey(h) \/ S!FindRecent(h) \/ S!MatchRecent(h) \/ S!CheckOpen(h)
           \/ S!Refused(h) \/ \E i \in recent[h] : S!LoadRecent(h, i)
        /\ UNCHANGED decisions
  /\ UNCHANGED <<pageVars, posted, inFlight, waiting, serving, edits>>

\* The outcome chosen for a Lead's submission reaches Figure with that submission's own
\* request; after a failure the Lead goes on by Replay, which carries none.
ForcedOutcomes(i) ==
  {posted[n].mock : n \in {m \in DOMAIN posted : posted[m].key = leads[i].key}} \union {NoOutcome}

RunSoftPull(pull, forced) == IF forced = NoOutcome THEN Evaluate(pull) ELSE Forced(pull, forced)

SoftPull(i) ==
  /\ decisions[i].pull = NoOutcome
  /\ \E forced \in ForcedOutcomes(i) :
       decisions' = [decisions EXCEPT ![i] =
         [forced |-> forced, pull |-> RunSoftPull(leads[i].answers, forced), review |-> NoOutcome]]
  /\ IF decisions'[i].pull.status = "need-more-documents"
     THEN UNCHANGED intakeVars ELSE S!Settle(i)
  /\ UNCHANGED <<pageVars, posted, inFlight, waiting, serving, edits>>

Review(i) ==
  /\ decisions[i].pull # NoOutcome /\ decisions[i].pull.status = "need-more-documents"
  /\ S!Settle(i)
  /\ decisions' = [decisions EXCEPT ![i] =
       [@ EXCEPT !.review = ReviewDocuments(leads[i].answers)]]
  /\ UNCHANGED <<pageVars, posted, inFlight, waiting, serving, edits>>

Notice(i) ==
  /\ S!NoticeFails(i) \/ S!NoticeSent(i)
  /\ UNCHANGED <<pageVars, posted, inFlight, waiting, serving, decisions, edits>>

Next ==
  \/ \E f \in LeadFields : Blur(f) \/ \E v \in Typed[f] : Update(f, v)
  \/ \E o \in Outcomes \union {NoOutcome} : ChooseOutcome(o)
  \/ SubmitInvalid \/ SubmitValid \/ OpenPage \/ NetworkError
  \/ \E n \in inFlight, h \in Handlers : Arrive(h, n)
  \/ \E h \in Handlers : Hear(h) \/ Intake(h)
  \/ \E i \in DOMAIN leads : SoftPull(i) \/ Review(i) \/ Notice(i)

Spec == Init /\ [][Next]_vars

------------------------------------------------------------------------------

TypeOK ==
  /\ page \in Nat /\ edits \in 0..MaxEdits
  /\ \A f \in MoneyFields : draft[f] \in RawMoney
  /\ draft.credit_band \in CreditBands \union {Missing}
  /\ errors \subseteq LeadFields /\ attempted \in BOOLEAN /\ submitting \in BOOLEAN
  /\ mockOutcome \in Outcomes \union {NoOutcome}
  /\ formError \in {"none", "in_progress", "try_again"}
  /\ last.key \in Keys \union {NoKey}
  /\ result \in 0..Len(leads) /\ waiting \in 0..Len(posted)
  /\ inFlight \subseteq DOMAIN posted
  /\ serving \in [Handlers -> 0..Len(posted)]
  /\ Len(decisions) = Len(leads)
  /\ S!TypeOK

\* The messages at the fields are about what the fields hold now, however typing, leaving a
\* field, reformatting and submitting follow each other (update and blur judge the next
\* draft); once the borrower has tried to submit, no message is missing.
ErrorsAreCurrent ==
  /\ errors \subseteq ValidateLead(draft)
  /\ attempted => errors = ValidateLead(draft)

\* The quiz never sends a key again with other answers, so no borrower meets intake's 422
\* (submission-key.ts against submittedWithKey, whose Lead is what the database kept).
KeysAreNotReused == \A h \in Handlers : answer[h].error # "idempotency_key_reused"

\* The result page a borrower is sent to is that of the answers in the form, although the
\* answer belongs to an earlier moment, and perhaps to an earlier submission.
ResultIsOfTheForm == result # 0 => leads[result].answers = LeadInput(draft)

\* One attempt: submissions of one page with unchanged answers, with no others in between.
SameAttempt(m, n) ==
  \A k \in DOMAIN posted :
    (m <= k /\ k <= n) \/ (n <= k /\ k <= m) =>
      /\ posted[k].page = posted[m].page
      /\ posted[k].answers = posted[m].answers /\ posted[k].mock = posted[m].mock

\* A borrower who only tries again is never told that another application is in progress:
\* the application is the one of the first try, whose answer was lost.
RetryFindsItsLead ==
  [][\A h \in Handlers :
       answer'[h] # answer[h]
         /\ answer'[h].error \in {"application_in_progress", "duplicate_submission"} =>
       ~ \E i \in DOMAIN leads, n \in DOMAIN posted :
           leads[i].key = posted[n].key /\ SameAttempt(n, serving[h])]_vars

\* The preview and the underwriter agree (money.ts: "per the same rule underwriting uses"):
\* without a demo outcome, "not enough equity" is shown to exactly those whom the rules
\* reject for it, and a line offered is within the published limits and the equity previewed.
PreviewIsKept ==
  \A i \in DOMAIN leads :
    LET equity == PreviewedEquity(leads[i].answers.home, leads[i].answers.mortgage)
        pull == decisions[i].pull IN
      pull # NoOutcome /\ decisions[i].forced = NoOutcome =>
        /\ Enough(equity) <=> pull.reason # "insufficient_home_equity"
        /\ pull.status = "approved" =>
             /\ HelocLimits.minLine <= pull.amount /\ pull.amount <= HelocLimits.maxLine
             /\ 100 * pull.amount <= equity

\* Who was asked for documents by the rules, and sent them, is approved, within the equity:
\* "the submitted documents satisfy the verification request" (soft-pull-policy.ts).  After
\* a forced request the review may still reject, but offers no more than the equity either.
ReviewKeepsThePromise ==
  \A i \in DOMAIN leads :
    LET review == decisions[i].review IN
      review # NoOutcome =>
        /\ decisions[i].forced = NoOutcome => review.status = "approved"
        /\ review.status = "approved" => 100 * review.amount <= AvailableEquity(leads[i].answers)
==============================================================================
