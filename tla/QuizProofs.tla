----------------------------- MODULE QuizProofs ------------------------------
(***************************************************************************)
(* Theorems about the quiz, for every form, number of pages, submissions   *)
(* and handlers: its messages, its keys, its retries, and what Figure      *)
(* makes of the Leads it leads to; and the types of all of it.             *)
(***************************************************************************)
EXTENDS Quiz, TLAPS, SequenceTheorems

------------------------------------------------------------------------------
(* The underwriting rules and their preview, for every valid application.  *)

LEMMA SoftPullFields ==
  ASSUME NEW p \in SoftPulls
  PROVE  /\ p.home \in Int /\ p.mortgage \in Int
         /\ p.credit \in Int /\ p.income \in IncomeBands
BY SMT DEF SoftPulls, CreditBands

LEMMA EquityIsInt == ASSUME NEW p \in SoftPulls PROVE AvailableEquity(p) \in Int
BY SoftPullFields, SMT DEF AvailableEquity, MaxCombinedLtv

LEMMA IncomeCapRange ==
  ASSUME NEW i \in IncomeBands
  PROVE  IncomeCap[i] \in Int /\ MinLine <= IncomeCap[i] /\ IncomeCap[i] <= MaxLine
BY SMT DEF IncomeBands, IncomeCap, MinLine, MaxLine

LEMMA RoundedDown ==
  ASSUME NEW c \in Int
  PROVE  /\ (c \div 500000) * 5000 \in Int
         /\ 100 * ((c \div 500000) * 5000) <= c
         /\ c >= 2500000 => (c \div 500000) * 5000 >= 25000
BY SMT

LEMMA CapIsLeast ==
  ASSUME NEW p \in SoftPulls
  PROVE  /\ Cap(p) \in Int
         /\ Cap(p) <= AvailableEquity(p)
         /\ Cap(p) <= 100 * IncomeCap[p.income]
         /\ Cap(p) <= 100 * MaxLine
         /\ AvailableEquity(p) >= 100 * MinLine => Cap(p) >= 100 * MinLine
<1>1. /\ IncomeCap[p.income] \in Int
      /\ MinLine <= IncomeCap[p.income] /\ IncomeCap[p.income] <= MaxLine
  BY IncomeCapRange, SoftPullFields
<1>2. AvailableEquity(p) \in Int
  BY EquityIsInt
<1> QED
  BY <1>1, <1>2, SMT DEF Cap, Least, MinLine, MaxLine

\* Whatever the application, a line offered to a borrower with enough equity is between the
\* published limits, within the equity and within the cap of the income band
\* (calculateOffer: rounding down never takes it below the smallest line).
THEOREM OfferIsWithinBounds ==
  ASSUME NEW p \in SoftPulls, AvailableEquity(p) >= 100 * MinLine
  PROVE  /\ MinLine <= OfferAmount(p) /\ OfferAmount(p) <= MaxLine
         /\ OfferAmount(p) <= IncomeCap[p.income]
         /\ 100 * OfferAmount(p) <= AvailableEquity(p)
<1> DEFINE a == (Cap(p) \div 500000) * 5000
<1>1. Cap(p) \in Int /\ Cap(p) >= 2500000
  BY CapIsLeast, SMT DEF MinLine
<1>2. a \in Int /\ 100 * a <= Cap(p) /\ a >= 25000
  BY <1>1, RoundedDown, SMT
<1>3. OfferAmount(p) = a
  <2>1. 100 * Step = 500000 /\ Step = 5000
    BY SMT DEF Step
  <2> QED
    BY <1>2, <2>1, SMT DEF OfferAmount, Greatest, MinLine
<1>4. IncomeCap[p.income] \in Int
  BY IncomeCapRange, SoftPullFields
<1>5. AvailableEquity(p) \in Int
  BY EquityIsInt, SMT
<1> HIDE DEF a
<1> QED
  BY <1>1, <1>2, <1>3, <1>4, <1>5, CapIsLeast, SMT DEF MinLine, MaxLine

\* The preview of the quiz and the first rule of the underwriter are the same, although each
\* is computed from limits of its own.
THEOREM PreviewIsTheRule ==
  ASSUME NEW p \in SoftPulls
  PROVE  /\ PreviewedEquity(p.home, p.mortgage) = AvailableEquity(p)
         /\ Enough(AvailableEquity(p)) <=> Evaluate(p).reason # "insufficient_home_equity"
<1>1. PreviewedEquity(p.home, p.mortgage) = AvailableEquity(p)
  BY SMT DEF PreviewedEquity, AvailableEquity, HelocLimits, MaxCombinedLtv
<1>2. Enough(AvailableEquity(p)) <=> AvailableEquity(p) >= 100 * MinLine
  BY SMT DEF Enough, HelocLimits, MinLine
<1>3. AvailableEquity(p) \in Int /\ p.credit \in Int
  BY EquityIsInt, SoftPullFields
<1>4. AvailableEquity(p) < 100 * MinLine <=> Evaluate(p).reason = "insufficient_home_equity"
  BY <1>3, SMT DEF Evaluate, Rejected, Approved, NeedMoreDocuments, Outcome, MinLine
<1> QED
  BY <1>1, <1>2, <1>3, <1>4, SMT DEF MinLine

\* An approval by the rules is an offer within the published limits and the equity.
LEMMA ApprovedByTheRules ==
  ASSUME NEW p \in SoftPulls, Evaluate(p).status = "approved"
  PROVE  /\ MinLine <= Evaluate(p).amount /\ Evaluate(p).amount <= MaxLine
         /\ 100 * Evaluate(p).amount <= AvailableEquity(p)
<1>1. AvailableEquity(p) \in Int /\ p.credit \in Int
  BY EquityIsInt, SoftPullFields
<1>2. AvailableEquity(p) >= 100 * MinLine /\ Evaluate(p).amount = OfferAmount(p)
  BY <1>1, SMT DEF Evaluate, Rejected, Approved, NeedMoreDocuments, Outcome, MinLine
<1> QED
  BY <1>2, OfferIsWithinBounds, SMT

\* Whomever the rules ask for documents, the review approves; and whatever was asked or
\* forced before, it approves within the equity only.
THEOREM ReviewIsConsistent ==
  ASSUME NEW p \in SoftPulls
  PROVE  /\ Evaluate(p).status = "need-more-documents" => ReviewDocuments(p).status = "approved"
         /\ ReviewDocuments(p).status = "approved" =>
              100 * ReviewDocuments(p).amount <= AvailableEquity(p)
<1>1. AvailableEquity(p) \in Int /\ p.credit \in Int
  BY EquityIsInt, SoftPullFields
<1>2. Evaluate(p).status = "need-more-documents" => ReviewDocuments(p).status = "approved"
  BY SMT DEF ReviewDocuments, Approved, Outcome
<1>3. ASSUME ReviewDocuments(p).status = "approved"
      PROVE  100 * ReviewDocuments(p).amount <= AvailableEquity(p)
  <2>1. Evaluate(p).status # "rejected" /\ ReviewDocuments(p).amount = OfferAmount(p)
    BY <1>3, SMT DEF ReviewDocuments, Approved, Outcome
  <2>2. AvailableEquity(p) >= 100 * MinLine
    BY <1>1, <2>1, SMT DEF Evaluate, Rejected, Outcome, MinLine
  <2> QED
    BY <2>1, <2>2, OfferIsWithinBounds, SMT
<1> QED
  BY <1>2, <1>3, SMT

------------------------------------------------------------------------------
(* The form.                                                                *)

FormDrafts ==
  [estimated_home_value : RawMoney, mortgage_balance : RawMoney,
   credit_band : CreditBands \union {Missing}]

\* The fields hold what can be typed, and the messages are about what they hold.
FormInv == draft \in FormDrafts /\ ErrorsAreCurrent

------------------------------------------------------------------------------
(* The messages.                                                            *)

LEMMA ValidityIsLocal ==
  ASSUME NEW d, NEW e, NEW g \in LeadFields, d[g] = e[g]
  PROVE  ValidField(d, g) <=> ValidField(e, g)
BY DEF ValidField, ParseMoney

LEMMA FieldOfDraft ==
  ASSUME NEW d \in FormDrafts, NEW f \in MoneyFields
  PROVE  d[f] \in RawMoney
BY DEF FormDrafts, MoneyFields

LEMMA WrittenDraft ==
  ASSUME NEW d \in FormDrafts, NEW f \in LeadFields, NEW v,
         f \in MoneyFields => v \in RawMoney,
         f = "credit_band" => v \in CreditBands \union {Missing}
  PROVE  /\ [d EXCEPT ![f] = v] \in FormDrafts
         /\ [d EXCEPT ![f] = v][f] = v
         /\ \A g \in LeadFields \ {f} : [d EXCEPT ![f] = v][g] = d[g]
<1> DEFINE e == [d EXCEPT ![f] = v]
<1>1. CASE f = "estimated_home_value"
  BY <1>1 DEF FormDrafts, LeadFields, MoneyFields
<1>2. CASE f = "mortgage_balance"
  BY <1>2 DEF FormDrafts, LeadFields, MoneyFields
<1>3. CASE f = "credit_band"
  BY <1>3 DEF FormDrafts, LeadFields, MoneyFields
<1> QED
  BY <1>1, <1>2, <1>3 DEF LeadFields, MoneyFields

\* Reformatting an amount changes neither what it is nor whether it is valid.
LEMMA FormattingKeepsAmount ==
  ASSUME NEW raw \in RawMoney
  PROVE  /\ FormatMoneyInput(raw) \in RawMoney
         /\ ParseMoney(FormatMoneyInput(raw)) = ParseMoney(raw)
BY DEF RawMoney, FormatMoneyInput, ParseMoney

\* The step common to typing and leaving a field: one field is written and judged, or was
\* not judged because it had no message and the borrower has not tried to submit.
LEMMA OneFieldWritten ==
  ASSUME FormInv, NEW f \in LeadFields, draft' \in FormDrafts, attempted' = attempted,
         \A g \in LeadFields \ {f} : draft'[g] = draft[g],
         \/ errors' = WithField(draft', f)
         \/ /\ errors' = errors /\ ~ attempted
            /\ f \in errors => ~ ValidField(draft', f)
  PROVE  FormInv'
<1>1. \A g \in LeadFields \ {f} : ValidField(draft', g) <=> ValidField(draft, g)
  BY ValidityIsLocal
<1> QED
  BY <1>1 DEF FormInv, ErrorsAreCurrent, ValidateLead, WithField

LEMMA FormInit == Init => FormInv
<1> SUFFICES ASSUME Init PROVE FormInv
  OBVIOUS
<1>1. EmptyDraft \in FormDrafts
  BY DEF EmptyDraft, EmptyMoney, FormDrafts, RawMoney
<1> QED
  BY <1>1 DEF Init, FormInv, ErrorsAreCurrent, ValidateLead

LEMMA FormUpdate ==
  ASSUME FormInv, NEW f \in LeadFields, NEW v \in Typed[f], Update(f, v)
  PROVE  FormInv'
<1>1. /\ f \in MoneyFields => v \in RawMoney
      /\ f = "credit_band" => v \in CreditBands \union {Missing}
  BY QuizAssumption DEF MoneyFields, LeadFields
<1>2. draft' = [draft EXCEPT ![f] = v] /\ attempted' = attempted
  BY DEF Update, UpdateWith
<1>3. draft' \in FormDrafts /\ \A g \in LeadFields \ {f} : draft'[g] = draft[g]
  <2>1. draft \in FormDrafts
    BY DEF FormInv
  <2>2. /\ [draft EXCEPT ![f] = v] \in FormDrafts
        /\ \A g \in LeadFields \ {f} : [draft EXCEPT ![f] = v][g] = draft[g]
    BY <1>1, <2>1, WrittenDraft
  <2> QED
    BY <1>2, <2>2
<1>4. errors' = IF attempted \/ f \in errors THEN WithField(draft', f) ELSE errors
  BY DEF Update, UpdateWith
<1> QED
  BY <1>2, <1>3, <1>4, OneFieldWritten

LEMMA FormBlur ==
  ASSUME FormInv, NEW f \in LeadFields, Blur(f)
  PROVE  FormInv'
<1> DEFINE v == IF f \in MoneyFields THEN FormatMoneyInput(draft[f]) ELSE draft[f]
<1>1. /\ f \in MoneyFields => v \in RawMoney /\ ParseMoney(v) = ParseMoney(draft[f])
      /\ f \notin MoneyFields => v = draft[f]
  BY FieldOfDraft, FormattingKeepsAmount DEF FormInv
<1>2. f = "credit_band" => v \in CreditBands \union {Missing}
  BY <1>1 DEF FormInv, FormDrafts, MoneyFields
<1>3. draft' = [draft EXCEPT ![f] = v] /\ attempted' = attempted
  BY DEF Blur
<1>4. /\ draft' \in FormDrafts /\ draft'[f] = v
      /\ \A g \in LeadFields \ {f} : draft'[g] = draft[g]
  <2> HIDE DEF v
  <2>1. draft \in FormDrafts
    BY DEF FormInv
  <2>2. /\ [draft EXCEPT ![f] = v] \in FormDrafts /\ [draft EXCEPT ![f] = v][f] = v
        /\ \A g \in LeadFields \ {f} : [draft EXCEPT ![f] = v][g] = draft[g]
    BY <1>1, <1>2, <2>1, WrittenDraft
  <2> QED
    BY <1>3, <2>2
<1>5. ValidField(draft', f) <=> ValidField(draft, f)
  BY <1>1, <1>4 DEF ValidField
<1>6. errors' = IF ~ IsEmpty(draft', f) \/ attempted THEN WithField(draft', f) ELSE errors
  BY DEF Blur
<1>7. f \in errors => ~ ValidField(draft', f)
  BY <1>5 DEF FormInv, ErrorsAreCurrent, ValidateLead
<1> HIDE DEF v
<1> QED
  BY <1>3, <1>4, <1>6, <1>7, OneFieldWritten

LEMMA FormStep == FormInv /\ [Next]_vars => FormInv'
<1> SUFFICES ASSUME FormInv, [Next]_vars PROVE FormInv'
  OBVIOUS
<1>1. CASE \E f \in LeadFields : Blur(f) \/ \E v \in Typed[f] : Update(f, v)
  BY <1>1, FormBlur, FormUpdate
<1>2. CASE SubmitInvalid
  BY <1>2 DEF SubmitInvalid, FormInv, ErrorsAreCurrent
<1>3. CASE SubmitValid
  <2>1. draft' = draft /\ errors' = errors /\ ValidateLead(draft) = {} /\ attempted'
    BY <1>3 DEF SubmitValid
  <2> QED
    BY <2>1 DEF FormInv, ErrorsAreCurrent
<1>4. CASE OpenPage
  <2>1. EmptyDraft \in FormDrafts
    BY DEF EmptyDraft, EmptyMoney, FormDrafts, RawMoney
  <2> QED
    BY <1>4, <2>1 DEF OpenPage, FormInv, ErrorsAreCurrent, ValidateLead
<1>5. CASE UNCHANGED <<draft, errors, attempted>>
  BY <1>5 DEF FormInv, ErrorsAreCurrent
<1>6. ASSUME NEW o \in Outcomes \union {NoOutcome}, ChooseOutcome(o) PROVE FormInv'
  BY <1>5, <1>6 DEF ChooseOutcome
<1>7. CASE NetworkError
  BY <1>5, <1>7 DEF NetworkError
<1>8. ASSUME NEW h \in Handlers, NEW n \in inFlight, Arrive(h, n) PROVE FormInv'
  BY <1>5, <1>8 DEF Arrive, pageVars
<1>9. ASSUME NEW h \in Handlers, Hear(h) \/ Intake(h) PROVE FormInv'
  BY <1>5, <1>9 DEF Hear, Intake, pageVars
<1>10. ASSUME NEW i \in DOMAIN leads, SoftPull(i) \/ Review(i) \/ Notice(i) PROVE FormInv'
  BY <1>5, <1>10 DEF SoftPull, Review, Notice, pageVars
<1>11. CASE UNCHANGED vars
  BY <1>5, <1>11 DEF vars, pageVars
<1> QED
  BY <1>1, <1>2, <1>3, <1>4, <1>6, <1>7, <1>8, <1>9, <1>10, <1>11 DEF Next

\* The messages at the fields are always about what the fields hold.
THEOREM MessagesAreCurrent == Spec => []ErrorsAreCurrent
<1>1. FormInv => ErrorsAreCurrent
  BY DEF FormInv
<1> QED
  BY <1>1, FormInit, FormStep, PTL DEF Spec

------------------------------------------------------------------------------
(* The keys.                                                                *)

Posts == [answers : SoftPulls, mock : Outcomes \union {NoOutcome}, key : Keys, page : Nat]

\* A submission, or the row of a Lead, that goes back to one the page sent.
WasPosted(x) == \E n \in DOMAIN posted : x.answers = posted[n].answers /\ x.key = posted[n].key

\* The page: one key, one set of answers; the key remembered belongs to the answers remembered.
PageInv ==
  /\ page \in Nat /\ mockOutcome \in Outcomes \union {NoOutcome}
  /\ posted \in Seq(Posts) /\ Len(posted) <= MaxRequests
  /\ \A n \in DOMAIN posted : posted[n].key <= n
  /\ \A m, n \in DOMAIN posted :
       posted[m].key = posted[n].key => posted[m].answers = posted[n].answers
  /\ \/ last = NothingSubmitted
     \/ \E n \in DOMAIN posted :
          last.key = posted[n].key /\ last.answers = <<posted[n].answers, posted[n].mock>>
  /\ inFlight \subseteq DOMAIN posted

\* Intake: what is served and what is stored was sent by the page.
IntakeInv ==
  /\ pc \in [Handlers -> S!Places] /\ DOMAIN input = Handlers /\ DOMAIN answer = Handlers
  /\ leads \in Seq(S!LeadRows) /\ clock \in Nat /\ refusal \in [Handlers -> S!Refusals]
  /\ \A h \in Handlers : pc[h] # "idle" => input[h].email = Borrower /\ WasPosted(input[h])
  /\ \A i \in DOMAIN leads : WasPosted(leads[i])
  /\ KeysAreNotReused

KeyInv == FormInv /\ PageInv /\ IntakeInv

LEMMA KeysAreNumbers == Keys \subseteq Nat \ {0} /\ NoKey \notin Keys
BY QuizAssumption DEF Keys, NoKey

LEMMA ValidDraftIsSoftPull ==
  ASSUME FormInv, ValidateLead(draft) = {}
  PROVE  LeadInput(draft) \in SoftPulls
<1>1. \A f \in LeadFields : ValidField(draft, f)
  BY DEF ValidateLead
<1>2. /\ draft.estimated_home_value \in RawMoney /\ draft.mortgage_balance \in RawMoney
      /\ draft.credit_band \in CreditBands \union {Missing}
  BY DEF FormInv, FormDrafts
<1>3. /\ ParseMoney(draft.estimated_home_value) \in Nat \ {0}
      /\ ParseMoney(draft.mortgage_balance) \in Nat
  <2>1. \A raw \in RawMoney : ParseMoney(raw) \notin {Missing, NaN} => ParseMoney(raw) \in Nat
    BY DEF RawMoney, ParseMoney
  <2>2. /\ ParseMoney(draft.estimated_home_value) \notin {Missing, NaN}
        /\ ParseMoney(draft.estimated_home_value) > 0
        /\ ParseMoney(draft.mortgage_balance) \notin {Missing, NaN}
    BY <1>1 DEF ValidField, LeadFields, MoneyFields
  <2>3. /\ ParseMoney(draft.estimated_home_value) \in Nat
        /\ ParseMoney(draft.mortgage_balance) \in Nat
    BY <1>2, <2>1, <2>2
  <2> QED
    BY <2>2, <2>3
<1>4. draft.credit_band \in CreditBands
  BY <1>1, <1>2 DEF ValidField, LeadFields, MoneyFields
<1> QED
  BY <1>3, <1>4, QuizAssumption DEF LeadInput, SoftPulls

LEMMA KeyInit == Init => KeyInv
<1> SUFFICES ASSUME Init PROVE KeyInv
  OBVIOUS
<1>1. FormInv
  BY FormInit
<1>2. PageInv
  BY QuizAssumption DEF Init, PageInv
<1>3. IntakeInv
  BY DEF Init, IntakeInv, KeysAreNotReused, S!Places, S!NoAnswer, S!Refusals
<1> QED
  BY <1>1, <1>2, <1>3 DEF KeyInv

\* keyFor: the key it returns is new, or that of a submission of the same answers.
LEMMA KeyIsOfTheAnswers ==
  ASSUME PageInv, NEW x \in SoftPulls, NEW o, Len(posted) < MaxRequests
  PROVE  LET k == KeyFor(<<x, o>>) IN
           /\ k.answers = <<x, o>> /\ k.key \in Keys /\ k.key <= Len(posted) + 1
           /\ \A m \in DOMAIN posted : posted[m].key = k.key => posted[m].answers = x
<1> DEFINE k == KeyFor(<<x, o>>)
<1>0. Len(posted) \in Nat /\ DOMAIN posted = 1..Len(posted)
  BY DEF PageInv
<1>1. CASE last.answers = <<x, o>>
  <2>1. k = last
    BY <1>1 DEF KeyFor
  <2>2. last # NothingSubmitted
    BY <1>1 DEF NothingSubmitted
  <2>3. PICK n \in DOMAIN posted :
          last.key = posted[n].key /\ last.answers = <<posted[n].answers, posted[n].mock>>
    BY <2>2 DEF PageInv
  <2>4. posted[n].answers = x
    BY <1>1, <2>3
  <2>5. posted[n] \in Posts /\ posted[n].key <= n /\ n \in 1..Len(posted)
    BY <1>0 DEF PageInv
  <2>6. posted[n].key \in Keys
    BY <2>5 DEF Posts
  <2>7. posted[n].key <= Len(posted) + 1
    <3>1. posted[n].key \in Nat
      BY <2>6, KeysAreNumbers
    <3> QED
      BY <1>0, <2>5, <3>1
  <2>8. \A m \in DOMAIN posted : posted[m].key = posted[n].key => posted[m].answers = x
    BY <2>4 DEF PageInv
  <2> QED
    BY <1>1, <2>1, <2>3, <2>6, <2>7, <2>8
<1>2. CASE last.answers # <<x, o>>
  <2>1. k = [answers |-> <<x, o>>, key |-> Len(posted) + 1]
    BY <1>2 DEF KeyFor
  <2>2. \A m \in DOMAIN posted : posted[m].key # Len(posted) + 1
    <3>1. TAKE m \in DOMAIN posted
    <3>2. posted[m] \in Posts /\ posted[m].key <= m /\ m \in 1..Len(posted)
      BY <1>0 DEF PageInv
    <3>3. posted[m].key \in Nat
      BY <3>2, KeysAreNumbers DEF Posts
    <3> QED
      BY <1>0, <3>2, <3>3
  <2>3. Len(posted) + 1 \in Keys
    BY <1>0, QuizAssumption DEF Keys
  <2> QED
    BY <1>0, <2>1, <2>2, <2>3
<1> QED
  BY <1>1, <1>2

\* What was posted stays posted.
LEMMA WasPostedStays ==
  ASSUME NEW x, WasPosted(x), posted' = posted \/ \E p : posted' = Append(posted, p),
         posted \in Seq(Posts)
  PROVE  \E n \in DOMAIN posted' : x.answers = posted'[n].answers /\ x.key = posted'[n].key
<1>1. PICK n \in DOMAIN posted : x.answers = posted[n].answers /\ x.key = posted[n].key
  BY DEF WasPosted
<1>2. n \in DOMAIN posted' /\ posted'[n] = posted[n]
  OBVIOUS
<1> QED
  BY <1>1, <1>2

\* A submission: the new entry has a key of its answers.
LEMMA PageSubmits ==
  ASSUME KeyInv, SubmitValid
  PROVE  PageInv'
<1> DEFINE x == LeadInput(draft)
           p == [answers |-> x, mock |-> mockOutcome, key |-> last'.key, page |-> page]
<1>1. x \in SoftPulls
  BY ValidDraftIsSoftPull DEF KeyInv, SubmitValid
<1>2. /\ last' = KeyFor(<<x, mockOutcome>>) /\ posted' = Append(posted, p)
      /\ Len(posted) < MaxRequests /\ inFlight' = inFlight \union {Len(posted')}
      /\ page' = page /\ mockOutcome' = mockOutcome
  BY DEF SubmitValid
<1> HIDE DEF x
<1>3. /\ last'.answers = <<x, mockOutcome>> /\ last'.key \in Keys
      /\ last'.key <= Len(posted) + 1
      /\ \A m \in DOMAIN posted : posted[m].key = last'.key => posted[m].answers = x
  BY <1>1, <1>2, KeyIsOfTheAnswers DEF KeyInv
<1>4. p \in Posts
  BY <1>1, <1>3 DEF Posts, KeyInv, PageInv
<1>5. /\ p.answers = x /\ p.key = last'.key /\ p.mock = mockOutcome
  OBVIOUS
<1> HIDE DEF p
<1>6. posted \in Seq(Posts) /\ Len(posted) \in Nat /\ DOMAIN posted = 1..Len(posted)
  BY DEF KeyInv, PageInv
<1>7. /\ posted' \in Seq(Posts) /\ Len(posted') = Len(posted) + 1
      /\ DOMAIN posted' = DOMAIN posted \union {Len(posted) + 1}
      /\ posted'[Len(posted) + 1] = p
      /\ \A n \in DOMAIN posted : posted'[n] = posted[n]
  BY <1>2, <1>4, <1>6
<1>8. page' \in Nat /\ mockOutcome' \in Outcomes \union {NoOutcome}
  BY <1>2 DEF KeyInv, PageInv
<1>9. Len(posted') <= MaxRequests
  BY <1>2, <1>6, <1>7, QuizAssumption
<1>10. \A n \in DOMAIN posted' : posted'[n].key <= n
  BY <1>3, <1>5, <1>7 DEF KeyInv, PageInv
<1>11. \A m, n \in DOMAIN posted' :
         posted'[m].key = posted'[n].key => posted'[m].answers = posted'[n].answers
  BY <1>3, <1>5, <1>7 DEF KeyInv, PageInv
<1>12. \E n \in DOMAIN posted' :
         last'.key = posted'[n].key /\ last'.answers = <<posted'[n].answers, posted'[n].mock>>
  BY <1>3, <1>5, <1>7
<1>13. inFlight' \subseteq DOMAIN posted'
  BY <1>2, <1>7 DEF KeyInv, PageInv
<1> QED
  BY <1>7, <1>8, <1>9, <1>10, <1>11, <1>12, <1>13 DEF PageInv

LEMMA PageStep == KeyInv /\ [Next]_vars => PageInv'
<1> SUFFICES ASSUME KeyInv, [Next]_vars PROVE PageInv'
  OBVIOUS
<1>0. PageInv
  BY DEF KeyInv
<1>1. CASE SubmitValid
  BY <1>1, PageSubmits
<1>2. CASE OpenPage
  BY <1>0, <1>2 DEF OpenPage, PageInv
<1>3. CASE UNCHANGED <<page, mockOutcome, posted, last>> /\ inFlight' \subseteq inFlight
  BY <1>0, <1>3 DEF PageInv
<1>4. ASSUME NEW f \in LeadFields, Blur(f) \/ \E v \in Typed[f] : Update(f, v) PROVE PageInv'
  BY <1>3, <1>4 DEF Blur, Update, UpdateWith
<1>5. ASSUME NEW o \in Outcomes \union {NoOutcome}, ChooseOutcome(o) PROVE PageInv'
  BY <1>0, <1>5 DEF ChooseOutcome, PageInv
<1>6. CASE SubmitInvalid \/ NetworkError
  BY <1>3, <1>6 DEF SubmitInvalid, NetworkError
<1>7. ASSUME NEW h \in Handlers, NEW n \in inFlight, Arrive(h, n) PROVE PageInv'
  BY <1>3, <1>7 DEF Arrive, pageVars
<1>8. ASSUME NEW h \in Handlers, Hear(h) \/ Intake(h) PROVE PageInv'
  BY <1>3, <1>8 DEF Hear, Intake, pageVars
<1>9. ASSUME NEW i \in DOMAIN leads, SoftPull(i) \/ Review(i) \/ Notice(i) PROVE PageInv'
  BY <1>3, <1>9 DEF SoftPull, Review, Notice, pageVars
<1>10. CASE UNCHANGED vars
  BY <1>3, <1>10 DEF vars, pageVars
<1> QED
  BY <1>1, <1>2, <1>4, <1>5, <1>6, <1>7, <1>8, <1>9, <1>10 DEF Next

------------------------------------------------------------------------------
(* The keys at intake.                                                      *)

\* Whom the network or intake does not touch keeps what it has.
LEMMA IntakeKeeps ==
  ASSUME KeyInv, UNCHANGED <<pc, input, answer, leads, clock, refusal>>,
         posted' = posted \/ \E p : posted' = Append(posted, p)
  PROVE  IntakeInv'
<1>1. posted \in Seq(Posts)
  BY DEF KeyInv, PageInv
<1>2. \A x : WasPosted(x) =>
        \E n \in DOMAIN posted' : x.answers = posted'[n].answers /\ x.key = posted'[n].key
  BY <1>1, WasPostedStays
<1>3. \A h \in Handlers : WasPosted(input[h]) => WasPosted(input[h])'
  BY <1>2 DEF WasPosted
<1>4. \A i \in DOMAIN leads : WasPosted(leads[i]) => WasPosted(leads[i])'
  BY <1>2 DEF WasPosted
<1> QED
  BY <1>3, <1>4 DEF KeyInv, IntakeInv, KeysAreNotReused

\* A handler answers with anything but the 422.
LEMMA IntakeReplies ==
  ASSUME IntakeInv, UNCHANGED <<input, leads, posted, clock, refusal>>, NEW h \in Handlers, NEW a,
         S!Reply(h, a), a.error # "idempotency_key_reused"
  PROVE  IntakeInv'
<1>1. pc' = [pc EXCEPT ![h] = "idle"] /\ answer' = [answer EXCEPT ![h] = a]
  BY DEF S!Reply, S!Goto
<1>2. pc' \in [Handlers -> S!Places]
  BY <1>1 DEF IntakeInv, S!Places
<1>3. \A g \in Handlers : pc'[g] # "idle" => pc[g] # "idle"
  BY <1>1 DEF IntakeInv
<1>4. DOMAIN answer' = Handlers /\ \A g \in Handlers : answer'[g] = IF g = h THEN a ELSE answer[g]
  BY <1>1 DEF IntakeInv
<1> QED
  BY <1>2, <1>3, <1>4 DEF IntakeInv, KeysAreNotReused, WasPosted

\* A handler goes on from one await to the next.
LEMMA IntakeGoes ==
  ASSUME IntakeInv, UNCHANGED <<input, leads, posted, answer, clock>>,
         refusal' \in [Handlers -> S!Refusals], NEW h \in Handlers,
         pc[h] # "idle", NEW place \in S!Places, S!Goto(h, place)
  PROVE  IntakeInv'
<1>1. pc' = [pc EXCEPT ![h] = place]
  BY DEF S!Goto
<1>2. pc' \in [Handlers -> S!Places]
  BY <1>1 DEF IntakeInv
<1>3. \A g \in Handlers : pc'[g] # "idle" => pc[g] # "idle"
  BY <1>1 DEF IntakeInv
<1> QED
  BY <1>2, <1>3 DEF IntakeInv, KeysAreNotReused, WasPosted

\* Whoever finds the Lead of its key finds its own answers there: no 422.
LEMMA KeysLeadIsOwn ==
  ASSUME KeyInv, UNCHANGED <<input, leads, posted, clock, refusal>>, NEW h \in Handlers, pc[h] # "idle",
         S!LeadOfKey(input[h].key) # 0, S!AnswerWithKeysLead(h)
  PROVE  IntakeInv'
<1> DEFINE i == S!LeadOfKey(input[h].key)
<1>1. i \in DOMAIN leads /\ leads[i].key = input[h].key
  BY DEF S!LeadOfKey, S!HasKey
<1>2. input[h].email = Borrower /\ WasPosted(input[h]) /\ WasPosted(leads[i])
  BY <1>1 DEF KeyInv, IntakeInv
<1>3. leads[i].email = Borrower
  <2>1. leads[i] \in S!LeadRows
    BY <1>1, ElementOfSeq DEF KeyInv, IntakeInv
  <2> QED
    BY <2>1 DEF S!LeadRows
<1>4. leads[i].answers = input[h].answers
  BY <1>1, <1>2 DEF WasPosted, KeyInv, PageInv
<1>5. S!MatchesSubmission(i, input[h])
  BY <1>2, <1>3, <1>4 DEF S!MatchesSubmission
<1>6. S!Reply(h, S!LeadAnswer(i))
  BY <1>5 DEF S!AnswerWithKeysLead
<1>7. S!LeadAnswer(i).error # "idempotency_key_reused"
  BY DEF S!LeadAnswer
<1> QED
  BY <1>6, <1>7, IntakeReplies DEF KeyInv

\* An inserted row keeps the answers and the key that were sent.
LEMMA IntakeInserts ==
  ASSUME KeyInv, NEW h \in Handlers, S!Insert(h), posted' = posted
  PROVE  IntakeInv'
<1>0. pc[h] = "write" /\ input' = input /\ clock' = clock /\ IntakeInv
  BY DEF S!Insert, KeyInv
<1>1. CASE S!InsertRefused(h)
  <2>1. S!Goto(h, "refused") /\ leads' = leads /\ answer' = answer
    BY <1>1 DEF S!InsertRefused, S!Refuse
  <2>2. "refused" \in S!Places
    BY DEF S!Places
  <2>3. refusal' \in [Handlers -> S!Refusals]
    BY <1>0, <1>1 DEF S!InsertRefused, S!Refuse, S!Refusals, IntakeInv
  <2> QED
    BY <1>0, <2>1, <2>2, <2>3, IntakeGoes
<1>2. CASE S!Inserted(h)
  <2> DEFINE row == S!NewLead(input[h])
  <2>1. PICK n \in DOMAIN posted :
          input[h].answers = posted[n].answers /\ input[h].key = posted[n].key
    BY <1>0 DEF IntakeInv, WasPosted
  <2>2. posted[n] \in Posts
    BY DEF KeyInv, PageInv
  <2>3. input[h].answers \in SoftPulls /\ input[h].key \in Keys /\ input[h].email = Borrower
    BY <1>0, <2>1, <2>2 DEF Posts, IntakeInv
  <2>4. row.answers = input[h].answers /\ row.key = input[h].key
    BY <2>3 DEF S!NewLead
  <2>5. row \in S!LeadRows
    BY <1>0, <2>3 DEF IntakeInv, S!NewLead, S!LeadRows, S!Stages
  <2>6. leads' = Append(leads, row) /\ leads \in Seq(S!LeadRows)
    BY <1>0, <1>2 DEF S!Inserted, IntakeInv
  <2> HIDE DEF row
  <2>7. /\ leads' \in Seq(S!LeadRows) /\ DOMAIN leads' = DOMAIN leads \union {Len(leads) + 1}
        /\ leads'[Len(leads) + 1] = row /\ \A i \in DOMAIN leads : leads'[i] = leads[i]
    BY <2>5, <2>6
  <2>8. \A i \in DOMAIN leads' : WasPosted(leads[i])'
    BY <1>0, <2>1, <2>4, <2>7 DEF WasPosted, IntakeInv
  <2>r. refusal' = refusal
    BY <1>2 DEF S!Inserted
  <2>9. PICK a : S!Reply(h, a) /\ a.error # "idempotency_key_reused"
    BY <1>2 DEF S!Inserted, S!LeadAnswer, S!ErrorAnswer
  <2>10. pc' = [pc EXCEPT ![h] = "idle"] /\ answer' = [answer EXCEPT ![h] = a]
    BY <2>9 DEF S!Reply, S!Goto
  <2>11. pc' \in [Handlers -> S!Places] /\ \A g \in Handlers : pc'[g] # "idle" => pc[g] # "idle"
    BY <1>0, <2>10 DEF IntakeInv, S!Places
  <2>12. /\ DOMAIN answer' = Handlers
         /\ \A g \in Handlers : answer'[g].error # "idempotency_key_reused"
    BY <1>0, <2>9, <2>10 DEF IntakeInv, KeysAreNotReused
  <2>13. \A g \in Handlers : pc'[g] # "idle" => input'[g].email = Borrower /\ WasPosted(input[g])'
    BY <1>0, <2>11 DEF IntakeInv, WasPosted
  <2> QED
    BY <1>0, <2>7, <2>8, <2>11, <2>12, <2>13, <2>r DEF IntakeInv, KeysAreNotReused
<1> QED
  BY <1>1, <1>2 DEF S!Insert

LEMMA IntakeArrives ==
  ASSUME KeyInv, NEW h \in Handlers, NEW n \in inFlight, Arrive(h, n)
  PROVE  IntakeInv'
<1> DEFINE s == [email |-> Borrower, answers |-> posted[n].answers, key |-> posted[n].key]
<1>1. /\ pc' = [pc EXCEPT ![h] = IF s.key = NoKey THEN "recent" ELSE "byKey"]
      /\ input' = [input EXCEPT ![h] = s]
      /\ answer' = [answer EXCEPT ![h] = S!NoAnswer]
      /\ UNCHANGED <<leads, clock, posted, refusal>>
  BY DEF Arrive, S!Submit, S!Goto
<1>2. n \in DOMAIN posted
  BY DEF KeyInv, PageInv
<1>3. s.email = Borrower /\ s.answers = posted[n].answers /\ s.key = posted[n].key
  OBVIOUS
<1> HIDE DEF s
<1>4. pc' \in [Handlers -> S!Places]
  BY <1>1 DEF KeyInv, IntakeInv, S!Places
<1>5. \A g \in Handlers \ {h} : pc'[g] = pc[g] /\ input'[g] = input[g] /\ answer'[g] = answer[g]
  BY <1>1 DEF KeyInv, IntakeInv
<1>6. DOMAIN input' = Handlers /\ DOMAIN answer' = Handlers
  BY <1>1 DEF KeyInv, IntakeInv
<1>7. input'[h] = s /\ answer'[h] = S!NoAnswer
  BY <1>1 DEF KeyInv, IntakeInv
<1>8. \A g \in Handlers : pc'[g] # "idle" => input'[g].email = Borrower /\ WasPosted(input[g])'
  BY <1>1, <1>2, <1>3, <1>5, <1>7 DEF KeyInv, IntakeInv, WasPosted
<1>9. \A g \in Handlers : answer'[g].error # "idempotency_key_reused"
  BY <1>5, <1>7 DEF KeyInv, IntakeInv, KeysAreNotReused, S!NoAnswer
<1> QED
  BY <1>1, <1>4, <1>6, <1>8, <1>9 DEF KeyInv, IntakeInv, KeysAreNotReused, WasPosted

\* A stage change keeps the rows otherwise.
LEMMA MovesKeepRows ==
  ASSUME leads \in Seq(S!LeadRows), NEW i \in DOMAIN leads, NEW stage \in S!Stages,
         S!Moves(i, stage)
  PROVE  /\ leads' \in Seq(S!LeadRows) /\ DOMAIN leads' = DOMAIN leads
         /\ \A j \in DOMAIN leads :
              leads'[j].answers = leads[j].answers /\ leads'[j].key = leads[j].key
<1>1. leads[i] \in S!LeadRows
  OBVIOUS
<1>2. [leads[i] EXCEPT !.stage = stage] \in S!LeadRows
  BY <1>1 DEF S!LeadRows
<1>3. leads' = [leads EXCEPT ![i] = [@ EXCEPT !.stage = stage]]
  BY DEF S!Moves
<1>4. leads' \in Seq(S!LeadRows) /\ DOMAIN leads' = DOMAIN leads
  BY <1>2, <1>3
<1>5. \A j \in DOMAIN leads : j # i => leads'[j] = leads[j]
  BY <1>3
<1>6. leads'[i] = [leads[i] EXCEPT !.stage = stage]
  BY <1>3
<1>7. leads'[i].answers = leads[i].answers /\ leads'[i].key = leads[i].key
  BY <1>1, <1>6 DEF S!LeadRows
<1> QED
  BY <1>4, <1>5, <1>7

LEMMA StageMoves ==
  ASSUME NEW i, S!Settle(i) \/ S!NoticeFails(i) \/ S!NoticeSent(i)
  PROVE  \E stage \in S!Stages : S!Moves(i, stage)
BY DEF S!Settle, S!NoticeFails, S!NoticeSent, S!Stages

LEMMA IntakeMoves ==
  ASSUME KeyInv, NEW i \in DOMAIN leads, NEW stage \in S!Stages, S!Moves(i, stage),
         posted' = posted
  PROVE  IntakeInv'
<1>1. UNCHANGED <<clock, pc, input, answer, refusal>>
  BY DEF S!Moves
<1>2. leads \in Seq(S!LeadRows)
  BY DEF KeyInv, IntakeInv
<1>3. /\ leads' \in Seq(S!LeadRows) /\ DOMAIN leads' = DOMAIN leads
      /\ \A j \in DOMAIN leads :
           leads'[j].answers = leads[j].answers /\ leads'[j].key = leads[j].key
  BY <1>2, MovesKeepRows
<1> QED
  BY <1>1, <1>3 DEF KeyInv, IntakeInv, KeysAreNotReused, WasPosted

LEMMA IntakeServes ==
  ASSUME KeyInv, NEW h \in Handlers, Intake(h)
  PROVE  IntakeInv'
<1>0. posted' = posted /\ IntakeInv /\ refusal \in [Handlers -> S!Refusals]
  BY DEF Intake, KeyInv, IntakeInv
<1>p. {"recent", "match", "insert", "write", "refused"} \subseteq S!Places
  BY DEF S!Places
<1>1. CASE S!Insert(h)
  BY <1>0, <1>1, IntakeInserts
<1>2. CASE S!FindByKey(h)
  <2>1. pc[h] # "idle" /\ UNCHANGED <<input, leads, posted, clock, refusal>>
    BY <1>0, <1>2 DEF S!FindByKey
  <2>2. CASE S!LeadOfKey(input[h].key) # 0
    <3>1. S!AnswerWithKeysLead(h)
      BY <1>2, <2>2 DEF S!FindByKey
    <3> QED
      BY <2>1, <2>2, <3>1, KeysLeadIsOwn
  <2>3. CASE S!LeadOfKey(input[h].key) = 0
    <3>1. S!Goto(h, "recent") /\ answer' = answer
      BY <1>2, <2>3 DEF S!FindByKey
    <3> QED
      BY <1>0, <1>p, <2>1, <3>1, IntakeGoes
  <2> QED
    BY <2>2, <2>3
<1>3. CASE S!FindRecent(h)
  <2>1. /\ pc[h] # "idle" /\ S!Goto(h, "match")
      /\ UNCHANGED <<input, leads, posted, answer, clock, refusal>>
    BY <1>0, <1>3 DEF S!FindRecent
  <2> QED
    BY <1>0, <1>p, <2>1, IntakeGoes
<1>4. ASSUME NEW i \in recent[h], S!LoadRecent(h, i) PROVE IntakeInv'
  <2>1. UNCHANGED <<pc, input, answer, leads, clock, refusal>>
    BY <1>4 DEF S!LoadRecent
  <2> QED
    BY <1>0, <2>1, IntakeKeeps
<1>5. CASE S!MatchRecent(h)
  <2>1. pc[h] # "idle" /\ UNCHANGED <<input, leads, posted, clock, refusal>>
    BY <1>0, <1>5 DEF S!MatchRecent
  <2>2. CASE S!Reply(h, S!LeadAnswer(repeated[h]))
    <3>1. S!LeadAnswer(repeated[h]).error # "idempotency_key_reused"
      BY DEF S!LeadAnswer
    <3> QED
      BY <1>0, <2>1, <2>2, <3>1, IntakeReplies
  <2>3. CASE S!Goto(h, "insert") /\ answer' = answer
    BY <1>0, <1>p, <2>1, <2>3, IntakeGoes
  <2> QED
    BY <1>5, <2>2, <2>3 DEF S!MatchRecent
<1>6. CASE S!Refused(h)
  <2>1. pc[h] # "idle" /\ UNCHANGED <<input, leads, posted, clock, refusal>>
    BY <1>0, <1>6 DEF S!Refused
  <2>2. CASE S!LeadOfKey(input[h].key) # 0
    <3>1. S!AnswerWithKeysLead(h)
      BY <1>6, <2>2 DEF S!Refused
    <3> QED
      BY <2>1, <2>2, <3>1, KeysLeadIsOwn
  <2>3. CASE S!LeadOfKey(input[h].key) = 0
    <3>1. S!Reply(h, S!ErrorAnswer(refusal[h]))
      BY <1>6, <2>3 DEF S!Refused
    <3>2. S!ErrorAnswer(refusal[h]).error # "idempotency_key_reused"
      BY <1>0 DEF S!ErrorAnswer, S!Refusals
    <3> QED
      BY <1>0, <2>1, <3>1, <3>2, IntakeReplies
  <2> QED
    BY <2>2, <2>3
<1>7. CASE S!CheckOpen(h)
  <2>1. pc[h] # "idle" /\ UNCHANGED <<input, leads, posted, clock, answer>>
    BY <1>0, <1>7 DEF S!CheckOpen, S!Refuse
  <2>2. PICK place \in {"refused", "write"} : S!Goto(h, place)
    BY <1>7 DEF S!CheckOpen, S!Refuse
  <2>3. refusal' \in [Handlers -> S!Refusals]
    BY <1>0, <1>7 DEF S!CheckOpen, S!Refuse, S!Refusals
  <2> QED
    BY <1>0, <1>p, <2>1, <2>2, <2>3, IntakeGoes
<1> QED
  BY <1>1, <1>2, <1>3, <1>4, <1>5, <1>6, <1>7 DEF Intake, Inserting

LEMMA IntakeStep == KeyInv /\ [Next]_vars => IntakeInv'
<1> SUFFICES ASSUME KeyInv, [Next]_vars PROVE IntakeInv'
  OBVIOUS
<1>1. CASE UNCHANGED <<pc, input, answer, leads, clock, refusal, posted>>
  BY <1>1, IntakeKeeps
<1>2. ASSUME NEW f \in LeadFields, Blur(f) \/ \E v \in Typed[f] : Update(f, v) PROVE IntakeInv'
  BY <1>1, <1>2 DEF Blur, Update, UpdateWith, intakeVars
<1>3. ASSUME NEW o \in Outcomes \union {NoOutcome}, ChooseOutcome(o) PROVE IntakeInv'
  BY <1>1, <1>3 DEF ChooseOutcome, intakeVars
<1>4. CASE SubmitInvalid \/ OpenPage \/ NetworkError
  BY <1>1, <1>4 DEF SubmitInvalid, OpenPage, NetworkError, intakeVars
<1>5. CASE SubmitValid
  <2>1. UNCHANGED <<pc, input, answer, leads, clock, refusal>> /\ \E p : posted' = Append(posted, p)
    BY <1>5 DEF SubmitValid, intakeVars
  <2> QED
    BY <2>1, IntakeKeeps
<1>6. ASSUME NEW h \in Handlers, NEW n \in inFlight, Arrive(h, n) PROVE IntakeInv'
  BY <1>6, IntakeArrives
<1>7. ASSUME NEW h \in Handlers, Hear(h) PROVE IntakeInv'
  BY <1>1, <1>7 DEF Hear, intakeVars
<1>8. ASSUME NEW h \in Handlers, Intake(h) PROVE IntakeInv'
  BY <1>8, IntakeServes
<1>9. ASSUME NEW i \in DOMAIN leads, SoftPull(i) \/ Review(i) \/ Notice(i) PROVE IntakeInv'
  <2>1. posted' = posted
    BY <1>9 DEF SoftPull, Review, Notice
  <2>2. CASE UNCHANGED intakeVars
    BY <1>1, <2>1, <2>2 DEF intakeVars
  <2>3. CASE S!Settle(i) \/ S!NoticeFails(i) \/ S!NoticeSent(i)
    BY <1>9, <2>1, <2>3, StageMoves, IntakeMoves
  <2> QED
    BY <1>9, <2>2, <2>3 DEF SoftPull, Review, Notice
<1>10. CASE UNCHANGED vars
  BY <1>1, <1>10 DEF vars, intakeVars
<1> QED
  BY <1>2, <1>3, <1>4, <1>5, <1>6, <1>7, <1>8, <1>9, <1>10 DEF Next

THEOREM KeyInvariant == Spec => []KeyInv
<1>1. KeyInv /\ [Next]_vars => KeyInv'
  BY FormStep, PageStep, IntakeStep DEF KeyInv
<1> QED
  BY <1>1, KeyInit, PTL DEF Spec

\* The quiz never sends a key again with other answers, whatever is edited, lost, reloaded
\* or answered late, so no submission of it is refused for that.
THEOREM NoKeyIsReused == Spec => []KeysAreNotReused
<1>1. KeyInv => KeysAreNotReused
  BY DEF KeyInv, IntakeInv
<1> QED
  BY <1>1, KeyInvariant, PTL

------------------------------------------------------------------------------
(* The result page.  An answer carries a Lead with the answers of the       *)
(* submission it belongs to (Owned); the form is shut while the page waits  *)
(* for one, so it still holds those answers (FormWaits).                    *)

OwnLead(i, h) == i \in DOMAIN leads /\ leads[i].answers = input[h].answers

Owned ==
  /\ DOMAIN recent = Handlers /\ DOMAIN repeated = Handlers
  /\ \A h \in Handlers : answer[h].lead # 0 => OwnLead(answer[h].lead, h)
  /\ \A h \in Handlers : pc[h] = "match" =>
       /\ recent[h] \subseteq DOMAIN leads
       /\ repeated[h] # 0 => OwnLead(repeated[h], h)

LeadsStay ==
  \A i \in DOMAIN leads : i \in DOMAIN leads' /\ leads'[i].answers = leads[i].answers

LEMMA RowOfTheInput ==
  ASSUME KeyInv, NEW h \in Handlers, pc[h] # "idle"
  PROVE  S!NewLead(input[h]).answers = input[h].answers
<1>1. PICK n \in DOMAIN posted : input[h].answers = posted[n].answers
  BY DEF KeyInv, IntakeInv, WasPosted
<1>2. posted[n] \in Posts
  BY DEF KeyInv, PageInv
<1>3. input[h].answers \in SoftPulls
  BY <1>1, <1>2 DEF Posts
<1> QED
  BY <1>3 DEF S!NewLead

LEMMA InsertedIsLast ==
  ASSUME KeyInv, NEW h \in Handlers, S!Insert(h), S!Inserted(h)
  PROVE  /\ LeadsStay
         /\ Len(leads) + 1 \in DOMAIN leads'
         /\ leads'[Len(leads) + 1].answers = input[h].answers
<1>1. leads \in Seq(S!LeadRows) /\ leads' = Append(leads, S!NewLead(input[h]))
  BY DEF KeyInv, IntakeInv, S!Inserted
<1>2. S!NewLead(input[h]).answers = input[h].answers
  BY RowOfTheInput DEF S!Insert
<1> DEFINE row == S!NewLead(input[h])
<1>3. leads' = Append(leads, row) /\ row.answers = input[h].answers
  BY <1>1, <1>2
<1> HIDE DEF row
<1> QED
  BY <1>1, <1>3 DEF LeadsStay

\* A handler's step: the others keep what they have.
LEMMA OneServes ==
  ASSUME Owned, LeadsStay, NEW h \in Handlers,
         DOMAIN recent' = Handlers, DOMAIN repeated' = Handlers,
         \A g \in Handlers \ {h} : /\ pc'[g] = pc[g] /\ input'[g] = input[g]
                                   /\ recent'[g] = recent[g] /\ repeated'[g] = repeated[g]
                                   /\ answer'[g] = answer[g],
         answer'[h].lead # 0 =>
           /\ answer'[h].lead \in DOMAIN leads'
           /\ leads'[answer'[h].lead].answers = input'[h].answers,
         pc'[h] = "match" =>
           /\ recent'[h] \subseteq DOMAIN leads'
           /\ repeated'[h] # 0 => /\ repeated'[h] \in DOMAIN leads'
                                  /\ leads'[repeated'[h]].answers = input'[h].answers
  PROVE  Owned'
<1>1. \A g \in Handlers : answer'[g].lead # 0 =>
        answer'[g].lead \in DOMAIN leads' /\ leads'[answer'[g].lead].answers = input'[g].answers
  BY DEF Owned, OwnLead, LeadsStay
<1>2. \A g \in Handlers : pc'[g] = "match" =>
        /\ recent'[g] \subseteq DOMAIN leads'
        /\ repeated'[g] # 0 => /\ repeated'[g] \in DOMAIN leads'
                               /\ leads'[repeated'[g]].answers = input'[g].answers
  BY DEF Owned, OwnLead, LeadsStay
<1> QED
  BY <1>1, <1>2 DEF Owned, OwnLead

\* A handler answers, with its own Lead or none.
LEMMA OneAnswers ==
  ASSUME KeyInv, Owned, LeadsStay, NEW h \in Handlers, NEW a, S!Reply(h, a),
         UNCHANGED <<input, recent, repeated>>,
         a.lead # 0 => a.lead \in DOMAIN leads' /\ leads'[a.lead].answers = input[h].answers
  PROVE  Owned'
<1>1. pc' = [pc EXCEPT ![h] = "idle"] /\ answer' = [answer EXCEPT ![h] = a]
  BY DEF S!Reply, S!Goto
<1>2. /\ pc'[h] = "idle" /\ answer'[h] = a
      /\ \A g \in Handlers \ {h} : pc'[g] = pc[g] /\ answer'[g] = answer[g]
  BY <1>1 DEF KeyInv, IntakeInv
<1>3. DOMAIN recent' = Handlers /\ DOMAIN repeated' = Handlers
  BY DEF Owned
<1> QED
  BY <1>2, <1>3, OneServes

LEMMA KeysLeadAnswers ==
  ASSUME KeyInv, Owned, NEW h \in Handlers, S!AnswerWithKeysLead(h),
         S!LeadOfKey(input[h].key) # 0, UNCHANGED <<leads, input, recent, repeated>>
  PROVE  Owned'
<1> DEFINE i == S!LeadOfKey(input[h].key)
<1>1. i \in DOMAIN leads
  BY DEF S!LeadOfKey
<1>2. LeadsStay
  BY DEF LeadsStay
<1>3. CASE S!MatchesSubmission(i, input[h])
  <2>1. S!Reply(h, S!LeadAnswer(i)) /\ S!LeadAnswer(i).lead = i
    BY <1>3 DEF S!AnswerWithKeysLead, S!LeadAnswer
  <2>2. leads[i].answers = input[h].answers
    BY <1>3 DEF S!MatchesSubmission
  <2> HIDE DEF i
  <2> QED
    BY <1>1, <1>2, <2>1, <2>2, OneAnswers
<1>4. CASE ~ S!MatchesSubmission(i, input[h])
  <2>1. /\ S!Reply(h, S!ErrorAnswer("idempotency_key_reused"))
        /\ S!ErrorAnswer("idempotency_key_reused").lead = 0
    BY <1>4 DEF S!AnswerWithKeysLead, S!ErrorAnswer
  <2> QED
    BY <1>2, <2>1, OneAnswers
<1> QED
  BY <1>3, <1>4

\* A handler goes on, not to the loads of the recent Leads.
LEMMA OneGoes ==
  ASSUME KeyInv, Owned, NEW h \in Handlers, NEW place \in S!Places \ {"match"},
         S!Goto(h, place), UNCHANGED <<leads, input, recent, repeated, answer>>
  PROVE  Owned'
<1>1. pc' = [pc EXCEPT ![h] = place]
  BY DEF S!Goto
<1>2. pc'[h] = place /\ \A g \in Handlers \ {h} : pc'[g] = pc[g]
  BY <1>1 DEF KeyInv, IntakeInv
<1>3. LeadsStay
  BY DEF LeadsStay
<1> QED
  BY <1>2, <1>3, OneServes DEF Owned, OwnLead

LEMMA OwnedServes ==
  ASSUME KeyInv, Owned, NEW h \in Handlers, Intake(h)
  PROVE  Owned' /\ LeadsStay
<1>p. {"recent", "insert", "write", "refused"} \subseteq S!Places \ {"match"}
  BY DEF S!Places
<1>1. CASE S!Insert(h)
  <2>1. UNCHANGED <<input, recent, repeated>>
    BY <1>1 DEF S!Insert
  <2>2. CASE S!Inserted(h)
    <3>1. /\ LeadsStay /\ Len(leads) + 1 \in DOMAIN leads'
          /\ leads'[Len(leads) + 1].answers = input[h].answers
      BY <1>1, <2>2, InsertedIsLast
    <3>2. CASE S!Reply(h, S!LeadAnswer(Len(leads) + 1))
      <4>1. S!LeadAnswer(Len(leads) + 1).lead = Len(leads) + 1
        BY DEF S!LeadAnswer
      <4> QED
        BY <2>1, <3>1, <3>2, <4>1, OneAnswers
    <3>3. CASE S!Reply(h, S!ErrorAnswer("interrupted"))
      <4>1. S!ErrorAnswer("interrupted").lead = 0
        BY DEF S!ErrorAnswer
      <4> QED
        BY <2>1, <3>1, <3>3, <4>1, OneAnswers
    <3> QED
      BY <2>2, <3>1, <3>2, <3>3 DEF S!Inserted
  <2>3. CASE S!InsertRefused(h)
    <3>1. S!Goto(h, "refused") /\ UNCHANGED <<leads, answer>>
      BY <2>3 DEF S!InsertRefused, S!Refuse
    <3> QED
      BY <1>p, <2>1, <3>1, OneGoes DEF LeadsStay
  <2> QED
    BY <1>1, <2>2, <2>3 DEF S!Insert
<1>2. CASE S!FindByKey(h)
  <2>1. UNCHANGED <<leads, input, recent, repeated>>
    BY <1>2 DEF S!FindByKey
  <2>2. CASE S!LeadOfKey(input[h].key) # 0
    <3>1. S!AnswerWithKeysLead(h)
      BY <1>2, <2>2 DEF S!FindByKey
    <3> QED
      BY <2>1, <2>2, <3>1, KeysLeadAnswers DEF LeadsStay
  <2>3. CASE S!LeadOfKey(input[h].key) = 0
    <3>1. S!Goto(h, "recent") /\ answer' = answer
      BY <1>2, <2>3 DEF S!FindByKey
    <3> QED
      BY <1>p, <2>1, <3>1, OneGoes DEF LeadsStay
  <2> QED
    BY <2>2, <2>3
<1>3. CASE S!FindRecent(h)
  <2>1. UNCHANGED <<leads, input, answer>> /\ LeadsStay
    BY <1>3 DEF S!FindRecent, LeadsStay
  <2>2. pc' = [pc EXCEPT ![h] = "match"] /\ repeated' = [repeated EXCEPT ![h] = 0]
    BY <1>3 DEF S!FindRecent, S!Goto
  <2>3. PICK found \in SUBSET DOMAIN leads : recent' = [recent EXCEPT ![h] = found]
    BY <1>3 DEF S!FindRecent
  <2>4. /\ repeated'[h] = 0 /\ recent'[h] = found
        /\ DOMAIN recent' = Handlers /\ DOMAIN repeated' = Handlers
        /\ \A g \in Handlers \ {h} :
             pc'[g] = pc[g] /\ recent'[g] = recent[g] /\ repeated'[g] = repeated[g]
    BY <2>2, <2>3 DEF KeyInv, IntakeInv, Owned
  <2> QED
    BY <2>1, <2>4, OneServes DEF Owned, OwnLead
<1>4. ASSUME NEW i \in recent[h], S!LoadRecent(h, i) PROVE Owned' /\ LeadsStay
  <2>1. UNCHANGED <<pc, leads, input, answer>> /\ LeadsStay /\ pc[h] = "match"
    BY <1>4 DEF S!LoadRecent, LeadsStay
  <2>2. recent' = [recent EXCEPT ![h] = recent[h] \ {i}]
    BY <1>4 DEF S!LoadRecent
  <2>3. PICK found \in {repeated[h], i} : /\ repeated' = [repeated EXCEPT ![h] = found]
                                          /\ found = i => \/ found = repeated[h]
                                                          \/ S!MatchesSubmission(i, input[h])
    BY <1>4 DEF S!LoadRecent
  <2>4. /\ repeated'[h] = found /\ recent'[h] = recent[h] \ {i}
        /\ DOMAIN recent' = Handlers /\ DOMAIN repeated' = Handlers
        /\ \A g \in Handlers \ {h} : recent'[g] = recent[g] /\ repeated'[g] = repeated[g]
    BY <2>2, <2>3 DEF Owned
  <2>5. recent[h] \subseteq DOMAIN leads
    BY <2>1 DEF Owned
  <2>6. found # 0 => OwnLead(found, h)
    BY <1>4, <2>1, <2>3, <2>5 DEF Owned, OwnLead, S!MatchesSubmission
  <2> QED
    BY <2>1, <2>4, <2>5, <2>6, OneServes DEF Owned, OwnLead
<1>5. CASE S!MatchRecent(h)
  <2>1. UNCHANGED <<leads, input, recent, repeated>> /\ LeadsStay /\ pc[h] = "match"
    BY <1>5 DEF S!MatchRecent, LeadsStay
  <2>2. CASE repeated[h] # 0 /\ S!Reply(h, S!LeadAnswer(repeated[h]))
    <3>1. S!LeadAnswer(repeated[h]).lead = repeated[h]
      BY DEF S!LeadAnswer
    <3>2. OwnLead(repeated[h], h)
      BY <2>1, <2>2 DEF Owned
    <3> QED
      BY <2>1, <2>2, <3>1, <3>2, OneAnswers DEF OwnLead
  <2>3. CASE S!Goto(h, "insert") /\ answer' = answer
    BY <1>p, <2>1, <2>3, OneGoes
  <2> QED
    BY <1>5, <2>2, <2>3 DEF S!MatchRecent
<1>6. CASE S!Refused(h)
  <2>1. UNCHANGED <<leads, input, recent, repeated>> /\ LeadsStay
    BY <1>6 DEF S!Refused, LeadsStay
  <2>2. CASE S!LeadOfKey(input[h].key) # 0
    <3>1. S!AnswerWithKeysLead(h)
      BY <1>6, <2>2 DEF S!Refused
    <3> QED
      BY <2>1, <2>2, <3>1, KeysLeadAnswers
  <2>3. CASE S!LeadOfKey(input[h].key) = 0
    <3>1. S!Reply(h, S!ErrorAnswer(refusal[h])) /\ S!ErrorAnswer(refusal[h]).lead = 0
      BY <1>6, <2>3 DEF S!Refused, S!ErrorAnswer
    <3> QED
      BY <2>1, <3>1, OneAnswers
  <2> QED
    BY <2>2, <2>3
<1>7. CASE S!CheckOpen(h)
  <2>1. UNCHANGED <<leads, input, recent, repeated, answer>>
    BY <1>7 DEF S!CheckOpen, S!Refuse
  <2>2. PICK place \in {"refused", "write"} : S!Goto(h, place)
    BY <1>7 DEF S!CheckOpen, S!Refuse
  <2> QED
    BY <1>p, <2>1, <2>2, OneGoes DEF LeadsStay
<1> QED
  BY <1>1, <1>2, <1>3, <1>4, <1>5, <1>6, <1>7 DEF Intake, Inserting

LEMMA OwnedArrives ==
  ASSUME KeyInv, Owned, NEW h \in Handlers, NEW n \in inFlight, Arrive(h, n)
  PROVE  Owned' /\ LeadsStay
<1> DEFINE s == [email |-> Borrower, answers |-> posted[n].answers, key |-> posted[n].key]
<1>1. /\ pc' = [pc EXCEPT ![h] = IF s.key = NoKey THEN "recent" ELSE "byKey"]
      /\ input' = [input EXCEPT ![h] = s]
      /\ answer' = [answer EXCEPT ![h] = S!NoAnswer]
      /\ UNCHANGED <<leads, recent, repeated>>
  BY DEF Arrive, S!Submit, S!Goto
<1> HIDE DEF s
<1>2. /\ pc'[h] # "match" /\ answer'[h].lead = 0
      /\ \A g \in Handlers \ {h} :
           pc'[g] = pc[g] /\ input'[g] = input[g] /\ answer'[g] = answer[g]
  BY <1>1 DEF KeyInv, IntakeInv, S!NoAnswer
<1>3. LeadsStay
  BY <1>1 DEF LeadsStay
<1> QED
  BY <1>1, <1>2, <1>3, OneServes DEF Owned

LEMMA OwnedStep == KeyInv /\ Owned /\ [Next]_vars => Owned' /\ LeadsStay
<1> SUFFICES ASSUME KeyInv, Owned, [Next]_vars PROVE Owned' /\ LeadsStay
  OBVIOUS
<1>1. CASE UNCHANGED intakeVars
  BY <1>1 DEF intakeVars, Owned, OwnLead, LeadsStay
<1>2. ASSUME NEW f \in LeadFields, Blur(f) \/ \E v \in Typed[f] : Update(f, v)
      PROVE  Owned' /\ LeadsStay
  BY <1>1, <1>2 DEF Blur, Update, UpdateWith
<1>3. ASSUME NEW o \in Outcomes \union {NoOutcome}, ChooseOutcome(o) PROVE Owned' /\ LeadsStay
  BY <1>1, <1>3 DEF ChooseOutcome
<1>4. CASE SubmitInvalid \/ SubmitValid \/ OpenPage \/ NetworkError
  BY <1>1, <1>4 DEF SubmitInvalid, SubmitValid, OpenPage, NetworkError
<1>5. ASSUME NEW h \in Handlers, NEW n \in inFlight, Arrive(h, n) PROVE Owned' /\ LeadsStay
  BY <1>5, OwnedArrives
<1>6. ASSUME NEW h \in Handlers, Hear(h) PROVE Owned' /\ LeadsStay
  BY <1>1, <1>6 DEF Hear
<1>7. ASSUME NEW h \in Handlers, Intake(h) PROVE Owned' /\ LeadsStay
  BY <1>7, OwnedServes
<1>8. ASSUME NEW i \in DOMAIN leads, SoftPull(i) \/ Review(i) \/ Notice(i)
      PROVE  Owned' /\ LeadsStay
  <2>1. CASE S!Settle(i) \/ S!NoticeFails(i) \/ S!NoticeSent(i)
    <3>1. PICK stage \in S!Stages : S!Moves(i, stage)
      BY <2>1, StageMoves
    <3>2. UNCHANGED <<pc, input, recent, repeated, answer>>
      BY <3>1 DEF S!Moves
    <3>3. LeadsStay
      BY <3>1, MovesKeepRows DEF LeadsStay, KeyInv, IntakeInv
    <3> QED
      BY <3>2, <3>3 DEF Owned, OwnLead, LeadsStay
  <2> QED
    BY <1>1, <1>8, <2>1 DEF SoftPull, Review, Notice
<1>9. CASE UNCHANGED vars
  BY <1>1, <1>9 DEF vars
<1> QED
  BY <1>2, <1>3, <1>4, <1>5, <1>6, <1>7, <1>8, <1>9 DEF Next

\* What is awaited, and the Lead the page went to, are of the answers in the form.
FormWaits ==
  /\ DOMAIN serving = Handlers
  /\ \A h \in Handlers : serving[h] # 0 =>
       serving[h] \in DOMAIN posted /\ input[h].answers = posted[serving[h]].answers
  /\ waiting # 0 => /\ submitting /\ result = 0 /\ waiting \in DOMAIN posted
                    /\ posted[waiting].answers = LeadInput(draft)
  /\ result # 0 => /\ submitting /\ result \in DOMAIN leads
                   /\ leads[result].answers = LeadInput(draft)

PostedStays ==
  \A n \in DOMAIN posted : n \in DOMAIN posted' /\ posted'[n] = posted[n]

LEMMA FormWaitsStep ==
  ASSUME KeyInv, Owned, LeadsStay, FormWaits, [Next]_vars
  PROVE  FormWaits'
<1>0. posted \in Seq(Posts)
  BY DEF KeyInv, PageInv
<1>1. CASE UNCHANGED <<serving, input, posted, waiting, submitting, result, draft>>
  BY <1>1 DEF FormWaits, LeadsStay
<1>2. ASSUME NEW f \in LeadFields, Blur(f) \/ \E v \in Typed[f] : Update(f, v)
      PROVE  FormWaits'
  <2>1. /\ ~ submitting
        /\ UNCHANGED <<serving, input, posted, waiting, submitting, result>>
    BY <1>2 DEF Blur, Update, UpdateWith, Editing, intakeVars
  <2> QED
    BY <2>1 DEF FormWaits
<1>3. ASSUME NEW o \in Outcomes \union {NoOutcome}, ChooseOutcome(o) PROVE FormWaits'
  BY <1>1, <1>3 DEF ChooseOutcome, intakeVars
<1>4. CASE SubmitInvalid
  BY <1>1, <1>4 DEF SubmitInvalid, intakeVars
<1>5. CASE SubmitValid
  <2> DEFINE p == [answers |-> LeadInput(draft), mock |-> mockOutcome,
                   key |-> last'.key, page |-> page]
  <2>1. /\ posted' = Append(posted, p) /\ waiting' = Len(posted') /\ submitting' = TRUE
        /\ UNCHANGED <<serving, input, draft, result>> /\ result = 0
    BY <1>5 DEF SubmitValid, Editing, intakeVars
  <2>2. p.answers = LeadInput(draft)
    OBVIOUS
  <2> HIDE DEF p
  <2>3. PostedStays /\ waiting' \in DOMAIN posted' /\ posted'[waiting'] = p
    BY <1>0, <2>1 DEF PostedStays
  <2>4. LeadInput(draft)' = LeadInput(draft)
    BY <2>1 DEF LeadInput
  <2> QED
    BY <2>1, <2>2, <2>3, <2>4 DEF FormWaits, PostedStays
<1>6. CASE OpenPage
  BY <1>6 DEF OpenPage, FormWaits, intakeVars
<1>7. CASE NetworkError
  BY <1>7 DEF NetworkError, FormWaits, intakeVars
<1>8. ASSUME NEW h \in Handlers, NEW n \in inFlight, Arrive(h, n) PROVE FormWaits'
  <2> DEFINE s == [email |-> Borrower, answers |-> posted[n].answers, key |-> posted[n].key]
  <2>1. /\ serving' = [serving EXCEPT ![h] = n] /\ input' = [input EXCEPT ![h] = s]
        /\ UNCHANGED <<posted, waiting, submitting, result, draft, leads>>
    BY <1>8 DEF Arrive, S!Submit, pageVars
  <2>2. s.answers = posted[n].answers /\ n \in DOMAIN posted
    BY DEF KeyInv, PageInv
  <2> HIDE DEF s
  <2>3. /\ DOMAIN serving' = Handlers /\ serving'[h] = n /\ input'[h] = s
        /\ \A g \in Handlers \ {h} : serving'[g] = serving[g] /\ input'[g] = input[g]
    BY <2>1 DEF FormWaits, KeyInv, IntakeInv
  <2> QED
    BY <2>1, <2>2, <2>3 DEF FormWaits
<1>9. ASSUME NEW h \in Handlers, Hear(h) PROVE FormWaits'
  <2>1. /\ waiting # 0 /\ serving[h] = waiting /\ waiting' = 0
        /\ UNCHANGED <<serving, input, posted, draft, leads, answer>>
    BY <1>9 DEF Hear, intakeVars
  <2>2. submitting /\ result = 0 /\ input[h].answers = LeadInput(draft)
    BY <2>1 DEF FormWaits
  <2>3. CASE answer[h].lead # 0 /\ result' = answer[h].lead /\ UNCHANGED submitting
    <3>1. OwnLead(answer[h].lead, h)
      BY <2>3 DEF Owned
    <3> QED
      BY <2>1, <2>2, <2>3, <3>1 DEF FormWaits, OwnLead
  <2>4. CASE result' = result
    BY <2>1, <2>2, <2>4 DEF FormWaits
  <2> QED
    BY <1>9, <2>3, <2>4 DEF Hear, SettleForm
<1>10. ASSUME NEW h \in Handlers, Intake(h) PROVE FormWaits'
  <2>1. input' = input
    BY <1>10 DEF Intake, Inserting, S!Insert, S!FindByKey, S!FindRecent, S!MatchRecent,
                 S!CheckOpen, S!Refused, S!LoadRecent
  <2> QED
    BY <1>1, <1>10, <2>1 DEF Intake, pageVars
<1>11. ASSUME NEW i \in DOMAIN leads, SoftPull(i) \/ Review(i) \/ Notice(i) PROVE FormWaits'
  <2>1. input' = input
    BY <1>11, StageMoves DEF SoftPull, Review, Notice, intakeVars, S!Moves
  <2> QED
    BY <1>1, <1>11, <2>1 DEF SoftPull, Review, Notice, pageVars
<1>12. CASE UNCHANGED vars
  BY <1>1, <1>12 DEF vars, pageVars, intakeVars
<1> QED
  BY <1>2, <1>3, <1>4, <1>5, <1>6, <1>7, <1>8, <1>9, <1>10, <1>11, <1>12 DEF Next

LEMMA ResultInvariant == Spec => [](KeyInv /\ Owned /\ FormWaits)
<1> DEFINE Inv == KeyInv /\ Owned /\ FormWaits
<1>1. Init => Inv
  <2>1. Init => Owned
    BY DEF Init, Owned, S!NoAnswer
  <2>2. Init => FormWaits
    BY DEF Init, FormWaits
  <2> QED
    BY <2>1, <2>2, KeyInit
<1>2. Inv /\ [Next]_vars => Inv'
  <2>1. KeyInv /\ [Next]_vars => KeyInv'
    BY FormStep, PageStep, IntakeStep DEF KeyInv
  <2> QED
    BY <2>1, OwnedStep, FormWaitsStep
<1> QED
  BY <1>1, <1>2, PTL DEF Spec

\* Wherever an answer comes from - the submission itself, an earlier one with its key, an
\* application already settled - the borrower is sent to a Lead of the answers in the form.
THEOREM ResultIsTheirs == Spec => []ResultIsOfTheForm
<1>1. FormWaits => ResultIsOfTheForm
  BY DEF FormWaits, ResultIsOfTheForm
<1> QED
  BY <1>1, ResultInvariant, PTL

------------------------------------------------------------------------------
(* Trying again.  Submissions of one attempt share their key, and intake    *)
(* refuses a submission only while no Lead has its key.                     *)

\* What keyFor remembers of the submissions of this page.
Remembered ==
  IF posted # << >> /\ posted[Len(posted)].page = page
  THEN LET n == Len(posted) IN
         [answers |-> <<posted[n].answers, posted[n].mock>>, key |-> posted[n].key]
  ELSE NothingSubmitted

\* One attempt is one key.
AttemptInv ==
  /\ last = Remembered
  /\ \A n \in DOMAIN posted : posted[n].page <= page
  /\ \A m, n \in DOMAIN posted : SameAttempt(m, n) => posted[m].key = posted[n].key

\* A handler at work has the key of the submission it serves.
ServesItsKey ==
  /\ DOMAIN serving = Handlers
  /\ \A h \in Handlers : pc[h] # "idle" =>
       serving[h] \in DOMAIN posted /\ input[h].key = posted[serving[h]].key

\* keyFor returns the key of the latest submission when the page tries it again.
LEMMA TryingAgainKeepsTheKey ==
  ASSUME KeyInv, AttemptInv, SubmitValid
  PROVE  /\ last' = Remembered'
         /\ LET n == Len(posted) IN
              posted # << >> /\ posted[n].page = page /\ posted[n].mock = mockOutcome
                /\ posted[n].answers = LeadInput(draft) => last'.key = posted[n].key
<1> DEFINE x == LeadInput(draft)
           p == [answers |-> x, mock |-> mockOutcome, key |-> last'.key, page |-> page]
<1>1. /\ last' = KeyFor(<<x, mockOutcome>>) /\ posted' = Append(posted, p) /\ page' = page
  BY DEF SubmitValid
<1>2. posted \in Seq(Posts)
  BY DEF KeyInv, PageInv
<1>3. p.answers = x /\ p.mock = mockOutcome /\ p.key = last'.key /\ p.page = page
  OBVIOUS
<1> HIDE DEF x, p
<1>4. last' = [answers |-> <<x, mockOutcome>>, key |-> last'.key]
  BY <1>1 DEF KeyFor, AttemptInv, Remembered, NothingSubmitted
<1>5. posted' # << >> /\ posted'[Len(posted')] = p
  BY <1>1, <1>2
<1>6. last' = Remembered'
  BY <1>1, <1>3, <1>4, <1>5 DEF Remembered
<1>7. ASSUME posted # << >>, posted[Len(posted)].page = page,
             posted[Len(posted)].mock = mockOutcome, posted[Len(posted)].answers = x
      PROVE  last'.key = posted[Len(posted)].key
  BY <1>1, <1>7 DEF KeyFor, AttemptInv, Remembered
<1> QED
  BY <1>6, <1>7 DEF x

LEMMA SubmittingKeepsAttempts ==
  ASSUME KeyInv, AttemptInv, SubmitValid
  PROVE  AttemptInv'
<1> DEFINE x == LeadInput(draft)
           p == [answers |-> x, mock |-> mockOutcome, key |-> last'.key, page |-> page]
           N == Len(posted)
<1>1. posted' = Append(posted, p) /\ page' = page /\ page \in Nat
  BY DEF SubmitValid, KeyInv, PageInv
<1>2. posted \in Seq(Posts) /\ N \in Nat /\ DOMAIN posted = 1..N
  BY DEF KeyInv, PageInv
<1>3. p.answers = x /\ p.mock = mockOutcome /\ p.key = last'.key /\ p.page = page
  OBVIOUS
<1> HIDE DEF x, p
<1>4. /\ DOMAIN posted' = 1..N + 1 /\ posted'[N + 1] = p
      /\ \A n \in 1..N : posted'[n] = posted[n]
  BY <1>1, <1>2
<1>5. \A n \in DOMAIN posted' : posted'[n].page <= page'
  BY <1>1, <1>2, <1>3, <1>4 DEF AttemptInv
<1>6. ASSUME NEW m \in 1..N,
             \A k \in m..N + 1 : /\ posted'[k].page = posted'[m].page
                                 /\ posted'[k].answers = posted'[m].answers
                                 /\ posted'[k].mock = posted'[m].mock
      PROVE  posted[m].key = p.key
  <2>1. m \in Nat /\ N \in m..N + 1 /\ N + 1 \in m..N + 1 /\ N \in 1..N
    BY <1>2
  <2>2. /\ p.page = posted[m].page /\ p.answers = posted[m].answers /\ p.mock = posted[m].mock
    BY <1>4, <1>6, <2>1
  <2>3. \A k \in m..N : /\ posted[k].page = posted[m].page
                        /\ posted[k].answers = posted[m].answers
                        /\ posted[k].mock = posted[m].mock
    <3> SUFFICES ASSUME NEW k \in m..N
                 PROVE  /\ posted[k].page = posted[m].page
                        /\ posted[k].answers = posted[m].answers
                        /\ posted[k].mock = posted[m].mock
      OBVIOUS
    <3>1. k \in 1..N /\ k \in m..N + 1
      BY <1>2, <2>1
    <3> QED
      BY <1>4, <1>6, <3>1
  <2>4. SameAttempt(m, N)
    BY <1>2, <2>1, <2>3 DEF SameAttempt
  <2>5. posted[m].key = posted[N].key
    BY <1>2, <2>1, <2>4 DEF AttemptInv
  <2>6. posted[N].page = posted[m].page /\ posted[N].answers = posted[m].answers
        /\ posted[N].mock = posted[m].mock
    BY <2>1, <2>3
  <2>7. posted # << >>
    BY <1>2, <2>1
  <2> QED
    BY <1>3, <2>2, <2>5, <2>6, <2>7, TryingAgainKeepsTheKey DEF x
<1>7. ASSUME NEW m \in DOMAIN posted', NEW n \in DOMAIN posted', SameAttempt(m, n)'
      PROVE  posted'[m].key = posted'[n].key
  <2>1. \A k \in 1..N + 1 :
          (m <= k /\ k <= n) \/ (n <= k /\ k <= m) =>
            /\ posted'[k].page = posted'[m].page
            /\ posted'[k].answers = posted'[m].answers /\ posted'[k].mock = posted'[m].mock
    BY <1>4, <1>7 DEF SameAttempt
  <2>2. m \in 1..N + 1 /\ n \in 1..N + 1
    BY <1>4, <1>7
  <2>3. CASE m \in 1..N /\ n \in 1..N
    <3>1. \A k \in DOMAIN posted : posted'[k] = posted[k] /\ k \in 1..N + 1
      BY <1>2, <1>4
    <3>2. SameAttempt(m, n)
      BY <1>2, <2>1, <2>3, <3>1 DEF SameAttempt
    <3> QED
      BY <1>2, <1>4, <2>3, <3>2 DEF AttemptInv
  <2>4. CASE m \in 1..N /\ n = N + 1
    <3>1. \A k \in m..N + 1 : k \in 1..N + 1 /\ m <= k /\ k <= n
      BY <1>2, <2>4
    <3> QED
      BY <1>4, <1>6, <2>1, <2>4, <3>1
  <2>5. CASE m = N + 1 /\ n \in 1..N
    <3>1. \A k \in n..N + 1 : k \in 1..N + 1 /\ n <= k /\ k <= m
      BY <1>2, <2>5
    <3>2. n \in n..N + 1
      BY <1>2, <2>5
    <3>3. \A k \in n..N + 1 : /\ posted'[k].page = posted'[n].page
                              /\ posted'[k].answers = posted'[n].answers
                              /\ posted'[k].mock = posted'[n].mock
      BY <2>1, <3>1, <3>2
    <3> QED
      BY <1>4, <1>6, <2>5, <3>3
  <2> QED
    BY <1>2, <2>2, <2>3, <2>4, <2>5
<1> QED
  BY <1>5, <1>7, TryingAgainKeepsTheKey DEF AttemptInv

LEMMA AttemptStep == KeyInv /\ AttemptInv /\ [Next]_vars => AttemptInv'
<1> SUFFICES ASSUME KeyInv, AttemptInv, [Next]_vars PROVE AttemptInv'
  OBVIOUS
<1>1. CASE SubmitValid
  BY <1>1, SubmittingKeepsAttempts
<1>2. CASE OpenPage
  <2>1. page' = page + 1 /\ last' = NothingSubmitted /\ posted' = posted
    BY <1>2 DEF OpenPage
  <2>2. page \in Nat /\ \A n \in DOMAIN posted : posted[n].page \in Nat
    <3>1. page \in Nat /\ posted \in Seq(Posts)
      BY DEF KeyInv, PageInv
    <3>2. \A n \in DOMAIN posted : posted[n] \in Posts
      BY <3>1, ElementOfSeq
    <3> QED
      BY <3>1, <3>2 DEF Posts
  <2>3. posted # << >> => Len(posted) \in DOMAIN posted
    BY DEF KeyInv, PageInv
  <2>4. \A n \in DOMAIN posted : posted[n].page <= page' /\ posted[n].page # page'
    BY <2>1, <2>2 DEF AttemptInv
  <2> QED
    BY <2>1, <2>3, <2>4 DEF AttemptInv, Remembered, SameAttempt
<1>3. CASE UNCHANGED <<page, posted, last>>
  BY <1>3 DEF AttemptInv, Remembered, SameAttempt
<1>4. ASSUME NEW f \in LeadFields, Blur(f) \/ \E v \in Typed[f] : Update(f, v) PROVE AttemptInv'
  BY <1>3, <1>4 DEF Blur, Update, UpdateWith
<1>5. ASSUME NEW o \in Outcomes \union {NoOutcome}, ChooseOutcome(o) PROVE AttemptInv'
  BY <1>3, <1>5 DEF ChooseOutcome
<1>6. CASE SubmitInvalid \/ NetworkError
  BY <1>3, <1>6 DEF SubmitInvalid, NetworkError
<1>7. ASSUME NEW h \in Handlers, NEW n \in inFlight, Arrive(h, n) PROVE AttemptInv'
  BY <1>3, <1>7 DEF Arrive, pageVars
<1>8. ASSUME NEW h \in Handlers, Hear(h) \/ Intake(h) PROVE AttemptInv'
  BY <1>3, <1>8 DEF Hear, Intake, pageVars
<1>9. ASSUME NEW i \in DOMAIN leads, SoftPull(i) \/ Review(i) \/ Notice(i) PROVE AttemptInv'
  BY <1>3, <1>9 DEF SoftPull, Review, Notice, pageVars
<1>10. CASE UNCHANGED vars
  BY <1>3, <1>10 DEF vars, pageVars
<1> QED
  BY <1>1, <1>2, <1>4, <1>5, <1>6, <1>7, <1>8, <1>9, <1>10 DEF Next

\* Only a handler at work moves on.
LEMMA WhoIsAtWork ==
  ASSUME KeyInv, NEW h \in Handlers, Intake(h)
  PROVE  /\ UNCHANGED <<input, serving, posted>>
         /\ \A g \in Handlers : pc'[g] # "idle" => pc[g] # "idle"
<1>1. UNCHANGED <<input, serving, posted>> /\ pc[h] # "idle"
  BY DEF Intake, Inserting, S!Insert, S!FindByKey, S!FindRecent, S!MatchRecent,
         S!CheckOpen, S!Refused, S!LoadRecent
<1>2. pc' = pc \/ \E place : pc' = [pc EXCEPT ![h] = place]
  BY DEF Intake, Inserting, S!Insert, S!Inserted, S!InsertRefused, S!Refuse, S!CheckOpen,
         S!FindByKey, S!FindRecent, S!MatchRecent, S!Refused, S!LoadRecent, S!AnswerWithKeysLead, S!Reply, S!Goto
<1> QED
  BY <1>1, <1>2 DEF KeyInv, IntakeInv

LEMMA ServesStep == KeyInv /\ ServesItsKey /\ [Next]_vars => ServesItsKey'
<1> SUFFICES ASSUME KeyInv, ServesItsKey, [Next]_vars PROVE ServesItsKey'
  OBVIOUS
<1>0. posted \in Seq(Posts)
  BY DEF KeyInv, PageInv
<1>1. CASE UNCHANGED <<serving, pc, input, posted>>
  BY <1>1 DEF ServesItsKey
<1>2. CASE SubmitValid
  <2>1. UNCHANGED <<serving, pc, input>> /\ \E p : posted' = Append(posted, p)
    BY <1>2 DEF SubmitValid, intakeVars
  <2>2. \A n \in DOMAIN posted : n \in DOMAIN posted' /\ posted'[n] = posted[n]
    BY <1>0, <2>1
  <2> QED
    BY <2>1, <2>2 DEF ServesItsKey
<1>3. ASSUME NEW f \in LeadFields, Blur(f) \/ \E v \in Typed[f] : Update(f, v) PROVE ServesItsKey'
  BY <1>1, <1>3 DEF Blur, Update, UpdateWith, intakeVars
<1>4. ASSUME NEW o \in Outcomes \union {NoOutcome}, ChooseOutcome(o) PROVE ServesItsKey'
  BY <1>1, <1>4 DEF ChooseOutcome, intakeVars
<1>5. CASE SubmitInvalid \/ NetworkError \/ OpenPage
  BY <1>1, <1>5 DEF SubmitInvalid, NetworkError, OpenPage, intakeVars
<1>6. ASSUME NEW h \in Handlers, NEW n \in inFlight, Arrive(h, n) PROVE ServesItsKey'
  <2> DEFINE s == [email |-> Borrower, answers |-> posted[n].answers, key |-> posted[n].key]
  <2>1. /\ serving' = [serving EXCEPT ![h] = n] /\ input' = [input EXCEPT ![h] = s]
        /\ \E place : pc' = [pc EXCEPT ![h] = place]
        /\ posted' = posted
    BY <1>6 DEF Arrive, S!Submit, S!Goto
  <2>2. s.key = posted[n].key /\ n \in DOMAIN posted
    BY DEF KeyInv, PageInv
  <2> HIDE DEF s
  <2>3. /\ DOMAIN serving' = Handlers /\ serving'[h] = n /\ input'[h] = s
        /\ \A g \in Handlers \ {h} :
             serving'[g] = serving[g] /\ input'[g] = input[g] /\ pc'[g] = pc[g]
    BY <2>1 DEF ServesItsKey, KeyInv, IntakeInv
  <2> QED
    BY <2>1, <2>2, <2>3 DEF ServesItsKey
<1>7. ASSUME NEW h \in Handlers, Hear(h) PROVE ServesItsKey'
  BY <1>1, <1>7 DEF Hear, intakeVars
<1>8. ASSUME NEW h \in Handlers, Intake(h) PROVE ServesItsKey'
  BY <1>8, WhoIsAtWork DEF ServesItsKey
<1>9. ASSUME NEW i \in DOMAIN leads, SoftPull(i) \/ Review(i) \/ Notice(i) PROVE ServesItsKey'
  <2>1. UNCHANGED <<pc, input>>
    BY <1>9, StageMoves DEF SoftPull, Review, Notice, intakeVars, S!Moves
  <2> QED
    BY <1>1, <1>9, <2>1 DEF SoftPull, Review, Notice
<1>10. CASE UNCHANGED vars
  BY <1>1, <1>10 DEF vars, intakeVars
<1> QED
  BY <1>2, <1>3, <1>4, <1>5, <1>6, <1>7, <1>8, <1>9, <1>10 DEF Next

Refusing(h) == answer'[h] # answer[h]
                 /\ answer'[h].error \in {"application_in_progress", "duplicate_submission"}

\* Intake refuses in one place, after it has looked for the key.
LEMMA RefusedWithoutLead ==
  ASSUME KeyInv, [Next]_vars, NEW h \in Handlers, Refusing(h)
  PROVE  pc[h] = "refused" /\ S!LeadOfKey(input[h].key) = 0
<1>1. DOMAIN answer = Handlers
  BY DEF KeyInv, IntakeInv
<1>2. ~ UNCHANGED answer
  BY DEF Refusing
<1>3. ASSUME NEW g \in Handlers, NEW a, S!Reply(g, a)
      PROVE  g = h /\ a.error \in {"application_in_progress", "duplicate_submission"}
  BY <1>1, <1>3 DEF S!Reply, Refusing
<1>4. ASSUME NEW g \in Handlers, S!AnswerWithKeysLead(g) PROVE FALSE
  BY <1>3, <1>4 DEF S!AnswerWithKeysLead, S!LeadAnswer, S!ErrorAnswer
<1>5. ASSUME NEW g \in Handlers, Intake(g) PROVE g = h /\ S!Refused(g)
  <2>1. CASE S!Insert(g)
    BY <1>2, <1>3, <2>1 DEF S!Insert, S!Inserted, S!InsertRefused, S!Refuse,
                            S!LeadAnswer, S!ErrorAnswer
  <2>2. CASE S!FindByKey(g)
    BY <1>2, <1>4, <2>2 DEF S!FindByKey
  <2>3. CASE S!FindRecent(g) \/ \E i \in recent[g] : S!LoadRecent(g, i)
    BY <1>2, <2>3 DEF S!FindRecent, S!LoadRecent
  <2>4. CASE S!MatchRecent(g)
    BY <1>2, <1>3, <2>4 DEF S!MatchRecent, S!LeadAnswer
  <2>5. CASE S!Refused(g)
    BY <1>3, <1>4, <2>5 DEF S!Refused
  <2>6. CASE S!CheckOpen(g)
    BY <1>2, <2>6 DEF S!CheckOpen, S!Refuse
  <2> QED
    BY <1>5, <2>1, <2>2, <2>3, <2>4, <2>5, <2>6 DEF Intake, Inserting
<1>6. ASSUME NEW g \in Handlers, NEW n \in inFlight, Arrive(g, n) PROVE FALSE
  BY <1>1, <1>6 DEF Arrive, S!Submit, S!NoAnswer, Refusing
<1>7. ASSUME NEW i \in DOMAIN leads, SoftPull(i) \/ Review(i) \/ Notice(i) PROVE FALSE
  BY <1>2, <1>7, StageMoves DEF SoftPull, Review, Notice, intakeVars, S!Moves
<1>8. PICK g \in Handlers : Intake(g)
  BY <1>2, <1>6, <1>7 DEF Next, vars, intakeVars, Blur, Update, UpdateWith, ChooseOutcome, SubmitInvalid,
     SubmitValid, OpenPage, NetworkError, Hear
<1>9. S!Refused(h)
  BY <1>5, <1>8
<1> QED
  BY <1>4, <1>9 DEF S!Refused

\* A borrower who tries again what was already stored is answered with that Lead.
THEOREM TryingAgainIsNotRefused == Spec => RetryFindsItsLead
<1> DEFINE Inv == KeyInv /\ AttemptInv /\ ServesItsKey
           Unrefused == \A h \in Handlers :
             answer'[h] # answer[h]
               /\ answer'[h].error \in {"application_in_progress", "duplicate_submission"} =>
             ~ \E i \in DOMAIN leads, n \in DOMAIN posted :
                 leads[i].key = posted[n].key /\ SameAttempt(n, serving[h])
<1>1. Init => Inv
  <2>1. Init => AttemptInv
    BY DEF Init, AttemptInv, Remembered
  <2>2. Init => ServesItsKey
    BY DEF Init, ServesItsKey
  <2> QED
    BY <2>1, <2>2, KeyInit
<1>2. Inv /\ [Next]_vars => Inv'
  <2>1. KeyInv /\ [Next]_vars => KeyInv'
    BY FormStep, PageStep, IntakeStep DEF KeyInv
  <2> QED
    BY <2>1, AttemptStep, ServesStep
<1>3. ASSUME Inv, [Next]_vars, NEW h \in Handlers, Refusing(h),
             NEW i \in DOMAIN leads, NEW n \in DOMAIN posted,
             leads[i].key = posted[n].key, SameAttempt(n, serving[h])
      PROVE  FALSE
  <2>1. pc[h] = "refused" /\ S!LeadOfKey(input[h].key) = 0
    BY <1>3, RefusedWithoutLead
  <2>2. input[h].key = posted[n].key
    BY <1>3, <2>1 DEF ServesItsKey, AttemptInv
  <2>3. posted[n].key # NoKey
    <3>1. posted[n] \in Posts
      BY <1>3, ElementOfSeq DEF KeyInv, PageInv
    <3> QED
      BY <3>1, KeysAreNumbers DEF Posts
  <2>4. DOMAIN leads \subseteq Nat \ {0}
    BY <1>3 DEF KeyInv, IntakeInv
  <2> QED
    BY <1>3, <2>1, <2>2, <2>3, <2>4 DEF S!LeadOfKey, S!HasKey
<1>4. Inv /\ [Next]_vars => [Unrefused]_vars
  BY <1>3 DEF Refusing
<1> QED
  BY <1>1, <1>2, <1>4, PTL DEF Spec, RetryFindsItsLead

------------------------------------------------------------------------------
(* The decisions.                                                           *)

Verdicts ==
  {NoOutcome} \union {RunSoftPull(pull, o) : pull \in SoftPulls, o \in Outcomes \union {NoOutcome}}
    \union {ReviewDocuments(pull) : pull \in SoftPulls}
Decisions == [forced : Outcomes \union {NoOutcome}, pull : Verdicts, review : Verdicts]

\* Decision d follows the rules for answers a, unless it was forced; the review always does.
FollowsTheRules(d, a) ==
  /\ d.pull # NoOutcome /\ d.forced = NoOutcome => d.pull = Evaluate(a)
  /\ d.review # NoOutcome =>
       /\ d.review = ReviewDocuments(a)
       /\ d.forced = NoOutcome => Evaluate(a).status = "need-more-documents"

DecisionInv ==
  /\ decisions \in Seq(Decisions) /\ Len(decisions) = Len(leads)
  /\ \A i \in DOMAIN leads : FollowsTheRules(decisions[i], leads[i].answers)

DecidedInv == KeyInv /\ DecisionInv

\* A step that leaves the answers of the Leads and what Figure decided.
LEMMA DecisionsStay ==
  ASSUME DecisionInv, decisions' = decisions, leads' \in Seq(S!LeadRows),
         leads \in Seq(S!LeadRows), DOMAIN leads' = DOMAIN leads,
         \A i \in DOMAIN leads : leads'[i].answers = leads[i].answers
  PROVE  DecisionInv'
<1>1. Len(leads') = Len(leads)
  OBVIOUS
<1>2. \A i \in DOMAIN leads' : FollowsTheRules(decisions'[i], leads'[i].answers)
  BY DEF DecisionInv
<1> QED
  BY <1>1, <1>2 DEF DecisionInv, FollowsTheRules

\* A step that decides one Lead.
LEMMA OneDecided ==
  ASSUME DecisionInv, NEW i \in DOMAIN leads, NEW d \in Decisions,
         decisions' = [decisions EXCEPT ![i] = d], leads' \in Seq(S!LeadRows),
         leads \in Seq(S!LeadRows), DOMAIN leads' = DOMAIN leads,
         \A j \in DOMAIN leads : leads'[j].answers = leads[j].answers,
         FollowsTheRules(d, leads[i].answers)
  PROVE  DecisionInv'
<1>1. Len(leads') = Len(leads) /\ DOMAIN decisions = DOMAIN leads
  BY DEF DecisionInv
<1>2. decisions' \in Seq(Decisions) /\ Len(decisions') = Len(decisions)
  BY <1>1 DEF DecisionInv
<1>3. \A j \in DOMAIN leads : decisions'[j] = IF j = i THEN d ELSE decisions[j]
  BY <1>1 DEF DecisionInv
<1>4. \A j \in DOMAIN leads' : FollowsTheRules(decisions'[j], leads'[j].answers)
  BY <1>3 DEF DecisionInv
<1> QED
  BY <1>1, <1>2, <1>4 DEF DecisionInv, FollowsTheRules

LEMMA DecisionInserts ==
  ASSUME DecidedInv, NEW h \in Handlers, Inserting(h)
  PROVE  DecisionInv'
<1>0. leads \in Seq(S!LeadRows) /\ DecisionInv
  BY DEF DecidedInv, KeyInv, IntakeInv
<1>1. CASE leads' = leads
  BY <1>0, <1>1, DecisionsStay DEF Inserting
<1>2. CASE leads' # leads
  <2>1. PICK row : leads' = Append(leads, row)
    BY <1>2 DEF Inserting, S!Insert, S!Inserted, S!InsertRefused, S!Refuse
  <2>2. decisions' = Append(decisions, Undecided)
    BY <1>2 DEF Inserting
  <2>3. Undecided \in Decisions /\ FollowsTheRules(Undecided, row.answers)
    BY DEF Undecided, Decisions, Verdicts, FollowsTheRules
  <2>4. leads' \in Seq(S!LeadRows \union {row}) /\ Len(leads') = Len(leads) + 1
    BY <1>0, <2>1
  <2>5. decisions' \in Seq(Decisions) /\ Len(decisions') = Len(decisions) + 1
    BY <1>0, <2>2, <2>3 DEF DecisionInv
  <2>6. \A j \in DOMAIN leads' : FollowsTheRules(decisions'[j], leads'[j].answers)
    <3>1. TAKE j \in DOMAIN leads'
    <3>2. CASE j \in DOMAIN leads
      <4>1. leads'[j] = leads[j] /\ decisions'[j] = decisions[j]
        BY <1>0, <2>1, <2>2, <3>2 DEF DecisionInv
      <4> QED
        BY <1>0, <3>2, <4>1 DEF DecisionInv
    <3>3. CASE j = Len(leads) + 1
      <4>1. leads'[j] = row /\ decisions'[j] = Undecided
        BY <1>0, <2>1, <2>2, <3>3 DEF DecisionInv
      <4> QED
        BY <2>3, <4>1
    <3> QED
      BY <1>0, <2>4, <3>2, <3>3
  <2> QED
    BY <1>0, <2>4, <2>5, <2>6 DEF DecisionInv, FollowsTheRules
<1> QED
  BY <1>1, <1>2

\* The answers of a Lead are those of a submission, which the page found valid.
LEMMA AnswersAreValid ==
  ASSUME KeyInv, NEW i \in DOMAIN leads
  PROVE  leads[i].answers \in SoftPulls
<1>1. leads[i] \in S!LeadRows
  BY ElementOfSeq DEF KeyInv, IntakeInv
<1> QED
  BY <1>1 DEF S!LeadRows

LEMMA DecisionPulls ==
  ASSUME DecidedInv, NEW i \in DOMAIN leads, SoftPull(i)
  PROVE  DecisionInv'
<1>0. leads \in Seq(S!LeadRows) /\ DecisionInv /\ posted \in Seq(Posts)
  BY DEF DecidedInv, KeyInv, IntakeInv, PageInv
<1>1. PICK forced \in ForcedOutcomes(i) :
        decisions' = [decisions EXCEPT ![i] =
          [forced |-> forced, pull |-> RunSoftPull(leads[i].answers, forced),
           review |-> NoOutcome]]
  BY DEF SoftPull
<1>2. forced \in Outcomes \union {NoOutcome}
  <2>1. \A n \in DOMAIN posted : posted[n] \in Posts
    BY <1>0
  <2>2. \A p \in Posts : p.mock \in Outcomes \union {NoOutcome}
    BY DEF Posts
  <2>3. forced = NoOutcome \/ \E n \in DOMAIN posted : forced = posted[n].mock
    BY DEF ForcedOutcomes
  <2> QED
    BY <2>1, <2>2, <2>3
<1>3. leads[i].answers \in SoftPulls
  BY AnswersAreValid DEF DecidedInv
<1> DEFINE d == [forced |-> forced, pull |-> RunSoftPull(leads[i].answers, forced),
                 review |-> NoOutcome]
<1>4. d \in Decisions
  BY <1>2, <1>3 DEF Decisions, Verdicts
<1>5. FollowsTheRules(d, leads[i].answers)
  BY DEF FollowsTheRules, RunSoftPull
<1>6. /\ leads' \in Seq(S!LeadRows) /\ DOMAIN leads' = DOMAIN leads
      /\ \A j \in DOMAIN leads : leads'[j].answers = leads[j].answers
  <2>1. CASE UNCHANGED intakeVars
    BY <1>0, <2>1 DEF intakeVars
  <2>2. CASE S!Settle(i)
    BY <1>0, <2>2, StageMoves, MovesKeepRows
  <2> QED
    BY <2>1, <2>2 DEF SoftPull
<1>7. decisions' = [decisions EXCEPT ![i] = d]
  BY <1>1
<1> HIDE DEF d
<1> QED
  BY <1>0, <1>4, <1>5, <1>6, <1>7, OneDecided

LEMMA DecisionReviews ==
  ASSUME DecidedInv, NEW i \in DOMAIN leads, Review(i)
  PROVE  DecisionInv'
<1>0. leads \in Seq(S!LeadRows) /\ DecisionInv
  BY DEF DecidedInv, KeyInv, IntakeInv
<1>1. leads[i].answers \in SoftPulls
  BY AnswersAreValid DEF DecidedInv
<1>2. decisions[i] \in Decisions /\ FollowsTheRules(decisions[i], leads[i].answers)
  <2>1. i \in 1..Len(decisions)
    BY <1>0 DEF DecisionInv
  <2> QED
    BY <1>0, <2>1, ElementOfSeq DEF DecisionInv
<1> DEFINE d == [decisions[i] EXCEPT !.review = ReviewDocuments(leads[i].answers)]
<1>3. d \in Decisions
  BY <1>1, <1>2 DEF Decisions, Verdicts
<1>4. /\ d.forced = decisions[i].forced /\ d.pull = decisions[i].pull
      /\ d.review = ReviewDocuments(leads[i].answers)
  BY <1>2 DEF Decisions
<1>5. decisions' = [decisions EXCEPT ![i] = d]
  BY DEF Review
<1> HIDE DEF d
<1>6. decisions[i].pull # NoOutcome /\ decisions[i].pull.status = "need-more-documents"
  BY DEF Review
<1>7. FollowsTheRules(d, leads[i].answers)
  BY <1>2, <1>4, <1>6 DEF FollowsTheRules
<1>8. /\ leads' \in Seq(S!LeadRows) /\ DOMAIN leads' = DOMAIN leads
      /\ \A j \in DOMAIN leads : leads'[j].answers = leads[j].answers
  BY <1>0, StageMoves, MovesKeepRows DEF Review
<1> QED
  BY <1>0, <1>3, <1>5, <1>7, <1>8, OneDecided

LEMMA DecisionStep == DecidedInv /\ [Next]_vars => DecisionInv'
<1> SUFFICES ASSUME DecidedInv, [Next]_vars PROVE DecisionInv'
  OBVIOUS
<1>0. leads \in Seq(S!LeadRows) /\ DecisionInv
  BY DEF DecidedInv, KeyInv, IntakeInv
<1>1. CASE UNCHANGED <<leads, decisions>>
  BY <1>0, <1>1, DecisionsStay
<1>2. ASSUME NEW f \in LeadFields, Blur(f) \/ \E v \in Typed[f] : Update(f, v) PROVE DecisionInv'
  BY <1>1, <1>2 DEF Blur, Update, UpdateWith, intakeVars
<1>3. ASSUME NEW o \in Outcomes \union {NoOutcome}, ChooseOutcome(o) PROVE DecisionInv'
  BY <1>1, <1>3 DEF ChooseOutcome, intakeVars
<1>4. CASE SubmitInvalid \/ SubmitValid \/ OpenPage \/ NetworkError
  BY <1>1, <1>4 DEF SubmitInvalid, SubmitValid, OpenPage, NetworkError, intakeVars
<1>5. ASSUME NEW h \in Handlers, NEW n \in inFlight, Arrive(h, n) PROVE DecisionInv'
  BY <1>1, <1>5 DEF Arrive, S!Submit
<1>6. ASSUME NEW h \in Handlers, Hear(h) PROVE DecisionInv'
  BY <1>1, <1>6 DEF Hear, intakeVars
<1>7. ASSUME NEW h \in Handlers, Intake(h) PROVE DecisionInv'
  <2>1. CASE Inserting(h)
    BY <2>1, DecisionInserts
  <2>2. CASE ~ Inserting(h)
    <3>1. decisions' = decisions
      BY <1>7, <2>2 DEF Intake
    <3>2. leads' = leads
      BY <1>7, <2>2 DEF Intake, S!FindByKey, S!FindRecent, S!MatchRecent, S!CheckOpen, S!Refuse,
                        S!Refused, S!LoadRecent
    <3> QED
      BY <1>1, <3>1, <3>2
  <2> QED
    BY <2>1, <2>2
<1>8. ASSUME NEW i \in DOMAIN leads, SoftPull(i) \/ Review(i) PROVE DecisionInv'
  BY <1>8, DecisionPulls, DecisionReviews
<1>9. ASSUME NEW i \in DOMAIN leads, Notice(i) PROVE DecisionInv'
  <2>1. /\ leads' \in Seq(S!LeadRows) /\ DOMAIN leads' = DOMAIN leads
        /\ \A j \in DOMAIN leads : leads'[j].answers = leads[j].answers
    BY <1>0, <1>9, StageMoves, MovesKeepRows DEF Notice
  <2> QED
    BY <1>0, <1>9, <2>1, DecisionsStay DEF Notice
<1>10. CASE UNCHANGED vars
  BY <1>1, <1>10 DEF vars, intakeVars
<1> QED
  BY <1>2, <1>3, <1>4, <1>5, <1>6, <1>7, <1>8, <1>9, <1>10 DEF Next

LEMMA DecisionInvariant == Spec => []DecidedInv
<1>1. Init => DecisionInv
  BY DEF Init, DecisionInv
<1>2. DecidedInv /\ [Next]_vars => DecidedInv'
  <2>1. KeyInv /\ [Next]_vars => KeyInv'
    BY FormStep, PageStep, IntakeStep DEF KeyInv
  <2> QED
    BY <2>1, DecisionStep DEF DecidedInv
<1> QED
  BY <1>1, <1>2, KeyInit, PTL DEF Spec, DecidedInv

\* What the page previews of the equity is what Figure decides by, and offers, for every
\* application, unless the demo outcome overrides it.
THEOREM PreviewHolds == Spec => []PreviewIsKept
<1>1. DecidedInv => PreviewIsKept
  <2> SUFFICES ASSUME DecidedInv, NEW i \in DOMAIN leads, decisions[i].pull # NoOutcome,
                      decisions[i].forced = NoOutcome
               PROVE  LET a == leads[i].answers
                          equity == PreviewedEquity(a.home, a.mortgage)
                          pull == decisions[i].pull IN
                        /\ Enough(equity) <=> pull.reason # "insufficient_home_equity"
                        /\ pull.status = "approved" =>
                             /\ HelocLimits.minLine <= pull.amount
                             /\ pull.amount <= HelocLimits.maxLine
                             /\ 100 * pull.amount <= equity
    BY DEF PreviewIsKept
  <2>1. leads[i].answers \in SoftPulls
    BY AnswersAreValid DEF DecidedInv
  <2>2. decisions[i].pull = Evaluate(leads[i].answers)
    BY DEF DecidedInv, DecisionInv, FollowsTheRules
  <2>3. HelocLimits.minLine = MinLine /\ HelocLimits.maxLine = MaxLine
    BY DEF HelocLimits, MinLine, MaxLine
  <2> QED
    BY <2>1, <2>2, <2>3, PreviewIsTheRule, ApprovedByTheRules
<1> QED
  BY <1>1, DecisionInvariant, PTL

\* Who is asked for documents by the rules is approved on sending them, and no review, of a
\* forced request either, offers more than the equity.
THEOREM PromiseHolds == Spec => []ReviewKeepsThePromise
<1>1. DecidedInv => ReviewKeepsThePromise
  <2> SUFFICES ASSUME DecidedInv, NEW i \in DOMAIN leads, decisions[i].review # NoOutcome
               PROVE  LET a == leads[i].answers
                          review == decisions[i].review IN
                        /\ decisions[i].forced = NoOutcome => review.status = "approved"
                        /\ review.status = "approved" => 100 * review.amount <= AvailableEquity(a)
    BY DEF ReviewKeepsThePromise
  <2>1. leads[i].answers \in SoftPulls
    BY AnswersAreValid DEF DecidedInv
  <2>2. /\ decisions[i].review = ReviewDocuments(leads[i].answers)
        /\ decisions[i].forced = NoOutcome =>
             Evaluate(leads[i].answers).status = "need-more-documents"
    BY DEF DecidedInv, DecisionInv, FollowsTheRules
  <2> QED
    BY <2>1, <2>2, ReviewIsConsistent
<1> QED
  BY <1>1, DecisionInvariant, PTL

------------------------------------------------------------------------------
(* Types.                                                                   *)

FormTypes ==
  /\ edits \in 0..MaxEdits /\ attempted \in BOOLEAN /\ submitting \in BOOLEAN
  /\ formError \in {"none", "in_progress", "try_again"}

ServiceTypes ==
  /\ requests \in Nat /\ serving \in [Handlers -> Nat]
  /\ input \in [Handlers -> S!Submissions] /\ answer \in [Handlers -> S!Answered]
  /\ recent \in [Handlers -> SUBSET Nat] /\ repeated \in [Handlers -> Nat]

LEMMA FormTypesStep == FormTypes /\ [Next]_vars => FormTypes'
<1> SUFFICES ASSUME FormTypes, [Next]_vars PROVE FormTypes'
  OBVIOUS
<1>0. MaxEdits \in Nat
  BY QuizAssumption
<1>1. CASE UNCHANGED <<edits, attempted, submitting, formError>>
  BY <1>1 DEF FormTypes
<1>2. ASSUME NEW f \in LeadFields, Blur(f) \/ \E v \in Typed[f] : Update(f, v) PROVE FormTypes'
  BY <1>0, <1>2 DEF Blur, Update, UpdateWith, Edit, FormTypes
<1>3. ASSUME NEW o \in Outcomes \union {NoOutcome}, ChooseOutcome(o) PROVE FormTypes'
  BY <1>0, <1>3 DEF ChooseOutcome, Edit, FormTypes
<1>4. CASE SubmitInvalid \/ SubmitValid \/ OpenPage \/ NetworkError
  BY <1>4 DEF SubmitInvalid, SubmitValid, OpenPage, NetworkError, FormTypes
<1>5. ASSUME NEW h \in Handlers, NEW n \in inFlight, Arrive(h, n) PROVE FormTypes'
  BY <1>1, <1>5 DEF Arrive, pageVars
<1>6. ASSUME NEW h \in Handlers, Hear(h) PROVE FormTypes'
  BY <1>6 DEF Hear, SettleForm, Shown, FormTypes
<1>7. ASSUME NEW h \in Handlers, Intake(h) PROVE FormTypes'
  BY <1>1, <1>7 DEF Intake, pageVars
<1>8. ASSUME NEW i \in DOMAIN leads, SoftPull(i) \/ Review(i) \/ Notice(i) PROVE FormTypes'
  BY <1>1, <1>8 DEF SoftPull, Review, Notice, pageVars
<1>9. CASE UNCHANGED vars
  BY <1>1, <1>9 DEF vars, pageVars
<1> QED
  BY <1>2, <1>3, <1>4, <1>5, <1>6, <1>7, <1>8, <1>9 DEF Next

\* Every answer of intake is one of those it may give.
LEMMA AnswersAreTyped ==
  ASSUME KeyInv, NEW h \in Handlers
  PROVE  /\ S!NoAnswer \in S!Answered
         /\ \A i \in Nat : S!LeadAnswer(i) \in S!Answered
         /\ \A e \in S!Refusals \union {"idempotency_key_reused", "interrupted"} :
              S!ErrorAnswer(e) \in S!Answered
         /\ S!LeadOfKey(input[h].key) \in Nat
<1>1. leads \in Seq(S!LeadRows)
  BY DEF KeyInv, IntakeInv
<1>2. DOMAIN leads \subseteq Nat
  BY <1>1
<1> QED
  BY <1>2 DEF S!NoAnswer, S!LeadAnswer, S!ErrorAnswer, S!Answered, S!Refusals, S!LeadOfKey

LEMMA ServiceServes ==
  ASSUME KeyInv, ServiceTypes, NEW h \in Handlers, Intake(h)
  PROVE  ServiceTypes'
<1>1. leads \in Seq(S!LeadRows) /\ Len(leads) + 1 \in Nat /\ DOMAIN leads \subseteq Nat
      /\ refusal \in [Handlers -> S!Refusals]
  BY DEF KeyInv, IntakeInv
<1>2. UNCHANGED <<serving, input, requests>>
  BY DEF Intake, Inserting, S!Insert, S!FindByKey, S!FindRecent, S!MatchRecent,
         S!CheckOpen, S!Refused, S!LoadRecent
<1>3. ASSUME NEW a \in S!Answered, S!Reply(h, a) PROVE answer' \in [Handlers -> S!Answered]
  BY <1>3 DEF S!Reply, ServiceTypes
<1>4. ASSUME S!AnswerWithKeysLead(h) PROVE answer' \in [Handlers -> S!Answered]
  <2> DEFINE i == S!LeadOfKey(input[h].key)
  <2>1. i \in Nat
    BY AnswersAreTyped
  <2> HIDE DEF i
  <2>2. \/ S!Reply(h, S!LeadAnswer(i))
        \/ S!Reply(h, S!ErrorAnswer("idempotency_key_reused"))
    BY <1>4 DEF S!AnswerWithKeysLead, i
  <2> QED
    BY <1>3, <2>1, <2>2, AnswersAreTyped
<1>5. CASE S!Insert(h)
  <2>1. UNCHANGED <<recent, repeated>>
    BY <1>5 DEF S!Insert
  <2>2. \/ S!Reply(h, S!LeadAnswer(Len(leads) + 1))
        \/ S!Reply(h, S!ErrorAnswer("interrupted"))
        \/ UNCHANGED answer
    BY <1>5 DEF S!Insert, S!Inserted, S!InsertRefused, S!Refuse
  <2>3. answer' \in [Handlers -> S!Answered]
    BY <1>1, <1>3, <2>2, AnswersAreTyped DEF ServiceTypes
  <2> QED
    BY <1>2, <2>1, <2>3 DEF ServiceTypes
<1>6. CASE S!FindByKey(h)
  <2>1. answer' \in [Handlers -> S!Answered]
    BY <1>4, <1>6 DEF S!FindByKey, ServiceTypes
  <2> QED
    BY <1>2, <1>6, <2>1 DEF S!FindByKey, ServiceTypes
<1>7. CASE S!FindRecent(h)
  <2>1. recent' \in [Handlers -> SUBSET Nat] /\ repeated' \in [Handlers -> Nat]
    BY <1>1, <1>7 DEF S!FindRecent, ServiceTypes
  <2> QED
    BY <1>2, <1>7, <2>1 DEF S!FindRecent, ServiceTypes
<1>8. ASSUME NEW i \in recent[h], S!LoadRecent(h, i) PROVE ServiceTypes'
  <2>1. i \in Nat /\ recent[h] \ {i} \in SUBSET Nat
    BY DEF ServiceTypes
  <2>2. recent' \in [Handlers -> SUBSET Nat] /\ repeated' \in [Handlers -> Nat]
    BY <1>8, <2>1 DEF S!LoadRecent, ServiceTypes
  <2> QED
    BY <1>2, <1>8, <2>2 DEF S!LoadRecent, ServiceTypes
<1>9. CASE S!MatchRecent(h)
  <2>1. repeated[h] \in Nat
    BY DEF ServiceTypes
  <2>2. S!LeadAnswer(repeated[h]) \in S!Answered
    BY <2>1, AnswersAreTyped
  <2>3. answer' \in [Handlers -> S!Answered]
    BY <1>3, <1>9, <2>2 DEF S!MatchRecent, ServiceTypes
  <2> QED
    BY <1>2, <1>9, <2>3 DEF S!MatchRecent, ServiceTypes
<1>10. CASE S!Refused(h)
  <2>1. S!ErrorAnswer(refusal[h]) \in S!Answered
    BY <1>1, AnswersAreTyped
  <2>2. answer' \in [Handlers -> S!Answered]
    BY <1>3, <1>4, <1>10, <2>1 DEF S!Refused, ServiceTypes
  <2> QED
    BY <1>2, <1>10, <2>2 DEF S!Refused, ServiceTypes
<1>11. CASE S!CheckOpen(h)
  BY <1>2, <1>11 DEF S!CheckOpen, S!Refuse, ServiceTypes
<1> QED
  BY <1>5, <1>6, <1>7, <1>8, <1>9, <1>10, <1>11 DEF Intake, Inserting

LEMMA ServiceArrives ==
  ASSUME KeyInv, ServiceTypes, NEW h \in Handlers, NEW n \in inFlight, Arrive(h, n)
  PROVE  ServiceTypes'
<1> DEFINE s == [email |-> Borrower, answers |-> posted[n].answers, key |-> posted[n].key]
<1>1. posted \in Seq(Posts) /\ n \in DOMAIN posted /\ n \in Nat
  BY DEF KeyInv, PageInv
<1>2. posted[n] \in Posts
  BY <1>1, ElementOfSeq
<1>3. s \in S!Submissions
  BY <1>2 DEF Posts, S!Submissions
<1>4. /\ requests' = requests + 1 /\ serving' = [serving EXCEPT ![h] = n]
      /\ input' = [input EXCEPT ![h] = s] /\ answer' = [answer EXCEPT ![h] = S!NoAnswer]
      /\ UNCHANGED <<recent, repeated>>
  BY DEF Arrive, S!Submit
<1> HIDE DEF s
<1> QED
  BY <1>1, <1>3, <1>4, AnswersAreTyped DEF ServiceTypes

LEMMA ServiceTypesStep == KeyInv /\ ServiceTypes /\ [Next]_vars => ServiceTypes'
<1> SUFFICES ASSUME KeyInv, ServiceTypes, [Next]_vars PROVE ServiceTypes'
  OBVIOUS
<1>1. CASE UNCHANGED <<requests, serving, input, answer, recent, repeated>>
  BY <1>1 DEF ServiceTypes
<1>2. ASSUME NEW f \in LeadFields, Blur(f) \/ \E v \in Typed[f] : Update(f, v) PROVE ServiceTypes'
  BY <1>1, <1>2 DEF Blur, Update, UpdateWith, intakeVars
<1>3. ASSUME NEW o \in Outcomes \union {NoOutcome}, ChooseOutcome(o) PROVE ServiceTypes'
  BY <1>1, <1>3 DEF ChooseOutcome, intakeVars
<1>4. CASE SubmitInvalid \/ SubmitValid \/ OpenPage \/ NetworkError
  BY <1>1, <1>4 DEF SubmitInvalid, SubmitValid, OpenPage, NetworkError, intakeVars
<1>5. ASSUME NEW h \in Handlers, NEW n \in inFlight, Arrive(h, n) PROVE ServiceTypes'
  BY <1>5, ServiceArrives
<1>6. ASSUME NEW h \in Handlers, Hear(h) PROVE ServiceTypes'
  BY <1>1, <1>6 DEF Hear, intakeVars
<1>7. ASSUME NEW h \in Handlers, Intake(h) PROVE ServiceTypes'
  BY <1>7, ServiceServes
<1>8. ASSUME NEW i \in DOMAIN leads, SoftPull(i) \/ Review(i) \/ Notice(i) PROVE ServiceTypes'
  BY <1>1, <1>8, StageMoves DEF SoftPull, Review, Notice, intakeVars, S!Moves
<1>9. CASE UNCHANGED vars
  BY <1>1, <1>9 DEF vars, intakeVars
<1> QED
  BY <1>2, <1>3, <1>4, <1>5, <1>6, <1>7, <1>8, <1>9 DEF Next

\* The page, the network, intake and Figure stay within their types.
THEOREM QuizTypes == Spec => []TypeOK
<1> DEFINE Typing == KeyInv /\ FormTypes /\ ServiceTypes
<1>1. Init => Typing
  <2> SUFFICES ASSUME Init PROVE Typing
    OBVIOUS
  <2>1. NoInput \in S!Submissions
    BY QuizAssumption DEF NoInput, S!Submissions, SoftPulls, CreditBands
  <2>2. S!NoAnswer \in S!Answered
    BY DEF S!NoAnswer, S!Answered, S!Refusals
  <2>3. 0 \in 0..MaxEdits
    BY QuizAssumption
  <2>4. FormTypes
    BY <2>3 DEF Init, FormTypes
  <2>5. ServiceTypes
    BY <2>1, <2>2 DEF Init, ServiceTypes
  <2> QED
    BY <2>4, <2>5, KeyInit
<1>2. Typing /\ [Next]_vars => Typing'
  <2>1. KeyInv /\ [Next]_vars => KeyInv'
    BY FormStep, PageStep, IntakeStep DEF KeyInv
  <2> QED
    BY <2>1, FormTypesStep, ServiceTypesStep
<1>3. ASSUME Typing, Owned, FormWaits, DecisionInv PROVE TypeOK
  <2>1. S!TypeOK
    BY <1>3 DEF S!TypeOK, ServiceTypes, KeyInv, IntakeInv
  <2>2. /\ \A f \in MoneyFields : draft[f] \in RawMoney
        /\ draft.credit_band \in CreditBands \union {Missing} /\ errors \subseteq LeadFields
    BY <1>3 DEF KeyInv, FormInv, FormDrafts, MoneyFields, ErrorsAreCurrent, ValidateLead
  <2>3. posted \in Seq(Posts) /\ leads \in Seq(S!LeadRows)
    BY <1>3 DEF KeyInv, PageInv, IntakeInv
  <2>4. last.key \in Keys \union {NoKey}
    <3>1. \A n \in DOMAIN posted : posted[n] \in Posts
      BY <2>3, ElementOfSeq
    <3>2. \A n \in DOMAIN posted : posted[n].key \in Keys
      BY <3>1 DEF Posts
    <3> QED
      BY <1>3, <3>2 DEF KeyInv, PageInv, NothingSubmitted
  <2>5. result \in 0..Len(leads) /\ waiting \in 0..Len(posted)
    BY <1>3, <2>3 DEF FormWaits
  <2>6. serving \in [Handlers -> 0..Len(posted)]
    BY <1>3, <2>3 DEF FormWaits, ServiceTypes
  <2> QED
    BY <1>3, <2>1, <2>2, <2>4, <2>5, <2>6 DEF TypeOK, FormTypes, KeyInv, PageInv, DecisionInv
<1>4. Typing /\ Owned /\ FormWaits /\ DecisionInv => TypeOK
  BY <1>3
<1>5. Spec => []Typing
  BY <1>1, <1>2, PTL DEF Spec
<1>6. DecidedInv => DecisionInv
  BY DEF DecidedInv
<1> QED
  BY <1>4, <1>5, <1>6, ResultInvariant, DecisionInvariant, PTL
==============================================================================
