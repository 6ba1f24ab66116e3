---------------------------- MODULE Underwriting -----------------------------
(***************************************************************************)
(* The rules behind a soft pull and a document review at Figure (mock)     *)
(* (soft-pull-policy.ts), and the preview the quiz gives of them           *)
(* (money.ts), which the code writes down twice.  Amounts are dollars;     *)
(* equity is kept in hundredths of a dollar, so that 85% of a home is      *)
(* exact.  The code computes both sides of each comparison below with the  *)
(* same floating-point expression.  APR, term and payment are left out.    *)
(***************************************************************************)
EXTENDS Integers, Sequences

\* Bands are represented by their position: '<580' is 1, '620-659' is 3, '780+' is 7.
CreditBands == 1..7
IncomeBands == 1..6

\* What Figure accepts as a soft pull, in whole dollars.
SoftPulls == [home : Nat \ {0}, mortgage : Nat, credit : CreditBands, income : IncomeBands]

------------------------------------------------------------------------------
(* What contracts publish and the quiz previews with.                       *)

HelocLimits == [maxCombinedLtv |-> 85, minLine |-> 25000, maxLine |-> 400000]

PreviewedEquity(home, mortgage) == home * HelocLimits.maxCombinedLtv - mortgage * 100

\* equityHint: does the preview say that the equity reaches the smallest line?
EnoughAbove(equity) ==   \* mutant: exactly the smallest line is not enough
  equity > 100 * HelocLimits.minLine
Enough(equity) == equity >= 100 * HelocLimits.minLine

------------------------------------------------------------------------------
(* What Figure decides.                                                     *)

MaxCombinedLtv == 85
MinLine == 25000
MaxLine == 400000
Step == 5000

AvailableEquity(pull) == pull.home * MaxCombinedLtv - pull.mortgage * 100

IncomeCap == <<50000, 100000, 150000, 250000, 350000, MaxLine>>

Least(a, b) == IF a <= b THEN a ELSE b
Greatest(a, b) == IF a >= b THEN a ELSE b

Cap(pull) == Least(AvailableEquity(pull), 100 * Least(IncomeCap[pull.income], MaxLine))
\* calculateOffer: rounded down to a step, but never below the smallest line.
OfferAmount(pull) == Greatest(MinLine, (Cap(pull) \div (100 * Step)) * Step)

RequiredDocuments(pull) ==
  {"income_verification"} \union
    IF pull.mortgage * 10 > pull.home * 6 THEN {"mortgage_statement"} ELSE {}

Statuses == {"approved", "rejected", "need-more-documents"}
Outcome(status, reason, amount, documents) ==
  [status |-> status, reason |-> reason, amount |-> amount, documents |-> documents]
Approved(pull) == Outcome("approved", "", OfferAmount(pull), {})
Rejected(reason) == Outcome("rejected", reason, 0, {})
NeedMoreDocuments(pull) == Outcome("need-more-documents", "", 0, RequiredDocuments(pull))

Evaluate(pull) ==
  IF AvailableEquity(pull) < 100 * MinLine THEN Rejected("insufficient_home_equity")
  ELSE IF pull.credit < 3 THEN Rejected("credit_below_minimum")
  ELSE IF pull.credit >= 6 THEN Approved(pull)
  ELSE NeedMoreDocuments(pull)

\* A Forced Outcome keeps the rules' details where the rules agree with it.
Forced(pull, status) ==
  IF Evaluate(pull).status = status THEN Evaluate(pull)
  ELSE IF status = "approved" THEN Approved(pull)
  ELSE IF status = "rejected" THEN Rejected("insufficient_home_equity")
  ELSE NeedMoreDocuments(pull)

ReviewUnlessApproved(pull) ==   \* mutant: asks for a natural approval
  IF Evaluate(pull).status = "approved" THEN Approved(pull) ELSE Rejected("credit_below_minimum")
\* Document Review; intake never forwards a forced outcome to it (figure-gateway.ts).
ReviewDocuments(pull) ==
  IF Evaluate(pull).status = "rejected" THEN Evaluate(pull) ELSE Approved(pull)
==============================================================================
