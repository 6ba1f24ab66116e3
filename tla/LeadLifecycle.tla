---------------------------- MODULE LeadLifecycle ----------------------------
(***************************************************************************)
(* What the pipeline promises of one Lead, without handlers, versions,     *)
(* retries or failures (ADR-0002, ADR-0003, ADR-0004, ADR-0006): its stage *)
(* only moves forward; Need More Documents takes one Chase and one         *)
(* Document Review; the borrower is asked for documents once and told the  *)
(* outcome once, and the outcome told is the one on record.                *)
(***************************************************************************)
EXTENDS Naturals

VARIABLES
  stage,    \* what the Lead needs next
  outcome,  \* "none", or the final outcome on record
  chased,   \* the borrower received the Chase
  told      \* outcomes the borrower received a notice of

vars == <<stage, outcome, chased, told>>

Finals == {"approved", "rejected"}
Stages == {"none", "prequalify", "chase", "documents", "review", "notify", "settled"}

TypeOK ==
  /\ stage \in Stages
  /\ outcome \in Finals \union {"none"}
  /\ chased \in BOOLEAN
  /\ told \subseteq Finals

Init == stage = "none" /\ outcome = "none" /\ chased = FALSE /\ told = {}

Submit ==
  /\ stage = "none" /\ stage' = "prequalify"
  /\ UNCHANGED <<outcome, chased, told>>

\* The soft pull settles the outcome, or asks for documents.
Settle(from, o) ==
  /\ stage = from /\ stage' = "notify"
  /\ outcome' = o
  /\ UNCHANGED <<chased, told>>

NeedDocuments ==
  /\ stage = "prequalify" /\ stage' = "chase"
  /\ UNCHANGED <<outcome, chased, told>>

ChaseReachesBorrower ==
  /\ stage = "chase" /\ ~ chased /\ chased' = TRUE
  /\ UNCHANGED <<stage, outcome, told>>

AwaitDocuments ==
  /\ stage = "chase" /\ chased /\ stage' = "documents"
  /\ UNCHANGED <<outcome, chased, told>>

AcceptDocuments ==
  /\ stage = "documents" /\ stage' = "review"
  /\ UNCHANGED <<outcome, chased, told>>

NoticeReachesBorrower ==
  /\ stage = "notify" /\ told = {} /\ told' = {outcome}
  /\ UNCHANGED <<stage, outcome, chased>>

Close ==
  /\ stage = "notify" /\ told = {outcome} /\ stage' = "settled"
  /\ UNCHANGED <<outcome, chased, told>>

Next ==
  \/ Submit \/ NeedDocuments \/ ChaseReachesBorrower \/ AwaitDocuments
  \/ AcceptDocuments \/ NoticeReachesBorrower \/ Close
  \/ \E o \in Finals : Settle("prequalify", o) \/ Settle("review", o)

Spec == Init /\ [][Next]_vars

------------------------------------------------------------------------------
(* What follows for every Lead, and so for every behaviour of the pipeline. *)

\* The borrower knows what the Lead says: documents are awaited only from who was asked
\* for them, a notice tells the outcome on record, never before there is one, and a Lead
\* is settled only once the borrower was told (ADR-0004, ADR-0006: advance's done).
BorrowerKnows ==
  /\ outcome = "none" <=> stage \notin {"notify", "settled"}
  /\ stage \in {"documents", "review"} => chased
  /\ chased => stage \notin {"none", "prequalify"}
  /\ told # {} => told = {outcome} /\ outcome \in Finals
  /\ stage = "settled" => told = {outcome}

Rank == [none |-> 0, prequalify |-> 1, chase |-> 2, documents |-> 3, review |-> 4,
         notify |-> 5, settled |-> 6]

\* Nothing is done twice or taken back: a stage that is over never comes again, however
\* often the Lead is replayed, and neither the outcome nor an email is withdrawn.
NothingComesBack ==
  [][/\ Rank[stage] <= Rank[stage']
     /\ stage' = stage => outcome' = outcome
     /\ outcome # "none" => outcome' = outcome
     /\ chased => chased'
     /\ told \subseteq told']_vars
==============================================================================
