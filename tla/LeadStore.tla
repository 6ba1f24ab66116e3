------------------------------ MODULE LeadStore -------------------------------
(***************************************************************************)
(* The rows of one Lead (infrastructure/db/drizzle-lead-repository.ts):    *)
(* what a select of findById reads of them, and what the transaction of    *)
(* save() leaves in them.  Each select sees the rows as they are when it   *)
(* runs; the four of a load are not one transaction.                       *)
(***************************************************************************)
EXTENDS LeadAggregate

Tables == {"leads", "figure_decisions", "chases", "outcome_notices"}

(* The copy l after selects from the given tables.                          *)
SelectFrom(rows, l, tables) ==
  LET from(t) == IF t \in tables THEN rows ELSE l
  IN [version  |-> from("leads").version,
      status   |-> from("leads").status,
      decision |-> from("figure_decisions").decision,
      review   |-> from("figure_decisions").review,
      chaseId  |-> from("chases").chaseId,
      chase    |-> from("chases").chase,
      reply    |-> from("chases").reply,
      noticeId |-> from("outcome_notices").noticeId,
      notice   |-> from("outcome_notices").notice]

(* The rows after save(l): decisions are inserted once per kind, a Chase or *)
(* a notice the Lead does not have leaves its row alone.                    *)
SavedOver(rows, l) ==
  [version  |-> l.version + 1,
   status   |-> l.status,
   decision |-> IF rows.decision = "none" THEN l.decision ELSE rows.decision,
   review   |-> IF rows.review = "none" THEN l.review ELSE rows.review,
   chaseId  |-> IF l.chaseId = 0 THEN rows.chaseId ELSE l.chaseId,
   chase    |-> IF l.chaseId = 0 THEN rows.chase ELSE l.chase,
   reply    |-> IF l.chaseId = 0 THEN rows.reply ELSE l.reply,
   noticeId |-> IF l.noticeId = 0 THEN rows.noticeId ELSE l.noticeId,
   notice   |-> IF l.noticeId = 0 THEN rows.notice ELSE l.notice]

(* A torn copy: the version of the rows, which save() goes by, next to      *)
(* contents another handler has saved over.                                 *)
Torn(rows, l) == l.version = rows.version /\ l # rows
===============================================================================
