--------------------------- MODULE MCLeadPipeline ----------------------------
(* Small instances of LeadPipeline for TLC.                                 *)
EXTENDS LeadView, TLC

CONSTANTS m1, m2, m3

Documents(m) ==
  [messageId |-> m, dmarc |-> "pass", fromBorrower |-> TRUE, attachments |-> TRUE]

(* Two emails with the documents, and an answer without any (a question, an *)
(* out-of-office reply).                                                    *)
MCReplies ==
  {Documents(m1), Documents(m2), [Documents(m3) EXCEPT !.attachments = FALSE]}

Symmetry == Permutations(Handlers)
==============================================================================
