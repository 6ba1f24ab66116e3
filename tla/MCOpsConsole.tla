---------------------------- MODULE MCOpsConsole -----------------------------
(* Two Leads, a list of one, an interval of one tick, and the two sections in *)
(* which something may be both wrong and unseen. The Leads are not symmetric: *)
(* liveness is checked too.                                                   *)
EXTENDS OpsConsole

CONSTANTS l1, l2

MCLeads == {l1, l2}
MCSections == {"alerts", "attention"}
==============================================================================
