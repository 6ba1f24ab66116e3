--------------------------- MODULE MCProvisioning ----------------------------
(* One service, one alert rule, one metric and two DNS records; two runs at a *)
(* time, which are alike.                                                     *)
EXTENDS Provisioning, TLC

CONSTANTS r1, r2, intake, errorAlert, errors, dkim

MCSlots == {r1, r2}
MCServices == <<intake>>
MCRules == <<errorAlert>>
MCMetrics == {errors}
MCRecords == {dkim, DMARC}
SlotsAlike == Permutations(MCSlots)
==============================================================================
