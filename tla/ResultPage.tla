------------------------------ MODULE ResultPage ------------------------------
(***************************************************************************)
(* The borrower's result page (apps/web, useLead and LeadResultView): what *)
(* it shows of a Lead that moves on at Lead Intake, when it asks again,    *)
(* and its Check again, Retry and Try again (Replay) buttons.              *)
(*                                                                         *)
(* The page is one effect of React at a time.  setGeneration replaces it:  *)
(* in a click at once, elsewhere after the next render (RunEffect), so that*)
(* answers can still reach the old effect in between.  The clock is reduced*)
(* to whether the polling window of the status the effect sees is over.    *)
(***************************************************************************)
EXTENDS Naturals

CONSTANTS MaxVersion,  \* bound: changes of the Lead
          MaxGen       \* bound: restarts of loading and polling

ASSUME ResultPageAssumption == MaxVersion \in Nat /\ MaxGen \in Nat

VARIABLES
  lead,       \* the Lead at intake; NoLead: nothing under the page's id
  wanted,     \* generation, the state that restarts the effect
  gen,        \* the generation of the effect that runs
  asked,      \* generations whose GET intake has still to answer
  answered,   \* answers on their way to the page
  timer,      \* the effect will ask again by itself
  last,       \* lastLead of the effect
  windowOver, \* the polling window of last's status has run out
  page,       \* the state useLead returns
  replay      \* POST replay: none, asked, or its answer on its way

vars == <<lead, wanted, gen, asked, answered, timer, last, windowOver, page, replay>>

\* inflight: submitted, processing; chasing: need_more_documents; settled: approved or
\* rejected, without a notice yet; noticing: with a pending one; told: with a sent one.
\* A failed Lead keeps the stage of the step it will resume.
Stages == {"inflight", "chasing", "awaiting", "review", "settled", "noticing", "told"}
Leads == [stage : Stages, failed : BOOLEAN, version : Nat]
NoLead == [stage |-> "inflight", failed |-> FALSE, version |-> 0]

Results == [kind : {"lead"}, lead : Leads]
           \union [kind : {"not_found", "conflict", "error"}, lead : {NoLead}]
LeadResult(l) == [kind |-> "lead", lead |-> l]
OtherResult(kind) == [kind |-> kind, lead |-> NoLead]
NoReplay == OtherResult("none")
ReplayAsked == OtherResult("asked")

\* page.lead is the Lead last shown, also while the skeleton covers it.
Pages == [phase : {"loading", "ready", "not_found", "error"}, lead : Leads \union {NoLead},
          stalled : BOOLEAN, watching : BOOLEAN, checking : BOOLEAN]

TypeOK ==
  /\ lead \in Leads
  /\ wanted \in Nat /\ gen \in Nat
  /\ asked \subseteq Nat
  /\ answered \subseteq [gen : Nat, result : Results]
  /\ timer \in BOOLEAN /\ windowOver \in BOOLEAN
  /\ last \in Leads
  /\ page \in Pages
  /\ replay \in Results \union {NoReplay, ReplayAsked}

Init ==
  /\ lead \in {NoLead, [NoLead EXCEPT !.version = 1]}
  /\ wanted = 0 /\ gen = 0
  /\ asked = {0} /\ answered = {}
  /\ timer = FALSE /\ windowOver = FALSE
  /\ last = NoLead
  /\ page = [phase |-> "loading", lead |-> NoLead,
             stalled |-> FALSE, watching |-> FALSE, checking |-> FALSE]
  /\ replay = NoReplay

------------------------------------------------------------------------------
(* pollPolicy and pollPlan.                                                 *)

HasPolicy(l) == ~ l.failed /\ l.stage \notin {"settled", "told"}
StallsAfterTimeout(l) == ~ l.failed /\ l.stage \in {"inflight", "review"}
SameStatus(k, l) == k.version # 0 /\ k.failed = l.failed /\ (l.failed \/ k.stage = l.stage)

------------------------------------------------------------------------------
(* The Lead moves on at intake.                                             *)

Becomes(stage, failed) ==
  /\ lead.version \in 1..(MaxVersion - 1)
  /\ lead' = [stage |-> stage, failed |-> failed, version |-> lead.version + 1]
  /\ UNCHANGED <<wanted, gen, asked, answered, timer, last, windowOver, page, replay>>

NextStages(stage) ==
  CASE stage = "inflight" -> {"chasing", "settled"}
    [] stage = "chasing"  -> {"awaiting"}
    [] stage = "awaiting" -> {"review"}
    [] stage = "review"   -> {"settled"}
    [] stage = "settled"  -> {"noticing"}
    [] stage = "noticing" -> {"told"}
    [] OTHER -> {}

MovesOn == ~ lead.failed /\ \E stage \in NextStages(lead.stage) : Becomes(stage, FALSE)

StepFails ==
  /\ ~ lead.failed /\ lead.stage \in {"inflight", "chasing", "review", "noticing"}
  /\ Becomes(lead.stage, TRUE)

\* A Replay: the soft pull and the review run again, the emails just go out.
Resumes ==
  /\ lead.failed
  /\ IF lead.stage \in {"inflight", "review"} THEN Becomes(lead.stage, FALSE)
     ELSE \E stage \in NextStages(lead.stage) : Becomes(stage, FALSE)

\* GET /v1/leads/:id; any failure is an error to the page.
AnswerLoad(g) ==
  /\ g \in asked
  /\ asked' = asked \ {g}
  /\ \E result \in {OtherResult("error"),
                    IF lead = NoLead THEN OtherResult("not_found") ELSE LeadResult(lead)} :
       answered' = answered \union {[gen |-> g, result |-> result]}
  /\ UNCHANGED <<lead, wanted, gen, timer, last, windowOver, page, replay>>

\* POST /v1/leads/:id/replay: the Lead as the pipeline left it, or a lost save.
AtRest == lead.failed \/ lead.stage \in {"awaiting", "told"}
AnswerReplay ==
  /\ replay = ReplayAsked
  /\ replay' \in {OtherResult("error"), OtherResult("conflict")}
                 \union (IF AtRest THEN {LeadResult(lead)} ELSE {})
  /\ UNCHANGED <<lead, wanted, gen, asked, answered, timer, last, windowOver, page>>

------------------------------------------------------------------------------
(* useLead: the effect.                                                     *)

StartEffectUncleaned(g) ==   \* mutant: the old effect's timer is not cleared
  /\ gen' = g /\ asked' = asked \union {g}
  /\ last' = NoLead /\ windowOver' = FALSE /\ UNCHANGED timer

StartEffect(g) ==
  /\ gen' = g /\ asked' = asked \union {g}
  /\ last' = NoLead /\ windowOver' = FALSE /\ timer' = FALSE

RunEffect ==
  /\ gen # wanted
  /\ StartEffect(wanted)
  /\ UNCHANGED <<lead, wanted, answered, page, replay>>

TimerFires ==
  /\ timer
  /\ timer' = FALSE /\ asked' = asked \union {gen}
  /\ UNCHANGED <<lead, wanted, gen, answered, last, windowOver, page, replay>>

TimePasses ==
  /\ last # NoLead /\ ~ windowOver
  /\ windowOver' = TRUE
  /\ UNCHANGED <<lead, wanted, gen, asked, answered, timer, last, page, replay>>

\* A new status opens a window of its own.
WindowRestarted(l) == FALSE   \* mutant: every answer opens a new window
WindowAfter(l) == windowOver /\ SameStatus(last, l)

ShowLoaded(l) ==
  LET over == WindowAfter(l) IN
  /\ windowOver' = over
  /\ last' = l
  /\ timer' = (HasPolicy(l) /\ ~ over)
  /\ page' = [phase |-> "ready", lead |-> l, stalled |-> over /\ StallsAfterTimeout(l),
              watching |-> HasPolicy(l) /\ ~ over, checking |-> FALSE]

\* A failed load: keep showing the Lead there is.  Without lastLead there is no schedule.
LoadFailedUnmarked ==   \* mutant: the page still says it is checking
  /\ timer' = (last # NoLead /\ HasPolicy(last) /\ ~ windowOver)
  /\ page' = IF page.phase = "ready" THEN [page EXCEPT !.watching = timer']
             ELSE IF last = NoLead THEN [page EXCEPT !.phase = "error"] ELSE page
  /\ UNCHANGED <<last, windowOver>>

LoadFailed ==
  /\ timer' = (last # NoLead /\ HasPolicy(last) /\ ~ windowOver)
  /\ page' = IF page.phase = "ready" THEN [page EXCEPT !.checking = FALSE, !.watching = timer']
             ELSE IF last = NoLead THEN [page EXCEPT !.phase = "error"] ELSE page
  /\ UNCHANGED <<last, windowOver>>

NotFoundUnknown ==   \* mutant: a phase the view has no card for
  /\ page' = [page EXCEPT !.phase = "missing", !.watching = FALSE, !.checking = FALSE]
  /\ UNCHANGED <<timer, last, windowOver>>

NotFound ==
  /\ page' = [page EXCEPT !.phase = "not_found", !.watching = FALSE, !.checking = FALSE]
  /\ UNCHANGED <<timer, last, windowOver>>

CancelledNever(g) == FALSE   \* mutant: the cancelled flag is not checked after the await
Cancelled(g) == g # gen

LoadArrives(a) ==
  /\ a \in answered
  /\ answered' = answered \ {a}
  /\ \/ Cancelled(a.gen) /\ UNCHANGED <<timer, last, windowOver, page>>
     \/ /\ ~ Cancelled(a.gen)
        /\ \/ a.result.kind = "lead" /\ ShowLoaded(a.result.lead)
           \/ a.result.kind = "not_found" /\ NotFound
           \/ a.result.kind = "error" /\ LoadFailed
  /\ UNCHANGED <<lead, wanted, gen, asked, replay>>

------------------------------------------------------------------------------
(* Buttons, and what Replay answers.                                        *)

Bump == wanted < MaxGen /\ wanted' = wanted + 1

\* reload: the skeleton instead of what is shown.
Reload ==
  /\ Bump
  /\ page' = [page EXCEPT !.phase = "loading",
                          !.stalled = FALSE, !.watching = FALSE, !.checking = FALSE]

\* show: a Lead obtained elsewhere.  (When MaxGen is reached the answer is never handled.)
Show(l) ==
  /\ page' = [phase |-> "ready", lead |-> l,
              stalled |-> FALSE, watching |-> FALSE, checking |-> FALSE]
  /\ IF HasPolicy(l) THEN Bump ELSE UNCHANGED wanted

\* The cards that have a Check again button, once they are rendered.
Rendered == gen = wanted
OffersCheckAgain ==
  /\ Rendered /\ page.phase = "ready" /\ ~ page.lead.failed
  /\ \/ page.lead.stage = "inflight" /\ page.stalled
     \/ page.lead.stage \in {"chasing", "awaiting", "review"} /\ ~ page.checking

CheckAgain ==
  /\ OffersCheckAgain
  /\ Bump /\ StartEffect(wanted')
  /\ page' = [page EXCEPT !.checking = TRUE]
  /\ UNCHANGED <<lead, answered, replay>>

Retry ==
  /\ Rendered /\ page.phase = "error"
  /\ Reload /\ StartEffect(wanted')
  /\ UNCHANGED <<lead, answered, replay>>

TryAgain ==
  /\ Rendered /\ page.phase = "ready" /\ page.lead.failed /\ replay = NoReplay
  /\ replay' = ReplayAsked
  /\ UNCHANGED <<lead, wanted, gen, asked, answered, timer, last, windowOver, page>>

ReplayArrives ==
  /\ replay \notin {NoReplay, ReplayAsked}
  /\ replay' = NoReplay
  /\ \/ replay.kind = "lead" /\ Show(replay.lead)
     \/ replay.kind = "conflict" /\ Reload
     \/ replay.kind = "error" /\ UNCHANGED <<wanted, page>>
  /\ UNCHANGED <<lead, gen, asked, answered, timer, last, windowOver>>

------------------------------------------------------------------------------

Intake == MovesOn \/ StepFails \/ Resumes
Network == AnswerReplay \/ \E g \in asked : AnswerLoad(g)
Effect == RunEffect \/ TimerFires \/ \E a \in answered : LoadArrives(a)
Buttons == CheckAgain \/ Retry \/ TryAgain

Next == Intake \/ Network \/ Effect \/ TimePasses \/ Buttons \/ ReplayArrives

Spec == Init /\ [][Next]_vars

\* The browser runs what is due, requests end with an answer or an error, time passes.
FairSpec ==
  /\ Spec
  /\ WF_vars(Network) /\ WF_vars(Effect) /\ WF_vars(TimePasses) /\ WF_vars(ReplayArrives)

------------------------------------------------------------------------------

LoadUnderWay ==
  gen # wanted \/ gen \in asked \/ \E a \in answered : a.gen = gen
Active == timer \/ LoadUnderWay

\* The borrower never sees the Lead go back to an earlier state, whichever of polling, Check
\* again, Retry and Replay brought what is shown, and in whatever order their answers come
\* (useLead: cancelled; show).
ShownNeverGoesBack == [][page'.lead.version >= page.lead.version]_vars

\* The page never waits for something that is not coming: behind a skeleton or a Checking...
\* there is a request, behind "updates automatically" a request or a timer.
NothingHangs ==
  /\ page.phase = "loading" \/ page.checking => LoadUnderWay
  /\ page.phase = "ready" /\ page.watching => Active

\* However often the borrower checks again, the page has one chain of polls.
OnePollAtATime ==
  timer => gen \notin asked /\ ~ \E a \in answered : a.gen = gen

\* Answers on their way for the current effect are no older than what is shown.
ComesNoOlder ==
  /\ \A a \in answered : /\ a.gen <= gen
                         /\ a.result.lead.version <= lead.version
                         /\ a.gen = gen /\ a.result.kind = "lead" =>
                              a.result.lead.version >= page.lead.version
  /\ replay.lead.version <= lead.version
  /\ replay.kind = "lead" => replay.lead.version >= page.lead.version
  /\ page.lead.version <= lead.version

\* One chain of polls; none under a failure, none while a Replay is under way, none left
\* when its answer restarts the effect.
OneChain ==
  /\ \A g \in asked : g <= gen
  /\ gen <= wanted
  /\ gen \in asked => ~ \E a \in answered : a.gen = gen
  /\ \A a, b \in answered : a.gen = gen /\ b.gen = gen => a = b
  /\ gen # wanted \/ replay # NoReplay \/ (page.phase = "ready" /\ page.lead.failed) =>
       ~ timer /\ gen \notin asked /\ ~ \E a \in answered : a.gen = gen
  /\ replay # NoReplay => gen = wanted /\ page.phase = "ready" /\ page.lead.failed
  /\ page.phase = "ready" /\ page.lead.failed => gen = wanted

\* The inductive invariant behind ShownNeverGoesBack and OnePollAtATime.
IInv == TypeOK /\ OnePollAtATime /\ OneChain /\ ComesNoOlder

\* The page does not poll forever: when the buttons are left alone it comes to rest, whatever
\* the Lead does and however many loads fail (pollPolicy: "check slowly, and not forever").
PollingEnds == <>[](~ Active)

\* When the window runs out on something intake should have finished, the page says so
\* (PollPolicy.stallsAfterTimeout).
StalledIsTold ==
  page.phase = "ready" /\ StallsAfterTimeout(page.lead) /\ ~ Active => page.stalled
==============================================================================
