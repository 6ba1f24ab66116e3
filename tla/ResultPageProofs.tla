--------------------------- MODULE ResultPageProofs ---------------------------
(***************************************************************************)
(* What the result page shows never goes back, for any number of changes   *)
(* of the Lead and any number of restarts.  The argument: an answer that   *)
(* still counts was asked for after what is shown was known, because the   *)
(* page has one chain of polls, and none at all while a Replay runs.       *)
(***************************************************************************)
EXTENDS ResultPage, TLAPS

InFlight(g) == g \in asked \/ \E a \in answered : a.gen = g

------------------------------------------------------------------------------

\* The kinds of an answer, and what they carry.
LEMMA ResultFacts ==
  ASSUME NEW r \in Results
  PROVE  r.lead \in Leads /\ r.lead.version \in Nat /\ r # NoReplay /\ r # ReplayAsked
<1>1. r.kind \in {"lead", "not_found", "conflict", "error"} BY DEF Results
<1>2. NoLead \in Leads BY DEF NoLead, Leads, Stages
<1>3. r.lead \in Leads BY <1>2 DEF Results
<1>4. r.lead.version \in Nat BY <1>3 DEF Leads
<1>5. NoReplay.kind = "none" /\ ReplayAsked.kind = "asked"
  BY DEF NoReplay, ReplayAsked, OtherResult
<1>6. r # NoReplay /\ r # ReplayAsked BY <1>1, <1>5
<1> QED BY <1>3, <1>4, <1>6

\* A Lead is an answer, an error carries none.
LEMMA MadeResults ==
  ASSUME NEW l \in Leads, NEW kind \in {"not_found", "conflict", "error"}
  PROVE  /\ LeadResult(l) \in Results /\ LeadResult(l).lead = l
         /\ OtherResult(kind) \in Results /\ OtherResult(kind).lead = NoLead
         /\ OtherResult(kind).kind = kind
BY DEF LeadResult, OtherResult, Results

\* The Lead's version only grows; the page is not touched.
LEMMA LeadMoves ==
  ASSUME TypeOK, NEW stage \in Stages, NEW failed \in BOOLEAN, Becomes(stage, failed)
  PROVE  /\ lead' \in Leads /\ lead'.version >= lead.version
         /\ UNCHANGED <<wanted, gen, asked, answered, timer, last, windowOver, page, replay>>
BY DEF Becomes, TypeOK, Leads

\* Restarting the effect leaves nothing of the old one that counts.
LEMMA Restarts ==
  ASSUME IInv, StartEffect(wanted'), wanted' \in Nat, wanted' > gen,
         UNCHANGED <<lead, answered>>, replay = NoReplay, replay' = NoReplay,
         page' \in Pages, page'.lead = page.lead,
         ~ (page'.phase = "ready" /\ page'.lead.failed)
  PROVE  IInv'
<1>1. /\ gen' = wanted' /\ asked' = asked \union {wanted'}
      /\ last' = NoLead /\ windowOver' = FALSE /\ timer' = FALSE
  BY DEF StartEffect
<1>2. \A a \in answered : a.gen # gen'
  BY <1>1 DEF IInv, TypeOK, ComesNoOlder
<1>3. TypeOK'
  BY <1>1 DEF IInv, TypeOK, NoLead, Leads, Stages
<1>4. OnePollAtATime' BY <1>1 DEF OnePollAtATime
<1>5. OneChain'
  BY <1>1, <1>2 DEF IInv, TypeOK, OneChain
<1>6. ComesNoOlder'
  BY <1>1, <1>2 DEF IInv, TypeOK, ComesNoOlder
<1> QED BY <1>3, <1>4, <1>5, <1>6 DEF IInv

\* The initial states satisfy the invariant.
LEMMA InitHolds == Init => IInv
<1> SUFFICES ASSUME Init PROVE IInv OBVIOUS
<1>1. NoLead \in Leads /\ NoLead.version = 0 /\ NoLead.failed = FALSE
  BY DEF NoLead, Leads, Stages
<1>2. lead \in Leads /\ lead.version \in {0, 1}
  BY <1>1 DEF Init, Leads
<1>3. page \in Pages /\ page.lead = NoLead /\ page.phase = "loading"
  BY DEF Init, Pages
<1>4. replay = NoReplay /\ NoReplay.lead = NoLead /\ NoReplay.kind = "none"
  BY DEF Init, NoReplay, OtherResult
<1>5. TypeOK
  <2>1. /\ wanted = 0 /\ gen = 0 /\ asked = {0} /\ answered = {}
        /\ timer = FALSE /\ windowOver = FALSE /\ last = NoLead
    BY DEF Init
  <2>2. asked \subseteq Nat /\ wanted \in Nat /\ gen \in Nat BY <2>1
  <2>3. answered \subseteq [gen : Nat, result : Results] BY <2>1
  <2>4. timer \in BOOLEAN /\ windowOver \in BOOLEAN /\ last \in Leads BY <1>1, <2>1
  <2>5. replay \in Results \union {NoReplay, ReplayAsked} BY <1>4
  <2> QED BY <1>2, <1>3, <2>2, <2>3, <2>4, <2>5 DEF TypeOK
<1>6. OnePollAtATime BY DEF Init, OnePollAtATime
<1>7. OneChain BY <1>3, <1>4 DEF Init, OneChain
<1>8. ComesNoOlder BY <1>1, <1>2, <1>3, <1>4 DEF Init, ComesNoOlder
<1> QED BY <1>5, <1>6, <1>7, <1>8 DEF IInv

\* Intake's steps only make the Lead newer.
LEMMA IntakeHolds == IInv /\ Intake => IInv' /\ UNCHANGED page
<1> SUFFICES ASSUME IInv, Intake PROVE IInv' /\ UNCHANGED page OBVIOUS
<1>1. \A stage \in Stages : NextStages(stage) \subseteq Stages
  BY DEF NextStages, Stages
<1>2. lead \in Leads /\ lead.stage \in Stages BY DEF IInv, TypeOK, Leads
<1>3. PICK stage \in Stages, failed \in BOOLEAN : Becomes(stage, failed)
  BY <1>1, <1>2 DEF Intake, MovesOn, StepFails, Resumes
<1>4. /\ lead' \in Leads /\ lead'.version >= lead.version
      /\ UNCHANGED <<wanted, gen, asked, answered, timer, last, windowOver, page, replay>>
  BY <1>3, LeadMoves DEF IInv
<1>5. TypeOK' /\ OnePollAtATime' /\ OneChain'
  BY <1>4 DEF IInv, TypeOK, OnePollAtATime, OneChain
<1>6. lead.version \in Nat /\ lead'.version \in Nat BY <1>4 DEF IInv, TypeOK, Leads
<1>7. ComesNoOlder'
  <2>1. \A a \in answered : a.result.lead.version \in Nat
    BY ResultFacts DEF IInv, TypeOK
  <2>2. replay.lead.version \in Nat
    BY ResultFacts DEF IInv, TypeOK, NoReplay, ReplayAsked, OtherResult, NoLead
  <2>3. page.lead.version \in Nat BY DEF IInv, TypeOK, Pages, Leads, NoLead
  <2> QED BY <1>4, <1>6, <2>1, <2>2, <2>3 DEF IInv, ComesNoOlder
<1> QED BY <1>4, <1>5, <1>7 DEF IInv

\* An answer of intake carries the Lead as it is now.
LEMMA NetworkHolds == IInv /\ Network => IInv' /\ UNCHANGED page
<1> SUFFICES ASSUME IInv, Network PROVE IInv' /\ UNCHANGED page OBVIOUS
<1>1. lead \in Leads /\ lead.version \in Nat BY DEF IInv, TypeOK, Leads
<1>2. page.lead.version \in Nat /\ page.lead.version <= lead.version
  BY DEF IInv, TypeOK, Pages, Leads, NoLead, ComesNoOlder
<1>3. ASSUME NEW g \in asked, AnswerLoad(g) PROVE IInv' /\ UNCHANGED page
  <2>1. PICK result \in {OtherResult("error"),
                         IF lead = NoLead THEN OtherResult("not_found") ELSE LeadResult(lead)} :
          answered' = answered \union {[gen |-> g, result |-> result]}
    BY <1>3 DEF AnswerLoad
  <2>2. result \in Results /\ result.lead \in {lead, NoLead}
        /\ (result.kind = "lead" => result.lead = lead)
    BY <1>1, <2>1, MadeResults
  <2>3. asked' = asked \ {g} /\ g \in Nat
        /\ UNCHANGED <<lead, wanted, gen, timer, last, windowOver, page, replay>>
    BY <1>3 DEF AnswerLoad, IInv, TypeOK
  <2>4. NoLead.version = 0 BY DEF NoLead
  <2> DEFINE new == [gen |-> g, result |-> result]
  <2>5. new.gen = g /\ new.result = result OBVIOUS
  <2>n. answered' = answered \union {new} BY <2>1
  <2> HIDE DEF new
  <2>6. TypeOK'
    <3>1. new \in [gen : Nat, result : Results] BY <2>2, <2>3 DEF new
    <3> QED BY <2>n, <2>3, <3>1 DEF IInv, TypeOK
  <2>7. OnePollAtATime'
    BY <2>n, <2>3, <2>5 DEF IInv, OnePollAtATime
  <2>8. OneChain'
    BY <2>n, <2>3, <2>5 DEF IInv, OneChain
  <2>9. ComesNoOlder'
    <3>1. g <= gen BY DEF IInv, OneChain
    <3> QED BY <1>1, <1>2, <2>n, <2>2, <2>3, <2>4, <2>5, <3>1 DEF IInv, ComesNoOlder
  <2> QED BY <2>3, <2>6, <2>7, <2>8, <2>9 DEF IInv
<1>4. CASE AnswerReplay
  <2>1. /\ replay = ReplayAsked
        /\ replay' \in {OtherResult("error"), OtherResult("conflict"), LeadResult(lead)}
        /\ UNCHANGED <<lead, wanted, gen, asked, answered, timer, last, windowOver, page>>
    BY <1>4 DEF AnswerReplay
  <2>2. replay' \in Results /\ replay'.lead \in {lead, NoLead}
        /\ (replay'.kind = "lead" => replay'.lead = lead)
    BY <1>1, <2>1, MadeResults
  <2>3. replay # NoReplay /\ NoLead.version = 0
    BY <2>1 DEF ReplayAsked, NoReplay, OtherResult, NoLead
  <2>4. TypeOK' BY <2>1, <2>2 DEF IInv, TypeOK
  <2>5. OnePollAtATime' BY <2>1 DEF IInv, OnePollAtATime
  <2>6. OneChain' BY <2>1, <2>3 DEF IInv, OneChain
  <2>7. ComesNoOlder' BY <1>1, <1>2, <2>1, <2>2, <2>3 DEF IInv, ComesNoOlder
  <2> QED BY <2>1, <2>4, <2>5, <2>6, <2>7 DEF IInv
<1> QED BY <1>3, <1>4 DEF Network

\* An answer of an effect that was cleaned up changes nothing but that it is gone.
LEMMA CancelledHolds ==
  ASSUME IInv, NEW a \in answered, answered' = answered \ {a},
         UNCHANGED <<lead, wanted, gen, asked, timer, last, windowOver, page, replay>>
  PROVE  IInv'
<1>1. TypeOK' BY DEF IInv, TypeOK
<1>2. OnePollAtATime' BY DEF IInv, OnePollAtATime
<1>3. OneChain' BY DEF IInv, OneChain
<1>4. ComesNoOlder' BY DEF IInv, ComesNoOlder
<1> QED BY <1>1, <1>2, <1>3, <1>4 DEF IInv

\* An answer that counts is the only thing under way, and no older than what is shown.
LEMMA CurrentHolds ==
  ASSUME IInv, NEW a \in answered, a.gen = gen, answered' = answered \ {a},
         UNCHANGED <<lead, wanted, gen, asked, replay>>,
         \/ a.result.kind = "lead" /\ ShowLoaded(a.result.lead)
         \/ a.result.kind = "not_found" /\ NotFound
         \/ a.result.kind = "error" /\ LoadFailed
  PROVE  IInv' /\ page'.lead.version >= page.lead.version
<1> DEFINE l == a.result.lead
<1>1. l \in Leads /\ l.version \in Nat /\ l.version <= lead.version
  BY ResultFacts DEF IInv, TypeOK, ComesNoOlder
<1>2. /\ gen = wanted /\ replay = NoReplay /\ ~ timer /\ gen \notin asked
      /\ ~ (page.phase = "ready" /\ page.lead.failed)
      /\ \A b \in answered' : b.gen # gen
  BY DEF IInv, OneChain, OnePollAtATime
<1>3. page.lead.version \in Nat /\ page.lead.version <= lead.version
  BY DEF IInv, TypeOK, Pages, Leads, NoLead, ComesNoOlder
<1>4. a.result.kind = "lead" => l.version >= page.lead.version
  BY DEF IInv, ComesNoOlder
<1> HIDE DEF l
<1>5. /\ page' \in Pages /\ timer' \in BOOLEAN /\ windowOver' \in BOOLEAN /\ last' \in Leads
      /\ page'.lead.version >= page.lead.version /\ page'.lead.version <= lead.version
      /\ page'.phase = "ready" /\ page'.lead.failed => ~ timer'
  <2>1. CASE a.result.kind = "lead" /\ ShowLoaded(l)
    <3> DEFINE over == WindowAfter(l)
    <3>1. over \in BOOLEAN BY DEF WindowAfter, SameStatus, IInv, TypeOK
    <3> HIDE DEF over
    <3>2. /\ windowOver' = over /\ last' = l /\ timer' = (HasPolicy(l) /\ ~ over)
          /\ page' = [phase |-> "ready", lead |-> l, stalled |-> over /\ StallsAfterTimeout(l),
                      watching |-> HasPolicy(l) /\ ~ over, checking |-> FALSE]
      BY <2>1 DEF ShowLoaded, over
    <3>3. HasPolicy(l) \in BOOLEAN /\ StallsAfterTimeout(l) \in BOOLEAN
          /\ (HasPolicy(l) => ~ l.failed)
      BY DEF HasPolicy, StallsAfterTimeout
    <3> QED BY <1>1, <1>4, <2>1, <3>1, <3>2, <3>3 DEF Pages
  <2>2. CASE NotFound
    <3>1. page' = [page EXCEPT !.phase = "not_found", !.watching = FALSE, !.checking = FALSE]
          /\ UNCHANGED <<timer, last, windowOver>>
      BY <2>2 DEF NotFound
    <3>2. page \in Pages /\ timer \in BOOLEAN /\ windowOver \in BOOLEAN /\ last \in Leads
      BY DEF IInv, TypeOK
    <3>3. page' \in Pages /\ page'.lead = page.lead /\ page'.phase = "not_found"
      BY <3>1, <3>2 DEF Pages
    <3> QED BY <1>2, <1>3, <3>1, <3>2, <3>3
  <2>3. CASE LoadFailed
    <3>1. timer' \in BOOLEAN BY <2>3 DEF LoadFailed, HasPolicy
    <3>2. /\ page' = IF page.phase = "ready"
                     THEN [page EXCEPT !.checking = FALSE, !.watching = timer']
                     ELSE IF last = NoLead THEN [page EXCEPT !.phase = "error"] ELSE page
          /\ UNCHANGED <<last, windowOver>>
      BY <2>3 DEF LoadFailed
    <3>3. page' \in Pages /\ page'.lead = page.lead
          /\ (page'.phase = "ready" => page.phase = "ready")
      BY <3>1, <3>2 DEF IInv, TypeOK, Pages
    <3> QED BY <1>2, <1>3, <3>1, <3>2, <3>3 DEF IInv, TypeOK
  <2> QED BY <2>1, <2>2, <2>3 DEF l
<1>6. TypeOK' BY <1>5 DEF IInv, TypeOK
<1>7. OnePollAtATime' BY <1>2 DEF OnePollAtATime
<1>8. OneChain' BY <1>2, <1>5 DEF IInv, OneChain
<1>9. ComesNoOlder' BY <1>2, <1>5 DEF IInv, ComesNoOlder, NoReplay, OtherResult
<1> QED BY <1>5, <1>6, <1>7, <1>8, <1>9 DEF IInv

\* The effect's own steps.
LEMMA EffectHolds == IInv /\ Effect => IInv' /\ page'.lead.version >= page.lead.version
<1> SUFFICES ASSUME IInv, Effect
             PROVE  IInv' /\ page'.lead.version >= page.lead.version
  OBVIOUS
<1>1. page.lead.version \in Nat BY DEF IInv, TypeOK, Pages, Leads, NoLead
<1>2. CASE RunEffect
  <2>1. gen # wanted /\ StartEffect(wanted) /\ UNCHANGED <<lead, wanted, answered, page, replay>>
    BY <1>2 DEF RunEffect
  <2>2. replay = NoReplay /\ ~ (page.phase = "ready" /\ page.lead.failed) /\ wanted > gen
        /\ wanted \in Nat /\ page \in Pages
    BY <2>1 DEF IInv, TypeOK, OneChain
  <2> QED BY <1>1, <2>1, <2>2, Restarts
<1>3. CASE TimerFires
  <2>1. /\ timer /\ timer' = FALSE /\ asked' = asked \union {gen}
        /\ UNCHANGED <<lead, wanted, gen, answered, last, windowOver, page, replay>>
    BY <1>3 DEF TimerFires
  <2>2. TypeOK' BY <2>1 DEF IInv, TypeOK
  <2>3. OnePollAtATime' BY <2>1 DEF OnePollAtATime
  <2>4. OneChain' BY <2>1 DEF IInv, TypeOK, OneChain, OnePollAtATime
  <2>5. ComesNoOlder' BY <2>1 DEF IInv, ComesNoOlder
  <2> QED BY <1>1, <2>1, <2>2, <2>3, <2>4, <2>5 DEF IInv
<1>4. ASSUME NEW a \in answered, LoadArrives(a)
      PROVE  IInv' /\ page'.lead.version >= page.lead.version
  <2>1. answered' = answered \ {a} /\ UNCHANGED <<lead, wanted, gen, asked, replay>>
    BY <1>4 DEF LoadArrives
  <2>2. CASE Cancelled(a.gen) /\ UNCHANGED <<timer, last, windowOver, page>>
    BY <1>1, <2>1, <2>2, CancelledHolds
  <2>3. CASE ~ Cancelled(a.gen)
    <3>1. a.gen = gen BY <2>3 DEF Cancelled
    <3> QED BY <1>4, <2>1, <2>3, <3>1, CurrentHolds DEF LoadArrives
  <2> QED BY <1>4, <2>2, <2>3 DEF LoadArrives
<1> QED BY <1>2, <1>3, <1>4 DEF Effect

\* The borrower's clicks, and time.
LEMMA ClicksHold == IInv /\ (Buttons \/ TimePasses) => IInv' /\ page'.lead = page.lead
<1> SUFFICES ASSUME IInv, Buttons \/ TimePasses PROVE IInv' /\ page'.lead = page.lead
  OBVIOUS
<1>t. TypeOK /\ gen \in Nat /\ wanted \in Nat /\ page \in Pages BY DEF IInv, TypeOK
<1>1. CASE CheckAgain
  <2>1. /\ gen = wanted /\ wanted' = wanted + 1 /\ StartEffect(wanted')
        /\ ~ page.lead.failed /\ page' = [page EXCEPT !.checking = TRUE]
        /\ UNCHANGED <<lead, answered, replay>>
    BY <1>1 DEF CheckAgain, OffersCheckAgain, Rendered, Bump
  <2>2. replay = NoReplay BY <2>1 DEF IInv, OneChain
  <2>3. page' \in Pages /\ page'.lead = page.lead BY <1>t, <2>1 DEF Pages
  <2> QED BY <1>t, <2>1, <2>2, <2>3, Restarts
<1>2. CASE Retry
  <2>1. /\ gen = wanted /\ page.phase = "error" /\ wanted' = wanted + 1 /\ StartEffect(wanted')
        /\ page' = [page EXCEPT !.phase = "loading",
                                !.stalled = FALSE, !.watching = FALSE, !.checking = FALSE]
        /\ UNCHANGED <<lead, answered, replay>>
    BY <1>2 DEF Retry, Reload, Rendered, Bump
  <2>2. replay = NoReplay BY <2>1 DEF IInv, OneChain
  <2>3. page' \in Pages /\ page'.lead = page.lead /\ page'.phase = "loading"
    BY <1>t, <2>1 DEF Pages
  <2> QED BY <1>t, <2>1, <2>2, <2>3, Restarts
<1>3. CASE TryAgain
  <2>1. /\ gen = wanted /\ page.phase = "ready" /\ page.lead.failed /\ replay' = ReplayAsked
        /\ UNCHANGED <<lead, wanted, gen, asked, answered, timer, last, windowOver, page>>
    BY <1>3 DEF TryAgain, Rendered
  <2>2. ReplayAsked.kind = "asked" /\ ReplayAsked.lead.version = 0
    BY DEF ReplayAsked, OtherResult, NoLead
  <2>3. TypeOK' BY <1>t, <2>1 DEF TypeOK
  <2>4. OnePollAtATime' BY <2>1 DEF IInv, OnePollAtATime
  <2>5. OneChain' BY <2>1 DEF IInv, OneChain
  <2>6. lead.version \in Nat BY DEF IInv, TypeOK, Leads
  <2>7. ComesNoOlder' BY <2>1, <2>2, <2>6 DEF IInv, ComesNoOlder
  <2> QED BY <2>1, <2>3, <2>4, <2>5, <2>7 DEF IInv
<1>4. CASE TimePasses
  <2>1. windowOver' = TRUE
        /\ UNCHANGED <<lead, wanted, gen, asked, answered, timer, last, page, replay>>
    BY <1>4 DEF TimePasses
  <2> QED BY <1>t, <2>1 DEF IInv, TypeOK, OnePollAtATime, OneChain, ComesNoOlder
<1> QED BY <1>1, <1>2, <1>3, <1>4 DEF Buttons

\* The answer of a Replay: nothing else is under way when it comes.
LEMMA ReplayHolds == IInv /\ ReplayArrives => IInv' /\ page'.lead.version >= page.lead.version
<1> SUFFICES ASSUME IInv, ReplayArrives
             PROVE  IInv' /\ page'.lead.version >= page.lead.version
  OBVIOUS
<1>1. /\ replay \in Results /\ replay' = NoReplay
      /\ UNCHANGED <<lead, gen, asked, answered, timer, last, windowOver>>
  BY DEF ReplayArrives, IInv, TypeOK
<1>2. replay.lead \in Leads /\ replay.lead.version \in Nat /\ replay # NoReplay
  BY <1>1, ResultFacts
<1>3. ~ timer /\ gen \notin asked /\ (\A a \in answered : a.gen # gen) /\ gen = wanted
  BY <1>2 DEF IInv, OneChain
<1>4. page \in Pages /\ page.lead.version \in Nat /\ wanted \in Nat /\ lead.version \in Nat
  BY DEF IInv, TypeOK, Pages, Leads, NoLead
<1>5. NoReplay.kind = "none" /\ NoReplay.lead.version = 0
  BY DEF NoReplay, OtherResult, NoLead
<1>6. /\ page' \in Pages /\ page'.lead.version >= page.lead.version
      /\ page'.lead.version <= lead.version
      /\ wanted' \in {wanted, wanted + 1}
      /\ page'.phase = "ready" /\ page'.lead.failed => wanted' = wanted
  <2>1. CASE replay.kind = "lead" /\ Show(replay.lead)
    <3>1. page' = [phase |-> "ready", lead |-> replay.lead,
                   stalled |-> FALSE, watching |-> FALSE, checking |-> FALSE]
      BY <2>1 DEF Show
    <3>2. wanted' \in {wanted, wanted + 1} /\ (replay.lead.failed => wanted' = wanted)
      BY <2>1 DEF Show, HasPolicy, Bump
    <3> QED BY <1>2, <1>4, <2>1, <3>1, <3>2 DEF IInv, ComesNoOlder, Pages
  <2>2. CASE Reload
    <3>1. /\ wanted' = wanted + 1
          /\ page' = [page EXCEPT !.phase = "loading", !.stalled = FALSE, !.watching = FALSE,
                                  !.checking = FALSE]
      BY <2>2 DEF Reload, Bump
    <3>2. page' \in Pages /\ page'.lead = page.lead /\ page'.phase = "loading"
      BY <1>4, <3>1 DEF Pages
    <3> QED BY <1>4, <3>1, <3>2 DEF IInv, ComesNoOlder
  <2>3. CASE UNCHANGED <<wanted, page>>
    BY <1>4, <2>3 DEF IInv, ComesNoOlder
  <2> QED BY <2>1, <2>2, <2>3 DEF ReplayArrives
<1>7. TypeOK' BY <1>1, <1>4, <1>6 DEF IInv, TypeOK
<1>8. OnePollAtATime' BY <1>1, <1>3 DEF OnePollAtATime
<1>9. OneChain' BY <1>1, <1>3, <1>4, <1>6 DEF IInv, OneChain
<1>10. ComesNoOlder' BY <1>1, <1>3, <1>4, <1>5, <1>6 DEF IInv, ComesNoOlder
<1> QED BY <1>6, <1>7, <1>8, <1>9, <1>10 DEF IInv

\* Every step keeps the invariant and shows nothing older.
LEMMA StepHolds == IInv /\ [Next]_vars => IInv' /\ page'.lead.version >= page.lead.version
<1> SUFFICES ASSUME IInv, [Next]_vars
             PROVE  IInv' /\ page'.lead.version >= page.lead.version
  OBVIOUS
<1>1. page.lead.version \in Nat BY DEF IInv, TypeOK, Pages, Leads, NoLead
<1>2. CASE Intake BY <1>1, <1>2, IntakeHolds
<1>3. CASE Network BY <1>1, <1>3, NetworkHolds
<1>4. CASE Effect BY <1>4, EffectHolds
<1>5. CASE Buttons \/ TimePasses BY <1>1, <1>5, ClicksHold
<1>6. CASE ReplayArrives BY <1>6, ReplayHolds
<1>7. CASE UNCHANGED vars
  BY <1>1, <1>7 DEF vars, IInv, TypeOK, OnePollAtATime, OneChain, ComesNoOlder
<1> QED BY <1>2, <1>3, <1>4, <1>5, <1>6, <1>7 DEF Next

\* One chain of polls, none beside a Replay, and no answer older than what is shown.
THEOREM PageInvariant == Spec => []IInv
<1> QED BY InitHolds, StepHolds, PTL DEF Spec

\* However often the borrower refreshes, retries and replays, polls do not multiply.
THEOREM OneChainOfPolls == Spec => []OnePollAtATime
<1>1. IInv => OnePollAtATime BY DEF IInv
<1> QED BY <1>1, PageInvariant, PTL

\* The borrower never sees the Lead go back.
THEOREM ShownGoesForward == Spec => ShownNeverGoesBack
<1>1. IInv /\ [Next]_vars => [page'.lead.version >= page.lead.version]_vars
  BY StepHolds
<1> QED BY <1>1, PageInvariant, PTL DEF Spec, ShownNeverGoesBack

\* Whatever happens to the Lead and whatever is clicked, the page's variables keep their types.
THEOREM PageTypes == Spec => []TypeOK
<1>1. IInv => TypeOK BY DEF IInv
<1> QED BY <1>1, PageInvariant, PTL

------------------------------------------------------------------------------
(* Nothing hangs.  A load that fails leaves the skeleton only when no Lead  *)
(* was loaded before, and the effect that runs behind a skeleton has loaded *)
(* none yet.                                                                *)

HangInv ==
  /\ NothingHangs
  /\ page.checking => page.phase = "ready"
  /\ page.phase = "loading" /\ gen = wanted => last = NoLead

\* An effect that starts has a request under way.
LEMMA StartedIsUnderWay ==
  ASSUME NEW g, StartEffect(g)
  PROVE  LoadUnderWay' /\ last' = NoLead
BY DEF StartEffect, LoadUnderWay

LEMMA HangInit == Init => HangInv
BY DEF Init, HangInv, NothingHangs, LoadUnderWay

LEMMA LoadNeverHangs ==
  ASSUME TypeOK, HangInv, NEW a \in answered, LoadArrives(a)
  PROVE  HangInv'
<1>1. page \in Pages /\ gen' = gen /\ wanted' = wanted /\ asked' = asked
      /\ answered' = answered \ {a}
  BY DEF TypeOK, LoadArrives
<1>2. CASE a.gen # gen
  <2>1. UNCHANGED <<timer, last, page>>
    BY <1>2 DEF LoadArrives, Cancelled
  <2>2. LoadUnderWay => LoadUnderWay'
    BY <1>1, <1>2 DEF LoadUnderWay
  <2> QED
    BY <1>1, <2>1, <2>2 DEF HangInv, NothingHangs, Active
<1>3. CASE ShowLoaded(a.result.lead)
  <2>1. /\ page'.phase = "ready" /\ ~ page'.checking
        /\ page'.watching = timer'
    BY <1>3 DEF ShowLoaded
  <2> QED
    BY <2>1 DEF HangInv, NothingHangs, Active
<1>4. CASE NotFound
  <2>1. page'.phase = "not_found" /\ ~ page'.checking
    BY <1>1, <1>4 DEF NotFound, Pages
  <2> QED
    BY <2>1 DEF HangInv, NothingHangs
<1>5. CASE LoadFailed
  <2>1. CASE page.phase = "ready"
    <3>1. page'.phase = "ready" /\ ~ page'.checking /\ page'.watching = timer'
      BY <1>1, <1>5, <2>1 DEF LoadFailed, Pages
    <3> QED
      BY <3>1 DEF HangInv, NothingHangs, Active
  <2>2. CASE page.phase # "ready" /\ last = NoLead
    <3>1. page'.phase = "error" /\ ~ page'.checking
      BY <1>1, <1>5, <2>2 DEF LoadFailed, Pages, HangInv
    <3> QED
      BY <3>1 DEF HangInv, NothingHangs
  <2>3. CASE page.phase # "ready" /\ last # NoLead
    <3>1. page' = page /\ last' = last
      BY <1>5, <2>3 DEF LoadFailed
    <3>2. page.phase = "loading" => gen # wanted
      BY <2>3 DEF HangInv
    <3> QED
      BY <1>1, <2>3, <3>1, <3>2 DEF HangInv, NothingHangs, LoadUnderWay
  <2> QED
    BY <2>1, <2>2, <2>3
<1> QED
  BY <1>2, <1>3, <1>4, <1>5 DEF LoadArrives, Cancelled

LEMMA HangStep == IInv /\ HangInv /\ [Next]_vars => HangInv'
<1> SUFFICES ASSUME IInv, HangInv, [Next]_vars PROVE HangInv'
  OBVIOUS
<1>i. IInv /\ TypeOK
  BY DEF IInv
<1>0. page \in Pages
  BY <1>i DEF TypeOK
<1>1. CASE Intake
  <2>1. UNCHANGED <<wanted, gen, asked, answered, timer, last, page>>
    BY <1>1 DEF Intake, MovesOn, StepFails, Resumes, Becomes
  <2> QED
    BY <2>1 DEF HangInv, NothingHangs, Active, LoadUnderWay
<1>2. CASE AnswerReplay \/ TimePasses \/ TryAgain
  <2>1. UNCHANGED <<wanted, gen, asked, answered, timer, last, page>>
    BY <1>2 DEF AnswerReplay, TimePasses, TryAgain
  <2> QED
    BY <2>1 DEF HangInv, NothingHangs, Active, LoadUnderWay
<1>3. ASSUME NEW g \in asked, AnswerLoad(g) PROVE HangInv'
  <2>1. UNCHANGED <<wanted, gen, timer, last, page>> /\ asked' = asked \ {g}
    BY <1>3 DEF AnswerLoad
  <2>2. PICK result : answered' = answered \union {[gen |-> g, result |-> result]}
    BY <1>3 DEF AnswerLoad
  <2>3. LoadUnderWay => LoadUnderWay'
    <3> DEFINE a == [gen |-> g, result |-> result]
    <3>1. a.gen = g /\ a \in answered'
      BY <2>2
    <3>2. answered \subseteq answered'
      BY <2>2
    <3> HIDE DEF a
    <3> QED
      BY <2>1, <3>1, <3>2 DEF LoadUnderWay
  <2> QED
    BY <2>1, <2>3 DEF HangInv, NothingHangs, Active
<1>4. CASE RunEffect
  <2>1. page' = page /\ LoadUnderWay' /\ last' = NoLead
    BY <1>4, StartedIsUnderWay DEF RunEffect
  <2> QED
    BY <2>1 DEF HangInv, NothingHangs, Active
<1>5. CASE TimerFires
  <2>1. UNCHANGED <<wanted, gen, last, page>> /\ LoadUnderWay'
    BY <1>5 DEF TimerFires, LoadUnderWay
  <2> QED
    BY <2>1 DEF HangInv, NothingHangs, Active
<1>6. ASSUME NEW a \in answered, LoadArrives(a) PROVE HangInv'
  BY <1>6, <1>i, LoadNeverHangs
<1>7. CASE CheckAgain
  <2>1. LoadUnderWay' /\ page.phase = "ready" /\ page' = [page EXCEPT !.checking = TRUE]
    BY <1>7, StartedIsUnderWay DEF CheckAgain, OffersCheckAgain
  <2>2. page'.phase = "ready"
    BY <1>0, <2>1 DEF Pages
  <2> QED
    BY <2>1, <2>2 DEF HangInv, NothingHangs, Active
<1>8. CASE Retry
  <2>1. LoadUnderWay' /\ last' = NoLead
    BY <1>8, StartedIsUnderWay DEF Retry
  <2>2. page'.phase = "loading" /\ ~ page'.checking
    BY <1>0, <1>8 DEF Retry, Reload, Pages
  <2> QED
    BY <2>1, <2>2 DEF HangInv, NothingHangs
<1>9. CASE ReplayArrives
  <2>0. UNCHANGED <<gen, asked, answered, timer, last>> /\ wanted \in Nat
    BY <1>9, <1>i DEF ReplayArrives, TypeOK
  <2>1. CASE Show(replay.lead)
    <3>1. page'.phase = "ready" /\ ~ page'.watching /\ ~ page'.checking
      BY <2>1 DEF Show
    <3> QED
      BY <3>1 DEF HangInv, NothingHangs
  <2>2. CASE Reload
    <3>1. page'.phase = "loading" /\ ~ page'.checking
      BY <1>0, <2>2 DEF Reload, Pages
    <3>2. gen # wanted'
      BY <1>i, <2>0, <2>2 DEF IInv, OneChain, Reload, Bump, TypeOK
    <3> QED
      BY <2>0, <3>1, <3>2 DEF HangInv, NothingHangs, LoadUnderWay
  <2>3. CASE UNCHANGED <<wanted, page>>
    BY <2>0, <2>3 DEF HangInv, NothingHangs, Active, LoadUnderWay
  <2> QED
    BY <1>9, <2>1, <2>2, <2>3 DEF ReplayArrives
<1>10. CASE UNCHANGED vars
  BY <1>10 DEF vars, HangInv, NothingHangs, Active, LoadUnderWay
<1> QED
  BY <1>1, <1>2, <1>3, <1>4, <1>5, <1>6, <1>7, <1>8, <1>9, <1>10
     DEF Next, Network, Effect, Buttons

\* The page never waits for something that is not coming, whatever is lost, late or clicked.
THEOREM PageNeverHangs == Spec => []NothingHangs
<1>1. HangInv => NothingHangs BY DEF HangInv
<1>2. IInv /\ HangInv /\ [Next]_vars => (IInv /\ HangInv)' BY StepHolds, HangStep
<1> QED BY <1>1, <1>2, InitHolds, HangInit, PTL DEF Spec
==============================================================================
