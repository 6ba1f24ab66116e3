----------------------------- MODULE OpsConsole ------------------------------
(***************************************************************************)
(* The operator's page /ops of the web app (apps/web/src/app/ops, with     *)
(* components/ops and lib/ops-view.ts) and the overview it shows           *)
(* (packages/ops/src/overview.ts), against Leads that move meanwhile.      *)
(*                                                                         *)
(* Three parties run at their own pace: intake and the services the        *)
(* overview is about; the server that gathers an overview, section by      *)
(* section, each time the page is rendered; and the browser, where the     *)
(* refresh timer and the list with its Replay buttons keep state of their  *)
(* own across renders.                                                     *)
(*                                                                         *)
(* Abstracted: a Lead is failed, open (something is still to be done) or   *)
(* closed; a section has an issue or is fine; time is the age of what is   *)
(* on screen and of the last attempt, up to the refresh interval, by       *)
(* clocks that agree.                                                      *)
(***************************************************************************)
EXTENDS Integers, FiniteSets, Sequences, Functions

CONSTANTS Leads,
          Sections,   \* the sections of the overview, "attention" among them
          Limit,      \* Leads the list asks intake for (50 in the code)
          Interval,   \* ticks between refreshes (30 seconds)
          NoLead,
          MaxMoves,   \* bound: changes of Leads and services
          MaxFaults,  \* bound: sections that fail, pages opened anew
          MaxReplays  \* bound: Replays asked for

AllSections == {"health", "statusPage", "alerts", "stats", "attention"}
Judged == {"health", "alerts"} \intersect Sections   \* besides the list, what may have issues

ASSUME ConsoleAssumption ==
  /\ "attention" \in Sections /\ Sections \subseteq AllSections
  /\ Limit \in Nat \ {0} /\ Interval \in Nat \ {0}
  /\ MaxMoves \in Nat /\ MaxFaults \in Nat /\ MaxReplays \in Nat
  /\ IsFiniteSet(Leads) /\ NoLead \notin Leads

VARIABLES
  status, stale, order, \* the Leads: status, not saved for STUCK_AFTER_MS, place (1: saved last)
  trouble,              \* the judged sections with an issue, now
  queue,                \* renders the browser waits for, and who asked for each
  loading,              \* the server gathers the first of them:
  reads, ids, rows,     \*   each section, the Leads found, those loaded
  needy, troubled,      \* those in need, or with an issue, ever since that render began
  headline,             \* on screen: the summary,
  mounted, listed,      \*   whether there is a list, and its rows
  age, since,           \* of the overview shown; since the last attempt
  watching,             \* neither paused nor in a hidden tab
  refreshing,
  table,                \* which mounting of the list this is
  replaying, outcome,   \* its state
  asked, answered,      \* its last Replay, and what was answered to that
  inFlight,             \* Replays intake has not answered
  moves, faults, replays

world == <<status, stale, order, trouble>>
server == <<loading, reads, ids, rows, needy, troubled>>
screen == <<headline, mounted, listed>>
timer == <<age, since, watching, refreshing>>
list == <<table, replaying, outcome, asked, answered>>
vars == <<world, queue, server, screen, timer, list, inFlight, moves, faults, replays>>

Statuses == {"open", "failed", "closed"}
NoOutcome == [lead |-> NoLead, ok |-> FALSE]
Outcomes == [lead : Leads, ok : BOOLEAN] \union {NoOutcome}
Row == [lead : Leads, status : Statuses]
Unread == "unread"
Found == "found"      \* of the list: the Leads are known, their rows not yet
Section == {Unread, "fine", "issue", "failed"}   \* "fine": also of what nobody judges
Nothing == [s \in Sections |-> Unread]
NoPage == "no page"
Opened == headline # NoPage
Orders == Injection(Leads, 1 .. Cardinality(Leads))

\* The list's own state does not survive its unmounting.
TypeOK ==
  /\ status \in [Leads -> Statuses] /\ stale \subseteq Leads /\ trouble \subseteq Judged
  /\ order \in Orders
  /\ queue \in Seq({"open", "timer", "replay"})
  /\ reads \in [Sections -> Section \union {Found}]
  /\ headline \in {NoPage, "issues", "No issues found", "All systems operational"}
  /\ mounted \in BOOLEAN
  /\ rows \subseteq Row /\ listed \subseteq Row
  /\ ids \subseteq Leads /\ needy \subseteq Leads /\ troubled \subseteq Judged
  /\ age \in 0 .. Interval /\ since \in 0 .. Interval
  /\ loading \in BOOLEAN /\ watching \in BOOLEAN
  /\ refreshing = (\E i \in DOMAIN queue : queue[i] = "timer")
  /\ table \in Nat /\ replaying \in Leads \union {NoLead} /\ outcome \in Outcomes
  /\ asked \in 0 .. MaxReplays /\ answered \in Outcomes
  /\ inFlight \subseteq [id : 1 .. MaxReplays, table : Nat, lead : Leads]
  /\ (~mounted => <<replaying, outcome, asked, answered>> = <<NoLead, NoOutcome, 0, NoOutcome>>)
  /\ moves \in 0 .. MaxMoves /\ faults \in 0 .. MaxFaults /\ replays \in 0 .. MaxReplays

Init ==
  /\ status \in [Leads -> {"open", "failed"}] /\ stale = {}
  /\ order = (CHOOSE o \in Orders : TRUE) \* which is which does not matter
  /\ trouble = {}
  /\ queue = <<"open">>
  /\ loading = FALSE /\ reads = Nothing /\ ids = {} /\ rows = {} /\ needy = {} /\ troubled = {}
  /\ headline = NoPage /\ mounted = FALSE /\ listed = {}
  /\ age = 0 /\ since = Interval \* lastAttempt starts at 0, long ago
  /\ watching = TRUE /\ refreshing = FALSE
  /\ table = 0 /\ replaying = NoLead /\ outcome = NoOutcome
  /\ asked = 0 /\ answered = NoOutcome /\ inFlight = {}
  /\ moves = 0 /\ faults = 0 /\ replays = 0
-----------------------------------------------------------------------------
(* intake and the services *)

\* What the list is for: failed, or stuck where something is still to be done.
NeedsAttention(st, old) == {l \in Leads : st[l] = "failed" \/ (st[l] = "open" /\ l \in old)}

\* A change out there, seen by the render under way, if any.
Moves ==
  /\ moves < MaxMoves /\ moves' = moves + 1
  /\ needy' = needy \intersect NeedsAttention(status', stale')
  /\ troubled' = troubled \intersect trouble'
  /\ UNCHANGED <<queue, loading, reads, ids, rows, screen, timer, list, inFlight, faults, replays>>

\* A run or a Replay (from anywhere) saves the Lead: it becomes the newest.
PipelineSaves(l) ==
  /\ status[l] # "closed"
  /\ \E s \in Statuses : status' = [status EXCEPT ![l] = s]
  /\ stale' = stale \ {l}
  /\ order' = [k \in Leads |-> IF k = l THEN 1
                               ELSE IF order[k] < order[l] THEN order[k] + 1 ELSE order[k]]
  /\ trouble' = trouble
  /\ Moves

\* STUCK_AFTER_MS pass without a save.
GoesStale(l) ==
  /\ status[l] = "open" /\ l \notin stale
  /\ stale' = stale \union {l}
  /\ UNCHANGED <<status, order, trouble>>
  /\ Moves

TroubleChanges(s) ==
  /\ trouble' = IF s \in trouble THEN trouble \ {s} ELSE trouble \union {s}
  /\ UNCHANGED <<status, stale, order>>
  /\ Moves
-----------------------------------------------------------------------------
(* What the page says of an overview *)

Issues(overview) == \E s \in Judged \union {"attention"} : overview[s] = "issue"
Unavailable(overview) == {s \in Sections : overview[s] = "failed"}

\* Mutant: what could not be checked counts as checked.
summarizeLoaded(overview) ==
  IF Issues(overview) THEN "issues" ELSE "All systems operational"

summarize(overview) ==
  IF Issues(overview) THEN "issues"
  ELSE IF Unavailable(overview) # {} THEN "No issues found"
  ELSE "All systems operational"
-----------------------------------------------------------------------------
(* The server: one render of the page at a time for this browser. *)

\* Where a section stands, as it may be shown: one failing source hides no other.
section(answers) == answers \union IF faults < MaxFaults THEN {"failed"} ELSE {}

\* Every source is asked at once; each answers, or times out, in its own time.
StartLoad ==
  /\ queue # <<>> /\ ~loading
  /\ loading' = TRUE
  /\ needy' = NeedsAttention(status, stale) /\ troubled' = trouble
  /\ UNCHANGED <<world, queue, reads, ids, rows, screen, timer, list, inFlight, moves, faults, replays>>

Reads(s, r) ==
  /\ reads' = [reads EXCEPT ![s] = r]
  /\ faults' = IF r = "failed" THEN faults + 1 ELSE faults
  /\ UNCHANGED <<world, queue, loading, needy, troubled, screen, timer, list, inFlight, moves, replays>>

\* The services are asked one by one, and whatever goes wrong with one means it is down.
checkHealth == {IF "health" \in trouble THEN "issue" ELSE "fine"}
alertState == section({IF "alerts" \in trouble THEN "issue" ELSE "fine"})

ReadSection(s) ==
  /\ loading /\ s # "attention" /\ reads[s] = Unread
  /\ \E r \in IF s = "health" THEN checkHealth
              ELSE IF s = "alerts" THEN alertState
              ELSE section({"fine"}) :
       Reads(s, r)
  /\ UNCHANGED <<ids, rows>>

\* intake picks the newest few first, then loads each.
needingAttention ==
  LET found == NeedsAttention(status, stale)
  IN  {l \in found : Cardinality({k \in found : order[k] < order[l]}) < Limit}

FindLeads ==
  /\ loading /\ reads["attention"] = Unread
  /\ \/ /\ ids' = needingAttention
        /\ Reads("attention", IF ids' = {} THEN "fine" ELSE Found)
     \/ /\ faults < MaxFaults
        /\ ids' = {}
        /\ Reads("attention", "failed")
  /\ rows' = rows

\* The row tells of the Lead as it is by then.
LoadRow(l) ==
  /\ loading /\ reads["attention"] = Found
  /\ l \in ids /\ \A r \in rows : r.lead # l
  /\ rows' = rows \union {[lead |-> l, status |-> status[l]]}
  /\ Reads("attention", IF Cardinality(rows') = Cardinality(ids) THEN "issue" ELSE Found)
  /\ ids' = ids

\* Mutant: only a refresh that got everything counts as ended.
RefreshingUntilWhole == refreshing /\ (Head(queue) # "timer" \/ Unavailable(reads) # {})

\* The transition of a refresh ends with the render it asked for.
StillRefreshing == refreshing /\ Head(queue) # "timer"

IsRead(s) == reads[s] \notin {Unread, Found}

\* The new page replaces the one on screen; the list keeps its state only where a
\* list was and still is (SectionBody).
LoadEnds ==
  /\ loading /\ \A s \in Sections : IsRead(s)
  /\ headline' = summarize(reads)
  /\ mounted' = (reads["attention"] # "failed") /\ listed' = rows
  /\ age' = 0
  /\ queue' = Tail(queue)
  /\ refreshing' = StillRefreshing
  /\ loading' = FALSE /\ reads' = Nothing
  /\ ids' = {} /\ rows' = {} /\ needy' = {} /\ troubled' = {}
  /\ IF mounted /\ ~mounted'
       THEN /\ table' = table + 1
            /\ replaying' = NoLead /\ outcome' = NoOutcome
            /\ asked' = 0 /\ answered' = NoOutcome
       ELSE UNCHANGED list
  /\ UNCHANGED <<world, since, watching, inFlight, moves, faults, replays>>

\* The operator opens the page again, or Next does so after a failed refresh.
Reload ==
  /\ Opened /\ faults < MaxFaults /\ faults' = faults + 1
  /\ queue' = <<"open">>
  /\ loading' = FALSE /\ reads' = Nothing
  /\ ids' = {} /\ rows' = {} /\ needy' = {} /\ troubled' = {}
  /\ headline' = NoPage /\ mounted' = FALSE /\ listed' = {}
  /\ age' = 0 /\ since' = Interval /\ watching' = TRUE /\ refreshing' = FALSE
  /\ table' = table + 1 /\ replaying' = NoLead /\ outcome' = NoOutcome
  /\ asked' = 0 /\ answered' = NoOutcome /\ inFlight' = {}
  /\ UNCHANGED <<world, moves, replays>>
-----------------------------------------------------------------------------
(* The browser: the refresh timer. *)

Tick ==
  /\ Opened /\ (age < Interval \/ since < Interval)
  /\ age' = IF age < Interval THEN age + 1 ELSE age
  /\ since' = IF since < Interval THEN since + 1 ELSE since
  /\ UNCHANGED <<world, queue, server, screen, watching, refreshing, list, inFlight,
                 moves, faults, replays>>

refresh ==
  /\ since' = 0 /\ refreshing' = TRUE
  /\ queue' = Append(queue, "timer")
  /\ UNCHANGED <<world, server, screen, age, watching, list, inFlight, moves, faults, replays>>

\* Mutant: the timer does not look whether a refresh is under way.
AutoRefreshAnyway ==
  /\ Opened /\ watching
  /\ age >= Interval /\ since >= Interval
  /\ refresh

\* Every second, and when the tab comes to the front.
AutoRefresh ==
  /\ Opened /\ watching /\ ~refreshing
  /\ age >= Interval /\ since >= Interval
  /\ refresh

RefreshButton ==
  /\ Opened /\ ~refreshing
  /\ refresh

\* The operator pauses or resumes; the tab goes to the back or comes to the front.
PauseOrHide ==
  /\ Opened /\ watching' = ~watching
  /\ UNCHANGED <<world, queue, server, screen, age, since, refreshing, list, inFlight,
                 moves, faults, replays>>
-----------------------------------------------------------------------------
(* The browser: the list's Replay buttons. *)

\* Mutant: the button does not wait for the Replay that runs.
ReplayAnyTime(l) ==
  /\ mounted /\ \E r \in listed : r.lead = l
  /\ replays < MaxReplays /\ replays' = replays + 1
  /\ replaying' = l /\ outcome' = NoOutcome
  /\ asked' = replays' /\ answered' = NoOutcome
  /\ inFlight' = inFlight \union {[id |-> replays', table |-> table, lead |-> l]}
  /\ UNCHANGED <<world, queue, server, screen, timer, table, moves, faults>>

\* The button of a row, and replay() up to its await. Where the row is not failed
\* the operator confirms first (or declines, and nothing happens).
Replay(l) ==
  /\ mounted /\ \E r \in listed : r.lead = l
  /\ replaying = NoLead
  /\ replays < MaxReplays /\ replays' = replays + 1
  /\ replaying' = l /\ outcome' = NoOutcome
  /\ asked' = replays' /\ answered' = NoOutcome
  /\ inFlight' = inFlight \union {[id |-> replays', table |-> table, lead |-> l]}
  /\ UNCHANGED <<world, queue, server, screen, timer, table, moves, faults>>

\* intake's answer, a Lead or a refusal: it worked if the Lead is not failed now.
Answers == [kind : {"lead"}, status : Statuses] \union {[kind |-> "refusal"]}
describe(a) == IF a.kind = "lead" THEN a.status # "failed" ELSE FALSE

\* replay() after its await, for the list it was asked from; a refresh follows anyway.
\* What intake did meanwhile are PipelineSaves.
ReplayAnswered(q, a) ==
  /\ inFlight' = inFlight \ {q}
  /\ queue' = Append(queue, "replay")
  /\ answered' = IF q.id = asked THEN [lead |-> q.lead, ok |-> describe(a)] ELSE answered
  /\ IF q.table = table
       THEN replaying' = NoLead /\ outcome' = [lead |-> q.lead, ok |-> describe(a)]
       ELSE UNCHANGED <<replaying, outcome>>
  /\ UNCHANGED <<world, server, screen, timer, table, asked, moves, faults, replays>>

ReplayEnds(q) == \E a \in Answers : ReplayAnswered(q, a)

Next ==
  \/ \E l \in Leads : PipelineSaves(l) \/ GoesStale(l) \/ LoadRow(l) \/ Replay(l)
  \/ \E s \in Judged : TroubleChanges(s)
  \/ \E s \in Sections : ReadSection(s)
  \/ StartLoad \/ FindLeads \/ LoadEnds \/ Reload
  \/ Tick \/ AutoRefresh \/ RefreshButton \/ PauseOrHide
  \/ \E q \in inFlight : ReplayEnds(q)

\* Every read of the server is bounded by a timeout; the browser's clock ticks and its
\* timer runs each second; intake answers a Replay.
Fairness ==
  /\ WF_vars(StartLoad) /\ WF_vars(FindLeads) /\ WF_vars(LoadEnds)
  /\ \A s \in Sections : WF_vars(ReadSection(s))
  /\ \A l \in Leads : WF_vars(LoadRow(l))
  /\ WF_vars(Tick) /\ WF_vars(AutoRefresh)
  /\ WF_vars(\E q \in inFlight : ReplayEnds(q))

Spec == Init /\ [][Next]_vars /\ Fairness
-----------------------------------------------------------------------------
(* What the console promises *)

\* The outcome above the list is the answer to the Replay asked last from this list, never
\* that of an earlier one that came later; and while one is out, there is none (replay()).
OutcomeIsTheLastAnswer ==
  /\ outcome = answered
  /\ mounted => (replaying # NoLead) =
                  (\E q \in inFlight : q.id = asked /\ q.table = table)

\* The page says that all is well only if nothing was wrong all the while it was gathered,
\* though its parts are read at different moments and may fail; and a Lead in need all that
\* while is on the list, unless the list is full (summarize, needingAttention).
AllClearIsEarned ==
  [][LoadEnds =>
       /\ headline' = "All systems operational" => needy = {} /\ troubled = {}
       /\ mounted' =>
            \A l \in needy : \/ \E r \in listed' : r.lead = l
                             \/ Cardinality(listed') = Limit]_vars

\* A page left open and in view never keeps showing an old overview, and neither the refresh
\* nor a Replay hangs, whatever fails meanwhile (AutoRefresh, replay()).
KeepsWatch ==
  /\ (age = Interval /\ watching) ~> (age < Interval \/ ~watching)
  /\ refreshing ~> ~refreshing
  /\ \A l \in Leads : (replaying = l) ~> (replaying # l)
==============================================================================
