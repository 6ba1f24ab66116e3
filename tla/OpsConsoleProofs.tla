-------------------------- MODULE OpsConsoleProofs ---------------------------
(***************************************************************************)
(* Theorems about the operator's page, for any Leads, sections, limit,     *)
(* interval and bounds: its types, the outcome above the list, the         *)
(* headline, and that neither page nor list ever hangs.                    *)
(***************************************************************************)
EXTENDS OpsConsole, TLAPS, FiniteSetTheorems, SequenceTheorems, FunctionTheorems

-----------------------------------------------------------------------------
(* The list and its Replays.                                               *)

\* A Replay in flight was asked from this list exactly if it is the one this list asked
\* last; while there is one the buttons wait, and only then.
ListInv ==
  /\ table \in Nat /\ replays \in Nat /\ asked \in Nat /\ mounted \in BOOLEAN
  /\ asked <= replays
  /\ \A q \in inFlight : /\ q.id \in Nat /\ 0 < q.id /\ q.id <= replays
                         /\ q.table \in Nat /\ q.table <= table
                         /\ q.table = table <=> q.id = asked
                         /\ q.table = table => replaying # NoLead
  /\ \A q, r \in inFlight : q.id = r.id => q = r
  /\ replaying # NoLead => \E q \in inFlight : q.id = asked
  /\ ~mounted => replaying = NoLead /\ asked = 0
  /\ outcome = answered

LEMMA ListInit == Init => ListInv
<1> SUFFICES ASSUME Init PROVE ListInv
  OBVIOUS
<1>1. /\ table = 0 /\ replays = 0 /\ asked = 0 /\ inFlight = {}
      /\ replaying = NoLead /\ outcome = answered
  BY DEF Init
<1>2. mounted \in BOOLEAN
  BY Zenon DEF Init
<1> QED
  BY <1>1, <1>2 DEF ListInv

LEMMA ListStep == ListInv /\ [Next]_vars => ListInv'
<1> SUFFICES ASSUME ListInv, [Next]_vars PROVE ListInv'
  OBVIOUS
<1>1. ASSUME UNCHANGED <<list, mounted, inFlight, replays>> PROVE ListInv'
  BY <1>1 DEF ListInv, list
<1>2. ASSUME NEW l \in Leads, PipelineSaves(l) \/ GoesStale(l) PROVE ListInv'
  BY <1>1, <1>2 DEF PipelineSaves, GoesStale, Moves, screen
<1>3. ASSUME NEW s \in Judged, TroubleChanges(s) PROVE ListInv'
  BY <1>1, <1>3 DEF TroubleChanges, Moves, screen
<1>4. ASSUME NEW l \in Leads, LoadRow(l) PROVE ListInv'
  BY <1>1, <1>4 DEF LoadRow, Reads, screen
<1>5. ASSUME NEW s \in Sections, ReadSection(s) PROVE ListInv'
  BY <1>1, <1>5 DEF ReadSection, Reads, screen
<1>6. CASE FindLeads
  BY <1>1, <1>6 DEF FindLeads, Reads, screen
<1>7. CASE StartLoad
  BY <1>1, <1>7 DEF StartLoad, screen
<1>8. CASE Tick \/ PauseOrHide
  BY <1>1, <1>8 DEF Tick, PauseOrHide, screen
<1>9. CASE AutoRefresh \/ RefreshButton
  BY <1>1, <1>9 DEF AutoRefresh, RefreshButton, refresh, screen
<1>10. CASE LoadEnds
  <2>1. CASE mounted /\ ~mounted'
    BY <1>10, <2>1 DEF LoadEnds, ListInv
  <2>2. CASE ~(mounted /\ ~mounted')
    BY <1>10, <2>2 DEF LoadEnds, ListInv, list
  <2> QED
    BY <2>1, <2>2
<1>11. CASE Reload
  <2>1. /\ table' = table + 1 /\ replays' = replays /\ asked' = 0 /\ inFlight' = {}
        /\ replaying' = NoLead /\ outcome' = answered'
    BY <1>11 DEF Reload
  <2>2. mounted' \in BOOLEAN
    BY <1>11, Zenon DEF Reload
  <2> QED
    BY <2>1, <2>2 DEF ListInv
<1>12. ASSUME NEW l \in Leads, Replay(l) PROVE ListInv'
  <2> DEFINE q0 == [id |-> replays + 1, table |-> table, lead |-> l]
  <2>1. /\ mounted /\ replaying = NoLead /\ replays' = replays + 1 /\ asked' = replays + 1
        /\ inFlight' = inFlight \union {q0} /\ replaying' = l /\ l # NoLead
        /\ outcome' = answered' /\ UNCHANGED <<table, mounted>>
    BY <1>12, ConsoleAssumption DEF Replay, screen
  <2>2. /\ q0.id = replays + 1 /\ q0.table = table
        /\ \A q \in inFlight : q.id # replays + 1 /\ q.id # asked
    BY <2>1 DEF ListInv
  <2> HIDE DEF q0
  <2> QED
    BY <2>1, <2>2 DEF ListInv
<1>13. ASSUME NEW q \in inFlight, ReplayEnds(q) PROVE ListInv'
  <2>1. /\ inFlight' = inFlight \ {q}
        /\ UNCHANGED <<table, replays, asked, mounted>>
        /\ IF q.table = table THEN replaying' = NoLead /\ outcome' = answered'
                              ELSE UNCHANGED <<replaying, outcome, answered>>
    BY <1>13 DEF ReplayEnds, ReplayAnswered, ListInv, screen
  <2>2. CASE q.table = table
    BY <2>1, <2>2 DEF ListInv
  <2>3. CASE q.table # table
    BY <2>1, <2>3 DEF ListInv
  <2> QED
    BY <2>2, <2>3
<1>14. CASE UNCHANGED vars
  BY <1>1, <1>14 DEF vars, screen, list
<1> QED
  BY <1>2, <1>3, <1>4, <1>5, <1>6, <1>7, <1>8, <1>9, <1>10, <1>11, <1>12, <1>13, <1>14 DEF Next

THEOREM ListInvariant == Spec => []ListInv
BY ListInit, ListStep, PTL DEF Spec

\* The outcome above the list is that of the Replay asked last from it, however answers and
\* renders of the page are ordered; and the buttons wait exactly while that Replay runs.
THEOREM OutcomeIsCurrent == Spec => []OutcomeIsTheLastAnswer
<1>1. ListInv => OutcomeIsTheLastAnswer
  BY DEF ListInv, OutcomeIsTheLastAnswer
<1> QED
  BY <1>1, ListInvariant, PTL

-----------------------------------------------------------------------------
(* Types.                                                                  *)

\* There is some order to begin with.
LEMMA OrdersExist == (CHOOSE o \in Orders : TRUE) \in Orders
<1>1. ExistsBijection(1 .. Cardinality(Leads), Leads)
  BY FS_CardinalityType, ConsoleAssumption
<1>2. PICK f : f \in Bijection(1 .. Cardinality(Leads), Leads)
  BY <1>1 DEF ExistsBijection
<1>3. Inverse(f, 1 .. Cardinality(Leads), Leads) \in Bijection(Leads, 1 .. Cardinality(Leads))
  BY <1>2, Fun_BijInverse
<1> QED
  BY <1>3 DEF Orders, Bijection

\* TypeOK in four parts, and of the queue that it has one refresh of the timer at most and
\* holds the render under way.
WorldTypes ==
  /\ status \in [Leads -> Statuses] /\ stale \subseteq Leads /\ trouble \subseteq Judged
  /\ order \in Orders /\ moves \in 0 .. MaxMoves

ServerTypes ==
  /\ reads \in [Sections -> Section \union {Found}]
  /\ rows \subseteq Row /\ ids \subseteq Leads /\ needy \subseteq Leads /\ troubled \subseteq Judged
  /\ headline \in {NoPage, "issues", "No issues found", "All systems operational"}
  /\ listed \subseteq Row /\ faults \in 0 .. MaxFaults

TimerTypes ==
  /\ queue \in Seq({"open", "timer", "replay"})
  /\ \A i, j \in DOMAIN queue : queue[i] = "timer" /\ queue[j] = "timer" => i = j
  /\ loading \in BOOLEAN /\ (loading => queue # <<>>)
  /\ refreshing = (\E i \in DOMAIN queue : queue[i] = "timer")
  /\ age \in 0 .. Interval /\ since \in 0 .. Interval /\ watching \in BOOLEAN

ListTypes ==
  /\ replaying \in Leads \union {NoLead} /\ outcome \in Outcomes /\ answered \in Outcomes
  /\ asked \in 0 .. MaxReplays /\ replays \in 0 .. MaxReplays
  /\ inFlight \subseteq [id : 1 .. MaxReplays, table : Nat, lead : Leads]
  /\ (~mounted => outcome = NoOutcome)

LEMMA WorldStep == WorldTypes /\ [Next]_vars => WorldTypes'
<1> SUFFICES ASSUME WorldTypes, [Next]_vars PROVE WorldTypes'
  OBVIOUS
<1>1. ASSUME UNCHANGED <<world, moves>> PROVE WorldTypes'
  BY <1>1 DEF WorldTypes, world
<1>2. ASSUME NEW l \in Leads, PipelineSaves(l) PROVE WorldTypes'
  <2>1. /\ status' \in [Leads -> Statuses] /\ stale' \subseteq Leads /\ trouble' \subseteq Judged
    BY <1>2 DEF PipelineSaves, WorldTypes
  <2>2. moves' \in 0 .. MaxMoves
    BY <1>2, ConsoleAssumption DEF PipelineSaves, Moves, WorldTypes
  <2>3. order' \in Orders
    <3> DEFINE N == Cardinality(Leads)
    <3>1. N \in Nat
      BY FS_CardinalityType, ConsoleAssumption
    <3>2. /\ order \in [Leads -> 1 .. N]
          /\ \A a, b \in Leads : order[a] = order[b] => a = b
      BY Fun_InjectionProperties DEF WorldTypes, Orders
    <3> HIDE DEF N
    <3>3. order' = [k \in Leads |-> IF k = l THEN 1
                       ELSE IF order[k] < order[l] THEN order[k] + 1 ELSE order[k]]
      BY <1>2 DEF PipelineSaves
    <3>4. order' \in [Leads -> 1 .. N]
      BY <3>1, <3>2, <3>3
    <3>5. \A a, b \in Leads : order'[a] = order'[b] => a = b
      BY <3>1, <3>2, <3>3
    <3>6. order' \in Injection(Leads, 1 .. N)
      BY <3>4, <3>5, Fun_IsInj
    <3> QED
      BY <3>6 DEF Orders, N
  <2> QED
    BY <2>1, <2>2, <2>3 DEF WorldTypes
<1>3. ASSUME NEW l \in Leads, GoesStale(l) PROVE WorldTypes'
  BY <1>3, ConsoleAssumption DEF GoesStale, Moves, WorldTypes
<1>4. ASSUME NEW s \in Judged, TroubleChanges(s) PROVE WorldTypes'
  BY <1>4, ConsoleAssumption DEF TroubleChanges, Moves, WorldTypes
<1>5. ASSUME NEW l \in Leads, LoadRow(l) \/ Replay(l) PROVE WorldTypes'
  BY <1>1, <1>5 DEF LoadRow, Reads, Replay
<1>6. ASSUME NEW s \in Sections, ReadSection(s) PROVE WorldTypes'
  BY <1>1, <1>6 DEF ReadSection, Reads
<1>7. CASE StartLoad \/ FindLeads \/ LoadEnds \/ Reload
  BY <1>1, <1>7 DEF StartLoad, FindLeads, Reads, LoadEnds, Reload
<1>8. CASE Tick \/ AutoRefresh \/ RefreshButton \/ PauseOrHide
  BY <1>1, <1>8 DEF Tick, AutoRefresh, RefreshButton, refresh, PauseOrHide
<1>9. ASSUME NEW q \in inFlight, ReplayEnds(q) PROVE WorldTypes'
  BY <1>1, <1>9 DEF ReplayEnds, ReplayAnswered
<1>10. CASE UNCHANGED vars
  BY <1>1, <1>10 DEF vars
<1> QED
  BY <1>2, <1>3, <1>4, <1>5, <1>6, <1>7, <1>8, <1>9, <1>10 DEF Next

LEMMA ServerStep == WorldTypes /\ ServerTypes /\ [Next]_vars => ServerTypes'
<1> SUFFICES ASSUME WorldTypes, ServerTypes, [Next]_vars PROVE ServerTypes'
  OBVIOUS
<1>1. ASSUME UNCHANGED <<reads, rows, ids, headline, listed, faults>>,
             needy' \subseteq Leads, troubled' \subseteq Judged
      PROVE  ServerTypes'
  BY <1>1 DEF ServerTypes
<1>2. ASSUME Moves PROVE ServerTypes'
  BY <1>1, <1>2 DEF Moves, ServerTypes, screen
<1>3. ASSUME NEW l \in Leads, PipelineSaves(l) \/ GoesStale(l) PROVE ServerTypes'
  BY <1>2, <1>3 DEF PipelineSaves, GoesStale
<1>4. ASSUME NEW s \in Judged, TroubleChanges(s) PROVE ServerTypes'
  BY <1>2, <1>4 DEF TroubleChanges
<1>5. ASSUME NEW s \in Sections, NEW r \in Section \union {Found}, Reads(s, r),
             r = "failed" => faults < MaxFaults,
             rows' \subseteq Row, ids' \subseteq Leads
      PROVE  ServerTypes'
  <2>1. reads' \in [Sections -> Section \union {Found}]
    BY <1>5 DEF Reads, ServerTypes
  <2>2. faults' \in 0 .. MaxFaults
    <3>1. faults' = (IF r = "failed" THEN faults + 1 ELSE faults) /\ faults \in 0 .. MaxFaults
      BY <1>5 DEF Reads, ServerTypes
    <3> QED
      BY <1>5, <3>1, ConsoleAssumption
  <2>3. UNCHANGED <<needy, troubled, headline, listed>>
    BY <1>5 DEF Reads, screen
  <2> QED
    BY <1>5, <2>1, <2>2, <2>3 DEF ServerTypes
<1>6. ASSUME NEW l \in Leads, LoadRow(l) PROVE ServerTypes'
  <2>1. [lead |-> l, status |-> status[l]] \in Row
    BY DEF WorldTypes, Row
  <2>2. rows' \subseteq Row /\ ids' \subseteq Leads
    BY <1>6, <2>1 DEF LoadRow, ServerTypes
  <2>3. PICK r \in {"issue", Found} : Reads("attention", r)
    BY <1>6 DEF LoadRow
  <2> QED
    BY <1>5, <2>2, <2>3, ConsoleAssumption DEF Section, Found
<1>7. CASE FindLeads
  <2>1. needingAttention \subseteq Leads
    BY DEF needingAttention, NeedsAttention
  <2>2. rows' \subseteq Row /\ ids' \subseteq Leads
    BY <1>7, <2>1 DEF FindLeads, ServerTypes
  <2>3. PICK r \in {"fine", Found, "failed"} :
          Reads("attention", r) /\ (r = "failed" => faults < MaxFaults)
    BY <1>7 DEF FindLeads, Found
  <2> QED
    BY <1>5, <2>2, <2>3, ConsoleAssumption DEF Section
<1>8. ASSUME NEW s \in Sections, ReadSection(s) PROVE ServerTypes'
  <2>1. PICK r \in {"fine", "issue", "failed"} :
          Reads(s, r) /\ (r = "failed" => faults < MaxFaults)
    BY <1>8 DEF ReadSection, checkHealth, alertState, section
  <2>2. rows' \subseteq Row /\ ids' \subseteq Leads
    BY <1>8 DEF ReadSection, ServerTypes
  <2> QED
    BY <1>5, <2>1, <2>2 DEF Section
<1>9. CASE StartLoad
  BY <1>1, <1>9 DEF StartLoad, NeedsAttention, ServerTypes, WorldTypes, screen
<1>10. Nothing \in [Sections -> Section \union {Found}]
  BY DEF Nothing, Section
<1>11. CASE LoadEnds
  BY <1>10, <1>11 DEF LoadEnds, summarize, ServerTypes
<1>12. CASE Reload
  <2>1. /\ reads' = Nothing /\ ids' = {} /\ rows' = {} /\ needy' = {} /\ troubled' = {}
        /\ headline' = NoPage /\ listed' = {}
        /\ faults < MaxFaults /\ faults' = faults + 1
    BY <1>12 DEF Reload
  <2>2. faults' \in 0 .. MaxFaults
    <3>1. faults \in 0 .. MaxFaults /\ faults < MaxFaults /\ faults' = faults + 1
      BY <2>1 DEF ServerTypes
    <3> QED
      BY <3>1, ConsoleAssumption
  <2>3. reads' \in [Sections -> Section \union {Found}]
    BY <1>10, <2>1
  <2>4. headline' \in {NoPage, "issues", "No issues found", "All systems operational"}
    BY <2>1
  <2> QED
    BY <2>1, <2>2, <2>3, <2>4 DEF ServerTypes
<1>13. UNCHANGED <<server, screen, faults>> => ServerTypes'
  BY <1>1 DEF server, screen, ServerTypes
<1>14. CASE Tick \/ AutoRefresh \/ RefreshButton \/ PauseOrHide
  BY <1>13, <1>14 DEF Tick, AutoRefresh, RefreshButton, refresh, PauseOrHide
<1>15. ASSUME NEW l \in Leads, Replay(l) PROVE ServerTypes'
  BY <1>13, <1>15 DEF Replay
<1>16. ASSUME NEW q \in inFlight, ReplayEnds(q) PROVE ServerTypes'
  BY <1>13, <1>16 DEF ReplayEnds, ReplayAnswered
<1>17. CASE UNCHANGED vars
  BY <1>13, <1>17 DEF vars
<1> QED
  BY <1>3, <1>4, <1>6, <1>7, <1>8, <1>9, <1>11, <1>12, <1>14, <1>15, <1>16, <1>17 DEF Next

\* The renders the browser waits for, after one more is asked for and after the first ended.
LEMMA QueueGrows ==
  ASSUME TimerTypes, NEW x \in {"open", "timer", "replay"}, x = "timer" => ~refreshing,
         queue' = Append(queue, x), refreshing' = (refreshing \/ x = "timer"),
         loading' = loading, age' \in 0 .. Interval, since' \in 0 .. Interval, watching' \in BOOLEAN
  PROVE  TimerTypes'
<1>1. /\ queue' \in Seq({"open", "timer", "replay"}) /\ queue' # <<>>
      /\ Len(queue') = Len(queue) + 1 /\ queue'[Len(queue) + 1] = x
      /\ \A i \in 1 .. Len(queue) : queue'[i] = queue[i]
  BY AppendProperties DEF TimerTypes
<1>2. /\ DOMAIN queue = 1 .. Len(queue) /\ DOMAIN queue' = 1 .. Len(queue') /\ Len(queue) \in Nat
  BY <1>1 DEF TimerTypes
<1>3. refreshing' = (\E i \in DOMAIN queue' : queue'[i] = "timer")
  <2>1. (\E i \in DOMAIN queue' : queue'[i] = "timer")
           <=> x = "timer" \/ \E i \in DOMAIN queue : queue[i] = "timer"
    BY <1>1, <1>2
  <2> QED
    BY <2>1, Zenon DEF TimerTypes
<1>4. \A i, j \in DOMAIN queue' : queue'[i] = "timer" /\ queue'[j] = "timer" => i = j
  BY <1>1, <1>2 DEF TimerTypes
<1> QED
  BY <1>1, <1>3, <1>4 DEF TimerTypes

LEMMA QueueShrinks ==
  ASSUME TimerTypes, queue # <<>>, queue' = Tail(queue), refreshing' = StillRefreshing
  PROVE  /\ queue' \in Seq({"open", "timer", "replay"})
         /\ \A i, j \in DOMAIN queue' : queue'[i] = "timer" /\ queue'[j] = "timer" => i = j
         /\ refreshing' = (\E i \in DOMAIN queue' : queue'[i] = "timer")
<1>1. /\ queue' \in Seq({"open", "timer", "replay"}) /\ Head(queue) = queue[1]
      /\ Len(queue') = Len(queue) - 1
      /\ \A i \in 1 .. Len(queue') : queue'[i] = queue[i + 1]
  BY HeadTailProperties DEF TimerTypes
<1>2. /\ DOMAIN queue = 1 .. Len(queue) /\ DOMAIN queue' = 1 .. Len(queue')
      /\ Len(queue) \in Nat \ {0}
  BY <1>1 DEF TimerTypes
<1>3. \A i, j \in DOMAIN queue' : queue'[i] = "timer" /\ queue'[j] = "timer" => i = j
  BY <1>1, <1>2 DEF TimerTypes
<1>4. StillRefreshing <=> \E i \in DOMAIN queue' : queue'[i] = "timer"
  <2>1. ASSUME queue[1] = "timer" PROVE ~ \E i \in DOMAIN queue' : queue'[i] = "timer"
    BY <1>1, <1>2, <2>1 DEF TimerTypes
  <2>2. ASSUME queue[1] # "timer", NEW i \in DOMAIN queue, queue[i] = "timer"
        PROVE  \E j \in DOMAIN queue' : queue'[j] = "timer"
    <3>1. i - 1 \in DOMAIN queue' /\ queue'[i - 1] = queue[i]
      BY <1>1, <1>2, <2>2
    <3> QED
      BY <2>2, <3>1
  <2>3. ASSUME NEW i \in DOMAIN queue', queue'[i] = "timer"
        PROVE  \E j \in DOMAIN queue : queue[j] = "timer"
    BY <1>1, <1>2, <2>3
  <2>4. refreshing <=> \E i \in DOMAIN queue : queue[i] = "timer"
    BY DEF TimerTypes
  <2> QED
    BY <1>1, <2>1, <2>2, <2>3, <2>4 DEF StillRefreshing
<1> QED
  BY <1>1, <1>3, <1>4 DEF StillRefreshing

LEMMA TimerStep == TimerTypes /\ [Next]_vars => TimerTypes'
<1> SUFFICES ASSUME TimerTypes, [Next]_vars PROVE TimerTypes'
  OBVIOUS
<1>1. ASSUME UNCHANGED <<queue, loading, timer>> PROVE TimerTypes'
  BY <1>1 DEF TimerTypes, timer
<1>2. ASSUME NEW l \in Leads, PipelineSaves(l) \/ GoesStale(l) PROVE TimerTypes'
  BY <1>1, <1>2 DEF PipelineSaves, GoesStale, Moves
<1>3. ASSUME NEW s \in Judged, TroubleChanges(s) PROVE TimerTypes'
  BY <1>1, <1>3 DEF TroubleChanges, Moves
<1>4. ASSUME NEW l \in Leads, LoadRow(l) PROVE TimerTypes'
  BY <1>1, <1>4 DEF LoadRow, Reads
<1>5. ASSUME NEW s \in Sections, ReadSection(s) PROVE TimerTypes'
  BY <1>1, <1>5 DEF ReadSection, Reads
<1>6. CASE FindLeads
  BY <1>1, <1>6 DEF FindLeads, Reads
<1>7. ASSUME NEW l \in Leads, Replay(l) PROVE TimerTypes'
  BY <1>1, <1>7 DEF Replay, server
<1>8. CASE StartLoad
  BY <1>8 DEF StartLoad, TimerTypes, timer
<1>9. CASE LoadEnds
  <2>1. /\ queue # <<>> /\ queue' = Tail(queue) /\ refreshing' = StillRefreshing
        /\ loading' = FALSE /\ age' = 0 /\ UNCHANGED <<since, watching>>
    BY <1>9 DEF LoadEnds, TimerTypes
  <2>2. age' \in 0 .. Interval
    BY <2>1, ConsoleAssumption
  <2> QED
    BY <2>1, <2>2, QueueShrinks DEF TimerTypes
<1>10. CASE Reload
  <2>1. /\ queue' = <<"open">> /\ loading' = FALSE /\ age' = 0 /\ since' = Interval
        /\ watching' = TRUE /\ refreshing' = FALSE
    BY <1>10 DEF Reload
  <2>2. /\ queue' \in Seq({"open", "timer", "replay"}) /\ DOMAIN queue' = {1}
        /\ queue'[1] = "open"
    BY <2>1
  <2>3. age' \in 0 .. Interval /\ since' \in 0 .. Interval
    BY <2>1, ConsoleAssumption
  <2> QED
    BY <2>1, <2>2, <2>3 DEF TimerTypes
<1>11. CASE Tick
  <2>1. UNCHANGED <<queue, loading, refreshing, watching>>
    BY <1>11 DEF Tick, server
  <2>2. age' \in 0 .. Interval /\ since' \in 0 .. Interval
    BY <1>11, ConsoleAssumption DEF Tick, TimerTypes
  <2> QED
    BY <2>1, <2>2 DEF TimerTypes
<1>12. CASE PauseOrHide
  <2>1. UNCHANGED <<queue, loading, refreshing, age, since>> /\ watching' \in BOOLEAN
    BY <1>12 DEF PauseOrHide, server
  <2> QED
    BY <2>1 DEF TimerTypes
<1>13. CASE AutoRefresh \/ RefreshButton
  <2>1. /\ ~refreshing /\ since' = 0 /\ refreshing' = TRUE /\ queue' = Append(queue, "timer")
        /\ UNCHANGED <<loading, age, watching>>
    BY <1>13 DEF AutoRefresh, RefreshButton, refresh, server
  <2>2. since' \in 0 .. Interval
    BY <2>1, ConsoleAssumption
  <2> QED
    BY <2>1, <2>2, QueueGrows DEF TimerTypes
<1>14. ASSUME NEW q \in inFlight, ReplayEnds(q) PROVE TimerTypes'
  <2>1. queue' = Append(queue, "replay") /\ UNCHANGED <<loading, timer>>
    BY <1>14 DEF ReplayEnds, ReplayAnswered, server
  <2>2. refreshing \in BOOLEAN
    BY DEF TimerTypes
  <2>3. refreshing' = (refreshing \/ "replay" = "timer")
    BY <2>1, <2>2 DEF timer
  <2>4. loading' = loading /\ age' \in 0 .. Interval /\ since' \in 0 .. Interval
        /\ watching' \in BOOLEAN
    BY <2>1 DEF timer, TimerTypes
  <2> QED
    BY <2>1, <2>3, <2>4, QueueGrows
<1>15. CASE UNCHANGED vars
  BY <1>1, <1>15 DEF vars, server
<1> QED
  BY <1>2, <1>3, <1>4, <1>5, <1>6, <1>7, <1>8, <1>9, <1>10, <1>11, <1>12, <1>13, <1>14, <1>15
  DEF Next

LEMMA ListTypesStep == ListInv /\ ServerTypes /\ ListTypes /\ [Next]_vars => ListTypes'
<1> SUFFICES ASSUME ListInv, ServerTypes, ListTypes, [Next]_vars PROVE ListTypes'
  OBVIOUS
<1>1. ASSUME UNCHANGED <<mounted, list, inFlight, replays>> PROVE ListTypes'
  BY <1>1 DEF ListTypes, list
<1>2. ASSUME NEW l \in Leads, PipelineSaves(l) \/ GoesStale(l) PROVE ListTypes'
  BY <1>1, <1>2 DEF PipelineSaves, GoesStale, Moves, screen
<1>3. ASSUME NEW s \in Judged, TroubleChanges(s) PROVE ListTypes'
  BY <1>1, <1>3 DEF TroubleChanges, Moves, screen
<1>4. ASSUME NEW l \in Leads, LoadRow(l) PROVE ListTypes'
  BY <1>1, <1>4 DEF LoadRow, Reads, screen
<1>5. ASSUME NEW s \in Sections, ReadSection(s) PROVE ListTypes'
  BY <1>1, <1>5 DEF ReadSection, Reads, screen
<1>6. CASE StartLoad \/ FindLeads
  BY <1>1, <1>6 DEF StartLoad, FindLeads, Reads, screen
<1>7. CASE Tick \/ PauseOrHide \/ AutoRefresh \/ RefreshButton
  BY <1>1, <1>7 DEF Tick, PauseOrHide, AutoRefresh, RefreshButton, refresh, screen
<1>8. /\ NoLead \in Leads \union {NoLead} /\ NoOutcome \in Outcomes /\ 0 \in 0 .. MaxReplays
  BY ConsoleAssumption DEF Outcomes
<1>9. CASE LoadEnds
  <2>1. CASE mounted /\ ~mounted'
    BY <1>8, <1>9, <2>1 DEF LoadEnds, ListTypes
  <2>2. CASE ~(mounted /\ ~mounted')
    BY <1>9, <2>2 DEF LoadEnds, ListTypes, list
  <2> QED
    BY <2>1, <2>2
<1>10. CASE Reload
  <2>1. /\ replaying' = NoLead /\ outcome' = NoOutcome /\ asked' = 0 /\ answered' = NoOutcome
        /\ inFlight' = {} /\ replays' = replays
    BY <1>10 DEF Reload
  <2> QED
    BY <1>8, <2>1 DEF ListTypes
<1>11. ASSUME NEW l \in Leads, Replay(l) PROVE ListTypes'
  <2> DEFINE q0 == [id |-> replays + 1, table |-> table, lead |-> l]
  <2>1. /\ mounted' = mounted /\ mounted /\ replays' = replays + 1 /\ asked' = replays + 1
        /\ replays < MaxReplays /\ replaying' = l
        /\ outcome' = NoOutcome /\ answered' = NoOutcome /\ inFlight' = inFlight \union {q0}
    BY <1>11 DEF Replay, screen
  <2>2. replays + 1 \in 1 .. MaxReplays
    BY <2>1, ConsoleAssumption DEF ListTypes
  <2>3. q0 \in [id : 1 .. MaxReplays, table : Nat, lead : Leads]
    BY <2>2 DEF ListInv
  <2> HIDE DEF q0
  <2> QED
    BY <1>8, <2>1, <2>2, <2>3 DEF ListTypes
<1>12. ASSUME NEW q \in inFlight, ReplayEnds(q) PROVE ListTypes'
  <2>1. PICK a \in Answers : ReplayAnswered(q, a)
    BY <1>12 DEF ReplayEnds
  <2> DEFINE o == [lead |-> q.lead, ok |-> describe(a)]
  <2>2. describe(a) \in BOOLEAN /\ q.lead \in Leads
    BY DEF describe, ListTypes
  <2>3. o \in Outcomes
    BY <2>2 DEF Outcomes
  <2>4. /\ inFlight' \subseteq inFlight
        /\ answered' \in {answered, o} /\ outcome' \in {outcome, o}
        /\ replaying' \in {replaying, NoLead}
        /\ UNCHANGED <<mounted, asked, replays>>
        /\ q.table # table => outcome' = outcome
    BY <2>1 DEF ReplayAnswered, screen
  <2>5. ~mounted => q.table # table
    BY DEF ListInv
  <2> HIDE DEF o
  <2> QED
    BY <1>8, <2>3, <2>4, <2>5 DEF ListTypes
<1>13. CASE UNCHANGED vars
  BY <1>1, <1>13 DEF vars, screen
<1> QED
  BY <1>2, <1>3, <1>4, <1>5, <1>6, <1>7, <1>9, <1>10, <1>11, <1>12, <1>13 DEF Next

TypeInv == WorldTypes /\ ServerTypes /\ TimerTypes /\ ListTypes /\ ListInv

LEMMA TypeInit == Init => TypeInv
<1> SUFFICES ASSUME Init PROVE TypeInv
  OBVIOUS
<1>1. WorldTypes
  <2>1. /\ status \in [Leads -> {"open", "failed"}] /\ stale = {} /\ trouble = {} /\ moves = 0
        /\ order \in Orders
    BY OrdersExist DEF Init
  <2> QED
    BY <2>1, ConsoleAssumption DEF WorldTypes, Statuses
<1>2. ServerTypes
  <2>1. /\ reads = Nothing /\ rows = {} /\ ids = {} /\ needy = {} /\ troubled = {}
        /\ headline = NoPage /\ listed = {} /\ faults = 0
    BY DEF Init
  <2>2. Nothing \in [Sections -> Section \union {Found}]
    BY DEF Nothing, Section
  <2>3. 0 \in 0 .. MaxFaults
    BY ConsoleAssumption
  <2>4. headline \in {NoPage, "issues", "No issues found", "All systems operational"}
    BY <2>1
  <2> QED
    BY <2>1, <2>2, <2>3, <2>4 DEF ServerTypes
<1>3. TimerTypes
  <2>1. /\ queue = <<"open">> /\ loading = FALSE /\ age = 0 /\ since = Interval
        /\ watching = TRUE /\ refreshing = FALSE
    BY DEF Init
  <2>2. /\ queue \in Seq({"open", "timer", "replay"}) /\ DOMAIN queue = {1}
        /\ queue[1] = "open"
    BY <2>1
  <2>3. age \in 0 .. Interval /\ since \in 0 .. Interval
    BY <2>1, ConsoleAssumption
  <2> QED
    BY <2>1, <2>2, <2>3 DEF TimerTypes
<1>4. ListTypes
  <2>1. /\ replaying = NoLead /\ outcome = NoOutcome /\ answered = NoOutcome
        /\ asked = 0 /\ replays = 0 /\ inFlight = {}
    BY DEF Init
  <2> QED
    BY <2>1, ConsoleAssumption DEF ListTypes, Outcomes
<1> QED
  BY <1>1, <1>2, <1>3, <1>4, ListInit DEF TypeInv

THEOREM TypeInvariant == Spec => []TypeInv
<1>1. TypeInv /\ [Next]_vars => TypeInv'
  BY WorldStep, ServerStep, TimerStep, ListTypesStep, ListStep DEF TypeInv
<1> QED
  BY <1>1, TypeInit, PTL DEF Spec

\* The page, the server and the Leads it reads stay within their types; what a list
\* remembers does not survive it, and the timer has one refresh at most under way.
THEOREM ConsoleTypes == Spec => []TypeOK
<1>1. TypeInv => TypeOK
  <2> SUFFICES ASSUME TypeInv PROVE TypeOK
    OBVIOUS
  <2>1. ~mounted => <<replaying, outcome, asked, answered>> = <<NoLead, NoOutcome, 0, NoOutcome>>
    BY DEF TypeInv, ListTypes, ListInv
  <2>2. table \in Nat /\ mounted \in BOOLEAN
    BY DEF TypeInv, ListInv
  <2> QED
    BY <2>1, <2>2, Zenon DEF TypeInv, TypeOK, WorldTypes, ServerTypes, TimerTypes, ListTypes
<1> QED
  BY <1>1, TypeInvariant, PTL

-----------------------------------------------------------------------------
(* The headline and what is on the list.                                   *)

\* intake's answer holds every Lead that needs attention, or as many as were asked for.
LEMMA ListIsFullOrWhole ==
  ASSUME WorldTypes
  PROVE  /\ needingAttention \subseteq NeedsAttention(status, stale)
         /\ \/ NeedsAttention(status, stale) \subseteq needingAttention
            \/ Cardinality(needingAttention) = Limit
<1> DEFINE F == NeedsAttention(status, stale)
           n == Cardinality(F)
           Newer(l) == {k \in F : order[k] < order[l]}
           rank == [l \in F |-> Cardinality(Newer(l))]
           S == {l \in F : rank[l] < Limit}
<1>1. needingAttention = S
  BY DEF needingAttention
<1>2. F \subseteq Leads /\ IsFiniteSet(F) /\ n \in Nat
  <2>1. F \in SUBSET Leads
    BY DEF NeedsAttention
  <2> QED
    BY <2>1, FS_Subset, FS_CardinalityType, ConsoleAssumption
<1>3. /\ \A l \in F : order[l] \in Int
      /\ \A l, m \in F : order[l] = order[m] => l = m
  <2>1. Cardinality(Leads) \in Nat
    BY FS_CardinalityType, ConsoleAssumption
  <2> QED
    BY <1>2, <2>1, Fun_InjectionProperties DEF WorldTypes, Orders
<1>4. ASSUME NEW l \in F
      PROVE  /\ IsFiniteSet(Newer(l)) /\ Cardinality(Newer(l)) \in Int
             /\ Cardinality(Newer(l)) \in 0 .. n - 1
  <2>1. Newer(l) \in SUBSET (F \ {l})
    BY <1>3
  <2>2. IsFiniteSet(F \ {l}) /\ Cardinality(F \ {l}) = n - 1
    BY <1>2, FS_RemoveElement
  <2>3. IsFiniteSet(Newer(l)) /\ Cardinality(Newer(l)) <= n - 1
    BY <2>1, <2>2, FS_Subset
  <2>4. Cardinality(Newer(l)) \in Nat
    BY <2>3, FS_CardinalityType
  <2> HIDE DEF Newer, F, n
  <2> QED
    BY <1>2, <2>3, <2>4
<1>5. ASSUME NEW l \in F, NEW m \in F, order[l] < order[m]
      PROVE  Cardinality(Newer(l)) < Cardinality(Newer(m))
  <2>1. Newer(l) \in SUBSET (Newer(m) \ {l}) /\ l \in Newer(m)
    BY <1>3, <1>5
  <2>2. /\ IsFiniteSet(Newer(m) \ {l})
        /\ Cardinality(Newer(m) \ {l}) = Cardinality(Newer(m)) - 1
    BY <1>4, <2>1, FS_RemoveElement
  <2>3. Cardinality(Newer(l)) <= Cardinality(Newer(m)) - 1
    BY <2>1, <2>2, FS_Subset
  <2>4. Cardinality(Newer(l)) \in Int /\ Cardinality(Newer(m)) \in Int
    BY <1>4
  <2> HIDE DEF Newer, F
  <2> QED
    BY <2>3, <2>4
<1>6. rank \in Injection(F, 0 .. n - 1)
  <2>1. rank \in [F -> 0 .. n - 1]
    BY <1>4
  <2>2. ASSUME NEW l \in F, NEW m \in F, rank[l] = rank[m] PROVE l = m
    <3>1. Cardinality(Newer(l)) = Cardinality(Newer(m)) /\ Cardinality(Newer(l)) \in Int
      BY <1>2, <1>4, <2>2
    <3>2. ~(order[l] < order[m]) /\ ~(order[m] < order[l])
      <4> DEFINE size(k) == Cardinality(Newer(k))
      <4>1. /\ order[l] < order[m] => size(l) < size(m)
            /\ order[m] < order[l] => size(m) < size(l)
        BY <1>5
      <4>2. size(l) = size(m) /\ size(l) \in Int
        BY <3>1
      <4> HIDE DEF size
      <4> QED
        BY <4>1, <4>2
    <3> QED
      BY <1>3, <3>2
  <2> HIDE DEF rank, F, n
  <2> QED
    BY <2>1, <2>2, Fun_IsInj
<1> HIDE DEF rank, F
<1>7. rank \in Surjection(F, 0 .. n - 1)
  <2>1. IsFiniteSet(0 .. n - 1) /\ Cardinality(0 .. n - 1) = n
    BY <1>2, FS_Interval
  <2> QED
    BY <1>6, <2>1, FS_Injection
<1>8. ASSUME ~(F \subseteq S) PROVE Cardinality(S) = Limit
  <2> DEFINE first == [l \in S |-> rank[l]]
  <2> HIDE DEF n
  <2>1. rank \in [F -> 0 .. n - 1] /\ \A l, m \in F : rank[l] = rank[m] => l = m
    <3> DEFINE T == 0 .. n - 1
    <3>1. rank \in Injection(F, T)
      BY <1>6
    <3> HIDE DEF T
    <3>2. rank \in [F -> T] /\ \A l, m \in F : rank[l] = rank[m] => l = m
      BY <3>1, Fun_InjectionProperties
    <3> QED
      BY <3>2 DEF T
  <2>2. \A t \in 0 .. n - 1 : \E l \in F : rank[l] = t
    BY <1>7, Fun_SurjectionProperties
  <2>3. Limit \in Nat \ {0} /\ n \in Nat
    BY <1>2, ConsoleAssumption
  <2>4. PICK l \in F : ~(rank[l] < Limit)
    BY <1>8
  <2>5. Limit <= n - 1
    BY <2>1, <2>3, <2>4
  <2>6. first \in [S -> 0 .. Limit - 1]
    BY <2>1, <2>3
  <2>7. \A a, b \in S : first[a] = first[b] => a = b
    BY <2>1
  <2>8. ASSUME NEW t \in 0 .. Limit - 1 PROVE \E a \in S : first[a] = t
    <3>1. t \in 0 .. n - 1 /\ t < Limit
      BY <2>3, <2>5
    <3> QED
      BY <2>2, <3>1
  <2> HIDE DEF first, S
  <2>9. first \in Injection(S, 0 .. Limit - 1)
    BY <2>6, <2>7, Fun_IsInj
  <2>10. first \in Surjection(S, 0 .. Limit - 1)
    BY <2>6, <2>8, Fun_IsSurj
  <2>11. IsFiniteSet(0 .. Limit - 1) /\ Cardinality(0 .. Limit - 1) = Limit
    <3>1. 0 \in Int /\ Limit - 1 \in Int /\ ~(0 > Limit - 1) /\ Limit - 1 - 0 + 1 = Limit
      BY <2>3
    <3> QED
      BY <3>1, FS_Interval
  <2> QED
    BY <2>9, <2>10, <2>11, FS_Injection
<1> QED
  BY <1>1, <1>8 DEF F

\* What the render under way has found so far, against what was wrong since it began.
SeenInv ==
  /\ needy \subseteq NeedsAttention(status, stale) /\ troubled \subseteq trouble
  /\ \A s \in Judged : reads[s] = "fine" => s \notin troubled
  /\ reads["attention"] \notin {Unread, "failed"} => needy \subseteq ids \/ Cardinality(ids) = Limit
  /\ ~loading => reads = Nothing

RowsInv ==
  /\ reads["attention"] = Unread => rows = {}
  /\ reads["attention"] = "fine" => ids = {}
  /\ reads["attention"] = "issue" =>
       /\ \A l \in ids : \E r \in rows : r.lead = l
       /\ Cardinality(rows) = Cardinality(ids)
  /\ \A r \in rows : r.lead \in ids
  /\ \A r, t \in rows : r.lead = t.lead => r = t

LEMMA NothingRead == \A s \in Sections : Nothing[s] = Unread
BY DEF Nothing

LEMMA SeenStep == TypeInv /\ SeenInv /\ [Next]_vars => SeenInv'
<1> SUFFICES ASSUME TypeInv, SeenInv, [Next]_vars PROVE SeenInv'
  OBVIOUS
<1> USE DEF Unread, Found
<1>0. "attention" \in Sections /\ Judged \subseteq Sections /\ "attention" \notin Judged
  BY ConsoleAssumption DEF Judged
<1>1. ASSUME UNCHANGED <<world, server>> PROVE SeenInv'
  BY <1>1 DEF SeenInv, world, server, NeedsAttention
<1>2. ASSUME Moves PROVE SeenInv'
  BY <1>2 DEF Moves, SeenInv
<1>3. ASSUME NEW l \in Leads, PipelineSaves(l) \/ GoesStale(l) PROVE SeenInv'
  BY <1>2, <1>3 DEF PipelineSaves, GoesStale
<1>4. ASSUME NEW s \in Judged, TroubleChanges(s) PROVE SeenInv'
  BY <1>2, <1>4 DEF TroubleChanges
<1>5. ASSUME NEW s \in Sections, NEW r, Reads(s, r), loading
      PROVE  /\ \A t \in Sections : reads'[t] = IF t = s THEN r ELSE reads[t]
             /\ NeedsAttention(status', stale') = NeedsAttention(status, stale)
             /\ UNCHANGED <<needy, troubled, trouble, loading>>
  BY <1>5 DEF Reads, world, TypeInv, ServerTypes
<1>6. CASE StartLoad
  <2>1. /\ reads' = Nothing /\ loading' = TRUE
        /\ needy' = NeedsAttention(status, stale) /\ troubled' = trouble
        /\ UNCHANGED world
    BY <1>6 DEF StartLoad, SeenInv
  <2>2. NeedsAttention(status, stale)' = NeedsAttention(status, stale) /\ trouble' = trouble
    BY <2>1 DEF world, NeedsAttention
  <2> QED
    BY <1>0, <2>1, <2>2, NothingRead DEF SeenInv
<1>7. ASSUME NEW s \in Sections, ReadSection(s) PROVE SeenInv'
  <2>1. /\ loading /\ s # "attention" /\ ids' = ids
        /\ \E r : Reads(s, r) /\ (s \in Judged /\ r = "fine" => s \notin trouble)
    BY <1>7 DEF ReadSection, checkHealth, alertState, section, Judged, AllSections
  <2>2. PICK r : Reads(s, r) /\ (s \in Judged /\ r = "fine" => s \notin trouble)
    BY <2>1
  <2>3. /\ \A t \in Sections : reads'[t] = IF t = s THEN r ELSE reads[t]
        /\ NeedsAttention(status', stale') = NeedsAttention(status, stale)
        /\ needy' = needy /\ troubled' = troubled /\ trouble' = trouble /\ loading' = loading
    BY <1>5, <2>1, <2>2
  <2>4. ASSUME NEW t \in Judged, reads'[t] = "fine" PROVE t \notin troubled'
    BY <1>0, <2>2, <2>3, <2>4 DEF SeenInv
  <2>5. reads'["attention"] = reads["attention"]
    BY <1>0, <2>1, <2>3
  <2> QED
    BY <2>1, <2>3, <2>4, <2>5 DEF SeenInv
<1>8. CASE FindLeads
  <2>1. /\ loading
        /\ \E r : /\ Reads("attention", r)
                  /\ r # "failed" => ids' = needingAttention
    BY <1>8 DEF FindLeads
  <2>2. PICK r : Reads("attention", r) /\ (r # "failed" => ids' = needingAttention)
    BY <2>1
  <2>3. needy \subseteq needingAttention \/ Cardinality(needingAttention) = Limit
    BY ListIsFullOrWhole DEF TypeInv, SeenInv
  <2> QED
    BY <1>0, <1>5, <2>1, <2>2, <2>3 DEF SeenInv
<1>9. ASSUME NEW l \in Leads, LoadRow(l) PROVE SeenInv'
  <2>1. /\ loading /\ reads["attention"] = Found /\ ids' = ids
        /\ \E r : Reads("attention", r)
    BY <1>9 DEF LoadRow
  <2>2. PICK r : Reads("attention", r)
    BY <2>1
  <2> QED
    BY <1>0, <1>5, <2>1, <2>2 DEF SeenInv
<1>10. CASE LoadEnds \/ Reload
  <2>1. reads' = Nothing /\ needy' = {} /\ troubled' = {}
    BY <1>10 DEF LoadEnds, Reload
  <2> QED
    BY <1>0, <2>1, NothingRead DEF SeenInv
<1>11. CASE Tick \/ AutoRefresh \/ RefreshButton \/ PauseOrHide
  BY <1>1, <1>11 DEF Tick, AutoRefresh, RefreshButton, refresh, PauseOrHide
<1>12. ASSUME NEW l \in Leads, Replay(l) PROVE SeenInv'
  BY <1>1, <1>12 DEF Replay
<1>13. ASSUME NEW q \in inFlight, ReplayEnds(q) PROVE SeenInv'
  BY <1>1, <1>13 DEF ReplayEnds, ReplayAnswered
<1>14. CASE UNCHANGED vars
  BY <1>1, <1>14 DEF vars
<1> QED
  BY <1>3, <1>4, <1>6, <1>7, <1>8, <1>9, <1>10, <1>11, <1>12, <1>13, <1>14 DEF Next

\* As many rows as Leads found, no two of one Lead: a row for each.
LEMMA EveryLeadHasItsRow ==
  ASSUME NEW found, IsFiniteSet(found), NEW loaded, Cardinality(loaded) = Cardinality(found),
         \A r \in loaded : r.lead \in found,
         \A r, t \in loaded : r.lead = t.lead => r = t
  PROVE  \A l \in found : \E r \in loaded : r.lead = l
<1> DEFINE f == [r \in loaded |-> r.lead]
<1>1. f \in Injection(loaded, found)
  <2>1. f \in [loaded -> found] /\ \A r, t \in loaded : f[r] = f[t] => r = t
    OBVIOUS
  <2> HIDE DEF f
  <2> QED
    BY <2>1, Fun_IsInj
<1>2. f \in Surjection(loaded, found)
  <2> HIDE DEF f
  <2> QED
    BY <1>1, FS_Injection
<1>3. \A l \in found : \E r \in loaded : f[r] = l
  <2> HIDE DEF f
  <2> QED
    BY <1>2, Fun_SurjectionProperties
<1> QED
  BY <1>3

LEMMA RowsStep == TypeInv /\ SeenInv /\ RowsInv /\ [Next]_vars => RowsInv'
<1> SUFFICES ASSUME TypeInv, SeenInv, RowsInv, [Next]_vars PROVE RowsInv'
  OBVIOUS
<1> USE DEF Unread, Found
<1>0. "attention" \in Sections
  BY ConsoleAssumption
<1>1. ASSUME UNCHANGED <<reads, ids, rows>> PROVE RowsInv'
  BY <1>1 DEF RowsInv
<1>2. ASSUME NEW l \in Leads, PipelineSaves(l) \/ GoesStale(l) PROVE RowsInv'
  BY <1>1, <1>2 DEF PipelineSaves, GoesStale, Moves
<1>3. ASSUME NEW s \in Judged, TroubleChanges(s) PROVE RowsInv'
  BY <1>1, <1>3 DEF TroubleChanges, Moves
<1>4. CASE StartLoad
  BY <1>1, <1>4 DEF StartLoad
<1>5. ASSUME NEW s \in Sections, NEW r, Reads(s, r)
      PROVE  reads'["attention"] = IF s = "attention" THEN r ELSE reads["attention"]
  BY <1>0, <1>5 DEF Reads, TypeInv, ServerTypes
<1>6. ASSUME NEW s \in Sections, ReadSection(s) PROVE RowsInv'
  <2>1. s # "attention" /\ UNCHANGED <<ids, rows>> /\ \E r : Reads(s, r)
    BY <1>6 DEF ReadSection
  <2> QED
    BY <1>5, <2>1 DEF RowsInv
<1>7. CASE FindLeads
  <2>1. /\ rows' = rows /\ rows = {}
        /\ \E r : /\ Reads("attention", r) /\ r # "issue"
                  /\ r = "fine" => ids' = {}
    BY <1>7 DEF FindLeads, RowsInv
  <2> QED
    BY <1>0, <1>5, <2>1 DEF RowsInv
<1>8. ASSUME NEW l \in Leads, LoadRow(l) PROVE RowsInv'
  <2>1. /\ l \in ids /\ ids' = ids /\ (\A r \in rows : r.lead # l)
        /\ rows' = rows \union {[lead |-> l, status |-> status[l]]}
        /\ \E r : /\ Reads("attention", r) /\ r \in {"issue", Found}
                  /\ r = "issue" => Cardinality(rows') = Cardinality(ids)
    BY <1>8 DEF LoadRow
  <2>2. /\ \A r \in rows' : r.lead \in ids'
        /\ \A r, t \in rows' : r.lead = t.lead => r = t
    BY <2>1 DEF RowsInv
  <2>3. IsFiniteSet(ids)
    BY FS_Subset, ConsoleAssumption DEF TypeInv, ServerTypes
  <2>4. Cardinality(rows') = Cardinality(ids) => \A k \in ids : \E r \in rows' : r.lead = k
    BY <2>1, <2>2, <2>3, EveryLeadHasItsRow
  <2>5. /\ reads'["attention"] \in {"issue", Found}
        /\ reads'["attention"] = "issue" => Cardinality(rows') = Cardinality(ids)
    BY <1>0, <1>5, <2>1
  <2> QED
    BY <2>1, <2>2, <2>4, <2>5 DEF RowsInv
<1>9. CASE LoadEnds \/ Reload
  <2>1. reads' = Nothing /\ rows' = {}
    BY <1>9 DEF LoadEnds, Reload
  <2> QED
    BY <1>0, <2>1, NothingRead DEF RowsInv
<1>10. CASE Tick \/ AutoRefresh \/ RefreshButton \/ PauseOrHide
  BY <1>1, <1>10 DEF Tick, AutoRefresh, RefreshButton, refresh, PauseOrHide, server
<1>11. ASSUME NEW l \in Leads, Replay(l) PROVE RowsInv'
  BY <1>1, <1>11 DEF Replay, server
<1>12. ASSUME NEW q \in inFlight, ReplayEnds(q) PROVE RowsInv'
  BY <1>1, <1>12 DEF ReplayEnds, ReplayAnswered, server
<1>13. CASE UNCHANGED vars
  BY <1>1, <1>13 DEF vars, server
<1> QED
  BY <1>2, <1>3, <1>4, <1>6, <1>7, <1>8, <1>9, <1>10, <1>11, <1>12, <1>13 DEF Next

\* "All systems operational" is said only if nothing was wrong, and no Lead in need, all the
\* while the overview was gathered; and a Lead in need all that while is on the list or the
\* list is full.  For any Leads, limit and failures.
THEOREM HeadlineIsEarned == Spec => AllClearIsEarned
<1>1. Init => SeenInv /\ RowsInv
  <2> SUFFICES ASSUME Init PROVE SeenInv /\ RowsInv
    OBVIOUS
  <2>1. reads = Nothing /\ ids = {} /\ rows = {} /\ needy = {} /\ troubled = {}
    BY DEF Init
  <2>2. "attention" \in Sections /\ Judged \subseteq Sections
    BY ConsoleAssumption DEF Judged
  <2> QED
    BY <2>1, <2>2, NothingRead DEF SeenInv, RowsInv, Unread
<1>2. TypeInv /\ SeenInv /\ RowsInv /\ [Next]_vars => SeenInv' /\ RowsInv'
  BY SeenStep, RowsStep
<1>3. ASSUME TypeInv, SeenInv, RowsInv, LoadEnds
      PROVE  /\ headline' = "All systems operational" => needy = {} /\ troubled = {}
             /\ mounted' => \A l \in needy : \/ \E r \in listed' : r.lead = l
                                             \/ Cardinality(listed') = Limit
  <2>1. /\ \A s \in Sections : reads[s] \in {"fine", "issue", "failed"}
        /\ listed' = rows /\ mounted' = (reads["attention"] # "failed")
        /\ headline' = summarize(reads)
    BY <1>3 DEF LoadEnds, IsRead, TypeInv, ServerTypes, Section
  <2>2. "attention" \in Sections /\ Judged \subseteq Sections
    BY ConsoleAssumption DEF Judged
  <2>3. reads["attention"] = "fine" => needy = {}
    BY <1>3, FS_EmptySet, ConsoleAssumption DEF SeenInv, RowsInv, Unread
  <2>4. ASSUME headline' = "All systems operational" PROVE needy = {} /\ troubled = {}
    <3>1. ~Issues(reads) /\ Unavailable(reads) = {}
      BY <2>1, <2>4 DEF summarize
    <3>2. \A s \in Judged \union {"attention"} : reads[s] = "fine"
      BY <2>1, <2>2, <3>1 DEF Issues, Unavailable
    <3> QED
      BY <1>3, <2>3, <3>2 DEF SeenInv, TypeInv, ServerTypes
  <2>5. ASSUME mounted', NEW l \in needy
        PROVE  (\E r \in listed' : r.lead = l) \/ Cardinality(listed') = Limit
    <3>1. reads["attention"] = "issue"
      BY <2>1, <2>2, <2>3, <2>5
    <3> QED
      BY <1>3, <2>1, <2>5, <3>1 DEF SeenInv, RowsInv, Unread
  <2> QED
    BY <2>4, <2>5
<1> QED
  BY <1>1, <1>2, <1>3, TypeInvariant, PTL DEF Spec, AllClearIsEarned
-----------------------------------------------------------------------------
(* Nothing hangs.                                                          *)

\* The list lacks the row of a Lead that was found; its section is done with the last row.
RowMissing == \E l \in ids : \A r \in rows : r.lead # l

GatherInv ==
  /\ \A s \in Sections : reads[s] = Found => s = "attention" /\ RowMissing
  /\ \A q \in inFlight : q.id = asked => q.lead = replaying

\* What the page waits for can still come: a refresh waits for a render, a render for a
\* section nobody has read or a row not loaded, or for nothing; and the button that waits,
\* for its own Replay, from the list on screen.  This is what is left of KeepsWatch without
\* the scheduling.
NothingHangs ==
  /\ refreshing \/ loading => queue # <<>>
  /\ loading => \/ \E s \in Sections : reads[s] = Unread
                \/ reads["attention"] = Found /\ RowMissing
                \/ \A s \in Sections : IsRead(s)
  /\ \A l \in Leads : replaying = l => \E q \in inFlight : q.lead = l /\ q.table = table

\* And it only comes nearer: a render keeps what it has read and loaded, and a refresh is
\* overtaken by nothing that is asked for after it.
KeepsItsPlace ==
  [][/\ loading /\ loading' => /\ \A s \in Sections : IsRead(s) => reads'[s] = reads[s]
                               /\ reads["attention"] = Found => ids' = ids
                               /\ rows \subseteq rows'
     /\ \A i \in DOMAIN queue :
          queue[i] = "timer" /\ refreshing' =>
            LET j == IF LoadEnds THEN i - 1 ELSE i
            IN  j \in DOMAIN queue' /\ queue'[j] = "timer"]_vars

\* A row for each Lead found: as many rows as Leads.
LEMMA AsManyRows ==
  ASSUME NEW found, IsFiniteSet(found), NEW loaded,
         \A r \in loaded : r.lead \in found,
         \A r, t \in loaded : r.lead = t.lead => r = t,
         \A l \in found : \E r \in loaded : r.lead = l
  PROVE  Cardinality(loaded) = Cardinality(found)
<1> DEFINE f == [r \in loaded |-> r.lead]
<1>1. /\ f \in [loaded -> found] /\ \A r, t \in loaded : f[r] = f[t] => r = t
      /\ \A l \in found : \E r \in loaded : f[r] = l
  OBVIOUS
<1> HIDE DEF f
<1>2. f \in Injection(loaded, found) /\ f \in Surjection(loaded, found)
  BY <1>1, Fun_IsInj, Fun_IsSurj
<1> QED
  BY <1>2, FS_Injection

LEMMA GatherStep == TypeInv /\ RowsInv /\ GatherInv /\ [Next]_vars => GatherInv'
<1> SUFFICES ASSUME TypeInv, RowsInv, GatherInv, [Next]_vars PROVE GatherInv'
  OBVIOUS
<1> USE DEF Unread, Found
<1>0. "attention" \in Sections
  BY ConsoleAssumption
<1>1. ASSUME UNCHANGED <<reads, ids, rows, inFlight, asked, replaying>> PROVE GatherInv'
  BY <1>1 DEF GatherInv, RowMissing
<1>2. ASSUME NEW l \in Leads, PipelineSaves(l) \/ GoesStale(l) PROVE GatherInv'
  BY <1>1, <1>2 DEF PipelineSaves, GoesStale, Moves, list
<1>3. ASSUME NEW s \in Judged, TroubleChanges(s) PROVE GatherInv'
  BY <1>1, <1>3 DEF TroubleChanges, Moves, list
<1>4. CASE StartLoad
  BY <1>1, <1>4 DEF StartLoad, list
<1>5. ASSUME NEW s \in Sections, NEW r, Reads(s, r)
      PROVE  /\ \A t \in Sections : reads'[t] = IF t = s THEN r ELSE reads[t]
             /\ UNCHANGED <<inFlight, asked, replaying>>
  BY <1>5 DEF Reads, TypeInv, ServerTypes, list
<1>6. ASSUME NEW s \in Sections, ReadSection(s) PROVE GatherInv'
  <2>1. /\ s # "attention" /\ UNCHANGED <<ids, rows>>
        /\ \E r : Reads(s, r) /\ r # Found
    BY <1>6 DEF ReadSection, checkHealth, alertState, section
  <2> QED
    BY <1>5, <2>1 DEF GatherInv, RowMissing
<1>7. CASE FindLeads
  <2>1. /\ rows' = rows /\ rows = {}
        /\ \E r : Reads("attention", r) /\ (r = Found => ids' # {})
    BY <1>7 DEF FindLeads, RowsInv
  <2>2. PICK r : Reads("attention", r) /\ (r = Found => ids' # {})
    BY <2>1
  <2>3. \A t \in Sections : reads'[t] = IF t = "attention" THEN r ELSE reads[t]
    BY <1>0, <1>5, <2>2
  <2> QED
    BY <1>0, <1>5, <2>1, <2>2, <2>3 DEF GatherInv, RowMissing
<1>8. ASSUME NEW l \in Leads, LoadRow(l) PROVE GatherInv'
  <2>1. /\ l \in ids /\ ids' = ids /\ (\A r \in rows : r.lead # l)
        /\ rows' = rows \union {[lead |-> l, status |-> status[l]]}
        /\ \E r : /\ Reads("attention", r)
                  /\ r = Found => Cardinality(rows') # Cardinality(ids)
    BY <1>8 DEF LoadRow
  <2>2. /\ \A r \in rows' : r.lead \in ids
        /\ \A r, t \in rows' : r.lead = t.lead => r = t
    BY <2>1 DEF RowsInv
  <2>3. IsFiniteSet(ids)
    BY FS_Subset, ConsoleAssumption DEF TypeInv, ServerTypes
  <2>4. Cardinality(rows') # Cardinality(ids) => \E k \in ids : \A r \in rows' : r.lead # k
    BY <2>2, <2>3, AsManyRows
  <2>5. PICK r : Reads("attention", r) /\ (r = Found => Cardinality(rows') # Cardinality(ids))
    BY <2>1
  <2>6. \A t \in Sections : reads'[t] = IF t = "attention" THEN r ELSE reads[t]
    BY <1>0, <1>5, <2>5
  <2> QED
    BY <1>0, <1>5, <2>1, <2>4, <2>5, <2>6 DEF GatherInv, RowMissing
<1>9. CASE LoadEnds
  <2>1. reads' = Nothing /\ inFlight' = inFlight
    BY <1>9 DEF LoadEnds
  <2>2. \/ UNCHANGED <<asked, replaying>>
        \/ asked' = 0
    BY <1>9 DEF LoadEnds, list
  <2>3. \A q \in inFlight : q.id # 0
    BY DEF TypeInv, ListInv
  <2> QED
    BY <2>1, <2>2, <2>3, NothingRead DEF GatherInv
<1>10. CASE Reload
  <2>1. reads' = Nothing /\ inFlight' = {}
    BY <1>10 DEF Reload
  <2> QED
    BY <2>1, NothingRead DEF GatherInv
<1>11. CASE Tick \/ AutoRefresh \/ RefreshButton \/ PauseOrHide
  BY <1>1, <1>11 DEF Tick, AutoRefresh, RefreshButton, refresh, PauseOrHide, server, list
<1>12. ASSUME NEW l \in Leads, Replay(l) PROVE GatherInv'
  <2> DEFINE q0 == [id |-> replays + 1, table |-> table, lead |-> l]
  <2>1. /\ asked' = replays + 1 /\ replaying' = l /\ inFlight' = inFlight \union {q0}
        /\ UNCHANGED <<reads, ids, rows>>
    BY <1>12 DEF Replay, server
  <2>2. \A q \in inFlight : q.id # replays + 1
    BY DEF TypeInv, ListInv
  <2>3. q0.lead = l
    OBVIOUS
  <2> HIDE DEF q0
  <2> QED
    BY <2>1, <2>2, <2>3 DEF GatherInv, RowMissing
<1>13. ASSUME NEW q \in inFlight, ReplayEnds(q) PROVE GatherInv'
  <2>1. /\ inFlight' = inFlight \ {q} /\ UNCHANGED <<reads, ids, rows, asked>>
        /\ q.table = table \/ replaying' = replaying
    BY <1>13 DEF ReplayEnds, ReplayAnswered, server
  <2>2. q.table = table => \A p \in inFlight \ {q} : p.id # asked
    BY DEF TypeInv, ListInv
  <2> QED
    BY <2>1, <2>2 DEF GatherInv, RowMissing
<1>14. CASE UNCHANGED vars
  BY <1>1, <1>14 DEF vars, server, list
<1> QED
  BY <1>2, <1>3, <1>4, <1>6, <1>7, <1>8, <1>9, <1>10, <1>11, <1>12, <1>13, <1>14 DEF Next

\* What a step of the render leaves of what it has read.
LEMMA RenderStep ==
  ASSUME TypeInv, RowsInv, [Next]_vars, loading, loading'
  PROVE  /\ \A s \in Sections : IsRead(s) => reads'[s] = reads[s]
         /\ reads["attention"] = Found => ids' = ids
         /\ rows \subseteq rows'
<1> USE DEF Unread, Found
<1> DEFINE Kept == /\ \A s \in Sections : IsRead(s) => reads'[s] = reads[s]
                   /\ reads["attention"] = Found => ids' = ids
                   /\ rows \subseteq rows'
<1>0. "attention" \in Sections
  BY ConsoleAssumption
<1>1. ASSUME NEW s \in Sections, NEW r, Reads(s, r), ~IsRead(s), rows \subseteq rows',
             reads["attention"] = Found => ids' = ids
      PROVE  Kept
  BY <1>1 DEF Reads, TypeInv, ServerTypes
<1>2. ASSUME NEW s \in Sections, ReadSection(s) PROVE Kept
  <2>1. reads[s] = Unread /\ UNCHANGED <<ids, rows>> /\ \E r : Reads(s, r)
    BY <1>2 DEF ReadSection
  <2> QED
    BY <1>1, <2>1 DEF IsRead
<1>3. CASE FindLeads
  <2>1. reads["attention"] = Unread /\ rows' = rows /\ \E r : Reads("attention", r)
    BY <1>3 DEF FindLeads
  <2> QED
    BY <1>0, <1>1, <2>1 DEF IsRead
<1>4. ASSUME NEW l \in Leads, LoadRow(l) PROVE Kept
  <2>1. reads["attention"] = Found /\ rows \subseteq rows' /\ ids' = ids /\ \E r : Reads("attention", r)
    BY <1>4 DEF LoadRow
  <2> QED
    BY <1>0, <1>1, <2>1 DEF IsRead
<1>5. UNCHANGED <<reads, ids, rows>> => Kept
  OBVIOUS
<1>6. CASE LoadEnds \/ Reload
  BY <1>6 DEF LoadEnds, Reload
<1>7. ASSUME NEW l \in Leads, PipelineSaves(l) \/ GoesStale(l) \/ Replay(l) PROVE Kept
  BY <1>5, <1>7 DEF PipelineSaves, GoesStale, Moves, Replay, server
<1>8. ASSUME NEW s \in Judged, TroubleChanges(s) PROVE Kept
  BY <1>5, <1>8 DEF TroubleChanges, Moves
<1>9. CASE StartLoad \/ Tick \/ AutoRefresh \/ RefreshButton \/ PauseOrHide
  BY <1>5, <1>9 DEF StartLoad, Tick, AutoRefresh, RefreshButton, refresh, PauseOrHide, server
<1>10. ASSUME NEW q \in inFlight, ReplayEnds(q) PROVE Kept
  BY <1>5, <1>10 DEF ReplayEnds, ReplayAnswered, server
<1>11. CASE UNCHANGED vars
  BY <1>5, <1>11 DEF vars, server
<1> QED
  BY <1>2, <1>3, <1>4, <1>6, <1>7, <1>8, <1>9, <1>10, <1>11 DEF Next

\* The place of the refresh among the renders the browser waits for.
LEMMA QueueStep ==
  ASSUME TypeInv, [Next]_vars, NEW i \in DOMAIN queue, queue[i] = "timer", refreshing'
  PROVE  LET j == IF LoadEnds THEN i - 1 ELSE i
         IN  j \in DOMAIN queue' /\ queue'[j] = "timer"
<1> DEFINE Kept == i \in DOMAIN queue' /\ queue'[i] = "timer"
<1>1. /\ queue \in Seq({"open", "timer", "replay"}) /\ DOMAIN queue = 1 .. Len(queue)
      /\ Len(queue) \in Nat /\ queue # <<>>
  BY DEF TypeInv, TimerTypes
<1>2. CASE LoadEnds
  <2>1. /\ queue' = Tail(queue) /\ refreshing' = StillRefreshing
    BY <1>2 DEF LoadEnds
  <2>2. /\ Head(queue) = queue[1] /\ Len(queue') = Len(queue) - 1 /\ queue' \in Seq({"open", "timer", "replay"})
        /\ \A k \in 1 .. Len(queue') : queue'[k] = queue[k + 1]
    BY <1>1, <2>1, HeadTailProperties
  <2>3. queue[1] # "timer"
    BY <2>1, <2>2 DEF StillRefreshing
  <2>4. i # 1 /\ i \in 1 .. Len(queue) /\ DOMAIN queue' = 1 .. Len(queue')
    BY <1>1, <2>2, <2>3
  <2>5. i - 1 \in DOMAIN queue' /\ queue'[i - 1] = "timer"
    BY <1>1, <2>2, <2>4
  <2> QED
    BY <1>2, <2>5
<1>3. ASSUME NEW x, queue' = Append(queue, x), x \in {"open", "timer", "replay"} PROVE Kept
  <2>1. /\ Len(queue') = Len(queue) + 1 /\ queue' \in Seq({"open", "timer", "replay"})
        /\ \A k \in 1 .. Len(queue) : queue'[k] = queue[k]
    BY <1>1, <1>3, AppendProperties
  <2> QED
    BY <1>1, <2>1
<1>4. queue' = queue => Kept
  OBVIOUS
<1>5. ASSUME AutoRefresh \/ RefreshButton PROVE Kept
  BY <1>3, <1>5 DEF AutoRefresh, RefreshButton, refresh
<1>6. ASSUME NEW q \in inFlight, ReplayEnds(q) PROVE Kept
  BY <1>3, <1>6 DEF ReplayEnds, ReplayAnswered
<1>7. ~Reload
  BY DEF Reload
<1>8. ASSUME NEW l \in Leads, PipelineSaves(l) \/ GoesStale(l) \/ LoadRow(l) \/ Replay(l) PROVE Kept
  BY <1>4, <1>8 DEF PipelineSaves, GoesStale, Moves, LoadRow, Reads, Replay
<1>9. ASSUME NEW s \in Judged, TroubleChanges(s) PROVE Kept
  BY <1>4, <1>9 DEF TroubleChanges, Moves
<1>10. ASSUME NEW s \in Sections, ReadSection(s) PROVE Kept
  BY <1>4, <1>10 DEF ReadSection, Reads
<1>11. ASSUME StartLoad \/ FindLeads \/ Tick \/ PauseOrHide PROVE Kept
  BY <1>4, <1>11 DEF StartLoad, FindLeads, Reads, Tick, PauseOrHide
<1>12. ASSUME UNCHANGED vars PROVE Kept
  BY <1>4, <1>12 DEF vars
<1>13. LoadEnds \/ Kept
  BY <1>5, <1>6, <1>7, <1>8, <1>9, <1>10, <1>11, <1>12 DEF Next
<1> QED
  BY <1>2, <1>13

\* Neither a render, nor the refresh, nor the list's buttons ever wait for something that
\* cannot come, and what they wait for comes nearer with every step of it; for any Leads,
\* sections, failures, Replays and order of answers.
THEOREM PageNeverHangs == Spec => []NothingHangs /\ KeepsItsPlace
<1>1. Init => SeenInv /\ RowsInv /\ GatherInv
  <2> SUFFICES ASSUME Init PROVE SeenInv /\ RowsInv /\ GatherInv
    OBVIOUS
  <2>1. /\ reads = Nothing /\ ids = {} /\ rows = {} /\ needy = {} /\ troubled = {}
        /\ inFlight = {}
    BY DEF Init
  <2>2. "attention" \in Sections /\ Judged \subseteq Sections
    BY ConsoleAssumption DEF Judged
  <2> QED
    BY <2>1, <2>2, NothingRead DEF SeenInv, RowsInv, GatherInv, Unread, Found
<1>2. TypeInv /\ SeenInv /\ RowsInv /\ GatherInv /\ [Next]_vars => SeenInv' /\ RowsInv' /\ GatherInv'
  BY SeenStep, RowsStep, GatherStep
<1>3. ASSUME TypeInv, GatherInv PROVE NothingHangs
  <2>1. refreshing \/ loading => queue # <<>>
    BY <1>3 DEF TypeInv, TimerTypes
  <2>2. \/ \E s \in Sections : reads[s] = Unread
        \/ reads["attention"] = Found /\ RowMissing
        \/ \A s \in Sections : IsRead(s)
    BY <1>3 DEF GatherInv, IsRead
  <2>3. ASSUME NEW l \in Leads, replaying = l PROVE \E q \in inFlight : q.lead = l /\ q.table = table
    BY <1>3, <2>3, ConsoleAssumption DEF TypeInv, ListInv, GatherInv
  <2> QED
    BY <2>1, <2>2, <2>3 DEF NothingHangs
<1>4. ASSUME TypeInv, RowsInv, [Next]_vars
      PROVE  /\ loading /\ loading' => /\ \A s \in Sections : IsRead(s) => reads'[s] = reads[s]
                                       /\ reads["attention"] = Found => ids' = ids
                                       /\ rows \subseteq rows'
             /\ \A i \in DOMAIN queue :
                  queue[i] = "timer" /\ refreshing' =>
                    LET j == IF LoadEnds THEN i - 1 ELSE i
                    IN  j \in DOMAIN queue' /\ queue'[j] = "timer"
  BY <1>4, RenderStep, QueueStep
<1> QED
  BY <1>1, <1>2, <1>3, <1>4, TypeInvariant, PTL DEF Spec, KeepsItsPlace
==============================================================================
