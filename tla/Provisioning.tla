---------------------------- MODULE Provisioning -----------------------------
(***************************************************************************)
(* The scripts that bring the monitoring account, the status page and the  *)
(* mail domain to what the repository wants: setup-betterstack.ts (with    *)
(* --monitors --alerts), setup-dashboards.ts and setup-resend-domain.ts.   *)
(*                                                                         *)
(* A run is a fixed list of stages. Each lists what is there, works out    *)
(* the calls still needed, and makes them one by one; any call may fail or *)
(* the run be killed, which ends it there. Runs may overlap, and a later   *)
(* run starts over. Nothing is remembered between runs but the account.    *)
(*                                                                         *)
(* Abstracted: an object is its kind, its name and whether it is as this   *)
(* version of the scripts wants it (of an alert and an exploration, the    *)
(* sources; of a monitor, that it sends emails); a listing is one moment,  *)
(* although it is read page by page; the oldest object is listed first.    *)
(***************************************************************************)
EXTENDS Integers, FiniteSets, SequencesExt

CONSTANTS Slots,      \* runs at the same time
          SERVICES, ALERT_RULES,   \* sequences, as in the code
          METRICS, WantedRecords,
          EmailInbound,  \* the log source no script creates
          Web,        \* the one service with a monitor and no logs
          DMARC,      \* the wanted record that an existing one of its name may replace
          Stranger,   \* a monitor of something else
          Unnamed,    \* the name of what there is one of
          MaxRuns,    \* bound: runs begun
          MaxFaults   \* bound: runs that die on the way

Services == ToSet(SERVICES)

ASSUME ProvisioningAssumption ==
  /\ MaxRuns \in Nat /\ MaxFaults \in Nat
  /\ SERVICES \in Seq(Services) /\ ALERT_RULES \in Seq(ToSet(ALERT_RULES))
  /\ {EmailInbound, Web, Stranger} \intersect Services = {} /\ Stranger # Web
  /\ DMARC \in WantedRecords

VARIABLES
  cloud, next,        \* the objects in the accounts; the last id given
  env,                \* the root .env: service -> the log source whose token it has, 0: none
  script, phase, pc,  \* of each run: its script, what it does now, at which stage
  calls,              \* the calls its stage still has to make, each with its turn
  seen,               \* objects it listed at an earlier stage and still uses
  token,              \* the sources it found or made, to be written to .env
  alone,              \* no other run overlapped it
  newest,             \* the dashboard imported last, 0: none
  settled,            \* the script that ended, alone, and no run began since
  begun, died

account == <<cloud, next, env, newest>>
vars == <<account, script, phase, pc, calls, seen, token, alone, settled, begun, died>>

Scripts == {"betterstack", "dashboards", "resend"}
Object(id, kind, name, good) == [id |-> id, kind |-> kind, name |-> name, good |-> good]
Of(kind) == {o \in cloud : o.kind = kind}
Named(kind, name) == {o \in cloud : o.kind = kind /\ o.name = name}
First(objects) == CHOOSE o \in objects : \A p \in objects : o.id <= p.id

Create(turn, kind, name) == [turn |-> turn, do |-> "create", kind |-> kind, name |-> name, id |-> 0]
Delete(turn, o) == [turn |-> turn, do |-> "delete", kind |-> o.kind, name |-> o.name, id |-> o.id]
Patch(o) == [turn |-> 1, do |-> "patch", kind |-> o.kind, name |-> o.name, id |-> o.id]
WriteEnv == [turn |-> 1, do |-> "env", kind |-> "env", name |-> Unnamed, id |-> 0]

NoToken == [x \in Services |-> 0]

Stage(kind, name) == [kind |-> kind, name |-> name]

\* The loop over names that goes through the same kinds of stages for each.
ForEach(names, kinds) ==
  [i \in 1 .. Len(kinds) * Len(names) |->
     Stage(kinds[1 + ((i - 1) % Len(kinds))], names[1 + ((i - 1) \div Len(kinds))])]

Program(s) ==
  IF s = "betterstack"
    THEN ForEach(SERVICES, <<"source", "app", "monitor">>)
         \o <<Stage("monitor", Web), Stage("sourceIds", Unnamed), Stage("onCall", Unnamed), Stage("emails", Unnamed),
              Stage("existingAlerts", Unnamed)>>
         \o ForEach(ALERT_RULES, <<"exploration", "alert">>)
         \o <<Stage("env", Unnamed)>>
  ELSE IF s = "dashboards"
    THEN <<Stage("monitors", Unnamed), Stage("page", Unnamed), Stage("resources", Unnamed),
           Stage("sourceIds", Unnamed)>>
         \o ForEach(SERVICES \o <<EmailInbound>>, <<"metrics">>)
         \o <<Stage("dashboard", Unnamed), Stage("findDashboard", Unnamed)>>
  ELSE <<Stage("domain", Unnamed), Stage("records", Unnamed)>>

\* A new account, or one an earlier version of the scripts, and people, have worked in.
Init ==
  /\ \E used \in BOOLEAN :
       /\ cloud = {Object(1, "monitor", Stranger, FALSE)}
                    \union IF ~used THEN {}
                           ELSE {Object(2, "source", EmailInbound, TRUE),
                                 Object(3, "alert", ALERT_RULES[1], FALSE),
                                 Object(4, "dashboard", Unnamed, FALSE),
                                 Object(5, "record", DMARC, FALSE)}
       /\ newest = IF used THEN 4 ELSE 0
  /\ next = 5
  /\ env = NoToken
  /\ script = [r \in Slots |-> "none"] /\ phase = [r \in Slots |-> "idle"]
  /\ pc = [r \in Slots |-> 1] /\ calls = [r \in Slots |-> {}]
  /\ seen = [r \in Slots |-> {}] /\ token = [r \in Slots |-> NoToken]
  /\ alone = [r \in Slots |-> FALSE] /\ settled = "nothing"
  /\ begun = 0 /\ died = 0
-----------------------------------------------------------------------------
(* What a stage still has to do *)

findOrCreate(kind, name) ==
  IF Named(kind, name) # {} THEN {} ELSE {Create(1, kind, name)}

\* setup-betterstack.ts: every monitor of ours must mail whoever is on call.
emailCalls == {Patch(o) : o \in {m \in Of("monitor") : m.name # Stranger /\ ~m.good}}

\* The sources of an exploration (never its query) are set in any case; just made, they
\* are as wanted.
explorationCalls(x) ==
  IF Named("exploration", x) # {} THEN {Patch(First(Named("exploration", x)))}
  ELSE {Create(1, "exploration", x)}

\* Mutant: an alert that exists is left as it is.
alertCallsOnce(r, x) ==
  IF \E o \in seen[r] : o.name = x THEN {} ELSE {Create(1, "alert", x)}

\* The alerts were listed once, before the first of them was looked at.
alertCalls(r, x) ==
  LET existing == {o \in seen[r] : o.name = x}
  IN  IF existing = {} THEN {Create(1, "alert", x)}
      ELSE IF First(existing).good THEN {} ELSE {Patch(First(existing))}

\* setup-dashboards.ts: resources of other monitors go, then those of ours come that are missing.
resourceCalls(r) ==
  LET ours == {o.name : o \in seen[r]} \ {Stranger}
  IN  {Delete(1, o) : o \in {x \in Of("resource") : x.name \notin ours}}
        \union {Create(2, "resource", x) : x \in {y \in ours : Named("resource", y) = {}}}

metricCalls(s) ==
  {Create(1, "metric", x) : x \in {<<s, m>> : m \in METRICS} \ {o.name : o \in Of("metric")}}

\* Mutant: the previous dashboards go before the new one comes.
dashboardCallsDeletingFirst ==
  {Create(2, "dashboard", Unnamed)} \union {Delete(1, o) : o \in Of("dashboard")}

dashboardCalls ==
  {Create(1, "dashboard", Unnamed)} \union {Delete(2, o) : o \in Of("dashboard")}

\* setup-resend-domain.ts: a record is reused if identical; a DMARC policy in any case.
recordCalls ==
  LET reused(x) == \E o \in Named("record", x) : o.good \/ x = DMARC
  IN  {Create(1, "record", x) : x \in {y \in WantedRecords : ~reused(y)}}

Plan(r, st) ==
  IF st.kind \in {"source", "app", "monitor", "onCall", "page", "domain"}
    THEN findOrCreate(st.kind, st.name)
  ELSE IF st.kind = "exploration" THEN explorationCalls(st.name)
  ELSE IF st.kind = "alert" THEN alertCalls(r, st.name)
  ELSE IF st.kind = "emails" THEN emailCalls
  ELSE IF st.kind = "resources" THEN resourceCalls(r)
  ELSE IF st.kind = "metrics" THEN metricCalls(st.name)
  ELSE IF st.kind = "dashboard" THEN dashboardCalls
  ELSE IF st.kind = "records" THEN recordCalls
  ELSE IF st.kind = "env" THEN {WriteEnv}
  ELSE {}

\* What a stage cannot go on without: the script throws.
Missing(st) ==
  \/ st.kind = "sourceIds" /\ \E s \in Services \union {EmailInbound} : Named("source", s) = {}
  \/ st.kind = "findDashboard" /\ Of("dashboard") = {}
-----------------------------------------------------------------------------
(* Runs *)

Begin(r, s) ==
  /\ phase[r] = "idle" /\ begun < MaxRuns /\ begun' = begun + 1
  /\ script' = [script EXCEPT ![r] = s] /\ phase' = [phase EXCEPT ![r] = "list"]
  /\ alone' = [q \in Slots |-> q = r /\ \A p \in Slots : phase[p] = "idle"]
  /\ settled' = "nothing"
  /\ UNCHANGED <<account, pc, calls, seen, token, died>>

\* The run is over; its memory goes with it.
Ends(r) ==
  /\ phase' = [phase EXCEPT ![r] = "idle"] /\ pc' = [pc EXCEPT ![r] = 1]
  /\ script' = [script EXCEPT ![r] = "none"] /\ calls' = [calls EXCEPT ![r] = {}]
  /\ seen' = [seen EXCEPT ![r] = {}] /\ token' = [token EXCEPT ![r] = NoToken]
  /\ UNCHANGED <<alone, begun>>

Dies(r) == Ends(r) /\ UNCHANGED <<account, settled>>

\* The run's stage has these calls to make, and it remembers this; without any call the
\* next stage is due.
GoesOn(r, todo, listed, tokens) ==
  IF todo = {} /\ pc[r] = Len(Program(script[r]))
    THEN Ends(r) /\ settled' = IF alone[r] THEN script[r] ELSE settled
    ELSE /\ calls' = [calls EXCEPT ![r] = todo]
         /\ phase' = [phase EXCEPT ![r] = IF todo = {} THEN "list" ELSE "call"]
         /\ pc' = [pc EXCEPT ![r] = IF todo = {} THEN @ + 1 ELSE @]
         /\ seen' = [seen EXCEPT ![r] = listed] /\ token' = [token EXCEPT ![r] = tokens]
         /\ UNCHANGED <<script, alone, settled, begun>>

List(r) ==
  /\ phase[r] = "list"
  /\ LET st == Program(script[r])[pc[r]]
     IN  IF Missing(st) THEN Dies(r)
         ELSE /\ GoesOn(r, Plan(r, st),
                   IF st.kind = "monitors" THEN Of("monitor")
                   ELSE IF st.kind = "existingAlerts" THEN Of("alert") ELSE seen[r],
                   IF st.kind = "source" /\ Named("source", st.name) # {}
                     THEN [token[r] EXCEPT ![st.name] = First(Named("source", st.name)).id]
                     ELSE token[r])
              /\ UNCHANGED account
  /\ died' = died

\* The call is refused: the object is gone, or there can be only one.
Refused(c) ==
  \/ c.do \in {"delete", "patch"} /\ \A o \in cloud : o.id # c.id
  \/ c.do = "create" /\ c.kind \in {"page", "domain"} /\ Of(c.kind) # {}

\* A new status page is filled with every monitor there is.
Created(c) ==
  {Object(next + 1, c.kind, c.name, TRUE)}
    \union IF c.kind # "page" THEN {}
           ELSE {Object(next + 1 + o.id, "resource", o.name, TRUE) : o \in Of("monitor")}

Done(r, c) ==
  /\ cloud' = IF c.do = "create" THEN cloud \union Created(c)
              ELSE IF c.do = "delete" THEN {o \in cloud : o.id # c.id}
              ELSE {Object(o.id, o.kind, o.name, o.good \/ o.id = c.id) : o \in cloud}
  /\ next' = IF c.do # "create" THEN next ELSE IF c.kind = "page" THEN 2 * next + 1 ELSE next + 1
  /\ newest' = IF c.do = "create" /\ c.kind = "dashboard" THEN next + 1 ELSE newest
  /\ env' = IF c.do = "env" THEN token[r] ELSE env

Call(r) ==
  /\ phase[r] = "call"
  /\ \E c \in calls[r] :
       /\ \A d \in calls[r] : c.turn <= d.turn
       /\ IF Refused(c) THEN Dies(r)
          ELSE /\ Done(r, c)
               /\ GoesOn(r, calls[r] \ {c}, seen[r],
                    IF c.do = "create" /\ c.kind = "source"
                      THEN [token[r] EXCEPT ![c.name] = next + 1] ELSE token[r])
  /\ died' = died

\* An API error, a lost connection, Ctrl-C.
Fails(r) ==
  /\ phase[r] # "idle" /\ died < MaxFaults /\ died' = died + 1
  /\ Dies(r)

Next == \E r \in Slots : (\E s \in Scripts : Begin(r, s)) \/ List(r) \/ Call(r) \/ Fails(r)

Spec == Init /\ [][Next]_vars
-----------------------------------------------------------------------------
(* What the scripts promise *)

TypeOK ==
  /\ next \in Nat /\ newest \in 0 .. next
  /\ \A o \in cloud : o.id \in 1 .. next
  /\ phase \in [Slots -> {"idle", "list", "call"}]
  /\ script \in [Slots -> Scripts \union {"none"}]

\* Once the operations dashboard exists there always is one, the one imported last, however
\* runs of setup-dashboards.ts overlap and wherever they die (converge).
NeverWithoutDashboard ==
  newest # 0 => \E o \in cloud : o.id = newest /\ o.kind = "dashboard"

\* After a run that nothing overlapped and nothing stopped, the account is as its script
\* wants it, whatever earlier runs left half done ("idempotent": the three scripts).
Converged(s) ==
  /\ s = "betterstack" =>
       /\ \A x \in Services : /\ Named("app", x) # {} /\ Named("monitor", x) # {}
                              /\ \E o \in Named("source", x) : o.id = env[x]
       /\ Named("monitor", Web) # {} /\ Of("onCall") # {}
       /\ \A o \in Of("monitor") : o.name # Stranger => o.good
       /\ \A x \in ToSet(ALERT_RULES) : /\ \E o \in Named("alert", x) : o.good
                                        /\ \E o \in Named("exploration", x) : o.good
  /\ s = "dashboards" =>
       /\ Cardinality(Of("dashboard")) = 1 /\ \A o \in Of("dashboard") : o.good
       /\ {o.name : o \in Of("resource")} = {o.name : o \in Of("monitor")} \ {Stranger}
       /\ \A x \in Services, m \in METRICS : Named("metric", <<x, m>>) # {}
  /\ s = "resend" =>
       /\ Of("domain") # {}
       /\ \A x \in WantedRecords :
            \E o \in Named("record", x) : o.good \/ x = DMARC

RunsConverge == settled # "nothing" => Converged(settled)
==============================================================================
