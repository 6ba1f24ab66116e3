------------------------- MODULE ProvisioningProofs --------------------------
(***************************************************************************)
(* For any number of runs that overlap and die in any way, the operations  *)
(* dashboard never disappears, and nothing is deleted but dashboards and   *)
(* resources of the page; and a run that nothing overlaps or stops leaves  *)
(* the account as its script wants it.                                     *)
(*                                                                         *)
(* The first argument is about the newest dashboard. A run deletes only    *)
(* what it listed before its own import, and imports before it deletes: so *)
(* a call that would delete the newest still waits for an import of its    *)
(* run, which makes another one the newest. Ids are never used twice, so   *)
(* no other call can hit it.                                               *)
(*                                                                         *)
(* The second is about promises: each stage has a condition on the         *)
(* account, which its plan establishes but for the calls still owed        *)
(* (PlanIsEnough), which each of these calls keeps with one less owed      *)
(* (CallKeepsPromise), and which the stages after it leave alone           *)
(* (PromiseStays). At the end of the program the conditions of all its     *)
(* stages are what the script promises (PromisesConverge).                 *)
(***************************************************************************)
EXTENDS Provisioning, FiniteSetTheorems, SequenceTheorems, WellFoundedInduction, TLAPS

\* Ids are given once, to objects of one kind and name.
IdsInv ==
  /\ next \in Nat /\ newest \in Nat /\ newest <= next
  /\ \A o \in cloud : o.id \in Nat /\ 1 <= o.id /\ o.id <= next
  /\ \A o, p \in cloud : o.id = p.id => o.kind = p.kind /\ o.name = p.name

\* What is to be deleted existed when that was planned; and no call that deletes the
\* newest dashboard is made before an import of its run.
SafeCalls(set) ==
  \A c \in set : c.do = "delete" =>
    /\ c.id \in Nat /\ c.id <= next
    /\ c.id = newest =>
         \E d \in set : d.do = "create" /\ d.kind = "dashboard" /\ ~(c.turn <= d.turn)

CallsInv ==
  /\ calls = [r \in Slots |-> calls[r]]
  /\ \A r \in Slots : SafeCalls(calls[r])

PInv == IdsInv /\ CallsInv /\ NeverWithoutDashboard
-----------------------------------------------------------------------------
\* A stage that plans deletions plans safe ones.
LEMMA PlanIsSafe ==
  ASSUME PInv, NEW r \in Slots, NEW st
  PROVE  SafeCalls(Plan(r, st))
<1>1. SafeCalls({})
  BY DEF SafeCalls
<1>2. ASSUME NEW kind, NEW name PROVE SafeCalls(findOrCreate(kind, name))
  BY DEF SafeCalls, findOrCreate, Create
<1>3. ASSUME NEW x PROVE SafeCalls(explorationCalls(x)) /\ SafeCalls(alertCalls(r, x))
  BY DEF SafeCalls, explorationCalls, alertCalls, Create, Patch
<1>4. SafeCalls(emailCalls) /\ SafeCalls(recordCalls) /\ SafeCalls({WriteEnv})
  BY DEF SafeCalls, emailCalls, recordCalls, Create, Patch, WriteEnv
<1>5. ASSUME NEW x PROVE SafeCalls(metricCalls(x))
  BY DEF SafeCalls, metricCalls, Create
<1>6. SafeCalls(dashboardCalls)
  <2> SUFFICES ASSUME NEW c \in dashboardCalls, c.do = "delete"
               PROVE  /\ c.id \in Nat /\ c.id <= next
                      /\ \E d \in dashboardCalls :
                           d.do = "create" /\ d.kind = "dashboard" /\ ~(c.turn <= d.turn)
    BY DEF SafeCalls
  <2>1. PICK o \in Of("dashboard") : c = Delete(2, o)
    BY DEF dashboardCalls, Create
  <2>2. c.id \in Nat /\ c.id <= next /\ c.turn = 2
    BY <2>1 DEF PInv, IdsInv, Of, Delete
  <2>3. Create(1, "dashboard", Unnamed) \in dashboardCalls
    BY DEF dashboardCalls
  <2> QED
    BY <2>2, <2>3 DEF Create
<1>7. SafeCalls(resourceCalls(r))
  <2> SUFFICES ASSUME NEW c \in resourceCalls(r), c.do = "delete"
               PROVE  c.id \in Nat /\ c.id <= next /\ c.id # newest
    BY DEF SafeCalls
  <2>1. PICK o \in Of("resource") : c = Delete(1, o)
    BY DEF resourceCalls, Create
  <2>2. o \in cloud /\ o.kind = "resource" /\ c.id = o.id
    BY <2>1 DEF Of, Delete
  <2>3. c.id # newest
    BY <2>2 DEF PInv, IdsInv, NeverWithoutDashboard
  <2> QED
    BY <2>2, <2>3 DEF PInv, IdsInv
<1> QED
  BY <1>1, <1>2, <1>3, <1>4, <1>5, <1>6, <1>7 DEF Plan

\* Where the objects stay, a run may take on safe calls, or drop those it had.
LEMMA SafeCallsKeepInvariant ==
  ASSUME PInv, NEW r \in Slots, NEW todo, SafeCalls(todo),
         calls' = [calls EXCEPT ![r] = todo], UNCHANGED <<cloud, next, newest>>
  PROVE  PInv'
<1>1. calls' = [q \in Slots |-> calls'[q]]
  BY DEF PInv, CallsInv
<1>2. ASSUME NEW q \in Slots PROVE SafeCalls(calls[q])'
  <2>1. calls'[q] = IF q = r THEN todo ELSE calls[q]
    BY DEF PInv, CallsInv
  <2>2. SafeCalls(calls'[q])
    BY <2>1 DEF PInv, CallsInv
  <2> QED
    BY <2>2 DEF SafeCalls
<1> QED
  BY <1>1, <1>2 DEF PInv, IdsInv, CallsInv, NeverWithoutDashboard

\* So does a run that dies.
LEMMA DeathKeepsInvariant ==
  ASSUME PInv, NEW r \in Slots, Dies(r)
  PROVE  PInv'
<1>1. SafeCalls({})
  BY DEF SafeCalls
<1> QED
  BY <1>1, SafeCallsKeepInvariant DEF Dies, Ends, account

\* Whether the run goes on or ends, what is left of its calls is the given set.
LEMMA CallsLeft ==
  ASSUME NEW r, NEW todo, NEW listed, NEW tokens, GoesOn(r, todo, listed, tokens)
  PROVE  calls' = [calls EXCEPT ![r] = todo]
BY DEF GoesOn, Ends
-----------------------------------------------------------------------------
\* A call of a run, the earliest of those left, keeps the objects in order.
LEMMA CallKeepsIds ==
  ASSUME PInv, NEW r \in Slots, NEW c \in calls[r],
         \A d \in calls[r] : c.turn <= d.turn, Done(r, c)
  PROVE  IdsInv' /\ NeverWithoutDashboard' /\ next <= next'
<1> USE DEF PInv, IdsInv, NeverWithoutDashboard, Object
<1>1. CASE c.do = "create"
  <2>1. /\ cloud' = cloud \union Created(c)
        /\ next' = IF c.kind = "page" THEN 2 * next + 1 ELSE next + 1
        /\ newest' = IF c.kind = "dashboard" THEN next + 1 ELSE newest
    BY <1>1 DEF Done
  <2>2. ASSUME NEW o \in Created(c)
        PROVE  /\ o.id \in Nat /\ next < o.id /\ o.id <= next'
               /\ \/ o.id = next + 1 /\ o.kind = c.kind /\ o.name = c.name
                  \/ \E m \in Of("monitor") :
                       o.id = next + 1 + m.id /\ o.kind = "resource" /\ o.name = m.name
    <3>1. CASE o = Object(next + 1, c.kind, c.name, TRUE)
      BY <3>1, <2>1
    <3>2. CASE c.kind = "page" /\ \E m \in Of("monitor") :
                 o = Object(next + 1 + m.id, "resource", m.name, TRUE)
      <4>1. PICK m \in Of("monitor") : o = Object(next + 1 + m.id, "resource", m.name, TRUE)
        BY <3>2
      <4>2. m.id \in Nat /\ 1 <= m.id /\ m.id <= next
        BY DEF Of
      <4> QED
        BY <4>1, <4>2, <3>2, <2>1
    <3> QED
      BY <3>1, <3>2 DEF Created
  <2>3. IdsInv'
    <3>1. next' \in Nat /\ newest' \in Nat /\ newest' <= next' /\ next <= next'
      BY <2>1
    <3>2. \A o \in cloud' : o.id \in Nat /\ 1 <= o.id /\ o.id <= next'
      BY <2>1, <2>2, <3>1
    <3>3. \A o, p \in cloud' : o.id = p.id => o.kind = p.kind /\ o.name = p.name
      <4> SUFFICES ASSUME NEW o \in cloud', NEW p \in cloud', o.id = p.id
                   PROVE  o.kind = p.kind /\ o.name = p.name
        OBVIOUS
      <4>1. CASE o \in cloud /\ p \in cloud
        BY <4>1
      <4>2. CASE o \in Created(c) /\ p \in Created(c)
        <5>1. \A m \in Of("monitor") : m \in cloud /\ m.id \in Nat /\ 1 <= m.id
          BY DEF Of
        <5>2. \A m, l \in Of("monitor") : next + 1 + m.id = next + 1 + l.id => m.name = l.name
          BY <5>1
        <5> QED
          BY <4>2, <2>2, <5>1, <5>2
      <4>3. CASE (o \in cloud /\ p \in Created(c)) \/ (p \in cloud /\ o \in Created(c))
        BY <4>3, <2>2
      <4> QED
        BY <4>1, <4>2, <4>3, <2>1
    <3> QED
      BY <3>1, <3>2, <3>3
  <2>4. NeverWithoutDashboard'
    <3>1. Object(next + 1, c.kind, c.name, TRUE) \in cloud'
      BY <2>1 DEF Created
    <3> QED
      BY <2>1, <3>1
  <2> QED
    BY <2>1, <2>3, <2>4
<1>2. CASE c.do = "delete"
  <2>1. cloud' = {o \in cloud : o.id # c.id} /\ next' = next /\ newest' = newest
    BY <1>2 DEF Done
  <2>2. c.id # newest
    BY <1>2 DEF CallsInv, SafeCalls
  <2> QED
    BY <2>1, <2>2
<1>3. CASE c.do # "create" /\ c.do # "delete"
  <2>1. /\ cloud' = {Object(o.id, o.kind, o.name, o.good \/ o.id = c.id) : o \in cloud}
        /\ next' = next /\ newest' = newest
    BY <1>3 DEF Done
  <2>2. \A o \in cloud' : \E p \in cloud : o.id = p.id /\ o.kind = p.kind /\ o.name = p.name
    BY <2>1
  <2>3. ASSUME NEW p \in cloud PROVE \E o \in cloud' : o.id = p.id /\ o.kind = p.kind
    <3>1. Object(p.id, p.kind, p.name, p.good \/ p.id = c.id) \in cloud'
      BY <2>1
    <3> QED
      BY <3>1
  <2> QED
    BY <2>1, <2>2, <2>3
<1> QED
  BY <1>1, <1>2, <1>3

\* A call leaves the others of its run, and those of other runs, safe.
LEMMA CallKeepsCalls ==
  ASSUME PInv, NEW r \in Slots, NEW c \in calls[r],
         \A d \in calls[r] : c.turn <= d.turn, Done(r, c),
         calls' = [calls EXCEPT ![r] = calls[r] \ {c}]
  PROVE  CallsInv'
<1>1. calls' = [q \in Slots |-> calls'[q]]
  BY DEF PInv, CallsInv
<1>2. next \in Nat /\ next' \in Nat /\ next <= next' /\ newest \in Nat
  BY CallKeepsIds DEF PInv, IdsInv
<1>3. ASSUME NEW q \in Slots, NEW a \in calls'[q], a.do = "delete"
      PROVE  /\ a.id \in Nat /\ a.id <= next'
             /\ a.id = newest' =>
                  \E d \in calls'[q] : d.do = "create" /\ d.kind = "dashboard" /\ ~(a.turn <= d.turn)
  <2>1. a \in calls[q] /\ calls'[q] = IF q = r THEN calls[r] \ {c} ELSE calls[q]
    BY DEF PInv, CallsInv
  <2>2. a.id \in Nat /\ a.id <= next
    BY <2>1, <1>3 DEF PInv, CallsInv, SafeCalls
  <2>3. CASE c.do = "create" /\ c.kind = "dashboard"
    <3>1. newest' = next + 1
      BY <2>3 DEF Done
    <3> QED
      BY <3>1, <2>2, <1>2
  <2>4. CASE ~(c.do = "create" /\ c.kind = "dashboard")
    <3>1. newest' = newest
      BY <2>4 DEF Done
    <3>2. ASSUME a.id = newest
          PROVE  \E d \in calls'[q] :
                   d.do = "create" /\ d.kind = "dashboard" /\ ~(a.turn <= d.turn)
      <4>1. PICK d \in calls[q] : d.do = "create" /\ d.kind = "dashboard" /\ ~(a.turn <= d.turn)
        BY <2>1, <1>3, <3>2 DEF PInv, CallsInv, SafeCalls
      <4> QED
        BY <4>1, <2>1, <2>4
    <3> QED
      BY <3>1, <3>2, <2>2, <1>2
  <2> QED
    BY <2>3, <2>4
<1> QED
  BY <1>1, <1>3 DEF CallsInv, SafeCalls
-----------------------------------------------------------------------------
LEMMA InitEstablishes == ASSUME Init PROVE PInv
<1>1. calls = [r \in Slots |-> {}] /\ next = 5
  BY DEF Init
<1>2. CallsInv
  BY <1>1 DEF CallsInv, SafeCalls
<1>3. IdsInv /\ NeverWithoutDashboard
  <2>1. PICK used \in BOOLEAN :
          /\ cloud = {Object(1, "monitor", Stranger, FALSE)}
                       \union IF ~used THEN {}
                              ELSE {Object(2, "source", EmailInbound, TRUE),
                                    Object(3, "alert", ALERT_RULES[1], FALSE),
                                    Object(4, "dashboard", Unnamed, FALSE),
                                    Object(5, "record", DMARC, FALSE)}
          /\ newest = IF used THEN 4 ELSE 0
    BY DEF Init
  <2>2. CASE ~used
    BY <2>1, <2>2, <1>1 DEF IdsInv, NeverWithoutDashboard, Object
  <2>3. CASE used
    <3>1. /\ cloud = {Object(1, "monitor", Stranger, FALSE), Object(2, "source", EmailInbound, TRUE),
                      Object(3, "alert", ALERT_RULES[1], FALSE),
                      Object(4, "dashboard", Unnamed, FALSE), Object(5, "record", DMARC, FALSE)}
          /\ newest = 4
      BY <2>1, <2>3
    <3>2. IdsInv
      BY <3>1, <1>1 DEF IdsInv, Object
    <3>3. Object(4, "dashboard", Unnamed, FALSE) \in cloud
      BY <3>1
    <3> QED
      BY <3>1, <3>2, <3>3 DEF NeverWithoutDashboard, Object
  <2> QED
    BY <2>2, <2>3
<1> QED
  BY <1>2, <1>3 DEF PInv

LEMMA StepKeepsInvariant == ASSUME PInv, [Next]_vars PROVE PInv'
<1>1. ASSUME NEW r \in Slots, NEW s \in Scripts, Begin(r, s) PROVE PInv'
  BY <1>1 DEF Begin, account, PInv, IdsInv, CallsInv, SafeCalls, NeverWithoutDashboard
<1>2. ASSUME NEW r \in Slots, List(r) PROVE PInv'
  <2> DEFINE st == Program(script[r])[pc[r]]
  <2>1. CASE Missing(st)
    BY <1>2, <2>1, DeathKeepsInvariant DEF List
  <2>2. CASE ~Missing(st)
    <3>1. calls' = [calls EXCEPT ![r] = Plan(r, st)] /\ UNCHANGED account
      BY <1>2, <2>2, CallsLeft DEF List
    <3>2. SafeCalls(Plan(r, st))
      BY PlanIsSafe
    <3> QED
      BY <3>1, <3>2, SafeCallsKeepInvariant DEF account
  <2> QED
    BY <2>1, <2>2
<1>3. ASSUME NEW r \in Slots, Call(r) PROVE PInv'
  <2>1. PICK c \in calls[r] :
          /\ \A d \in calls[r] : c.turn <= d.turn
          /\ \/ Dies(r)
             \/ Done(r, c) /\ calls' = [calls EXCEPT ![r] = calls[r] \ {c}]
    BY <1>3, CallsLeft DEF Call
  <2>2. CASE Dies(r)
    BY <2>2, DeathKeepsInvariant
  <2>3. CASE Done(r, c) /\ calls' = [calls EXCEPT ![r] = calls[r] \ {c}]
    BY <2>1, <2>3, CallKeepsIds, CallKeepsCalls DEF PInv
  <2> QED
    BY <2>1, <2>2, <2>3
<1>4. ASSUME NEW r \in Slots, Fails(r) PROVE PInv'
  BY <1>4, DeathKeepsInvariant DEF Fails
<1>5. ASSUME UNCHANGED vars PROVE PInv'
  BY <1>5 DEF vars, account, PInv, IdsInv, CallsInv, SafeCalls, NeverWithoutDashboard
<1> QED
  BY <1>1, <1>2, <1>3, <1>4, <1>5 DEF Next

\* What a run is doing stays what it may be doing.
PhaseOK ==
  /\ phase \in [Slots -> {"idle", "list", "call"}]
  /\ script \in [Slots -> Scripts \union {"none"}]

LEMMA StepKeepsPhase == ASSUME PhaseOK, [Next]_vars PROVE PhaseOK'
<1>1. ASSUME NEW r \in Slots, NEW s \in Scripts, Begin(r, s) PROVE PhaseOK'
  BY <1>1 DEF Begin, PhaseOK
<1>2. ASSUME NEW r \in Slots, Dies(r) PROVE PhaseOK'
  BY <1>2 DEF Dies, Ends, PhaseOK
<1>3. ASSUME NEW r \in Slots, NEW todo, NEW listed, NEW tokens, GoesOn(r, todo, listed, tokens)
      PROVE  PhaseOK'
  BY <1>3 DEF GoesOn, Ends, PhaseOK
<1>4. ASSUME NEW r \in Slots, List(r) PROVE PhaseOK'
  BY <1>2, <1>3, <1>4 DEF List
<1>5. ASSUME NEW r \in Slots, Call(r) PROVE PhaseOK'
  BY <1>2, <1>3, <1>5 DEF Call
<1>6. ASSUME NEW r \in Slots, Fails(r) PROVE PhaseOK'
  BY <1>2, <1>6 DEF Fails
<1>7. ASSUME UNCHANGED vars PROVE PhaseOK'
  BY <1>7 DEF vars, PhaseOK
<1> QED
  BY <1>1, <1>4, <1>5, <1>6, <1>7 DEF Next

\* The state of the accounts and of the runs keeps its type.
THEOREM ProvisioningTypes == Spec => []TypeOK
<1>1. Init => PhaseOK
  BY DEF Init, PhaseOK
<1>2. PhaseOK /\ PInv => TypeOK
  BY DEF PInv, IdsInv, PhaseOK, TypeOK
<1> QED
  BY <1>1, <1>2, InitEstablishes, StepKeepsInvariant, StepKeepsPhase, PTL DEF Spec

\* However many runs of the scripts overlap, and wherever each of them dies, the operations
\* dashboard imported last is there (converge: import first, then drop the previous copies).
THEOREM DashboardStays == Spec => []NeverWithoutDashboard
<1>1. PInv => NeverWithoutDashboard
  BY DEF PInv
<1> QED
  BY <1>1, InitEstablishes, StepKeepsInvariant, PTL DEF Spec
-----------------------------------------------------------------------------
(* The stages of the scripts *)

\* One sequence after another.
IsAppended(f, a, b, S) ==
  /\ f \in Seq(S) /\ Len(f) = Len(a) + Len(b)
  /\ \A i \in 1 .. Len(a) : f[i] = a[i]
  /\ \A i \in 1 .. Len(b) : f[Len(a) + i] = b[i]

\* Of sequences, one after another.
LEMMA Appended ==
  ASSUME NEW S, NEW a \in Seq(S), NEW b \in Seq(S)
  PROVE  IsAppended(a \o b, a, b, S)
BY DEF IsAppended

StageKinds ==
  {"source", "app", "monitor", "sourceIds", "onCall", "emails", "existingAlerts", "exploration",
   "alert", "env", "monitors", "page", "resources", "metrics", "dashboard", "findDashboard",
   "domain", "records"}

\* A sequence with a stage of every kind for every name, and no other.
IsLoop(f, names, kinds, S, T) ==
  /\ f \in Seq([kind : T, name : S])
  /\ Len(f) = Len(kinds) * Len(names)
  /\ \A i \in 1 .. Len(f) : \E j \in 1 .. Len(kinds), n \in 1 .. Len(names) :
       f[i] = Stage(kinds[j], names[n])
  /\ \A j \in 1 .. Len(kinds), n \in 1 .. Len(names) :
       \E i \in 1 .. Len(f) : f[i] = Stage(kinds[j], names[n])

\* That is what the loop makes.
LEMMA LoopStages ==
  ASSUME NEW S, NEW T, NEW names \in Seq(S), NEW kinds \in Seq(T), Len(kinds) \in {1, 2, 3}
  PROVE  IsLoop(ForEach(names, kinds), names, kinds, S, T)
<1> DEFINE l == Len(names)
           k == Len(kinds)
           f == ForEach(names, kinds)
<1>0. l \in Nat /\ k \in {1, 2, 3}
  OBVIOUS
<1>1. f = [i \in 1 .. k * l |-> Stage(kinds[1 + ((i - 1) % k)], names[1 + ((i - 1) \div k)])]
  BY DEF ForEach
<1>2. ASSUME NEW i \in 1 .. k * l
      PROVE  1 + ((i - 1) % k) \in 1 .. k /\ 1 + ((i - 1) \div k) \in 1 .. l
  <2> HIDE DEF l, k
  <2>1. CASE k = 1
    BY <1>0, <2>1
  <2>2. CASE k = 2
    BY <1>0, <2>2
  <2>3. CASE k = 3
    BY <1>0, <2>3
  <2> QED
    BY <1>0, <2>1, <2>2, <2>3
<1>3. k * l \in Nat
  BY <1>0
<1>4. ASSUME NEW i \in 1 .. k * l
      PROVE  \E j \in 1 .. k, n \in 1 .. l : f[i] = Stage(kinds[j], names[n])
  <2>1. f[i] = Stage(kinds[1 + ((i - 1) % k)], names[1 + ((i - 1) \div k)])
    BY <1>1
  <2> HIDE DEF f, l, k
  <2> QED
    BY <2>1, <1>2
<1>5. ASSUME NEW j \in 1 .. k, NEW n \in 1 .. l
      PROVE  \E i \in 1 .. k * l : f[i] = Stage(kinds[j], names[n])
  <2> DEFINE i == k * (n - 1) + j
  <2>1. i \in 1 .. k * l /\ (i - 1) % k = j - 1 /\ (i - 1) \div k = n - 1
    <3> HIDE DEF l, k
    <3>1. CASE k = 1
      BY <1>0, <3>1
    <3>2. CASE k = 2
      BY <1>0, <3>2
    <3>3. CASE k = 3
      BY <1>0, <3>3
    <3> QED
      BY <1>0, <3>1, <3>2, <3>3
  <2>2. 1 + ((i - 1) % k) = j /\ 1 + ((i - 1) \div k) = n
    <3> HIDE DEF i, l, k
    <3> QED
      BY <2>1
  <2>3. f[i] = Stage(kinds[1 + ((i - 1) % k)], names[1 + ((i - 1) \div k)])
    <3> HIDE DEF i
    <3> QED
      BY <1>1, <2>1
  <2> HIDE DEF i, f, l, k
  <2> QED
    BY <2>1, <2>2, <2>3
<1>6. ASSUME NEW i \in 1 .. k * l PROVE f[i] \in [kind : T, name : S]
  <2>1. PICK j \in 1 .. k, n \in 1 .. l : f[i] = Stage(kinds[j], names[n])
    BY <1>4
  <2>2. kinds[j] \in T /\ names[n] \in S
    OBVIOUS
  <2> HIDE DEF f
  <2> QED
    BY <2>1, <2>2 DEF Stage
<1>7. f \in Seq([kind : T, name : S]) /\ Len(f) = k * l
  <2> DEFINE R == [kind : T, name : S]
             d == k * l
  <2>1. f \in [1 .. d -> R]
    BY <1>1, <1>6
  <2> HIDE DEF f, R, d
  <2>2. f \in Seq(R)
    BY <2>1, <1>3, SeqDef DEF d
  <2>3. d \in Nat /\ Len(f) \in Nat /\ f \in [1 .. Len(f) -> R]
    BY <2>2, <1>3, LenProperties DEF d
  <2>4. Len(f) = d
    BY <2>1, <2>3
  <2> QED
    BY <2>2, <2>4 DEF R, d
<1> HIDE DEF f
<1> QED
  BY <1>4, <1>5, <1>7 DEF IsLoop, f

\* The names stages have.
Names == Services \union ToSet(ALERT_RULES) \union {EmailInbound, Web, Unnamed}
Stages == [kind : StageKinds, name : Names]

\* The stages of setup-betterstack.ts, in order.
LEMMA BetterstackStages ==
  LET P == Program("betterstack")
      n == Len(SERVICES)
      m == Len(ALERT_RULES)
  IN  /\ n \in Nat /\ m \in Nat /\ P \in Seq(Stages) /\ Len(P) = 3 * n + 2 * m + 6
      /\ \A i \in 1 .. 3 * n : /\ P[i].kind \in {"source", "app", "monitor"}
                               /\ P[i].name \in Services
      /\ P[3 * n + 1] = Stage("monitor", Web) /\ P[3 * n + 2] = Stage("sourceIds", Unnamed)
      /\ P[3 * n + 3] = Stage("onCall", Unnamed) /\ P[3 * n + 4] = Stage("emails", Unnamed)
      /\ P[3 * n + 5] = Stage("existingAlerts", Unnamed)
      /\ \A i \in 1 .. 2 * m : P[3 * n + 5 + i].kind \in {"exploration", "alert"}
      /\ P[3 * n + 2 * m + 6] = Stage("env", Unnamed)
      /\ \A x \in Services, k \in {"source", "app", "monitor"} :
           \E i \in 1 .. Len(P) : P[i] = Stage(k, x)
      /\ \A x \in ToSet(ALERT_RULES), k \in {"exploration", "alert"} :
           \E i \in 1 .. Len(P) : P[i] = Stage(k, x)
<1> DEFINE P == Program("betterstack")
           n == Len(SERVICES)
           m == Len(ALERT_RULES)
           K == <<"source", "app", "monitor">>
           L == <<"exploration", "alert">>
           A == ForEach(SERVICES, K)
           B == <<Stage("monitor", Web), Stage("sourceIds", Unnamed), Stage("onCall", Unnamed),
                  Stage("emails", Unnamed), Stage("existingAlerts", Unnamed)>>
           C == ForEach(ALERT_RULES, L)
           D == <<Stage("env", Unnamed)>>
<1>1. n \in Nat /\ m \in Nat /\ SERVICES \in Seq(Services) /\ ALERT_RULES \in Seq(ToSet(ALERT_RULES))
  BY ProvisioningAssumption
<1>2. /\ K \in Seq(StageKinds) /\ Len(K) = 3 /\ K[1] = "source" /\ K[2] = "app" /\ K[3] = "monitor"
      /\ L \in Seq(StageKinds) /\ Len(L) = 2 /\ L[1] = "exploration" /\ L[2] = "alert"
  <2>1. K \in Seq(StageKinds) /\ Len(K) = 3 /\ K[1] = "source" /\ K[2] = "app" /\ K[3] = "monitor"
    BY DEF StageKinds
  <2>2. L \in Seq(StageKinds) /\ Len(L) = 2 /\ L[1] = "exploration" /\ L[2] = "alert"
    BY DEF StageKinds
  <2> QED
    BY <2>1, <2>2
<1> HIDE DEF K, L
<1>3. /\ A \in Seq([kind : StageKinds, name : Services]) /\ Len(A) = 3 * n
      /\ \A i \in 1 .. 3 * n : \E j \in 1 .. 3, l \in 1 .. n : A[i] = Stage(K[j], SERVICES[l])
      /\ \A j \in 1 .. 3, l \in 1 .. n : \E i \in 1 .. 3 * n : A[i] = Stage(K[j], SERVICES[l])
  <2>1. IsLoop(A, SERVICES, K, Services, StageKinds)
    BY <1>1, <1>2, LoopStages
  <2> HIDE DEF A
  <2>2. Len(A) = 3 * n /\ Len(SERVICES) = n /\ Len(K) = 3
    BY <2>1, <1>2 DEF IsLoop, n
  <2> HIDE DEF n
  <2>3. /\ \A i \in 1 .. Len(A) : \E j \in 1 .. Len(K), l \in 1 .. Len(SERVICES) :
             A[i] = Stage(K[j], SERVICES[l])
        /\ \A j \in 1 .. Len(K), l \in 1 .. Len(SERVICES) :
             \E i \in 1 .. Len(A) : A[i] = Stage(K[j], SERVICES[l])
    BY <2>1 DEF IsLoop
  <2> QED
    BY <2>1, <2>2, <2>3 DEF IsLoop
<1>4. /\ C \in Seq([kind : StageKinds, name : ToSet(ALERT_RULES)]) /\ Len(C) = 2 * m
      /\ \A i \in 1 .. 2 * m : \E j \in 1 .. 2, l \in 1 .. m : C[i] = Stage(L[j], ALERT_RULES[l])
      /\ \A j \in 1 .. 2, l \in 1 .. m : \E i \in 1 .. 2 * m : C[i] = Stage(L[j], ALERT_RULES[l])
  <2>1. IsLoop(C, ALERT_RULES, L, ToSet(ALERT_RULES), StageKinds)
    BY <1>1, <1>2, LoopStages
  <2> HIDE DEF C
  <2> QED
    BY <2>1, <1>2 DEF IsLoop, m
<1>5. /\ B \in Seq(Stages) /\ Len(B) = 5 /\ B[1] = Stage("monitor", Web)
      /\ B[2] = Stage("sourceIds", Unnamed) /\ B[3] = Stage("onCall", Unnamed)
      /\ B[4] = Stage("emails", Unnamed) /\ B[5] = Stage("existingAlerts", Unnamed)
  BY DEF Stages, Stage, Names, StageKinds
<1>6. D \in Seq(Stages) /\ Len(D) = 1 /\ D[1] = Stage("env", Unnamed)
  BY DEF Stages, Stage, Names, StageKinds
<1>7. P = A \o B \o C \o D
  BY DEF Program, K, L
<1> HIDE DEF P, A, B, C, D, n, m
<1>8. A \in Seq(Stages) /\ C \in Seq(Stages)
  <2>1. /\ [kind : StageKinds, name : Services] \subseteq Stages
        /\ [kind : StageKinds, name : ToSet(ALERT_RULES)] \subseteq Stages
    BY DEF Stages, Names
  <2> QED
    BY <1>3, <1>4, <2>1, SeqMonotonic
<1>9. /\ A \o B \in Seq(Stages) /\ Len(A \o B) = 3 * n + 5
      /\ \A i \in 1 .. 3 * n : (A \o B)[i] = A[i]
      /\ \A i \in 1 .. 5 : (A \o B)[3 * n + i] = B[i]
  <2>1. IsAppended(A \o B, A, B, Stages)
    BY <1>8, <1>5, Appended
  <2> QED
    BY <2>1, <1>5, <1>3, <1>1 DEF IsAppended
<1>10. /\ A \o B \o C \in Seq(Stages) /\ Len(A \o B \o C) = 3 * n + 5 + 2 * m
       /\ \A i \in 1 .. 3 * n + 5 : (A \o B \o C)[i] = (A \o B)[i]
       /\ \A i \in 1 .. 2 * m : (A \o B \o C)[3 * n + 5 + i] = C[i]
  <2>1. IsAppended(A \o B \o C, A \o B, C, Stages)
    BY <1>8, <1>9, Appended
  <2> QED
    BY <2>1, <1>9, <1>4, <1>1 DEF IsAppended
<1>11. /\ P \in Seq(Stages) /\ Len(P) = 3 * n + 2 * m + 6
       /\ \A i \in 1 .. 3 * n + 5 + 2 * m : P[i] = (A \o B \o C)[i]
       /\ P[3 * n + 5 + 2 * m + 1] = D[1]
  <2>1. IsAppended(P, A \o B \o C, D, Stages)
    BY <1>10, <1>6, <1>7, Appended
  <2> QED
    BY <2>1, <1>10, <1>6, <1>1 DEF IsAppended
<1>12. /\ \A i \in 1 .. 3 * n : P[i] = A[i]
       /\ \A i \in 1 .. 5 : P[3 * n + i] = B[i]
       /\ \A i \in 1 .. 2 * m : P[3 * n + 5 + i] = C[i]
       /\ P[3 * n + 2 * m + 6] = D[1]
  <2>1. ASSUME NEW i \in 1 .. 3 * n PROVE P[i] = A[i]
    <3>1. i \in 1 .. 3 * n + 5 /\ i \in 1 .. 3 * n + 5 + 2 * m
      BY <1>1
    <3> QED
      BY <3>1, <1>9, <1>10, <1>11
  <2>2. ASSUME NEW i \in 1 .. 5 PROVE P[3 * n + i] = B[i]
    <3>1. 3 * n + i \in 1 .. 3 * n + 5 /\ 3 * n + i \in 1 .. 3 * n + 5 + 2 * m
      BY <1>1
    <3>2. P[3 * n + i] = (A \o B \o C)[3 * n + i]
      BY <3>1, <1>11
    <3> QED
      BY <3>1, <3>2, <1>9, <1>10
  <2>3. ASSUME NEW i \in 1 .. 2 * m PROVE P[3 * n + 5 + i] = C[i]
    <3>1. 3 * n + 5 + i \in 1 .. 3 * n + 5 + 2 * m
      BY <1>1
    <3>2. P[3 * n + 5 + i] = (A \o B \o C)[3 * n + 5 + i]
      BY <3>1, <1>11
    <3> QED
      BY <3>2, <1>10
  <2>4. 3 * n + 2 * m + 6 = 3 * n + 5 + 2 * m + 1
    BY <1>1
  <2> QED
    BY <2>1, <2>2, <2>3, <2>4, <1>11
<1>13. \A i \in 1 .. 3 * n : P[i].kind \in {"source", "app", "monitor"} /\ P[i].name \in Services
  <2> TAKE i \in 1 .. 3 * n
  <2>1. PICK j \in 1 .. 3, l \in 1 .. n : A[i] = Stage(K[j], SERVICES[l])
    BY <1>3
  <2>2. K[j] \in {"source", "app", "monitor"} /\ SERVICES[l] \in Services
    BY <1>1, <1>2 DEF n
  <2> QED
    BY <2>1, <2>2, <1>12 DEF Stage
<1>14. \A i \in 1 .. 2 * m : P[3 * n + 5 + i].kind \in {"exploration", "alert"}
  <2> TAKE i \in 1 .. 2 * m
  <2>1. PICK j \in 1 .. 2, l \in 1 .. m : C[i] = Stage(L[j], ALERT_RULES[l])
    BY <1>4
  <2>2. L[j] \in {"exploration", "alert"}
    BY <1>2
  <2> QED
    BY <2>1, <2>2, <1>12 DEF Stage
<1>15. ASSUME NEW x \in Services, NEW k \in {"source", "app", "monitor"}
       PROVE  \E i \in 1 .. Len(P) : P[i] = Stage(k, x)
  <2>1. PICK l \in 1 .. n : SERVICES[l] = x
    BY <1>1 DEF Services, ToSet, n
  <2>2. PICK j \in 1 .. 3 : K[j] = k
    BY <1>2
  <2>3. PICK i \in 1 .. 3 * n : A[i] = Stage(K[j], SERVICES[l])
    BY <1>3
  <2>4. i \in 1 .. Len(P)
    BY <1>1, <1>11
  <2> QED
    BY <2>1, <2>2, <2>3, <2>4, <1>12
<1>16. ASSUME NEW x \in ToSet(ALERT_RULES), NEW k \in {"exploration", "alert"}
       PROVE  \E i \in 1 .. Len(P) : P[i] = Stage(k, x)
  <2>1. PICK l \in 1 .. m : ALERT_RULES[l] = x
    BY <1>1 DEF ToSet, m
  <2>2. PICK j \in 1 .. 2 : L[j] = k
    BY <1>2
  <2>3. PICK i \in 1 .. 2 * m : C[i] = Stage(L[j], ALERT_RULES[l])
    BY <1>4
  <2>4. 3 * n + 5 + i \in 1 .. Len(P)
    BY <1>1, <1>11
  <2> QED
    BY <2>1, <2>2, <2>3, <2>4, <1>12
<1>17. /\ P[3 * n + 1] = Stage("monitor", Web) /\ P[3 * n + 2] = Stage("sourceIds", Unnamed)
       /\ P[3 * n + 3] = Stage("onCall", Unnamed) /\ P[3 * n + 4] = Stage("emails", Unnamed)
       /\ P[3 * n + 5] = Stage("existingAlerts", Unnamed)
       /\ P[3 * n + 2 * m + 6] = Stage("env", Unnamed)
  BY <1>12, <1>5, <1>6
<1> QED
  BY <1>1, <1>11, <1>13, <1>14, <1>15, <1>16, <1>17 DEF P, n, m

\* The stages of setup-dashboards.ts, in order.
LEMMA DashboardsStages ==
  LET P == Program("dashboards")
      n == Len(SERVICES)
  IN  /\ n \in Nat /\ P \in Seq(Stages) /\ Len(P) = n + 7
      /\ P[1] = Stage("monitors", Unnamed) /\ P[2] = Stage("page", Unnamed)
      /\ P[3] = Stage("resources", Unnamed) /\ P[4] = Stage("sourceIds", Unnamed)
      /\ \A i \in 1 .. n + 1 : P[4 + i].kind = "metrics"
      /\ P[n + 6] = Stage("dashboard", Unnamed) /\ P[n + 7] = Stage("findDashboard", Unnamed)
      /\ \A x \in Services : \E i \in 1 .. Len(P) : P[i] = Stage("metrics", x)
<1> DEFINE P == Program("dashboards")
           n == Len(SERVICES)
           N == SERVICES \o <<EmailInbound>>
           K == <<"metrics">>
           T == Services \union {EmailInbound}
           A == <<Stage("monitors", Unnamed), Stage("page", Unnamed), Stage("resources", Unnamed),
                  Stage("sourceIds", Unnamed)>>
           B == ForEach(N, K)
           C == <<Stage("dashboard", Unnamed), Stage("findDashboard", Unnamed)>>
<1>1. n \in Nat /\ SERVICES \in Seq(Services)
  BY ProvisioningAssumption
<1>2. N \in Seq(T) /\ Len(N) = n + 1 /\ \A l \in 1 .. n : N[l] = SERVICES[l]
  <2>1. SERVICES \in Seq(T) /\ <<EmailInbound>> \in Seq(T) /\ Len(<<EmailInbound>>) = 1
    <3>1. Services \subseteq T
      OBVIOUS
    <3>2. SERVICES \in Seq(T)
      BY <1>1, <3>1, SeqMonotonic
    <3> QED
      BY <3>2
  <2>2. IsAppended(N, SERVICES, <<EmailInbound>>, T)
    BY <2>1, Appended
  <2> QED
    BY <2>1, <2>2 DEF IsAppended
<1>3. K \in Seq(StageKinds) /\ Len(K) = 1 /\ K[1] = "metrics"
  BY DEF StageKinds
<1>4. /\ A \in Seq(Stages) /\ Len(A) = 4 /\ A[1] = Stage("monitors", Unnamed)
      /\ A[2] = Stage("page", Unnamed) /\ A[3] = Stage("resources", Unnamed)
      /\ A[4] = Stage("sourceIds", Unnamed)
  BY DEF Stages, Stage, Names, StageKinds
<1>5. /\ C \in Seq(Stages) /\ Len(C) = 2 /\ C[1] = Stage("dashboard", Unnamed)
      /\ C[2] = Stage("findDashboard", Unnamed)
  BY DEF Stages, Stage, Names, StageKinds
<1>6. P = A \o B \o C
  BY DEF Program
<1> HIDE DEF N, K, P, A, C, n
<1>7. IsLoop(B, N, K, T, StageKinds)
  BY <1>2, <1>3, LoopStages
<1> HIDE DEF B
<1>8. /\ B \in Seq(Stages) /\ Len(B) = n + 1
      /\ \A i \in 1 .. Len(B) : \E j \in 1 .. Len(K), l \in 1 .. Len(N) : B[i] = Stage(K[j], N[l])
      /\ \A j \in 1 .. Len(K), l \in 1 .. Len(N) : \E i \in 1 .. Len(B) : B[i] = Stage(K[j], N[l])
  <2>1. B \in Seq([kind : StageKinds, name : T]) /\ Len(B) = Len(K) * Len(N)
    BY <1>7 DEF IsLoop
  <2>2. [kind : StageKinds, name : T] \subseteq Stages
    BY DEF Stages, Names
  <2>3. B \in Seq(Stages)
    BY <2>1, <2>2, SeqMonotonic
  <2>4. Len(B) = n + 1
    BY <2>1, <1>1, <1>2, <1>3
  <2> QED
    BY <2>3, <2>4, <1>7 DEF IsLoop
<1>9. /\ A \o B \in Seq(Stages) /\ Len(A \o B) = n + 5
      /\ \A i \in 1 .. 4 : (A \o B)[i] = A[i]
      /\ \A i \in 1 .. n + 1 : (A \o B)[4 + i] = B[i]
  <2>1. IsAppended(A \o B, A, B, Stages)
    BY <1>4, <1>8, Appended
  <2>2. Len(A) = 4 /\ Len(B) = n + 1
    BY <1>4, <1>8
  <2> QED
    BY <2>1, <2>2, <1>1 DEF IsAppended
<1>10. /\ P \in Seq(Stages) /\ Len(P) = n + 7
       /\ \A i \in 1 .. n + 5 : P[i] = (A \o B)[i]
       /\ \A i \in 1 .. 2 : P[n + 5 + i] = C[i]
  <2>1. IsAppended(P, A \o B, C, Stages)
    BY <1>5, <1>6, <1>9, Appended
  <2>2. Len(A \o B) = n + 5 /\ Len(C) = 2
    BY <1>5, <1>9
  <2> QED
    BY <2>1, <2>2, <1>1 DEF IsAppended
<1>11. P[1] = A[1] /\ P[2] = A[2] /\ P[3] = A[3] /\ P[4] = A[4]
  BY <1>1, <1>9, <1>10
<1>12. P[n + 6] = C[1] /\ P[n + 7] = C[2]
  <2>1. n + 6 = n + 5 + 1 /\ n + 7 = n + 5 + 2
    BY <1>1
  <2>2. P[n + 5 + 1] = C[1] /\ P[n + 5 + 2] = C[2]
    BY <1>10
  <2> QED
    BY <2>1, <2>2
<1>13. ASSUME NEW i \in 1 .. n + 1 PROVE 4 + i \in 1 .. n + 5 /\ P[4 + i] = B[i]
  <2>1. 4 + i \in 1 .. n + 5
    BY <1>1
  <2>2. P[4 + i] = (A \o B)[4 + i]
    BY <2>1, <1>10
  <2> QED
    BY <2>1, <2>2, <1>9
<1>14. ASSUME NEW i \in 1 .. n + 1 PROVE P[4 + i].kind = "metrics"
  <2>1. PICK j \in 1 .. Len(K), l \in 1 .. Len(N) : B[i] = Stage(K[j], N[l])
    BY <1>8
  <2>2. K[j] = "metrics"
    BY <1>3
  <2> QED
    BY <2>1, <2>2, <1>13 DEF Stage
<1>15. ASSUME NEW x \in Services PROVE \E i \in 1 .. Len(P) : P[i] = Stage("metrics", x)
  <2>1. PICK l \in 1 .. n : SERVICES[l] = x
    BY <1>1 DEF Services, ToSet, n
  <2>2. l \in 1 .. Len(N) /\ N[l] = x /\ 1 \in 1 .. Len(K)
    BY <2>1, <1>1, <1>2, <1>3
  <2>3. PICK i \in 1 .. Len(B) : B[i] = Stage(K[1], N[l])
    BY <2>2, <1>8
  <2>4. P[4 + i] = Stage("metrics", x) /\ 4 + i \in 1 .. Len(P)
    BY <2>2, <2>3, <1>1, <1>3, <1>8, <1>10, <1>13
  <2> QED
    BY <2>4
<1> QED
  BY <1>1, <1>4, <1>5, <1>10, <1>11, <1>12, <1>14, <1>15 DEF P, n

\* The stages of setup-resend-domain.ts, in order.
LEMMA ResendStages ==
  LET P == Program("resend")
  IN  /\ P \in Seq(Stages) /\ Len(P) = 2
      /\ P[1] = Stage("domain", Unnamed) /\ P[2] = Stage("records", Unnamed)
BY DEF Program, Stages, Stage, Names, StageKinds

BetterstackKinds ==
  {"source", "app", "monitor", "sourceIds", "onCall", "emails", "existingAlerts", "exploration",
   "alert", "env"}
OtherKinds ==
  {"monitors", "page", "resources", "sourceIds", "metrics", "dashboard", "findDashboard", "domain",
   "records"}

\* What may come after a stage of this kind.
Before(k, l) ==
  /\ k # "env"
  /\ k = "dashboard" => l = "findDashboard"
  /\ k = "resources" => l \notin {"monitors", "page", "resources"}
  /\ k = "monitors" => l # "monitors"

\* What a stage may be, and what may come before it.
LEMMA StagesInOrder ==
  ASSUME NEW s \in Scripts
  PROVE  /\ Len(Program(s)) \in Nat /\ 1 <= Len(Program(s))
         /\ \A i \in 1 .. Len(Program(s)) :
              /\ Program(s)[i].kind = "source" => Program(s)[i].name \in Services
              /\ Program(s)[i].kind \in IF s = "betterstack" THEN BetterstackKinds ELSE OtherKinds
         /\ \A i, j \in 1 .. Len(Program(s)) :
              i < j => Before(Program(s)[i].kind, Program(s)[j].kind)
<1> DEFINE P == Program(s)
           n == Len(SERVICES)
           m == Len(ALERT_RULES)
<1>1. CASE s = "betterstack"
  <2>1. /\ n \in Nat /\ m \in Nat /\ Len(P) = 3 * n + 2 * m + 6
        /\ \A i \in 1 .. 3 * n : P[i].kind \in {"source", "app", "monitor"} /\ P[i].name \in Services
        /\ P[3 * n + 1] = Stage("monitor", Web) /\ P[3 * n + 2] = Stage("sourceIds", Unnamed)
        /\ P[3 * n + 3] = Stage("onCall", Unnamed) /\ P[3 * n + 4] = Stage("emails", Unnamed)
        /\ P[3 * n + 5] = Stage("existingAlerts", Unnamed)
        /\ \A i \in 1 .. 2 * m : P[3 * n + 5 + i].kind \in {"exploration", "alert"}
        /\ P[3 * n + 2 * m + 6] = Stage("env", Unnamed)
    BY <1>1, BetterstackStages
  <2> HIDE DEF P, n, m
  <2>2. ASSUME NEW i \in 1 .. Len(P)
        PROVE  /\ P[i].kind = "source" => P[i].name \in Services
               /\ P[i].kind \in BetterstackKinds
               /\ i < Len(P) => P[i].kind # "env"
    <3>1. CASE i \in 1 .. 3 * n
      BY <3>1, <2>1 DEF BetterstackKinds
    <3>2. CASE i \in 3 * n + 1 .. 3 * n + 5
      <4>0. n \in Nat
        BY <2>1
      <4>1. i = 3 * n + 1 \/ i = 3 * n + 2 \/ i = 3 * n + 3 \/ i = 3 * n + 4 \/ i = 3 * n + 5
        BY <3>2, <4>0
      <4>2. /\ P[3 * n + 1].kind = "monitor" /\ P[3 * n + 2].kind = "sourceIds"
            /\ P[3 * n + 3].kind = "onCall" /\ P[3 * n + 4].kind = "emails"
            /\ P[3 * n + 5].kind = "existingAlerts"
        BY <2>1 DEF Stage
      <4>3. P[i].kind \in {"monitor", "sourceIds", "onCall", "emails", "existingAlerts"}
        BY <4>1, <4>2
      <4> QED
        BY <4>3 DEF BetterstackKinds
    <3>3. CASE i \in 3 * n + 6 .. 3 * n + 5 + 2 * m
      <4>1. i - (3 * n + 5) \in 1 .. 2 * m /\ 3 * n + 5 + (i - (3 * n + 5)) = i
        BY <3>3, <2>1
      <4>2. P[i].kind \in {"exploration", "alert"}
        BY <4>1, <2>1
      <4> QED
        BY <4>2 DEF BetterstackKinds
    <3>4. CASE i = 3 * n + 2 * m + 6
      BY <3>4, <2>1 DEF Stage, BetterstackKinds
    <3> QED
      BY <2>1, <3>1, <3>2, <3>3, <3>4
  <2>3. Len(P) \in Nat /\ 1 <= Len(P)
    BY <2>1
  <2>4. ASSUME NEW i \in 1 .. Len(P), NEW j \in 1 .. Len(P), i < j
        PROVE  Before(P[i].kind, P[j].kind)
    <3>1. i < Len(P)
      BY <2>3, <2>4
    <3> QED
      BY <3>1, <2>2 DEF Before, BetterstackKinds
  <2> QED
    BY <2>2, <2>3, <2>4, <1>1 DEF P
<1>2. CASE s = "dashboards"
  <2>1. /\ n \in Nat /\ Len(P) = n + 7
        /\ P[1] = Stage("monitors", Unnamed) /\ P[2] = Stage("page", Unnamed)
        /\ P[3] = Stage("resources", Unnamed) /\ P[4] = Stage("sourceIds", Unnamed)
        /\ \A i \in 1 .. n + 1 : P[4 + i].kind = "metrics"
        /\ P[n + 6] = Stage("dashboard", Unnamed) /\ P[n + 7] = Stage("findDashboard", Unnamed)
    BY <1>2, DashboardsStages
  <2> HIDE DEF P, n
  <2>2. ASSUME NEW i \in 1 .. Len(P)
        PROVE  \/ i = 1 /\ P[i].kind = "monitors"
               \/ i = 2 /\ P[i].kind = "page"
               \/ i = 3 /\ P[i].kind = "resources"
               \/ 3 < i /\ i < n + 6 /\ P[i].kind \in {"sourceIds", "metrics"}
               \/ i = n + 6 /\ P[i].kind = "dashboard"
               \/ i = n + 7 /\ P[i].kind = "findDashboard"
    <3>1. CASE i \in 5 .. n + 5
      <4>1. i - 4 \in 1 .. n + 1 /\ 4 + (i - 4) = i
        BY <3>1, <2>1
      <4>2. P[i].kind = "metrics"
        BY <4>1, <2>1
      <4> QED
        BY <4>2, <3>1, <2>1
    <3>2. CASE i \notin 5 .. n + 5
      <4>1. i = 1 \/ i = 2 \/ i = 3 \/ i = 4 \/ i = n + 6 \/ i = n + 7
        BY <3>2, <2>1
      <4>2. /\ P[1].kind = "monitors" /\ P[2].kind = "page" /\ P[3].kind = "resources"
            /\ P[4].kind = "sourceIds" /\ P[n + 6].kind = "dashboard"
            /\ P[n + 7].kind = "findDashboard"
        BY <2>1 DEF Stage
      <4>3. i = 4 => 3 < i /\ i < n + 6 /\ P[i].kind = "sourceIds"
        BY <2>1, <4>2
      <4>4. CASE i = 1 \/ i = 2 \/ i = 3
        BY <4>2, <4>4
      <4>5. CASE i = n + 6 \/ i = n + 7
        BY <4>2, <4>5
      <4> QED
        BY <4>1, <4>3, <4>4, <4>5
    <3> QED
      BY <3>1, <3>2
  <2>3. Len(P) \in Nat /\ 1 <= Len(P)
    BY <2>1
  <2>4. ASSUME NEW i \in 1 .. Len(P), NEW j \in 1 .. Len(P), i < j
        PROVE  Before(P[i].kind, P[j].kind)
    BY <2>1, <2>2, <2>4 DEF Before
  <2>5. \A i \in 1 .. Len(P) : P[i].kind \in OtherKinds /\ P[i].kind # "source"
    BY <2>2 DEF OtherKinds
  <2> QED
    BY <2>3, <2>4, <2>5, <1>2 DEF P
<1>3. CASE s = "resend"
  <2>1. /\ Len(P) = 2 /\ P[1].kind = "domain" /\ P[2].kind = "records"
    BY <1>3, ResendStages DEF Stage
  <2> HIDE DEF P
  <2>2. \A i \in 1 .. Len(P) : P[i].kind \in {"domain", "records"}
    BY <2>1
  <2> QED
    BY <2>1, <2>2, <1>3 DEF P, OtherKinds, Before
<1> QED
  BY <1>1, <1>2, <1>3 DEF Scripts

\* Of a stage and those before it.
LEMMA StagesSoFar ==
  ASSUME NEW s \in Scripts, NEW k \in 1 .. Len(Program(s))
  PROVE  LET P == Program(s)
             kinds == IF s = "betterstack" THEN BetterstackKinds ELSE OtherKinds
         IN  /\ P[k].kind = "source" => P[k].name \in Services
             /\ P[k].kind \in kinds
             /\ \A i \in 1 .. k - 1 : Before(P[i].kind, P[k].kind) /\ P[i].kind \in kinds
<1>1. \A i \in 1 .. k - 1 : i \in 1 .. Len(Program(s)) /\ i < k
  BY StagesInOrder
<1> QED
  BY <1>1, StagesInOrder

-----------------------------------------------------------------------------
(* What a stage promises *)

\* The names the resources of the page shall have: of the monitors listed, ours.
Ours(listed) == {o.name : o \in listed} \ {Stranger}

\* A call of this kind is still to be made.
Owed(todo, kind, name) == \E c \in todo : c.do = "create" /\ c.kind = kind /\ c.name = name
Doomed(todo, o) == \E c \in todo : c.do = "delete" /\ c.id = o.id
Patched(todo, o) == \E c \in todo : c.do = "patch" /\ c.id = o.id

FoundOrCreated == {"app", "monitor", "onCall", "page", "domain"}

\* The objects `all` and the .env `file` are as this stage wants them, but for the calls
\* `todo`, by a run that listed those objects and has these tokens.
Promised(all, file, st, todo, listed, tokens) ==
  /\ st.kind = "source" =>
       \/ Owed(todo, "source", st.name)
       \/ \E o \in all : o.kind = "source" /\ o.name = st.name /\ o.id = tokens[st.name]
  /\ st.kind \in FoundOrCreated =>
       \/ Owed(todo, st.kind, st.name)
       \/ \E o \in all : o.kind = st.kind /\ o.name = st.name
  /\ st.kind = "emails" =>
       \A o \in all : o.kind = "monitor" /\ o.name # Stranger => o.good \/ Patched(todo, o)
  /\ st.kind \in {"exploration", "alert"} =>
       \/ Owed(todo, st.kind, st.name)
       \/ \E o \in all : o.kind = st.kind /\ o.name = st.name /\ (o.good \/ Patched(todo, o))
  /\ st.kind = "env" => file = tokens \/ \E c \in todo : c.do = "env"
  /\ st.kind = "monitors" => Ours(listed) = Ours({o \in all : o.kind = "monitor"})
  /\ st.kind = "resources" =>
       /\ \A o \in all : o.kind = "resource" => o.name \in Ours(listed) \/ Doomed(todo, o)
       /\ \A x \in Ours(listed) :
            \/ Owed(todo, "resource", x)
            \/ \E o \in all : o.kind = "resource" /\ o.name = x
  /\ st.kind = "metrics" =>
       \A m \in METRICS : \/ Owed(todo, "metric", <<st.name, m>>)
                          \/ \E o \in all : o.kind = "metric" /\ o.name = <<st.name, m>>
  /\ st.kind = "records" =>
       \A x \in WantedRecords :
         \/ Owed(todo, "record", x)
         \/ \E o \in all : o.kind = "record" /\ o.name = x /\ (o.good \/ x = DMARC)
  /\ st.kind = "dashboard" =>
       \/ /\ Owed(todo, "dashboard", Unnamed)
          /\ \A o \in all : o.kind = "dashboard" => Doomed(todo, o)
       \/ /\ ~Owed(todo, "dashboard", Unnamed)
          /\ \E d \in all : /\ d.kind = "dashboard" /\ d.good /\ ~Doomed(todo, d)
                            /\ \A o \in all : o.kind = "dashboard" => o = d \/ Doomed(todo, o)

\* What each stage creates.
Makes(kind) ==
  CASE kind = "resources" -> "resource" [] kind = "metrics" -> "metric"
    [] kind = "records" -> "record" [] OTHER -> kind

\* A call such as this stage makes.
Fits(all, st, listed, c) ==
  /\ c.do = "create" =>
       /\ c.kind = Makes(st.kind)
       /\ st.kind = "dashboard" => c = Create(1, "dashboard", Unnamed)
       /\ st.kind = "resources" => c.name \in Ours(listed)
       /\ st.kind = "source" => c.name = st.name
  /\ c.do = "delete" =>
       /\ st.kind \in {"resources", "dashboard"}
       /\ \A o \in all : o.id = c.id =>
            /\ o.kind = Makes(st.kind)
            /\ st.kind = "resources" => o.name \notin Ours(listed)
  /\ c.do = "patch" => st.kind \in {"emails", "exploration", "alert"}
  /\ c.do = "env" => st.kind = "env"
  /\ c.do \in {"create", "delete", "patch", "env"}
  /\ st.kind \notin {"monitors", "existingAlerts", "sourceIds", "findDashboard"}

\* An alert that was listed is still there, and no worse.
StillThere(all, o) ==
  \E p \in all : p.id = o.id /\ p.kind = "alert" /\ p.name = o.name /\ (o.good => p.good)

AloneInv(r) ==
  LET stages == Program(script[r])
  IN  /\ \A q \in Slots : q # r => phase[q] = "idle"
      /\ script[r] \in Scripts
      /\ pc[r] \in 1 .. Len(stages)
      /\ \A i \in 1 .. pc[r] - 1 : Promised(cloud, env, stages[i], {}, seen[r], token[r])
      /\ script[r] = "betterstack" => \A o \in seen[r] : StillThere(cloud, o)
      /\ phase[r] = "call" =>
           /\ Promised(cloud, env, stages[pc[r]], calls[r], seen[r], token[r])
           /\ \A c \in calls[r] : Fits(cloud, stages[pc[r]], seen[r], c)

RunsInv ==
  /\ \A r \in Slots : phase[r] = "idle" => pc[r] = 1 /\ seen[r] = {}
  /\ \A r \in Slots : alone[r] /\ phase[r] # "idle" => AloneInv(r)
  /\ settled # "nothing" => Converged(settled) /\ \A r \in Slots : phase[r] = "idle"

\* Of objects with ids there is one listed first.
LEMMA FirstIsOneOfThem ==
  ASSUME NEW set, set # {}, \A o \in set : o.id \in Nat
  PROVE  First(set) \in set
<1> DEFINE Ids == {o.id : o \in set}
<1>1. Ids \subseteq Nat /\ Ids # {}
  OBVIOUS
<1> HIDE DEF Ids
<1>2. PICK x \in Ids : \A y \in Ids : ~(<<y, x>> \in OpToRel(<, Nat))
  BY <1>1, WFMin, NatLessThanWellFounded
<1>3. PICK o \in set : x = o.id
  BY DEF Ids
<1>4. ASSUME NEW p \in set PROVE o.id <= p.id
  <2>1. p.id \in Ids /\ p.id \in Nat /\ o.id \in Nat
    BY DEF Ids
  <2>2. ~(p.id < o.id)
    BY <1>2, <1>3, <2>1 DEF OpToRel
  <2> QED
    BY <2>1, <2>2
<1> QED
  BY <1>4 DEF First

\* What a stage plans is enough for what it promises.
LEMMA PlanIsEnough ==
  ASSUME PInv, NEW r \in Slots, NEW st, NEW listed, NEW tokens,
         \A o \in seen[r] : st.kind = "alert" => StillThere(cloud, o),
         st.kind = "monitors" => listed = Of("monitor"),
         st.kind = "resources" => listed = seen[r],
         st.kind = "source" /\ Named("source", st.name) # {}
           => tokens[st.name] = First(Named("source", st.name)).id
  PROVE  Promised(cloud, env, st, Plan(r, st), listed, tokens)
<1> DEFINE todo == Plan(r, st)
<1>0. \A o \in cloud : o.id \in Nat
  BY DEF PInv, IdsInv
<1>1. ASSUME st.kind \in {"source"} \union FoundOrCreated
      PROVE  /\ todo = findOrCreate(st.kind, st.name)
             /\ \/ Owed(todo, st.kind, st.name)
                \/ Named(st.kind, st.name) # {}
  <2>1. todo = findOrCreate(st.kind, st.name)
    BY <1>1 DEF Plan, FoundOrCreated
  <2>2. CASE Named(st.kind, st.name) = {}
    <3>1. Create(1, st.kind, st.name) \in todo
      BY <2>1, <2>2 DEF findOrCreate
    <3>2. Owed(todo, st.kind, st.name)
      <4> HIDE DEF todo
      <4> QED
        BY <3>1 DEF Owed, Create
    <3> QED
      BY <2>1, <3>2
  <2> QED
    BY <2>1, <2>2
<1>2. ASSUME st.kind = "source"
      PROVE  \/ Owed(todo, "source", st.name)
             \/ \E o \in cloud : o.kind = "source" /\ o.name = st.name /\ o.id = tokens[st.name]
  <2>1. CASE Named("source", st.name) # {}
    <3>1. First(Named("source", st.name)) \in Named("source", st.name)
      <4>1. \A o \in Named("source", st.name) : o.id \in Nat
        BY <1>0 DEF Named
      <4> QED
        BY <2>1, <4>1, FirstIsOneOfThem
    <3> QED
      BY <3>1, <2>1, <1>2 DEF Named
  <2>2. CASE Named("source", st.name) = {}
    BY <1>1, <1>2, <2>2
  <2> QED
    BY <2>1, <2>2
<1>3. ASSUME st.kind \in FoundOrCreated
      PROVE  \/ Owed(todo, st.kind, st.name)
             \/ \E o \in cloud : o.kind = st.kind /\ o.name = st.name
  <2> HIDE DEF todo
  <2> QED
    BY <1>1, <1>3 DEF Named
<1>4. ASSUME st.kind = "emails", NEW o \in cloud, o.kind = "monitor", o.name # Stranger
      PROVE  o.good \/ Patched(todo, o)
  <2>1. CASE ~o.good
    <3>1. Patch(o) \in emailCalls
      BY <1>4, <2>1 DEF emailCalls, Of
    <3>2. todo = emailCalls
      BY <1>4 DEF Plan
    <3> HIDE DEF todo
    <3> QED
      BY <3>1, <3>2 DEF Patched, Patch
  <2> QED
    BY <2>1
<1>5. ASSUME st.kind = "exploration"
      PROVE  \/ Owed(todo, st.kind, st.name)
             \/ \E o \in cloud : o.kind = st.kind /\ o.name = st.name /\ Patched(todo, o)
  <2>1. todo = explorationCalls(st.name)
    BY <1>5 DEF Plan
  <2> HIDE DEF todo
  <2>2. CASE Named("exploration", st.name) # {}
    <3> DEFINE o == First(Named("exploration", st.name))
    <3>1. o \in Named("exploration", st.name)
      <4>1. \A p \in Named("exploration", st.name) : p.id \in Nat
        BY <1>0 DEF Named
      <4> QED
        BY <2>2, <4>1, FirstIsOneOfThem
    <3>2. Patch(o) \in todo
      BY <2>1, <2>2 DEF explorationCalls
    <3> HIDE DEF o
    <3> QED
      BY <3>1, <3>2, <1>5 DEF Named, Patched, Patch
  <2>3. CASE Named("exploration", st.name) = {}
    BY <2>1, <2>3, <1>5 DEF explorationCalls, Owed, Create
  <2> QED
    BY <2>2, <2>3
<1>6. ASSUME st.kind = "alert"
      PROVE  \/ Owed(todo, st.kind, st.name)
             \/ \E o \in cloud : o.kind = st.kind /\ o.name = st.name /\ (o.good \/ Patched(todo, o))
  <2> DEFINE existing == {o \in seen[r] : o.name = st.name}
             e == First(existing)
  <2>1. todo = alertCalls(r, st.name)
    BY <1>6 DEF Plan
  <2> HIDE DEF todo
  <2>2. CASE existing = {}
    BY <2>1, <2>2, <1>6 DEF alertCalls, Owed, Create
  <2>3. CASE existing # {}
    <3>1. \A o \in existing : o.id \in Nat
      BY <1>0, <1>6 DEF StillThere
    <3>2. e \in existing
      <4> HIDE DEF existing
      <4> QED
        BY <2>3, <3>1, FirstIsOneOfThem
    <3>3. todo = IF e.good THEN {} ELSE {Patch(e)}
      BY <2>1, <2>3 DEF alertCalls
    <3> HIDE DEF e
    <3>4. PICK p \in cloud : p.id = e.id /\ p.kind = "alert" /\ p.name = st.name /\ (e.good => p.good)
      BY <3>2, <1>6 DEF StillThere
    <3>5. p.good \/ Patched(todo, p)
      <4>1. CASE e.good
        BY <4>1, <3>4
      <4>2. CASE ~e.good
        <5>1. Patch(e) \in todo
          BY <4>2, <3>3
        <5> QED
          BY <5>1, <3>4 DEF Patched, Patch
      <4> QED
        BY <4>1, <4>2
    <3> QED
      BY <3>4, <3>5, <1>6
  <2> QED
    BY <2>2, <2>3
<1>7. ASSUME st.kind = "env" PROVE \E c \in todo : c.do = "env"
  <2>1. WriteEnv \in todo
    BY <1>7 DEF Plan
  <2> HIDE DEF todo
  <2> QED
    BY <2>1 DEF WriteEnv
<1>8. ASSUME st.kind = "monitors"
      PROVE  Ours(listed) = Ours({o \in cloud : o.kind = "monitor"})
  BY <1>8 DEF Of
<1>9. ASSUME st.kind = "resources"
      PROVE  /\ \A o \in cloud : o.kind = "resource" => o.name \in Ours(listed) \/ Doomed(todo, o)
             /\ \A x \in Ours(listed) :
                  \/ Owed(todo, "resource", x)
                  \/ \E o \in cloud : o.kind = "resource" /\ o.name = x
  <2>1. todo = {Delete(1, o) : o \in {x \in Of("resource") : x.name \notin Ours(listed)}}
                 \union {Create(2, "resource", x) : x \in {y \in Ours(listed) : Named("resource", y) = {}}}
    BY <1>9 DEF Plan, resourceCalls, Ours, FoundOrCreated
  <2> HIDE DEF todo
  <2>2. ASSUME NEW o \in cloud, o.kind = "resource", o.name \notin Ours(listed)
        PROVE  Doomed(todo, o)
    <3>1. Delete(1, o) \in todo
      BY <2>1, <2>2 DEF Of
    <3> QED
      BY <3>1 DEF Doomed, Delete
  <2>3. ASSUME NEW x \in Ours(listed), ~\E o \in cloud : o.kind = "resource" /\ o.name = x
        PROVE  Owed(todo, "resource", x)
    <3>1. Create(2, "resource", x) \in todo
      BY <2>1, <2>3 DEF Named
    <3> QED
      BY <3>1 DEF Owed, Create
  <2> QED
    BY <2>2, <2>3
<1>10. ASSUME st.kind = "metrics", NEW m \in METRICS
       PROVE  \/ Owed(todo, "metric", <<st.name, m>>)
              \/ \E o \in cloud : o.kind = "metric" /\ o.name = <<st.name, m>>
  <2>1. todo = metricCalls(st.name)
    BY <1>10 DEF Plan
  <2> HIDE DEF todo
  <2>2. CASE <<st.name, m>> \in {o.name : o \in Of("metric")}
    BY <2>2 DEF Of
  <2>3. CASE <<st.name, m>> \notin {o.name : o \in Of("metric")}
    <3>1. Create(1, "metric", <<st.name, m>>) \in todo
      BY <2>1, <2>3 DEF metricCalls
    <3> QED
      BY <3>1 DEF Owed, Create
  <2> QED
    BY <2>2, <2>3
<1>11. ASSUME st.kind = "records", NEW x \in WantedRecords
       PROVE  \/ Owed(todo, "record", x)
              \/ \E o \in cloud : o.kind = "record" /\ o.name = x /\ (o.good \/ x = DMARC)
  <2>1. todo = recordCalls
    BY <1>11 DEF Plan
  <2> HIDE DEF todo
  <2>2. CASE \E o \in Named("record", x) : o.good \/ x = DMARC
    BY <2>2 DEF Named
  <2>3. CASE ~\E o \in Named("record", x) : o.good \/ x = DMARC
    <3>1. Create(1, "record", x) \in todo
      BY <2>1, <2>3 DEF recordCalls
    <3> QED
      BY <3>1 DEF Owed, Create
  <2> QED
    BY <2>2, <2>3
<1>12. ASSUME st.kind = "dashboard"
       PROVE  /\ Owed(todo, "dashboard", Unnamed)
              /\ \A o \in cloud : o.kind = "dashboard" => Doomed(todo, o)
  <2>1. todo = dashboardCalls
    BY <1>12 DEF Plan
  <2> HIDE DEF todo
  <2>2. Create(1, "dashboard", Unnamed) \in todo
    BY <2>1 DEF dashboardCalls
  <2>3. ASSUME NEW o \in cloud, o.kind = "dashboard" PROVE Delete(2, o) \in todo
    BY <2>1, <2>3 DEF dashboardCalls, Of
  <2> QED
    BY <2>2, <2>3 DEF Owed, Doomed, Create, Delete
<1> HIDE DEF todo
<1> QED
  BY <1>2, <1>3, <1>4, <1>5, <1>6, <1>7, <1>8, <1>9, <1>10, <1>11, <1>12 DEF Promised, todo

\* What a stage plans are calls such as it makes.
LEMMA PlanFits ==
  ASSUME PInv, NEW r \in Slots, NEW st, NEW listed, st.kind = "resources" => listed = seen[r],
         NEW c \in Plan(r, st)
  PROVE  Fits(cloud, st, listed, c)
<1>1. CASE st.kind \in {"source", "app", "monitor", "onCall", "page", "domain"}
  <2>1. c = Create(1, st.kind, st.name)
    BY <1>1 DEF Plan, findOrCreate
  <2> QED
    BY <2>1, <1>1 DEF Fits, Create, Makes
<1>2. CASE st.kind = "exploration"
  <2>1. c = Create(1, "exploration", st.name) \/ \E o : c = Patch(o)
    BY <1>2 DEF Plan, explorationCalls
  <2> QED
    BY <2>1, <1>2 DEF Fits, Create, Patch, Makes
<1>3. CASE st.kind = "alert"
  <2>1. c = Create(1, "alert", st.name) \/ \E o : c = Patch(o)
    BY <1>3 DEF Plan, alertCalls
  <2> QED
    BY <2>1, <1>3 DEF Fits, Create, Patch, Makes
<1>4. CASE st.kind = "emails"
  <2>1. \E o : c = Patch(o)
    BY <1>4 DEF Plan, emailCalls
  <2> QED
    BY <2>1, <1>4 DEF Fits, Patch
<1>5. CASE st.kind = "resources"
  <2>1. c \in resourceCalls(r)
    BY <1>5 DEF Plan
  <2>2. CASE \E o \in Of("resource") : c = Delete(1, o) /\ o.name \notin Ours(listed)
    <3>1. PICK o \in Of("resource") : c = Delete(1, o) /\ o.name \notin Ours(listed)
      BY <2>2
    <3>2. o \in cloud /\ o.kind = "resource" /\ c.id = o.id
      BY <3>1 DEF Of, Delete
    <3>3. \A p \in cloud : p.id = c.id => p.kind = o.kind /\ p.name = o.name
      BY <3>2 DEF PInv, IdsInv
    <3> QED
      BY <3>1, <3>2, <3>3, <1>5 DEF Fits, Delete, Makes
  <2>3. CASE \E x \in Ours(listed) : c = Create(2, "resource", x)
    BY <2>3, <1>5 DEF Fits, Create, Makes
  <2> QED
    BY <2>1, <2>2, <2>3, <1>5 DEF resourceCalls, Ours
<1>6. CASE st.kind = "metrics"
  <2>1. \E x : c = Create(1, "metric", x)
    BY <1>6 DEF Plan, metricCalls
  <2> QED
    BY <2>1, <1>6 DEF Fits, Create, Makes
<1>7. CASE st.kind = "dashboard"
  <2>1. c = Create(1, "dashboard", Unnamed) \/ \E o \in Of("dashboard") : c = Delete(2, o)
    BY <1>7 DEF Plan, dashboardCalls
  <2>2. ASSUME NEW o \in Of("dashboard"), c = Delete(2, o) PROVE Fits(cloud, st, listed, c)
    <3>1. o \in cloud /\ o.kind = "dashboard" /\ c.id = o.id
      BY <2>2 DEF Of, Delete
    <3>2. \A p \in cloud : p.id = c.id => p.kind = "dashboard"
      BY <3>1 DEF PInv, IdsInv
    <3> QED
      BY <3>2, <2>2, <1>7 DEF Fits, Delete, Makes
  <2> QED
    BY <2>1, <2>2, <1>7 DEF Fits, Create, Makes
<1>8. CASE st.kind = "records"
  <2>1. \E x : c = Create(1, "record", x)
    BY <1>8 DEF Plan, recordCalls
  <2> QED
    BY <2>1, <1>8 DEF Fits, Create, Makes
<1>9. CASE st.kind = "env"
  <2>1. c = WriteEnv
    BY <1>9 DEF Plan
  <2> QED
    BY <2>1, <1>9 DEF Fits, WriteEnv
<1> QED
  BY <1>1, <1>2, <1>3, <1>4, <1>5, <1>6, <1>7, <1>8, <1>9 DEF Plan

\* Every object of this kind is still there, as what it was and no worse.
Kept(all, after, kind) ==
  \A o \in all : o.kind = kind =>
    \E p \in after : p.id = o.id /\ p.kind = o.kind /\ p.name = o.name /\ (o.good => p.good)
\* Every object of this kind was there before; or it is new and good.
NoneNew(all, after, kind) ==
  \A p \in after : p.kind = kind =>
    \E o \in all : p.id = o.id /\ p.kind = o.kind /\ p.name = o.name /\ (o.good => p.good)
NewAreGood(all, after) ==
  \A p \in after :
    p.good \/ \E o \in all : p.id = o.id /\ p.kind = o.kind /\ p.name = o.name /\ (o.good => p.good)

\* What becomes of the objects, of what was listed and of the tokens leaves a promise of
\* this stage kept.
Leaves(st, all, after, listed, newListed, tokens, newTokens) ==
  /\ st.kind # "env"
  /\ NewAreGood(all, after)
  /\ \A kind : kind \notin {"resource", "dashboard"} => Kept(all, after, kind)
  /\ st.kind = "dashboard" => after = all
  /\ st.kind = "resources" => Kept(all, after, "resource") /\ NoneNew(all, after, "resource")
  /\ st.kind = "monitors" => NoneNew(all, after, "monitor")
  /\ st.kind \in {"monitors", "resources"} => newListed = listed
  /\ st.kind = "source" =>
       \/ newTokens[st.name] = tokens[st.name]
       \/ \E o \in after : o.kind = "source" /\ o.name = st.name /\ o.id = newTokens[st.name]

\* What a stage has promised stays so while the later ones work.
LEMMA PromiseStays ==
  ASSUME NEW all, NEW after, NEW file, NEW newFile, NEW st, NEW listed, NEW newListed,
         NEW tokens, NEW newTokens, Promised(all, file, st, {}, listed, tokens),
         Leaves(st, all, after, listed, newListed, tokens, newTokens)
  PROVE  Promised(after, newFile, st, {}, newListed, newTokens)
<1> USE DEF Leaves
<1>0. \A kind, name : ~Owed({}, kind, name)
  BY DEF Owed
<1>1. \A o : ~Doomed({}, o) /\ ~Patched({}, o)
  BY DEF Doomed, Patched
<1>2. ASSUME st.kind = "source"
      PROVE  \E o \in after : o.kind = "source" /\ o.name = st.name /\ o.id = newTokens[st.name]
  <2>1. PICK o \in all : o.kind = "source" /\ o.name = st.name /\ o.id = tokens[st.name]
    BY <1>0, <1>2 DEF Promised
  <2>2. Kept(all, after, "source")
    OBVIOUS
  <2> QED
    BY <2>1, <2>2, <1>2 DEF Kept
<1>3. ASSUME st.kind \in FoundOrCreated
      PROVE  \E o \in after : o.kind = st.kind /\ o.name = st.name
  <2>1. PICK o \in all : o.kind = st.kind /\ o.name = st.name
    BY <1>0, <1>3 DEF Promised
  <2>2. Kept(all, after, st.kind)
    BY <1>3 DEF FoundOrCreated
  <2> QED
    BY <2>1, <2>2 DEF Kept
<1>4. ASSUME st.kind = "emails", NEW p \in after, p.kind = "monitor", p.name # Stranger
      PROVE  p.good
  <2>1. \A o \in all : o.kind = "monitor" /\ o.name # Stranger => o.good
    BY <1>1, <1>4 DEF Promised
  <2> QED
    BY <2>1, <1>4 DEF NewAreGood
<1>5. ASSUME st.kind \in {"exploration", "alert"}
      PROVE  \E o \in after : o.kind = st.kind /\ o.name = st.name /\ o.good
  <2>1. PICK o \in all : o.kind = st.kind /\ o.name = st.name /\ o.good
    BY <1>0, <1>1, <1>5 DEF Promised
  <2>2. Kept(all, after, st.kind)
    BY <1>5
  <2> QED
    BY <2>1, <2>2 DEF Kept
<1>6. ASSUME st.kind = "monitors"
      PROVE  Ours(newListed) = Ours({o \in after : o.kind = "monitor"})
  <2>1. Ours(listed) = Ours({o \in all : o.kind = "monitor"})
    BY <1>6 DEF Promised
  <2>2. Kept(all, after, "monitor") /\ NoneNew(all, after, "monitor")
    BY <1>6
  <2>3. {o.name : o \in {o \in all : o.kind = "monitor"}}
         = {o.name : o \in {o \in after : o.kind = "monitor"}}
    BY <2>2 DEF Kept, NoneNew
  <2> QED
    BY <2>1, <2>3, <1>6 DEF Ours
<1>7. ASSUME st.kind = "resources"
      PROVE  /\ \A o \in after : o.kind = "resource" => o.name \in Ours(newListed)
             /\ \A x \in Ours(newListed) : \E o \in after : o.kind = "resource" /\ o.name = x
  <2>1. /\ \A o \in all : o.kind = "resource" => o.name \in Ours(listed)
        /\ \A x \in Ours(listed) : \E o \in all : o.kind = "resource" /\ o.name = x
    BY <1>0, <1>1, <1>7 DEF Promised
  <2> QED
    BY <2>1, <1>7 DEF Kept, NoneNew
<1>8. ASSUME st.kind = "metrics", NEW m \in METRICS
      PROVE  \E o \in after : o.kind = "metric" /\ o.name = <<st.name, m>>
  <2>1. PICK o \in all : o.kind = "metric" /\ o.name = <<st.name, m>>
    BY <1>0, <1>8 DEF Promised
  <2>2. Kept(all, after, "metric")
    OBVIOUS
  <2> QED
    BY <2>1, <2>2 DEF Kept
<1>9. ASSUME st.kind = "records", NEW x \in WantedRecords
      PROVE  \E o \in after : o.kind = "record" /\ o.name = x /\ (o.good \/ x = DMARC)
  <2>1. PICK o \in all : o.kind = "record" /\ o.name = x /\ (o.good \/ x = DMARC)
    BY <1>0, <1>9 DEF Promised
  <2>2. Kept(all, after, "record")
    OBVIOUS
  <2> QED
    BY <2>1, <2>2 DEF Kept
<1>10. ASSUME st.kind = "dashboard"
       PROVE  \E d \in after : /\ d.kind = "dashboard" /\ d.good
                               /\ \A o \in after : o.kind = "dashboard" => o = d
  BY <1>0, <1>1, <1>10 DEF Promised
<1> QED
  BY <1>2, <1>3, <1>4, <1>5, <1>6, <1>7, <1>8, <1>9, <1>10 DEF Promised

-----------------------------------------------------------------------------
(* What a call does for it *)

\* What a call changes in the account.
LEMMA CallEffect ==
  ASSUME PInv, NEW r \in Slots, NEW c, NEW st, NEW listed, Fits(cloud, st, listed, c), Done(r, c)
  PROVE  /\ NewAreGood(cloud, cloud')
         /\ \A kind : kind \notin {"resource", "dashboard"} => Kept(cloud, cloud', kind)
         /\ st.kind # "resources" => Kept(cloud, cloud', "resource")
         /\ \A kind : kind # Makes(st.kind) /\ (kind = "resource" => st.kind # "page")
              => NoneNew(cloud, cloud', kind)
<1>1. CASE c.do = "create"
  <2>1. cloud' = cloud \union Created(c)
    BY <1>1 DEF Done
  <2>2. ASSUME NEW o \in Created(c)
        PROVE  o.good /\ (o.kind = c.kind \/ (c.kind = "page" /\ o.kind = "resource"))
    BY DEF Created, Object
  <2>3. c.kind = Makes(st.kind) /\ (c.kind = "page" => st.kind = "page")
    BY <1>1 DEF Fits, Makes
  <2>4. \A kind : Kept(cloud, cloud', kind)
    BY <2>1 DEF Kept
  <2>5. NewAreGood(cloud, cloud')
    BY <2>1, <2>2 DEF NewAreGood
  <2>6. ASSUME NEW kind, kind # Makes(st.kind), kind = "resource" => st.kind # "page"
        PROVE  NoneNew(cloud, cloud', kind)
    BY <2>1, <2>2, <2>3, <2>6 DEF NoneNew
  <2> QED
    BY <2>4, <2>5, <2>6
<1>2. CASE c.do = "delete"
  <2>1. cloud' = {o \in cloud : o.id # c.id}
    BY <1>2 DEF Done
  <2>2. \A o \in cloud : o.id = c.id => o.kind = Makes(st.kind)
    BY <1>2 DEF Fits
  <2>3. st.kind \in {"resources", "dashboard"} /\ Makes(st.kind) \in {"resource", "dashboard"}
    BY <1>2 DEF Fits, Makes
  <2>4. st.kind # "resources" => Makes(st.kind) = "dashboard"
    BY <2>3 DEF Makes
  <2>5. \A kind : kind # Makes(st.kind) => Kept(cloud, cloud', kind)
    BY <2>1, <2>2 DEF Kept
  <2>6. NewAreGood(cloud, cloud') /\ \A kind : NoneNew(cloud, cloud', kind)
    BY <2>1 DEF NewAreGood, NoneNew
  <2> QED
    BY <2>3, <2>4, <2>5, <2>6
<1>3. CASE c.do # "create" /\ c.do # "delete"
  <2>1. cloud' = {Object(o.id, o.kind, o.name, o.good \/ o.id = c.id) : o \in cloud}
    BY <1>3 DEF Done
  <2>2. ASSUME NEW o \in cloud
        PROVE  \E p \in cloud' : p.id = o.id /\ p.kind = o.kind /\ p.name = o.name /\ (o.good => p.good)
    <3> DEFINE p == Object(o.id, o.kind, o.name, o.good \/ o.id = c.id)
    <3>1. p \in cloud'
      BY <2>1
    <3>2. p.id = o.id /\ p.kind = o.kind /\ p.name = o.name /\ (o.good => p.good)
      BY DEF Object
    <3> QED
      BY <3>1, <3>2
  <2>3. ASSUME NEW p \in cloud'
        PROVE  \E o \in cloud : p.id = o.id /\ p.kind = o.kind /\ p.name = o.name /\ (o.good => p.good)
    <3>1. PICK o \in cloud : p = Object(o.id, o.kind, o.name, o.good \/ o.id = c.id)
      BY <2>1
    <3>2. p.id = o.id /\ p.kind = o.kind /\ p.name = o.name /\ (o.good => p.good)
      BY <3>1 DEF Object
    <3> QED
      BY <3>2
  <2> QED
    BY <2>2, <2>3 DEF Kept, NoneNew, NewAreGood
<1> QED
  BY <1>1, <1>2, <1>3

\* A created object is there and good, with the id given last; a patched one is good.
LEMMA CallDelivers ==
  ASSUME PInv, NEW r \in Slots, NEW c, Done(r, c)
  PROVE  /\ c.do = "create" =>
              \E o \in cloud' : o.id = next + 1 /\ o.kind = c.kind /\ o.name = c.name /\ o.good
         /\ c.do = "patch" =>
              \A o \in cloud : o.id = c.id =>
                \E p \in cloud' : p.id = o.id /\ p.kind = o.kind /\ p.name = o.name /\ p.good
<1>1. ASSUME c.do = "create"
      PROVE  \E o \in cloud' : o.id = next + 1 /\ o.kind = c.kind /\ o.name = c.name /\ o.good
  <2>1. Object(next + 1, c.kind, c.name, TRUE) \in cloud'
    BY <1>1 DEF Done, Created
  <2> QED
    BY <2>1 DEF Object
<1>2. ASSUME c.do = "patch", NEW o \in cloud, o.id = c.id
      PROVE  \E p \in cloud' : p.id = o.id /\ p.kind = o.kind /\ p.name = o.name /\ p.good
  <2>1. Object(o.id, o.kind, o.name, o.good \/ o.id = c.id) \in cloud'
    BY <1>2 DEF Done
  <2>2. o.good \/ o.id = c.id <=> TRUE
    BY <1>2
  <2> QED
    BY <2>1, <2>2 DEF Object
<1> QED
  BY <1>1, <1>2

\* The calls left still fit.
LEMMA OthersFit ==
  ASSUME PInv, NEW r \in Slots, NEW c, NEW d, NEW st, NEW listed,
         Fits(cloud, st, listed, c), Fits(cloud, st, listed, d), Done(r, c),
         d.do = "delete" => d.id \in Nat /\ d.id <= next
  PROVE  Fits(cloud', st, listed, d)
<1>1. CASE d.do # "delete"
  BY <1>1 DEF Fits
<1>2. CASE d.do = "delete"
  <2>0. /\ st.kind \in {"resources", "dashboard"}
        /\ \A o \in cloud : o.id = d.id =>
             o.kind = Makes(st.kind) /\ (st.kind = "resources" => o.name \notin Ours(listed))
    BY <1>2 DEF Fits
  <2>1. d.id \in Nat /\ d.id <= next /\ next \in Nat
    BY <1>2 DEF PInv, IdsInv
  <2>2. ASSUME NEW o \in cloud', o.id = d.id
        PROVE  o.kind = Makes(st.kind) /\ (st.kind = "resources" => o.name \notin Ours(listed))
    <3>1. CASE c.do = "create"
      <4>1. cloud' = cloud \union Created(c)
        BY <3>1 DEF Done
      <4>2. ASSUME NEW p \in Created(c) PROVE p.id # d.id
        <5>1. p.id = next + 1 \/ \E m \in Of("monitor") : p.id = next + 1 + m.id
          BY DEF Created, Object
        <5>2. \A m \in Of("monitor") : m.id \in Nat
          BY DEF Of, PInv, IdsInv
        <5> QED
          BY <5>1, <5>2, <2>1
      <4> QED
        BY <4>1, <4>2, <2>2, <2>0
    <3>2. CASE c.do = "delete"
      <4>1. o \in cloud
        BY <3>2 DEF Done
      <4> QED
        BY <4>1, <2>2, <2>0
    <3>3. CASE c.do # "create" /\ c.do # "delete"
      <4>1. c.do \in {"patch", "env"}
        BY <3>3 DEF Fits
      <4> QED
        BY <4>1, <2>0 DEF Fits
    <3> QED
      BY <3>1, <3>2, <3>3
  <2> QED
    BY <1>2, <2>0, <2>2 DEF Fits
<1> QED
  BY <1>1, <1>2

IsTokens(f) == f = [x \in Services |-> f[x]]
TokensAfter(tokens, c, id) ==
  IF c.do = "create" /\ c.kind = "source" THEN [tokens EXCEPT ![c.name] = id] ELSE tokens

AllFit(all, st, listed, todo) == \A d \in todo : Fits(all, st, listed, d)

\* A call made, the stage has promised as much, with that call no longer owed.
LEMMA CallKeepsPromise ==
  ASSUME PInv, NEW r \in Slots, NEW st, NEW todo, NEW c \in todo, NEW listed, NEW newTokens,
         Promised(cloud, env, st, todo, listed, token[r]),
         AllFit(cloud, st, listed, todo), SafeCalls(todo), Done(r, c),
         IsTokens(token[r]), newTokens = TokensAfter(token[r], c, next + 1),
         st.kind = "source" => st.name \in Services
  PROVE  Promised(cloud', env', st, todo \ {c}, listed, newTokens)
<1> DEFINE left == todo \ {c}
<1> USE DEF IsTokens, TokensAfter, AllFit
<1>1. ASSUME NEW k, NEW n, Owed(todo, k, n)
      PROVE  \/ Owed(left, k, n)
             \/ /\ c.do = "create" /\ c.kind = k /\ c.name = n
                /\ \E o \in cloud' : o.id = next + 1 /\ o.kind = k /\ o.name = n /\ o.good
  <2>1. PICK d \in todo : d.do = "create" /\ d.kind = k /\ d.name = n
    BY <1>1 DEF Owed
  <2>2. CASE d = c
    BY <2>1, <2>2, CallDelivers
  <2>3. CASE d # c
    BY <2>1, <2>3 DEF Owed
  <2> QED
    BY <2>2, <2>3
<1>2. ASSUME NEW o \in cloud, Patched(todo, o)
      PROVE  \/ Patched(left, o)
             \/ \E p \in cloud' : p.id = o.id /\ p.kind = o.kind /\ p.name = o.name /\ p.good
  <2>1. PICK d \in todo : d.do = "patch" /\ d.id = o.id
    BY <1>2 DEF Patched
  <2>2. CASE d = c
    BY <2>1, <2>2, CallDelivers
  <2>3. CASE d # c
    BY <2>1, <2>3 DEF Patched
  <2> QED
    BY <2>2, <2>3
<1>3. ASSUME NEW o, Doomed(todo, o)
      PROVE  Doomed(left, o) \/ (c.do = "delete" /\ c.id = o.id)
  BY <1>3 DEF Doomed
<1>4. Fits(cloud, st, listed, c)
  OBVIOUS
<1>5. /\ \A kind : kind \notin {"resource", "dashboard"} => Kept(cloud, cloud', kind)
      /\ st.kind # "resources" => Kept(cloud, cloud', "resource")
      /\ \A kind : kind # Makes(st.kind) /\ (kind = "resource" => st.kind # "page")
           => NoneNew(cloud, cloud', kind)
  BY <1>4, CallEffect
<1>6. ASSUME st.kind = "source"
      PROVE  \/ Owed(left, "source", st.name)
             \/ \E o \in cloud' : o.kind = "source" /\ o.name = st.name /\ o.id = newTokens[st.name]
  <2>1. c.do = "create" => c.kind = "source" /\ c.name = st.name
    BY <1>4, <1>6 DEF Fits, Makes
  <2>2. CASE c.do = "create"
    <3>1. newTokens[st.name] = next + 1
      BY <2>1, <2>2, <1>6
    <3> QED
      BY <2>1, <2>2, <3>1, CallDelivers
  <2>3. CASE c.do # "create"
    <3>1. newTokens = token[r]
      BY <2>3
    <3>2. CASE Owed(todo, "source", st.name)
      BY <3>2, <2>3, <1>1
    <3>3. CASE \E o \in cloud : o.kind = "source" /\ o.name = st.name /\ o.id = token[r][st.name]
      <4>1. Kept(cloud, cloud', "source")
        BY <1>5
      <4> QED
        BY <3>1, <3>3, <4>1 DEF Kept
    <3> QED
      BY <3>2, <3>3, <1>6 DEF Promised
  <2> QED
    BY <2>2, <2>3
<1>7. ASSUME st.kind \in FoundOrCreated
      PROVE  \/ Owed(left, st.kind, st.name)
             \/ \E o \in cloud' : o.kind = st.kind /\ o.name = st.name
  <2>1. Kept(cloud, cloud', st.kind)
    BY <1>5, <1>7 DEF FoundOrCreated
  <2>2. Owed(todo, st.kind, st.name) \/ \E o \in cloud : o.kind = st.kind /\ o.name = st.name
    BY <1>7 DEF Promised
  <2> HIDE DEF left
  <2>3. ASSUME NEW o \in cloud, o.kind = st.kind, o.name = st.name
        PROVE  \E p \in cloud' : p.kind = st.kind /\ p.name = st.name
    BY <2>1, <2>3, Zenon DEF Kept
  <2>4. CASE Owed(todo, st.kind, st.name)
    BY <2>4, <1>1, Zenon
  <2> QED
    BY <2>2, <2>3, <2>4, Zenon
<1>8. ASSUME st.kind = "emails", NEW p \in cloud', p.kind = "monitor", p.name # Stranger
      PROVE  p.good \/ Patched(left, p)
  <2>1. \A o \in cloud : o.kind = "monitor" /\ o.name # Stranger => o.good \/ Patched(todo, o)
    BY <1>8 DEF Promised
  <2>2. c.do = "create" \/ c.do = "patch"
    BY <1>4, <1>8 DEF Fits
  <2>3. CASE c.do = "create"
    <3>1. p \in cloud \/ p \in Created(c)
      BY <2>3 DEF Done
    <3>2. CASE p \in Created(c)
      BY <3>2 DEF Created, Object
    <3>3. CASE p \in cloud
      <4>1. p.good \/ Patched(todo, p)
        BY <3>3, <2>1, <1>8
      <4> QED
        BY <4>1, <2>3 DEF Patched
    <3> QED
      BY <3>1, <3>2, <3>3
  <2>4. CASE c.do = "patch"
    <3>1. PICK o \in cloud : p = Object(o.id, o.kind, o.name, o.good \/ o.id = c.id)
      BY <2>4 DEF Done
    <3>2. p.id = o.id /\ o.kind = "monitor" /\ o.name # Stranger
      BY <3>1, <1>8 DEF Object
    <3>3. o.good \/ o.id = c.id => p.good
      BY <3>1 DEF Object
    <3>4. o.good \/ Patched(todo, o)
      BY <3>2, <2>1
    <3> QED
      BY <3>2, <3>3, <3>4 DEF Patched
  <2> QED
    BY <2>2, <2>3, <2>4
<1>9. ASSUME st.kind \in {"exploration", "alert"}
      PROVE  \/ Owed(left, st.kind, st.name)
             \/ \E o \in cloud' : o.kind = st.kind /\ o.name = st.name /\ (o.good \/ Patched(left, o))
  <2>1. CASE Owed(todo, st.kind, st.name)
    BY <2>1, <1>1
  <2>2. CASE \E o \in cloud : o.kind = st.kind /\ o.name = st.name /\ (o.good \/ Patched(todo, o))
    <3>1. PICK o \in cloud : o.kind = st.kind /\ o.name = st.name /\ (o.good \/ Patched(todo, o))
      BY <2>2
    <3>2. PICK p \in cloud' : p.id = o.id /\ p.kind = o.kind /\ p.name = o.name /\ (o.good => p.good)
      BY <3>1, <1>5, <1>9 DEF Kept
    <3>3. CASE o.good
      BY <3>1, <3>2, <3>3
    <3>4. CASE Patched(left, o)
      <4>1. Patched(left, p)
        BY <3>2, <3>4 DEF Patched
      <4> QED
        BY <3>1, <3>2, <4>1
    <3>5. CASE \E q \in cloud' : q.id = o.id /\ q.kind = o.kind /\ q.name = o.name /\ q.good
      BY <3>1, <3>5
    <3> QED
      BY <3>1, <3>3, <3>4, <3>5, <1>2
  <2> QED
    BY <2>1, <2>2, <1>9 DEF Promised
<1>10. ASSUME st.kind = "env" PROVE env' = newTokens \/ \E d \in left : d.do = "env"
  <2>1. env = token[r] \/ \E d \in todo : d.do = "env"
    BY <1>10 DEF Promised
  <2>2. c.do = "create" => c.kind # "source"
    BY <1>4, <1>10 DEF Fits, Makes
  <2>3. newTokens = token[r]
    BY <2>2
  <2>4. env' = IF c.do = "env" THEN token[r] ELSE env
    BY DEF Done
  <2> QED
    BY <2>1, <2>3, <2>4
<1>11. ASSUME st.kind = "monitors" PROVE FALSE
  BY <1>4, <1>11 DEF Fits
<1>12. ASSUME st.kind = "resources"
       PROVE  /\ \A o \in cloud' : o.kind = "resource" => o.name \in Ours(listed) \/ Doomed(left, o)
              /\ \A x \in Ours(listed) :
                   \/ Owed(left, "resource", x)
                   \/ \E o \in cloud' : o.kind = "resource" /\ o.name = x
  <2>1. /\ \A o \in cloud : o.kind = "resource" => o.name \in Ours(listed) \/ Doomed(todo, o)
        /\ \A x \in Ours(listed) :
             \/ Owed(todo, "resource", x)
             \/ \E o \in cloud : o.kind = "resource" /\ o.name = x
    BY <1>12 DEF Promised
  <2>2. c.do = "create" \/ c.do = "delete"
    BY <1>4, <1>12 DEF Fits
  <2>3. CASE c.do = "create"
    <3>1. c.kind = "resource" /\ c.name \in Ours(listed)
      BY <1>4, <1>12, <2>3 DEF Fits, Makes
    <3>2. cloud' = cloud \union {Object(next + 1, "resource", c.name, TRUE)}
      BY <2>3, <3>1 DEF Done, Created
    <3>3. \A o \in cloud' : o.kind = "resource" => o.name \in Ours(listed) \/ Doomed(left, o)
      <4> TAKE o \in cloud'
      <4>1. CASE o \in cloud
        BY <4>1, <2>1, <2>3, <1>3
      <4>2. CASE o = Object(next + 1, "resource", c.name, TRUE)
        BY <4>2, <3>1 DEF Object
      <4> QED
        BY <4>1, <4>2, <3>2
    <3>4. ASSUME NEW x \in Ours(listed)
          PROVE  \/ Owed(left, "resource", x)
                 \/ \E o \in cloud' : o.kind = "resource" /\ o.name = x
      <4>1. CASE Owed(todo, "resource", x)
        BY <4>1, <1>1
      <4>2. CASE \E o \in cloud : o.kind = "resource" /\ o.name = x
        BY <4>2, <3>2
      <4> QED
        BY <4>1, <4>2, <2>1
    <3> QED
      BY <3>3, <3>4
  <2>4. CASE c.do = "delete"
    <3>1. cloud' = {o \in cloud : o.id # c.id}
      BY <2>4 DEF Done
    <3>2. \A o \in cloud : o.id = c.id => o.name \notin Ours(listed)
      BY <1>4, <1>12, <2>4 DEF Fits
    <3>3. \A o \in cloud' : o.kind = "resource" => o.name \in Ours(listed) \/ Doomed(left, o)
      BY <3>1, <2>1, <1>3
    <3>4. ASSUME NEW x \in Ours(listed)
          PROVE  \/ Owed(left, "resource", x)
                 \/ \E o \in cloud' : o.kind = "resource" /\ o.name = x
      <4>1. CASE Owed(todo, "resource", x)
        BY <4>1, <1>1
      <4>2. CASE \E o \in cloud : o.kind = "resource" /\ o.name = x
        BY <4>2, <3>1, <3>2
      <4> QED
        BY <4>1, <4>2, <2>1
    <3> QED
      BY <3>3, <3>4
  <2> QED
    BY <2>2, <2>3, <2>4
<1>13. ASSUME st.kind = "metrics", NEW m \in METRICS
       PROVE  \/ Owed(left, "metric", <<st.name, m>>)
              \/ \E o \in cloud' : o.kind = "metric" /\ o.name = <<st.name, m>>
  <2>1. Kept(cloud, cloud', "metric")
    BY <1>5
  <2>2. CASE Owed(todo, "metric", <<st.name, m>>)
    BY <2>2, <1>1
  <2>3. CASE \E o \in cloud : o.kind = "metric" /\ o.name = <<st.name, m>>
    BY <2>1, <2>3 DEF Kept
  <2> QED
    BY <2>2, <2>3, <1>13 DEF Promised
<1>14. ASSUME st.kind = "records", NEW x \in WantedRecords
       PROVE  \/ Owed(left, "record", x)
              \/ \E o \in cloud' : o.kind = "record" /\ o.name = x /\ (o.good \/ x = DMARC)
  <2>1. Kept(cloud, cloud', "record")
    BY <1>5
  <2>2. CASE Owed(todo, "record", x)
    BY <2>2, <1>1
  <2>3. CASE \E o \in cloud : o.kind = "record" /\ o.name = x /\ (o.good \/ x = DMARC)
    BY <2>1, <2>3 DEF Kept
  <2> QED
    BY <2>2, <2>3, <1>14 DEF Promised
<1>15. ASSUME st.kind = "dashboard"
       PROVE  \/ /\ Owed(left, "dashboard", Unnamed)
                 /\ \A o \in cloud' : o.kind = "dashboard" => Doomed(left, o)
              \/ /\ ~Owed(left, "dashboard", Unnamed)
                 /\ \E d \in cloud' :
                      /\ d.kind = "dashboard" /\ d.good /\ ~Doomed(left, d)
                      /\ \A o \in cloud' : o.kind = "dashboard" => o = d \/ Doomed(left, o)
  <2>1. c.do = "create" \/ c.do = "delete"
    BY <1>4, <1>15 DEF Fits
  <2>2. \/ /\ Owed(todo, "dashboard", Unnamed)
           /\ \A o \in cloud : o.kind = "dashboard" => Doomed(todo, o)
        \/ /\ ~Owed(todo, "dashboard", Unnamed)
           /\ \E d \in cloud : /\ d.kind = "dashboard" /\ d.good /\ ~Doomed(todo, d)
                               /\ \A o \in cloud : o.kind = "dashboard" => o = d \/ Doomed(todo, o)
    BY <1>15 DEF Promised
  <2>3. CASE c.do = "delete"
    <3>1. cloud' = {o \in cloud : o.id # c.id}
      BY <2>3 DEF Done
    <3>2. \A o \in cloud' : Doomed(todo, o) => Doomed(left, o)
      BY <3>1, <1>3
    <3>3. \A k, n : Owed(todo, k, n) => Owed(left, k, n)
      BY <2>3, <1>1
    <3>4. CASE Owed(todo, "dashboard", Unnamed) /\ \A o \in cloud : o.kind = "dashboard" => Doomed(todo, o)
      BY <3>1, <3>2, <3>3, <3>4
    <3>5. CASE ~Owed(todo, "dashboard", Unnamed)
      <4>1. ~Owed(left, "dashboard", Unnamed)
        BY <3>5 DEF Owed
      <4>2. PICK d \in cloud : /\ d.kind = "dashboard" /\ d.good /\ ~Doomed(todo, d)
                               /\ \A o \in cloud : o.kind = "dashboard" => o = d \/ Doomed(todo, o)
        BY <2>2, <3>5
      <4>3. d \in cloud' /\ ~Doomed(left, d)
        <5>1. d.id # c.id
          BY <4>2, <2>3 DEF Doomed
        <5>2. ~Doomed(left, d)
          BY <4>2 DEF Doomed
        <5> QED
          BY <5>1, <5>2, <4>2, <3>1
      <4>4. \A o \in cloud' : o.kind = "dashboard" => o = d \/ Doomed(left, o)
        BY <4>2, <3>1, <3>2
      <4> HIDE DEF left
      <4> QED
        BY <4>1, <4>2, <4>3, <4>4
    <3> QED
      BY <2>2, <3>4, <3>5
  <2>4. CASE c.do = "create"
    <3> DEFINE new == Object(next + 1, "dashboard", Unnamed, TRUE)
    <3>1. c = Create(1, "dashboard", Unnamed) /\ c.kind = "dashboard" /\ c.name = Unnamed
      BY <1>4, <1>15, <2>4 DEF Fits, Create
    <3>2. cloud' = cloud \union {new}
      BY <2>4, <3>1 DEF Done, Created
    <3>3. new.kind = "dashboard" /\ new.good
      BY DEF Object
    <3>4. Owed(todo, "dashboard", Unnamed)
      BY <2>4, <3>1 DEF Owed
    <3>5. ~Owed(left, "dashboard", Unnamed)
      <4>1. ASSUME NEW d \in left, d.do = "create" PROVE FALSE
        <5>1. d = Create(1, "dashboard", Unnamed)
          BY <4>1, <1>15 DEF Fits
        <5> QED
          BY <5>1, <3>1
      <4> QED
        BY <4>1 DEF Owed
    <3>6. \A o \in cloud : o.kind = "dashboard" => Doomed(left, o)
      BY <3>4, <2>2, <2>4, <1>3
    <3>7. ~Doomed(left, new)
      <4>1. ASSUME NEW d \in left, d.do = "delete" PROVE d.id # new.id
        <5>1. d.id \in Nat /\ d.id <= next /\ next \in Nat
          BY <4>1 DEF SafeCalls, PInv, IdsInv
        <5> QED
          BY <5>1 DEF Object
      <4> HIDE DEF new
      <4> QED
        BY <4>1 DEF Doomed
    <3> HIDE DEF new, left
    <3> QED
      BY <3>2, <3>3, <3>5, <3>6, <3>7
  <2> QED
    BY <2>1, <2>3, <2>4
<1> HIDE DEF left
<1> QED
  BY <1>6, <1>7, <1>8, <1>9, <1>10, <1>11, <1>12, <1>13, <1>14, <1>15 DEF Promised, left

-----------------------------------------------------------------------------
(* Runs that nothing overlaps *)

\* Where every stage has kept its promise, the script has what it wants.
LEMMA PromisesConverge ==
  ASSUME NEW s \in Scripts, NEW listed, NEW tokens,
         \A i \in 1 .. Len(Program(s)) : Promised(cloud', env', Program(s)[i], {}, listed, tokens)
  PROVE  Converged(s)'
<1> DEFINE P == Program(s)
           Holds(k, n) == Promised(cloud', env', Stage(k, n), {}, listed, tokens)
<1>1. ASSUME NEW k, NEW n, \E i \in 1 .. Len(P) : P[i] = Stage(k, n) PROVE Holds(k, n)
  BY <1>1
<1>2. /\ \A k, n : Stage(k, n).kind = k /\ Stage(k, n).name = n
      /\ \A k, n : ~Owed({}, k, n)
      /\ \A o : ~Doomed({}, o) /\ ~Patched({}, o)
  BY DEF Stage, Owed, Doomed, Patched
<1>3. ASSUME NEW k \in FoundOrCreated, NEW n, Holds(k, n)
      PROVE  \E o \in cloud' : o.kind = k /\ o.name = n
  BY <1>3, <1>2 DEF Promised
<1>4. CASE s = "betterstack"
  <2> DEFINE l == Len(SERVICES)
             m == Len(ALERT_RULES)
  <2>1. /\ l \in Nat /\ m \in Nat /\ Len(P) = 3 * l + 2 * m + 6
        /\ P[3 * l + 1] = Stage("monitor", Web) /\ P[3 * l + 3] = Stage("onCall", Unnamed)
        /\ P[3 * l + 4] = Stage("emails", Unnamed) /\ P[3 * l + 2 * m + 6] = Stage("env", Unnamed)
        /\ \A x \in Services, k \in {"source", "app", "monitor"} :
             \E i \in 1 .. Len(P) : P[i] = Stage(k, x)
        /\ \A x \in ToSet(ALERT_RULES), k \in {"exploration", "alert"} :
             \E i \in 1 .. Len(P) : P[i] = Stage(k, x)
    BY <1>4, BetterstackStages
  <2> HIDE DEF P, l, m
  <2>2. /\ 3 * l + 1 \in 1 .. Len(P) /\ 3 * l + 3 \in 1 .. Len(P)
        /\ 3 * l + 4 \in 1 .. Len(P) /\ 3 * l + 2 * m + 6 \in 1 .. Len(P)
    BY <2>1
  <2>3. /\ Holds("monitor", Web) /\ Holds("onCall", Unnamed) /\ Holds("emails", Unnamed)
        /\ Holds("env", Unnamed)
    BY <2>1, <2>2, <1>1
  <2>4. ASSUME NEW x \in Services
        PROVE  /\ \E o \in cloud' : o.kind = "app" /\ o.name = x
               /\ \E o \in cloud' : o.kind = "monitor" /\ o.name = x
               /\ \E o \in cloud' : o.kind = "source" /\ o.name = x /\ o.id = tokens[x]
    <3>1. Holds("source", x) /\ Holds("app", x) /\ Holds("monitor", x)
      BY <2>1, <1>1
    <3>2. \E o \in cloud' : o.kind = "source" /\ o.name = x /\ o.id = tokens[x]
      BY <3>1, <1>2 DEF Promised
    <3> QED
      BY <3>1, <3>2, <1>3 DEF FoundOrCreated
  <2>5. env' = tokens
    BY <2>3, <1>2 DEF Promised
  <2>6. \A o \in cloud' : o.kind = "monitor" /\ o.name # Stranger => o.good
    BY <2>3, <1>2 DEF Promised
  <2>7. ASSUME NEW x \in ToSet(ALERT_RULES)
        PROVE  /\ \E o \in cloud' : o.kind = "alert" /\ o.name = x /\ o.good
               /\ \E o \in cloud' : o.kind = "exploration" /\ o.name = x /\ o.good
    <3>1. Holds("alert", x) /\ Holds("exploration", x)
      BY <2>1, <1>1
    <3> QED
      BY <3>1, <1>2 DEF Promised
  <2>8. /\ \E o \in cloud' : o.kind = "monitor" /\ o.name = Web
        /\ \E o \in cloud' : o.kind = "onCall" /\ o.name = Unnamed
    BY <2>3, <1>3 DEF FoundOrCreated
  <2> HIDE DEF Holds
  <2> QED
    BY <1>4, <2>4, <2>5, <2>6, <2>7, <2>8 DEF Converged, Named, Of
<1>5. CASE s = "dashboards"
  <2> DEFINE l == Len(SERVICES)
  <2>1. /\ l \in Nat /\ Len(P) = l + 7
        /\ P[1] = Stage("monitors", Unnamed) /\ P[3] = Stage("resources", Unnamed)
        /\ P[l + 6] = Stage("dashboard", Unnamed)
        /\ \A x \in Services : \E i \in 1 .. Len(P) : P[i] = Stage("metrics", x)
    BY <1>5, DashboardsStages
  <2> HIDE DEF P, l
  <2>2. 1 \in 1 .. Len(P) /\ 3 \in 1 .. Len(P) /\ l + 6 \in 1 .. Len(P)
    BY <2>1
  <2>3. Holds("monitors", Unnamed) /\ Holds("resources", Unnamed) /\ Holds("dashboard", Unnamed)
    BY <2>1, <2>2, <1>1
  <2>4. ASSUME NEW x \in Services, NEW m \in METRICS
        PROVE  \E o \in cloud' : o.kind = "metric" /\ o.name = <<x, m>>
    <3>1. Holds("metrics", x)
      BY <2>1, <1>1
    <3>2. ASSUME NEW st, st.kind = "metrics", Promised(cloud', env', st, {}, listed, tokens)
          PROVE  \/ Owed({}, "metric", <<st.name, m>>)
                 \/ \E o \in cloud' : o.kind = "metric" /\ o.name = <<st.name, m>>
      <4>1. st.kind = "metrics" =>
              \A y \in METRICS : \/ Owed({}, "metric", <<st.name, y>>)
                                 \/ \E o \in cloud' : o.kind = "metric" /\ o.name = <<st.name, y>>
        BY <3>2, Zenon DEF Promised
      <4> QED
        BY <3>2, <4>1, Zenon
    <3> DEFINE st == Stage("metrics", x)
    <3>3. st.kind = "metrics" /\ st.name = x /\ ~Owed({}, "metric", <<x, m>>)
      BY <1>2
    <3> HIDE DEF st
    <3>4. Promised(cloud', env', st, {}, listed, tokens)
      BY <3>1 DEF st
    <3> QED
      BY <3>2, <3>3, <3>4
  <2>5. Ours(listed) = Ours({o \in cloud' : o.kind = "monitor"})
    BY <2>3, <1>2 DEF Promised
  <2>6. {o.name : o \in {o \in cloud' : o.kind = "resource"}} = Ours(listed)
    <3>1. /\ \A o \in cloud' : o.kind = "resource" => o.name \in Ours(listed)
          /\ \A x \in Ours(listed) : \E o \in cloud' : o.kind = "resource" /\ o.name = x
      BY <2>3, <1>2 DEF Promised
    <3> QED
      BY <3>1
  <2>7. /\ Cardinality({o \in cloud' : o.kind = "dashboard"}) = 1
        /\ \A o \in cloud' : o.kind = "dashboard" => o.good
    <3>1. PICK d \in cloud' : /\ d.kind = "dashboard" /\ d.good
                              /\ \A o \in cloud' : o.kind = "dashboard" => o = d
      BY <2>3, <1>2 DEF Promised
    <3>2. {o \in cloud' : o.kind = "dashboard"} = {d}
      BY <3>1
    <3> QED
      BY <3>1, <3>2, FS_Singleton
  <2> HIDE DEF Holds
  <2>8. /\ Cardinality(Of("dashboard")') = 1 /\ \A o \in Of("dashboard")' : o.good
    BY <2>7 DEF Of
  <2>9. {o.name : o \in Of("resource")'} = {o.name : o \in Of("monitor")'} \ {Stranger}
    BY <2>5, <2>6 DEF Of, Ours
  <2>10. \A x \in Services, m \in METRICS : Named("metric", <<x, m>>)' # {}
    BY <2>4 DEF Named
  <2> QED
    BY <1>5, <2>8, <2>9, <2>10 DEF Converged
<1>6. CASE s = "resend"
  <2>1. P[1] = Stage("domain", Unnamed) /\ P[2] = Stage("records", Unnamed) /\ Len(P) = 2
    BY <1>6, ResendStages
  <2> HIDE DEF P
  <2>2. Holds("domain", Unnamed) /\ Holds("records", Unnamed)
    <3>1. 1 \in 1 .. Len(P) /\ 2 \in 1 .. Len(P)
      BY <2>1
    <3> QED
      BY <3>1, <2>1, <1>1
  <2>3. \E o \in cloud' : o.kind = "domain" /\ o.name = Unnamed
    BY <2>2, <1>3 DEF FoundOrCreated
  <2>4. \A x \in WantedRecords :
          \E o \in cloud' : o.kind = "record" /\ o.name = x /\ (o.good \/ x = DMARC)
    BY <2>2, <1>2 DEF Promised
  <2> HIDE DEF Holds
  <2> QED
    BY <1>6, <2>3, <2>4 DEF Converged, Named, Of
<1> QED
  BY <1>4, <1>5, <1>6 DEF Scripts

\* The memory of the runs is a function of the run.
RunsTypes ==
  /\ pc = [r \in Slots |-> pc[r]] /\ seen = [r \in Slots |-> seen[r]]
  /\ alone = [r \in Slots |-> alone[r]]
  /\ token = [r \in Slots |-> [x \in Services |-> token[r][x]]]

SInv == PInv /\ PhaseOK /\ RunsTypes /\ RunsInv

\* A run that ends, however, leaves nothing to keep.
LEMMA EndedRunsKeep ==
  ASSUME SInv, NEW r \in Slots, phase[r] # "idle", Ends(r), UNCHANGED settled
  PROVE  RunsTypes' /\ RunsInv'
<1>1. /\ phase' = [phase EXCEPT ![r] = "idle"] /\ pc' = [pc EXCEPT ![r] = 1]
      /\ seen' = [seen EXCEPT ![r] = {}] /\ token' = [token EXCEPT ![r] = NoToken]
      /\ alone' = alone /\ settled' = settled
  BY DEF Ends
<1>2. RunsTypes'
  BY <1>1 DEF SInv, RunsTypes, NoToken
<1>3. settled = "nothing"
  BY DEF SInv, RunsInv
<1>4. \A q \in Slots : phase'[q] = IF q = r THEN "idle" ELSE phase[q]
  BY <1>1 DEF SInv, PhaseOK
<1>5. \A q \in Slots : phase'[q] = "idle" => pc'[q] = 1 /\ seen'[q] = {}
  BY <1>1, <1>4 DEF SInv, RunsTypes, RunsInv
<1>6. ASSUME NEW q \in Slots, alone'[q], phase'[q] # "idle" PROVE FALSE
  <2>1. q # r /\ phase[q] # "idle" /\ alone[q]
    BY <1>1, <1>4, <1>6
  <2> QED
    BY <2>1 DEF SInv, RunsInv, AloneInv
<1> QED
  BY <1>1, <1>2, <1>3, <1>5, <1>6 DEF RunsInv

\* A run that others overlapped has nothing to keep either.
LEMMA OverlappedRunsKeep ==
  ASSUME SInv, NEW r \in Slots, phase[r] # "idle", ~alone[r],
         NEW todo, NEW listed, NEW tokens, tokens = [x \in Services |-> tokens[x]],
         GoesOn(r, todo, listed, tokens)
  PROVE  RunsTypes' /\ RunsInv'
<1>1. CASE Ends(r) /\ UNCHANGED settled
  BY <1>1, EndedRunsKeep
<1>2. CASE ~(todo = {} /\ pc[r] = Len(Program(script[r])))
  <2>1. /\ phase' = [phase EXCEPT ![r] = IF todo = {} THEN "list" ELSE "call"]
        /\ pc' = [pc EXCEPT ![r] = IF todo = {} THEN @ + 1 ELSE @]
        /\ seen' = [seen EXCEPT ![r] = listed] /\ token' = [token EXCEPT ![r] = tokens]
        /\ alone' = alone /\ settled' = settled
    BY <1>2 DEF GoesOn
  <2>2. RunsTypes'
    BY <2>1 DEF SInv, RunsTypes
  <2>3. settled = "nothing"
    BY DEF SInv, RunsInv
  <2>4. \A q \in Slots : phase'[q] = IF q = r THEN (IF todo = {} THEN "list" ELSE "call") ELSE phase[q]
    BY <2>1 DEF SInv, PhaseOK
  <2>5. \A q \in Slots : phase'[q] = "idle" => pc'[q] = 1 /\ seen'[q] = {}
    <3> TAKE q \in Slots
    <3>1. CASE q = r
      BY <3>1, <2>4
    <3>2. CASE q # r
      BY <3>2, <2>1, <2>4 DEF SInv, RunsTypes, RunsInv
    <3> QED
      BY <3>1, <3>2
  <2>6. ASSUME NEW q \in Slots, alone'[q], phase'[q] # "idle" PROVE FALSE
    <3>1. q # r /\ phase[q] # "idle" /\ alone[q]
      BY <2>1, <2>4, <2>6
    <3> QED
      BY <3>1 DEF SInv, RunsInv, AloneInv
  <2> QED
    BY <2>1, <2>2, <2>3, <2>5, <2>6 DEF RunsInv
<1> QED
  BY <1>1, <1>2 DEF GoesOn

\* A run alone goes on with what its stage still promises, or is through and has what its
\* script wants.
LEMMA AloneRunGoesOn ==
  ASSUME SInv, NEW r \in Slots, phase[r] # "idle", alone[r],
         NEW todo, NEW listed, NEW tokens, tokens = [x \in Services |-> tokens[x]],
         GoesOn(r, todo, listed, tokens),
         \A i \in 1 .. pc[r] - 1 : Promised(cloud', env', Program(script[r])[i], {}, listed, tokens),
         script[r] = "betterstack" => \A o \in listed : StillThere(cloud', o),
         Promised(cloud', env', Program(script[r])[pc[r]], todo, listed, tokens),
         \A c \in todo : Fits(cloud', Program(script[r])[pc[r]], listed, c)
  PROVE  RunsTypes' /\ RunsInv'
<1> DEFINE P == Program(script[r])
           k == pc[r]
<1>1. /\ AloneInv(r) /\ settled = "nothing"
      /\ script[r] \in Scripts /\ k \in 1 .. Len(P)
      /\ \A q \in Slots : q # r => phase[q] = "idle"
  BY DEF SInv, RunsInv, AloneInv
<1>2. Len(P) \in Nat /\ k \in Nat
  BY <1>1, StagesInOrder
<1>3. CASE todo = {} /\ k = Len(P)
  <2>1. /\ phase' = [phase EXCEPT ![r] = "idle"] /\ pc' = [pc EXCEPT ![r] = 1]
        /\ seen' = [seen EXCEPT ![r] = {}] /\ token' = [token EXCEPT ![r] = NoToken]
        /\ alone' = alone /\ settled' = script[r]
    BY <1>3 DEF GoesOn, Ends
  <2>2. RunsTypes'
    BY <2>1 DEF SInv, RunsTypes, NoToken
  <2>3. \A q \in Slots : phase'[q] = "idle"
    BY <2>1, <1>1 DEF SInv, PhaseOK
  <2>4. \A q \in Slots : pc'[q] = 1 /\ seen'[q] = {}
    BY <2>1, <1>1 DEF SInv, RunsTypes, RunsInv
  <2>5. Converged(settled)'
    <3>1. PICK s \in Scripts : s = script[r]
      BY <1>1
    <3>2. \A i \in 1 .. Len(Program(s)) : i \in 1 .. k - 1 \/ i = k
      BY <1>2, <1>3, <3>1
    <3>3. \A i \in 1 .. Len(Program(s)) : Promised(cloud', env', Program(s)[i], {}, listed, tokens)
      BY <3>1, <3>2, <1>3
    <3>4. Converged(s)'
      BY <3>3, PromisesConverge
    <3> QED
      BY <3>1, <3>4, <2>1 DEF Converged
  <2> QED
    BY <2>1, <2>2, <2>3, <2>4, <2>5 DEF RunsInv
<1>4. CASE ~(todo = {} /\ k = Len(P))
  <2>1. /\ phase' = [phase EXCEPT ![r] = IF todo = {} THEN "list" ELSE "call"]
        /\ pc' = [pc EXCEPT ![r] = IF todo = {} THEN @ + 1 ELSE @]
        /\ seen' = [seen EXCEPT ![r] = listed] /\ token' = [token EXCEPT ![r] = tokens]
        /\ calls' = [calls EXCEPT ![r] = todo]
        /\ script' = script /\ alone' = alone /\ settled' = settled
    BY <1>4 DEF GoesOn
  <2>2. RunsTypes'
    BY <2>1 DEF SInv, RunsTypes
  <2>3. /\ phase'[r] = (IF todo = {} THEN "list" ELSE "call")
        /\ pc'[r] = (IF todo = {} THEN k + 1 ELSE k)
        /\ seen'[r] = listed /\ token'[r] = tokens /\ calls'[r] = todo
    BY <2>1 DEF SInv, PhaseOK, RunsTypes, PInv, CallsInv
  <2>4. \A q \in Slots : q # r => phase'[q] = "idle"
    BY <2>1, <1>1 DEF SInv, PhaseOK
  <2>5. \A q \in Slots : phase'[q] = "idle" => pc'[q] = 1 /\ seen'[q] = {}
    <3> TAKE q \in Slots
    <3>1. CASE q = r
      BY <3>1, <2>3
    <3>2. CASE q # r
      BY <3>2, <2>1, <1>1 DEF SInv, RunsTypes, RunsInv
    <3> QED
      BY <3>1, <3>2
  <2> HIDE DEF P, k
  <2>6. pc'[r] \in 1 .. Len(P)
    BY <1>1, <1>2, <1>4, <2>3
  <2>7. \A i \in 1 .. pc'[r] - 1 : Promised(cloud', env', P[i], {}, listed, tokens)
    <3>1. CASE todo = {}
      <4>1. \A i \in 1 .. pc'[r] - 1 : i \in 1 .. k - 1 \/ i = k
        BY <3>1, <2>3, <1>2
      <4> QED
        BY <4>1, <3>1 DEF P, k
    <3>2. CASE todo # {}
      BY <3>2, <2>3 DEF P, k
    <3> QED
      BY <3>1, <3>2
  <2>8. phase'[r] = "call" =>
          /\ Promised(cloud', env', P[pc'[r]], calls'[r], listed, tokens)
          /\ \A c \in calls'[r] : Fits(cloud', P[pc'[r]], listed, c)
    BY <2>3 DEF P, k
  <2>9. script'[r] = script[r] /\ P = Program(script'[r])
    BY <2>1 DEF P
  <2>10. AloneInv(r)'
    BY <1>1, <2>3, <2>4, <2>6, <2>7, <2>8, <2>9 DEF AloneInv
  <2>11. \A q \in Slots : alone'[q] /\ phase'[q] # "idle" => AloneInv(q)'
    BY <2>4, <2>10
  <2> QED
    BY <1>1, <2>1, <2>2, <2>5, <2>11 DEF RunsInv
<1> QED
  BY <1>3, <1>4

\* A run alone lists: what its earlier stages promised stays, and its plan is enough.
LEMMA AloneRunLists ==
  ASSUME SInv, NEW r \in Slots, phase[r] = "list", alone[r],
         NEW todo, NEW listed, NEW tokens, NEW st,
         st = Program(script[r])[pc[r]], todo = Plan(r, st),
         listed = IF st.kind = "monitors" THEN Of("monitor")
                  ELSE IF st.kind = "existingAlerts" THEN Of("alert") ELSE seen[r],
         tokens = IF st.kind = "source" /\ Named("source", st.name) # {}
                    THEN [token[r] EXCEPT ![st.name] = First(Named("source", st.name)).id]
                    ELSE token[r],
         GoesOn(r, todo, listed, tokens), UNCHANGED account
  PROVE  RunsTypes' /\ RunsInv'
<1> DEFINE P == Program(script[r])
           k == pc[r]
<1>1. /\ script[r] \in Scripts /\ k \in 1 .. Len(P)
      /\ \A i \in 1 .. k - 1 : Promised(cloud, env, P[i], {}, seen[r], token[r])
      /\ script[r] = "betterstack" => \A o \in seen[r] : StillThere(cloud, o)
  BY DEF SInv, RunsInv, AloneInv
<1>2. /\ st.kind = "source" => st.name \in Services
      /\ st.kind \in IF script[r] = "betterstack" THEN BetterstackKinds ELSE OtherKinds
      /\ \A i \in 1 .. k - 1 :
           /\ Before(P[i].kind, st.kind)
           /\ P[i].kind \in IF script[r] = "betterstack" THEN BetterstackKinds ELSE OtherKinds
  BY <1>1, StagesSoFar
<1>3. token[r] = [x \in Services |-> token[r][x]]
  BY DEF SInv, RunsTypes
<1>4. tokens = [x \in Services |-> tokens[x]]
  BY <1>3
<1>5. cloud' = cloud /\ env' = env
  BY DEF account
<1>6. script[r] = "betterstack" => \A o \in listed : StillThere(cloud, o)
  <2>1. \A o \in Of("alert") : StillThere(cloud, o)
    BY DEF StillThere, Of
  <2>2. script[r] = "betterstack" => st.kind # "monitors"
    BY <1>2 DEF BetterstackKinds
  <2> QED
    BY <1>1, <2>1, <2>2
<1>t. st.kind = "source" /\ Named("source", st.name) # {}
        => tokens[st.name] = First(Named("source", st.name)).id
  BY <1>2, <1>3
<1>7. Promised(cloud, env, st, todo, listed, tokens)
  <2>1. \A o \in seen[r] : st.kind = "alert" => StillThere(cloud, o)
    BY <1>1, <1>2 DEF OtherKinds
  <2>2. st.kind = "resources" => listed = seen[r]
    OBVIOUS
  <2> QED
    BY <1>t, <2>1, <2>2, PlanIsEnough DEF SInv
<1>8. \A c \in todo : Fits(cloud, st, listed, c)
  BY PlanFits DEF SInv
<1>9. ASSUME NEW i \in 1 .. k - 1 PROVE Promised(cloud, env, P[i], {}, listed, tokens)
  <2>1. Promised(cloud, env, P[i], {}, seen[r], token[r])
    BY <1>1
  <2>2. NewAreGood(cloud, cloud) /\ \A kind : Kept(cloud, cloud, kind) /\ NoneNew(cloud, cloud, kind)
    BY DEF NewAreGood, Kept, NoneNew
  <2>3. P[i].kind # "env"
    BY <1>2 DEF Before
  <2>4. P[i].kind \in {"monitors", "resources"} => listed = seen[r]
    <3>1. P[i].kind \in {"monitors", "resources"} => script[r] # "betterstack"
      BY <1>2 DEF BetterstackKinds
    <3>2. script[r] # "betterstack" => st.kind # "existingAlerts"
      BY <1>2 DEF OtherKinds
    <3>3. P[i].kind \in {"monitors", "resources"} => st.kind # "monitors"
      BY <1>2 DEF Before
    <3> QED
      BY <3>1, <3>2, <3>3
  <2>5. P[i].kind = "source" =>
          \/ tokens[P[i].name] = token[r][P[i].name]
          \/ \E o \in cloud : o.kind = "source" /\ o.name = P[i].name /\ o.id = tokens[P[i].name]
    <3>1. CASE st.kind = "source" /\ Named("source", st.name) # {} /\ P[i].name = st.name
      <4>1. First(Named("source", st.name)) \in Named("source", st.name)
        <5>1. \A o \in Named("source", st.name) : o.id \in Nat
          BY DEF Named, SInv, PInv, IdsInv
        <5> QED
          BY <3>1, <5>1, FirstIsOneOfThem
      <4>2. tokens[st.name] = First(Named("source", st.name)).id
        BY <3>1, <1>t
      <4> QED
        BY <4>1, <4>2, <3>1 DEF Named
    <3>2. CASE ~(st.kind = "source" /\ Named("source", st.name) # {} /\ P[i].name = st.name)
      BY <3>2, <1>3, SMTT(40)
    <3> QED
      BY <3>1, <3>2
  <2> DEFINE e == P[i]
  <2> HIDE DEF e
  <2>6. Leaves(e, cloud, cloud, seen[r], listed, token[r], tokens)
    BY <2>2, <2>3, <2>4, <2>5 DEF Leaves, e
  <2>7. Promised(cloud, env, e, {}, listed, tokens)
    BY <2>1, <2>6, PromiseStays DEF e
  <2> QED
    BY <2>7 DEF e
<1>10. /\ \A i \in 1 .. k - 1 : Promised(cloud', env', P[i], {}, listed, tokens)
       /\ Promised(cloud', env', P[k], todo, listed, tokens)
       /\ \A c \in todo : Fits(cloud', P[k], listed, c)
       /\ script[r] = "betterstack" => \A o \in listed : StillThere(cloud', o)
  <2>1. P[k] = st
    OBVIOUS
  <2> HIDE DEF P, k
  <2>2. \A i \in 1 .. k - 1 : Promised(cloud', env', P[i], {}, listed, tokens)
    BY <1>5, <1>9
  <2>3. /\ Promised(cloud', env', P[k], todo, listed, tokens)
        /\ \A c \in todo : Fits(cloud', P[k], listed, c)
    BY <1>5, <1>7, <1>8, <2>1
  <2>4. script[r] = "betterstack" => \A o \in listed : StillThere(cloud', o)
    BY <1>5, <1>6
  <2> QED
    BY <2>2, <2>3, <2>4
<1> QED
  BY <1>4, <1>10, AloneRunGoesOn, SMTT(40)

\* A run alone makes a call: the earlier stages keep what they promised.
LEMMA AloneRunCalls ==
  ASSUME SInv, NEW r \in Slots, phase[r] = "call", alone[r], NEW c \in calls[r],
         NEW tokens,
         tokens = IF c.do = "create" /\ c.kind = "source"
                    THEN [token[r] EXCEPT ![c.name] = next + 1] ELSE token[r],
         Done(r, c), GoesOn(r, calls[r] \ {c}, seen[r], tokens)
  PROVE  RunsTypes' /\ RunsInv'
<1> DEFINE P == Program(script[r])
           k == pc[r]
           st == P[k]
<1>1. /\ script[r] \in Scripts /\ k \in 1 .. Len(P)
      /\ \A i \in 1 .. k - 1 : Promised(cloud, env, P[i], {}, seen[r], token[r])
      /\ script[r] = "betterstack" => \A o \in seen[r] : StillThere(cloud, o)
      /\ Promised(cloud, env, st, calls[r], seen[r], token[r])
      /\ \A d \in calls[r] : Fits(cloud, st, seen[r], d)
  BY DEF SInv, RunsInv, AloneInv
<1>2. /\ st.kind = "source" => st.name \in Services
      /\ st.kind \in IF script[r] = "betterstack" THEN BetterstackKinds ELSE OtherKinds
      /\ \A i \in 1 .. k - 1 :
           /\ Before(P[i].kind, st.kind)
           /\ P[i].kind \in IF script[r] = "betterstack" THEN BetterstackKinds ELSE OtherKinds
  BY <1>1, StagesSoFar
<1>3. token[r] = [x \in Services |-> token[r][x]]
  BY DEF SInv, RunsTypes
<1>4. tokens = [x \in Services |-> tokens[x]]
  BY <1>3
<1>5. Fits(cloud, st, seen[r], c)
  BY <1>1
<1>6. /\ NewAreGood(cloud, cloud')
      /\ \A kind : kind \notin {"resource", "dashboard"} => Kept(cloud, cloud', kind)
      /\ st.kind # "resources" => Kept(cloud, cloud', "resource")
      /\ \A kind : kind # Makes(st.kind) /\ (kind = "resource" => st.kind # "page")
           => NoneNew(cloud, cloud', kind)
  <2> HIDE DEF st
  <2> QED
    BY <1>5, CallEffect DEF SInv
<1>7. SafeCalls(calls[r])
  BY DEF SInv, PInv, CallsInv
<1>8. Promised(cloud', env', st, calls[r] \ {c}, seen[r], tokens)
  <2>1. /\ Promised(cloud, env, st, calls[r], seen[r], token[r])
        /\ AllFit(cloud, st, seen[r], calls[r])
        /\ st.kind = "source" => st.name \in Services
    BY <1>1, <1>2 DEF AllFit
  <2>2. PInv
    BY DEF SInv
  <2>3. IsTokens(token[r]) /\ tokens = TokensAfter(token[r], c, next + 1)
    BY <1>3 DEF IsTokens, TokensAfter
  <2> HIDE DEF st
  <2> QED
    BY <2>1, <2>2, <2>3, <1>7, CallKeepsPromise
<1>9. \A d \in calls[r] \ {c} : Fits(cloud', st, seen[r], d)
  <2> TAKE d \in calls[r] \ {c}
  <2>1. d.do = "delete" => d.id \in Nat /\ d.id <= next
    BY <1>7 DEF SafeCalls
  <2> HIDE DEF st
  <2> QED
    BY <1>1, <1>5, <2>1, OthersFit DEF SInv
<1>10. script[r] = "betterstack" => \A o \in seen[r] : StillThere(cloud', o)
  <2>1. Kept(cloud, cloud', "alert")
    BY <1>6
  <2> QED
    BY <1>1, <2>1 DEF StillThere, Kept
<1>11. ASSUME NEW i \in 1 .. k - 1 PROVE Promised(cloud', env', P[i], {}, seen[r], tokens)
  <2> DEFINE e == P[i]
  <2>1. Promised(cloud, env, e, {}, seen[r], token[r])
    BY <1>1
  <2>2. e.kind # "env"
    BY <1>2 DEF Before
  <2>3. e.kind # "dashboard"
    BY <1>2, <1>5 DEF Before, Fits
  <2>4. e.kind = "resources" => Kept(cloud, cloud', "resource") /\ NoneNew(cloud, cloud', "resource")
    <3>1. ASSUME e.kind = "resources" PROVE st.kind \in OtherKinds /\ st.kind \notin {"page", "resources"}
      BY <3>1, <1>2 DEF BetterstackKinds, Before
    <3>2. st.kind \in OtherKinds /\ st.kind \notin {"page", "resources"} => "resource" # Makes(st.kind)
      BY DEF OtherKinds, Makes
    <3> QED
      BY <3>1, <3>2, <1>6
  <2>5. e.kind = "monitors" => NoneNew(cloud, cloud', "monitor")
    <3>1. e.kind = "monitors" => st.kind \in OtherKinds
      BY <1>2 DEF BetterstackKinds
    <3>2. st.kind \in OtherKinds => "monitor" # Makes(st.kind)
      BY DEF OtherKinds, Makes
    <3> QED
      BY <3>1, <3>2, <1>6
  <2>6. e.kind = "source" =>
          \/ tokens[e.name] = token[r][e.name]
          \/ \E o \in cloud' : o.kind = "source" /\ o.name = e.name /\ o.id = tokens[e.name]
    <3>1. CASE c.do = "create" /\ c.kind = "source" /\ c.name = e.name
      <4>1. \E o \in cloud' : o.id = next + 1 /\ o.kind = "source" /\ o.name = e.name
        <5> HIDE DEF e
        <5> QED
          BY <3>1, CallDelivers DEF SInv
      <4>2. CASE e.name \in Services
        BY <4>1, <4>2, <3>1, <1>3
      <4>3. CASE e.name \notin Services
        BY <4>3, <3>1, <1>3
      <4> QED
        BY <4>2, <4>3
    <3>2. CASE ~(c.do = "create" /\ c.kind = "source" /\ c.name = e.name)
      BY <3>2, <1>3
    <3> QED
      BY <3>1, <3>2
  <2> HIDE DEF e
  <2>7. Leaves(e, cloud, cloud', seen[r], seen[r], token[r], tokens)
    BY <2>2, <2>3, <2>4, <2>5, <2>6, <1>6 DEF Leaves
  <2>8. Promised(cloud', env', e, {}, seen[r], tokens)
    BY <2>1, <2>7, PromiseStays
  <2> QED
    BY <2>8 DEF e
<1> QED
  BY <1>4, <1>8, <1>9, <1>10, <1>11, AloneRunGoesOn

\* No run has begun, so there is nothing to keep.
LEMMA RunsInvInit == ASSUME Init PROVE SInv
<1>1. PInv
  BY InitEstablishes
<1>2. PhaseOK
  BY DEF Init, PhaseOK
<1>3. RunsTypes
  BY DEF Init, RunsTypes, NoToken
<1>4. RunsInv
  BY DEF Init, RunsInv
<1> QED
  BY <1>1, <1>2, <1>3, <1>4 DEF SInv

\* A run that goes on does so as it may, whether others overlapped it or not.
LEMMA StepKeepsRuns == ASSUME SInv, [Next]_vars PROVE SInv'
<1>1. PInv' /\ PhaseOK'
  BY StepKeepsInvariant, StepKeepsPhase DEF SInv
<1>2. ASSUME NEW r \in Slots, NEW s \in Scripts, Begin(r, s) PROVE RunsTypes' /\ RunsInv'
  <2>1. /\ phase[r] = "idle" /\ script' = [script EXCEPT ![r] = s] /\ phase' = [phase EXCEPT ![r] = "list"]
        /\ alone' = [q \in Slots |-> q = r /\ \A p \in Slots : phase[p] = "idle"]
        /\ settled' = "nothing"
        /\ UNCHANGED <<cloud, env, pc, calls, seen, token>>
    BY <1>2 DEF Begin, account
  <2>2. RunsTypes'
    BY <2>1 DEF SInv, RunsTypes
  <2>3. \A q \in Slots : phase'[q] = IF q = r THEN "list" ELSE phase[q]
    BY <2>1 DEF SInv, PhaseOK
  <2>4. \A q \in Slots : phase'[q] = "idle" => pc'[q] = 1 /\ seen'[q] = {}
    BY <2>1, <2>3 DEF SInv, RunsInv
  <2>5. ASSUME NEW q \in Slots, alone'[q] PROVE AloneInv(q)'
    <3>1. q = r /\ \A p \in Slots : phase[p] = "idle"
      BY <2>1, <2>5
    <3>2. script'[r] = s /\ pc'[r] = 1 /\ seen'[r] = {} /\ phase'[r] = "list"
      BY <2>1, <3>1 DEF SInv, PhaseOK, RunsInv
    <3>3. \A p \in Slots : p # r => phase'[p] = "idle"
      BY <2>3, <3>1
    <3>4. 1 \in 1 .. Len(Program(s))
      BY StagesInOrder
    <3>5. AloneInv(r)'
      BY <3>2, <3>3, <3>4 DEF AloneInv
    <3> QED
      BY <3>1, <3>5
  <2> QED
    BY <2>1, <2>2, <2>4, <2>5 DEF RunsInv
<1>3. ASSUME NEW r \in Slots, phase[r] # "idle", Dies(r) PROVE RunsTypes' /\ RunsInv'
  BY <1>3, EndedRunsKeep DEF Dies
<1>4. ASSUME NEW r \in Slots, List(r) PROVE RunsTypes' /\ RunsInv'
  <2> DEFINE st == Program(script[r])[pc[r]]
             listed == IF st.kind = "monitors" THEN Of("monitor")
                       ELSE IF st.kind = "existingAlerts" THEN Of("alert") ELSE seen[r]
             tokens == IF st.kind = "source" /\ Named("source", st.name) # {}
                         THEN [token[r] EXCEPT ![st.name] = First(Named("source", st.name)).id]
                         ELSE token[r]
  <2>1. phase[r] = "list"
    BY <1>4 DEF List
  <2>2. CASE Dies(r)
    BY <2>1, <2>2, <1>3
  <2>3. CASE GoesOn(r, Plan(r, st), listed, tokens) /\ UNCHANGED account
    <3>1. IsTokens(tokens)
      BY DEF SInv, RunsTypes, IsTokens
    <3>2. CASE alone[r]
      BY <2>1, <2>3, <3>2, AloneRunLists
    <3>3. CASE ~alone[r]
      <4> HIDE DEF tokens, listed, st
      <4> QED
        BY <2>1, <2>3, <3>1, <3>3, OverlappedRunsKeep DEF IsTokens
    <3> QED
      BY <3>2, <3>3
  <2> QED
    BY <1>4, <2>2, <2>3 DEF List
<1>5. ASSUME NEW r \in Slots, Call(r) PROVE RunsTypes' /\ RunsInv'
  <2>1. phase[r] = "call"
    BY <1>5 DEF Call
  <2>2. PICK c \in calls[r] :
          \/ Dies(r)
          \/ /\ Done(r, c)
             /\ GoesOn(r, calls[r] \ {c}, seen[r],
                       IF c.do = "create" /\ c.kind = "source"
                         THEN [token[r] EXCEPT ![c.name] = next + 1] ELSE token[r])
    BY <1>5 DEF Call
  <2>3. CASE Dies(r)
    BY <2>1, <2>3, <1>3
  <2>4. CASE ~Dies(r)
    <3> DEFINE tokens == IF c.do = "create" /\ c.kind = "source"
                           THEN [token[r] EXCEPT ![c.name] = next + 1] ELSE token[r]
    <3>1. Done(r, c) /\ GoesOn(r, calls[r] \ {c}, seen[r], tokens)
      BY <2>2, <2>4
    <3>2. IsTokens(tokens)
      BY DEF SInv, RunsTypes, IsTokens
    <3>3. CASE alone[r]
      BY <2>1, <3>1, <3>3, AloneRunCalls
    <3>4. CASE ~alone[r]
      <4> HIDE DEF tokens
      <4> QED
        BY <2>1, <3>1, <3>2, <3>4, OverlappedRunsKeep DEF IsTokens
    <3> QED
      BY <3>3, <3>4
  <2> QED
    BY <2>3, <2>4
<1>6. ASSUME NEW r \in Slots, Fails(r) PROVE RunsTypes' /\ RunsInv'
  BY <1>6, <1>3 DEF Fails
<1>7. ASSUME UNCHANGED vars PROVE RunsTypes' /\ RunsInv'
  <2>1. UNCHANGED <<cloud, env, script, phase, pc, calls, seen, token, alone, settled>>
    BY <1>7 DEF vars, account
  <2>2. RunsTypes'
    BY <2>1 DEF SInv, RunsTypes
  <2>3. \A q \in Slots : AloneInv(q)' <=> AloneInv(q)
    BY <2>1 DEF AloneInv, Fits, StillThere
  <2>4. Converged(settled)' <=> Converged(settled)
    BY <2>1 DEF Converged, Named, Of
  <2> QED
    BY <2>1, <2>2, <2>3, <2>4 DEF SInv, RunsInv
<1> QED
  BY <1>1, <1>2, <1>4, <1>5, <1>6, <1>7 DEF Next, SInv

\* After a run that nothing overlapped and nothing stopped, the account is as its script
\* wants it, for any services, alert rules, metrics and records, whatever other runs left
\* half done before it ("idempotent": the three scripts).
THEOREM ScriptsConverge == Spec => []RunsConverge
<1>1. SInv => RunsConverge
  BY DEF SInv, RunsInv, RunsConverge
<1> QED
  BY <1>1, RunsInvInit, StepKeepsRuns, PTL DEF Spec
-----------------------------------------------------------------------------
(* What the scripts leave alone *)

\* An id given out, to objects of this kind and name.
Known(id, kind, name) ==
  /\ id \in Nat /\ id <= next
  /\ \A p \in cloud : p.id = id => p.kind = kind /\ p.name = name

\* Calls delete resources and dashboards and patch no monitor but ours; the object each is
\* about is still the one it was planned for. Writing the .env is about none.
OwnCalls(set) ==
  \A c \in set :
    /\ c.do \in {"delete", "patch"} => Known(c.id, c.kind, c.name)
    /\ c.do = "delete" => c.kind \in {"resource", "dashboard"}
    /\ c.do = "patch" => c.kind # "monitor" \/ c.name # Stranger
    /\ c.do \notin {"create", "delete", "patch"} => c.id = 0

\* setup-betterstack.ts remembers alerts only.
TouchInv ==
  /\ \A r \in Slots : OwnCalls(calls[r])
  /\ \A r \in Slots : phase[r] # "idle" =>
       script[r] \in Scripts /\ pc[r] \in 1 .. Len(Program(script[r]))
  /\ \A r \in Slots : script[r] = "betterstack" =>
       \A o \in seen[r] : o.kind = "alert" /\ Known(o.id, o.kind, o.name)

\* The object is still there, under its name and no worse; another's monitor is the same.
Stays(o) ==
  \E p \in cloud' : /\ p.id = o.id /\ p.kind = o.kind /\ p.name = o.name
                    /\ o.good => p.good
                    /\ o.kind = "monitor" /\ o.name = Stranger => (p.good => o.good)

\* Whatever runs overlap and wherever they die, no source, app, monitor, alert, exploration,
\* metric, record, domain or page is ever deleted or renamed, none that was as wanted stops
\* being so, and somebody else's monitor is not touched at all.
OthersStay == [][\A o \in cloud : o.kind \notin {"resource", "dashboard"} => Stays(o)]_vars

\* Objects in the account are known.
LEMMA ObjectsAreKnown ==
  ASSUME PInv, NEW o \in cloud
  PROVE  Known(o.id, o.kind, o.name)
BY DEF PInv, IdsInv, Known

\* The plan of a stage is about what is there, or was when the alerts were listed.
LEMMA PlanIsOwn ==
  ASSUME PInv, NEW r \in Slots, NEW st,
         st.kind = "alert" => \A o \in seen[r] : o.kind = "alert" /\ Known(o.id, o.kind, o.name)
  PROVE  OwnCalls(Plan(r, st))
<1>0. OwnCalls({})
  BY DEF OwnCalls
<1>1. ASSUME NEW kind, NEW name PROVE OwnCalls(findOrCreate(kind, name))
  BY DEF OwnCalls, findOrCreate, Create
<1>2. ASSUME NEW x PROVE OwnCalls(metricCalls(x)) /\ OwnCalls(recordCalls) /\ OwnCalls({WriteEnv})
  BY DEF OwnCalls, metricCalls, recordCalls, Create, WriteEnv
<1>3. ASSUME NEW o \in cloud, NEW turn, o.kind \in {"resource", "dashboard"}
      PROVE  OwnCalls({Delete(turn, o)})
  BY <1>3, ObjectsAreKnown DEF OwnCalls, Delete
<1>4. ASSUME NEW o, Known(o.id, o.kind, o.name), o.kind # "monitor" \/ o.name # Stranger
      PROVE  OwnCalls({Patch(o)})
  BY <1>4 DEF OwnCalls, Patch
<1>5. ASSUME NEW turn, NEW kind, NEW name PROVE OwnCalls({Create(turn, kind, name)})
  BY DEF OwnCalls, Create
<1>6. OwnCalls(emailCalls)
  <2>1. ASSUME NEW o \in Of("monitor"), o.name # Stranger PROVE OwnCalls({Patch(o)})
    BY <1>4, <2>1, ObjectsAreKnown DEF Of
  <2> QED
    BY <2>1 DEF emailCalls, OwnCalls
<1>7. ASSUME NEW x PROVE OwnCalls(explorationCalls(x))
  <2>1. CASE Named("exploration", x) # {}
    <3>1. First(Named("exploration", x)) \in Named("exploration", x)
      BY <2>1, FirstIsOneOfThem DEF PInv, IdsInv, Named
    <3> QED
      BY <1>4, <2>1, <3>1, ObjectsAreKnown DEF explorationCalls, Named
  <2> QED
    BY <1>5, <2>1 DEF explorationCalls
<1>8. ASSUME st.kind = "alert", NEW x PROVE OwnCalls(alertCalls(r, x))
  <2> DEFINE existing == {o \in seen[r] : o.name = x}
  <2>1. CASE existing # {}
    <3>1. First(existing) \in existing
      BY <1>8, <2>1, FirstIsOneOfThem DEF Known
    <3>2. OwnCalls({Patch(First(existing))})
      BY <1>4, <1>8, <3>1
    <3> QED
      BY <1>0, <2>1, <3>2 DEF alertCalls
  <2>2. CASE existing = {}
    BY <1>5, <2>2 DEF alertCalls
  <2> QED
    BY <2>1, <2>2
<1>9. OwnCalls(resourceCalls(r))
  <2>1. \A o \in Of("resource") : OwnCalls({Delete(1, o)})
    BY <1>3 DEF Of
  <2>2. \A x : OwnCalls({Create(2, "resource", x)})
    BY <1>5
  <2> QED
    BY <2>1, <2>2 DEF resourceCalls, OwnCalls
<1>10. OwnCalls(dashboardCalls)
  <2>1. \A o \in Of("dashboard") : OwnCalls({Delete(2, o)})
    BY <1>3 DEF Of
  <2>2. OwnCalls({Create(1, "dashboard", Unnamed)})
    BY <1>5
  <2> QED
    BY <2>1, <2>2 DEF dashboardCalls, OwnCalls
<1> QED
  BY <1>0, <1>1, <1>2, <1>6, <1>7, <1>8, <1>9, <1>10 DEF Plan

\* Ids are not given out again, so what is known stays so.
LEMMA KnownStays ==
  ASSUME PInv, NEW r \in Slots, NEW c \in calls[r],
         \A d \in calls[r] : c.turn <= d.turn, Done(r, c),
         NEW id, NEW kind, NEW name, Known(id, kind, name)
  PROVE  Known(id, kind, name)'
<1>1. next \in Nat /\ next' \in Nat /\ next <= next'
  BY CallKeepsIds DEF PInv, IdsInv
<1>2. ASSUME NEW p \in cloud', p.id = id PROVE \E o \in cloud : o.id = id /\ o.kind = p.kind /\ o.name = p.name
  <2>1. CASE c.do = "create"
    <3>1. \A o \in Created(c) : ~(o.id <= next)
      BY DEF Created, Object, Of, PInv, IdsInv
    <3> QED
      BY <1>2, <2>1, <3>1 DEF Done, Known
  <2>2. CASE c.do = "delete"
    BY <1>2, <2>2 DEF Done
  <2>3. CASE c.do # "create" /\ c.do # "delete"
    <3>1. PICK o \in cloud : p = Object(o.id, o.kind, o.name, o.good \/ o.id = c.id)
      BY <2>3 DEF Done
    <3> QED
      BY <1>2, <3>1 DEF Object
  <2> QED
    BY <2>1, <2>2, <2>3
<1> QED
  BY <1>1, <1>2 DEF Known

\* A call about an object of its own leaves the others.
LEMMA CallLeavesOthers ==
  ASSUME PInv, NEW r \in Slots, NEW c \in calls[r], OwnCalls(calls[r]), Done(r, c),
         NEW o \in cloud, o.kind \notin {"resource", "dashboard"}
  PROVE  Stays(o)
<1> USE DEF Stays
<1>1. CASE c.do = "create"
  BY <1>1 DEF Done
<1>2. CASE c.do = "delete"
  <2>1. o.id # c.id
    BY <1>2 DEF OwnCalls, Known
  <2> QED
    BY <1>2, <2>1 DEF Done
<1>3. CASE c.do # "create" /\ c.do # "delete"
  <2> DEFINE p == Object(o.id, o.kind, o.name, o.good \/ o.id = c.id)
  <2>1. p \in cloud'
    BY <1>3 DEF Done
  <2>2. o.kind = "monitor" /\ o.name = Stranger => o.id # c.id
    BY <1>3 DEF OwnCalls, Known, PInv, IdsInv
  <2>3. /\ p.id = o.id /\ p.kind = o.kind /\ p.name = o.name /\ (o.good => p.good)
        /\ o.id # c.id => (p.good => o.good)
    BY DEF Object
  <2> HIDE DEF p
  <2> QED
    BY <2>1, <2>2, <2>3
<1> QED
  BY <1>1, <1>2, <1>3

LEMMA TouchStep ==
  ASSUME SInv, TouchInv, [Next]_vars
  PROVE  TouchInv'
<1> USE DEF TouchInv
<1>0. /\ PInv /\ calls = [q \in Slots |-> calls[q]] /\ pc = [q \in Slots |-> pc[q]]
      /\ seen = [q \in Slots |-> seen[q]]
      /\ script \in [Slots -> Scripts \union {"none"}] /\ phase \in [Slots -> {"idle", "list", "call"}]
  BY DEF SInv, PInv, CallsInv, RunsTypes, PhaseOK
<1>1. ASSUME NEW r \in Slots, Ends(r), UNCHANGED <<cloud, next>> PROVE TouchInv'
  <2>1. /\ phase' = [phase EXCEPT ![r] = "idle"] /\ script' = [script EXCEPT ![r] = "none"]
        /\ calls' = [calls EXCEPT ![r] = {}] /\ seen' = [seen EXCEPT ![r] = {}]
        /\ pc' = [pc EXCEPT ![r] = 1]
    BY <1>1 DEF Ends
  <2>2. \A id, kind, name : Known(id, kind, name) => Known(id, kind, name)'
    BY <1>1 DEF Known
  <2> QED
    BY <1>0, <2>1, <2>2 DEF OwnCalls
<1>2. ASSUME NEW r \in Slots, NEW todo, NEW listed, NEW tokens, GoesOn(r, todo, listed, tokens),
             phase[r] # "idle", OwnCalls(todo),
             script[r] = "betterstack" => \A o \in listed : o.kind = "alert" /\ Known(o.id, o.kind, o.name),
             \A id, kind, name : Known(id, kind, name) => Known(id, kind, name)'
      PROVE  TouchInv'
  <2>1. calls' = [calls EXCEPT ![r] = todo]
    BY <1>2, CallsLeft
  <2>2. ASSUME NEW q \in Slots PROVE OwnCalls(calls[q])'
    <3>1. calls'[q] = IF q = r THEN todo ELSE calls[q]
      BY <1>0, <2>1
    <3> QED
      BY <1>2, <3>1 DEF OwnCalls
  <2>3. CASE Ends(r)
    <3>1. /\ phase' = [phase EXCEPT ![r] = "idle"] /\ script' = [script EXCEPT ![r] = "none"]
          /\ seen' = [seen EXCEPT ![r] = {}] /\ pc' = [pc EXCEPT ![r] = 1]
      BY <2>3 DEF Ends
    <3> QED
      BY <1>0, <1>2, <2>2, <3>1
  <2>4. CASE ~Ends(r)
    <3>1. /\ ~(todo = {} /\ pc[r] = Len(Program(script[r])))
          /\ phase' = [phase EXCEPT ![r] = IF todo = {} THEN "list" ELSE "call"]
          /\ pc' = [pc EXCEPT ![r] = IF todo = {} THEN @ + 1 ELSE @]
          /\ seen' = [seen EXCEPT ![r] = listed] /\ script' = script
      BY <1>2, <2>4 DEF GoesOn
    <3>2. ASSUME NEW q \in Slots, phase'[q] # "idle"
          PROVE  script'[q] \in Scripts /\ pc'[q] \in 1 .. Len(Program(script'[q]))
      <4>1. CASE q # r
        BY <1>0, <3>1, <3>2, <4>1
      <4>2. CASE q = r
        <5>1. script[r] \in Scripts /\ pc[r] \in 1 .. Len(Program(script[r]))
          BY <1>2
        <5>2. Len(Program(script[r])) \in Nat
          BY <5>1, StagesInOrder
        <5>3. pc'[r] = IF todo = {} THEN pc[r] + 1 ELSE pc[r]
          BY <1>0, <3>1
        <5> DEFINE len == Len(Program(script[r]))
        <5>4. pc'[r] \in 1 .. len
          <6> HIDE DEF len
          <6>1. pc[r] \in 1 .. len /\ len \in Nat /\ ~(todo = {} /\ pc[r] = len)
            BY <3>1, <5>1, <5>2 DEF len
          <6> QED
            BY <5>3, <6>1
        <5> QED
          BY <3>1, <4>2, <5>1, <5>4
      <4> QED
        BY <4>1, <4>2
    <3>3. ASSUME NEW q \in Slots, script'[q] = "betterstack", NEW o \in seen'[q]
          PROVE  o.kind = "alert" /\ Known(o.id, o.kind, o.name)'
      <4>1. script[q] = "betterstack" /\ o \in (IF q = r THEN listed ELSE seen[q])
        BY <1>0, <3>1, <3>3
      <4> QED
        BY <1>2, <4>1
    <3> QED
      BY <2>2, <3>2, <3>3
  <2> QED
    BY <2>3, <2>4
<1>3. ASSUME NEW r \in Slots, NEW s \in Scripts, Begin(r, s) PROVE TouchInv'
  <2>1. /\ phase[r] = "idle" /\ script' = [script EXCEPT ![r] = s] /\ phase' = [phase EXCEPT ![r] = "list"]
        /\ UNCHANGED <<cloud, next, pc, calls, seen>>
    BY <1>3 DEF Begin, account
  <2>2. pc[r] = 1 /\ seen[r] = {}
    BY <2>1 DEF SInv, RunsInv
  <2>3. \A id, kind, name : Known(id, kind, name)' <=> Known(id, kind, name)
    BY <2>1 DEF Known
  <2>4. 1 \in 1 .. Len(Program(s))
    BY StagesInOrder
  <2>5. \A q \in Slots : /\ script'[q] = IF q = r THEN s ELSE script[q]
                         /\ phase'[q] = IF q = r THEN "list" ELSE phase[q]
    BY <1>0, <2>1
  <2>6. \A q \in Slots : OwnCalls(calls[q])'
    BY <2>1, <2>3 DEF OwnCalls
  <2> QED
    BY <2>1, <2>2, <2>3, <2>4, <2>5, <2>6
<1>4. ASSUME NEW r \in Slots, List(r) PROVE TouchInv'
  <2> DEFINE st == Program(script[r])[pc[r]]
             listed == IF st.kind = "monitors" THEN Of("monitor")
                       ELSE IF st.kind = "existingAlerts" THEN Of("alert") ELSE seen[r]
             tokens == IF st.kind = "source" /\ Named("source", st.name) # {}
                         THEN [token[r] EXCEPT ![st.name] = First(Named("source", st.name)).id]
                         ELSE token[r]
  <2>1. phase[r] = "list" /\ UNCHANGED <<cloud, next>>
        /\ (Ends(r) \/ GoesOn(r, Plan(r, st), listed, tokens))
    BY <1>4 DEF List, Dies, account
  <2>2. \A id, kind, name : Known(id, kind, name)' <=> Known(id, kind, name)
    BY <2>1 DEF Known
  <2>3. st.kind \in IF script[r] = "betterstack" THEN BetterstackKinds ELSE OtherKinds
    BY <2>1, StagesInOrder
  <2>4. st.kind = "alert" => script[r] = "betterstack"
    BY <2>3 DEF OtherKinds
  <2>5. OwnCalls(Plan(r, st))
    <3> HIDE DEF st
    <3> QED
      BY <1>0, <2>4, PlanIsOwn
  <2>6. script[r] = "betterstack" => \A o \in listed : o.kind = "alert" /\ Known(o.id, o.kind, o.name)
    <3>1. script[r] = "betterstack" => st.kind # "monitors"
      BY <2>3 DEF BetterstackKinds
    <3>2. \A o \in Of("alert") : o.kind = "alert" /\ Known(o.id, o.kind, o.name)
      BY <1>0, ObjectsAreKnown DEF Of
    <3> HIDE DEF st
    <3> QED
      BY <3>1, <3>2
  <2>7. CASE Ends(r)
    BY <1>1, <2>1, <2>7
  <2>8. CASE GoesOn(r, Plan(r, st), listed, tokens)
    <3> DEFINE todo == Plan(r, st)
    <3>1. GoesOn(r, todo, listed, tokens) /\ phase[r] # "idle" /\ OwnCalls(todo)
      BY <2>1, <2>5, <2>8
    <3> HIDE DEF todo, listed, tokens, st
    <3> QED
      BY <1>2, <2>2, <2>6, <3>1
  <2> QED
    BY <2>1, <2>7, <2>8
<1>5. ASSUME NEW r \in Slots, Call(r) PROVE TouchInv'
  <2>1. PICK c \in calls[r] :
          /\ \A d \in calls[r] : c.turn <= d.turn
          /\ \/ Dies(r)
             \/ /\ Done(r, c)
                /\ GoesOn(r, calls[r] \ {c}, seen[r],
                       IF c.do = "create" /\ c.kind = "source"
                         THEN [token[r] EXCEPT ![c.name] = next + 1] ELSE token[r])
    BY <1>5 DEF Call
  <2>2. CASE Dies(r)
    BY <1>1, <2>2 DEF Dies, account
  <2>3. CASE ~Dies(r)
    <3> DEFINE tokens == IF c.do = "create" /\ c.kind = "source"
                           THEN [token[r] EXCEPT ![c.name] = next + 1] ELSE token[r]
               todo == calls[r] \ {c}
    <3>1. Done(r, c) /\ GoesOn(r, todo, seen[r], tokens) /\ phase[r] # "idle"
      BY <1>5, <2>1, <2>3 DEF Call
    <3>2. \A id, kind, name : Known(id, kind, name) => Known(id, kind, name)'
      BY <1>0, <2>1, <3>1, KnownStays
    <3>3. OwnCalls(todo)
      BY DEF OwnCalls
    <3> HIDE DEF todo, tokens
    <3> QED
      BY <1>2, <3>1, <3>2, <3>3
  <2> QED
    BY <2>2, <2>3
<1>6. ASSUME NEW r \in Slots, Fails(r) PROVE TouchInv'
  BY <1>1, <1>6 DEF Fails, Dies, account
<1>7. ASSUME UNCHANGED vars PROVE TouchInv'
  <2>1. UNCHANGED <<cloud, next, script, phase, pc, calls, seen>>
    BY <1>7 DEF vars, account
  <2>2. \A id, kind, name : Known(id, kind, name)' <=> Known(id, kind, name)
    BY <2>1 DEF Known
  <2>3. \A q \in Slots : OwnCalls(calls[q])'
    BY <2>1, <2>2 DEF OwnCalls
  <2> QED
    BY <2>1, <2>2, <2>3
<1> QED
  BY <1>3, <1>4, <1>5, <1>6, <1>7 DEF Next

\* The scripts take nothing away but what they replace, and no other's monitor is touched,
\* for any services, rules and records, in whatever way runs overlap and die.
THEOREM ScriptsLeaveOthers == Spec => OthersStay
<1>1. Init => TouchInv
  BY DEF Init, TouchInv, OwnCalls
<1>2. ASSUME SInv, TouchInv, [Next]_vars
      PROVE  \A o \in cloud : o.kind \notin {"resource", "dashboard"} => Stays(o)
  <2> SUFFICES ASSUME NEW o \in cloud, o.kind \notin {"resource", "dashboard"} PROVE Stays(o)
    OBVIOUS
  <2>1. CASE UNCHANGED cloud
    BY <2>1 DEF Stays
  <2>2. ASSUME NEW r \in Slots, NEW c \in calls[r], Done(r, c) PROVE Stays(o)
    BY <1>2, <2>2, CallLeavesOthers DEF SInv, TouchInv
  <2>3. UNCHANGED cloud \/ \E r \in Slots : \E c \in calls[r] : Done(r, c)
    BY <1>2 DEF Next, Begin, List, Call, Fails, Dies, account, vars
  <2> QED
    BY <2>1, <2>2, <2>3
<1> QED
  BY <1>1, <1>2, RunsInvInit, StepKeepsRuns, TouchStep, PTL DEF Spec, OthersStay
==============================================================================
