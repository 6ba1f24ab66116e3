--------------------------- MODULE SubmissionProofs ---------------------------
(***************************************************************************)
(* Proofs about Submission for every number of concurrent requests, every  *)
(* window and every clock.  A Lead's email and answers never change and    *)
(* Leads are only ever appended; the rest is what a request remembers of   *)
(* the Leads it loaded, and that what it checked under the advisory lock   *)
(* is still so when it inserts (LockInv).                                  *)
(***************************************************************************)
EXTENDS Submission, TLAPS

Own(i, s) == i \in DOMAIN leads /\ MatchesSubmission(i, s)

\* What a request remembers between its awaits is still true of the Leads.
MemoryInv ==
  \A h \in Handlers :
    pc[h] = "match" => /\ recent[h] \subseteq DOMAIN leads
                       /\ repeated[h] # 0 => Own(repeated[h], input[h])

\* A row holds what its columns can hold.
RowInv == \A i \in DOMAIN leads : Stored[leads[i].answers] = leads[i].answers

\* Between its check and its insert a request is the only one of its email, and there is no
\* undecided Lead of it.
LockInv ==
  \A h \in Handlers : pc[h] = "write" =>
    /\ \A i \in DOMAIN leads :
         leads[i].email = input[h].email => leads[i].stage # "undecided"
    /\ \A g \in Handlers : pc[g] = "write" /\ input[g].email = input[h].email => g = h

IInv == TypeOK /\ RowInv /\ OneUndecidedPerEmail /\ AnswerIsOwnLead /\ MemoryInv

\* What one step may do to the Leads: nothing, change the stage of one of them, or
\* append one for an email that has none open.
Unmoved(leads1) ==
  \A i \in DOMAIN leads :
    /\ i \in DOMAIN leads1
    /\ leads1[i].email = leads[i].email /\ leads1[i].answers = leads[i].answers
------------------------------------------------------------------------------

\* The Lead found by an idempotency key exists.
LEMMA FoundByKey ==
  ASSUME TypeOK, NEW k, LeadOfKey(k) # 0
  PROVE  LeadOfKey(k) \in DOMAIN leads
BY DEF LeadOfKey

\* A stage change keeps who the Lead belongs to, and cannot make it undecided again.
LEMMA MovesKeep ==
  ASSUME TypeOK, NEW i \in DOMAIN leads, NEW stage \in Stages \ {"undecided"},
         Moves(i, stage)
  PROVE  /\ leads' \in Seq(LeadRows)
         /\ DOMAIN leads' = DOMAIN leads
         /\ Unmoved(leads')
         /\ \A j \in DOMAIN leads : leads'[j].stage = "undecided" => leads[j].stage = "undecided"
<1>1. leads \in Seq(LeadRows) BY DEF TypeOK
<1>2. leads[i] \in LeadRows BY <1>1
<1>3. [leads[i] EXCEPT !.stage = stage] \in LeadRows
  BY <1>2 DEF LeadRows
<1>4. leads' = [leads EXCEPT ![i] = [@ EXCEPT !.stage = stage]] BY DEF Moves
<1>5. leads' \in Seq(LeadRows) /\ DOMAIN leads' = DOMAIN leads
  BY <1>1, <1>3, <1>4
<1>6. \A j \in DOMAIN leads : j # i => leads'[j] = leads[j] BY <1>4
<1>7. leads'[i] = [leads[i] EXCEPT !.stage = stage] BY <1>4
<1>8. leads'[i].stage = stage /\ leads'[i].email = leads[i].email
      /\ leads'[i].answers = leads[i].answers
  BY <1>2, <1>7 DEF LeadRows
<1> QED BY <1>5, <1>6, <1>8 DEF Unmoved

\* A new Lead is appended behind the others.
LEMMA AppendKeeps ==
  ASSUME TypeOK, NEW h \in Handlers, leads' = Append(leads, NewLead(input[h]))
  PROVE  /\ leads' \in Seq(LeadRows)
         /\ DOMAIN leads' = DOMAIN leads \union {Len(leads) + 1}
         /\ Len(leads) + 1 \notin DOMAIN leads
         /\ \A j \in DOMAIN leads : leads'[j] = leads[j]
         /\ leads'[Len(leads) + 1] = NewLead(input[h])
         /\ NewLead(input[h]).answers = Stored[input[h].answers]
         /\ NewLead(input[h]).answers \in Answers
         /\ Unmoved(leads')
<1>1. leads \in Seq(LeadRows) BY DEF TypeOK
<1>2. NewLead(input[h]) \in LeadRows
  BY SubmissionAssumption DEF TypeOK, NewLead, LeadRows, Submissions, Stages
<1>3. NewLead(input[h]).answers = Stored[input[h].answers]
      /\ NewLead(input[h]).answers \in Answers
  BY <1>2 DEF NewLead, LeadRows
<1> QED BY <1>1, <1>2, <1>3 DEF Unmoved

\* Rows that keep their answers keep what their columns can hold.
LEMMA RowsKept ==
  ASSUME IInv, Unmoved(leads'), DOMAIN leads' = DOMAIN leads
  PROVE  RowInv'
BY DEF IInv, RowInv, Unmoved

\* A Lead with the very answers of a request is what the request's answers are stored as.
LEMMA OwnIsStored ==
  ASSUME IInv, NEW i, NEW s, Own(i, s)
  PROVE  leads[i].email = s.email /\ leads[i].answers = Stored[s.answers]
BY DEF IInv, RowInv, Own, MatchesSubmission

\* The facts a request remembers survive any step that leaves the request alone.
LEMMA MemoryKept ==
  ASSUME IInv, Unmoved(leads'), UNCHANGED <<pc, input, recent, repeated, answer>>
  PROVE  AnswerIsOwnLead' /\ MemoryInv'
<1>1. AnswerIsOwnLead'
  BY DEF IInv, AnswerIsOwnLead, Unmoved
<1>2. MemoryInv'
  BY DEF IInv, MemoryInv, Own, MatchesSubmission, Unmoved
<1> QED BY <1>1, <1>2

\* A reply with the request's own Lead, or with none, keeps the answers truthful.
LEMMA ReplyKeeps ==
  ASSUME IInv, NEW h \in Handlers, NEW a \in Answered, Reply(h, a),
         UNCHANGED <<leads, input, recent, repeated>>,
         a.lead # 0 => Own(a.lead, input[h])
  PROVE  AnswerIsOwnLead' /\ MemoryInv' /\ pc' \in [Handlers -> Places]
         /\ answer' \in [Handlers -> Answered]
<1>1. /\ pc' = [pc EXCEPT ![h] = "idle"] /\ answer' = [answer EXCEPT ![h] = a]
  BY DEF Reply, Goto
<1>2. AnswerIsOwnLead'
  BY <1>1, OwnIsStored DEF IInv, TypeOK, AnswerIsOwnLead, Own
<1>3. MemoryInv'
  BY <1>1 DEF IInv, TypeOK, MemoryInv, Own, MatchesSubmission
<1>4. pc' \in [Handlers -> Places] /\ answer' \in [Handlers -> Answered]
  BY <1>1 DEF IInv, TypeOK, Places
<1> QED BY <1>2, <1>3, <1>4

\* Answering with the Lead of the key is truthful: other answers get no Lead.
LEMMA AnswerWithKeysLeadKeeps ==
  ASSUME IInv, NEW h \in Handlers, AnswerWithKeysLead(h), LeadOfKey(input[h].key) # 0,
         UNCHANGED <<leads, input, recent, repeated>>
  PROVE  AnswerIsOwnLead' /\ MemoryInv' /\ pc' \in [Handlers -> Places]
         /\ answer' \in [Handlers -> Answered]
<1> DEFINE i == LeadOfKey(input[h].key)
           a == IF MatchesSubmission(i, input[h]) THEN LeadAnswer(i)
                ELSE ErrorAnswer("idempotency_key_reused")
<1>1. i \in DOMAIN leads BY FoundByKey DEF IInv
<1>2. i \in Nat BY <1>1 DEF IInv, TypeOK
<1>3. a \in Answered BY <1>2 DEF LeadAnswer, ErrorAnswer, Answered, Refusals
<1>4. a.lead # 0 => Own(a.lead, input[h])
  BY <1>1 DEF LeadAnswer, ErrorAnswer, Own
<1>5. Reply(h, a) BY DEF AnswerWithKeysLead
<1> HIDE DEF a
<1> QED BY <1>3, <1>4, <1>5, ReplyKeeps

\* Moving on without a reply keeps the answers; what is remembered is the step's affair.
LEMMA GotoKeeps ==
  ASSUME IInv, NEW h \in Handlers, NEW place \in Places \ {"match"}, Goto(h, place),
         UNCHANGED <<leads, input, recent, repeated, answer>>
  PROVE  AnswerIsOwnLead' /\ MemoryInv' /\ pc' \in [Handlers -> Places]
<1>1. pc' = [pc EXCEPT ![h] = place] BY DEF Goto
<1>2. AnswerIsOwnLead' BY DEF IInv, AnswerIsOwnLead
<1>3. MemoryInv' BY <1>1 DEF IInv, TypeOK, MemoryInv, Own, MatchesSubmission
<1>4. pc' \in [Handlers -> Places] BY <1>1 DEF IInv, TypeOK
<1> QED BY <1>2, <1>3, <1>4
------------------------------------------------------------------------------

\* The initial states satisfy the invariant.
LEMMA InitHolds == Init => IInv
<1> SUFFICES ASSUME Init PROVE IInv OBVIOUS
<1>1. TypeOK
  BY DEF Init, TypeOK, Places, Refusals, Answered, NoAnswer
<1>2. OneUndecidedPerEmail /\ RowInv BY DEF Init, OneUndecidedPerEmail, RowInv
<1>3. AnswerIsOwnLead BY DEF Init, AnswerIsOwnLead, NoAnswer
<1>4. MemoryInv BY DEF Init, MemoryInv
<1> QED BY <1>1, <1>2, <1>3, <1>4 DEF IInv

\* Every step of the requests, the pipeline and the clock keeps it.
LEMMA StepHolds == IInv /\ LockInv /\ [Next]_vars => IInv'
<1> SUFFICES ASSUME IInv, LockInv, [Next]_vars PROVE IInv' OBVIOUS
<1>t. TypeOK BY DEF IInv
<1>same. ASSUME UNCHANGED leads PROVE OneUndecidedPerEmail' /\ RowInv'
  BY <1>same DEF IInv, OneUndecidedPerEmail, RowInv
<1>refuse. ASSUME NEW h \in Handlers, NEW error \in Refusals, Refuse(h, error),
                  UNCHANGED <<clock, input, recent, repeated, requests>>
           PROVE  IInv'
  <2>1. /\ Goto(h, "refused") /\ UNCHANGED <<leads, answer>>
        /\ refusal' = [refusal EXCEPT ![h] = error]
    BY <1>refuse DEF Refuse
  <2>2. "refused" \in Places \ {"match"} BY DEF Places
  <2>3. refusal' \in [Handlers -> Refusals] BY <1>t, <2>1 DEF TypeOK
  <2> QED BY <1>t, <1>same, <1>refuse, <2>1, <2>2, <2>3, GotoKeeps DEF IInv, TypeOK
<1>1. ASSUME NEW h \in Handlers, NEW s \in Submissions, Submit(h, s) PROVE IInv'
  <2>1. /\ pc' = [pc EXCEPT ![h] = IF s.key = NoKey THEN "recent" ELSE "byKey"]
        /\ input' = [input EXCEPT ![h] = s] /\ answer' = [answer EXCEPT ![h] = NoAnswer]
        /\ UNCHANGED <<leads, clock, recent, repeated, refusal>> /\ requests' = requests + 1
    BY <1>1 DEF Submit, Goto
  <2>2. TypeOK'
    <3>1. NoAnswer \in Answered BY DEF NoAnswer, Answered, Refusals
    <3>2. {"recent", "byKey"} \subseteq Places BY DEF Places
    <3> QED BY <1>t, <2>1, <3>1, <3>2 DEF TypeOK
  <2>3. AnswerIsOwnLead' BY <1>t, <2>1 DEF IInv, TypeOK, AnswerIsOwnLead, NoAnswer
  <2>4. MemoryInv'
    BY <1>t, <2>1 DEF IInv, TypeOK, MemoryInv, Own, MatchesSubmission
  <2> QED BY <1>same, <2>1, <2>2, <2>3, <2>4 DEF IInv
<1>2. ASSUME NEW h \in Handlers, FindByKey(h) PROVE IInv'
  <2>1. UNCHANGED <<leads, clock, input, recent, repeated, refusal, requests>>
    BY <1>2 DEF FindByKey
  <2>2. CASE LeadOfKey(input[h].key) # 0 /\ AnswerWithKeysLead(h)
    BY <1>t, <1>same, <2>1, <2>2, AnswerWithKeysLeadKeeps DEF IInv, TypeOK
  <2>3. CASE Goto(h, "recent") /\ UNCHANGED answer
    <3>1. "recent" \in Places \ {"match"} BY DEF Places
    <3> QED BY <1>t, <1>same, <2>1, <2>3, <3>1, GotoKeeps DEF IInv, TypeOK
  <2> QED BY <1>2, <2>2, <2>3 DEF FindByKey
<1>3. ASSUME NEW h \in Handlers, FindRecent(h) PROVE IInv'
  <2> DEFINE found == {i \in DOMAIN leads : leads[i].email = input[h].email
                                            /\ leads[i].createdAt + Window >= clock}
  <2>1. /\ recent' = [recent EXCEPT ![h] = found] /\ repeated' = [repeated EXCEPT ![h] = 0]
        /\ pc' = [pc EXCEPT ![h] = "match"]
        /\ UNCHANGED <<leads, clock, input, refusal, answer, requests>>
    BY <1>3 DEF FindRecent, Goto
  <2>2. found \subseteq DOMAIN leads /\ DOMAIN leads \subseteq Nat BY <1>t DEF TypeOK
  <2> HIDE DEF found
  <2>3. TypeOK' BY <1>t, <2>1, <2>2 DEF TypeOK, Places
  <2>4. AnswerIsOwnLead' BY <2>1 DEF IInv, AnswerIsOwnLead
  <2>5. MemoryInv'
    BY <1>t, <2>1, <2>2 DEF IInv, TypeOK, MemoryInv, Own, MatchesSubmission
  <2> QED BY <1>same, <2>1, <2>3, <2>4, <2>5 DEF IInv
<1>4. ASSUME NEW h \in Handlers, NEW i \in recent[h], LoadRecent(h, i) PROVE IInv'
  <2> DEFINE best == IF ~ IsOpen(i) /\ MatchesSubmission(i, input[h]) /\ i > repeated[h]
                     THEN i ELSE repeated[h]
  <2>1. /\ recent' = [recent EXCEPT ![h] = @ \ {i}]
        /\ repeated' = [repeated EXCEPT ![h] = best]
        /\ UNCHANGED <<leads, clock, pc, input, refusal, answer, requests>>
        /\ pc[h] = "match"
    BY <1>4 DEF LoadRecent
  <2>2. i \in DOMAIN leads /\ i \in Nat BY <1>t, <2>1 DEF IInv, TypeOK, MemoryInv
  <2>3. best \in Nat /\ (best # 0 => Own(best, input[h]))
    BY <1>t, <2>1, <2>2 DEF IInv, TypeOK, MemoryInv, Own
  <2> HIDE DEF best
  <2>4. TypeOK' BY <1>t, <2>1, <2>3 DEF TypeOK
  <2>5. AnswerIsOwnLead' BY <2>1 DEF IInv, AnswerIsOwnLead
  <2>6. MemoryInv'
    BY <1>t, <2>1, <2>3 DEF IInv, TypeOK, MemoryInv, Own, MatchesSubmission
  <2> QED BY <1>same, <2>1, <2>4, <2>5, <2>6 DEF IInv
<1>5. ASSUME NEW h \in Handlers, MatchRecent(h) PROVE IInv'
  <2>1. UNCHANGED <<leads, clock, input, recent, repeated, refusal, requests>>
        /\ pc[h] = "match"
    BY <1>5 DEF MatchRecent
  <2>2. CASE repeated[h] # 0 /\ Reply(h, LeadAnswer(repeated[h]))
    <3>1. LeadAnswer(repeated[h]) \in Answered
      BY <1>t DEF TypeOK, LeadAnswer, Answered, Refusals
    <3>2. Own(LeadAnswer(repeated[h]).lead, input[h])
      BY <2>1, <2>2 DEF IInv, MemoryInv, LeadAnswer
    <3> QED BY <1>t, <1>same, <2>1, <2>2, <3>1, <3>2, ReplyKeeps DEF IInv, TypeOK
  <2>3. CASE Goto(h, "insert") /\ UNCHANGED answer
    <3>1. "insert" \in Places \ {"match"} BY DEF Places
    <3> QED BY <1>t, <1>same, <2>1, <2>3, <3>1, GotoKeeps DEF IInv, TypeOK
  <2> QED BY <1>5, <2>2, <2>3 DEF MatchRecent
<1>6. ASSUME NEW h \in Handlers, Insert(h) PROVE IInv'
  <2>1. UNCHANGED <<clock, input, recent, repeated, requests>> BY <1>6 DEF Insert
  <2>2. CASE Inserted(h)
    <3> DEFINE n == Len(leads) + 1
    <3>1. /\ leads' = Append(leads, NewLead(input[h]))
          /\ pc' = [pc EXCEPT ![h] = "idle"] /\ UNCHANGED refusal
          /\ \E a \in {LeadAnswer(n), ErrorAnswer("interrupted")} :
               answer' = [answer EXCEPT ![h] = a]
      BY <2>2 DEF Inserted, Reply, Goto
    <3>2. /\ leads' \in Seq(LeadRows) /\ DOMAIN leads' = DOMAIN leads \union {n}
          /\ n \notin DOMAIN leads /\ (\A j \in DOMAIN leads : leads'[j] = leads[j])
          /\ leads'[n] = NewLead(input[h]) /\ Unmoved(leads')
      BY <1>t, <3>1, AppendKeeps
    <3>3. n \in Nat BY <1>t DEF TypeOK
    <3>a. PICK a \in {LeadAnswer(n), ErrorAnswer("interrupted")} :
            answer' = [answer EXCEPT ![h] = a]
      BY <3>1
    <3>4. a \in Answered /\ a.lead \in {0, n}
      BY <3>3 DEF LeadAnswer, ErrorAnswer, Answered, Refusals
    <3>5. TypeOK' BY <1>t, <2>1, <3>1, <3>2, <3>a, <3>4 DEF TypeOK, Places
    <3>6. /\ leads'[n].email = input[h].email
          /\ leads'[n].answers = Stored[input[h].answers]
      BY <1>t, <3>1, <3>2, AppendKeeps DEF NewLead
    <3>r. RowInv'
      <4>1. Stored[leads'[n].answers] = leads'[n].answers
        BY <1>t, <3>6, SubmissionAssumption DEF TypeOK, Submissions
      <4> QED BY <3>2, <4>1 DEF IInv, RowInv
    <3>7. \A j \in DOMAIN leads : leads[j].email = input[h].email =>
                                    leads[j].stage # "undecided"
      BY <1>6 DEF Insert, LockInv
    <3> HIDE DEF n
    <3>8. OneUndecidedPerEmail'
      BY <3>2, <3>6, <3>7 DEF IInv, OneUndecidedPerEmail
    <3>9. AnswerIsOwnLead'
      <4>1. ASSUME NEW g \in Handlers, answer'[g].lead # 0
            PROVE  /\ answer'[g].lead \in DOMAIN leads'
                   /\ leads'[answer'[g].lead].email = input'[g].email
                   /\ leads'[answer'[g].lead].answers = Stored[input'[g].answers]
        <5>1. CASE g = h BY <1>t, <2>1, <3>a, <3>2, <3>4, <3>6, <4>1, <5>1 DEF TypeOK
        <5>2. CASE g # h
          <6>1. answer'[g] = answer[g] BY <1>t, <3>a, <5>2 DEF TypeOK
          <6> QED BY <2>1, <3>2, <4>1, <6>1 DEF IInv, AnswerIsOwnLead
        <5> QED BY <5>1, <5>2
      <4> QED BY <4>1 DEF AnswerIsOwnLead
    <3>10. MemoryInv'
      BY <1>t, <2>1, <3>1, <3>2 DEF IInv, TypeOK, MemoryInv, Own, MatchesSubmission
    <3> QED BY <3>5, <3>r, <3>8, <3>9, <3>10 DEF IInv
  <2>3. CASE InsertRefused(h)
    <3>1. Refuse(h, "duplicate_submission") BY <2>3 DEF InsertRefused
    <3>2. "duplicate_submission" \in Refusals BY DEF Refusals
    <3> QED BY <2>1, <3>1, <3>2, <1>refuse
  <2> QED BY <1>6, <2>2, <2>3 DEF Insert
<1>11. ASSUME NEW h \in Handlers, CheckOpen(h) PROVE IInv'
  <2>1. UNCHANGED <<clock, input, recent, repeated, requests>> BY <1>11 DEF CheckOpen
  <2>2. CASE Refuse(h, "application_in_progress")
    <3>1. "application_in_progress" \in Refusals BY DEF Refusals
    <3> QED BY <2>1, <2>2, <3>1, <1>refuse
  <2>3. CASE Goto(h, "write") /\ UNCHANGED <<leads, refusal, answer>>
    <3>1. "write" \in Places \ {"match"} BY DEF Places
    <3> QED BY <1>t, <1>same, <2>1, <2>3, <3>1, GotoKeeps DEF IInv, TypeOK
  <2> QED BY <1>11, <2>2, <2>3 DEF CheckOpen
<1>7. ASSUME NEW h \in Handlers, Refused(h) PROVE IInv'
  <2>1. UNCHANGED <<leads, clock, input, recent, repeated, refusal, requests>>
    BY <1>7 DEF Refused
  <2>2. CASE LeadOfKey(input[h].key) # 0 /\ AnswerWithKeysLead(h)
    BY <1>t, <1>same, <2>1, <2>2, AnswerWithKeysLeadKeeps DEF IInv, TypeOK
  <2>3. CASE Reply(h, ErrorAnswer(refusal[h]))
    <3>1. ErrorAnswer(refusal[h]) \in Answered
      BY <1>t DEF TypeOK, ErrorAnswer, Answered
    <3>2. ErrorAnswer(refusal[h]).lead = 0 BY DEF ErrorAnswer
    <3> QED BY <1>t, <1>same, <2>1, <2>3, <3>1, <3>2, ReplyKeeps DEF IInv, TypeOK
  <2> QED BY <1>7, <2>2, <2>3 DEF Refused
<1>8. ASSUME NEW i \in DOMAIN leads, Settle(i) \/ NoticeFails(i) \/ NoticeSent(i) PROVE IInv'
  <2>2. \E stage \in Stages \ {"undecided"} : Moves(i, stage)
    BY <1>8, <1>t DEF Settle, NoticeFails, NoticeSent, Stages, TypeOK
  <2>3. PICK stage \in Stages \ {"undecided"} : Moves(i, stage) BY <2>2
  <2>4. UNCHANGED <<clock, pc, input, recent, repeated, refusal, answer, requests>>
    BY <2>3 DEF Moves
  <2>5. /\ leads' \in Seq(LeadRows) /\ DOMAIN leads' = DOMAIN leads /\ Unmoved(leads')
        /\ \A j \in DOMAIN leads : leads'[j].stage = "undecided" => leads[j].stage = "undecided"
    BY <1>t, <2>3, MovesKeep
  <2>6. TypeOK' BY <1>t, <2>4, <2>5 DEF TypeOK
  <2>7. OneUndecidedPerEmail' BY <2>5 DEF IInv, OneUndecidedPerEmail, Unmoved
  <2>8. AnswerIsOwnLead' /\ MemoryInv' BY <2>4, <2>5, MemoryKept
  <2>9. RowInv' BY <2>5, RowsKept
  <2> QED BY <2>6, <2>7, <2>8, <2>9 DEF IInv
<1>9. CASE Tick
  <2>1. clock' = clock + 1 /\ UNCHANGED <<leads, pc, input, recent, repeated, refusal, answer,
                                          requests>>
    BY <1>9 DEF Tick
  <2>2. Unmoved(leads') BY <2>1 DEF Unmoved
  <2> QED BY <1>t, <1>same, <2>1, <2>2, MemoryKept DEF IInv, TypeOK
<1>10. CASE UNCHANGED vars
  <2>1. Unmoved(leads') BY <1>10 DEF Unmoved, vars
  <2> QED BY <1>t, <1>same, <1>10, <2>1, MemoryKept DEF IInv, TypeOK, vars
<1> QED BY <1>1, <1>2, <1>3, <1>4, <1>5, <1>6, <1>7, <1>8, <1>9, <1>10, <1>11 DEF Next

\* A step that lets nobody past the check and makes no undecided Lead keeps what was checked.
LEMMA LockKept ==
  ASSUME LockInv,
         \A h \in Handlers : pc'[h] = "write" => pc[h] = "write" /\ input'[h] = input[h],
         \A i \in DOMAIN leads' :
           leads'[i].stage = "undecided" =>
             i \in DOMAIN leads /\ leads[i].stage = "undecided" /\ leads'[i].email = leads[i].email
  PROVE  LockInv'
BY DEF LockInv

\* The advisory lock keeps it: nobody of the email passes the check in between.
LEMMA LockHolds == IInv /\ LockInv /\ [Next]_vars => LockInv'
<1> SUFFICES ASSUME IInv, LockInv, [Next]_vars PROVE LockInv' OBVIOUS
<1>t. TypeOK BY DEF IInv
<1>1. ASSUME NEW h \in Handlers, NEW place \in Places \ {"write"}, Goto(h, place),
             UNCHANGED <<leads, input>>
      PROVE  LockInv'
  BY <1>t, <1>1, LockKept DEF Goto, TypeOK
<1>2. ASSUME NEW h \in Handlers, NEW s \in Submissions, Submit(h, s) PROVE LockInv'
  BY <1>t, <1>2, LockKept DEF Submit, Goto, TypeOK
<1>3. ASSUME NEW h \in Handlers, FindByKey(h) \/ FindRecent(h) \/ MatchRecent(h) \/ Refused(h)
      PROVE  LockInv'
  <2>1. {"idle", "recent", "match", "insert"} \subseteq Places \ {"write"} BY DEF Places
  <2>2. UNCHANGED <<leads, input>> BY <1>3 DEF FindByKey, FindRecent, MatchRecent, Refused
  <2>3. \E place \in {"idle", "recent", "match", "insert"} : Goto(h, place)
    BY <1>3 DEF FindByKey, FindRecent, MatchRecent, Refused, AnswerWithKeysLead, Reply
  <2> QED BY <1>1, <2>1, <2>2, <2>3
<1>4. ASSUME NEW h \in Handlers, NEW i \in recent[h], LoadRecent(h, i) PROVE LockInv'
  BY <1>4, LockKept DEF LoadRecent
<1>5. ASSUME NEW h \in Handlers, NEW error, Refuse(h, error), UNCHANGED input PROVE LockInv'
  <2>1. "refused" \in Places \ {"write"} BY DEF Places
  <2> QED BY <1>1, <1>5, <2>1 DEF Refuse
<1>6. ASSUME NEW h \in Handlers, CheckOpen(h) PROVE LockInv'
  <2>1. UNCHANGED input BY <1>6 DEF CheckOpen
  <2>2. CASE ~ HasOpen(input[h].email) /\ Goto(h, "write") /\ UNCHANGED leads
    <3>1. \A g \in Handlers \ {h} : pc'[g] = pc[g] BY <1>t, <2>2 DEF Goto, TypeOK
    <3>2. \A g \in Handlers \ {h} : ~ (pc[g] = "write" /\ input[g].email = input[h].email)
      BY <1>6 DEF CheckOpen, LockIsFree
    <3>3. \A i \in DOMAIN leads : leads[i].email = input[h].email => leads[i].stage # "undecided"
      BY <2>2 DEF HasOpen, IsOpen
    <3> QED BY <2>1, <2>2, <3>1, <3>2, <3>3 DEF LockInv
  <2> QED BY <1>5, <1>6, <2>1, <2>2 DEF CheckOpen
<1>7. ASSUME NEW h \in Handlers, Insert(h) PROVE LockInv'
  <2>1. pc[h] = "write" /\ UNCHANGED input BY <1>7 DEF Insert
  <2>2. CASE Inserted(h)
    <3> DEFINE n == Len(leads) + 1
    <3>1. leads' = Append(leads, NewLead(input[h])) /\ pc' = [pc EXCEPT ![h] = "idle"]
      BY <2>2 DEF Inserted, Reply, Goto
    <3>2. /\ DOMAIN leads' = DOMAIN leads \union {n} /\ \A i \in DOMAIN leads : leads'[i] = leads[i]
          /\ leads'[n].email = input[h].email
      BY <1>t, <3>1, AppendKeeps DEF NewLead
    <3>3. \A g \in Handlers : pc'[g] = "write" =>
            g # h /\ pc[g] = "write" /\ input[g].email # input[h].email
      BY <1>t, <2>1, <3>1 DEF TypeOK, LockInv
    <3> HIDE DEF n
    <3> QED BY <2>1, <3>2, <3>3 DEF LockInv
  <2>3. CASE InsertRefused(h) BY <1>5, <2>1, <2>3 DEF InsertRefused
  <2> QED BY <1>7, <2>2, <2>3 DEF Insert
<1>8. ASSUME NEW i \in DOMAIN leads, Settle(i) \/ NoticeFails(i) \/ NoticeSent(i) PROVE LockInv'
  <2>1. PICK stage \in Stages \ {"undecided"} : Moves(i, stage)
    BY <1>8, <1>t DEF Settle, NoticeFails, NoticeSent, Stages, TypeOK
  <2>2. UNCHANGED <<pc, input>> BY <2>1 DEF Moves
  <2> QED BY <1>t, <2>1, <2>2, MovesKeep, LockKept DEF Unmoved
<1>9. CASE Tick \/ UNCHANGED vars
  BY <1>9, LockKept DEF Tick, vars
<1> QED BY <1>2, <1>3, <1>4, <1>6, <1>7, <1>8, <1>9 DEF Next

\* What submitLead remembers and answers is true of the Leads at every moment.
THEOREM SubmissionInvariant == Spec => [](IInv /\ LockInv)
<1>1. Init => LockInv BY DEF Init, LockInv
<1> QED BY <1>1, InitHolds, StepHolds, LockHolds, PTL DEF Spec

\* However submissions interleave, the rows and the requests keep their types.
THEOREM SubmissionTypes == Spec => []TypeOK
<1>1. IInv => TypeOK BY DEF IInv
<1> QED BY <1>1, SubmissionInvariant, PTL

\* Concurrent submissions never leave a borrower with two undecided applications: the
\* advisory lock is held from the open-Lead check to the insert, and a decision is never
\* taken back.
THEOREM OneUndecided == Spec => []OneUndecidedPerEmail
<1>1. IInv => OneUndecidedPerEmail BY DEF IInv
<1> QED BY <1>1, SubmissionInvariant, PTL

\* Nobody is answered with somebody else's Lead, whichever of the three lookups found it.
THEOREM AnswersAreOwn == Spec => []AnswerIsOwnLead
<1>1. IInv => AnswerIsOwnLead BY DEF IInv
<1> QED BY <1>1, SubmissionInvariant, PTL

\* A refusal is only ever given by the handler that found no Lead under its key.
LEMMA RefusalNeedsNoLead ==
  ASSUME IInv, Next, NEW h \in Handlers,
         answer'[h] # answer[h], answer'[h].error \in Refusals \ {"none"}
  PROVE  LeadOfKey(input[h].key) = 0
<1>t. answer \in [Handlers -> Answered] BY DEF IInv, TypeOK
<1>1. ASSUME NEW g \in Handlers, NEW a \in Answered, Reply(g, a),
             g = h => a.error \in {"none", "interrupted"}
      PROVE  FALSE
  <2>1. answer' = [answer EXCEPT ![g] = a] BY <1>1 DEF Reply
  <2> QED BY <1>t, <1>1, <2>1 DEF Refusals
<1>2. ASSUME NEW i \in Nat PROVE LeadAnswer(i) \in Answered /\ LeadAnswer(i).error = "none"
  BY DEF LeadAnswer, Answered, Refusals
<1>i. ErrorAnswer("interrupted") \in Answered /\ ErrorAnswer("interrupted").error = "interrupted"
  BY DEF ErrorAnswer, Answered, Refusals
<1>3. ASSUME NEW g \in Handlers, AnswerWithKeysLead(g), LeadOfKey(input[g].key) # 0
      PROVE  FALSE
  <2> DEFINE i == LeadOfKey(input[g].key)
             a == IF MatchesSubmission(i, input[g]) THEN LeadAnswer(i)
                  ELSE ErrorAnswer("idempotency_key_reused")
  <2>1. i \in Nat BY <1>3, FoundByKey DEF IInv, TypeOK
  <2>2. a.error \notin Refusals \ {"none"}
    BY DEF LeadAnswer, ErrorAnswer, Refusals
  <2>3. answer' = [answer EXCEPT ![g] = a] BY <1>3 DEF AnswerWithKeysLead, Reply
  <2> HIDE DEF a
  <2> QED BY <1>t, <2>2, <2>3
<1>4. CASE \E g \in Handlers : \E s \in Submissions : Submit(g, s)
  BY <1>t, <1>4 DEF Submit, NoAnswer
<1>5. CASE \E g \in Handlers : FindByKey(g)
  BY <1>3, <1>5 DEF FindByKey
<1>6. CASE \E g \in Handlers : FindRecent(g) \/ \E i \in recent[g] : LoadRecent(g, i)
  BY <1>6 DEF FindRecent, LoadRecent
<1>7. CASE \E g \in Handlers : MatchRecent(g)
  BY <1>1, <1>2, <1>7 DEF MatchRecent, IInv, TypeOK
<1>8. CASE \E g \in Handlers : Insert(g) \/ CheckOpen(g)
  BY <1>1, <1>2, <1>i, <1>8 DEF Insert, Inserted, InsertRefused, CheckOpen, Refuse, IInv, TypeOK
<1>9. CASE \E g \in Handlers : Refused(g)
  <2>1. PICK g \in Handlers : Refused(g) BY <1>9
  <2>2. Reply(g, ErrorAnswer(refusal[g])) /\ LeadOfKey(input[g].key) = 0
    BY <1>3, <2>1 DEF Refused
  <2>3. g = h BY <1>t, <2>2 DEF Reply
  <2> QED BY <2>2, <2>3
<1>10. CASE (\E i \in DOMAIN leads : Settle(i) \/ NoticeFails(i) \/ NoticeSent(i)) \/ Tick
  BY <1>10 DEF Settle, NoticeFails, NoticeSent, Moves, Tick
<1> QED BY <1>4, <1>5, <1>6, <1>7, <1>8, <1>9, <1>10 DEF Next

\* A retry is never refused because its own first attempt is in progress: a request whose
\* key already has a Lead is answered with that Lead, or as a reuse of the key.
THEOREM RetriesAreAnswered == Spec => RetryIsNeverRefused
<1>1. IInv /\ [Next]_vars =>
        [\A h \in Handlers :
           answer'[h] # answer[h] /\ answer'[h].error \in Refusals \ {"none"} =>
             LeadOfKey(input[h].key) = 0]_vars
  BY RefusalNeedsNoLead
<1> QED BY <1>1, SubmissionInvariant, PTL DEF Spec, RetryIsNeverRefused
==============================================================================
