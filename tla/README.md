# Formal models of the HELOC demo

TLA+ models of the behaviour of this repository that is hard to test: requests
of Lead Intake racing over one Lead, calls that time out and take effect all
the same, a process that stops between two saves, emails delivered twice, a
result page whose answers come out of order, an operator's page put together from
sources that fail, set-up scripts that overlap. Each module is translated from
the source it names; TLC checks it on a small instance and, for the modules
with a `...Proofs` companion, TLAPS proves the main properties for every value
of the constants.

    tlc -config pipeline.cfg MCLeadPipeline.tla     # model-check a run
    tlapm LeadPipelineProofs.tla                    # check the proofs of a module

`PROJECT.json` lists, for every definition, the lines it models; for every run,
its properties; for every property, a plausible bug of the code (a *mutant*)
that breaks it. Operators marked `mutant` in a module are these bugs; nothing
in `Next` uses them.

## The system

| Component | State it keeps | Operations | Hard behaviour |
| --- | --- | --- | --- |
| **Lead aggregate** (`apps/intake/src/domain`) | status, decision, Chase with the accepted reply, review, Outcome Notice, version | commands with guards; `nextStep` derives what to do from the data, the status is assigned | the status and the data may drift apart along a legal sequence of commands |
| **Lead pipeline** (`apps/intake/src/application`) | none of its own: a copy of the Lead per request | `submitLead`, `replayLead`, `receiveChaseReply`, `continueLead`, all ending in the loop of `advance` | several requests advance one Lead; every `await` is an interleaving point; a failed call may have worked |
| **Persistence** (`apps/intake/src/infrastructure/db`) | leads, figure_decisions, chases, outcome_notices, lead_events | `save` (one transaction, version check), `findById` (four selects, no transaction), `findByChaseId`, `recentForEmail`, `needingAttention` | lost updates, torn reads, uniqueness under an advisory lock |
| **Figure mock**, **Borrower Outreach** (`apps/figure-mock`, `apps/chase`) | Outreach: none, the email provider keeps idempotency keys | soft pull, document review; send a Chase or a notice | timeouts after the work was done, repeated sends |
| **Inbound email worker** (`apps/email-inbound`) | none: the sender's mail server keeps the email | build the Inbound Email, judge its sender, forward it | which failures make the sender retry, overlapping deliveries, headers written by others |
| **Web** (`apps/web`) | quiz: draft and submission key; result page: the effect, its timer, what is shown | submit, poll, Check again, Retry, Replay | answers of superseded requests, polling that must stop and must not multiply, cards that must say only what is so |
| **Operator pages** (`apps/web` `/ops`, `packages/ops`) | the refresh timer; the list's Replay under way and its outcome | gather the overview, refresh, pause, Replay | parts read at different moments or not at all; state kept or lost across renders |
| **Set-up scripts** (`scripts`) | none: the accounts they set up | list what is there, create, patch, delete what differs | runs that overlap or die between two calls |
| **Packages**, deployment | none | contracts, server kit, configuration, logging | graceful shutdown; otherwise none |

The quiz posts a submission to intake. Intake inserts a Lead and runs its
pipeline in the same request: soft pull at Figure, then a Chase email through
Outreach or an Outcome Notice. A borrower's answer to the Chase reaches the
Worker by email and intake by `POST /v1/inbound-emails`; the pipeline goes on
in the background. An operator or the borrower resumes a failed Lead by
Replay. The services share no state but the database of intake and, at the
email provider, the idempotency keys. What makes each part correct is stated
as the properties of its module, below.

## Modules

| Module | Models | Uses |
| --- | --- | --- |
| `LeadAggregate` | `lead.ts`: each command as an operator on a Lead record, with its guard | |
| `LeadLifecycle` | the abstract specification of one Lead: forward only, one Chase, one review, one truthful notice; and what follows from it for the borrower (`BorrowerKnows`, `NothingComesBack`) | |
| `LeadStore` | the rows of one Lead: what a select of `findById` reads, what `save()` leaves | `LeadAggregate` |
| `LeadPipeline` | handlers of intake over one Lead, the saves and loads of the repository, Figure and Outreach | `LeadStore`; implements `LeadLifecycle` |
| `Submission` | `POST /v1/leads`: which submissions become Leads, which are answered with an earlier one (ADR-0007) | |
| `InboundEmail` | sender's mail server, Worker and `POST /v1/inbound-emails` | `LeadStore` |
| `ResultPage` | `useLead` and the buttons of the result page | |
| `LeadView` | what intake answers of a Lead, what the result page's cards state, and where a Replay is offered | `LeadPipeline` |
| `OpsConsole` | the page `/ops`: its overview, refresh timer and list with Replay | |
| `Provisioning` | runs of `setup-betterstack.ts`, `setup-dashboards.ts`, `setup-resend-domain.ts` over the accounts | |
| `Underwriting` | the rules of `soft-pull-policy.ts` and the quiz's preview of them (`money.ts`), as operators | |
| `Quiz` | the quiz page, the network, intake and Figure behind it | `Submission` (its actions, step by step), `Underwriting` |
| `MC...` | small instances: the emails, replies and answers TLC uses | |
| `LeadPipelineProofs`, `LeadViewProofs`, `SubmissionProofs`, `ResultPageProofs`, `QuizProofs`, `OpsConsoleProofs`, `ProvisioningProofs`, `InboundEmailProofs` | theorems | |

### LeadAggregate, LeadStore and LeadPipeline

A *handler* is one request of intake. `pc` says at which `await` it stands,
`mem` is its copy of the Lead, `db` the rows. One action is the code between two
awaits: `Prequalify`, for example, is `startPrequalification` and the save that
follows, after which the handler waits for Figure. `SaveThen` is `save()`: it
commits when the version in the database is the one loaded (and the unique keys
on chases and outcome_notices allow it), and otherwise throws `ConcurrencyError`,
which nothing catches: the request ends. `SavedOver` says, column by column, what
the transaction leaves in the rows.

`findById` selects from four tables over separate pooled connections without a
transaction. `AtomicLoad = FALSE` is that code: `Load` then reads the tables one
by one, in any order, with other handlers in between. `AtomicLoad = TRUE` reads
them at once. A copy is *torn* when it has the version of the rows but older contents
(`Torn`): the leads row was read after another save, a second row before it, and
`save()`, which goes by the version, does not refuse it. **The code does not exclude that**,
and run `pipeline_torn_load` shows it. The main safety argument of the pipeline needs
that it does not happen, `NoLoadIsTorn`; the runs that check it assume `AtomicLoad`, the theorems
only `NoLoadIsTorn`, and say so. What holds of the code as it is, torn loads included, is
listed under Proofs. The difference disappears with one transaction
(repeatable read) or one joined select in `findById`.

Figure answers in one step (`SoftPull`, `DocumentReview`) and the answer reaches
the handler in another (`DecisionArrives`, `ReviewArrives`); in between the call
may fail (`PullFails`, `ReviewFails`). A request to Outreach stays in `requested`
after its handler gave up and may be delivered at any later time; the email
provider delivers one email per idempotency key (`Deliver`). `Die` is the end of
the process or of the database connection at any point, graceful shutdown
included, since it does not wait for background work (`server.ts`).

Abstracted: offers, reasons, document lists and timestamps, which steer nothing;
the events of the timeline, of which only the step named by the latest
`lead.failed` is kept, because the page and the operator's list show it. A UUID is
represented by the version its save produces, which is as unique.

### Submission

One action per await of `submitLead`: lookup by key, the ids of recent Leads of
the email, each of these Leads, the decision to insert, the second lookup after a
refused insert. The transaction of the insert is two steps, since other transactions run between its
statements: `CheckOpen` takes the advisory lock on the email (`LockIsFree`: no other
transaction of the email has it) and looks for an Open Lead, `Insert` writes the row and
commits, which releases the lock, or violates the unique index on the key. Leads pass through four stages: `undecided`, `settled`,
`notice_failed`, `told`; submitted, processing, waiting and failed are one stage,
because `isOpen` does not tell them apart. The clock only measures the 24 hours
of the duplicate window. `recentForEmail` stops at 20 Leads; the instances have
fewer.

### InboundEmail

Starts with a Chase the borrower has in the inbox and intake does not yet know to be
sent. The sender's mail server keeps an email until the Worker accepts it, and
tries it `MaxAttempts` times. `Forward` is the Worker's request; its answer is
heard only if the Worker still waits (`Hears`), and a request it gave up on goes
on at intake. `AuthenticationVerdict` is `authentication.ts`: the topmost header
of Cloudflare, more than one From header, a verdict about another domain. The
character-level parsing of the header is abstracted to the fields it yields. The
pipeline is reduced to the saves that can get between load and save of a reply
(`ChaseSent`, `ChaseCallFails`, `Reviewed`). A reply's request loads the Lead with
`findByChaseId`, hence with the same four selects, and `AtomicLoad` is the same switch as in
`LeadPipeline`: the run has `TRUE`. With `FALSE` in `inbound.cfg` TLC finds `NothingIsLost` and `FirstReplyStays` false:
`receiveReply` looks only at the copy's Chase, so a request that read the chases row before another
reply was saved and the leads row after it replaces that reply with its own, or, refusing, saves the
Chase without it. `AcceptedIsGenuine` holds either way. An address that is no reply address
and one of no Chase are both answered 202 without effect, and are one case. The
hash that stands in for a missing Message-ID is taken to be the same for each
delivery.

### ResultPage

The effect of `useLead` (its timer, its load in flight, `lastLead`), the state it
returns, and the Lead at intake, which moves on meanwhile. A click restarts the
effect at once, an answer of Replay only after the next render: `wanted` and `gen`
differ in between, and answers may arrive at the old effect. Time is reduced to
whether the polling window of the current status is over. Versions stand for the
content of a Lead, so that "older" has a meaning.

### LeadView

Operators over the state of `LeadPipeline`, no actions of its own. `toLeadResult` is intake's answer;
it is computed from a request's copy of the Lead, so `Answerable` holds every copy a request has
loaded besides the rows. A card is the set of statements it makes ("offered",
"reply_to_our_email", "documents_kept", ...), each judged against the rows and the borrower's
inbox. `ReplayQuestion` is the command line's rule for offering a Replay, next to the page's Try again
and `ListedOnceStale`, the list's.

### OpsConsole

Three parties: the world (two Leads that are failed, open or closed, each at its place in the order
of their last saves, and services in trouble), the server that renders the page, and the browser. A render reads
each section in its own step (`ReadSection`; the list in two, `FindLeads` and `LoadRow`), in any order;
a section may fail. `queue` holds the renders the browser waits for, by who asked: `refreshing` is
React's transition, true until the render asked for by the timer or the button is shown. `mounted`
and `table` say whether the list is there and which mounting it is, since `SectionBody` replaces it when its
section fails and its state goes with it. `needy` and `troubled` are what was wrong during the
whole of the render under way. Time is the age of what is shown and of the last attempt, up to the
interval; the clocks of browser and server agree.

### Provisioning

A run is a fixed list of stages (`Program`); a stage lists (`List`), computes the calls still needed
(`Plan`) and makes them one by one (`Call`). Any run may die at any point (`Fails`), is refused when
an object it listed is gone, and throws where the script does (`Missing`). `seen` is what a
script lists at one stage and uses at a later one: the monitors of the status page, the alerts. An
object is a name and whether it is as wanted. A listing read page by page is one moment, and so is the
rewriting of `.env`. The public URLs are configured, so no monitor is skipped.

### Underwriting and Quiz

`Underwriting` is the policy as pure operators: `Evaluate`, `Forced` (`force`: a demo outcome
against the rules), `ReviewDocuments`, `OfferAmount` with its caps and its rounding.
The quiz previews the same equity from limits of its own (`HelocLimits`); both are kept
apart, as in the code. Amounts are whole dollars and equity is in hundredths of a dollar:
85% is then exact, while the code compares floating-point numbers. It computes them
on both sides with the same expression, so they agree with each other. APR, term and payment
are left out.

`Quiz` composes the page, the network, `Submission` and Figure's decisions. Three of the nine
questions are kept: the two amounts, which are typed, parsed and
reformatted, and the credit band, for all that are plain values. `errors` is the set of fields
with a message. An amount is its value and whether it was formatted. `Update` and `Blur`
judge the next draft as the code does. A submission stays in `inFlight` until it arrives,
perhaps after the page gave it up (`NetworkError`) or was opened anew (`OpenPage`), which
forgets its key. `Intake` is one await of `submitLead`; `Inserting` also starts Figure's record
of the Lead. A 400 cannot occur, since intake parses with the schema whose output it is sent.
A demo outcome reaches Figure only with the request of its own submission; a Lead
that is replayed is decided without (`ForcedOutcomes`).

## Properties and runs

Every run finishes within two or three minutes on two cores.

| Run | Result | What it shows |
| --- | --- | --- |
| `pipeline` | holds | below |
| `pipeline_torn_load` | violated | a load that straddles a save makes `MatchingVersionIsFresh` false: the later save of that handler is not refused and overwrites rows |
| `pipeline_unlisted` | violated | `StuckIsListed`: a handler that ends between the decision and the Chase or the notice leaves a Lead on no list |
| `pipeline_refused_reply` | violated | `AcceptedReplyIsAnswered`: saving a refused email makes the save of the running review fail, and nobody continues it |
| `submission` | holds | below |
| `inbound` | holds | below |
| `inbound_too_early` | violated | `NobodyIsTooEarly`: documents are refused as earlier than the Chase the borrower answers |
| `result` | holds | below |
| `quiz` | holds | below |
| `result_stalled` | violated | `StalledIsTold`: polling ends on a failed load and the page keeps its spinner |
| `ops` | holds | below |
| `provisioning` | holds | below |

The violated properties quote a sentence of the repository each; `PROJECT.json`
names it under `findings`.

**`pipeline`**: atomic loads, two handlers, four arrivals (the submission, then Replays and
emails), one fault, three emails (the borrower's documents; another email with
documents; one without any). Two handlers are the fewest that race;
four arrivals allow submission, a Replay or a reply that races with it, a
redelivery and a Replay after the failure. One fault separates "failed" from
"done"; the violated runs need no more. The properties relate what is recorded to
what happened: a handler whose version still matches holds what is stored
(`MatchingVersionIsFresh`), the status says what the data say
(`StatusMatchesData`), each email belongs to the Lead's one Chase and tells the
outcome on record (`EveryChaseEmailIsTheChase`, `NoticeTellsTheOutcome`), sent
means delivered (`SentMeansDelivered`), the result page says only what is so, the error it shows is
about the step a Replay resumes, and it does not contradict the email (`PageIsTruthful`), a
Replay is offered only where work is left (`ReplayHasWork`), no command is refused by its guard
(`CommandsAreDue`), nothing recorded is changed (`RecordStays`) or run again
(`NothingRecordedIsRepeated`), and `advance` ends (`RequestsEnd`).
`ImplementsLifecycle` shows the refinement: the mapping takes `stage` from
`NextStep(db)`, `outcome` from `FinalOutcome(db)`, and the emails from the
borrower's inbox; loads, Replays, failures and repeated sends are stuttering steps.

**`submission`**: two concurrent requests, three submissions, two emails, two
sets of answers, one key or none, a window of one tick. `OneUndecidedPerEmail` is about the lock: its mutant is a transaction without it.
`AnswerIsOwnLead`, `RetryIsNeverRefused`. Handlers, emails and answers are
symmetric; the run has no liveness property.

**`inbound`**: any two of seven emails, two deliveries each, two failures: enough
for a delivery that overlaps its own retry while the Chase is marked failed.
`AcceptedIsGenuine` compares what the chain of header rules accepts with a
declarative definition of a genuine reply; `NothingIsLost` and `GenuineIsSettled`
follow a reply from the mail server to the record or back to the borrower;
`FirstReplyStays` is about two that race. The last two hold as long as no load is torn (above).

**`result`**: six changes of the Lead, two restarts of the effect.
`ShownNeverGoesBack`, `NothingHangs`, `OnePollAtATime`, `PollingEnds`.

**`quiz`**: one borrower, two pages, two submissions, five changes of the form, two
concurrent requests; a home of which 85% less one mortgage is the smallest line exactly, and less the
other a dollar below it. Two submissions are the fewest for a lost answer and a retry,
with an edit or a reload in between; five changes fill the form (three) and leave two to alter it.
`ErrorsAreCurrent`: messages are about what the fields hold. `KeysAreNotReused`: intake never has to
refuse a key of the quiz. `ResultIsOfTheForm`: the result page belongs to the answers in
the form. `RetryFindsItsLead`: whoever only tries again is never told that another application is in
progress. `PreviewIsKept` and `ReviewKeepsThePromise` relate what Figure decided to what
the page previewed and what the Chase asked for.

**`ops`**: two Leads and a list of one, so that the list can be full; the alerts as the other section
that can have issues; one change of the world, one section that fails or page opened anew, two
Replays, since an outcome can be overtaken only by a second. `AllClearIsEarned`: the headline and the list
miss nothing that was wrong all through the render. `OutcomeIsTheLastAnswer`: no answer of an
earlier Replay is shown for a later one, even when the list was replaced in between. `KeepsWatch`: no
old overview stays, no refresh or Replay hangs.

**`provisioning`**: one service, one rule, one metric, two DNS records; three runs of any scripts,
two at a time, one death, in an empty account or one used before. Three runs allow two to
overlap and a third to repair what they left. `NeverWithoutDashboard` holds under any overlap;
`RunsConverge` is about a run that nothing overlapped, as overlapping runs may create an object twice.

Counters are bounded by `MaxRequests`, `MaxFaults`, `MaxClock`, `MaxAttempts`,
`MaxEmails`, `MaxVersion`, `MaxGen`, `MaxEdits`, `MaxPages`, `MaxMoves`, `MaxReplays` and `MaxRuns`, each in
the guard of the action that counts. The runs may stop when a bound is reached or all is done, so deadlock is
not an error; only the operator's page never stops, and `ops` checks that.

### Fairness

- `LeadPipeline!FairSpec`: a handler that can run runs (the event loop); Figure and
  Outreach work off what they were asked; a call that is not answered times out
  (`createServiceClient` aborts it), which is why a handler's step and its faults are
  one fair action. No fairness on arrivals: nobody has to replay or to answer.
- `InboundEmail!FairSpec`: the mail server retries, and intake and the Worker finish
  what they began. The pipeline's own saves are not fair.
- `ResultPage!FairSpec`: the browser runs due timers and effects, requests end in an
  answer or an error, time passes. Neither the Lead nor the borrower is fair.

- `OpsConsole!Spec`: every read of the server ends in an answer or a timeout
  (`AbortSignal.timeout` in `health.ts`, `intake-client.ts`, `query-client.ts`, `status-page.ts`), the
  browser's clock and timer run, and a Replay gets an answer or a network error. Nobody has to press anything.

## Proofs

Two kinds of theorems have to be kept apart. **Of the code as it is**, torn loads included: all that is proved of
`Submission`, `ResultPage`, `Quiz`, `OpsConsole` and `Provisioning`, which hold no copy of a Lead to save; of the pipeline `TypeOK`,
`CommandsAreDue`, `SentMeansDelivered`, `RequestsAreFinite`, `RequestsNeverStick`, `OneEmailOfEach`, `DecisionsAreWrittenOnce`;
of `InboundEmail` `TypeOK`, `AcceptedIsGenuine`, `NoneIsStuck`. **Conditional**, with `NoLoadIsTorn` in the statement
(`Spec /\ NoLoadIsTorn => ...`): the other theorems of the pipeline, its refinement, `ReplayIsNeverEmpty`, and
`InboundNothingIsLost`, `InboundFirstReplyStays`, `NoneIsForgotten`; with the stronger `LoadsAreWhole`, `PageTellsTheTruth`, whose answers
no version check guards. The condition is one about behaviours, not a switch: a behaviour in which selects interleave with
saves satisfies it as long as none of its copies is torn, so the theorems say exactly what a torn load endangers. `AtomicLoadsAreWhole`,
`WholeLoadsAreNotTorn` and `InboundAtomicLoads` prove that what the runs assume implies it.

**`LeadPipelineProofs`** proves first, for any handlers, bounds and replies and with
torn or atomic loads, `TypeOK`, `CommandsAreDue` and `SentMeansDelivered`. They
need only what a handler knows by itself (`LocalInv`): a handler that waits for a
call holds a Lead for which that call is due, and its memory changes only by its
own steps. `SentMeansDelivered` holds for torn loads too because a Chase or
notice is marked sent only by a handler that saw the delivery of that very id,
and rows of a delivery are read from one table.

On the same assumptions rests the safety part of `RequestsEnd`, in two theorems. The loop of `advance` has no
bound of its own; `RequestsAreFinite` gives it one. `Left` counts the steps a request may still have: every round of
`advance` ends the request or makes an entry on the Lead it holds (a decision, a review, the id of a Chase
or notice, its delivery), the six entries are made once each, and a round takes at most three further steps. So every step of a
request lowers its count, which is 38 at most, and no step of another handler, of
Figure or of Outreach changes it. `RequestsNeverStick` says that what a request waits for can come: there
are tables left to read, or what it loaded to work on, or the email it waits for was handed over. What is left to TLC is only
that a step that can be taken is taken.

Also with torn loads, ids come once: `save()` throws for a second Chase or notice (the unique keys), a decision's row is inserted
once per kind, and versions grow (`IdsInv`). So the borrower gets one Chase and one notice at most (`OneEmailOfEach`), and no
decision or review is replaced (`DecisionsAreWrittenOnce`), whatever torn copies are saved. A reply and
the marks of delivery have no such guard, and are what a torn copy can take back.

On the condition `NoLoadIsTorn` it proves the rest of the safety
properties from the inductive invariant `IInv`. None of them is inductive: that a
save keeps what is recorded needs to know that a handler with a matching version
holds what is stored; that in turn needs every handler's copy to hold nothing
the record does not (`Keeps`), at a version not above the stored one. A copy of an older version may be any
mixture of states, since its saves are refused; one of the stored version that is not torn is the rows. `IInv` adds
the consistency of one Lead (`Consistent`) for the rows. The proof has one lemma
for each way a Lead changes, and one step for each action; the properties follow
from `IInv`, the action properties from `IInv` before and after the step.

Last in that module is `ImplementsLifecycle`, the refinement of `LeadLifecycle`. A save that goes through is
of the Lead the rows held (`SavesAreCommands`), so it moves the stage as the command does on that Lead: one lemma
for each command that moves it; the others change no more than status, ids and version, which the
lifecycle does not see (`QuietCommand`). A delivery is a step of the lifecycle because every email asked for carries the
Lead's one id, and nothing marked sent is undelivered, so the first delivery comes while its stage is due.
Two theorems then come from the lifecycle alone, a module of a few lines, and hold of the pipeline through the
refinement: `SettledMeansTold` (documents are awaited only from a borrower who was asked, the notice tells the outcome on
record, settled means told) and `StagesNeverComeBack` (however often a Lead is replayed, no stage, outcome or email is
taken back).

**`LeadViewProofs`**: `ReplayHasWork`, as long as no load is torn, from `IInv`; `PageIsTruthful`, as long as every
load is whole: then every copy a request holds is consistent and an earlier state of the record (`CopiesAgree`, `Keeps`), and what a card states never
becomes false later, since the record only grows and emails stay delivered.

**`SubmissionProofs`**: `TypeOK`, `OneUndecidedPerEmail` by the lock of the insert (`LockInv`: while a transaction is between its check and its insert no
Lead of its email is undecided and no other transaction of the email is there),
`AnswerIsOwnLead` and `RetryIsNeverRefused` from an invariant on what a request
remembers between its awaits (the Leads it still has to load exist and are of its
email, the repeated one matches and is settled, a refusal was justified and stays so).

**`ResultPageProofs`**: `TypeOK`, `OnePollAtATime` and `ShownNeverGoesBack` from `IInv`: one
chain of polls, none next to a Replay or while a restart is pending, and no
answer on its way for the current effect that is older than what is shown. Without the
second part an answer of Replay could overtake a load of the same effect. `NothingHangs` from `HangInv`: an effect whose page
shows a skeleton has loaded no Lead yet, so a failed load shows the error page instead of leaving the skeleton up.

**`QuizProofs`** begins with the rules of `Underwriting`: for every valid application an offer is within the published limits, the
equity and the income cap (`OfferIsWithinBounds`: rounding down to a step of 5,000 cannot fall
below the smallest line); the preview is the first rule of the underwriter (`PreviewIsTheRule`);
the review approves whom the rules asked for documents (`ReviewIsConsistent`).
Then `ErrorsAreCurrent`, because validity of a field depends on that field alone
(`ValidityIsLocal`) and reformatting keeps the amount. `KeysAreNotReused` from `KeyInv`: of the
submissions sent, equal keys have equal answers; the key remembered belongs to a submission with the
answers remembered; whatever intake serves or stores was sent by the page. `PreviewIsKept` and
`ReviewKeepsThePromise` from `DecisionInv` (each decision follows the rules for the answers of its
Lead, which no step changes) and the theorems about the rules. `ResultIsOfTheForm` because an answer carries a Lead with the answers of
the submission it belongs to (`Owned`) and the form is shut while the page waits for one (`FormWaits`).
`RetryFindsItsLead`: the submissions of one attempt share their key, because `keyFor` remembers the
latest submission of the page (`AttemptInv`); a handler at work has the key of what it serves
(`ServesItsKey`); and intake refuses in one place, after it found no Lead with the key
(`RefusedWithoutLead`). Last, the `TypeOK` of the page, the network, intake and Figure.

**`OpsConsoleProofs`**: `OutcomeIsTheLastAnswer`, because a Replay in flight was asked from the list on
screen exactly if it is the one this list asked last (`ListInv`: a list that is unmounted takes its number with
it). `TypeOK`, with the queue of renders holding one refresh of the timer at most (`TimerTypes`).
`AllClearIsEarned`: what a section answered was so when it was read, so what was wrong all along was
seen (`SeenInv`); intake's answer is whole or has `Limit` Leads (`ListIsFullOrWhole`: the number of newer
ones is a bijection from the Leads in need to `0..n-1`), and each gets its row (`RowsInv`).
`PageNeverHangs` is the safety part of `KeepsWatch`: while a list waits for rows a Lead without one exists, because a
section is done exactly when there are as many rows as Leads (`GatherInv`, `AsManyRows`); the render a refresh waits
for is in the queue, and moves up with each render that ends (`QueueStep`); the Replay the buttons wait for was asked
from this list about this Lead.

**`ProvisioningProofs`**: `NeverWithoutDashboard`, for any number of overlapping runs that die
anywhere, any services, rules and records. A run deletes only dashboards it listed, and
only once its own is imported; so whoever imported last deletes nothing newer, and every delete call pending
anywhere is about an id that existed before some later import. Also the types of ids and phases.
`RunsConverge`, for any services, rules, metrics and records: each stage of a script promises a condition on the
account (`Promised`). Its plan is enough for it, but for the calls still owed (`PlanIsEnough`); each call keeps it with one less
owed (`CallKeepsPromise`); the stages after it leave it alone (`PromiseStays`), which needs the order of the stages
(`StagesInOrder`): the dashboard is the last thing set up, resources are matched after the page was filled, alerts are patched as
listed because nobody else works there. At the end of the program the promises of all stages are `Converged`
(`PromisesConverge`). `OthersStay` holds under any overlap: ids are never reused, so a call that was planned for an object hits that object or
none (`Known`), and only the plans of dashboards and resources delete.

**`InboundEmailProofs`**: `TypeOK`; `AcceptedIsGenuine`: for any headers the verdict that counts is the one Cloudflare prepended
(`CloudflaresCounts`), and the `From` fields are those the sender wrote (`FromsAreTheSenders`),
so the verdict passes exactly when the message is authentic (`PassIsGenuine`, `ReplyIsGenuine`);
As long as no load is torn: `NothingIsLost`: an answer that makes the Worker take an email over finds a reply on record, or was not about a genuine one
(`TakenOverIsRecorded`); `FirstReplyStays`: a copy of the Lead intake works on is of an older version than the rows or the rows
themselves (`CopiesAreOlder`), so a save that goes through starts from the reply on record.
The safety part of `GenuineIsSettled` is in two theorems. `NoneIsStuck`, with torn loads too: an email the Worker holds open with its
sender has a request of that attempt (`EachIsServed`) with something left to do, and each step of a request brings it nearer to its
answer (`Nearer`: a later place, or a select of its load). `NoneIsForgotten`, as long as no load is torn: when the sender is
done with a genuine email, it is on record, was handed over too early, or bounced.

Assumptions are the `ASSUME`s of the modules: bounds are natural numbers, `NoReply`
and `NoKey` are not replies and keys, replies have the fields the contract gives them,
storing answers twice changes nothing more, what is typed into a money field is an amount or
cannot be read, demo outcomes are among Figure's; Cloudflare has put its verdict on top of an email's headers, and the
MIME parser has sorted its parts and its `From` address (`InboundAssumption`); the services and rules of
the scripts are sequences. TLC evaluates them in the runs.

Only model-checked: the liveness properties (`RequestsEnd`, `GenuineIsSettled`, `PollingEnds`, `KeepsWatch`), as
TLAPS does not do fairness and `ENABLED`, and what the runs of torn loads refute. Of each of the four the
safety part is proved: nothing waits for what cannot come, and for all but `PollingEnds`, whose end is a matter of
the polling window, what is waited for only comes nearer.

## Differences between code and documents seen while modelling

Besides the findings, these are known from reading or from the models and are
not stated as properties:

- `CONTEXT.md:39` of intake says that a Lead has at most one successful Prequalification, and ADR-0003 that a
  Replay never runs a soft pull again. `startPrequalification` is saved before the pull and its result after,
  so a Replay that loads in between runs a second pull, and so does one after a crash or a timeout
  (`lead-use-cases.ts:117`). `NothingRecordedIsRepeated` is the part that holds.
- ADR-0007 allows one Open Lead per email (`lead-repository.ts:36`). A settled Lead lets the borrower submit
  changed answers; if its notice then fails, `markNoticeFailed` (`lead.ts:259`) makes it Open again, next to
  the second. `OneUndecidedPerEmail` is the part that holds.
- ADR-0007 promises that the same answers within 24 hours of a settled Lead return that
  Lead. The check for it runs before the insert and outside its lock
  (`lead-use-cases.ts:245`), so a Lead that settles in between is repeated; and the window is counted from
  `createdAt`, not from the decision (`drizzle-lead-repository.ts:120`).
- `matchesSubmission` compares answers with amounts stored as `numeric(12,2)`. A
  client that sends fractions of a cent gets 422 for a retry. The quiz sends whole cents.
- The result page stops polling when the first load after a restart fails, or when a load
  meets a Lead between its decision and the opening of the notice.
- `email-inbound`'s README and `index.ts` call all 4xx but 408 and 429 permanent; the code also treats
  401, 403 and 404 as temporary, which is what `NothingIsLost` relies on.
- `inbound-routes.ts` does not translate `ConcurrencyError`: it is a 500 and therefore retried. The
  409 of the Lead routes would lose the reply (a mutant of `inbound` shows it).
- `attention-table.tsx:22` says intake answers 409 to a concurrent Replay. It does when both
  reach a save with the same version, not when the second one loads during the soft pull. Its "A replay of
  this Lead is already running" is shown for every 409, also when a submission or a borrower's email won.
- `attention-table.tsx:23` says that the last outcome stays up across refreshes. When the attention section of one
  overview fails, the list is unmounted and the outcome lost; a Replay under way is forgotten too, so a second can be
  started next to it, although the buttons allow one at a time.
- The rows of the list are loaded after its ids (`lead-use-cases.ts:299`), so a Lead may be listed that is no
  longer in need, for example as stuck in approved. `generatedAt` is taken after the reads and so is newer than the data.
- `RUNBOOK.md:236` calls Replay of a failed Lead the only write of `/ops`; line 241, and the code, also replay stuck ones.
- `pnpm ops replay` says "Nothing to resume: the Lead is waiting on the borrower or finished" of a settled
  Lead whose notice was never sent (`scripts/ops.ts:257`); a Replay would send it, and the list offers it when the notice is
  pending.
- `RUNBOOK.md:54` calls the set-up scripts idempotent. They are, one run at a time; runs that overlap may create an
  object twice, and `findOrCreate` then uses the first. Nothing removes the other, except dashboards.
- `RUNBOOK.md:232` says that after a change of the rules or metrics the scripts bring them to Better Stack. The query
  of an exploration that exists, and a metric that exists, are left as they are.
- `setup-betterstack.ts --alerts` advises "run without --alerts first" for any missing source, but no script creates
  the one of `email-inbound`; it throws before `.env` is written.
- With two dashboards of the name (after overlapping runs) `--verify` checks the first listed.

## Not modelled

The wording of emails and cards; on `/ops`, the panels that only present numbers, and the SQL of
metrics, alerts and logs; what the scripts write into charts, `--verify` and `--wait`; configuration, logging, CI,
deployment and smoke tests (no behaviour of the running system); the parsing of MIME and header text. Borrower Outreach keeps
no state and does not retry: a request composes a text and sends it once with its
idempotency key, which is what `Deliver` does.

## Plan

In this order:

1. ADR-0007's second promise (same answers within 24 hours return the settled Lead), which the first
   difference above concerns, as a property of its own.
2. More of what is abstracted: the limit of 20 in `recentForEmail`, list and statistics of intake.
