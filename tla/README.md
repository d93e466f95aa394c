# Verification of the MSI School LMS

TLA+ models, TLC runs and TLAPS proofs for the school's learning and billing
platform (FastAPI and PostgreSQL behind a React frontend and a Telegram bot).
The models are written from the code under `src/`; paths below leave `src/` and
mostly `backend/modules/domains/` out.

    tlc -config Desk_safety.cfg MCDesk        # model-check one run
    tlapm DeskProofs.tla                      # check the proofs of one module

Contents: [the system](#the-system), [modules](#modules), [runs](#runs),
[fairness](#fairness), [statements the code does not keep](#statements-the-code-does-not-keep),
[proofs](#proofs), [only model-checked](#only-model-checked),
[not modelled](#not-modelled), [plan](#plan).

## The system

One PostgreSQL database (READ COMMITTED, `backend/core/database.py`) is shared by
several processes: web replicas, worker processes, a worker thread embedded in the
web process, and the bot. They interact through rows only. A unit of work
(`backend/core/unit_of_work.py`) is one transaction; a handler that takes its row
locks first and decides on what it reads under them is therefore atomic, and one
that decides on an earlier read is not. That distinction decides the grain of
every model here.

| component | state | what is hard | correct when |
| --- | --- | --- | --- |
| durable jobs: `jobs`, `application/worker.py` | rows of `outbox_jobs`, claimed batches | crashes between transactions, leases shorter than handlers, stale workers | delivered at least once within a budget, stale workers fenced off |
| invoice ledger: `finance/commands.py`, `ledger_repository.py` | invoices, versions, payments | two tellers, double submits, a balance kept in two ways | money neither lost nor invented; a form acts once |
| Payme: `finance/integrations/payme` | provider transactions | provider retries, reads before locks | one pending transaction per invoice, settled in full or not at all |
| admission settlement: `admissions/contracts.py` | admission, student created | two modules write one invoice | enrolment follows settlement |
| payment enforcement: `finance/enforcement*.py`, `job_handlers.py` | schedules, holds | late, repeated and dead jobs, shared households | held only while overdue and owed |
| billing cycles: `finance/billing_cycle*.py` | profiles, cycles, reviews | delayed issue against edits, checks without locks | one charge a period, nothing on a superseded cycle |
| billing notifications: `finance/job_handlers.py` | deliveries | send before record, moved links | one message each, sent means received |
| admission contracts: `admissions` | contracts, links | two sides lock in opposite orders | payment asked on an accepted contract only |
| sessions: `identity` | account versions, cookies | answers out of order | a session knows the present password |
| parents: `parent_relationships`, `support_cases` | invites, parents, links | four kinds of transactions on the same rows | one live invite, one Telegram user |
| student records: `student_records`, `support_cases`, `academics/groups` | records, accounts, enrolments | requests that overlap, deadlocks | one group per enrolment, account follows record |
| recruitment, academy, teacher records | columns, candidates, appointments, rosters | unlocked checks, recalculated stages, moved appointments | columns emptied, hires earned, people reminded once |
| support tickets: `support_cases/tickets` | tickets and their clocks, pages | clock against answers, keys that move under a walk | deadline from creation, each steady ticket once |
| curricula and slides: `academics/subject_curriculum` | lessons, drafts, conversions | two directors, two workers, retries | text replaced knowingly, waiting files queued |
| timetable, calendar, office hours: `academics` | rules, lessons, breaks, slots | only some commands lock | no double booking, history kept |
| gradebook, attendance, communications, organization, reporting, people workspaces | independent rows, or none | little | - |
| core, adapters, bot, frontend, migrations, scripts | configuration, caches, object storage | wiring and I/O | - |

The ledger calls enforcement in the same transaction
(`reconcile_invoice_enforcement`); enforcement enqueues stage jobs and
notifications into the outbox in that transaction too; workers call back into
enforcement, billing and conversion; the security middleware reads the holds on
every request. Payme calls the merchant API; a settled invoice of an admission
activates it. Recruitment provisions teachers and their accounts.

`PROJECT.json` lists every component with its status, and the hazards of this
code at the line where they bite, with the properties that watch them.

## Modules

| module | models | proofs |
| --- | --- | --- |
| `Outbox` (implements `JobDelivery`) | `outbox_jobs` and its workers | `OutboxProofs` |
| `Settlement` (implements `PaymentAccount`) | invoices, staff, Payme, activation | `SettlementProofs` |
| `Enforcement` | schedules, stage jobs, holds | `FinanceProofs` |
| `BillingCycles` (implements `MonthlyCharge`) | cycles, issue jobs, reviews | `FinanceProofs` |
| `StudentRecords`, `ParentAccess` (implements `FamilyAccess`), `AccountSessions` | people | `PeopleProofs` |
| `SupportTickets`, `TicketQueue`, `AdmissionContracts`, `BillingNotifications` | the desk | `DeskProofs` |
| `OfficeHours`, `LessonDrafts`, `PresentationConversion`, `GroupTimetable` | academics | `AcademicsProofs`, `TimetableProofs` |
| `PipelineStages`, `CandidatePipeline`, `AppointmentReminders` | recruitment | `RecruitmentProofs` |
| `Money` | sums of amounts as cardinalities, so that provers can count | |
| `MC*` | instances for TLC | |

**Outbox.** Each row's status, attempts and lease owner, two facts the queries
derive from the clock (expired, due), each worker's phase and batch and the attempts
it read when it claimed. A claim is one transaction; `SKIP LOCKED` means that any
part of the claimable rows may come back. Execution is split where the code
commits, with a crash possible at each point. A worker that completes a job whose
lease it lost leaves its loop (`LoseLease`). History variables count commits,
invocations and replays. `JobDelivery` is what a producer may rely on: bounded tries,
completed only after the effect, given up only when the budget is spent.

**Settlement.** Invoices, receipts, Payme transactions with the payment each
leaves, provider calls in flight, admissions. A staff form quotes the version it
was shown (`form \in 1..version`: late, or sent twice). `CreateTransaction` and
`PerformTransaction` read before they lock and are two actions each. `paid_minor` is
written by recomputation (finance) and by increments (admissions, Payme); the
properties relate it to the payment rows. `PaymentAccount` promises per invoice:
money enters only as a payment of at most the open balance, leaves at most once, and
an invoice is voided only while nothing is paid on it.

**Enforcement.** Per invoice the ledger's verdict, the schedule, whether the
deadline has passed, the stage jobs to come, the accounts held, the household. Its
transactions lock schedule and invoice, so each is one action. A stage job may be
late, repeated, or given up, as `Outbox` allows.

**BillingCycles.** Cycles planned per period, issued by jobs that may be late or
repeated, superseded by edits of the schedule, covered by manual invoices under
review. A cycle's version is abstracted to whether the job key of its present version
is used (`keyed`); the four stage jobs are one; the database check
`student_billing_cycles_superseded_check` is `Permitted`. `MonthlyCharge` is one charge
a month, changed only while nothing was received on it.

**AdmissionContracts.** Staff offer, replace, review and cancel; parents submit
through links. A submission locks link, then contract, then admission; staff the
other way round; PostgreSQL aborts one of a circle. `MaxContracts` and `MaxLinks` bound
histories. The payment side is `Settlement`.

**StudentRecords, ParentAccess, AccountSessions.** Requests go step by step from
one row lock to the next; record versions are abstracted to whether a request's form
is still `fresh`. `reset_student_access` locks the account first, editing the record
first, and one of the two is aborted; so are two pairs among claims, invites,
edits and Telegram links. A user name that a claim gives by hand is looked up and stored as
a number is, and stands for one (`parent_relationships/repository.py:189`). `FamilyAccess` is what the office and the parents may rely on, as
if every request took effect at once: an invite opens the one child it was issued for, to
one parent, and only until the next invite of that child; who follows whom changes by a
claim or by Customer Support and by nothing else. In `AccountSessions` an answer re-sends the cookie it was
asked with, and answers arrive in any order; passwords are named by the version
that set them.

**SupportTickets, TicketQueue.** `SELECT FOR UPDATE` and the write after it are two
steps. Time goes in ticks, `Second` of them to a second and `SecondsPerMinute` seconds to a
minute, because three conversions round. Resuming moves the deadline by the exact interval
but adds it to `requester_wait_seconds` in whole seconds (`tickets/repository.py:545`): the
deadline is the creation plus the target plus what was waited, half a second for each pause.
The page compares `resolved_at` cut to its second by `to_char` (`read_sql.py:50`), the filter
the column itself (`repository.py:101`): a ticket resolved less than a second late is met on
the page and breached in the list. And the filter takes a quarter of the target in whole
minutes, the page in seconds: for less than a minute the page says due_soon before the list
does. `FilterIsCloseToThePage` says that they differ in no other way. The queue is walked page
by page by key.

**BillingNotifications.** Announcement, delivery row, job, message, record: a
crash can fall between message and record; links and households change.

**LessonDrafts, PresentationConversion.** Drafts remember whether they are `based` on
the lesson's present version; `missed` and `rewritten` are history. A conversion has a
key per try, an outbox row per key and workers whose lease may expire at any
time (`MaxTries` bounds the keys, `MaxCrashes` the crashes).

**GroupTimetable, OfficeHours.** All lessons share one time of day, so two
overlap when they share a date. Commands on breaks and cancellations lock the whole
group first and are one step; setting a rule locks nothing and is two.
Booking an office hour locks its slot, opening one the teacher's advisory lock.
Only the student routes that are mounted are modelled.

**PipelineStages.** Columns with row locks in three modes (X `FOR UPDATE`, N plain
`UPDATE`, K foreign-key check). A removal locks its column, lists and locks the
cards, shares the destination and rewrites the order of all active columns.
`MaxHops` (19 in the code) bounds how far a recovery follows replacements.

**CandidatePipeline.** One candidate; every command locks the candidate or compares
its version, so a command is one step. One attempt of a kind and result stands
for all: a kind that failed fails once more only after that attempt was deleted, and
`MaxFailed` bounds the failed ones (`evaluations/service.py:303` inserts any number). Some commands of the Academy and of the teacher list write the roster
without looking at the candidate.

**AppointmentReminders.** One appointment. A command and a change of the lead are
transactions of several statements with their own snapshots; `Overlaps` says whether
the two may overlap. Starts go up to `LastStart`, the clock ends at `LastTime`, so
that an appointment can be moved while reminders of its former time wait to be claimed.

## Runs

Each composite (`MCPayments` ... `MCCommands`) sets several components side by side.
A behaviour picks one `part` and lets the others stand still, so the reachable
states are the sum of the components', not their product; each module already has
the steps of others that touch its rows, so nothing is lost. In `MCRecruitment` the
candidate's behaviours are further cut in two (nobody fails; nobody is invited),
which leaves out those that mix failures with appointments.

| run | instance | shows |
| --- | --- | --- |
| `outbox_safety` | 2 workers, 2 jobs (one without handler), budgets, batch 2, one replay | leases fence, budgets hold, refinement of `JobDelivery` |
| `settlement_safety` | a student's invoice with forms and 2 transactions; an admission's 2 invoices, with forms or with 2 calls that create one provider id | ledger, forms, pending money, refinement of `PaymentAccount` |
| `finance_safety` | 2 invoices that share a household; cycles of 1-2 months with edits and a manual invoice | holds, one charge a month, refinement of `MonthlyCharge` |
| `people_safety` | 2 requests on 1 student; 2 requests on 2 parents, 2 invites; 2 browsers | records, families, sessions, decisions that stand, refinement of `FamilyAccess` |
| `desk_safety` | 2 requests on 1 ticket, 6 ticks of half a second; 3 tickets, pages of 1; 2 officers and 2 parents; 2-3 people, 2 chats | clocks, pages, contracts, notices |
| `academics_safety` | 2 directors, 2 lessons; 2 workers, 3 tries; 2 hours, 2 slots; 1-2 groups, 5 days | drafts, conversions, bookings, timetables |
| `recruitment_safety` | 3 columns (one added), 1 card, 2 requests; 1 candidate; 1 appointment, starts up to 4 and a clock up to 3, leads 1 and 2, 3 versions, 1 change of lead | columns, candidates, reminders |
| `background_liveness` | outbox; 2 overdue invoices and room for 1 in a reconciliation; cycles, notices, conversions, pages | what is started is brought to an end |
| `commands_liveness` | contracts, drafts, parents, records with 2 requests | every command that locks ends |
| `settlement_retry`, `enforcement_reopened`, `lessons_added` | small | three of the disagreements below |

Bounds, and why they are enough. A total of 2 units is the least at which a part
payment exists. Two of each actor is the least at which two compete, and guards
look at one row and at most one other, so a third adds no new relation; where it does,
it is there (three columns: removed, destination, added; three people: two
of one household and one outside). Two workers and a budget of two give an expired
lease, a reclaim, a stale outcome and a last attempt. `MaxReplays`, `MaxWaiting`,
`ByHand`, `MaxContracts`, `MaxLinks`, `MaxVersion`, `MaxMessages`, `MaxTime`, `MaxTries`,
`MaxSends`, `MaxDecisions`, `MaxFailed`, `MaxConfig`, `LastTime`, `LastStart`, `LastDay`, `MaxRules`, `MaxBreaks`,
`MaxRecorded`, `MaxSlots` and `MaxBookings` bound histories that grow for ever in the
code, as guards of the actions. Runs say `CHECK_DEADLOCK FALSE` because such supplies,
the calendar and the ids run out. Symmetry is used in safety runs only, over values that
no expression orders.

What the instances restrict, beyond sizes:

- `academics_safety` has no crash and two workers (see `UnsettledIsQueued` below). Its three
  timetables keep apart what the code does not: in one, a single request replaces rules while
  breaks may commit between its read and its write; in another, one request edits lessons and
  cancels dates between breaks; in the third, two requests edit the lessons of two groups of
  one teacher. No rule is set while another command is under way.
- `recruitment_safety` adds one column and lets no change of the lead overlap a command. It
  keeps one decision and one failed attempt: that a hired teacher is rejected, and that a
  later decision refuses, is covered by the theorems alone (`MaxDecisions` 2 is beyond TLC's
  reach here). The last of the three versions of an appointment takes a start back.
- `desk_safety` moves no links where it counts messages; `background_liveness` moves none,
  and no worker crashes there in a conversion.
- In `desk_safety` a minute is one second long, a second two ticks, and the targets are 4
  minutes, or 1 and 2 for urgent tickets. All differences of filter and page occur; a wait is
  rounded up there and never down, which the theorem covers.
- In `background_liveness` the household of the first of the two overdue invoices keeps still.

The statements that fail without these restrictions are listed below.

## Fairness

`Outbox!FairSpec` assumes that time passes, that a live process goes on, that a
stopped one is started again (`railway.json`: `ON_FAILURE`, at most 10 times in a
row; beyond that it is the operator who restarts it) and that a process which polls
again and again comes to every job that is due again and again (the claim orders by
`available_at`); crashes may recur for ever. It is not justified for the thread
embedded in the web process (`application/curriculum_worker.py:57`), which dies of
`LoseLease` until the next deployment. `Enforcement` assumes only that the
reconciliation runs again: it enqueues its own successor every 15 minutes. A reconciliation
reads the first `ReconcileLimit` (500) schedules by deadline (`enforcement_repository.py:552`),
and those that are held stay in front until they are paid. So `CountdownEndsInHold` and
`HoldsFollowHousehold` promise only while a schedule is `Listed`; beyond the limit a countdown
whose job died, or a changed household, can wait for ever.
`BillingCycles` assumes the planning job and the issue jobs; `BillingNotifications` and
`PresentationConversion` that jobs are worked on and abandoned leases expire (which
`Outbox` justifies); `TicketQueue` that the reader asks for the next page. Commands that
lock rows (`commands_liveness`) have strong fairness: PostgreSQL's lock queues are
first come, first served, and its deadlock detector aborts one of a circle. So `CommandsEnd`
cannot tell a good order of locks from a bad one; it says that no command, done, refused or
aborted, keeps a row that others wait for. Nothing is
assumed of payers, parents, officers or the calendar.

## Statements the code does not keep

Each is a definition of its module, named for what a document, a message or a
comment of the repository says; TLC finds it violated by the model of the code.
Three are runs that expect the violation, with their finding in `PROJECT.json`:

- `RepeatedCreateIsAnswered` (`settlement_retry`): `docs/ENGINEERING_PAYME_MERCHANT.md:34`
  says that repeated requests return the persisted result; a repeat that overlaps
  the first call finds its row as "another" pending transaction (`payme/service.py:232`).
- `OverdueIsRestricted` (`enforcement_reopened`): `docs/CEO_OVERVIEW.md:174` promises
  restriction until payment; an invoice reopened by a reversal after its deadline
  keeps its schedule `cleared` (`finance/enforcement.py:223`).
- `MaterialSurvivesPublishing` (`lessons_added`): material attached while a draft is open
  goes when the draft is published, which `drafts.py:222` says is refused
  (`subject_curriculum/contracts.py:582`).

The others were found the same way; their definitions stay beside the properties that
hold, each with the quoted line:

| module | statement | where the code departs |
| --- | --- | --- |
| `Settlement` | `VoidedHasNoPending`, `FirstPaidInvoiceActivates` | `finance/commands.py:324`, `:162`: finance commands on an admission's invoice |
| `BillingCycles` | `AppliedMoneyKeepsItsCycle`, `ReviewCanEnd`, `PausedIsNotBilled` | `billing_cycles.py:441`, `:388`, `:251` |
| `BillingCycles` | `AllocationsWithinPaid`, `OpenInvoiceShowsOnItsCycle` | `commands.py:264`, `billing_cycle_repository.py:540` |
| `BillingCycles` | `PlannedIsIssued` under the documented allowlist | `docs/ENGINEERING_DEPLOYMENT.md:99` lacks a topic |
| `Enforcement` | `CountdownEndsInHold`, `HoldsFollowHousehold` without `Listed` | `enforcement_repository.py:552`: a limit over an order in which held schedules stay first |
| `AdmissionContracts` | `CancelledStaysCancelled` | `admissions/repository.py:570` |
| `StudentRecords` | `ArchivedSitsNowhere`, `SitsInOwnSchool` | `customer_records_service.py:642`, `:584` |
| `ParentAccess` | `ChangedParentIsRefused`, `ClosedParentStaysOut` | `customer_records_service.py:770`, `identity/repository.py:481` |
| `AccountSessions` | `ChangerStaysSignedIn` | `identity/api.py:63` |
| `SupportTickets` | `ResolvedTicketsAreReadOnly` | `tickets/transactional.py:586` |
| `LessonDrafts` | `RefusedMeansChanged`, `SaveKeepsUploads`, `ShownWasPublished` | `repository.py:498`, `revision_repository.py:401`, `:511` |
| `PresentationConversion` | `PublishedSlidesShow`; `UnsettledIsQueued` after a crash or with a third worker | `presentation_repository.py:52`, `:75` |
| `GroupTimetable` | `HistoryMovesKnowingly`, `BreaksAreRefusedForAReason`; `DatesAreFree`, `OneActiveRule`, `OneLessonAtATime`, `TeacherInOnePlace` while rules are set or slots recovered | `timetable/service.py:198`, `:259`, `calendar/service.py:266`, `operations.py:73`, `:113` |
| `PipelineStages` | `CardsSitInActiveColumns` | `candidates/service.py:536` |
| `PipelineStages` | `RemovalLeavesNoCard` while two creations of a column overlap | `recruitment/service.py:535` lists the columns without one not committed yet |
| `CandidatePipeline` | `RejectedHasNothingOpen`, `TraineeIsOnTheRoster`, `TraineesCanBeRemoved` | `evaluations/service.py:824`, `assessments.py:154`, `handoffs/service.py:95` |
| `CandidatePipeline` | `ClosedTeacherStaysDisabled`, `TraineeCanSignIn` | `teacher_records/service.py:20`, `account_provisioning.py:110` |
| `AppointmentReminders` | `OneWaitingReminder` with `Overlaps`, `EveryoneIsReminded` after a change of the lead | `notification_repository.py:89`, `:154` |

## Proofs

Every theorem holds for all values of the constants, constrained only by the named
assumption of the module (which TLC evaluates in the runs) and, where it says so, by
one more condition. A theorem about a component of a composite is proved for the
component's own specification and carried over by one lemma (`EachComponent`): whichever part moves, the others take a
stuttering step.

**Outbox** (`OutboxProofs`). `LeasesSound`, `LeasesFence`, `CompletionFollowsEffect`,
`BudgetBoundsInvocations` and the refinement `OutboxDelivers` assume `UniqueWorkerIds`:
two processes with one id pass each other's owner check, for the owner column
holds no attempt number. The inductive invariant says why a stale worker is still fenced
off: a held job whose row the process still leases is at the attempt it read, because
every way of changing the attempt goes through a row that is not leased. `SettledForGood`
and `AttemptsTellApart` need no such assumption (`SeenIsPast`: whoever holds the job read
at most what the row shows now).

**Settlement** (`SettlementProofs`). Everything the runs check of it but the expected
violation: `PendingIsUnique` (inserted under the invoice's lock after a second
look), `PaymentsAgree`, `FormsAreUsedOnce` (each receipt uses a version up),
`ChangesOutdateForms`, `TheLedgerAddsUp`, `PendingMoneyIsHonoured` and the refinement
`AccountsAreKept`. `PendingMoneyIsHonoured` says that nobody adds money to an invoice with a
pending transaction, that the transaction's amount therefore stays open, and that performing
it settles the invoice and activates the admission in the same step; it does not say that the
invoice stands still, since receipts may be reversed and finance may void it meanwhile. Sums are cardinalities of sets of units (`Money`), so that adding a payment
is adding a disjoint set, where a recursive sum would need induction.

**Enforcement** (`FinanceProofs`). `HoldsOnlyWhileOwed` is not inductive alone: a late
reminder acts on an open invoice by its schedule's state, so one needs that the schedule
of an invoice that is settled or voided is closed (`ClosedWithInvoice`).
`OnlyPaymentReleases` and `ToldAreFree` follow action by action.

**BillingCycles** (`FinanceProofs`). `MonthsCost`, `ReplacedForGood` and the refinement
`ChargeByMonth`: rows are numbered in the order of insertion and keep their terms; a new
cycle comes only where none is current or in the step that supersedes it; invoices live
only under cycles that are not superseded, thanks to the database check.

**People** (`PeopleProofs`). Parents: what a request has locked stays as it was (`Held`), a
parent that a claim inserts is named by nobody else (`NewApart`) and its Telegram user is
locked (`InsertsAlone`), requests of the present version saw the truth (`SawTrue`); hence
`FamilySound`, `AnswersAreFinal`, `ReopenedKnowingly`, `UnlinkStands`, and the refinement of
`FamilyAccess` (`AccessChangesAtOnce`): the step that commits is the abstract operation, every
other step stutters, and what the request decided on at its first read is still true at the
commit. Records: the same scheme for account, record and enrolment. Sessions: a version names the password, and
every change or closing moves it. `PeopleKeepDecisions` is the action property of the
composite.

**Desk** (`DeskProofs`). Tickets: whoever is under way on a ticket holds its row, so what it
read is there when it writes, and `Follows` says what a command may make of a row;
from it `DeskKeepsDeadlines`, `ResolvedForGood`, `RepliesCount`. For the conversions: a wait in
whole seconds is off by at most half of one (`NearestSecond`), a time cut to its second is less than a second back (`CutBelow`), and a
quarter in whole minutes is less than a minute short (`QuarterAtMost`). Queue: a ticket whose key
stays is shown if and only if the cursor has passed its place
(`WalkShowsSteadyTicketsOnce`); that a page has a last ticket is proved from the greatest
position of a finite set. Contracts: staff lock the admission first, so at most
one of them is on its way and what it looked at stays; a submission takes link and
contract before it writes, and every command that replaces one of the two takes that row
too. Notices: only the first of the household with a chat has a job (`ToldOnce`);
a delivery keeps the chat it was made with (`SentWereReceived`, with moved links).
`DeskKeepsTicketsSound`, `DeskKeepsNoticesSound`, `ExchangeKeepsContractsSound` and
`DeskKeepsDecisions` state the run's four properties.

**Academics** (`AcademicsProofs`). Office hours: what a request found still holds under
the lock it has. Drafts: who missed a change holds an outdated version, and every command
that replaces text asks for the present one (`TextIsReplacedKnowingly`). Conversions
(`WaitingFilesAreQueued`), with at most two workers and no crash: of a key nobody has
begun, at most one other worker is left on the file; after it stores its slides nobody can
fail the file, after it fails the key is still to be tried. TLC shows the statement false
with three workers or with a crash, so these two conditions are not a weakness of the
proof.

**Timetable** (`TimetableProofs`). An edit holds its group, its teacher and its lesson from
the check to the write, so the date it found free is free when it is written. Breaks and
cancelled slots compute dates in the statement that writes them: the k-th free day exists
when enough days are free, it grows with k, and it is no closed, blocked or taken day
(`KthIsThere`, `KthGrows`, by the well-founded order of the days and cardinalities, with
no induction along a group's lessons). So `BreaksLeaveHistory` and `BreaksFindRoom` hold
without a condition. A request that sets a rule plans on what it read and locks nothing
until it writes, and a recovered slot asks nobody; where the code makes a statement false
(table above), the theorem names the condition under which it holds: `DatesStayFree`
while no rule is being set (`[]NothingScheduled`), `GroupsHaveOneRule` while no two
requests set the rule of one group (`[]SchedulesApart`), `EditsKeepApart` while besides no
lesson is cancelled and no break declared (`[]NothingReflows`). `NoRuleIsSet`,
`OneRequestIsApart` and `NothingIsMoved` give the constants that make each condition
hold, as in the three instances of the run, for which `AcademicsMoveLessonsFreely` and
`AcademicsTimetableSound` state the run's two properties. The assumption bounds the
groups by `MaxRules`, the number of rule ids, because every group may have a rule when a
run begins.

**Recruitment** (`RecruitmentProofs`). Columns: who removes holds X on its row and the destination's
key, whoever is about to commit an order holds or waits for N on every active column, so
nobody else is removing; the cards it listed are locked. The theorems assume
`[]AddsApart`, that no two creations of a column overlap (`OneNewColumnIsAddedAlone`
shows that this is so where at most one is ever added, as in the run; with two TLC
finds the removal that leaves a card). `ReplacementsResolve` follows from paths in the
invariant that are no longer than the number of removed columns, hence `HopsSuffice`: no
more columns than `MaxHops`. Candidate: a
decision of the system was taken on the board, is the only one that rests on its
evaluation, and every command either takes decisions back or appends one. Reminders, while
`~Overlaps`: a transaction that has looked saw all that waits or adds nothing, all that
waits tells the present appointment, and a command writes the next version, so its keys
are new; that nobody is forgotten is proved until the first change of the lead commits.

**Waiting for rows.** Five components take row locks step by step: records, parents,
contracts, drafts and columns. For each it is proved, as the conjunct `SomeRequestMoves` of
its invariant (`SomeCommandMoves` for drafts, theorem `CommandsNeverAllWait`), that of any
number of requests that wait for rows one can go on: the row it asks for is free, or the
request is in a circle, so that PostgreSQL's detector aborts it. A wait with no way out would
need a request that waits for itself, for a row nobody answers for, or behind one that has
stopped without giving its rows back. If everybody is blocked,
a smallest set of requests whose blockers lie in it (the requests are finite, so there is one)
is a circle. Finiteness is all that is assumed of them (`Requests`, `Users`, `Directors`,
`Parents \cup Staff`); records, with two rows and so only pairs, needs not even that.
This is the safety half of `CommandsEnd`; that requests are then served in
turn stays with TLC.

## Only model-checked

Every safety property of the passing runs is stated by a theorem. What is left to TLC:

- Liveness (`EveryJobSettles`, `HoldsFollowHousehold`, `AskedIsAnswered`, `CommandsEnd`): it
  rests on fairness, which needs ENABLED, out of the prover's reach.
- `UnsettledIsQueued` beyond two workers is false, not unproved.
- The expected violations, and the other statements of that section, which are false.

No module declares a RECURSIVE operator: chains of replacements and reflows are
recursive functions or least elements, sums are cardinalities.

## Not modelled

Components without a module: legacy payment pages, gradebook, attendance and lesson
pages, communications, organization, reporting, people workspaces, middleware,
wiring, adapters, bot, frontend, scripts; they keep independent rows, or none. Within the
modelled components: pages and queries, which change no state; numbering of invoices,
audit events, wording; how long a deadline is (only whether it has passed); lock waits
inside the handlers of `Settlement` and `Enforcement`, which lock first and are one action
(so their deadlocks, and the write skew of two settlements that release one household
at once, are outside the model); pricing modes and start dates of billing profiles;
document rendering and storage; staff accounts, login codes, rate limits, CSRF;
candidate tasks, assignments and notes; `delete_academy_teacher` and
`delete_teacher_by_id`; generic sessions and the capacity of groups; functions that no
route calls.

## Plan

1. The locking model of `Settlement` and `Enforcement` (lock waits, write skew).
2. Staff accounts and person codes, ratings and gradebook pages, recruitment tasks and
   settings, object storage of uploads.
