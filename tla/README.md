# DAVI in TLA+

DAVI is a school administration system: a NestJS backend over PostgreSQL
(`src/apps/backend`), a web application that calls it, and background workers
inside every running backend instance. This directory models the parts of the
backend whose correctness depends on the order of events, checks the models with
TLC and proves theorems about them with TLAPS. Line numbers refer to the source
under `src/`; `PROJECT.json` maps every definition to the lines it stands for.

Contents: [inventory](#inventory), [modules and plan](#modules-and-plan),
[conventions](#conventions), [StudentImport](#studentimport),
[LeaveLedger and LeaveAccount](#leaveledger-and-leaveaccount), [DailyCover](#dailycover),
[a school year](#a-school-year) (EnrollmentSeats, AdmissionsPipeline, SchoolDirectory,
ParentConsent), [teaching and access](#teaching-and-access) (StaffPresence,
TimetablePublication, AssessmentWorkflow, LessonPlanning, SchoolStructure,
RequestAccess), [what is proved](#what-is-proved),
[what is only model-checked](#what-is-only-model-checked),
[disagreements found](#disagreements-found), [what is not modelled](#what-is-not-modelled).

## Inventory

All state is in PostgreSQL, apart from uploaded files on disk and a `running` flag
per worker loop. A request is a controller method that calls a service. A service
opens one interactive transaction at isolation level Serializable
(`admissionsTransaction`, `operationsTransaction`, `$transaction(..., {isolationLevel})`),
takes a lock of its own (`pg_advisory_xact_lock`, `SELECT ... FOR UPDATE`), or issues
statement after statement at the default level, between which other requests come. Two
loops run by `setInterval`: the import worker (every 10 s, on every instance) and the
daily operations worker (every minute).

| Component | State | Operations | Hard behaviour | What makes it correct |
|---|---|---|---|---|
| Student import (`student-migration/`) | job, files, rows, lease | upload, extract, map, edit, validate, approve, commit, roll back; poll, claim, heartbeat, purge | workers of several instances, crashes, lost leases, lost replies, stale candidates | every row written at most once; COMPLETED means complete and is final; sources scanned and present |
| Staff leave (`attendance/leave-balance.service.ts`) | requests, balances, ledger, policies | request, approve, reject, withdraw, cancel, allocate, read | lazy opening, credit and carry-forward in any order; policy and calendar change between approval and cancellation | balances equal their ledger, are not overspent; a refund is what was taken |
| Timetable coverage (`timetable/coverage*.ts`) | one substitution row per lesson and date | reconcile, assign, cancel, acknowledge | attendance, leave, overrides and duties are saved by transactions of their own; the worker passes over what people did | nobody covers two lessons at once or while away; cancellations and history stand |
| Staff attendance (`attendance/staff-attendance`, `staff-punch`) | one record per person and date with a version, day lock, punches, exception requests | mark in bulk, check in and out, ask for and decide exceptions, lock | corrections of corrections, lock against late saves, a policy that changes under them | nothing changes under a lock; whoever is away was reported |
| School operations (`attendance/school-operations`) | policy document, scopes, duties, overrides | settings, tasks, overrides | the policy document is read, merged and validated outside the transaction that writes it | the policy in force is one that was validated |
| Enrolment, seats, rolls (`student-admissions/`, `sections/`, `classes/`) | enrolments, sections, capacity policy | join, plan and confirm allocation, move, promote, withdraw, number | a plan previewed now and confirmed later, policy changes, deferred database triggers | no section above capacity, roll numbers unique, a plan overlooks nobody |
| Admissions CRM | enquiries, applications, fees, documents | follow up, apply, decide, amend, pay, waive, join | two clerks on one application, one child applying twice | decisions are about what was shown; a conversion is a joining |
| Parents (`parents/`) | a platform account, its memberships and links | create, onboard, edit, verify consent, link | two schools that know the same parent, requests that read first and write later | accepted without consent by one school at most |
| Timetable planning (`timetable/`, `period-templates/`) | plans, templates, entries | search, draft, publish, archive, edit timings and teachers | publication against edits and against other publications | no double booking of a teacher |
| Assessments (`exams/`) | patterns, exams, marks, observations, reports, AI comments | open, record, submit, review, approve, return, publish; generate and review comments | evidence that grows under a review, a budget shared by concurrent calls | an approved report is what was approved; comments are about their evidence |
| Academic workflow (`academic-workflow/`) | programs, sessions, lessons | analyse, plan, replan, progress, draft, approve | plans computed before the lock is taken, two subjects of one section | no overlapping plans, no lost lesson |
| Structure (`academic-years`, `classes`, `sections`, `subjects`, `teachers`, teaching assignments) | rows with foreign keys | create, update, delete, replace teams and class teachers | checks in another statement than the write | one lead per section; references stay valid |
| Schools, accounts, roles (`schools`, `users`, `staff`, `roles`, `auth`) | rows with unique identifiers and cascades | create, hire, grant, remove, register, sign in | a school is created by statements without a transaction | accounts hold roles of their school; a school keeps its administrator's role |
| Authorisation (`guards`, `operations-access`) | none; a token of seven days | three guards and the services' own checks | token, account, roles and rights are read at different times | a request is served on rights of its own time |
| Notifications, audit, reports, AI assistants, web, mobile, scripts | - | - | none of their own | - |

How they interact: a leave decision writes balances and the ledger in its
transaction and afterwards asks coverage to reconcile each affected date; saving
attendance does the same; both answer that cover is pending when that second
transaction fails, and the minute worker catches up. The import's `commitRow` calls
the same admission code as the front desk (`StudentAdmissionsService.create`) inside
its own transaction, and joining an application fills the sections EnrollmentSeats is
about. Coverage reads the published timetable, attendance, approved leave, overrides and
duties, and writes only substitutions. Every request passes the guards of RequestAccess
first.

## Modules and plan

| Modules | Depends on | Proofs | Status |
|---|---|---|---|
| `StudentImport` | - | `StudentImportProofs` | done |
| `LeaveLedger` implements `LeaveAccount` | - | `LeaveLedgerProofs` | done |
| `DailyCover` | abstract attendance and leave | `DailyCoverProofs` | done |
| `AdmissionsPipeline`, `EnrollmentSeats` | - | `AdmissionsProofs` | done (`MCYear`) |
| `ParentConsent`, `SchoolDirectory` | - | `SchoolProofs` | done (`MCYear`) |
| `StaffPresence`, `SchoolStructure` | - | `StaffProofs` | done (`MCTeaching`) |
| `TimetablePublication`, `AssessmentWorkflow`, `LessonPlanning` | - | `TeachingProofs` | done (`MCTeaching`) |
| `AccessRoutes`, `RequestAccess` | - | `StaffProofs` | done (`MCTeaching`) |

`SetLemmas` holds the facts about finite sets, least numbers and sums that the proof
modules share. `SchoolProofs` ends with the composition `MCYear`, `TeachingProofs` with
`MCTeaching`.

Left for later, in this order: an abstract specification of the import (a row is written
once) that StudentImport implements; the composition of AdmissionsPipeline with
EnrollmentSeats, and of StaffPresence with DailyCover in the place of its abstract
`Mark`; `leaveCreditSchedule` with proration and joining dates as a function that gives
the due days of LeaveLedger.

## Conventions

One action per transaction or single-statement update. A transaction is atomic
because the code runs it at Serializable isolation or under a lock, and a rejected
request leaves nothing behind; where the code makes two calls outside one transaction,
the model has two steps and everything else may happen between them. Uniqueness and
CHECK constraints of the schema are guards of the statement they would refuse. A request
that the code refuses is an action that is not enabled. Authorisation is RequestAccess
and left out elsewhere: any authorised person may act at any time.

Versions and update times, which the code compares for equality with what a person or a
request saw, are kept as whether that is still so (`fresh`, `seen`, `Stale`), which keeps
counters out of the state.

An operator `X_Variant` next to an operator `X` is `X` with a plausible bug; each
variant breaks one property of one run, which shows that the property can fail.
Nothing else refers to it.

Modules named `MC...` hold the instances for TLC. The components of `MCYear`, and those
of `MCTeaching`, share no variable. Each behaviour of these runs moves one component,
chosen at the beginning, so TLC visits the sum of their state spaces; an invariant of
one component that holds in all of them holds in the product, where the others only
stutter. The runs set `CHECK_DEADLOCK FALSE` because all these systems may rightly stop:
a job that is rolled back, a calendar or a day that has ended, or a bound that is reached.

## StudentImport

`StudentImport.tla` is one import job with its files and rows, the administrators
and the workers of all instances.

State: `status`, `revision`, `lease`, `leaseUntil`, `localOcr`, `retained` are
columns of StudentImportJob; `file` and `purged` the files; `row` and `skip` the
staged rows; `applied` counts the student writes outstanding for a row. Per
worker, `pc` says between which two database calls it is, `cand` is the record
`findMany` returned, `mine` the token it drew, `left` and `cur` what it iterates over.

Actions: the requests of `student-migration.service.ts` (each compares revision and
status in `lock()`), and `tick()` of the worker cut at each database call. A worker
finds (`Find`), claims by compare-and-set on status and token (`Claim`), then lists,
commits row by row, counts failures and finishes; or validates; or scans and
extracts file by file. `CommitRow` may lose its reply after it committed, which
sends the worker to its catch. `Crash` stops a worker anywhere, `ExpireLease` lets
ninety seconds pass, `DatabaseError` fails a call outside the inner loops.

| Run | Instance | Shows |
|---|---|---|
| `import_safety` | 2 interchangeable rows of 1 file, 2 workers, 1 fault, revision up to 9 | the six invariants and `CompletedIsFinal` |
| `import_live` | 1 row, 1 worker, 2 faults, background validation | `WorkEnds` |
| `import_clean_sources`, `import_ocr_opt_in`, `import_rolled_back` | smallest instance with the behaviour | a disagreement each |

Properties: `OnceOnly` (no crash, lost reply, second worker or re-extraction
repeats or forgets a student write), `CompletedIsComplete` (the count of failed rows
and the final update are two statements), `ExtractionErasesNoHistory`
(extraction deletes rows, but `queueExtraction` only looks for COMMITTED ones),
`CommitIsReviewed`, `SourcesPresent`, `CompletedIsFinal`, `WorkEnds`.

Bounds. An upload, extraction, validation, approval, commit and rollback take eight
revisions, so `MaxRevision = 9` lets a job go through everything and be
edited or retried. Two workers are enough for every lease conflict, which is always
between a holder and one other; one fault makes a lease expire under its holder or
kills a worker. With `InlineLimit = 2` and two rows validation is inline; the
liveness run sets it to 0, so validation is done by the worker.

Fairness (`FairSpec`): weak fairness of `Work(w) \/ Purge(w)` for every worker,
because `setInterval` calls `tick()` every ten seconds on each live instance and
nothing in a tick waits for a person; and of a lease expiring when nobody holds it,
because that is only time. No administrator is ever obliged to act. Crashes are
bounded, so a worker that is restarted eventually stays up.

One window is left out. `queueExtraction` compares `retainUntil` with the clock before
its transaction (student-migration.service.ts:48), and the purge selects the expired
jobs before it deletes their sources (worker.ts:25). `QueueExtraction` and the purge's
first step are atomic with the clock, so a request that passes the comparison in the
milliseconds before the deadline and commits after the purge's selection is excluded.

## LeaveLedger and LeaveAccount

`LeaveLedger.tla` is the leave of one person and one leave type.

State: `policy` as configured now, `balance` of each period (with the policy it
was opened under), `ledger` as a set of entries whose kind, period and cause are
the `dedupeKey`, and the requests. Days are numbers, periods the years they belong
to, amounts half days.

Actions: `RequestLeave`, `Approve`, `Reject`, `Withdraw`, `Cancel`, `Allocate`,
`ReadOwn`, `Configure`, `NextDay`. What is subtle is shared by `Approve` and
`ReadOwn`: `Ensure` opens a balance the first time anybody needs it, carries days
over from the period before, and `Accrue` posts every credit that has become due,
each clipped to the cap. Both are functions from a book (balances and entries) to
a book, as the code threads one transaction through them.

`LeaveAccount.tla` says what the ledger promises, without requests, policies, days or
lazy opening: for each period an account of days entitled, used and held by approved
requests. `Hold` takes a request's days out of the accounts they fall in, only as far
as a limited account has them; `Release` gives back exactly what is held; `Grant` never
lowers an entitlement; with a hold or a grant an account nobody has used may become
limited (`Limits`). LeaveLedger
implements it (`ImplementsAccount == Abstract!Spec`) under the mapping: `entitled` and
`used` are the columns of the balances that exist, `held` the deductions on record of
the requests that are approved, `limited` the balances whose policy is enforced. The
refinement is where the two paths meet that a test keeps apart: an approval may open a
balance, carry days into it, credit it and take days out in one transaction, which as a
whole must be a `Hold`.

| Run | Instance | Shows |
|---|---|---|
| `leave_safety` | two periods of two days, a holiday, 2 requests of up to two periods, two policies (monthly, capped; annual, overdraft), one allocation, an optional request from before the ledger | the invariants and that the ledger implements the accounts |
| `leave_spent_once` | the same calendar, one policy with carry-forward | a disagreement |

Properties: `BalancesMatchLedger`, `NoOverspend`, `RefundedWhenCancelled` (a
cancellation refunds what the approval deducted, in the same periods, whatever the
calendar and the policy say by then), `ImplementsAccount`.

Bounds. Two periods are what a request can touch (a leave is at most a year long)
and what a carry-forward connects; two requests are enough to compete for a
balance; two days a period give a credit that is due and one that is not yet.

Simplifications. One kind of period (calendar or academic) throughout; proration
and joining dates only change the days and amounts of credits; the reconcile call
after a decision is left to `DailyCover`; the deduction the migration backfilled
without a request is called LEGACY_USED to tell it from later ones.

## DailyCover

`DailyCover.tla` is one school day: lessons, their teachers, and the substitution
row of each lesson.

State: `now`; the context other components write: `attendance` (from when a
teacher counts as able to teach, from when as able to substitute, until when, which is
all that `unavailableForLesson` makes of a record), `away` (approved leave or half
day), `active` lessons, `duties`, `autoAssign`; and `row`, the TimetableSubstitution
rows with status, substitute, source and acknowledgement. `reconciled` has no
counterpart in the code: it is a history variable that says that nothing has happened
since the last pass, so that what a pass must establish can be stated as an invariant
(an action property would not see the passes that change no row).

Actions: `Reconcile` is one pass: the loop over rows closes what ended, what is no
longer taught and what is no longer needed, books the rest, and holds a cover if its
substitute is still a candidate beside what was booked before it; then `planCover`
serves the remaining targets. The rows come in an unspecified order, so the model
quantifies over all orders. The planner is modelled by what its result satisfies:
everybody planned is a candidate beside all others, and nobody is left who could take
an uncovered lesson; the ranking scores only choose among candidates. `Assign`,
`Cancel` and `Acknowledge` are the coordinators and substitutes. `Mark`,
`DecideLeave`, `DropLesson`, `RestoreLesson`, `AddDuty`, `CancelDuty`, `SavePolicy`
change the context in transactions of their own; whether the reconcile that follows
some of them runs, fails or comes late is left open.

| Run | Instance | Shows |
|---|---|---|
| `cover_safety` | lessons 0-2 and 1-3 that overlap, 3 teachers of whom one is free and two qualify, a duty 1-2, leave in the afternoon, 2 changes | the type invariant, two invariants and three action properties |
| `cover_live` | the same without the duty, 1 change, a day that ends one step after the last lesson (15 427 states) | `EndedIsClosed` |
| `cover_nobody_twice` | the same without the duty and leave, 2 changes | a disagreement |

Properties: `ReconciledCoversDisjoint` (after a pass no substitute has two needed
covers at once, even when a cancelled lesson was restored with its old cover),
`ReconciledCoversFit` (every needed cover is with somebody who is there),
`CancellationStays` (docs/school-operations.md: a manual cancellation remains until
regeneration or another assignment), `HistoryIsFinal`, `AcknowledgedInPerson`,
`EndedIsClosed` (the row of a lesson that is over is closed, or the local day ends first).

Bounds. Covers conflict in pairs, so two overlapping lessons suffice; a teacher who
teaches one and may cover the other makes lessons and covers compete; two changes
let attendance be corrected once; taking back (restoring a lesson, cancelling a duty)
is not counted.

Fairness: weak fairness of `WorkerPass` only, which is `Reconcile(FALSE)` before
`EndOfDay`. `tick()` runs it every minute for every school and repeats it after a failure,
but only for the school's current local date (coverage.service.ts:125). A row that failed
passes or downtime left open until local midnight is not visited by the worker again;
only an explicit refresh or a correction of attendance or leave for that date reconciles
it. So `EndedIsClosed` promises nothing beyond midnight. Nothing makes anyone assign or
acknowledge.

Simplifications. Weekly availability and teachers who are no longer active are folded
into `Suitable` and `away`; of the workload limits the daily maximum is kept, the only
kind whose verdict depends on the other covers of the day in the way the properties
see; the old statuses SCHEDULED and NEEDS_SUBSTITUTE are treated by the code like
APPROVED and UNCOVERED and left out; notifications are left out.

## A school year

The run `year` (module `MCYear`, 836 775 states) checks four components.

### EnrollmentSeats

Enrolments, sections, the capacity policy and the plans by which a class is divided.
Joining, the intake of a class, previewing and confirming a plan, moving in batches,
renumbering, changing a status, withdrawing, promoting, generating roll numbers, saving
a policy, and creating, editing and removing sections and classes are one action each,
as `admissionsTransaction` is Serializable. `Fits(s)'` is the deferred trigger that
checks a section when a transaction that wrote it, or a student of it, commits;
`EffectiveCapacity` is `effectiveCapacity` of capacity-rules.ts with all five sources of
a ceiling. A confirmation compares the policy only when the client sent one (`compared`),
as `expectedPolicy` is optional. `plan` is what a planner previewed; `Stale` says which of it a later write
outdates. `edited` and `overlooked` are history.

- `WithinSeats`: no section holds more than all ceilings allow, also after a policy was
  saved or a section shrunk. Classes whose year or group was edited are excepted: that
  path checks nothing (see the disagreements).
- `RollsUnique`: among all enrolments of a section and year, ended ones too.
- `NothingOverlooked`: a confirmed plan fills no section that holds somebody its
  preview did not show.

Bounds: two students and three sections in two classes of two years, four steps
(`MaxSeatChanges`), two roll numbers, one planner, batches of at most two (`MaxBatch`,
both students). A seat is contested by two; a plan is
outdated by preview, change, confirm; a promotion meets a join in three.

### AdmissionsPipeline

Enquiries, applications, decisions, fees, documents and joining. `shown` is what the
clerk's page showed and whether the row version is still that one; `blind` collects the
applications somebody acted on without having seen them as they are.

- `ConvertedIffJoined`: a follow-up never undoes a conversion, and no other step makes one.
- `ProfilesDiffer`: two profiles of one name and phone never share a birth date, nor
  lack both, whichever way the applications were created and amended.
- `DecidedOnShown`: who decides, amends, waives or joins saw the row as it is.

Bounds: one enquiry, two applications of one child, a payment, a fee that may be waived,
five steps (`MaxAdmissionSteps`), enough to apply, show, decide and join one while the
other is made; waivers and payments compete within one application. A direct admission
of the front desk is three of these transactions in a row.

### SchoolDirectory

Schools, accounts, roles and staff, with the cascades of their foreign keys. A school
is created by five statements without a transaction (`CreateSchool`, `CreateAdmin`,
`CreateAdminRole`, `GrantAll`, `AppointAdmin`), any of which may be the last
(`BreakOff`); registration and the removal of a role are split likewise.

- `SchoolsKeepRoles`: an account holds only roles of its own school, and a school whose
  creation came to its end keeps a system role SCHOOL_ADMIN with all permissions.

Bounds: two schools, one of them not yet created, three accounts, four roles, and two
other steps (`MaxDirectorySteps`) that fall anywhere into a creation, which is not
counted. Identifiers of what was deleted are not used again (`vanished`).

### ParentConsent

A parent is one platform account with a membership per school. Creation, onboarding and
linking read first and write later (`Ask...`, `Finish...`), so the requests of two
offices overlap; `GiveUp` is a request that fails between the two. A student who joins
brings a parent too (`AskJoin`, `FinishJoin`): `StudentAdmissionsService.create` makes the
account, the profile, the membership and the link, and the link is PENDING unless the
membership is verified. One parent per joining: a second one is the same again, and the
`verifiedParentIds` of a migration only restrict which parents are accepted.

- `ConsentFirst`: at most one school ever accepts a parent without consent, consent is
  verified for the membership the clerk saw, and students are linked only to parents
  that one of these two ways verified for that school.

Bounds: two offices, two persons of whom one has an account, two numbers, two students,
of whom one is enrolled at first (`FirstEnrolledAt`) and one joins, eight steps (`MaxParentSteps`): two requests of two steps each
with a removal, an edit, a page and a verification between them.

## Teaching and access

The run `teaching` (module `MCTeaching`, 509 333 states) checks six components.

### StaffPresence

One working day: marking in bulk by managers, self check-in and check-out, exception
requests and decisions, the lock, and the attendance policy. Reading and writing the
policy are two steps of a manager. A request may give a time, leave it as it is or clear
it, the four kinds of exception are told apart, and who approves one may supply the
times. `since`, `notified` and `sealed` are history.

- `AwayIsNotified`: whoever is away was reported away since last becoming so, also when
  an absence was corrected and confirmed again, by hand or by an exception. Recipients
  are abstracted: the code notifies nobody when no in-charge or administrator matches.
- `LockedDayStands`: while the day is locked the records are those it was locked with.
- `PolicyInForceValid`: two managers whose changes are valid one by one never leave a
  policy that is not.

Bounds: one member of staff (who is also a manager), two managers, one exception, two
clock readings, four steps (`MaxPresenceSteps`): mark, correct, ask, approve. Staff rows
are independent but for a bulk request, which fails as a whole.

### TimetablePublication

School timings and their versions, teaching profiles, subject teachers, and timetables
from the search to the archive. The search is any result `validate()` accepts; storing
the drafts comes later, and publishing one timetable is a validation and a write. The
requests that edit the setup (timings, versions, their status and sections, class
teachers' subjects, eligibility, replacements) check outside the transaction that
writes, or write without one (period-templates.service.ts:26-59,
teaching-assignments.service.ts:71): each is asked for (`setupAsked`) and carried out in
two steps, with anything in between. Entries of no plan (`TimetableService.createEntry`)
and single periods (`createPeriod`) are not modelled; what is published is checked
against such entries as against reservations from outside.

- `PublishedDoNotClash`: no teacher has two published lessons at one time, by the times
  the templates say now. Timetables whose subject teachers were replaced while they were
  published are excepted (see the disagreements); a replacement in a draft is not an
  exception, as publishing validates the draft again.

Bounds: two sections (a clash is between two), two teachers, two slots in two layouts, three timings, three
plans, one edit of the setup (counted when it is asked for) and three steps of plans: a
draft is checked, a second is published or a timing edited, the first is written.

### AssessmentWorkflow

Patterns, exams with their rosters, marks and observations, the review chain, reports
and generated comments. A generation is three steps: evidence is read, budget reserved
under a lock, the provider answers or never does. Evidence is the first `EvidenceLimit`
observations by id (500 in the code, assessment-ai.service.ts:22), so of the observations
of a pupil the model keeps all and the first ones (`Noted`). An earlier generation is
used again when exam, pupil, revision, evidence and instructions are the same
(`SameRequest`); configuration and topics follow from the exam, and the other kinds of
text are left out. The limits on rate, number and size are a reservation that may be
refused.

- `ApprovedUnchanged`: a report that names an approver carries exactly what was approved.
- `CommentOnEvidence`: a comment in a report was written about and reviewed against
  the observations the report rests on, as far as evidence reaches: the first
  `EvidenceLimit`. What comes after them a comment never saw.
- `AiWithinBudget`: what providers used never exceeds the largest budget ever set.

Bounds: one pupil, two exams of which one is open, two generations on one set of
instructions, at most two observations of which one is evidence, two versions of a
pattern in each scope (`MaxVersions`), six steps (`MaxAssessmentSteps`): submit, review, approve, reopen or
return, change, publish.

### LessonPlanning

The teaching plans of the subjects of one section, term by term: topics are planned in
the periods offered in their own term, of which the last `RevisionPeriods` stay free.
`StartPlan` computes a plan from
sessions and offers as read, `SavePlan` writes it under the lock of the section; claims
of the revision make plans fail that were computed from an older one.

- `ReplanIsSafe`: no two subjects plan overlapping periods though their plans are
  computed before the lock, and no replanning throws away an approved lesson.

Bounds: two subjects with two and one topics in two terms that end with a revision
period each, seven slots of which two pairs overlap, ten steps (`MaxPlanningSteps`): two programs reviewed, approved and planned, then
lessons, progress and a replan.

### SchoolStructure

Years, classes, sections, subjects, class subjects, class teachers and teams. Requests
that read outside their transaction or check before they write are asked, checked and
written in steps of their own, with the unique indexes as the last word.

- `OneLead`: however requests for class teachers and teams overlap, a section has at
  most one active lead teacher in a year, nobody leads two, and the lead is the class
  teacher.

Bounds: four steps (`MaxStructureSteps`), in which two requests overlap from their checks
to their writes, or one meets an edit of the frame, which costs two (`EditCost`); two
clerks, teams of one member, three rows of assignments.

### AccessRoutes and RequestAccess

`AccessRoutes` is the table of the rights each route of each controller asks for.
`RequestAccess` is a request on its way: token, account, guard, and the question the
service asks itself, each a query of its own, while administrators edit accounts, roles
(name and code too, `UpdateRole`) and rights. As in the code, a role stands for its name
in lower case and for its code, `RolesGuard` accepts either, and the routes that are open
before the first change of the password are recognised by what the address contains
(`Named`). Creating and removing roles is SchoolDirectory's. `moments` is history: what held at some moment since the request was sent.

- `RightsAreCurrent`: a request is served on rights of its own time. The account was
  active, and its roles sufficed, at moments after it was sent (at one moment, and in
  the account's own school, where the guard asks in one query), and a path that names a
  school names the caller's.

Bounds: an account of a school and one of the platform, three roles, of their names only
the one a guard asks for and any other, one route of each guard (`Asked`), one request on its way, two edits by administrators. The theorem is
about every table, set of routes and number of requests.


## What is proved

All theorems hold for every value of the constants that satisfies the module's named
assumptions, which say only

- that the constants have the right shape and the values that stand for "none" are none
  of the others (`ImportAssumption`, `LeaveAssumption`, `NoBalanceAssumption`,
  `CoverAssumption`, `AssessmentAssumption`, `StructureAssumption`, `TopicsAssumption`,
  `NotValues`, `AskedOfApi`, ...): periods follow the days, lessons begin before they end;
- that what is counted, ordered or summed is finite: the rows of an import, the lessons
  of a day, sections that are taught, students, rules of a policy, payments, generations
  (`ImportAssumption`, `CoverAssumption`, `FirstTimetables`, `SeatsAssumption`,
  `FeesAssumption`, `BudgetAssumption`);
- that the database is in order at the beginning, as its constraints require: `FirstSchool`
  (enrolments are in sections that exist, roll numbers differ), `FirstSchools`,
  `FirstFrame`, `FirstTimetables`, `FirstAccounts` (numbers of accounts differ),
  `RightsAssumption`, `ValidAtFirst` (the first attendance policy is valid), and that
  routes ask for rights of the catalogue (`RoutesAskForKnownRights`).

TLC evaluates every one of them on the instances of the runs.

`StudentImportProofs`. `TypeCorrect`, `WritesOnce` (`OnceOnly`), `CompletionIsHonest`
(`CompletedIsComplete`), `CommitsAreReviewed` (`CommitIsReviewed`), `ExtractionIsSafe`
(`ExtractionErasesNoHistory`), `SourcesStay` (`SourcesPresent`) and `CompletionIsFinal`
(`CompletedIsFinal`). What a worker may still do depends on whether its token is the one
in the job, so none of these is inductive alone. The invariant `IInv` adds: tokens are
never reused (`Tokens`); a worker that holds the lease works on the job in the status it
claimed (`HolderStatus`), has every VALID row still before it and, once it has counted,
none left to fail (`HolderRows`); between a validation without complaints and the end of
the commit no row is extracted, mapped or edited (`Inspected`); a commit that ended
left no lease behind (`Completed`); a job that can be worked on and has a row that
was taken back has one that was not (`History`, the reason why `queueExtraction` may
look for COMMITTED rows only); and the purge is never under way for a job whose
sources are needed (`Sources`). Each action is shown to keep it.

`LeaveLedgerProofs`. `TypeCorrect`, `NeverOverspent` (`NoOverspend`), `RefundsAreExact`
(`RefundedWhenCancelled`) and `CreditsAreDue` (`NotEarly`: no credit or carried day is
posted before its date, a theorem that no run checks), by the invariant
`TypeOK /\ Debited /\ RefundedWhenCancelled /\ NoOverspend /\ NotEarly`. `Debited` says
whom deductions and refunds belong to: a request approved since there is a ledger has one
deduction in a period, on a balance that exists, and a refund only once it is
cancelled. The work of `Ensure` is summed up in lemmas about books (`Grows`): opening and
crediting leave use alone, lower no entitlement, keep the policy a balance was opened
under, and add only credits and carried days whose time has come.

`LedgerImplementsAccount` is the refinement: every behaviour of LeaveLedger is one of
LeaveAccount under the mapping above. The invariant is joined by `Sound` (no entitlement
is negative), and each action is shown to be a `Hold`, a `Release`, a `Grant` or a
stutter. The abstract specification has no fairness, so this is a matter of initial
states and steps.

`BalancesFollowLedger` (`BalancesMatchLedger`) stands beside it, by `MInv`: the book is
`Matched` (the ledger is finite, and what a balance entitles to and what was used of it
are sums of its entries) and adjustments are `Numbered`, so that no two of them share a
dedupe key. A step adds entries to the ledger and their days to a balance; that the two
sums grow alike is a matter of entries that were not there before, which is what the keys
are for. The credits of one catch-up are clipped to the cap one after the other;
`Telescope` of SetLemmas says that together they come to what the balance grew by.

`DailyCoverProofs`. `TypeCorrect` (whose last conjunct says that nobody covers their own
lesson), `CoversStayDisjoint`, `CoversStayFit`, `CancellationsStay`, `HistoryKept` and
`AcknowledgementsInPerson`. The lemma `Reconciling` says what a pass makes of each row:
planned anew, or moved by the first loop. For disjointness two covers were either both
planned (each beside the other), one planned beside the other held, or both held, the
later one in the order of the rows beside the earlier one. `HistoryKept` needs the
invariant that a lesson is recorded as given or missed only after its end.

`StaffProofs`. On attendance: `AbsencesReported` (`AwayIsNotified`), `LockedDaysStand`
(`LockedDayStands`) and `PoliciesAreValid` (`PolicyInForceValid`), by `PresenceInv`,
which adds that every document about to be written was validated as it is
(`DraftsAreValid`): the write does not merge again, so an overlap of two saves loses a
change but never mixes two. `DayWellFormed` adds that nobody leaves before having come,
whether marking, punching or an approved exception writes the times.

On structure: `OneLeadTeacher` (`OneLead`) and `AssignmentsRefer`, for any number of
clerks, by `StructureInv`. A request checks, and writes much later; `RosterInv` says what
it may still count on: active leads are class teacher rows (`LeadRows`), so the two
partial unique indexes (`Stored`), which know nothing of leads, decide between
overlapping requests. `RowsRefer` says that an assignment refers to what exists, and
`AsksPlaced` why a late write keeps it so: a section that a request checked is still in
its class or was deleted, and a deleted identifier never comes back.

On access: `RequestsOnCurrentRights` (`RightsAreCurrent`), for any accounts, roles, routes
and number of requests. `AccessInv` says for each request on its way what its progress
so far proves about the moments since it was sent (`OnTheWay`); administrators only add
moments, and each check adds what it has read. `AccessWellFormed` is its type invariant.

`TeachingProofs`. On assessments: `ApprovalsStand` (`ApprovedUnchanged`) and `CommentsFit`
(`CommentOnEvidence`), by `AssessmentInv`: an approval stands only past the draft and is
of what the exam holds now (`ApprovalStands`), because every path back to draft withdraws
it and only drafts change. `BudgetHolds` (`AiWithinBudget`) is by `BudgetInv`: the charges
of all generations, reserved ones included, stay within the largest budget, and what was
consumed is at most the charges of the generations that are over. An answer charges what
it used, which is at most what was reserved, and a failure keeps the whole reservation, so
answers may come in any order.

On timetables: `NoPublishedClash` (`PublishedDoNotClash`), by `TimetableInv`. A
publication validates against what is published when it writes, so the question is what
happens afterwards: the times of a published lesson are those its timing has now. The
invariant says that a timetable's timing exists (`PlansTimed`), that requests on their
way carry well-formed rows (`SetupRequest`), edits are counted (`Edits`) and what a search
found is well formed (`Found`); an edit of a timing that is in use makes a new version
and leaves the layout of the old one as it is (`UsedStay`).

On plans: `ReplanningIsSafe` (`ReplanIsSafe`) and `NothingTaughtUnprepared`, by
`PlanningInv`. `Computed` is about the plan that waits for the lock: it adds only beside
what it keeps, and keeps every session whose lesson is approved by now, because a change
of a session claims the revision and so drops the plan. That a computed plan is like that
is a fact about a recursive function over the topics, proved by its smallest
counterexample.

`AdmissionsProofs`. On applications: `ConversionsAreJoinings` (`ConvertedIffJoined`),
`ProfilesAreDifferent` (`ProfilesDiffer`) and `DecisionsAreInformed` (`DecidedOnShown`),
by `PipelineInv`, which adds that exactly the applications that joined have a profile
(`ProfileOfJoined`) and that a page whose version is current shows the row as it is
(`ShownAsIs`). Two lemmas carry the argument: in a step in which nobody joins, profiles
and conversions stay (`ProfilesStay`), and who acts on a current page makes every page of
that application stale (`Acting`). `ApplicationsWellFormed` says further that a waiver is
between nothing and the fee, which depends on the sum of the verified payments.

On seats: `SectionsWithinSeats` (`WithinSeats`), `RollsNeverShared` (`RollsUnique`),
`NobodyOverlooked` (`NothingOverlooked`) and `SeatsWellFormed`, by `SeatsInv`. The triggers
look at the rows a transaction wrote, while capacities also depend on classes, rooms and
the policy; the proof says of each action which sections it leaves alone, shows that
these become no fuller and their ceilings no lower (`FewerOccupants`), and leaves the
rest to `Fits`. `EverybodyHoused` (an enrolment is in a section that exists) is why a
section may be deleted; `Plans` says what a plan that is not outdated has shown.

`SchoolProofs`. On parents: `ConsentComesFirst` (`ConsentFirst`), for any number of
schools, persons and overlapping requests, by `ConsentInv`. `BroughtOnce` is why the split
of `create` is safe: a school that accepts without asking has made the parent's profile, a
profile is made once and belongs to an account (`ParentsHaveAccounts`), and while the
request is on its way no other school can be in the same position. `AcceptedFirst` says
that a verified membership and a link that was asked for belong to an accepted parent.
`ParentsWellFormed` adds that numbers of accounts stay different although requests look
them up first and write later.

On the directory: `SchoolsNeverLoseTheirRoles` (`SchoolsKeepRoles`) and
`DirectoryWellFormed`, by `DirectoryInv`, one part for each table (`AccountsOK`, `PeopleOK`,
`RolesOK`, `HoldsOK`, `SchoolsOK`, `OptionsOK`) and `CreationOK` for the statements of a
creation: what the next statement builds on is there (`Underway`), and what is finished
has its role (`Established`). Two facts make the split statements safe: an identifier
that was deleted is not used again, so a statement that comes late fails rather than meet
another row, and a role that is about to be deleted is not a system role.

Compositions: `PartsOfTheYear` and `PartsOfTeaching` say that a behaviour of what the
runs `year` and `teaching` check is a behaviour of each component, so each theorem above
holds there; `YearWellFormed` (`YearTypeOK`) and `TeachingWellFormed` (`TeachingTypeOK`)
follow.

`SetLemmas`. Sums (`Total`) are cardinalities of sets of units, positive minus negative,
which turns facts about sums into facts about finite sets. The folds and recursive
functions of the model are shown to compute them by a smallest counterexample among the
finite sets on which they would not, because the library's induction theorems cannot be
instantiated with these provers.

## What is only model-checked

- `WorkEnds` and `EndedIsClosed`: liveness under fairness is outside the prover.
- The five disagreements below, which are counterexamples.

Every invariant and action property of the passing runs is the subject of a theorem.

## Disagreements found

Each of these is a run that expects a violation and an entry under "findings".

- A worker that lost its lease marks a file FAILED or INFECTED after validation and the
  commit goes on (`import_clean_sources`).
- A worker extracts with the OCR option of an earlier request (`import_ocr_opt_in`).
- Mapping one file resets rows that were rolled back (`import_rolled_back`).
- Carried days stay in the old balance too and can be spent twice (`leave_spent_once`).
- A pass of `reconcile()` can return a lesson to a teacher and hold an overlapping cover
  by the same teacher, depending on the order of rows (`cover_nobody_twice`). The next
  pass, a minute later, repairs it.

Observed while modelling, without a run of their own. Import, leave and cover:

- `tick()` marks a row FAILED without checking its lease (worker.ts:19).
- A background validation that succeeds twice (a late holder and its successor) can end
  FAILED although the rows are validated.
- A PARTIAL job whose failed rows are all edited to SKIP is VALIDATED with nothing left to
  approve, and stays so.
- A heartbeat runs for as long as the process does: a hung tick keeps its lease.
- A credit that was capped when it was posted, followed by a refund, brings a balance
  above `maximumBalance` (leave-balance.service.ts:32). A balance opened by a future
  request before its period begins never gets the carry-forward (line 45).
- docs/school-operations.md:361 says autoAssign cannot bypass approval; lines 279-283 and
  the code say that it does.
- docs/teacher-attendance-cover.md says a late record is changed to Absent when the
  arrival time passes; `detectMissingCheckIns` only sends reminders.
- The same file says manual assignments are preserved; a pass cancels them like others
  when the original teacher is back.
- A row that is open at local midnight is never visited by the worker again: `tick()`
  reconciles only the current local date (coverage.service.ts:125).

Admissions, schools and parents:

- docs/admissions-and-allocation.md:276-279 speaks of PostgreSQL guards that enforce the
  effective capacity on older write paths too; `ClassesService.update`
  (classes.service.ts:187-196) changes the group or the year of a class, and with it the
  ceiling, and no trigger looks. `WithinSeats` excepts these classes (`edited`).
- Two profiles of one child: a first application without a birth date and a later one
  with it are different profiles; `ProfilesDiffer` says exactly what is kept apart.
- The unique index on section, year and roll number (schema.prisma:503) compares text.
- A school whose creation breaks off has no administrator, and its name and slug stay
  taken. Edits of identifiers can leave two active accounts of a school answering to one
  of them, and neither can then sign in by it.
- `roles.remove` counts holders and deletes in two statements. It advises deactivation,
  but PermissionsGuard does not look at a role's isActive (the other guards do), and
  `assignRole` gives inactive roles too.
- `SchoolSettings.remove` deletes the row that holds the timetable, operations, coverage,
  capacity and admissions policies.
- A link made PENDING at joining stays PENDING after the parent's consent is verified,
  and `linkStudent` refuses it because the parent is already linked.
- Two overlapping primary links of a student can both stay primary (`linkStudent`).

Teaching and access:

- `replaceSubjectTeachers` rewrites the lessons of published timetables, and its catch of
  a unique violation never fires for generated entries: migration 20260903160000 dropped
  the index and the uniqueness left (schema.prisma:653-654) is on a column that is null
  for them. `PublishedDoNotClash` excepts timetables that this met while they were published
  (`reassigned`). Whether the new teachers are free it asks before its transaction.
- `replaceClassTeacher` keeps `isClassTeacher` on the row it ends while migration
  20260820000000 has a unique index on such rows, so every replacement is refused;
  docs/FIGMA-USER-FLOWS-AND-BUSINESS-REQUIREMENTS.md:515 promises it. The same holds for
  a team that changes its lead.
- `PeriodTemplates.version()` activates assignments that had ended, and activation ends
  others of its own family only, so a class can have two active templates although
  `assign` refuses that.
- A class that is moved to another year leaves its class subjects and assignments behind;
  `assignAcademics` accepts a class subject that is no longer active; two overlapping
  `replaceSubjects` leave a mixture of the two.
- A session postponed and planned over by another program may still be marked COMPLETED.
  A replan after the weekly slots changed can overlap the sessions its own program keeps.
- Account and rights are read by two queries: an account active at one moment and granted
  the right at another is served on PERMISSION routes. `RightsAreCurrent` says what holds.
- The guards compare text: the routes open before a change of password are matched
  anywhere in the address (jwt-auth.guard.ts:44-45), and a role counts by its name as well
  as by its code (jwt-auth.guard.ts:51, roles.guard.ts:27). `RightsAreCurrent` is about the
  rights as these comparisons read them.
- Changing a password reads, compares and updates: the later of two wins.
- The web client's `refresh()` (auth-context.tsx:15) stores the session it read before
  its await.

## What is not modelled

`PROJECT.json` lists every component with its status.

- Timetable entries of no plan and single periods (`createEntry`, `createPeriod`): one
  write after checks of its own, of which no published timetable is part.
- Syllabus: review, discard and approval check the status outside the transactions that
  write it (a late discard can delete an approved syllabus), so there is no promise of
  several steps to state.
- Student attendance, classroom management, the older exam endpoints, events,
  notifications: one statement per request and no state machine.
- AI assistants, papers and insights: calls to providers and log records. What a
  provider costs is in AssessmentWorkflow.
- The timetable search: an optimiser of which TimetablePublication models the validated
  result. The generator of slots and the ranking scores only choose among valid results.
- Parsing of uploads, the PDF of a report, grading arithmetic: pure computation.
- The scopes of approvers (`matchesStaff`): rights are RequestAccess, scopes are left out.
- Audit, dashboard, reports, the mobile application, the shared packages, the scripts and
  the wiring of the process: they read, or keep no state the logic reads.
- The web application: its state is the session and what a page showed; the latter is in
  the models as what a clerk or planner was shown.
