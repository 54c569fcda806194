# A formal model of the Brainros examination backend

This directory holds TLA+ models of the parts of the backend whose
correctness depends on what happens *between* two steps of the code: two
requests of one student, a worker and an administrator, a crash between two
statements, a job that comes twice. TLC checks them on small instances, and
TLAPS proves the most important properties for instances of any size.

- [How to run it](#how-to-run-it)
- [The system](#the-system): the parts, their state and how they interact
- [How code becomes actions](#how-code-becomes-actions)
- [The runs](#the-runs): what each asks, on which instance, and what it shows
- [The models](#the-models), one section for each module
- [What is proved](#what-is-proved)
- [Disagreements found](#disagreements-found), and weaknesses
- [Plan](#plan): the order in which it was built, and what is left
- [Not modelled](#not-modelled)

Paths are relative to the repository; `modules/` stands for
`src/modules/`.

## How to run it

    tlasany Billing.tla                                   # parse
    tlc -workers 2 -config accounts.cfg MCAccounts        # model-check
    tlapm Billing_proofs.tla                              # check the proofs

`PROJECT.json` lists the runs with their modules, the properties of each, a
plausible bug that each property catches (definitions named
`<Action>_<Bug>`, next to the action they spoil), and for every definition
the source lines it stands for.

## The system

A NestJS application (TypeScript, about 95 000 lines) with PostgreSQL through
Prisma, Redis through ioredis (with an in-memory fallback), BullMQ queues and
sockets. Several servers may run; handlers of one server interleave at every
`await`, transactions run at READ COMMITTED, and most checks read a row first
and update it later by its id. Redis "locks" are a `get` followed by a `set`
with an expiry. That is where almost everything that can go wrong comes from.

A student signs in (auth), starts an attempt (exam-attempt) on an exam that
was authored, generated, approved and scheduled (exam, exam-generator, admin,
exam-scheduling), and submits it. A mock attempt is evaluated at once; that of
a live exam waits for an answer key. Three queues then evaluate, analyse and
rank it (result, time-analysis, attempt-strategy, rank-engine), and an
administrator publishes the results of the whole exam.

### Components with a protocol of their own

| Component | Module | State it keeps | Operations | What is hard | What makes it correct |
|---|---|---|---|---|---|
| Exam attempts (`modules/exam-attempt`) | `AttemptLifecycle` | Attempt, Answer, AttemptQuestion rows | start or resume, save, bulk save, submit, leave, auto-submit, switch language | read-then-write over many awaits; several clients; lazy auto-submit left running; crash after the status is set | one attempt per live exam, one running attempt, a finalised attempt stays final and leads to a result |
| Result pipeline, answer keys (`result`, `exam-scheduling/answer-key`) | `ResultPipeline` | Result, queues `evaluation`, `analytics`, `ranking`, ExamResultPublication, Redis `lock:publish:` | three workers, readiness, publication, retries, calculate endpoint, terminations, key upload | retries racing workers, hand-over between queues, stale readiness, partial failure | results are released all at once, evaluated, ranked on final scores, and for good |
| Marking (`result`, `attempt-strategy`, `time-analysis`) | `Marking` | Result, SubjectResult, StrategyAnalysis, TimeAnalysis | save answers, calculate a result, analyse performance, strategy and time | four copies of one comparison; analyses made at any time and kept; answers that arrive late; negative totals | the four services tell one student one story |
| Rank engine (`rank-engine`) | `RankAssignment` | RankSnapshot, CandidateRank | rank a population, percentiles, predictions | ties; rounding; overlapping generations | ranks mean what competition ranking means and belong to the published scores |
| Sign-in sessions (`auth`: token, session) | `LoginSession` | LoginSession, RefreshToken | sign in, refresh, log out, revoke one or all | concurrent refreshes, revocation during a refresh, database deadlocks | one live token per session; nothing outlives a revocation |
| Paid registration (`auth`, payment webhook) | `PaidRegistration` | Redis `registration:<id>`, PaymentTransaction, User, Student | register, verify code, create order, verify payment, webhook, finalise | client verification racing the webhook; redelivered events; expiry; orders that are not compared | an account stands for a captured payment, made for it but for a named exception |
| Billing (`billing`) | `Billing` | Bill, ApprovalRequest, e-mail queue | generate, bulk generate, create, update, submit, approve, reject, send, retry | worker overwriting a decision; double send; numbers taken from the latest bill | a rejection stands, a bill is mailed once, numbers have no gaps |
| Exam lifecycle and schedules (`exam-scheduling`), approvals and privileged actions (`admin`) | `ExamLifecycle` | Exam.status, ExamSchedule.status, ApprovalRequest, window-end jobs, Redis lock | submit, approve, reject, cancel, schedule, reschedule, activate, end; approval handlers run the same transitions | transitions validated before the transaction and updated without a condition; nested independent transactions; jobs that are tried once | a slot closes, on time and for good; a request is decided once |
| Reminders (`exam-scheduling`, `notification`) | `Reminders` | WhatsAppReminder rows, delayed jobs | schedule, replace after a rescheduling, send | detached tasks that overlap each other and the worker; retries | a student is reminded of the window a slot has, once |
| Exam paper and its cache (`exam` import, `exam-cache`) | `ExamPaper` | ExamQuestion, ExamVersion, ExamImport, Redis snapshots | upload, retry, import, prepare a snapshot, start, resume, view | an import deletes the questions under students' feet; snapshots rebuilt from newer rows; eviction | nobody sees an empty or an outdated paper without cause |
| Question timing (`time-analysis`) | `QuestionTiming` | Redis timer, QuestionTimeLog, TimeAnalysis | open, close, save, flush at the submission, analyse | overlapping requests, deaths between Redis and the database, a cached analysis | no second is counted twice or after the end |
| Monitoring (`exam-security`) | `ExamMonitoring` | ExamSession, Redis session and heartbeat keys, AttemptEvent, risk, flag, reviews | open, resume, heartbeat, ingest, evaluate, review, terminate | two windows; risk from a stale read; reviews that overlap | one window takes the attempt; risk and verdict follow from events and reviews |
| Bulk registration (`admin`, `institution`) | `BatchUpload` | BulkUpload, BulkUploadRow, ApprovalRequest, User and Student rows | stage, edit, submit, review, confirm, activate | checks of the status and updates by id; activation of one row after the other | every row ends as what became of it; no student before an approval |
| Question bank (`question-bank`) | `QuestionBank`, `QuestionImport` | Question, QuestionReviewHistory, QuestionImport, QuestionImportRow | draft, edit, submit, review, approve, reject, archive, delete; import, correct, confirm, cancel; translations, keys and papers that write from elsewhere | status and text written back as read; texts written in place; versions of what is deleted; confirmations that overlap or die | a review stands for the text reviewed; versions keep their parent; a row is imported once |

### Components without one

Authoring CRUD (`exam`, `exam-generator`, `regional-language`, `academic`), rosters and administration (`institution`,
`student`, the rest of `admin`), read models (`performance-trend`,
`predicted-rank`, `recommendation`, `parent-dashboard`, `export`),
`job-progress` and plumbing (`redis`, `prisma`, `common`, `health`,
`feature-flag`) read and write rows one statement or one transaction at a
time, or compute from rows that no longer change. They are listed in
`PROJECT.json`, each with the reason it is left out.

## How code becomes actions

- A handler, a job's processor and a transaction are *processes*: a program
  counter (`pc`, `op`, `act`, `do`, `step`, ... by module) and the local
  variables whose value is used after an `await`. One action is the code
  between two awaits at which another process can notice or disturb something;
  awaits that only read what never changes are merged with their neighbours.
  Guards are the code's conditions; a refused request changes nothing and is
  therefore no action.
- Request slots (`Requests`, `Staff`, `Handlers`, `Clerks`, ...) bound how many
  handlers run at a time, not how many there are: a slot that is idle takes a
  new request.
- Rows are functions from ids, with a value such as `"NONE"` for a row that
  does not exist. Time is a counter only where the code compares times.
- Bounds are the constants named `Max...`, and the finite sets given in the
  cfg files. [The runs](#the-runs) says why they hide no case.
- **History variables.** Almost no promise of this code holds whatever
  overlaps. A property here says *exactly which* overlap or fault breaks the
  promise: the history variables (`raced`, `disturbed`, `crossed`, `cause`,
  `excused`, `late`, `lent`, `forced`, ...) record, when a request begins beside another one of the kind
  or when a step fails, that this has happened. They are never read by a guard.
  A property such as "unless two activations overlapped, ..." is then strong in
  both directions: everything but the named accident is ruled out as a cause,
  and TLC finds the accident when the exception is removed.

## The runs

A composite module explores several components one after the other: the variable `part` is chosen at the start, so states are added and
not multiplied, and components take the same model values for their actors,
so that one symmetry set serves them all.

| Run | Instance | States | Properties |
|---|---|---|---|
| `attempt_race` (`MCAttempt`) | one student with two clients, one of which may be an administrator, a live and a mock exam, one attempt, two ticks, one crash | 2 728 946 | `TypeOK`, `SubmissionsEvaluated`, `FinalisedOnce` |
| `attempt_per_student` (`MCAttempt`) | two students with one request in flight each, two attempts | 1 896 984 | `SingleLiveAttempt`, `OneActiveAttempt` |
| `attempt_liveness` (`MCAttempt`) | as the first, without the crash, fair handlers | 476 276 | `EveryAttemptEnds` |
| `result_live` (`MCResult`) | one live attempt, late submission, one failure, administrators at any time, every request that can lead to an evaluation: uploads, both retries, the calculate endpoint, terminations, rank generations | 2 117 782 | `TypeOK`, `EvaluatedAfterKey` |
| `result_quiet` (`MCResult`) | two live attempts, two uploads, administrators who wait, no failure, fair workers | 33 632 | `PublishedComplete`, `PublicationStable`, `ReleaseSpec`, `KeyLeadsToResults` |
| `result_mock` (`MCResult`) | one mock attempt, three failures, two tries for each job, both retries, the calculate endpoint and terminations, fair workers | 39 114 | `NoSilentStall`, `MockIsPublished` |
| `candidate` (`MCCandidate`) | parts `rank`, `paper`, `timing`, `monitoring`, `marking` | 1 372 224 | `CandidateTypeOK`, `CompetitionRanks`, `OtherRanks`, `StoredWithRank`, `PaperRead`, `ImportsAccounted`, `TimeAccounted`, `AnalysisComplete`, `AttemptWatched`, `MarksAgree` |
| `exam_lifecycle` (`MCExam`) | parts `exam`, `upload`, `reminders` | 1 503 013 | `StaffTypeOK`, `EveryWindowCloses`, `ReviewsStand`, `SlotsEnd`, `UploadsStand`, `RemindersFollow` |
| `accounts` (`MCAccounts`) | parts `login`, `registration`, `billing`, `bank`, `import` | 834 883 | `AccountsTypeOK`, `TokensSafe`, `BehavesAsRegister`, `PaymentTrail`, `VerdictsKept`, `OneMailJob`, `Sequential`, `VersionsKept`, `QuestionsReviewed`, `RowsImported` |
| `exam_late_entry`, `seeded_types`, `result_stale_ranks` | `ExamLifecycle`, `MCMarking`, `MCResult` | stop at a violation | see [the findings](#disagreements-found) |

The instances of the composite runs, and why they are large enough:

- `rank`: all populations of three attempts, two of them of one student, with
  every result of a two-question paper. Three is the smallest list with a tie
  in the middle and someone behind it.
- `paper`: two uploads by two administrators, three papers (the first and one
  for each upload), one student, one error or crash. The second upload shows
  what an import does beside another and after a retry; one student is enough
  because students meet only through the paper and its snapshots.
- `timing`: two clients of one attempt, two questions, three requests and one
  death, three closed intervals; the clock passes the deadline. A third
  interval can collide with the first two.
- `monitoring`: two windows, one reviewer, two sessions, two events, of which
  the second raises the risk to HIGH, four requests, one that dies and then counts
  as two. Two of four requests can overlap each of the other two.
- `marking`: every paper of two of five questions (every type the marking knows, with
  and without its own penalty, one with a negative one) and every answer a client can
  send, and a second one that replaces it or answers the other question, in every order
  of checks, writes, submission and analyses. Two answers are what it takes for one to
  be counted and the other to arrive later. Questions of other types, or without one,
  have a run of their own (`seeded_types`).
- `exam`: two members of staff, two slots, two windows, one approval request,
  three operations. Two operations race on a slot or a request, and the third
  prepares the row or repairs it. An error, a death or a stall leaves its mark on
  one slot at a time (`FaultBound`); queue errors, the worker of the closing job,
  the worker of the generation, students and time are not counted.
- `upload`: two officers, three rows, two phone numbers, two approval requests,
  four requests, three of an administrator's upload. Two rows make a duplicate
  inside the sheet, two approval requests an upload that was submitted twice. The
  third row is one with an error and rows with an error come last: after one row
  was activated and one failed, an edit can still make the third valid.
- `reminders`: two slots, two tasks, two seconds, two reschedulings, one fault.
  Both reschedulings can be of one slot in one second, of one slot in two, or
  of the two slots.
- `login`: two sessions, four tokens, two concurrent requests. Four tokens are
  needed for the exception in `RevokedSessionDead`: one that lets somebody
  revoke, a first token, its exchange, and the one that must not follow.
- `registration`: two registrations of different mobile numbers, two orders, two
  handlers, one crash. A second registration can be finalised with the order of the
  first, before and after the first itself is. Beside a second registration
  nothing crashes and no request disturbs another of the same registration
  (`AccountsNext`): what two requests of one registration do to each other is
  explored in full with one.
- `billing`: two invoices and one bill made by hand, two clerks, three
  operations, two mail jobs, one fault, and a number series that outgrows its
  digits with its second number (`Width = 1` for 9999).
- `bank`: two questions, each absent, a draft or approved at the start, two
  members of the staff, four operations. Every operation is on one question and
  meets others there, and the second question is what becomes a version of the
  first, or is created by a paper; four operations take a draft through its review and
  change it again; an answer key, a translation or a planted question is one of the four.
- `import`: a file of two rows on the same questions, two operations (of the
  staff, corrections, confirmations and cancellations alike), one fault. An
  approved question that a row asks to edit is there from the start, so that two
  operations can both be confirmations. Exams and the approval queue stand still
  here: the import neither reads nor writes what they do.

`CHECK_DEADLOCK FALSE` is set where a behaviour does come to rest: when the
bounded operations are used up, or everything is published, or a list is
ranked, nothing is left to do.

## The models

### AttemptLifecycle

`exam-attempt.service.ts`, the access check of `exam-access.service.ts` and
`security-review.service.ts`.

| Code | Actions |
|---|---|
| `startAttempt` | `StartAccess` (validateStudentAccess), `StartCheckOthers` (One Active Attempt Rule), `StartFindActive`, `StartResume`, `StartCheckPrior` (Single Attempt Rule), `StartCreate`, `StartCreateFails` |
| `submitAttempt` | `SubmitRequest`, `SubmitRead`, `SubmitCas`, `FinaliseTail`, `FinaliseFallback` |
| `autoSubmitAttempt`, also called by `saveAnswer` and others when they find the time is up | `AutoSubmitRequest`, `AutoSubmitRead`, `AutoSubmitCas`, and the same tail |
| `saveAnswer`, `bulkSaveAnswers`, `switchLanguage` | `SaveAnswer`, `BulkSave`, `SwitchLanguage` (the check), `WriteAnswer`, `WriteLanguage` |
| reviews and termination | `ReviewCreate`, `ReviewApply`, `Terminate`, `TerminateReview`, `TerminateCalculate` |
| the server dies in a handler | `Crash` |

`outcome[a]` is what finalising has produced: the placeholder of a live exam
(`PENDING_WINDOW_CLOSE`), an evaluation job, or a calculated result. It links
this module to `ResultPipeline`, which begins there.

- `SubmissionsEvaluated`: without a crash, a finalised attempt has or gets a
  result; a live attempt is not evaluated before its window closes, a mock
  attempt never parked.
- `FinalisedOnce`: only a stale resume or a termination overwrites a final
  status, and a late auto-submit is dated within the time of the attempt.
- `SingleLiveAttempt`, `OneActiveAttempt`: the two attempt rules.
- `EveryAttemptEnds`: every submission and every expiry a student was told of is
  carried to its end.

One attempt and two clients are enough for the race: every handler works on one
attempt, and the hazards are between two handlers that have read the same row.
`MaxTime = 2` lets an attempt expire (`Duration = 1`) and the window close. The
two attempt rules are checked for students whose client waits for an answer
before the next request: with two concurrent starts the code breaks both, since
the check and the creation are separate statements and no unique index backs
them (`exam-attempt.service.ts:113` and `:181`). The run says what is left: the
requests of *other* students never matter.

Fairness: weak fairness of `Continue(r)`, the steps of a handler that has
begun. The event loop runs every continuation and every awaited call ends, with
an error at worst. Arrivals, the clock and crashes are not fair, and the
liveness run has no crash: a crash does lose a submission between its two
statements, and nothing in the code looks for it later.

### ResultPipeline and ResultRelease

The three processors of `modules/result/processors`,
`result-readiness.service.ts`, `exam-publication.service.ts`,
`result-processing-monitor.service.ts`, the parts of `result.service.ts` they
call, `answer-key.service.ts` and `rank-generation.service.ts`, for one exam.

A worker is a job (a queue and an attempt: every job id is built from both) or
an administrator's request. `Enqueue` ignores a job whose id is in the queue,
as BullMQ does; a job that fails for the last time is kept in its queue and
keeps its id; a retry removes it. `score[a]` is `1 +` the version of the key
an attempt was evaluated with, so "evaluated without a key" is 1. Marking itself
is in `Marking`: no property here depends on which answers were right.

| Code | Actions |
|---|---|
| submission, as `AttemptLifecycle` leaves it | `SubmitStatus`, `SubmitTail`, `WindowCloses` |
| `evaluation.processor.ts` and `calculateResult` | `EvaluationRead`, `EvaluationWrite`, `EvaluationMark`, `EvaluationEnqueue`, `EvaluationFails` |
| `analytics.processor.ts` | `AnalyticsStart`, `AnalyticsGenerate`, `AnalyticsEnqueue`, `AnalyticsFails` |
| `ranking.processor.ts` | `RankingStart`, `RankRead`, `RankWrite`, `WorkflowRead`, `WorkflowUpdate`, `RankFails`, `RankingFails` |
| readiness | `CheckRead`, `CheckWrite`, `Dashboard` |
| publication | `PublishRequest`, `PublishLock`, `LockExpires`, `PublishCheckWrite`, `PublishTx`, `PublishUnlock` |
| answer key | `UploadRequest`, `UploadTx`, `UploadRead`, `UploadMark`, `UploadEnqueue`, `UploadEnqueueFails` |
| retries, calculate endpoint | `RetryFailed`, `RetryOne`, `RetryMark`, `RetryAdd`, `CalculateRequest`, `CalculateDone` |
| `terminateAttempt`, which ends with an evaluation | `TerminateRequest`, `TerminateRead`, then `CalculateDone` |
| one-statement requests | `OpenAnalyses`, `ReviewPending`, `HealMock` |

Three constants describe the *environment* and decide which promises hold:

- `Late`: a student may submit after the end of the window. Only the start of
  an attempt is refused then, not its submission.
- `Quiet`: administrators act only when no job and no other request is under
  way. Nothing in the code makes them wait; a property that is checked with
  `Quiet` is a promise to administrators who do.
- `Operations`: what administrators and viewers ask for. Leaving out an operation
  makes a property conditional on its not being used.

`ResultRelease` is the promise to the candidates in ten lines: everybody is
marked with a key, all results are released in one step, and nothing changes
afterwards. `ReleaseSpec` says that the pipeline implements it, with `marks` as
`score` and `visible` as the attempts whose result is PUBLISHED.
`EvaluatedAfterKey` says that no result of a live exam is evaluated before its key,
except of an attempt that an administrator terminated (`terminated`), or had
calculated or retried by hand before the key (`forced`): whatever is asked for,
fails or overlaps, submissions, failures and the retry of what has failed lead to
no evaluation by themselves.
`PublishedComplete` says that a publication releases every result, each
evaluated; `PublicationStable` that only another key takes it back;
`KeyLeadsToResults` that the upload of a key leads to ranked results;
`NoSilentStall` and `MockIsPublished` that a mock attempt is published, or a
failed job is there for somebody to see. A terminated attempt is no concern of
`NoSilentStall`: its result is calculated apart from the queues and stays EVALUATED.

Two attempts show "all at once" and an order of candidates; a second upload
shows what a changed key does to results that are evaluated. Three failures
exhaust the two tries of a job and fail the next one. Administrators act one
at a time in these runs: they have one slot. The publication lock is therefore
not under test. It is a `get` followed by a `set` with an expiry, and two
publishers can pass it; behind it, the second one publishes what is published
already.

Fairness: weak fairness of the step of every job and of every request that has
begun (BullMQ workers take waiting jobs; the event loop goes on). Nobody has to
submit, upload, publish, view or fail.

Two things a reader of the code should know, although no property states them:
readiness waits for a TimeAnalysis and a StrategyAnalysis row of every attempt,
which only a viewer's request creates (`OpenAnalyses`), and for the last PENDING
review row, which nothing ever updates.

### RankAssignment

`tie-break.service.ts`, `percentile.service.ts`, `prediction.service.ts` and
the choice of candidates. The state is the loop of `assignRanks`: the sorted
list, the ranks given so far and its two counters. What `sort` returns for equal
candidates is nondeterministic (`Arrangements`, `SortedSeqs`). Floating point is
modelled by exact integers: marks in their smallest unit, percentages in
hundredths, percentiles in units of 1/10000, rounded as `Math.round` rounds.

A result whose evaluation failed is a placeholder with a maximum of 0 marks; the
prediction made of it is `[1, 1]` whatever its rank (`Prediction` has the guard).

`CompetitionRanks` compares the loop with the definition (1 + the number of
better candidates), `OtherRanks` does so for DENSE and ORDINAL (which no caller
selects). `StoredWithRank` says that rounding keeps the percentiles of
neighbouring ranks apart and in order, that the predicted range of a result that
has marks to attain holds the rank it was made from, and that any other is `[1, 1]`.

### Marking

The comparison with the key and the test "was it attempted?" exist in four
services, and their results are shown to one student. `EvaluateAnswer`,
`AnalysisCorrect`, `StrategyCorrect`, `TimingCorrect` are the four copies of the
comparison (the copies agree, so three of them are the first), and
`ResultAttempted`, `AnalysisAttempted`, `TimingAttempted`, `StrategyAttempted`
those of the test, of which the last one differs.

| Code | Actions |
|---|---|
| `saveAnswer`, `bulkSaveAnswers`: the check, the write | `SaveAnswerRead`, `SaveAnswerWrite` |
| the submission | `SubmitPaper` |
| `calculateResult` with `evaluateAnswer` and the subject rows | `CalculateResult` (`Marked`) |
| `generateFullAnalysis` of `analysis-engine.service.ts` | `AnalysePerformance` |
| `calculateMetrics` of attempt-strategy, stored for good | `AnalyseStrategy` |
| `generateTimeAnalysis` | `AnalyseTime` |
| the loss handed to the ranking | `RankedLoss` |

`MarksAgree` has three parts. `SameOutcomes`: counts of correct, wrong and
unattempted questions agree between the services, except for lists that were
cleared. `SubjectsAddUp`: the subjects of a result add up to it, up to the
clamping at zero. `LossesAccounted`: potential, lost and projected marks stay
within each other; what the strategy analysis loses and projects does so only if
no question has negative marks or a negative penalty (`NoneNegative`). The forms
refuse those (`@Min(0)`, `question-import.service.ts:1131`), but the import of a
paper writes what its sheet says (`exam-paper-import.service.ts:558`): a wrong
answer then adds marks, and the strategy analysis counts it as no loss. An
answer is written by a request that found the attempt in progress, and may arrive
after the submission, after the result, or between two analyses. The history says
which rows were then made from other answers than the result (`apart`; so was an
analysis made before the submission or before the result) and that an answer came
after the result (`late`). Rows that stand apart are excepted; of the others,
everything holds whenever the answer arrives, except where the row is compared with
the answers themselves.

### LoginSession and SessionRegister

`token.service.ts`, `session.service.ts`, their callers in `auth.service.ts` and
`jwt.strategy.ts`. This is the one module with an explicit database: one action
is one SQL statement, row locks are state (`sessionLock`, `tokenLock`), and what
a transaction wrote appears when it commits, as READ COMMITTED has it. A `WHERE`
is evaluated when the row is free.

| Code | Actions |
|---|---|
| `createSession`, `generateTokens` | `SignIn`, `IssueToken` |
| `refreshAccessTokens` | `RefreshReused`, `RefreshExpired`, `RetireExpired`, `RefreshValid`, `SwapToken`, `SwapLost`, `TouchSession`, `TouchVictim`, `RefreshCommit` |
| `revokeRefreshToken` (log-out) | `LogOut`, `DropToken`, then a revocation |
| `revokeUserSession`, reuse detection, `revokeAllSessions` | `RevokeOne`, `LogOutAll`, `RevokeSessions`, `FindTokens`, `RevokeCommit` |
| time, failures | `ExpireToken`, `Abort` |

`TokensSafe` has two parts. `OneLiveToken`: two tabs that refresh at once do not
fork a session; the compare-and-swap on `revokedAt` sees to it.
`RevokedSessionDead`: no refresh that was under way outlives a revocation. That
rests on an update nobody would miss in a review: `lastActivityAt`, whose row
lock makes the exchange and the revocation wait for each other (without it the
mutant `TouchSession_Saved` leaves a live token on a dead session).
`BehavesAsRegister`: the committed rows behave like one register per session
(`SessionRegister`), in which an exchange is one step.

One exception is part of the properties: a session revoked *during its sign-in*,
between its row and its first token, keeps that token, and a refresh that had
read the session before may exchange it once. Both tokens are refused from then
on by the second look at the session.

A new row gets its identity when it commits, so tokens are numbered in commit
order. `Abort` is every way to lose a transaction: crash, time-out, deadlock
victim of a revocation. If the refresh is the victim, its error is swallowed and
the client is sent a token that does not exist (`TouchVictim`). Expired sessions
and deactivated users only refuse requests and are left out.

### PaidRegistration

`auth.service.ts` from `registerStudent` to `finalizeStudentRegistration`, and
`payment-webhook.controller.ts`. The payment gateway is external and modelled by
how it is used: it creates orders, a client pays one, and it reports an event.

| Code | Actions |
|---|---|
| `registerStudent`, `verifyRegistrationOtp` | `RegisterStudent`, `VerifyOtpRead`, `VerifyOtpWrite` |
| `createRegistrationPaymentOrder` | `CreateOrderRead`, `CreateOrderGateway`, `CreateOrderUpsert`, `CreateOrderSave` |
| `verifyRegistrationPayment` | `VerifyPaymentRead`, `VerifyPaymentCheck` |
| `finalizeStudentRegistration` | `FinalizeCheck`, `FinalizeCommit`, `FinalizeRefused`, `FinalizeFails`, `FinalizeCleanup` |
| `handleRazorpayWebhook` | `WebhookRead`, `WebhookMark`, `WebhookLoad`, then the finalisation |
| gateway, expiry of the Redis key, a crash | `Pay`, `Expire`, `RequestDies` |

A registration that has stored an order accepts no other; one that has none takes any
order whose payment is signed (`auth.service.ts:669`), also that of another
registration. `lent` records the orders verified so.

`PaymentTrail` has five parts. An account exists only for a payment (`AccountIsPaid`,
whatever overlaps), and for one made for its own registration unless it was lent; one order per registration (`OneOrder`), no
captured record goes back to CREATED (`RecordKept`), a finalised registration is
gone from Redis (`Closed`), each unless an *order request* met another request. An order
that was lent may lead to two accounts, and its record, its registration and its
event are excepted, but those of every other order are not.
The meeting the code was written for, the client's verification with the
webhook, breaks none of them. `EventAccounted`: an event that was answered with
200 led to an account, or its registration had expired, its finalisation failed,
its process died or its payment was lent. These are final: the mark is set before the work,
so the redelivery the gateway would make is skipped.

### Billing

`billing.service.ts` and `bill-email.processor.ts`.

| Code | Actions |
|---|---|
| `generateInvoice`, `createBill`, `generateBulkInvoices` | `CreateRead`, `BulkRead`, `ReadNumber`, `Create`, `BulkCreate` |
| update, submit, approve, reject | `ReadBill`, then `UpdateBill`, `SubmitBill`, `ApproveBill`, `RejectBill` |
| `sendBill`, `retryBillEmail` | `SendRead`, `RetryEmail`, `Resend`, `MarkQueued`, `Enqueue` |
| the worker, its faults, a crash | `WorkerStarts`, `WorkerMails`, `WorkerDelivers`, `WorkerFails`, `Crash` |
| the tax of an amount | `TaxOf`, `Share`, `Rounded` (no state; theorem `TaxAgrees`) |

Only an approval has to be another clerk's: `rejectBill` does not ask who made the
bill.

`VerdictsKept`: a bill waits for approval exactly while a request about it is
PENDING (up to the worker, which makes any bill SENT), and, if no two operations
on it overlapped, carries the verdict and the amount the review had read; a
rejection is not undone except by the worker. `OneMailJob`: a bill that counts
as being mailed has one job, unless operations on it overlapped, the retry was
used while it was mailed, or a fault took the job away. `Sequential`: unless two
creations overlapped, numbers have no gap and none is met twice, until a series
outgrows its four digits. From then on it is stuck: the latest number is taken
in the order of strings, in which 10000 comes before 9999.

### ExamLifecycle

`exam-lifecycle.service.ts`, `exam-schedule.service.ts`, the access check, the
approval workflow of `admin/approval` with its exam handler,
`admin-high-risk.service.ts`, the worker `exam-window-end.processor.ts`, and
those endpoints of `exam.service.ts` and the generation worker that write
Exam.status. One exam: everything is keyed by it.

| Code | Actions |
|---|---|
| submit, approve, reject, cancel of the lifecycle service | `SubmitRead`, `Submit`, `ApproveRead`, `RejectRead`, `SetStatus`, `CancelRead`, `Cancel`, `Invalidate` |
| activation and end | `LifecycleActivateRead`, `LifecycleActivate`, `ActivateRead`, `Activate`, `ActivateBareRead`, `DeactivateRead`, `EndExamRead`, `EndExam` |
| schedule, reschedule | `ScheduleRead`, `ScheduleCheck`, `ScheduleInsert`, `ScheduleEnqueue`, `RescheduleRead`, `Reschedule`, `Requeue`, `ServerDies` (between the commit and the job, among others) |
| older exam endpoints, choosing questions again, an import | `OlderRead`, `ChooseQuestionsRead`, `ClearPaper`, `FillPaper`, `ImportPaper` |
| approval workflow | `RequestSubmitRead`, `RequestSubmit`, `ReviewRead`, `HandleApprove`, `ApproveActivates`, `CommitApprove`, `CommitReject`, `CommitCancel`, `RollBack` |
| window-end worker | `WindowEndStart`, `WindowEndLock`, `WindowEndRead`, `WindowEndClose`, `WindowEndExam`, `WindowEndFails` (any error; there is no second try), `WindowEndUnlock`, `WorkerCrash`, `LockExpires` |
| generation worker, students, time | `GenerateTx`, `GenerateEnds`, `StudentStarts`, `StudentsFinish`, `Tick` |

- `EveryWindowCloses`: a live slot has a closing job, a worker at it, or an
  operation about to queue one; `cause` names the eight ways in which it has not:
  none was queued by the scheduling form, the queue refused it, the server died before
  it was queued, it met the lock, it failed, two workers in turn died at it, the exam
  is a mock, or a late activation reopened a slot. A job whose worker dies is given to
  another one once (`stalled`): the queue's limit is 1.
- `SlotsEnd`: a slot is not closed before its window is over except for a job of
  the window it had before, and one that ended comes back only by an activation
  that had read it as live.
- `ReviewsStand`: a decided request is decided differently only when two reviews
  of it were in progress at the same time; a request that became APPROVED
  without a record was swept up by an activation.

### Reminders

`schedule-reminder.service.ts` and `whatsapp-reminder.processor.ts`, for one
student and one kind of reminder; kinds and students do not interact. When a job
is due is left open, so that the worker may take it at any time.

| Code | Actions |
|---|---|
| `rescheduleExam`, after its transaction | `Move` starts a task, `TakeVersion` (Date.now() in seconds) |
| `cancelExamWhatsAppReminders` | `ListPending`, `RemoveJob` (for each), `CancelRows` |
| `scheduleExamWhatsAppReminders` | `Upsert`, `Dispatch` |
| the worker | `TakeJob`, `LoadRow`, `SendMessage`, `RecordSent`, `RecordFailure` |
| a crash | `CrashServer` |

`RemindersFollow` says, for the moments when no task runs: a job that waits to
tell an old window is one the task met in a state it does not cancel
(`excused`), or its slot was disturbed (`spoiled`: tasks overlapped, died or
lost a write); every other slot has a reminder of the window it has now, unless
the rescheduling of *another slot* of the exam took it away (`bereft`); and
nobody is told twice unless the first message was not put on record.

### ExamPaper

`exam-paper-import.service.ts` with its processor, `exam-cache.service.ts`, and
the start, resume and page of questions of `exam-attempt.service.ts`.

| Code | Actions |
|---|---|
| `submitQuestionPaperUpload` | `SubmitUpload`, `CreateUpload`, `EnqueueUpload` |
| `retryQuestionPaperUpload` | `RetryRead`, `RetryReset`, `RetryRequeue` |
| the import worker | `ImportStart`, `ImportReject`, `ImportError`, `ImportCommit`, `ImportDone` |
| the snapshot of a version | `PrepareStart`, `PrepareRead`, `PrepareWrite`, `PrepareVerify`, `Evict` |
| a student | `StartAccess`, `StartRead`, `StartInsert`, `Resume`, `ViewQuestions`, `Ensure`, `Look`, `Rebuild`, `Store`, `Serve` |
| ten minutes, a crash | `Age`, `ServerCrash` |

`PaperRead`: a snapshot never holds a paper older than its version (it may hold
a newer one), and a student sees an empty page only when an import replaced the
paper after the attempt was started or last resumed. `ImportsAccounted`: an
upload that is PROCESSING has a job or an accident in `cause`; two imports run
at once only after a check that did not see the other, or after ten minutes;
every completed upload made one version, and a second one when its worker died
after the transaction.

### QuestionTiming

`question-timing.service.ts`, `redis-timing.store.ts`, `time-analysis.service.ts`
and the submissions that flush the timer.

| Code | Actions |
|---|---|
| `startQuestionTiming` | `StartCheck`, `ReadActive`, `CloseInterval`, `ReadVisit`, `SetActive` |
| `endQuestionTiming` | `EndRead`, `CloseInterval`, `Clear` |
| `finalizeActiveTiming` in a submission | `SubmitCheck`, `SubmitCommit`, `ReadActive`, `CloseInterval`, `Clear` |
| `generateTimeAnalysis`, `recalculateTimeAnalysis` | `ReadAnalysis`, `Recalculate`, `AskCache`, `Lookup`, the closing of what is open, `Analyse`, `StoreAnalysis`, `CacheAnalysis` |
| `saveTimeLog` of exam-attempt | `SaveTimeLog` |
| time, a crash | `Tick`, `TimingDies` |

`TimeAccounted`: no measured time lies outside of the attempt, whatever overlaps
or dies; if nothing overlaps and nothing dies no second is counted for two
questions and visits are numbered in order; unless something overlaps the
submission or the submission dies, nothing is open or counted after it.
`AnalysisComplete`: an analysis first asked for after the submission counts every
interval, also when the submission died before it closed the last one. The
deduplication of events has no action: seen or not, the code goes on to the same
reads and writes.

### ExamMonitoring

`exam-session.service.ts`, `security-event.service.ts`, `risk-engine.service.ts`
and `security-review.service.ts`, for one attempt.

| Code | Actions |
|---|---|
| `createOrResumeSession` | `ResumeSession`, `OpenRead`, `OpenInvalidate`, `OpenCreate`, `OpenCache` |
| `recordHeartbeat` | `HeartbeatRead`, `HeartbeatWrite`, `HeartbeatKeep`, `Silence` |
| `ingestEvents`, `evaluateAttemptSecurity` | `Ingest`, `EvaluateAttempt`, `EvaluateEvents`, `EvaluateScore` |
| `reviewAttempt`, `terminateAttempt` | `Review`, `ApplyReview`, `Terminate`, `TerminateSessions`, `TerminateLog` |
| submission, a crash | `SubmitClears`, `Cut` |

`AttemptWatched` has two parts. `OneWindow`: unless two windows *open* the attempt at once, it is open in one at
most; and the session Redis names is that one, unless an opening met another, a
heartbeat that had read the key before it, or died. `AttemptJudged`: a
disqualified attempt is flagged, the risk counts every event, and the
disqualification is what the last review with a verdict says, each unless the
two requests it names overlapped or one died.

### BatchUpload

The bulk registration of students by an administrator
(`student-bulk-registration.service.ts`) and by an institution
(`bulk-upload*.service.ts`), with the upload handler of the approval workflow.

| Code | Actions |
|---|---|
| a parsed and validated sheet | `UploadInit` |
| `updateStagedRow` | `EditRead`, `EditRow`, `EditCount`, `EditBatch` |
| `submitForApproval` | `SubmitUpload`, `SubmitRecheck`, `SubmitReady`, `SubmitSend` |
| `reviewUpload`; approval workflow | `ReviewUpload`, `ReviewFind`, `ReviewDecide`; `SettleRead`, `SettleTx`, `ApproveAgain` |
| `confirmAndRegisterStudents`, `activateUpload` | `Confirm`, `ActivateOpen`, `ActivateClaim`, `ActivateList`, `RegisterRow`, `EnrolRow`, `MarkRow`, `RowThrows`, `FailRow`, `ActivateEnds` |
| other registrations, a crash | `RegisterElsewhere`, `Stop` |

`UploadsStand`: no student comes from an institution's upload before one of its
requests is approved, unless two decide at once, and an activated upload stays
activated, unless a request ran beside the activation or a second request for
approval was left. Its part `RowsAccounted`: unless activations overlapped or one
died, a row whose student the upload created is ACTIVATED, and an activation
nothing overlapped with leaves no valid row pending. An upload that was activated
in part can be edited: between the edit of a row and the update of the upload, and
until another edit if this one dies in between, it is PARTIALLY_ACTIVATED with a
valid row that nobody can activate. `NoRowLeft` excepts these; the proof found them.

### QuestionBank and QuestionImport

`question-bank.service.ts` with the question handler of the approval workflow,
and `question-import.service.ts`, which works through the operations of the
first: `QuestionImport` extends `QuestionBank` and adds one file.

| Code | Actions |
|---|---|
| `createQuestion` | `CreateQuestion` |
| edit, submit, start of a review, approve, reject, archive | `OpenQuestion` (read and checks), then `EditCommit`, `VersionCommit` or `MoveCommit` |
| `deleteQuestion` | `OpenQuestion`, `CountUsage`, then `Erase`, or `Retire` and `MoveCommit` |
| an operation that fails | `GiveUp` |
| exams; the approval queue | `AddToExam`, `TakeOffExam`; `RequestReview`, `CancelRequest` |
| paper imports and tests made from a file, which create questions | `PlantQuestion` |
| translations; the upload of an answer key: both write in place | `TranslateQuestions`, `UploadAnswerKey` |
| upload and validation, correction of a row, cancellation | `Upload`, `CorrectRow`, `CancelImport` |
| `executeImport` | `Confirm`, `Claim`, `ReadRows`, `CreateFromRow`, `OpenFromRow`, `WriteFromRow`, `RefuseRow`, `MarkRow`, `FailRow`, `FinishImport` |
| errors and crashes | `ImportDies` |

The content of a question, its answer and translations included, is the number of
writes it had (`text`), which is all that a review can be compared with. `desk[u]` is what a member of the staff has
read and not yet written, `clerk[u]` the confirmation of an import.

`QuestionsReviewed` has three parts. `ApprovedAsRead`: an approved question has
the text its approver read. `ApprovalStands`: it stays approved or is archived;
editing it makes a new version. Both except questions where another operation
overlapped with the approval (`unsettled`) and those whose request in the queue
was cancelled (`withdrawn`); `ApprovedAsRead` those as well whose text was written in
place while they were being approved or later (`overwritten`): a translation or a key
asks for no status and makes no version, and nothing tells the reviewer.
`TrailComplete`: the history of a question ends in its status and has no gap but
those that overlaps leave; a question that a paper created approved has none yet
(`planted`). `VersionsKept`: the
parent of a version is in the bank, one version lower, approved or archived; what
is on an exam is in the bank, whatever overlaps. `RowsImported`: a row is written
to the bank once, and the import and its rows say so truthfully, unless two
confirmations ran on one status, a running or completed import was cancelled, or
a row could not be marked.

## What is proved

All of these hold for every value of the constants that satisfies the module's
named assumption (`AttemptAssumption`, `ResultAssumption`, `RankAssumption`,
`LoginAssumption`, `RegistrationAssumption` and `CrashesAssumption`,
`BillingAssumption`, `BoundsAssumption`, `UploadAssumption`, `ReminderAssumption`,
`BankAssumption`, `ImportAssumption`, `PaperAssumption`, `TimingAssumption`,
`MonitorAssumption`, `MarkingAssumption`, `CandidateAssumption`), and for any number
of steps. Where a theorem needs more than that, the condition is in its statement and explained below. Each proof is an inductive invariant with
one step for every action of the module.

| Module | Theorem | Property of a run | Says |
|---|---|---|---|
| `AttemptLifecycle_proofs` | `TypeCorrect`, `SlotsCorrect` | `TypeOK` | types, and what handlers remember over an await |
| | `SubmissionsLeadOn` | `SubmissionsEvaluated` | no submission without a result in the making, of the right kind |
| | `FinalisedForGood` | `FinalisedOnce` | what may overwrite a final status, and its date |
| | `SingleAttemptRule`, `OneActiveAttemptRule` | `SingleLiveAttempt`, `OneActiveAttempt` | the two rules, for one request per student at a time |
| `ResultPipeline_proofs` | `TypeCorrect`, `KeyBeforeEvaluation` | `TypeOK`, `EvaluatedAfterKey` | jobs are run once; what is evaluated before a key, and by whom |
| | `PublicationsAreComplete`, `PublicationsAreStable` | `PublishedComplete`, `PublicationStable` | a publication releases every result, evaluated, and lasts (if `Orderly`) |
| | `ImplementsRelease` | `ReleaseSpec` | the pipeline implements `ResultRelease` (if `Orderly`) |
| | `NothingStalls` | `NoSilentStall` | no result is left in process without a job or a request (if `Attended`) |
| `Candidate_proofs` | `TypeCorrect`, `CompetitionCorrect`, `OthersCorrect`, `StoredCorrect` | `CompetitionRanks`, `OtherRanks`, `StoredWithRank` | what each mode counts; percentiles and predictions agree with the ranks |
| | `PaperTypeCorrect`, `PaperIsRead`, `ImportsAreAccounted` | `PaperRead`, `ImportsAccounted` | which paper a student gets; one import at a time and one version each |
| | `TimingTypeCorrect`, `TimeIsAccounted`, `AnalysisIsComplete` | `TimeAccounted`, `AnalysisComplete` | no second counted twice or outside of the attempt; the analysis misses none |
| | `MonitoringTypeCorrect`, `AttemptIsWatched` | `AttemptWatched` | one window; risk, flag and verdict follow events and reviews |
| | `MarksDoAgree` | `MarksAgree` | four services find the same outcomes, the subjects add up, the losses are accounted for |
| | `CandidateTypeCorrect`, `CandidateIsSafe` | `CandidateTypeOK`, and all of the above | the five, composed as the run explores them |
| `LoginSession_proofs` | `TypeCorrect`, `TokensAreSafe` | `TokensSafe` | one live token; nothing outlives a revocation |
| | `ImplementsRegister` | `BehavesAsRegister` | the rows implement `SessionRegister` |
| `Billing_proofs` | `BillingTypeCorrect`, `VerdictsAreKept`, `OneMailIsKept`, `TaxAgrees` | `VerdictsKept`, `OneMailJob` | types; reviews and mailings under any interleaving; tax |
| | `NumbersAreSequential` | `Sequential` | numbers without gaps while creations do not overlap |
| `Staff_proofs` | `ExamTypeCorrect`, `EveryWindowIsClosed` | `EveryWindowCloses` | every live slot is going to be closed, or has a reason |
| | `ReviewsDoStand`, `SlotsDoEnd` | `ReviewsStand`, `SlotsEnd` | decisions stand; slots end on time and stay ended |
| | `UploadTypeCorrect`, `UploadsDoStand` | `UploadsStand` | an upload is approved first, its activation stands, its rows are true |
| | `TypeInvariant`, `RemindersCorrect` | `RemindersFollow` | reminders follow the windows |
| | `StaffTypeCorrect`, `StaffIsSafe` | `StaffTypeOK`, and all of the above | the three, composed as the run explores them |
| `Question_proofs` | `BankTypeCorrect`, `VersionsAreKept`, `ReviewsHold` | `VersionsKept`, `QuestionsReviewed` | reviews and versions under any interleaving |
| | `ImportTypeCorrect`, `RowsAreImported`, `VersionsKeptByImports`, `ReviewsHoldUnderImports` | `RowsImported`, `VersionsKept`, `QuestionsReviewed` | rows are imported once; imports undo no review |
| `Accounts_proofs` | `RegistrationTypeCorrect`, `PaymentTrailHolds` | `PaymentTrail` | no account without a captured payment; what becomes of every payment and event |
| | `AccountsTypeCorrect`, `AccountsAreSafe` | `AccountsTypeOK`, and those of sessions, payments, bills, bank and imports | the five, composed as the run explores them |

**AttemptLifecycle_proofs.** `SlotsCorrect` is the invariant `SlotInv` about local
variables: the attempt a handler works on exists, an auto-submit has cut its
instant at the end of the attempt, the fallback calculation belongs to a mock
attempt, the calculation of a termination follows its review. None of the
properties is inductive without it, since they all depend on what a handler
remembers over an await. `SingleAttemptRule` needs one more assumption, in its
statement: a student has one request in flight at a time. Its invariant
`StartInv` says that what `startAttempt` has checked is still so when it creates
the attempt. `OneActiveAttemptRule` is the rule about other exams, with
`ActiveInv` for an invariant: between the look for running attempts elsewhere and
the end of the request, every running attempt of the student is on the exam that
is being started.

**ResultPipeline_proofs.** `TypeCorrect` has a part `JobsRun`: a job is active
exactly while its processor is at a step, so that a worker is never entered
twice and never abandoned. `KeyBeforeEvaluation` is about a
live exam and assumes nothing else: whatever requests there are, whatever fails and
however they interleave, no result is calculated before the key, except of the
attempts an administrator terminated, or had calculated or retried by hand before
there was a key. The invariant `KeyInv` says that before the first upload every job,
every failed result to retry, every loop under way and every calculation is of one of
those. What the exceptions amount to is in [the weaknesses](#weaknesses-the-models-contain);
`recalculateResult`, which is not modelled, is one more request by hand that evaluates
without asking for a key (`result.service.ts:565`).

The three theorems about the release ask for `Orderly`: a live exam, administrators
who wait until the queues are empty and the candidates' time is over, and who only
upload the key, publish and look; and no job that fails. This is the intended way of
an exam, and each part of it is needed: a rank request, a retry of a single job or a
failed evaluation marks a result as processed that was not evaluated, and the
publication does not notice. `ReleaseInv` has seven parts. `InTurn`: a request has the
queues to itself, except the loop of an upload. `InLine`: an attempt is in one of the
three queues at most, and in none that has failed. `Keyed`: before the key nothing is
queued. `Awaited`: a submitted attempt without a mark is in the first queue or in the
hands of the upload. `AllMarked`: past the first queue it has a mark, and its result
says so. `Checked`: a publication that goes on has seen every result marked, and no
earlier check writes over it. `Released`: once one result is released all are, and
nothing is under way. `ImplementsRelease` maps the writes of the evaluation
worker to `Mark`, the transaction of the publication to `Release`, everything else to
a stutter.

`NothingStalls` allows failures and retries without bound. Its `Attended` asks that
requests come while the queues are at rest, that Redis takes the jobs of an upload,
that no attempt is terminated, and that no single result of a live exam is calculated
by hand: a refused job leaves its result in PROCESSING, the endpoint and the
termination leave it EVALUATED, and nothing goes on with either. `Sound` says that an attempt is
treated by one job at a time, and leaves the last of them with its result settled;
`Careful` that a request finds the attempt it works on at rest; `Accounted` is the
property itself.

**Candidate_proofs, ranks.** The comparison of candidates is a strict weak order
(lemmas `Trichotomy`, `BetterTransitive`, `TiedEquivalence`). The invariant
(`Ordered`, `InRange`, `RankInv`) says of every rank already given that the
candidates before it are better and those from it to its holder are tied;
`CompetitionCorrect` turns that into the number of better candidates
(`BetterCount`, by a bijection). `OthersCorrect` does so for the different
results among them (`BetterKeys`; `NextKeys`: the first of a tied group adds one,
the others none). `StoredCorrect` is for up to a million
candidates: with more, four decimals no longer keep neighbouring ranks apart.
The arithmetic of division and rounding is in lemmas of its own.

**Candidate_proofs, papers.** `PaperInv` has two halves. For the reader: a key holds a
paper of its version or of a later one (`SnapshotsKept`), because whoever is about to
write one took the paper that was current and goes by a version that was not newer
(`BuildKept`, `StudentKept`); and a student whose paper was not replaced goes by the
current version at every await of the request. For the imports: an upload and its job
agree (`UploadsKept`); no two requests have one job to add (`TasksKept`); unless an
upload was checked beside another one, at most one upload or request is under way
(`AloneKept`); and the versions are counted, with the uploads that a crash after
their transaction left to be carried out again (`RunsKept`).

**Candidate_proofs, timing.** `TimingInv` puts requests that run together on record
(`Together`), so that each part has to hold only until two of them meet. `Clocks`:
nothing measured, read or open is past the clock or the deadline. `InTurn`: while
requests do not overlap, what is open begins after everything measured, the one about to
close has read what is open, and a new visit has a number above all measured ones
(`LastVisitIs`: the maximum exists, by the well-order of the numbers). `NobodyStarts`
and `Submission`: once submitted nobody is at a question, all ends by the submission,
and what is still open is in the hands of the submission. `Analysis`: after it nothing
is open when the rows are counted, and none comes later. The parts use each other:
`Analysis` needs `NobodyStarts`, `InTurn` and `Submission` need `Together`.

**Candidate_proofs, monitoring.** As in the timing, kinds of requests that run beside each other
are on record (`Crossing`), and each part of `WatchInv` excuses only its own kinds:
`OneOpened` and `KeyKnown` say that an opening that is alone creates its session when
there is no other one and is the only one to write the key; `FlagKept` that
evaluations of a disqualified attempt have read its flag; `RiskKept` that an
evaluation has counted all events; `VerdictKept` that a review applies the last
verdict.

**Candidate_proofs, marking.** `RowsKept` says of every row what it holds in terms of the
answers alone (`Right`, `Tried`, `Seen`), as they were when the result
was made; no step but a late answer (`late`) changes those afterwards, and then the rows
are compared with each other only. Reports made from other answers are on record
(`apart`) and promise nothing.
It is `MarksAgree` without its comparisons: what is left compares sums over sets of
questions. A sum is a fold of the community modules, which is a recursive function on
the subsets of a finite set chosen by a description. `SumExists` shows that there is
such a function and `IterationsAgree` that there is one only. The library's induction
takes an operator, which the provers cannot instantiate; these inductions speak of a set
of numbers (`NumberInduction`) or of a set of subsets (`SubsetInduction`) instead.
From them follow the laws that the three parts need: a sum splits at any element (`SumSplits`) and into groups (`SumOfGroups`), grows
with its weights and with its set (`SumOfMore`, `SumGrows`), and of one constant it is a
product (`SumOfConstant`). `RowsAgree` proves `SameOutcomes`: an answer that was cleared, which
only the strategy analysis takes for none, is a wrong one for everyone else
(`ClearedIsWrong`), because the options of a question are numbered and the sign for no
option is not a number (`MinIn`, `MarkingAssumption`). `RowsAddUp` proves
`SubjectsAddUp`: the questions of a paper are grouped by their subject; a subject
that is clamped at zero adds more than its share. `RowsAccount` proves
`LossesAccounted`. The proof found what a run over penalties that are not negative
does not show: without `NoneNegative` the strategy analysis blames more than was lost,
and the run now has a question with a negative penalty.

**LoginSession_proofs.** Types and locks (`LocksOpen`: no row stays locked after
its transaction) are proved together with the two parts of `TokensSafe`: what a
request has read stays true of the rows it holds locked (`Locked`); a
revocation's `updateMany` has found every token of its sessions but a first one
(`Found`), because a later one would have needed the lock of the session; and a
token whose session is already revoked while it is exchanged is a first one
(`Late`). `ImplementsRegister` is the step simulation: a commit of a refresh is
`Exchange`, one of a revocation `End`, everything else a stutter. It needs of the
rows what no lock shows: an exchanged token is a revoked one (`Exchanged`), once
a session was refreshed the token it still has is one that another was exchanged
for (`Chained`), and what a revocation ends are sessions that exist (`Ends`).

**Billing_proofs.** The bills hold no lock, so all that carries an operation from
its read to its write is that nothing else touched the bill. `Alone` states it:
an operation on a bill that is not in `raced` is the only one on it, and what it
has read (status, amount, creator) is still so. It is inductive because a second
operation that begins on the bill puts it in `raced`. `Reviewed` then ties a
decided bill to its verdicts and the reviewed amount, and `RequestsMatch` the
status to the pending requests whatever races. For the mail, `OnceMailed` counts
the jobs of a bill and the requests about to add one, and `Mailed` says who
answers for an e-mail status in flight. For the numbers, `NumberedInv` says of a
series without overlapping creations that its numbers are 1..n, that the bill about
to be inserted is not there yet, and that the number it was given is the next one, or
one that is taken once the numbers have outgrown their digits; the bulk generation
counts on from it by itself. `BillsStay` and `MailsExist` say that no bill comes into
being by being mailed. `CountsShape` has what `Shape` leaves out of the types. Of a
number it says only that it is one: creations that overlap reuse and skip numbers, and
no bound in the number of bills is kept by every step. That there is a next number at
all (`NextIsNumber`) is the well-order of the gaps to the greatest one. `TaxAgrees` is
arithmetic: with a rate that halves evenly, the tax inside a state (two rounded halves) and across
states (one rounded part) differ by one paisa at most.

**Staff_proofs, the exam.** `ExamInv` says what an operation has in hand between its
reads and its transaction (`InHand`), that two reviews of one request are on record
(`Meetings`), and of every slot (`Watched`): a slot with a job exists, the worker
works on a job that was due, it leaves a slot closed or with a reason, and a live slot
has a job, a reason, or an operation about to queue one. Of the thirty-odd operations
most begin, go on or end without a slot or a request (`QuietlyKeeps`); the others
change slots and requests only as `SlotsMove` and `RequestsMove` allow, which
`OperationKeeps` shows to be enough for the invariant and for what the properties
promise of a step.

**Staff_proofs, the upload.** `UploadInv` has a part for each half of the property.
`RowsTrue`: a student that came from a row has it marked, or about to be, and no row
still to be done has one, so that no FAILED row does. `LeftTrue`: an activation that
nothing ran beside has listed every row there is to do (`NoneMissed`), and each other
request found the upload in a status of its own (`StageFits`), so that none of them
changes it once it is ACTIVATED. `DecisionsTrue`: a reviewer's request for approval is
PENDING until the reviewer decides it, and a request that is APPROVED stands behind
every activation under way and every student (`Backed`). `Alone` ties the three to
the races the property excepts: what is not on record in `raced` did not happen.
`UploadsTrue` derives the property.

**Staff_proofs, the reminders.** `OnRecord`: a message that went out is on record, is about
to be, or is listed as unrecorded. `RowsFirst`: a job has a row, and both have a
version the clock has reached. `Disturbed`: tasks that are under way together
have spoiled their slots. `Undisturbed`: of a slot that is not spoiled, the
running task knows the window and its version is above all earlier ones.
`OldHandled`: every reminder of an old window is in the hands of the running
task, gone, or excused. `StillReminded`: the window of a slot has a job or a task
about to make one. `RemindersCorrect` is their consequence.

**Question_proofs, the bank.** As in the bills, an operation that met no other still
holds what it has read (`Unmet`), and any two on one question are on record
(`Meetings`). What makes an approval stand is `Established`: a question that was
approved, without an overlap and without a cancelled request, is approved,
archived or erased, and the operations under way on it are a new version, an
archiving or a deletion; one about to erase it found it archived. `Families` ties
a version to its parent, which was approved once and is therefore never erased
while approved; a later erasure takes the link away with it. The writers in place
(`WriteInPlace`) put every question that is approved, or about to be, on record in
`overwritten`, so that `Unmet` and `ApprovedAsRead` hold of all others.

**Question_proofs, imports.** `Honest` holds until a confirmation goes on when it
should not: at most one confirmation has set the status, it counts the rows that
are marked and has none of them before it, and a row says whether it is in the
bank, except the one about to be marked. `Confirmations` has the types and that a
confirmation in the middle of a row has that row (`RowIsLeft`: the rows are well
ordered). `RowsAreImported` is their consequence. For the bank, every step of a
confirmation is an operation of `QuestionBank` or leaves it alone
(`ClerkKeepsBank`), and deaths leave no trace, so that its invariant holds under
imports too.

**Accounts_proofs, registration.** What a request has read of Redis may be gone when it writes,
so that the invariant ties every request to its order and its registration instead:
an order was made for one registration, and a request past its check holds one that was
paid, its own registration's unless it is `lent` (`Remembered`); an account has an order that was paid, and a payment with a
student an account (`Ledger`); a request that writes its copy of a registration back
is alone on it, or the registration counts as disturbed (`Apart`), and then nothing has
happened to it since the copy was read (`Fresh`). `RegistrationInv` has eleven such
parts; `PaymentTrailHolds` follows from it, with any number of handlers, retries,
webhook deliveries and process deaths.

**Composed.** `MCCandidate`, `MCExam` and `MCAccounts` put modules beside each other for
TLC. `CandidateParts`, `StaffParts` and `PartsAlone` show that a behaviour of the composed
specification is a behaviour of each module, as the others stutter, so that what is
proved of one module is a theorem of the specification the run explores
(`CandidateIsSafe`, `StaffIsSafe`, `AccountsAreSafe`). For that the parts a behaviour is not about
must be able to stay somewhere: there is a paper and a question (`CandidateAssumption`). The bank
is the exception, since the imports step it too: `ImporterInv` is kept by both kinds
of steps (`ImporterKeeps`).

**Only model-checked**: liveness (`EveryAttemptEnds`, `KeyLeadsToResults`,
`MockIsPublished`), as fairness and ENABLED are beyond the prover; and the properties of the
pipeline for administrators who are not orderly. Every invariant and every action
property of the passing runs is stated by a theorem, under the condition its theorem
names, if any.

## Disagreements found

Each is a run that stops at a violation of what a comment, a test or a seeder of
the repository says.

- `exam_late_entry`: *"Rule: serverNow must be < endTime"*
  (`exam-scheduling/services/exam-access.service.ts:131`). The window-end worker
  sets the slot to ENDED and then ends the exam, and only logs it when the second
  step fails. In between the access check finds no live slot, takes the exam for
  a self-paced one, and admits students with a full duration.
- `seeded_types`: the seeder creates question types such as SINGLE_CORRECT,
  *"Single Choice Correct"* (`prisma/seeders/01-master-data.seeder.ts:202`), and
  imports write no type at all; the marking knows SCQ, TF, AR, MCQ and NUM only,
  and marks any answer to another question as wrong.
- `result_stale_ranks`: *"1. Concurrency Lock in Redis"*
  (`rank-generation.service.ts:46`). The key is set and never read. Two generations
  overlap, and the one that read first may write last.

### Weaknesses the models contain

Seen while modelling. The steps are in the models, so the properties that pass
hold in spite of them or name them as exceptions. Some of them contradict a
comment, which is quoted.

*Attempts and results*

- Two concurrent starts of one student break both attempt rules. A resume that
  read the attempt before its submission puts it back in progress
  (`exam-attempt.service.ts:159`); only `FinalisedOnce` limits what else may.
- An answer is written after its attempt was finalised, by a save that had passed
  its check (line 389): the result, the analyses and the stored answers may then tell
  three stories. The auto-submit of an expired attempt is left running
  while the request is refused (line 1474).
- The calculate endpoint, a termination (`security-review.service.ts:262`), the retry
  of a single job and `recalculateResult` evaluate a live attempt before the key; the
  evaluation after the upload finds the result complete and keeps it. A result row counts as evaluated, even the
  placeholder of a live attempt (`result-readiness.service.ts:108`).
- The ranking worker reads a result and later writes READY_TO_PUBLISH by id: a
  publication in between is withdrawn for that candidate.
- A retry that meets a job of the previous round which is still active can neither
  remove nor add it; a second upload marks a result whose job has failed for good,
  and the failed job's id keeps the new one out; it re-evaluates no result that is
  EVALUATED or PUBLISHED (`answer-key.service.ts:601`).
- A submission after the upload keeps its placeholder, and no job follows.
- A readiness check that began before a publication or an upload writes what it
  concluded then. The publication lock is a `get` and a `set`.
- `recalculateResult` deletes three kinds of rows before it calculates.
- Recalculating a time or strategy analysis deletes the Redis copy only and
  returns the stored row. A strategy analysis made before the result counts 0
  marks as obtained, for good.
- A cleared multiple-choice answer (a stored empty list) counts as attempted and
  costs marks, while the strategy analysis and the review of the paper call it
  unattempted. Potential marks are overstated when a score was clamped at zero.
- Imports turn a penalty of 0 into 1 (`negativeMarks || 1`), store numerical keys
  where the marking does not read them, and nothing writes an ExamScoringRule.
- `saveTimeLog` accepts times of the client's own, also after the submission, and
  an analysis that exists never counts them. The *"Atomic Event Deduplication"* of
  `redis-timing.store.ts:76` is a `get` and a `set`, without effect on what follows.
- Opening a window does not look at the status of the attempt; a termination
  leaves the session key in Redis.

*Exams and papers*

- Transitions are validated before their transaction and written without a
  condition: a cancellation and an activation both pass. The *"Conditional atomic
  update"* of an activation (`exam-schedule.service.ts:1104`, *"strict concurrency
  protection"* at 1062) has no condition on the status.
- A cancellation closes the slots it read before; a slot scheduled in between
  stays SCHEDULED for a cancelled exam. A deactivation ends the exam and leaves
  its slot ACTIVE. Scheduling a further slot takes a running exam back to
  SCHEDULED. Overlapping slots are looked for and inserted in two statements.
- The window-end job writes the id of an exam status to `Attempt.statusId`, so the
  auto-submission at the end of a window is refused by the foreign key and the job
  fails. Its lock lasts a minute, and a job that meets it is dropped. The job has one
  try (`exam-schedule.service.ts:403`): any error of the worker, and a server that dies
  between the commit of a slot and its job, leave a live slot that nothing closes.
- A retry of a failed paper upload never runs: its job has the id of the failed
  one (`exam-paper-import.service.ts:784`). An import deletes the questions and
  answers of every running attempt of the exam.
- The snapshot of a version that has no questions of its own, as the scheduling
  form and the upload of a paper leave it, is rebuilt from the questions the exam
  has now (`exam-cache.service.ts:83`).
- Reminders: the cancellation ignores its slot (*"if provided, only cancels this
  schedule's reminders"*, `schedule-reminder.service.ts:272`); two reschedulings
  within one second share a key; RETRYING and PROCESSING reminders are not
  cancelled; a CANCELLED can overwrite a SENT; a failure between sending and
  recording sends again (*"preventing duplicate sends"*,
  `whatsapp-reminder.processor.ts:23`); a row whose job could not be queued stays
  QUEUED; cancelling an exam cancels no reminder.

*Accounts, billing, uploads*

- A token of a rolled-back refresh is sent to the client, logging out all devices
  can leave a session that was being signed in to, and logging out with a token
  another tab has just exchanged answers success (`auth.service.ts:2053`).
- Two order requests create two gateway orders, of which the registration
  remembers one (line 527). A lost webhook event stays lost. A registration that has
  stored no order is finalised with any paid one, also that of another registration
  (line 669, *"Verify Order ID mapping"*): two accounts may stand for one payment.
- The worker makes a bill SENT whatever was decided meanwhile; sending has no
  check of the status; two reads of IDLE queue two mails (*"Prevents duplicate
  accidental clicks"*, `billing.service.ts:1498`). A number series stops after
  9999.
- Uploads: the approval workflow can approve no upload (its handler's activation
  reads outside of the transaction and is rolled back); the *"Database duplicate
  check"* of an upload compares ten digits with numbers that begin with 91, and
  edits do not look at the other rows; an edit of a partly activated upload that dies
  before it updates the upload leaves a valid row out; institutions' uploads create accounts under
  ten digits, where other registrations do not look; FAILED rows are never tried
  again and a crash leaves ACTIVATING for good; two confirmations overwrite
  ACTIVATED rows with FAILED; a second pending request can reject an activated
  upload; nothing adds a job to the queue worker of uploads.
- Questions: an edit writes back what it had read of the status and of every
  field it was not given (`question-bank.service.ts:526`), so that a review during
  the edit is undone, or stands for a text nobody reviewed. Two edits of one
  approved question make two versions with one number. A question that was
  approved and then archived is erased by the next deletion (*"Hard delete
  unapproved draft/rejected question"*, line 1117). Exams take questions of any
  status. The approval queue can decide nothing about a question: the row of
  history its handler writes lacks mandatory columns
  (`question-approval.handler.ts:72`), so the request stays PENDING, and
  cancelling it makes an approved question a draft.
- Translations (`translation.service.ts:89`) and the upload of an answer key
  (`answer-key.service.ts:551`) write text, options and answer of an approved question
  in place, without a version, a review or a row of its history; paper imports and
  tests made from a file create questions as approved by whoever asks.
- Imports of questions: a confirmation checks the status and then sets it; a
  cancelled import can be confirmed, and a running one overwrites the
  cancellation; one that died stays IMPORTING for good.
- One-time codes: the number of wrong codes is read before the call to the
  provider and written after it (`two-factor.service.ts:354`).

## Plan

Built in the order of importance: `AttemptLifecycle`; `ResultPipeline` with
`ResultRelease`; `RankAssignment`; `LoginSession` with `SessionRegister`; then
`ExamLifecycle`, `PaidRegistration`, `Billing`, `ExamPaper`, `QuestionTiming`,
`ExamMonitoring`, `BatchUpload`, `Marking`, `Reminders` and the proofs about
them; last `QuestionBank` with `QuestionImport`, which
extends it, and the proofs about the two. Components that share no state are
composed for checking only (`MCAccounts`, `MCCandidate`, `MCExam`); those that do are linked
by the states in which one leaves what the other begins with
(`outcome` and the first actions of `ResultPipeline`; the termination in
`AttemptLifecycle` and `ExamMonitoring`).

Worth doing next:

| Subject | Question |
|---|---|
| `recalculateResult` in `ResultPipeline` | a published candidate between the deletion and the new result; before the key it evaluates without one |
| the reconciliation processor | once some code adds its jobs |
| in-app notifications of the lifecycle | their keys lack the version, so a second notice is never made |

## Not modelled

- *Administration, students, parents, institutions, academic structure, regional
  languages (but for what they write to questions), feature flags*: CRUD of rows that no other operation
  races with in a way the code decides on; their imports and approvals write one
  row at a time.
- *Performance trends, predicted ranks, recommendations, exports*: arithmetic or
  layout over rows that no longer change.
- *Exam generation*: its random choice of questions. The status it writes is in
  `ExamLifecycle`.
- *One-time codes*: the code is kept and checked by an external provider.
- *Job progress, health, Redis, Prisma, common*: messages nobody decides on, and
  plumbing. Redis has a fallback to the memory of one server; where a module has a
  Redis key, it is one that all servers see.
- Within the modelled components: texts, layouts, queries, calendars, parsing of
  sheets, the rules that turn metrics into advice, deletion of rows.
- Isolation of PostgreSQL other than in `LoginSession`: elsewhere one action is one
  statement or one transaction, which is READ COMMITTED for code that reads before
  its transaction and writes by id. Failures of the database other than a lost
  transaction: a statement takes effect or the handler ends.
