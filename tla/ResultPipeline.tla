--------------------------- MODULE ResultPipeline ---------------------------
(***************************************************************************)
(* From a submitted attempt to a published result, for one exam: the       *)
(* evaluation, analytics and ranking queues and their workers, the upload  *)
(* of the answer key, the retries, the readiness check and the             *)
(* publication.                                                            *)
(*                                                                         *)
(* A worker is either the processor of a BullMQ job (a queue and an        *)
(* attempt, since every job id is made of both) or a request slot of an    *)
(* administrator.  Its code is cut at the awaits where what it has read    *)
(* can become stale; what it keeps over them is in its local variables.    *)
(***************************************************************************)
EXTENDS Naturals, FiniteSets

CONSTANTS
    Attempts,      \* attempts of the exam
    Admins,        \* requests of administrators the server can run at a time
    NoAttempt,     \* "no attempt" in a worker that has none
    Live,          \* what isLiveExam() answers for the exam
    Late,          \* whether a student may submit after the window's end
    Quiet,         \* whether administrators wait for the queues to be empty
    Operations,    \* what administrators and viewers ask for
    MaxKeys,       \* bound: uploads of the answer key
    JobAttempts,   \* the queues' "attempts" option
    MaxFailures    \* bound: failures of queues and processors

AllOperations == {"upload", "retryOne", "retryFailed", "calculate", "ranks",
                  "dashboard", "publish", "view", "review", "terminate",
                  "queueDown"}

Queues == {"evaluation", "analytics", "ranking"}

ASSUME ResultAssumption ==
    /\ Attempts # {} /\ IsFiniteSet(Attempts)
    /\ Admins \cap (Queues \X Attempts) = {}
    /\ NoAttempt \notin Attempts
    /\ {Live, Late, Quiet} \subseteq BOOLEAN
    /\ Operations \subseteq AllOperations
    /\ MaxKeys \in Nat
    /\ JobAttempts \in Nat \ {0}
    /\ MaxFailures \in Nat

VARIABLES
    submission,    \* the attempt's finalisation, see SubmitStatus
    ended,         \* the schedule's endTime has passed
    result,        \* Result.resultStatus, "NONE" without a row
    score,         \* 1 + the key version it is evaluated with, 0 if it is not
    analysed,      \* attempts with a TimeAnalysis and a StrategyAnalysis row
    held,          \* attempts with a PENDING AttemptSecurityReview row
    key,           \* uploads of the answer key so far
    snapshot,      \* RankSnapshot.status
    ranks,         \* the score an attempt's CandidateRank is computed from
    publication,   \* ExamResultPublication.status, "NONE" without a row
    lock,          \* the Redis key lock:publish:<exam> exists
    job,           \* state of every job in its queue
    tries,         \* attemptsMade of the job
    pc,            \* the step a worker is at
    todo,          \* attempts its loop has still to treat
    current,       \* the attempt its loop treats, or it calculates
    keyRead,       \* 1 + the key version it has read, 0: nothing to write
    scoresRead,    \* the scores it ranks
    readyRead,     \* checkExamReadiness: isReady
    pubRead,       \* checkExamReadiness: the publication record read
    failures,      \* failures so far
    terminated,    \* history: attempts an administrator has terminated
    forced         \* history: attempts of a live exam that an administrator
                   \* had calculated or retried before there was a key

rows == <<submission, ended, result, score, analysed, held, key, snapshot,
          ranks, publication>>
queues == <<job, tries>>
locals == <<todo, current, keyRead, scoresRead, readyRead, pubRead>>
history == <<terminated, forced>>
vars == <<rows, lock, queues, pc, locals, failures, history>>

Jobs == Queues \X Attempts
Workers == Jobs \union Admins
JobStates == {"none", "waiting", "active", "failed"}

ResultStatuses ==
    {"NONE", "PENDING_WINDOW_CLOSE", "PROCESSING", "EVALUATED",
     "ANALYTICS_PROCESSING", "RANKING_PROCESSING", "READY_TO_PUBLISH",
     "PUBLISHED", "FAILED"}
Deferred == {"PENDING_WINDOW_CLOSE", "PROCESSING", "FAILED"}
PublicationStatuses == {"NONE", "PROCESSING", "READY_TO_PUBLISH", "PUBLISHED"}
SnapshotStatuses == {"NONE", "PROCESSING", "COMPLETED", "FAILED"}
Submissions == {"IN_PROGRESS", "FINALISING", "SUBMITTED"}
Scores == 0 .. MaxKeys + 1

EvaluationSteps == {"evalWrite", "evalMark", "evalEnqueue"}
AnalyticsSteps == {"anaGenerate", "anaEnqueue"}
WorkflowSteps == {"workflow", "publishMock", "markReady", "check", "checkWrite"}
RankSteps == {"rankRead", "rankWrite"}
PublishSteps == {"publishLock", "publishCheck", "publishCheckWrite",
                 "publishTx", "publishUnlock"}
UploadSteps == {"uploadTx", "uploadRead", "uploadMark", "uploadEnqueue"}
Steps == {"idle", "retryMark", "retryAdd", "termRead", "calcWrite"}
         \union EvaluationSteps \union AnalyticsSteps \union WorkflowSteps
         \union RankSteps \union PublishSteps \union UploadSteps

NoScores == [a \in Attempts |-> 0]

Init ==
    /\ submission = [a \in Attempts |-> "IN_PROGRESS"]
    /\ ended = FALSE
    /\ result = [a \in Attempts |-> "NONE"]
    /\ score = NoScores
    /\ analysed = {} /\ held = {}
    /\ key = 0
    /\ snapshot = "NONE" /\ ranks = NoScores
    /\ publication = "NONE" /\ lock = FALSE
    /\ job = [j \in Jobs |-> "none"] /\ tries = [j \in Jobs |-> 0]
    /\ pc = [w \in Workers |-> "idle"]
    /\ todo = [w \in Workers |-> {}]
    /\ current = [w \in Workers |-> NoAttempt]
    /\ keyRead = [w \in Workers |-> 0]
    /\ scoresRead = [w \in Workers |-> NoScores]
    /\ readyRead = [w \in Workers |-> FALSE]
    /\ pubRead = [w \in Workers |-> "NONE"]
    /\ failures = 0
    /\ terminated = {} /\ forced = {}

-----------------------------------------------------------------------------
\* Workers: a step is followed by another, or by the end of the handler.
Goto(w, step) == pc' = [pc EXCEPT ![w] = step] /\ UNCHANGED locals
Finish(w) ==
    /\ pc' = [pc EXCEPT ![w] = "idle"]
    /\ todo' = [todo EXCEPT ![w] = {}]
    /\ current' = [current EXCEPT ![w] = NoAttempt]
    /\ keyRead' = [keyRead EXCEPT ![w] = 0]
    /\ scoresRead' = [scoresRead EXCEPT ![w] = NoScores]
    /\ readyRead' = [readyRead EXCEPT ![w] = FALSE]
    /\ pubRead' = [pubRead EXCEPT ![w] = "NONE"]

\* Queues: Queue.add() does nothing while the queue holds a job of this id,
\* and a job that has failed for the last time is kept.
Enqueue(q, a) ==
    /\ job' = [job EXCEPT ![<<q, a>>] = IF @ = "none" THEN "waiting" ELSE @]
    /\ UNCHANGED tries
Take(q, a) ==
    /\ job[<<q, a>>] = "waiting"
    /\ job' = [job EXCEPT ![<<q, a>>] = "active"]
    /\ tries' = [tries EXCEPT ![<<q, a>>] = @ + 1]
CompleteJob(j, next) ==
    /\ job' = [i \in Jobs |->
                  IF i = j THEN "none"
                  ELSE IF i \in next /\ job[i] = "none" THEN "waiting" ELSE job[i]]
    /\ tries' = [tries EXCEPT ![j] = 0]
FailJob_Removed(j) ==
    /\ failures < MaxFailures
    /\ failures' = failures + 1
    /\ job' = [job EXCEPT ![j] = IF tries[j] < JobAttempts THEN "waiting"
                                                           ELSE "none"]
    /\ UNCHANGED tries
FailJob(j) ==
    /\ failures < MaxFailures
    /\ failures' = failures + 1
    /\ job' = [job EXCEPT ![j] = IF tries[j] < JobAttempts THEN "waiting"
                                                           ELSE "failed"]
    /\ UNCHANGED tries

\* An administrator's request is accepted.
Quiescent ==
    /\ \A j \in Jobs : job[j] \in {"none", "failed"}
    /\ \A w \in Workers : pc[w] = "idle"
    /\ \A a \in Attempts : submission[a] # "FINALISING"
Accept(w, operation) ==
    /\ operation \in Operations
    /\ w \in Admins /\ pc[w] = "idle"
    /\ Quiet => Quiescent

IsFinal(a) == submission[a] # "IN_PROGRESS"
SetStatus(a, s) == result' = [result EXCEPT ![a] = s]
\* result.update() by a handler that works on the row only if it exists
UpdateStatus(a, s) == SetStatus(a, IF result[a] = "NONE" THEN "NONE" ELSE s)

-----------------------------------------------------------------------------
(* Submission, as AttemptLifecycle models it, as far as results depend on  *)
(* it: the status is set, then a live attempt gets a placeholder and any   *)
(* other an evaluation job.                                                *)

SubmitStatus(a) ==
    /\ submission[a] = "IN_PROGRESS"
    /\ Late \/ ~ended
    /\ submission' = [submission EXCEPT ![a] = "FINALISING"]
    /\ UNCHANGED <<ended, result, score, analysed, held, key, snapshot, ranks,
                   publication, lock, queues, pc, locals, failures, history>>

SubmitTail_QueueAll(a) ==
    /\ submission[a] = "FINALISING"
    /\ submission' = [submission EXCEPT ![a] = "SUBMITTED"]
    /\ Enqueue("evaluation", a)
    /\ UNCHANGED <<ended, result, score, analysed, held, key, snapshot, ranks,
                   publication, lock, pc, locals, failures, history>>

SubmitTail(a) ==
    /\ submission[a] = "FINALISING"
    /\ submission' = [submission EXCEPT ![a] = "SUBMITTED"]
    /\ \/ Live /\ SetStatus(a, "PENDING_WINDOW_CLOSE") /\ UNCHANGED queues
       \/ ~Live /\ Enqueue("evaluation", a) /\ UNCHANGED result
    /\ UNCHANGED <<ended, score, analysed, held, key, snapshot, ranks,
                   publication, lock, pc, locals, failures, history>>

WindowCloses ==
    /\ ~ended /\ ended' = TRUE
    /\ UNCHANGED <<submission, result, score, analysed, held, key, snapshot,
                   ranks, publication, lock, queues, pc, locals, failures, history>>

-----------------------------------------------------------------------------
(* calculateResult(): reads the attempt, its result and the questions with *)
(* their key; a result that has been calculated before is returned as it   *)
(* is, otherwise one transaction writes the new one.                       *)

CalculateRead(w, a) ==
    keyRead' = [keyRead EXCEPT ![w] = IF score[a] > 0 THEN 0 ELSE key + 1]
CalculateWrite(w, a) ==
    \/ keyRead[w] = 0 /\ UNCHANGED <<score, result>>
    \/ /\ keyRead[w] > 0
       /\ score' = [score EXCEPT ![a] = keyRead[w]]
       /\ SetStatus(a, "EVALUATED")

EvaluationRead(a) == LET w == <<"evaluation", a>> IN
    /\ Take("evaluation", a)
    /\ IsFinal(a)
    /\ CalculateRead(w, a)
    /\ pc' = [pc EXCEPT ![w] = "evalWrite"]
    /\ UNCHANGED <<rows, lock, todo, current, scoresRead, readyRead, pubRead,
                   failures, history>>

EvaluationWrite(a) == LET w == <<"evaluation", a>> IN
    /\ pc[w] = "evalWrite"
    /\ CalculateWrite(w, a)
    /\ Goto(w, "evalMark")
    /\ UNCHANGED <<submission, ended, analysed, held, key, snapshot, ranks,
                   publication, lock, queues, failures, history>>

EvaluationMark(a) == LET w == <<"evaluation", a>> IN
    /\ pc[w] = "evalMark"
    /\ SetStatus(a, "EVALUATED")
    /\ Goto(w, "evalEnqueue")
    /\ UNCHANGED <<submission, ended, score, analysed, held, key, snapshot,
                   ranks, publication, lock, queues, failures, history>>

EvaluationEnqueue(a) == LET w == <<"evaluation", a>> IN
    /\ pc[w] = "evalEnqueue"
    /\ CompleteJob(w, {<<"analytics", a>>})
    /\ Finish(w)
    /\ UNCHANGED <<rows, lock, failures, history>>

EvaluationFails(a) == LET w == <<"evaluation", a>> IN
    /\ pc[w] \in EvaluationSteps
    /\ FailJob(w)
    /\ UpdateStatus(a, "FAILED")
    /\ Finish(w)
    /\ UNCHANGED <<submission, ended, score, analysed, held, key, snapshot,
                   ranks, publication, lock, history>>

-----------------------------------------------------------------------------
(* The analytics worker.  getTimeAnalysis() and getAttemptStrategy()       *)
(* compute their reports and write no row.                                 *)

AnalyticsStart(a) == LET w == <<"analytics", a>> IN
    /\ Take("analytics", a)
    /\ UpdateStatus(a, "ANALYTICS_PROCESSING")
    /\ Goto(w, "anaGenerate")
    /\ UNCHANGED <<submission, ended, score, analysed, held, key, snapshot,
                   ranks, publication, lock, failures, history>>

AnalyticsGenerate(a) == LET w == <<"analytics", a>> IN
    /\ pc[w] = "anaGenerate"
    /\ result[a] # "NONE"
    /\ SetStatus(a, "RANKING_PROCESSING")
    /\ Goto(w, "anaEnqueue")
    /\ UNCHANGED <<submission, ended, score, analysed, held, key, snapshot,
                   ranks, publication, lock, queues, failures, history>>

AnalyticsEnqueue(a) == LET w == <<"analytics", a>> IN
    /\ pc[w] = "anaEnqueue"
    /\ CompleteJob(w, {<<"ranking", a>>})
    /\ Finish(w)
    /\ UNCHANGED <<rows, lock, failures, history>>

AnalyticsFails(a) == LET w == <<"analytics", a>> IN
    /\ pc[w] \in AnalyticsSteps
    /\ FailJob(w)
    /\ Finish(w)
    /\ UNCHANGED <<rows, lock, history>>

-----------------------------------------------------------------------------
(* Ranking: generateRanks(), for a ranking job or for an administrator,    *)
(* then the readiness workflow of the job's attempt.  The Redis key that   *)
(* generateRanks() sets is never looked at, so it is left out.             *)

RankingStart(a) == LET w == <<"ranking", a>> IN
    /\ Take("ranking", a)
    /\ snapshot' = "PROCESSING"
    /\ Goto(w, "rankRead")
    /\ UNCHANGED <<submission, ended, result, score, analysed, held, key,
                   ranks, publication, lock, failures, history>>

AdminRanks(w) ==
    /\ Accept(w, "ranks")
    /\ snapshot' = "PROCESSING"
    /\ Goto(w, "rankRead")
    /\ UNCHANGED <<submission, ended, result, score, analysed, held, key,
                   ranks, publication, lock, queues, failures, history>>

RankRead(w) ==
    /\ pc[w] = "rankRead"
    /\ scoresRead' = [scoresRead EXCEPT ![w] = score]
    /\ pc' = [pc EXCEPT ![w] = "rankWrite"]
    /\ UNCHANGED <<rows, lock, queues, todo, current, keyRead, readyRead,
                   pubRead, failures, history>>

\* Ranks are over: a job goes on with its workflow, a request is answered.
RanksDone(w) ==
    IF w \in Admins THEN Finish(w)
    ELSE /\ pc' = [pc EXCEPT ![w] = "workflow"]
         /\ scoresRead' = [scoresRead EXCEPT ![w] = NoScores]
         /\ UNCHANGED <<todo, current, keyRead, readyRead, pubRead>>

RankWrite(w) ==
    /\ pc[w] = "rankWrite"
    /\ ranks' = scoresRead[w]
    /\ snapshot' = "COMPLETED"
    /\ RanksDone(w)
    /\ UNCHANGED <<submission, ended, result, score, analysed, held, key,
                   publication, lock, queues, failures, history>>

RankFails(w) ==
    /\ pc[w] \in RankSteps
    /\ failures < MaxFailures /\ failures' = failures + 1
    /\ snapshot' = "FAILED"
    /\ RanksDone(w)
    /\ UNCHANGED <<submission, ended, result, score, analysed, held, key,
                   ranks, publication, lock, queues, history>>

\* onAttemptWorkflowCompleted() reads the result, then updates it by its id.
WorkflowRead_LiveOnly(a) == LET w == <<"ranking", a>> IN
    /\ pc[w] = "workflow"
    /\ Goto(w, IF Live /\ result[a] # "PUBLISHED" THEN "markReady" ELSE "check")
    /\ UNCHANGED <<rows, lock, queues, failures, history>>
WorkflowRead(a) == LET w == <<"ranking", a>> IN
    /\ pc[w] = "workflow"
    /\ Goto(w, IF result[a] = "NONE" THEN "check"
               ELSE IF ~Live THEN "publishMock"
               ELSE IF result[a] # "PUBLISHED" THEN "markReady" ELSE "check")
    /\ UNCHANGED <<rows, lock, queues, failures, history>>

WorkflowUpdate(a) == LET w == <<"ranking", a>> IN
    /\ \/ pc[w] = "publishMock" /\ SetStatus(a, "PUBLISHED")
       \/ pc[w] = "markReady" /\ SetStatus(a, "READY_TO_PUBLISH")
    /\ Goto(w, "check")
    /\ UNCHANGED <<submission, ended, score, analysed, held, key, snapshot,
                   ranks, publication, lock, queues, failures, history>>

RankingFails(a) == LET w == <<"ranking", a>> IN
    /\ pc[w] \in WorkflowSteps
    /\ FailJob(w)
    /\ Finish(w)
    /\ UNCHANGED <<rows, lock, history>>

-----------------------------------------------------------------------------
(* checkExamReadiness(): reads the attempts, the snapshot and the          *)
(* publication record, and unless that record was PUBLISHED when it was    *)
(* read, updates it by its id (or creates it, which does nothing if        *)
(* another check has created it since).  The ranking worker calls it twice *)
(* in a row; one call stands for both.                                     *)

Ready ==
    /\ \A a \in Attempts : IsFinal(a) /\ result[a] # "NONE"
    /\ analysed = Attempts
    /\ snapshot = "COMPLETED"
    /\ held = {}

CheckRead(w) ==
    /\ \/ pc[w] = "check" /\ pc' = [pc EXCEPT ![w] = "checkWrite"]
       \/ pc[w] = "publishCheck" /\ pc' = [pc EXCEPT ![w] = "publishCheckWrite"]
    /\ readyRead' = [readyRead EXCEPT ![w] = Ready]
    /\ pubRead' = [pubRead EXCEPT ![w] = publication]
    /\ UNCHANGED <<rows, lock, queues, todo, current, keyRead, scoresRead,
                   failures, history>>

UpdatePublication_Blind(w) ==
    publication' = IF readyRead[w] THEN "READY_TO_PUBLISH" ELSE "PROCESSING"
UpdatePublication(w) ==
    publication' =
        IF pubRead[w] = "PUBLISHED" \/ (pubRead[w] = "NONE" /\ publication # "NONE")
        THEN publication
        ELSE IF readyRead[w] THEN "READY_TO_PUBLISH" ELSE "PROCESSING"

CheckWrite_JobLeft(w) ==
    /\ pc[w] = "checkWrite"
    /\ UpdatePublication(w)
    /\ Finish(w)
    /\ UNCHANGED <<submission, ended, result, score, analysed, held, key,
                   snapshot, ranks, lock, queues, failures, history>>

CheckWrite(w) ==
    /\ pc[w] = "checkWrite"
    /\ UpdatePublication(w)
    /\ Finish(w)
    /\ IF w \in Admins THEN UNCHANGED queues ELSE CompleteJob(w, {})
    /\ UNCHANGED <<submission, ended, result, score, analysed, held, key,
                   snapshot, ranks, lock, failures, history>>

Dashboard(w) ==
    /\ Accept(w, "dashboard")
    /\ Goto(w, "check")
    /\ UNCHANGED <<rows, lock, queues, failures, history>>

-----------------------------------------------------------------------------
(* publishExamResults(), under a lock that is a Redis key read, then set   *)
(* with a time to live, and deleted at the end by whoever gets there.      *)

PublishRequest(w) ==
    /\ Accept(w, "publish")
    /\ ~lock
    /\ Goto(w, "publishLock")
    /\ UNCHANGED <<rows, lock, queues, failures, history>>

PublishLock(w) ==
    /\ pc[w] = "publishLock"
    /\ lock' = TRUE
    /\ Goto(w, "publishCheck")
    /\ UNCHANGED <<rows, queues, failures, history>>

LockExpires ==
    /\ lock /\ lock' = FALSE
    /\ UNCHANGED <<rows, queues, pc, locals, failures, history>>

PublishCheckWrite(w) ==
    /\ pc[w] = "publishCheckWrite"
    /\ UpdatePublication(w)
    /\ Goto(w, IF pubRead[w] # "PUBLISHED" /\ readyRead[w] THEN "publishTx"
                                                           ELSE "publishUnlock")
    /\ UNCHANGED <<submission, ended, result, score, analysed, held, key,
                   snapshot, ranks, lock, queues, failures, history>>

PublishTx_EvaluatedOnly(w) ==
    /\ pc[w] = "publishTx"
    /\ publication' = "PUBLISHED"
    /\ result' = [a \in Attempts |->
                     IF result[a] = "EVALUATED" THEN "PUBLISHED" ELSE result[a]]
    /\ Goto(w, "publishUnlock")
    /\ UNCHANGED <<submission, ended, score, analysed, held, key, snapshot,
                   ranks, lock, queues, failures, history>>

PublishTx(w) ==
    /\ pc[w] = "publishTx"
    /\ publication' = "PUBLISHED"
    /\ result' = [a \in Attempts |->
                     IF IsFinal(a) /\ result[a] # "NONE" THEN "PUBLISHED"
                                                         ELSE result[a]]
    /\ Goto(w, "publishUnlock")
    /\ UNCHANGED <<submission, ended, score, analysed, held, key, snapshot,
                   ranks, lock, queues, failures, history>>

PublishUnlock(w) ==
    /\ pc[w] = "publishUnlock"
    /\ lock' = FALSE
    /\ Finish(w)
    /\ UNCHANGED <<rows, queues, failures, history>>

-----------------------------------------------------------------------------
(* uploadAnswerKey(): checks, one transaction for the key, then a loop     *)
(* over the attempts that wait for an evaluation.                          *)

UploadRequest(w) ==
    /\ Accept(w, "upload")
    /\ Live /\ ended
    /\ key < MaxKeys
    /\ \A a \in Attempts : result[a] # "PROCESSING"
    /\ Goto(w, "uploadTx")
    /\ UNCHANGED <<rows, lock, queues, failures, history>>

UploadTx(w) ==
    /\ pc[w] = "uploadTx"
    /\ key < MaxKeys /\ key' = key + 1
    /\ publication' = "PROCESSING"
    /\ Goto(w, "uploadRead")
    /\ UNCHANGED <<submission, ended, result, score, analysed, held, snapshot,
                   ranks, lock, queues, failures, history>>

Eligible_Submitted == {a \in Attempts : IsFinal(a)}
Eligible == {a \in Attempts : IsFinal(a) /\ result[a] \in Deferred \union {"NONE"}}

UploadRead(w) ==
    /\ pc[w] = "uploadRead"
    /\ todo' = [todo EXCEPT ![w] = Eligible]
    /\ pc' = [pc EXCEPT ![w] = "uploadMark"]
    /\ UNCHANGED <<rows, lock, queues, current, keyRead, scoresRead, readyRead,
                   pubRead, failures, history>>

\* The loop takes an attempt, marks its result, and enqueues its evaluation.
MarkNext(w, from, to) ==
    /\ pc[w] = from
    /\ \E a \in todo[w] :
           /\ SetStatus(a, "PROCESSING")
           /\ current' = [current EXCEPT ![w] = a]
           /\ todo' = [todo EXCEPT ![w] = @ \ {a}]
    /\ pc' = [pc EXCEPT ![w] = to]
    /\ UNCHANGED <<submission, ended, score, analysed, held, key, snapshot,
                   ranks, publication, lock, queues, keyRead, scoresRead,
                   readyRead, pubRead, failures, history>>

UploadMark(w) == MarkNext(w, "uploadMark", "uploadEnqueue")

UploadEnqueue_Forgotten(w) ==
    /\ pc[w] = "uploadEnqueue"
    /\ Goto(w, "uploadMark")
    /\ UNCHANGED <<rows, lock, queues, failures, history>>

UploadEnqueue(w) ==
    /\ pc[w] = "uploadEnqueue"
    /\ Enqueue("evaluation", current[w])
    /\ Goto(w, "uploadMark")
    /\ UNCHANGED <<rows, lock, failures, history>>

\* The queue refuses the job: the error ends the loop and is only logged.
UploadEnqueueFails(w) ==
    /\ "queueDown" \in Operations
    /\ pc[w] = "uploadEnqueue"
    /\ failures < MaxFailures /\ failures' = failures + 1
    /\ Finish(w)
    /\ UNCHANGED <<rows, lock, queues, history>>

LoopDone(w) ==
    /\ pc[w] \in {"uploadMark", "retryMark"} /\ todo[w] = {}
    /\ Finish(w)
    /\ UNCHANGED <<rows, lock, queues, failures, history>>

-----------------------------------------------------------------------------
(* retryFailedJobs() and retrySingleJob(), the request to calculate one    *)
(* result, and the termination of an attempt, which calculates its result. *)

RetryAccepted(w, as) ==
    /\ todo' = [todo EXCEPT ![w] = as]
    /\ pc' = [pc EXCEPT ![w] = "retryMark"]
    /\ UNCHANGED <<rows, lock, queues, current, keyRead, scoresRead, readyRead,
                   pubRead, failures, terminated>>
\* The history of the requests that name an attempt whose exam has no key yet
Forces(a) == forced' = IF Live /\ key = 0 THEN forced \union {a} ELSE forced

RetryFailed(w) ==
    /\ Accept(w, "retryFailed")
    /\ \E a \in Attempts : result[a] = "FAILED"
    /\ RetryAccepted(w, {a \in Attempts : result[a] = "FAILED"})
    /\ UNCHANGED forced

RetryOne(w) ==
    /\ Accept(w, "retryOne")
    /\ \E a \in Attempts :
           result[a] # "NONE" /\ RetryAccepted(w, {a}) /\ Forces(a)

RetryMark(w) == MarkNext(w, "retryMark", "retryAdd")

\* A job that is being processed is locked: it can be neither removed nor
\* added again.
RetryAdd(w) == LET j == <<"evaluation", current[w]>> IN
    /\ pc[w] = "retryAdd"
    /\ job' = [job EXCEPT ![j] = IF @ = "active" THEN @ ELSE "waiting"]
    /\ tries' = [tries EXCEPT ![j] = IF job[j] = "active" THEN @ ELSE 0]
    /\ Goto(w, "retryMark")
    /\ UNCHANGED <<rows, lock, failures, history>>

CalculateRequest(w, a) ==
    /\ Accept(w, "calculate")
    /\ IsFinal(a) /\ score[a] = 0
    /\ CalculateRead(w, a)
    /\ current' = [current EXCEPT ![w] = a]
    /\ pc' = [pc EXCEPT ![w] = "calcWrite"]
    /\ Forces(a)
    /\ UNCHANGED <<rows, lock, queues, todo, scoresRead, readyRead, pubRead,
                   failures, terminated>>

\* terminateAttempt() makes the attempt final whatever it was (a submission that
\* has set its own status goes on to its tail) and calculates the result, of a
\* live exam too, with a key or without one.
TerminateRequest(w, a) ==
    /\ Accept(w, "terminate")
    /\ submission' = [submission EXCEPT ![a] =
                         IF @ = "IN_PROGRESS" THEN "SUBMITTED" ELSE @]
    /\ terminated' = terminated \union {a}
    /\ current' = [current EXCEPT ![w] = a]
    /\ pc' = [pc EXCEPT ![w] = "termRead"]
    /\ UNCHANGED <<ended, result, score, analysed, held, key, snapshot, ranks,
                   publication, lock, queues, todo, keyRead, scoresRead,
                   readyRead, pubRead, failures, forced>>

TerminateRead(w) ==
    /\ pc[w] = "termRead"
    /\ CalculateRead(w, current[w])
    /\ pc' = [pc EXCEPT ![w] = "calcWrite"]
    /\ UNCHANGED <<rows, lock, queues, todo, current, scoresRead, readyRead,
                   pubRead, failures, history>>

CalculateDone(w) ==
    /\ pc[w] = "calcWrite"
    /\ CalculateWrite(w, current[w])
    /\ Finish(w)
    /\ UNCHANGED <<submission, ended, analysed, held, key, snapshot, ranks,
                   publication, lock, queues, failures, history>>

-----------------------------------------------------------------------------
(* Requests that are one statement here: opening the two analyses of an    *)
(* attempt, which stores them; a PENDING security review; and the look at  *)
(* a calculated mock result that publishes it.                             *)

OpenAnalyses(a) ==
    /\ "view" \in Operations
    /\ a \notin analysed
    /\ analysed' = analysed \union {a}
    /\ UNCHANGED <<submission, ended, result, score, held, key, snapshot,
                   ranks, publication, lock, queues, pc, locals, failures, history>>

ReviewPending(a) ==
    /\ "review" \in Operations
    /\ a \notin held
    /\ held' = held \union {a}
    /\ UNCHANGED <<submission, ended, result, score, analysed, key, snapshot,
                   ranks, publication, lock, queues, pc, locals, failures, history>>

HealMock(a) ==
    /\ "view" \in Operations
    /\ ~Live /\ result[a] \notin {"NONE", "PUBLISHED"}
    /\ SetStatus(a, "PUBLISHED")
    /\ UNCHANGED <<submission, ended, score, analysed, held, key, snapshot,
                   ranks, publication, lock, queues, pc, locals, failures, history>>

-----------------------------------------------------------------------------
EvaluationStep(a) ==
    EvaluationRead(a) \/ EvaluationWrite(a) \/ EvaluationMark(a) \/ EvaluationEnqueue(a)
AnalyticsStep(a) ==
    AnalyticsStart(a) \/ AnalyticsGenerate(a) \/ AnalyticsEnqueue(a)
RankingStep(a) == LET w == <<"ranking", a>> IN
    \/ RankingStart(a) \/ WorkflowRead(a) \/ WorkflowUpdate(a)
    \/ RankRead(w) \/ RankWrite(w) \/ CheckRead(w) \/ CheckWrite(w)
StepFails(a) ==
    EvaluationFails(a) \/ AnalyticsFails(a) \/ RankingFails(a) \/ RankFails(<<"ranking", a>>)

Request(w) ==
    \/ AdminRanks(w) \/ Dashboard(w) \/ PublishRequest(w) \/ UploadRequest(w)
    \/ RetryFailed(w) \/ RetryOne(w)
    \/ \E a \in Attempts : CalculateRequest(w, a) \/ TerminateRequest(w, a)
AdminStep(w) ==
    \/ RankRead(w) \/ RankWrite(w) \/ CheckRead(w) \/ CheckWrite(w)
    \/ PublishLock(w) \/ PublishCheckWrite(w) \/ PublishTx(w) \/ PublishUnlock(w)
    \/ UploadTx(w) \/ UploadRead(w) \/ UploadMark(w) \/ UploadEnqueue(w)
    \/ RetryMark(w) \/ RetryAdd(w) \/ LoopDone(w)
    \/ TerminateRead(w) \/ CalculateDone(w)

Next ==
    \/ \E a \in Attempts :
           \/ SubmitStatus(a) \/ SubmitTail(a)
           \/ EvaluationStep(a) \/ AnalyticsStep(a) \/ RankingStep(a)
           \/ StepFails(a)
           \/ OpenAnalyses(a) \/ ReviewPending(a) \/ HealMock(a)
    \/ \E w \in Admins :
           Request(w) \/ AdminStep(w) \/ RankFails(w) \/ UploadEnqueueFails(w)
    \/ WindowCloses \/ LockExpires

Spec == Init /\ [][Next]_vars

\* The workers take the jobs of their queues and every handler that has
\* begun goes on; students, administrators and viewers come as they like.
FairSpec ==
    /\ Spec
    /\ \A a \in Attempts :
           /\ WF_vars(SubmitTail(a))
           /\ WF_vars(EvaluationStep(a)) /\ WF_vars(AnalyticsStep(a))
           /\ WF_vars(RankingStep(a))
    /\ \A w \in Admins : WF_vars(AdminStep(w))

-----------------------------------------------------------------------------
(* Properties                                                              *)

\* The tables, the queues and the workers keep their types, a job is active
\* exactly while its processor is at one of its steps and has an attempt left
\* unless it failed for the last time, and a worker in a loop has the attempt
\* it treats.
RowTypes ==
    /\ submission \in [Attempts -> Submissions] /\ ended \in BOOLEAN
    /\ result \in [Attempts -> ResultStatuses] /\ score \in [Attempts -> Scores]
    /\ analysed \in SUBSET Attempts /\ held \in SUBSET Attempts
    /\ key \in 0 .. MaxKeys /\ failures \in 0 .. MaxFailures
    /\ snapshot \in SnapshotStatuses /\ ranks \in [Attempts -> Scores]
    /\ publication \in PublicationStatuses /\ lock \in BOOLEAN
    /\ terminated \in SUBSET Attempts /\ forced \in SUBSET Attempts
LocalTypes ==
    /\ todo \in [Workers -> SUBSET Attempts]
    /\ current \in [Workers -> Attempts \union {NoAttempt}]
    /\ keyRead \in [Workers -> Scores]
    /\ scoresRead \in [Workers -> [Attempts -> Scores]]
    /\ readyRead \in [Workers -> BOOLEAN]
    /\ pubRead \in [Workers -> PublicationStatuses]
JobsRun ==
    /\ job \in [Jobs -> JobStates] /\ tries \in [Jobs -> 0 .. JobAttempts]
    /\ pc \in [Workers -> Steps]
    /\ \A j \in Jobs : job[j] = "active" <=> pc[j] # "idle"
    /\ \A j \in Jobs : job[j] \in {"none", "waiting"} => tries[j] < JobAttempts
    /\ \A w \in Workers :
           pc[w] \in {"uploadEnqueue", "retryAdd", "termRead", "calcWrite"}
               => current[w] \in Attempts
TypeOK == RowTypes /\ LocalTypes /\ JobsRun

\* A result that says it is being processed is accounted for: one of its
\* jobs is in a queue (the failed ones are kept there for an administrator
\* to see), or a request is about to put it there.  The result of a terminated
\* attempt is not: it has been calculated apart from the queues.
NoSilentStall == \A a \in Attempts \ terminated :
    result[a] \in {"PROCESSING", "EVALUATED", "ANALYTICS_PROCESSING", "RANKING_PROCESSING"}
        => \/ \E q \in Queues : job[<<q, a>>] # "none"
           \/ \E w \in Admins :
                  current[w] = a /\ pc[w] \in {"uploadEnqueue", "retryAdd", "calcWrite"}

\* No result of a live exam is calculated before an answer key is uploaded,
\* except of an attempt that an administrator has terminated, or has had
\* calculated or retried by hand, before there was a key: submission, failures
\* and retries of what has failed never lead to an evaluation by themselves.
EvaluatedAfterKey ==
    Live => \A a \in Attempts \ (terminated \union forced) : score[a] # 1

\* Once the exam's publication is PUBLISHED every candidate's result is.
PublishedTogether ==
    publication = "PUBLISHED" => \A a \in Attempts : result[a] = "PUBLISHED"

\* The ranks of a published exam are computed from the published scores.
RanksCurrent == publication = "PUBLISHED" => ranks = score

\* No result is published that has not been evaluated.
EvaluatedWhenPublished ==
    publication = "PUBLISHED" => \A a \in Attempts : score[a] > 0

\* A publication is complete: it releases every result, and each is evaluated.
PublishedComplete == PublishedTogether /\ EvaluatedWhenPublished

\* Only the upload of another answer key takes a publication back.
PublicationStable ==
    [][publication = "PUBLISHED" /\ key' = key => publication' = "PUBLISHED"]_vars

\* The pipeline implements the promise made to the candidates (ResultRelease):
\* marks with an uploaded key only, all results released in one step, nothing
\* changed afterwards.
Candidates == INSTANCE ResultRelease WITH
    Marks <- 2 .. MaxKeys + 1,
    marks <- score,
    visible <- {a \in Attempts : result[a] = "PUBLISHED"}
ReleaseSpec == Candidates!Spec

\* A submitted mock attempt is published, unless a job of it has failed for
\* the last time.
MockIsPublished == ~Live => \A a \in Attempts :
    submission[a] = "FINALISING"
        ~> result[a] = "PUBLISHED" \/ \E q \in Queues : job[<<q, a>>] = "failed"

\* After an upload of the answer key every submitted result of a live exam
\* gets to the point where it can be published.
KeyLeadsToResults == Live => \A a \in Attempts :
    key > 0 /\ submission[a] = "SUBMITTED" ~> result[a] \in {"READY_TO_PUBLISH", "PUBLISHED"}
=============================================================================
