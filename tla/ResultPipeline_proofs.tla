------------------------ MODULE ResultPipeline_proofs ------------------------
(***************************************************************************)
(* Proofs about ResultPipeline, for any number of attempts, administrators *)
(* and uploads of the answer key.                                          *)
(***************************************************************************)
EXTENDS ResultPipeline, TLAPS

\* A job's worker is no administrator, and every attempt has a job in every
\* queue.
LEMMA Constants ==
    /\ MaxKeys \in Nat /\ JobAttempts \in Nat /\ 0 < JobAttempts
    /\ MaxFailures \in Nat /\ NoAttempt \notin Attempts
    /\ Live \in BOOLEAN
    /\ NoScores \in [Attempts -> Scores]
    /\ 0 \in Scores /\ \A k \in 0 .. MaxKeys : k + 1 \in Scores
    /\ \A s \in Scores : s \in Nat
    /\ \A q \in {"evaluation", "analytics", "ranking"}, a \in Attempts :
           <<q, a>> \in Jobs
    /\ Jobs \subseteq Workers /\ Admins \subseteq Workers
    /\ \A j \in Jobs : j \notin Admins
BY ResultAssumption DEF Jobs, Workers, Queues, NoScores, Scores

\* A worker that goes from one step to the next leaves its job active.
LEMMA WorkerGoes ==
  ASSUME JobsRun, NEW w \in Workers, NEW s \in Steps,
         w \in Jobs => pc[w] # "idle" /\ s # "idle",
         s \notin {"uploadEnqueue", "retryAdd", "termRead", "calcWrite"},
         pc' = [pc EXCEPT ![w] = s], UNCHANGED <<job, tries, current>>
  PROVE  JobsRun'
BY Constants DEF JobsRun, JobStates

\* A request that ends, too, leaves the jobs as they are.
LEMMA RequestEnds ==
  ASSUME JobsRun, NEW w \in Admins, Finish(w), UNCHANGED <<job, tries>>
  PROVE  JobsRun'
BY Constants DEF JobsRun, JobStates, Finish, Steps

\* The end of a handler clears its local variables.
LEMMA LocalsCleared ==
  ASSUME LocalTypes, NEW w \in Workers, Finish(w)
  PROVE  LocalTypes'
BY Constants DEF LocalTypes, Finish, PublicationStatuses

\* Rows, jobs and local variables keep their types, and a job is active
\* exactly while its processor is at one of its steps.
THEOREM TypeCorrect == Spec => []TypeOK
<1> USE Constants
<1>1. Init => TypeOK
  <2> SUFFICES ASSUME Init PROVE TypeOK
    OBVIOUS
  <2> USE DEF Init, Submissions, ResultStatuses, SnapshotStatuses,
              PublicationStatuses, JobStates, Steps
  <2>1. RowTypes
    <3>1. /\ submission \in [Attempts -> Submissions]
          /\ result \in [Attempts -> ResultStatuses]
          /\ score \in [Attempts -> Scores] /\ ranks \in [Attempts -> Scores]
      OBVIOUS
    <3>2. /\ analysed \in SUBSET Attempts /\ held \in SUBSET Attempts
          /\ key \in 0 .. MaxKeys /\ failures \in 0 .. MaxFailures
      OBVIOUS
    <3>3. QED
      BY <3>1, <3>2 DEF RowTypes
  <2>2. LocalTypes
    BY DEF LocalTypes
  <2>3. JobsRun
    BY DEF JobsRun
  <2>4. QED
    BY <2>1, <2>2, <2>3 DEF TypeOK
<1>2. TypeOK /\ [Next]_vars => TypeOK'
  <2> SUFFICES ASSUME TypeOK, [Next]_vars PROVE TypeOK'
    OBVIOUS
  <2> USE DEF TypeOK, Submissions, ResultStatuses, SnapshotStatuses,
              PublicationStatuses, JobStates, Steps, EvaluationSteps,
              AnalyticsSteps, WorkflowSteps, RankSteps, PublishSteps,
              UploadSteps, Goto, Finish, rows, queues, locals, history
  <2>1. ASSUME NEW a \in Attempts, SubmitStatus(a) PROVE TypeOK'
    <3>1. RowTypes'
      BY <2>1 DEF SubmitStatus, RowTypes, LocalTypes, JobsRun
    <3>2. LocalTypes'
      BY <2>1 DEF SubmitStatus, RowTypes, LocalTypes, JobsRun
    <3>3. JobsRun'
      BY <2>1 DEF SubmitStatus, RowTypes, LocalTypes, JobsRun
    <3>4. QED
      BY <3>1, <3>2, <3>3
  <2>2. ASSUME NEW a \in Attempts, SubmitTail(a) PROVE TypeOK'
    <3>1. RowTypes'
      BY <2>2 DEF SubmitTail, Enqueue, SetStatus, RowTypes, LocalTypes, JobsRun
    <3>2. LocalTypes'
      BY <2>2 DEF SubmitTail, Enqueue, SetStatus, RowTypes, LocalTypes, JobsRun
    <3>3. JobsRun'
      <4>1. CASE UNCHANGED queues
        BY <4>1, <2>2 DEF SubmitTail, JobsRun
      <4>2. CASE Enqueue("evaluation", a)
        BY <4>2, <2>2 DEF SubmitTail, Enqueue, JobsRun
      <4>3. QED
        BY <4>1, <4>2, <2>2 DEF SubmitTail
    <3>4. QED
      BY <3>1, <3>2, <3>3
  <2>3. ASSUME NEW a \in Attempts, EvaluationRead(a) PROVE TypeOK'
    <3>1. RowTypes'
      BY <2>3 DEF EvaluationRead, Take, CalculateRead, RowTypes, LocalTypes, JobsRun
    <3>2. LocalTypes'
      BY <2>3 DEF EvaluationRead, Take, CalculateRead, RowTypes, LocalTypes, JobsRun
    <3>3. JobsRun'
      BY <2>3 DEF EvaluationRead, Take, CalculateRead, RowTypes, LocalTypes, JobsRun
    <3>4. QED
      BY <3>1, <3>2, <3>3
  <2>4. ASSUME NEW a \in Attempts, EvaluationWrite(a) PROVE TypeOK'
    <3>1. RowTypes'
      <4>1. score' \in [Attempts -> Scores]
        BY <2>4 DEF EvaluationWrite, CalculateWrite, RowTypes, LocalTypes
      <4>2. result' \in [Attempts -> ResultStatuses]
        BY <2>4 DEF EvaluationWrite, CalculateWrite, SetStatus, RowTypes
      <4>3. QED
        BY <4>1, <4>2, <2>4 DEF EvaluationWrite, RowTypes
    <3>2. LocalTypes'
      BY <2>4 DEF EvaluationWrite, CalculateWrite, SetStatus, RowTypes, LocalTypes, JobsRun
    <3>3. JobsRun'
      BY <2>4, WorkerGoes DEF EvaluationWrite
    <3>4. QED
      BY <3>1, <3>2, <3>3
  <2>5. ASSUME NEW a \in Attempts, EvaluationMark(a) PROVE TypeOK'
    <3>1. RowTypes'
      BY <2>5 DEF EvaluationMark, SetStatus, RowTypes, LocalTypes, JobsRun
    <3>2. LocalTypes'
      BY <2>5 DEF EvaluationMark, SetStatus, RowTypes, LocalTypes, JobsRun
    <3>3. JobsRun'
      BY <2>5 DEF EvaluationMark, SetStatus, RowTypes, LocalTypes, JobsRun
    <3>4. QED
      BY <3>1, <3>2, <3>3
  <2>6. ASSUME NEW a \in Attempts, EvaluationEnqueue(a) PROVE TypeOK'
    <3>1. RowTypes'
      BY <2>6 DEF EvaluationEnqueue, CompleteJob, RowTypes, LocalTypes, JobsRun
    <3>2. LocalTypes'
      BY <2>6 DEF EvaluationEnqueue, CompleteJob, RowTypes, LocalTypes, JobsRun
    <3>3. JobsRun'
      BY <2>6 DEF EvaluationEnqueue, CompleteJob, RowTypes, LocalTypes, JobsRun
    <3>4. QED
      BY <3>1, <3>2, <3>3
  <2>7. ASSUME NEW a \in Attempts, EvaluationFails(a) PROVE TypeOK'
    <3>1. RowTypes'
      BY <2>7 DEF EvaluationFails, FailJob, UpdateStatus, SetStatus, RowTypes, LocalTypes, JobsRun
    <3>2. LocalTypes'
      BY <2>7 DEF EvaluationFails, FailJob, UpdateStatus, SetStatus, RowTypes, LocalTypes, JobsRun
    <3>3. JobsRun'
      BY <2>7 DEF EvaluationFails, FailJob, UpdateStatus, SetStatus, RowTypes, LocalTypes, JobsRun
    <3>4. QED
      BY <3>1, <3>2, <3>3
  <2>8. ASSUME NEW a \in Attempts, AnalyticsStart(a) PROVE TypeOK'
    <3>1. RowTypes'
      BY <2>8 DEF AnalyticsStart, Take, UpdateStatus, SetStatus, RowTypes, LocalTypes, JobsRun
    <3>2. LocalTypes'
      BY <2>8 DEF AnalyticsStart, Take, UpdateStatus, SetStatus, RowTypes, LocalTypes, JobsRun
    <3>3. JobsRun'
      BY <2>8 DEF AnalyticsStart, Take, UpdateStatus, SetStatus, RowTypes, LocalTypes, JobsRun
    <3>4. QED
      BY <3>1, <3>2, <3>3
  <2>9. ASSUME NEW a \in Attempts, AnalyticsGenerate(a) PROVE TypeOK'
    <3>1. RowTypes'
      BY <2>9 DEF AnalyticsGenerate, SetStatus, RowTypes, LocalTypes, JobsRun
    <3>2. LocalTypes'
      BY <2>9 DEF AnalyticsGenerate, SetStatus, RowTypes, LocalTypes, JobsRun
    <3>3. JobsRun'
      BY <2>9 DEF AnalyticsGenerate, SetStatus, RowTypes, LocalTypes, JobsRun
    <3>4. QED
      BY <3>1, <3>2, <3>3
  <2>10. ASSUME NEW a \in Attempts, AnalyticsEnqueue(a) PROVE TypeOK'
    <3>1. RowTypes'
      BY <2>10 DEF AnalyticsEnqueue, CompleteJob, RowTypes, LocalTypes, JobsRun
    <3>2. LocalTypes'
      BY <2>10 DEF AnalyticsEnqueue, CompleteJob, RowTypes, LocalTypes, JobsRun
    <3>3. JobsRun'
      BY <2>10 DEF AnalyticsEnqueue, CompleteJob, RowTypes, LocalTypes, JobsRun
    <3>4. QED
      BY <3>1, <3>2, <3>3
  <2>11. ASSUME NEW a \in Attempts, AnalyticsFails(a) PROVE TypeOK'
    <3>1. RowTypes'
      BY <2>11 DEF AnalyticsFails, FailJob, RowTypes, LocalTypes, JobsRun
    <3>2. LocalTypes'
      BY <2>11 DEF AnalyticsFails, FailJob, RowTypes, LocalTypes, JobsRun
    <3>3. JobsRun'
      BY <2>11 DEF AnalyticsFails, FailJob, RowTypes, LocalTypes, JobsRun
    <3>4. QED
      BY <3>1, <3>2, <3>3
  <2>12. ASSUME NEW a \in Attempts, RankingStart(a) PROVE TypeOK'
    <3>1. RowTypes'
      BY <2>12 DEF RankingStart, Take, RowTypes, LocalTypes, JobsRun
    <3>2. LocalTypes'
      BY <2>12 DEF RankingStart, Take, RowTypes, LocalTypes, JobsRun
    <3>3. JobsRun'
      BY <2>12 DEF RankingStart, Take, RowTypes, LocalTypes, JobsRun
    <3>4. QED
      BY <3>1, <3>2, <3>3
  <2>13. ASSUME NEW a \in Attempts, WorkflowRead(a) PROVE TypeOK'
    <3>1. RowTypes'
      BY <2>13 DEF WorkflowRead, RowTypes, LocalTypes, JobsRun
    <3>2. LocalTypes'
      BY <2>13 DEF WorkflowRead, RowTypes, LocalTypes, JobsRun
    <3>3. JobsRun'
      BY <2>13 DEF WorkflowRead, RowTypes, LocalTypes, JobsRun
    <3>4. QED
      BY <3>1, <3>2, <3>3
  <2>14. ASSUME NEW a \in Attempts, WorkflowUpdate(a) PROVE TypeOK'
    <3>1. RowTypes'
      BY <2>14 DEF WorkflowUpdate, SetStatus, RowTypes, LocalTypes, JobsRun
    <3>2. LocalTypes'
      BY <2>14 DEF WorkflowUpdate, SetStatus, RowTypes, LocalTypes, JobsRun
    <3>3. JobsRun'
      BY <2>14, WorkerGoes DEF WorkflowUpdate
    <3>4. QED
      BY <3>1, <3>2, <3>3
  <2>15. ASSUME NEW a \in Attempts, RankingFails(a) PROVE TypeOK'
    <3>1. RowTypes'
      BY <2>15 DEF RankingFails, FailJob, RowTypes, LocalTypes, JobsRun
    <3>2. LocalTypes'
      BY <2>15 DEF RankingFails, FailJob, RowTypes, LocalTypes, JobsRun
    <3>3. JobsRun'
      BY <2>15 DEF RankingFails, FailJob, RowTypes, LocalTypes, JobsRun
    <3>4. QED
      BY <3>1, <3>2, <3>3
  <2>16. ASSUME NEW a \in Attempts, OpenAnalyses(a) PROVE TypeOK'
    <3>1. RowTypes'
      BY <2>16 DEF OpenAnalyses, RowTypes, LocalTypes, JobsRun
    <3>2. LocalTypes'
      BY <2>16 DEF OpenAnalyses, RowTypes, LocalTypes, JobsRun
    <3>3. JobsRun'
      BY <2>16 DEF OpenAnalyses, RowTypes, LocalTypes, JobsRun
    <3>4. QED
      BY <3>1, <3>2, <3>3
  <2>17. ASSUME NEW a \in Attempts, ReviewPending(a) PROVE TypeOK'
    <3>1. RowTypes'
      BY <2>17 DEF ReviewPending, RowTypes, LocalTypes, JobsRun
    <3>2. LocalTypes'
      BY <2>17 DEF ReviewPending, RowTypes, LocalTypes, JobsRun
    <3>3. JobsRun'
      BY <2>17 DEF ReviewPending, RowTypes, LocalTypes, JobsRun
    <3>4. QED
      BY <3>1, <3>2, <3>3
  <2>18. ASSUME NEW a \in Attempts, HealMock(a) PROVE TypeOK'
    <3>1. RowTypes'
      BY <2>18 DEF HealMock, SetStatus, RowTypes, LocalTypes, JobsRun
    <3>2. LocalTypes'
      BY <2>18 DEF HealMock, SetStatus, RowTypes, LocalTypes, JobsRun
    <3>3. JobsRun'
      BY <2>18 DEF HealMock, SetStatus, RowTypes, LocalTypes, JobsRun
    <3>4. QED
      BY <3>1, <3>2, <3>3
  <2>19. ASSUME NEW w \in Workers, RankRead(w) PROVE TypeOK'
    <3>1. RowTypes'
      BY <2>19 DEF RankRead, RowTypes, LocalTypes, JobsRun
    <3>2. LocalTypes'
      BY <2>19 DEF RankRead, RowTypes, LocalTypes, JobsRun
    <3>3. JobsRun'
      BY <2>19 DEF RankRead, RowTypes, LocalTypes, JobsRun
    <3>4. QED
      BY <3>1, <3>2, <3>3
  <2>20. ASSUME NEW w \in Workers, RankWrite(w) PROVE TypeOK'
    <3>1. RowTypes'
      BY <2>20 DEF RankWrite, RanksDone, RowTypes, LocalTypes, JobsRun
    <3>2. LocalTypes'
      <4>1. CASE w \in Admins
        BY <4>1, <2>20, LocalsCleared DEF RankWrite, RanksDone
      <4>2. CASE w \notin Admins
        BY <4>2, <2>20 DEF RankWrite, RanksDone, LocalTypes
      <4>3. QED
        BY <4>1, <4>2
    <3>3. JobsRun'
      <4>1. CASE w \in Admins
        BY <4>1, <2>20, RequestEnds DEF RankWrite, RanksDone
      <4>2. CASE w \notin Admins
        BY <4>2, <2>20, WorkerGoes DEF RankWrite, RanksDone
      <4>3. QED
        BY <4>1, <4>2
    <3>4. QED
      BY <3>1, <3>2, <3>3
  <2>21. ASSUME NEW w \in Workers, RankFails(w) PROVE TypeOK'
    <3>1. RowTypes'
      BY <2>21 DEF RankFails, RanksDone, RowTypes, LocalTypes, JobsRun
    <3>2. LocalTypes'
      <4>1. CASE w \in Admins
        BY <4>1, <2>21, LocalsCleared DEF RankFails, RanksDone
      <4>2. CASE w \notin Admins
        BY <4>2, <2>21 DEF RankFails, RanksDone, LocalTypes
      <4>3. QED
        BY <4>1, <4>2
    <3>3. JobsRun'
      <4>1. CASE w \in Admins
        BY <4>1, <2>21, RequestEnds DEF RankFails, RanksDone
      <4>2. CASE w \notin Admins
        BY <4>2, <2>21, WorkerGoes DEF RankFails, RanksDone
      <4>3. QED
        BY <4>1, <4>2
    <3>4. QED
      BY <3>1, <3>2, <3>3
  <2>22. ASSUME NEW w \in Workers, CheckRead(w) PROVE TypeOK'
    <3>1. RowTypes'
      BY <2>22 DEF CheckRead, RowTypes, LocalTypes, JobsRun
    <3>2. LocalTypes'
      BY <2>22 DEF CheckRead, Ready, RowTypes, LocalTypes, JobsRun
    <3>3. JobsRun'
      <4>1. CASE pc[w] = "check"
        BY <4>1, <2>22, WorkerGoes DEF CheckRead
      <4>2. CASE pc[w] = "publishCheck"
        BY <4>2, <2>22, WorkerGoes DEF CheckRead
      <4>3. QED
        BY <4>1, <4>2, <2>22 DEF CheckRead
    <3>4. QED
      BY <3>1, <3>2, <3>3
  <2>23. ASSUME NEW w \in Workers, CheckWrite(w) PROVE TypeOK'
    <3>1. RowTypes'
      BY <2>23 DEF CheckWrite, UpdatePublication, CompleteJob, RowTypes, LocalTypes, JobsRun
    <3>2. LocalTypes'
      BY <2>23 DEF CheckWrite, UpdatePublication, CompleteJob, RowTypes, LocalTypes, JobsRun
    <3>3. JobsRun'
      <4>1. CASE w \in Admins
        BY <4>1, <2>23, RequestEnds DEF CheckWrite
      <4>2. CASE w \notin Admins
        <5>1. w \in Jobs /\ CompleteJob(w, {}) /\ Finish(w)
          BY <4>2, <2>23 DEF CheckWrite, Workers
        <5> QED
          BY <5>1 DEF CompleteJob, JobsRun
      <4> QED
        BY <4>1, <4>2
    <3>4. QED
      BY <3>1, <3>2, <3>3
  <2>24. ASSUME NEW w \in Admins, AdminRanks(w) PROVE TypeOK'
    <3>1. RowTypes'
      BY <2>24 DEF AdminRanks, Accept, RowTypes, LocalTypes, JobsRun
    <3>2. LocalTypes'
      BY <2>24 DEF AdminRanks, Accept, RowTypes, LocalTypes, JobsRun
    <3>3. JobsRun'
      BY <2>24 DEF AdminRanks, Accept, RowTypes, LocalTypes, JobsRun
    <3>4. QED
      BY <3>1, <3>2, <3>3
  <2>25. ASSUME NEW w \in Admins, Dashboard(w) PROVE TypeOK'
    <3>1. RowTypes'
      BY <2>25 DEF Dashboard, Accept, RowTypes, LocalTypes, JobsRun
    <3>2. LocalTypes'
      BY <2>25 DEF Dashboard, Accept, RowTypes, LocalTypes, JobsRun
    <3>3. JobsRun'
      BY <2>25 DEF Dashboard, Accept, RowTypes, LocalTypes, JobsRun
    <3>4. QED
      BY <3>1, <3>2, <3>3
  <2>26. ASSUME NEW w \in Admins, PublishRequest(w) PROVE TypeOK'
    <3>1. RowTypes'
      BY <2>26 DEF PublishRequest, Accept, RowTypes, LocalTypes, JobsRun
    <3>2. LocalTypes'
      BY <2>26 DEF PublishRequest, Accept, RowTypes, LocalTypes, JobsRun
    <3>3. JobsRun'
      BY <2>26 DEF PublishRequest, Accept, RowTypes, LocalTypes, JobsRun
    <3>4. QED
      BY <3>1, <3>2, <3>3
  <2>27. ASSUME NEW w \in Admins, UploadRequest(w) PROVE TypeOK'
    <3>1. RowTypes'
      BY <2>27 DEF UploadRequest, Accept, RowTypes, LocalTypes, JobsRun
    <3>2. LocalTypes'
      BY <2>27 DEF UploadRequest, Accept, RowTypes, LocalTypes, JobsRun
    <3>3. JobsRun'
      BY <2>27 DEF UploadRequest, Accept, RowTypes, LocalTypes, JobsRun
    <3>4. QED
      BY <3>1, <3>2, <3>3
  <2>28. ASSUME NEW w \in Admins, RetryFailed(w) PROVE TypeOK'
    <3>1. RowTypes'
      BY <2>28 DEF RetryFailed, Accept, RetryAccepted, RowTypes, LocalTypes, JobsRun
    <3>2. LocalTypes'
      BY <2>28 DEF RetryFailed, Accept, RetryAccepted, RowTypes, LocalTypes, JobsRun
    <3>3. JobsRun'
      BY <2>28 DEF RetryFailed, Accept, RetryAccepted, RowTypes, LocalTypes, JobsRun
    <3>4. QED
      BY <3>1, <3>2, <3>3
  <2>29. ASSUME NEW w \in Admins, RetryOne(w) PROVE TypeOK'
    <3>1. RowTypes'
      BY <2>29 DEF RetryOne, Accept, RetryAccepted, Forces, RowTypes, LocalTypes, JobsRun
    <3>2. LocalTypes'
      BY <2>29 DEF RetryOne, Accept, RetryAccepted, Forces, RowTypes, LocalTypes, JobsRun
    <3>3. JobsRun'
      BY <2>29 DEF RetryOne, Accept, RetryAccepted, Forces, RowTypes, LocalTypes, JobsRun
    <3>4. QED
      BY <3>1, <3>2, <3>3
  <2>30. ASSUME NEW w \in Admins, NEW a \in Attempts, CalculateRequest(w, a)
      PROVE  TypeOK'
    <3>1. RowTypes'
      BY <2>30 DEF CalculateRequest, Accept, CalculateRead, Forces, RowTypes, LocalTypes, JobsRun
    <3>2. LocalTypes'
      BY <2>30 DEF CalculateRequest, Accept, CalculateRead, Forces, RowTypes, LocalTypes, JobsRun
    <3>3. JobsRun'
      BY <2>30 DEF CalculateRequest, Accept, CalculateRead, Forces, RowTypes, LocalTypes, JobsRun
    <3>4. QED
      BY <3>1, <3>2, <3>3
  <2>31. ASSUME NEW w \in Admins, PublishLock(w) PROVE TypeOK'
    <3>1. RowTypes'
      BY <2>31 DEF PublishLock, RowTypes, LocalTypes, JobsRun
    <3>2. LocalTypes'
      BY <2>31 DEF PublishLock, RowTypes, LocalTypes, JobsRun
    <3>3. JobsRun'
      BY <2>31 DEF PublishLock, RowTypes, LocalTypes, JobsRun
    <3>4. QED
      BY <3>1, <3>2, <3>3
  <2>32. ASSUME NEW w \in Admins, PublishCheckWrite(w) PROVE TypeOK'
    <3>1. RowTypes'
      BY <2>32 DEF PublishCheckWrite, UpdatePublication, RowTypes, LocalTypes, JobsRun
    <3>2. LocalTypes'
      BY <2>32 DEF PublishCheckWrite, UpdatePublication, RowTypes, LocalTypes, JobsRun
    <3>3. JobsRun'
      BY <2>32 DEF PublishCheckWrite, UpdatePublication, RowTypes, LocalTypes, JobsRun
    <3>4. QED
      BY <3>1, <3>2, <3>3
  <2>33. ASSUME NEW w \in Admins, PublishTx(w) PROVE TypeOK'
    <3>1. RowTypes'
      BY <2>33 DEF PublishTx, RowTypes, LocalTypes, JobsRun
    <3>2. LocalTypes'
      BY <2>33 DEF PublishTx, RowTypes, LocalTypes, JobsRun
    <3>3. JobsRun'
      BY <2>33 DEF PublishTx, RowTypes, LocalTypes, JobsRun
    <3>4. QED
      BY <3>1, <3>2, <3>3
  <2>34. ASSUME NEW w \in Admins, PublishUnlock(w) PROVE TypeOK'
    <3>1. RowTypes'
      BY <2>34 DEF PublishUnlock, RowTypes, LocalTypes, JobsRun
    <3>2. LocalTypes'
      BY <2>34 DEF PublishUnlock, RowTypes, LocalTypes, JobsRun
    <3>3. JobsRun'
      BY <2>34 DEF PublishUnlock, RowTypes, LocalTypes, JobsRun
    <3>4. QED
      BY <3>1, <3>2, <3>3
  <2>35. ASSUME NEW w \in Admins, UploadTx(w) PROVE TypeOK'
    <3>1. RowTypes'
      BY <2>35 DEF UploadTx, RowTypes, LocalTypes, JobsRun
    <3>2. LocalTypes'
      BY <2>35 DEF UploadTx, RowTypes, LocalTypes, JobsRun
    <3>3. JobsRun'
      BY <2>35 DEF UploadTx, RowTypes, LocalTypes, JobsRun
    <3>4. QED
      BY <3>1, <3>2, <3>3
  <2>36. ASSUME NEW w \in Admins, UploadRead(w) PROVE TypeOK'
    <3>1. RowTypes'
      BY <2>36 DEF UploadRead, Eligible, RowTypes, LocalTypes, JobsRun
    <3>2. LocalTypes'
      BY <2>36 DEF UploadRead, Eligible, RowTypes, LocalTypes, JobsRun
    <3>3. JobsRun'
      BY <2>36 DEF UploadRead, Eligible, RowTypes, LocalTypes, JobsRun
    <3>4. QED
      BY <3>1, <3>2, <3>3
  <2>37. ASSUME NEW w \in Admins, UploadMark(w) PROVE TypeOK'
    <3>1. RowTypes'
      BY <2>37 DEF UploadMark, MarkNext, SetStatus, RowTypes, LocalTypes, JobsRun
    <3>2. LocalTypes'
      BY <2>37 DEF UploadMark, MarkNext, SetStatus, RowTypes, LocalTypes, JobsRun
    <3>3. JobsRun'
      BY <2>37 DEF UploadMark, MarkNext, SetStatus, RowTypes, LocalTypes, JobsRun
    <3>4. QED
      BY <3>1, <3>2, <3>3
  <2>38. ASSUME NEW w \in Admins, UploadEnqueue(w) PROVE TypeOK'
    <3>1. RowTypes'
      BY <2>38 DEF UploadEnqueue, Enqueue, RowTypes, LocalTypes, JobsRun
    <3>2. LocalTypes'
      BY <2>38 DEF UploadEnqueue, Enqueue, RowTypes, LocalTypes, JobsRun
    <3>3. JobsRun'
      BY <2>38 DEF UploadEnqueue, Enqueue, RowTypes, LocalTypes, JobsRun
    <3>4. QED
      BY <3>1, <3>2, <3>3
  <2>39. ASSUME NEW w \in Admins, UploadEnqueueFails(w) PROVE TypeOK'
    <3>1. RowTypes'
      BY <2>39 DEF UploadEnqueueFails, RowTypes, LocalTypes, JobsRun
    <3>2. LocalTypes'
      BY <2>39 DEF UploadEnqueueFails, RowTypes, LocalTypes, JobsRun
    <3>3. JobsRun'
      BY <2>39 DEF UploadEnqueueFails, RowTypes, LocalTypes, JobsRun
    <3>4. QED
      BY <3>1, <3>2, <3>3
  <2>40. ASSUME NEW w \in Admins, RetryMark(w) PROVE TypeOK'
    <3>1. RowTypes'
      BY <2>40 DEF RetryMark, MarkNext, SetStatus, RowTypes, LocalTypes, JobsRun
    <3>2. LocalTypes'
      BY <2>40 DEF RetryMark, MarkNext, SetStatus, RowTypes, LocalTypes, JobsRun
    <3>3. JobsRun'
      BY <2>40 DEF RetryMark, MarkNext, SetStatus, RowTypes, LocalTypes, JobsRun
    <3>4. QED
      BY <3>1, <3>2, <3>3
  <2>41. ASSUME NEW w \in Admins, RetryAdd(w) PROVE TypeOK'
    <3>1. RowTypes'
      BY <2>41 DEF RetryAdd, RowTypes, LocalTypes, JobsRun
    <3>2. LocalTypes'
      BY <2>41 DEF RetryAdd, RowTypes, LocalTypes, JobsRun
    <3>3. JobsRun'
      <4> DEFINE j == <<"evaluation", current[w]>>
      <4>1. j \in Jobs /\ w \notin Jobs /\ w \in Workers /\ pc[w] = "retryAdd"
        BY <2>41 DEF RetryAdd, JobsRun
      <4>2. /\ job' = [job EXCEPT ![j] = IF job[j] = "active" THEN @ ELSE "waiting"]
            /\ tries' = [tries EXCEPT ![j] = IF job[j] = "active" THEN @ ELSE 0]
            /\ pc' = [pc EXCEPT ![w] = "retryMark"] /\ UNCHANGED current
        BY <2>41 DEF RetryAdd
      <4> HIDE DEF j
      <4>3. QED
        BY <4>1, <4>2 DEF JobsRun
    <3>4. QED
      BY <3>1, <3>2, <3>3
  <2>42. ASSUME NEW w \in Admins, LoopDone(w) PROVE TypeOK'
    <3>1. RowTypes'
      BY <2>42 DEF LoopDone, RowTypes, LocalTypes, JobsRun
    <3>2. LocalTypes'
      BY <2>42 DEF LoopDone, RowTypes, LocalTypes, JobsRun
    <3>3. JobsRun'
      BY <2>42 DEF LoopDone, RowTypes, LocalTypes, JobsRun
    <3>4. QED
      BY <3>1, <3>2, <3>3
  <2>43. ASSUME NEW w \in Admins, CalculateDone(w) PROVE TypeOK'
    <3>1. RowTypes'
      <4>1. score' \in [Attempts -> Scores]
        BY <2>43 DEF CalculateDone, CalculateWrite, RowTypes, LocalTypes
      <4>2. result' \in [Attempts -> ResultStatuses]
        BY <2>43 DEF CalculateDone, CalculateWrite, SetStatus, RowTypes
      <4>3. QED
        BY <4>1, <4>2, <2>43 DEF CalculateDone, RowTypes
    <3>2. LocalTypes'
      BY <2>43 DEF CalculateDone, CalculateWrite, SetStatus, RowTypes, LocalTypes, JobsRun
    <3>3. JobsRun'
      BY <2>43 DEF CalculateDone, CalculateWrite, SetStatus, RowTypes, LocalTypes, JobsRun
    <3>4. QED
      BY <3>1, <3>2, <3>3
  <2>44. CASE LockExpires
    <3>1. RowTypes'
      BY <2>44 DEF LockExpires, RowTypes, LocalTypes, JobsRun
    <3>2. LocalTypes'
      BY <2>44 DEF LockExpires, RowTypes, LocalTypes, JobsRun
    <3>3. JobsRun'
      BY <2>44 DEF LockExpires, RowTypes, LocalTypes, JobsRun
    <3>4. QED
      BY <3>1, <3>2, <3>3
  <2>45. CASE WindowCloses
    <3>1. RowTypes'
      BY <2>45 DEF WindowCloses, RowTypes, LocalTypes, JobsRun
    <3>2. LocalTypes'
      BY <2>45 DEF WindowCloses, RowTypes, LocalTypes, JobsRun
    <3>3. JobsRun'
      BY <2>45 DEF WindowCloses, RowTypes, LocalTypes, JobsRun
    <3>4. QED
      BY <3>1, <3>2, <3>3
  <2>47. ASSUME NEW w \in Admins, NEW a \in Attempts, TerminateRequest(w, a)
      PROVE  TypeOK'
    <3>1. RowTypes'
      BY <2>47 DEF TerminateRequest, Accept, RowTypes, LocalTypes, JobsRun
    <3>2. LocalTypes'
      BY <2>47 DEF TerminateRequest, Accept, RowTypes, LocalTypes, JobsRun
    <3>3. JobsRun'
      BY <2>47 DEF TerminateRequest, Accept, RowTypes, LocalTypes, JobsRun
    <3>4. QED
      BY <3>1, <3>2, <3>3
  <2>48. ASSUME NEW w \in Admins, TerminateRead(w) PROVE TypeOK'
    <3>1. RowTypes'
      BY <2>48 DEF TerminateRead, RowTypes, LocalTypes, JobsRun
    <3>2. LocalTypes'
      BY <2>48 DEF TerminateRead, CalculateRead, RowTypes, LocalTypes, JobsRun
    <3>3. JobsRun'
      BY <2>48 DEF TerminateRead, RowTypes, LocalTypes, JobsRun
    <3>4. QED
      BY <3>1, <3>2, <3>3
  <2>46. CASE UNCHANGED vars
    BY <2>46 DEF vars, RowTypes, LocalTypes, JobsRun
  <2> QED
    BY <2>1, <2>2, <2>3, <2>4, <2>5, <2>6, <2>7, <2>8, <2>9, <2>10, <2>11,
       <2>12, <2>13, <2>14, <2>15, <2>16, <2>17, <2>18, <2>19, <2>20, <2>21,
       <2>22, <2>23, <2>24, <2>25, <2>26, <2>27, <2>28, <2>29, <2>30, <2>31,
       <2>32, <2>33, <2>34, <2>35, <2>36, <2>37, <2>38, <2>39, <2>40, <2>41,
       <2>42, <2>43, <2>44, <2>45, <2>46, <2>47, <2>48 DEF Next, EvaluationStep,
       AnalyticsStep, RankingStep, StepFails, Request, AdminStep
<1>3. QED
  BY <1>1, <1>2, PTL DEF Spec

-----------------------------------------------------------------------------
\* Attempts that an administrator has named: terminated, or before there was a key
\* calculated or retried by hand
Named == terminated \cup forced

\* Before an answer key is uploaded nothing asks for an evaluation of an attempt that
\* no administrator has named: there is no job, no failed result to retry and no
\* request in the loop that enqueues evaluations; and no worker calculates it with the
\* key it read before.
KeyInv ==
    /\ \A a \in Attempts : keyRead[<<"evaluation", a>>] = 1 => a \in Named
    /\ \A w \in Admins : keyRead[w] = 1 => current[w] \in Named
    /\ \A w \in Admins : keyRead[w] # 0 => pc[w] = "calcWrite"
    /\ \A a \in Attempts : score[a] = 1 => a \in Named
    /\ key = 0 => /\ \A a \in Attempts \ Named :
                         /\ \A q \in Queues : job[<<q, a>>] = "none"
                         /\ result[a] # "FAILED"
                  /\ \A w \in Admins :
                         /\ pc[w] \notin {"uploadRead", "uploadMark", "uploadEnqueue"}
                         /\ pc[w] \in {"retryMark", "retryAdd"} => todo[w] \subseteq Named
                         /\ pc[w] \in {"retryAdd", "termRead"} => current[w] \in Named

\* What a worker that does not calculate has to keep
LEMMA KeyKept ==
  ASSUME KeyInv, UNCHANGED <<key, score, history>>,
         \A w \in Admins :
            \/ /\ pc'[w] = pc[w] /\ todo'[w] = todo[w]
               /\ current'[w] = current[w] /\ keyRead'[w] = keyRead[w]
            \/ pc'[w] = "idle" /\ keyRead'[w] = 0,
         \A a \in Attempts : keyRead'[<<"evaluation", a>>] = 1 => a \in Named,
         \A a \in Attempts : key = 0 /\ a \notin Named =>
            /\ \A q \in Queues : job'[<<q, a>>] = job[<<q, a>>]
            /\ result'[a] # "FAILED"
  PROVE  KeyInv'
BY DEF KeyInv, history, Named

\* The end of a handler, and of a job, touches no other worker and no job of another
\* attempt.
LEMMA OnlyItsOwn ==
  ASSUME TypeOK, NEW q \in Queues, NEW a \in Attempts
  PROVE  /\ Finish(<<q, a>>) =>
              /\ \A w \in Admins :
                    /\ pc'[w] = pc[w] /\ todo'[w] = todo[w]
                    /\ current'[w] = current[w] /\ keyRead'[w] = keyRead[w]
              /\ \A b \in Attempts :
                    keyRead'[<<"evaluation", b>>] \in {0, keyRead[<<"evaluation", b>>]}
         /\ \A p \in Queues : CompleteJob(<<q, a>>, {<<p, a>>}) \/ FailJob(<<q, a>>) =>
              \A b \in Attempts, r \in Queues : b # a => job'[<<r, b>>] = job[<<r, b>>]
<1>1. /\ <<q, a>> \in Jobs /\ <<q, a>> \notin Admins /\ Admins \subseteq Workers
      /\ \A b \in Attempts : <<"evaluation", b>> \in Workers
      /\ \A b \in Attempts, r \in Queues : <<r, b>> \in Jobs
  BY Constants DEF Queues
<1>2. Finish(<<q, a>>) =>
              /\ \A w \in Admins :
                    /\ pc'[w] = pc[w] /\ todo'[w] = todo[w]
                    /\ current'[w] = current[w] /\ keyRead'[w] = keyRead[w]
              /\ \A b \in Attempts :
                    keyRead'[<<"evaluation", b>>] \in {0, keyRead[<<"evaluation", b>>]}
  BY <1>1 DEF Finish, TypeOK, JobsRun, LocalTypes
<1>3. \A p \in Queues : CompleteJob(<<q, a>>, {<<p, a>>}) =>
              \A b \in Attempts, r \in Queues : b # a => job'[<<r, b>>] = job[<<r, b>>]
  BY <1>1 DEF CompleteJob
<1>4. FailJob(<<q, a>>) =>
              \A b \in Attempts, r \in Queues : b # a => job'[<<r, b>>] = job[<<r, b>>]
  BY <1>1 DEF FailJob, TypeOK, JobsRun
<1> QED
  BY <1>2, <1>3, <1>4

\* Before the key only a named attempt has a job that runs.
LEMMA OnlyNamedRun ==
  ASSUME TypeOK, KeyInv, NEW q \in Queues, NEW a \in Attempts,
         pc[<<q, a>>] # "idle" \/ job[<<q, a>>] = "waiting", key = 0
  PROVE  a \in Named
<1>1. <<q, a>> \in Jobs
  BY DEF Jobs
<1> QED
  BY <1>1 DEF TypeOK, JobsRun, KeyInv

\* A live exam's results are calculated after the upload of the answer key, except of
\* the attempts that an administrator has terminated, or before the key has had
\* calculated or retried one by one: whatever else is asked for and whatever fails,
\* those requests are the only ways around "Authoritative final calculation begins
\* ONLY after Answer Key is uploaded and validated".
THEOREM KeyBeforeEvaluation ==
  ASSUME Live
  PROVE  Spec => []EvaluatedAfterKey
<1> USE Constants
<1>1. Init => KeyInv
  BY DEF Init, KeyInv, NoScores, Named, Jobs, Workers
<1>2. TypeOK /\ KeyInv /\ [Next]_vars => KeyInv'
  <2> SUFFICES ASSUME TypeOK, KeyInv, [Next]_vars PROVE KeyInv'
    OBVIOUS
  <2> USE DEF TypeOK, RowTypes, LocalTypes, JobsRun, KeyInv, EvaluationSteps,
              AnalyticsSteps, WorkflowSteps, RankSteps, Goto, Finish, rows,
              queues, locals, history, Named
  <2>1. ASSUME NEW a \in Attempts, SubmitStatus(a) PROVE KeyInv'
    BY <2>1 DEF SubmitStatus
  <2>2. ASSUME NEW a \in Attempts, SubmitTail(a) PROVE KeyInv'
    BY <2>2 DEF SubmitTail, Enqueue, SetStatus
  <2>3. ASSUME NEW a \in Attempts, EvaluationRead(a) PROVE KeyInv'
    <3>1. key = 0 => a \in Named
      BY <2>3, OnlyNamedRun DEF EvaluationRead, Take, Queues
    <3>2. keyRead' = [keyRead EXCEPT ![<<"evaluation", a>>] = IF score[a] > 0 THEN 0 ELSE key + 1]
      BY <2>3 DEF EvaluationRead, CalculateRead
    <3>3. \A b \in Attempts : keyRead'[<<"evaluation", b>>] = 1 => b \in Named
      BY <3>1, <3>2
    <3>4. \A b \in Attempts, q \in Queues : b # a => job'[<<q, b>>] = job[<<q, b>>]
      BY <2>3 DEF EvaluationRead, Take, Queues
    <3>5. \A w \in Admins : /\ pc'[w] = pc[w] /\ todo'[w] = todo[w]
                            /\ current'[w] = current[w] /\ keyRead'[w] = keyRead[w]
      BY <2>3, <3>2 DEF EvaluationRead
    <3>6. UNCHANGED <<key, score, result, history>>
      BY <2>3 DEF EvaluationRead
    <3> QED
      BY <3>1, <3>3, <3>4, <3>5, <3>6, KeyKept
  <2>4. ASSUME NEW a \in Attempts, EvaluationWrite(a) PROVE KeyInv'
    BY <2>4 DEF EvaluationWrite, CalculateWrite, SetStatus
  <2>5. ASSUME NEW a \in Attempts, EvaluationMark(a) PROVE KeyInv'
    BY <2>5 DEF EvaluationMark, SetStatus
  <2>6. ASSUME NEW a \in Attempts, EvaluationEnqueue(a) PROVE KeyInv'
    <3>1. key = 0 => a \in Named
      BY <2>6, OnlyNamedRun DEF EvaluationEnqueue, Queues
    <3>2. Finish(<<"evaluation", a>>) /\ CompleteJob(<<"evaluation", a>>, {<<"analytics", a>>})
      BY <2>6 DEF EvaluationEnqueue
    <3>3. UNCHANGED <<key, score, history>> /\ \A b \in Attempts : b # a => result'[b] = result[b]
      BY <2>6 DEF EvaluationEnqueue, UpdateStatus, SetStatus
    <3> HIDE DEF TypeOK, RowTypes, LocalTypes, JobsRun, KeyInv, Finish, history, Named
    <3>4. /\ \A w \in Admins : /\ pc'[w] = pc[w] /\ todo'[w] = todo[w]
                               /\ current'[w] = current[w] /\ keyRead'[w] = keyRead[w]
          /\ \A b \in Attempts :
                keyRead'[<<"evaluation", b>>] \in {0, keyRead[<<"evaluation", b>>]}
          /\ \A b \in Attempts, r \in Queues : b # a => job'[<<r, b>>] = job[<<r, b>>]
      BY <3>2, OnlyItsOwn DEF Queues
    <3>5. \A b \in Attempts : keyRead'[<<"evaluation", b>>] = 1 => b \in Named
      BY <3>4 DEF KeyInv
    <3>6. \A b \in Attempts : key = 0 /\ b \notin Named => result[b] # "FAILED"
      BY DEF KeyInv
    <3> QED
      BY <3>1, <3>3, <3>4, <3>5, <3>6, KeyKept
  <2>7. ASSUME NEW a \in Attempts, EvaluationFails(a) PROVE KeyInv'
    <3>1. key = 0 => a \in Named
      BY <2>7, OnlyNamedRun DEF EvaluationFails, Queues
    <3>2. Finish(<<"evaluation", a>>) /\ FailJob(<<"evaluation", a>>)
      BY <2>7 DEF EvaluationFails
    <3>3. UNCHANGED <<key, score, history>> /\ \A b \in Attempts : b # a => result'[b] = result[b]
      BY <2>7 DEF EvaluationFails, UpdateStatus, SetStatus
    <3> HIDE DEF TypeOK, RowTypes, LocalTypes, JobsRun, KeyInv, Finish, history, Named
    <3>4. /\ \A w \in Admins : /\ pc'[w] = pc[w] /\ todo'[w] = todo[w]
                               /\ current'[w] = current[w] /\ keyRead'[w] = keyRead[w]
          /\ \A b \in Attempts :
                keyRead'[<<"evaluation", b>>] \in {0, keyRead[<<"evaluation", b>>]}
          /\ \A b \in Attempts, r \in Queues : b # a => job'[<<r, b>>] = job[<<r, b>>]
      BY <3>2, OnlyItsOwn DEF Queues
    <3>5. \A b \in Attempts : keyRead'[<<"evaluation", b>>] = 1 => b \in Named
      BY <3>4 DEF KeyInv
    <3>6. \A b \in Attempts : key = 0 /\ b \notin Named => result[b] # "FAILED"
      BY DEF KeyInv
    <3> QED
      BY <3>1, <3>3, <3>4, <3>5, <3>6, KeyKept
  <2>8. ASSUME NEW a \in Attempts, AnalyticsStart(a) PROVE KeyInv'
    BY <2>8 DEF AnalyticsStart, Take, UpdateStatus, SetStatus
  <2>9. ASSUME NEW a \in Attempts, AnalyticsGenerate(a) PROVE KeyInv'
    BY <2>9 DEF AnalyticsGenerate, SetStatus
  <2>10. ASSUME NEW a \in Attempts, AnalyticsEnqueue(a) PROVE KeyInv'
    <3>1. key = 0 => a \in Named
      BY <2>10, OnlyNamedRun DEF AnalyticsEnqueue, Queues
    <3>2. Finish(<<"analytics", a>>) /\ CompleteJob(<<"analytics", a>>, {<<"ranking", a>>})
      BY <2>10 DEF AnalyticsEnqueue
    <3>3. UNCHANGED <<key, score, history>> /\ \A b \in Attempts : b # a => result'[b] = result[b]
      BY <2>10 DEF AnalyticsEnqueue, UpdateStatus, SetStatus
    <3> HIDE DEF TypeOK, RowTypes, LocalTypes, JobsRun, KeyInv, Finish, history, Named
    <3>4. /\ \A w \in Admins : /\ pc'[w] = pc[w] /\ todo'[w] = todo[w]
                               /\ current'[w] = current[w] /\ keyRead'[w] = keyRead[w]
          /\ \A b \in Attempts :
                keyRead'[<<"evaluation", b>>] \in {0, keyRead[<<"evaluation", b>>]}
          /\ \A b \in Attempts, r \in Queues : b # a => job'[<<r, b>>] = job[<<r, b>>]
      BY <3>2, OnlyItsOwn DEF Queues
    <3>5. \A b \in Attempts : keyRead'[<<"evaluation", b>>] = 1 => b \in Named
      BY <3>4 DEF KeyInv
    <3>6. \A b \in Attempts : key = 0 /\ b \notin Named => result[b] # "FAILED"
      BY DEF KeyInv
    <3> QED
      BY <3>1, <3>3, <3>4, <3>5, <3>6, KeyKept
  <2>11. ASSUME NEW a \in Attempts, AnalyticsFails(a) PROVE KeyInv'
    <3>1. key = 0 => a \in Named
      BY <2>11, OnlyNamedRun DEF AnalyticsFails, Queues
    <3>2. Finish(<<"analytics", a>>) /\ FailJob(<<"analytics", a>>)
      BY <2>11 DEF AnalyticsFails
    <3>3. UNCHANGED <<key, score, history>> /\ \A b \in Attempts : b # a => result'[b] = result[b]
      BY <2>11 DEF AnalyticsFails, UpdateStatus, SetStatus
    <3> HIDE DEF TypeOK, RowTypes, LocalTypes, JobsRun, KeyInv, Finish, history, Named
    <3>4. /\ \A w \in Admins : /\ pc'[w] = pc[w] /\ todo'[w] = todo[w]
                               /\ current'[w] = current[w] /\ keyRead'[w] = keyRead[w]
          /\ \A b \in Attempts :
                keyRead'[<<"evaluation", b>>] \in {0, keyRead[<<"evaluation", b>>]}
          /\ \A b \in Attempts, r \in Queues : b # a => job'[<<r, b>>] = job[<<r, b>>]
      BY <3>2, OnlyItsOwn DEF Queues
    <3>5. \A b \in Attempts : keyRead'[<<"evaluation", b>>] = 1 => b \in Named
      BY <3>4 DEF KeyInv
    <3>6. \A b \in Attempts : key = 0 /\ b \notin Named => result[b] # "FAILED"
      BY DEF KeyInv
    <3> QED
      BY <3>1, <3>3, <3>4, <3>5, <3>6, KeyKept
  <2>12. ASSUME NEW a \in Attempts, RankingStart(a) PROVE KeyInv'
    BY <2>12 DEF RankingStart, Take
  <2>13. ASSUME NEW a \in Attempts, WorkflowRead(a) PROVE KeyInv'
    BY <2>13 DEF WorkflowRead
  <2>14. ASSUME NEW a \in Attempts, WorkflowUpdate(a) PROVE KeyInv'
    BY <2>14 DEF WorkflowUpdate, SetStatus
  <2>15. ASSUME NEW a \in Attempts, RankingFails(a) PROVE KeyInv'
    BY <2>15 DEF RankingFails, FailJob
  <2>16. ASSUME NEW a \in Attempts, OpenAnalyses(a) PROVE KeyInv'
    BY <2>16 DEF OpenAnalyses
  <2>17. ASSUME NEW a \in Attempts, ReviewPending(a) PROVE KeyInv'
    BY <2>17 DEF ReviewPending
  <2>18. ASSUME NEW a \in Attempts, HealMock(a) PROVE KeyInv'
    BY <2>18 DEF HealMock, SetStatus
  <2>19. ASSUME NEW w \in Workers, RankRead(w) PROVE KeyInv'
    BY <2>19 DEF RankRead
  <2>20. ASSUME NEW w \in Workers, RankWrite(w) PROVE KeyInv'
    <3>1. UNCHANGED <<key, score, result, job, history>> /\ RanksDone(w)
      BY <2>20 DEF RankWrite
    <3>2. /\ \A v \in Admins :
                \/ /\ pc'[v] = pc[v] /\ todo'[v] = todo[v]
                   /\ current'[v] = current[v] /\ keyRead'[v] = keyRead[v]
                \/ pc'[v] = "idle" /\ keyRead'[v] = 0
          /\ \A a \in Attempts : keyRead'[<<"evaluation", a>>] = 1 => a \in Named
      BY <3>1 DEF RanksDone
    <3> QED
      BY <3>1, <3>2, KeyKept
  <2>21. ASSUME NEW w \in Workers, RankFails(w) PROVE KeyInv'
    <3>1. UNCHANGED <<key, score, result, job, history>> /\ RanksDone(w)
      BY <2>21 DEF RankFails
    <3>2. /\ \A v \in Admins :
                \/ /\ pc'[v] = pc[v] /\ todo'[v] = todo[v]
                   /\ current'[v] = current[v] /\ keyRead'[v] = keyRead[v]
                \/ pc'[v] = "idle" /\ keyRead'[v] = 0
          /\ \A a \in Attempts : keyRead'[<<"evaluation", a>>] = 1 => a \in Named
      BY <3>1 DEF RanksDone
    <3> QED
      BY <3>1, <3>2, KeyKept
  <2>22. ASSUME NEW w \in Workers, CheckRead(w) PROVE KeyInv'
    BY <2>22 DEF CheckRead
  <2>23. ASSUME NEW w \in Workers, CheckWrite(w) PROVE KeyInv'
    <3>1. /\ UNCHANGED <<key, score, result, history>> /\ Finish(w)
          /\ w \in Jobs => CompleteJob(w, {})
          /\ w \in Admins => UNCHANGED job
      BY <2>23 DEF CheckWrite
    <3>2. /\ \A v \in Admins :
                \/ /\ pc'[v] = pc[v] /\ todo'[v] = todo[v]
                   /\ current'[v] = current[v] /\ keyRead'[v] = keyRead[v]
                \/ pc'[v] = "idle" /\ keyRead'[v] = 0
          /\ \A a \in Attempts : keyRead'[<<"evaluation", a>>] = 1 => a \in Named
      BY <3>1
    <3>3. ASSUME NEW a \in Attempts, NEW q \in Queues, key = 0, a \notin Named
          PROVE  job'[<<q, a>>] = job[<<q, a>>]
      <4>1. job[<<q, a>>] = "none" /\ <<q, a>> \in Jobs
        BY <3>3 DEF Jobs
      <4> QED
        BY <3>1, <4>1 DEF CompleteJob, Workers
    <3> QED
      BY <3>1, <3>2, <3>3, KeyKept
  <2>24. ASSUME NEW w \in Admins, AdminRanks(w) PROVE KeyInv'
    BY <2>24 DEF AdminRanks, Accept
  <2>25. ASSUME NEW w \in Admins, Dashboard(w) PROVE KeyInv'
    BY <2>25 DEF Dashboard, Accept
  <2>26. ASSUME NEW w \in Admins, PublishRequest(w) PROVE KeyInv'
    BY <2>26 DEF PublishRequest, Accept
  <2>27. ASSUME NEW w \in Admins, UploadRequest(w) PROVE KeyInv'
    BY <2>27 DEF UploadRequest, Accept
  <2>28. ASSUME NEW w \in Admins, RetryFailed(w) PROVE KeyInv'
    BY <2>28 DEF RetryFailed, Accept, RetryAccepted
  <2>29. ASSUME NEW w \in Admins, RetryOne(w) PROVE KeyInv'
    BY <2>29 DEF RetryOne, Accept, RetryAccepted, Forces
  <2>30. ASSUME NEW w \in Admins, NEW a \in Attempts, CalculateRequest(w, a)
      PROVE  KeyInv'
    BY <2>30 DEF CalculateRequest, Accept, CalculateRead, Forces
  <2>31. ASSUME NEW w \in Admins, PublishLock(w) PROVE KeyInv'
    BY <2>31 DEF PublishLock
  <2>32. ASSUME NEW w \in Admins, PublishCheckWrite(w) PROVE KeyInv'
    BY <2>32 DEF PublishCheckWrite, UpdatePublication
  <2>33. ASSUME NEW w \in Admins, PublishTx(w) PROVE KeyInv'
    BY <2>33 DEF PublishTx
  <2>34. ASSUME NEW w \in Admins, PublishUnlock(w) PROVE KeyInv'
    BY <2>34 DEF PublishUnlock
  <2>35. ASSUME NEW w \in Admins, UploadTx(w) PROVE KeyInv'
    BY <2>35 DEF UploadTx
  <2>36. ASSUME NEW w \in Admins, UploadRead(w) PROVE KeyInv'
    BY <2>36 DEF UploadRead, Eligible
  <2>37. ASSUME NEW w \in Admins, UploadMark(w) PROVE KeyInv'
    BY <2>37 DEF UploadMark, MarkNext, SetStatus
  <2>38. ASSUME NEW w \in Admins, UploadEnqueue(w) PROVE KeyInv'
    BY <2>38 DEF UploadEnqueue, Enqueue
  <2>39. ASSUME NEW w \in Admins, UploadEnqueueFails(w) PROVE KeyInv'
    BY <2>39 DEF UploadEnqueueFails
  <2>40. ASSUME NEW w \in Admins, RetryMark(w) PROVE KeyInv'
    BY <2>40 DEF RetryMark, MarkNext, SetStatus
  <2>41. ASSUME NEW w \in Admins, RetryAdd(w) PROVE KeyInv'
    BY <2>41 DEF RetryAdd
  <2>42. ASSUME NEW w \in Admins, LoopDone(w) PROVE KeyInv'
    BY <2>42 DEF LoopDone
  <2>43. ASSUME NEW w \in Admins, CalculateDone(w) PROVE KeyInv'
    BY <2>43 DEF CalculateDone, CalculateWrite, SetStatus
  <2>44. CASE LockExpires
    BY <2>44 DEF LockExpires
  <2>45. CASE WindowCloses
    BY <2>45 DEF WindowCloses
  <2>47. ASSUME NEW w \in Admins, NEW a \in Attempts, TerminateRequest(w, a)
      PROVE  KeyInv'
    BY <2>47 DEF TerminateRequest, Accept
  <2>48. ASSUME NEW w \in Admins, TerminateRead(w) PROVE KeyInv'
    BY <2>48 DEF TerminateRead, CalculateRead
  <2>46. CASE UNCHANGED vars
    BY <2>46 DEF vars
  <2> QED
    BY <2>1, <2>2, <2>3, <2>4, <2>5, <2>6, <2>7, <2>8, <2>9, <2>10, <2>11,
       <2>12, <2>13, <2>14, <2>15, <2>16, <2>17, <2>18, <2>19, <2>20, <2>21,
       <2>22, <2>23, <2>24, <2>25, <2>26, <2>27, <2>28, <2>29, <2>30, <2>31,
       <2>32, <2>33, <2>34, <2>35, <2>36, <2>37, <2>38, <2>39, <2>40, <2>41,
       <2>42, <2>43, <2>44, <2>45, <2>46, <2>47, <2>48 DEF Next, EvaluationStep,
       AnalyticsStep, RankingStep, StepFails, Request, AdminStep
<1>3. KeyInv => EvaluatedAfterKey
  BY DEF KeyInv, EvaluatedAfterKey, Named
<1>4. QED
  BY <1>1, <1>2, <1>3, TypeCorrect, PTL DEF Spec

-----------------------------------------------------------------------------
(* The release of the results of a live exam *)

\* What is asked of the administrators: they wait for the queues, let the candidates'
\* time pass, and ask for nothing but the upload of the key and the publication.  No
\* job fails.  Every other request, and every failure, can release a result that has
\* not been evaluated.
Orderly ==
    /\ Live /\ ~Late /\ Quiet /\ MaxFailures = 0
    /\ Operations \subseteq {"upload", "publish", "dashboard", "view", "review"}

\* The jobs of an attempt
Ev(a) == <<"evaluation", a>>
An(a) == <<"analytics", a>>
Ra(a) == <<"ranking", a>>

Idle(a) == job[Ev(a)] = "none" /\ job[An(a)] = "none" /\ job[Ra(a)] = "none"
NoJobs == \A a \in Attempts : Idle(a)

\* Requests that have the queues to themselves, and the loop of an upload
LoneSteps == {"check", "checkWrite", "uploadTx", "uploadRead"} \cup PublishSteps
LoopSteps == {"uploadMark", "uploadEnqueue"}

\* The loop of the upload has still to enqueue the attempt.
Holds(w, a) ==
    \/ pc[w] \in LoopSteps /\ a \in todo[w]
    \/ pc[w] = "uploadEnqueue" /\ current[w] = a

\* Administrators act one after the other, and most requests with empty queues.
InTurn ==
    /\ \A w \in Admins : pc[w] \in {"idle"} \cup LoneSteps \cup LoopSteps
    /\ \A w, v \in Admins : pc[w] # "idle" /\ pc[v] # "idle" => w = v
    /\ \A w \in Admins : pc[w] \in LoneSteps => NoJobs
    /\ \A w \in Admins : pc[w] = "uploadEnqueue" => current[w] \notin todo[w]

\* An attempt is in one queue at a time, and in none while the upload holds it.
InOneQueue(a) ==
    /\ job[Ev(a)] # "failed" /\ job[An(a)] # "failed" /\ job[Ra(a)] # "failed"
    /\ pc[Ev(a)] \in {"idle"} \cup EvaluationSteps
    /\ pc[An(a)] \in {"idle"} \cup AnalyticsSteps
    /\ pc[Ra(a)] \in {"idle", "workflow", "markReady", "check", "checkWrite"} \cup RankSteps
    /\ job[Ev(a)] # "none" => job[An(a)] = "none" /\ job[Ra(a)] = "none"
    /\ job[An(a)] # "none" => job[Ra(a)] = "none"
InLine ==
    \A a \in Attempts : InOneQueue(a) /\ \A w \in Admins : Holds(w, a) => Idle(a)

\* Nothing happens before the key is uploaded, and the key is uploaded when nobody
\* submits any more.
Keyed ==
    /\ key = 0 => /\ NoJobs /\ snapshot = "NONE"
                  /\ \A a \in Attempts : score[a] = 0
                  /\ \A w \in Admins : pc[w] \notin {"uploadRead"} \cup LoopSteps
    /\ key # 0 \/ (\E w \in Admins : pc[w] = "uploadTx")
       => ended /\ \A a \in Attempts : submission[a] # "FINALISING"

\* An attempt that is not marked yet will be.
Awaited ==
    \A a \in Attempts : key # 0 /\ submission[a] = "SUBMITTED" =>
        \/ score[a] # 0
        \/ job[Ev(a)] # "none"
        \/ \E w \in Admins : pc[w] = "uploadRead" \/ Holds(w, a)

\* What the result and the jobs of an attempt say of its mark
Marked(a) ==
    /\ score[a] = 0 => result[a] \in Deferred \cup {"NONE"}
    /\ job[An(a)] # "none" => score[a] # 0
    /\ job[Ra(a)] # "none" => score[a] # 0
    /\ pc[Ev(a)] \in {"evalMark", "evalEnqueue"} => score[a] # 0
    /\ pc[Ev(a)] = "evalWrite" /\ keyRead[Ev(a)] = 0 => score[a] # 0
    /\ pc[Ev(a)] = "evalWrite" /\ keyRead[Ev(a)] # 0 => score[a] = 0 /\ keyRead[Ev(a)] # 1
AllMarked == \A a \in Attempts : Marked(a)

\* A check does not write over a publication, and a publication is checked.
Checked ==
    /\ \A w \in Workers :
          pc[w] \in {"checkWrite", "publishCheckWrite"} /\ pubRead[w] # "PUBLISHED"
              => publication # "PUBLISHED"
    /\ \A w \in Admins :
          /\ pc[w] = "publishTx" => readyRead[w]
          /\ pc[w] \in {"publishCheckWrite", "publishTx"} /\ readyRead[w] =>
                \A a \in Attempts :
                    submission[a] = "SUBMITTED" /\ result[a] # "NONE" /\ score[a] # 0

\* Once a result is released all are, each with a mark, and nothing happens any more.
Released ==
    publication = "PUBLISHED" \/ (\E a \in Attempts : result[a] = "PUBLISHED") =>
        /\ NoJobs
        /\ \A a \in Attempts : result[a] = "PUBLISHED" /\ score[a] # 0 /\ submission[a] = "SUBMITTED"
        /\ \A w \in Admins, a \in Attempts : ~Holds(w, a)

ReleaseInv == InTurn /\ InLine /\ Keyed /\ Awaited /\ AllMarked /\ Checked /\ Released

\* The three jobs of an attempt are its own, and none of them is an administrator.
LEMMA Places ==
    /\ \A a \in Attempts :
          /\ {Ev(a), An(a), Ra(a)} \subseteq Jobs \cap Workers
          /\ Ev(a) \notin Admins /\ An(a) \notin Admins /\ Ra(a) \notin Admins
    /\ \A a, b \in Attempts :
          /\ a # b => Ev(a) # Ev(b) /\ An(a) # An(b) /\ Ra(a) # Ra(b)
          /\ Ev(a) # An(b) /\ Ev(a) # Ra(b) /\ An(a) # Ra(b)
    /\ \A j \in Jobs : \E a \in Attempts : j = Ev(a) \/ j = An(a) \/ j = Ra(a)
    /\ \A w \in Workers : w \in Admins \/ w \in Jobs
    /\ \A w \in Admins : w \in Workers /\ w \notin Jobs
BY ResultAssumption DEF Jobs, Workers, Queues, Ev, An, Ra

\* A job is active exactly while its processor runs.
LEMMA Running ==
    ASSUME TypeOK
    PROVE  /\ \A j \in Jobs : job[j] \in JobStates /\ (job[j] = "active" <=> pc[j] # "idle")
           /\ \A w \in Workers : pc[w] \in Steps
BY DEF TypeOK, JobsRun

\* While an attempt is in a queue, the key is there, nothing is released, and the only
\* request is an upload that does not hold it.
LEMMA AtWork ==
    ASSUME ReleaseInv, NEW a \in Attempts, ~Idle(a)
    PROVE  /\ key # 0 /\ publication # "PUBLISHED"
           /\ ended /\ \A b \in Attempts : submission[b] # "FINALISING"
           /\ \A b \in Attempts : result[b] # "PUBLISHED"
           /\ \A w \in Admins : pc[w] \in {"idle"} \cup LoopSteps /\ pc[w] \notin LoneSteps
           /\ \A w \in Admins : ~Holds(w, a)
<1>1. ~NoJobs
  BY DEF NoJobs
<1>2. key # 0
  BY <1>1 DEF ReleaseInv, Keyed
<1>3. ended /\ \A b \in Attempts : submission[b] # "FINALISING"
  BY <1>2 DEF ReleaseInv, Keyed
<1>4. \A w \in Admins : pc[w] \in {"idle"} \cup LoopSteps /\ pc[w] \notin LoneSteps
  BY <1>1 DEF ReleaseInv, InTurn
<1>5. \A w \in Admins : ~Holds(w, a)
  BY DEF ReleaseInv, InLine
<1> QED
  BY <1>1, <1>2, <1>3, <1>4, <1>5 DEF ReleaseInv, Released

\* An attempt whose jobs, result and mark a step leaves alone
Stays(b) ==
    /\ job'[Ev(b)] = job[Ev(b)] /\ job'[An(b)] = job[An(b)] /\ job'[Ra(b)] = job[Ra(b)]
    /\ pc'[Ev(b)] = pc[Ev(b)] /\ pc'[An(b)] = pc[An(b)] /\ pc'[Ra(b)] = pc[Ra(b)]
    /\ keyRead'[Ev(b)] = keyRead[Ev(b)]
    /\ result'[b] = result[b] /\ score'[b] = score[b]

\* What the processor of a job has to keep
LEMMA JobKeeps ==
    ASSUME ReleaseInv, NEW a \in Attempts, ~Idle(a),
           UNCHANGED <<submission, ended, key>>, publication' # "PUBLISHED",
           \A w \in Admins : pc'[w] = pc[w] /\ todo'[w] = todo[w] /\ current'[w] = current[w],
           \A b \in Attempts : b # a => Stays(b),
           result'[a] # "PUBLISHED", InOneQueue(a)', Marked(a)',
           job'[Ev(a)] # "none" \/ score'[a] # 0
    PROVE  ReleaseInv'
<1>1. /\ key # 0 /\ publication # "PUBLISHED"
      /\ ended /\ \A b \in Attempts : submission[b] # "FINALISING"
      /\ \A b \in Attempts : result[b] # "PUBLISHED"
      /\ \A w \in Admins : pc[w] \in {"idle"} \cup LoopSteps /\ pc[w] \notin LoneSteps
      /\ \A w \in Admins : ~Holds(w, a)
  BY AtWork
<1>2. \A w \in Admins, b \in Attempts : Holds(w, b)' <=> Holds(w, b)
  BY DEF Holds
<1>3. InTurn'
  BY <1>1 DEF ReleaseInv, InTurn
<1>4. InLine'
  <2>1. ASSUME NEW b \in Attempts, b # a
        PROVE  InOneQueue(b)' /\ \A w \in Admins : Holds(w, b)' => Idle(b)'
    BY <1>2, <2>1 DEF ReleaseInv, InLine, InOneQueue, Idle, Stays
  <2> QED
    BY <1>1, <1>2, <2>1 DEF InLine
<1>5. Keyed'
  BY <1>1 DEF Keyed
<1>6. Awaited'
  <2>1. ASSUME NEW b \in Attempts, b # a, key' # 0, submission'[b] = "SUBMITTED"
        PROVE  \/ score'[b] # 0
               \/ job'[Ev(b)] # "none"
               \/ \E w \in Admins : pc'[w] = "uploadRead" \/ Holds(w, b)'
    BY <1>1, <1>2, <2>1 DEF ReleaseInv, Awaited, Stays
  <2> QED
    BY <2>1 DEF Awaited
<1>7. AllMarked'
  BY DEF ReleaseInv, AllMarked, Marked, Stays
<1>8. Checked'
  <2>1. \A w \in Admins : pc'[w] \notin {"publishCheckWrite", "publishTx"}
    BY <1>1 DEF LoopSteps
  <2> QED
    BY <2>1 DEF Checked
<1>9. Released'
  BY <1>1 DEF Released, Stays
<1> QED
  BY <1>3, <1>4, <1>5, <1>6, <1>7, <1>8, <1>9 DEF ReleaseInv

\* A worker goes to its next step; the others stay where they are.
LEMMA Goes ==
    ASSUME TypeOK, NEW w \in Workers, NEW s, Goto(w, s)
    PROVE  /\ pc'[w] = s /\ \A v \in Workers : v # w => pc'[v] = pc[v]
           /\ UNCHANGED <<todo, current, keyRead, scoresRead, readyRead, pubRead>>
BY DEF TypeOK, JobsRun, Goto, locals

\* A worker finishes; the others go on with what they have read.
LEMMA Ends ==
    ASSUME TypeOK, NEW w \in Workers, Finish(w)
    PROVE  /\ pc'[w] = "idle" /\ todo'[w] = {} /\ current'[w] = NoAttempt
           /\ \A v \in Workers : v # w =>
                 /\ pc'[v] = pc[v] /\ todo'[v] = todo[v] /\ current'[v] = current[v]
                 /\ keyRead'[v] = keyRead[v] /\ readyRead'[v] = readyRead[v]
                 /\ pubRead'[v] = pubRead[v]
BY DEF TypeOK, JobsRun, LocalTypes, Finish

\* A job completes and adds the jobs after it, unless their ids are taken.
LEMMA Completes ==
    ASSUME TypeOK, NEW j \in Jobs, NEW next, CompleteJob(j, next)
    PROVE  /\ job'[j] = "none"
           /\ \A i \in Jobs : i # j /\ i \notin next => job'[i] = job[i]
           /\ \A i \in Jobs : i # j /\ i \in next =>
                 job'[i] = IF job[i] = "none" THEN "waiting" ELSE job[i]
BY DEF CompleteJob

\* The evaluation of an attempt
LEMMA EvaluationKeeps ==
    ASSUME Orderly, ReleaseInv, TypeOK, NEW a \in Attempts, EvaluationStep(a)
    PROVE  ReleaseInv'
<1>1. CASE EvaluationRead(a)
  <2>1. /\ job[Ev(a)] = "waiting" /\ job' = [job EXCEPT ![Ev(a)] = "active"]
        /\ keyRead' = [keyRead EXCEPT ![Ev(a)] = IF score[a] > 0 THEN 0 ELSE key + 1]
        /\ pc' = [pc EXCEPT ![Ev(a)] = "evalWrite"]
        /\ UNCHANGED <<submission, ended, result, score, key, publication, todo, current>>
    BY <1>1 DEF EvaluationRead, Take, CalculateRead, Ev, rows
  <2>2. ~Idle(a)
    BY <2>1 DEF Idle
  <2>3. /\ job'[Ev(a)] = "active" /\ pc'[Ev(a)] = "evalWrite"
        /\ keyRead'[Ev(a)] = IF score[a] > 0 THEN 0 ELSE key + 1
        /\ \A j \in Jobs : j # Ev(a) => job'[j] = job[j]
        /\ \A w \in Workers : w # Ev(a) => pc'[w] = pc[w] /\ keyRead'[w] = keyRead[w]
    BY <2>1, Places DEF TypeOK, JobsRun, LocalTypes
  <2>4. score[a] \in Nat /\ key \in Nat
    BY Constants DEF TypeOK, RowTypes
  <2>5. \A b \in Attempts : b # a => Stays(b)
    BY <2>1, <2>3, Places DEF Stays
  <2>6. InOneQueue(a)'
    BY <2>1, <2>3, Places DEF ReleaseInv, InLine, InOneQueue, EvaluationSteps
  <2>7. Marked(a)'
    <3>1. key # 0
      BY <2>2, AtWork
    <3> QED
      BY <2>1, <2>3, <2>4, <3>1, Places DEF ReleaseInv, AllMarked, Marked
  <2>8. publication # "PUBLISHED" /\ result[a] # "PUBLISHED"
    BY <2>2, AtWork
  <2> QED
    BY <2>1, <2>2, <2>3, <2>5, <2>6, <2>7, <2>8, Places, JobKeeps
<1>2. CASE EvaluationWrite(a) \/ EvaluationMark(a)
  <2>1. /\ UNCHANGED <<submission, ended, key, publication, job, todo, current, keyRead>>
        /\ \/ /\ pc[Ev(a)] = "evalWrite" /\ pc' = [pc EXCEPT ![Ev(a)] = "evalMark"]
              /\ \/ keyRead[Ev(a)] = 0 /\ UNCHANGED <<score, result>>
                 \/ /\ keyRead[Ev(a)] > 0 /\ score' = [score EXCEPT ![a] = keyRead[Ev(a)]]
                    /\ result' = [result EXCEPT ![a] = "EVALUATED"]
           \/ /\ pc[Ev(a)] = "evalMark" /\ pc' = [pc EXCEPT ![Ev(a)] = "evalEnqueue"]
              /\ UNCHANGED score /\ result' = [result EXCEPT ![a] = "EVALUATED"]
    BY <1>2 DEF EvaluationWrite, EvaluationMark, CalculateWrite, SetStatus, Goto, Ev, queues, locals
  <2>2. job[Ev(a)] = "active" /\ ~Idle(a)
    BY <2>1, Running, Places DEF Idle
  <2>3. /\ pc'[Ev(a)] \in {"evalMark", "evalEnqueue"}
        /\ \A w \in Workers : w # Ev(a) => pc'[w] = pc[w]
    BY <2>1, Places DEF TypeOK, JobsRun
  <2>4. /\ score'[a] # 0 /\ \A b \in Attempts : b # a => score'[b] = score[b]
        /\ result'[a] \in {result[a], "EVALUATED"}
        /\ \A b \in Attempts : b # a => result'[b] = result[b]
    BY <2>1, Constants, Places DEF ReleaseInv, AllMarked, Marked, TypeOK, RowTypes
  <2>5. \A b \in Attempts : b # a => Stays(b)
    BY <2>1, <2>3, <2>4, Places DEF Stays
  <2>6. InOneQueue(a)'
    BY <2>1, <2>3, Places DEF ReleaseInv, InLine, InOneQueue, EvaluationSteps
  <2>7. Marked(a)'
    BY <2>3, <2>4 DEF Marked
  <2>8. publication # "PUBLISHED" /\ result[a] # "PUBLISHED"
    BY <2>2, AtWork
  <2> QED
    BY <2>1, <2>2, <2>3, <2>4, <2>5, <2>6, <2>7, <2>8, Places, JobKeeps
<1>3. CASE EvaluationEnqueue(a)
  <2>1. /\ pc[Ev(a)] = "evalEnqueue" /\ CompleteJob(Ev(a), {An(a)}) /\ Finish(Ev(a))
        /\ UNCHANGED <<submission, ended, key, publication, score, result>>
    BY <1>3 DEF EvaluationEnqueue, Ev, An, rows
  <2>2. job[Ev(a)] = "active" /\ ~Idle(a)
    BY <2>1, Running, Places DEF Idle
  <2>3. /\ job'[Ev(a)] = "none" /\ job'[An(a)] = "waiting" /\ job'[Ra(a)] = "none"
        /\ \A j \in Jobs : j # Ev(a) /\ j # An(a) => job'[j] = job[j]
    <3>1. job[An(a)] = "none" /\ job[Ra(a)] = "none"
      BY <2>2 DEF ReleaseInv, InLine, InOneQueue
    <3> QED
      BY <2>1, <3>1, Completes, Places
  <2>4. /\ pc'[Ev(a)] = "idle"
        /\ \A v \in Workers : v # Ev(a) =>
              /\ pc'[v] = pc[v] /\ todo'[v] = todo[v] /\ current'[v] = current[v]
              /\ keyRead'[v] = keyRead[v]
    BY <2>1, Ends, Places
  <2>5. \A b \in Attempts : b # a => Stays(b)
    BY <2>1, <2>3, <2>4, Places DEF Stays
  <2>6. InOneQueue(a)'
    BY <2>3, <2>4, Places DEF ReleaseInv, InLine, InOneQueue
  <2>7. score[a] # 0 /\ Marked(a)'
    BY <2>1, <2>3, <2>4 DEF ReleaseInv, AllMarked, Marked
  <2>8. publication # "PUBLISHED" /\ result[a] # "PUBLISHED"
    BY <2>2, AtWork
  <2> QED
    BY <2>1, <2>2, <2>3, <2>4, <2>5, <2>6, <2>7, <2>8, Places, JobKeeps
<1> QED
  BY <1>1, <1>2, <1>3 DEF EvaluationStep

\* The analysis of an attempt
LEMMA AnalyticsKeeps ==
    ASSUME Orderly, ReleaseInv, TypeOK, NEW a \in Attempts, AnalyticsStep(a)
    PROVE  ReleaseInv'
<1>1. CASE AnalyticsStart(a) \/ AnalyticsGenerate(a)
  <2>1. /\ UNCHANGED <<submission, ended, score, key, publication, todo, current, keyRead>>
        /\ \/ /\ job[An(a)] = "waiting" /\ job' = [job EXCEPT ![An(a)] = "active"]
              /\ pc' = [pc EXCEPT ![An(a)] = "anaGenerate"]
              /\ result' = [result EXCEPT ![a] =
                               IF result[a] = "NONE" THEN "NONE" ELSE "ANALYTICS_PROCESSING"]
           \/ /\ pc[An(a)] = "anaGenerate" /\ UNCHANGED job
              /\ pc' = [pc EXCEPT ![An(a)] = "anaEnqueue"]
              /\ result' = [result EXCEPT ![a] = "RANKING_PROCESSING"]
    BY <1>1 DEF AnalyticsStart, AnalyticsGenerate, Take, UpdateStatus, SetStatus, Goto, An, queues,
                locals
  <2>2. job[An(a)] # "none" /\ ~Idle(a)
    BY <2>1, Running, Places DEF Idle
  <2>3. /\ job'[An(a)] = "active" /\ pc'[An(a)] \in {"anaGenerate", "anaEnqueue"}
        /\ \A j \in Jobs : j # An(a) => job'[j] = job[j]
        /\ \A w \in Workers : w # An(a) => pc'[w] = pc[w]
    BY <2>1, Running, Places DEF TypeOK, JobsRun
  <2>4. /\ result'[a] \in {"NONE", "ANALYTICS_PROCESSING", "RANKING_PROCESSING"}
        /\ \A b \in Attempts : b # a => result'[b] = result[b]
    BY <2>1 DEF TypeOK, RowTypes
  <2>5. \A b \in Attempts : b # a => Stays(b)
    BY <2>1, <2>3, <2>4, Places DEF Stays
  <2>6. InOneQueue(a)'
    BY <2>2, <2>3, Places DEF ReleaseInv, InLine, InOneQueue, AnalyticsSteps
  <2>7. score[a] # 0 /\ Marked(a)'
    BY <2>1, <2>2, <2>3, <2>4, Places, Running DEF ReleaseInv, AllMarked, Marked, InLine, InOneQueue
  <2>8. publication # "PUBLISHED"
    BY <2>2, AtWork
  <2> QED
    BY <2>1, <2>2, <2>3, <2>4, <2>5, <2>6, <2>7, <2>8, Places, JobKeeps
<1>2. CASE AnalyticsEnqueue(a)
  <2>1. /\ pc[An(a)] = "anaEnqueue" /\ CompleteJob(An(a), {Ra(a)}) /\ Finish(An(a))
        /\ UNCHANGED <<submission, ended, key, publication, score, result>>
    BY <1>2 DEF AnalyticsEnqueue, An, Ra, rows
  <2>2. job[An(a)] = "active" /\ ~Idle(a)
    BY <2>1, Running, Places DEF Idle
  <2>3. /\ job'[Ev(a)] = "none" /\ job'[An(a)] = "none" /\ job'[Ra(a)] = "waiting"
        /\ \A j \in Jobs : j # An(a) /\ j # Ra(a) => job'[j] = job[j]
    <3>1. job[Ev(a)] = "none" /\ job[Ra(a)] = "none"
      BY <2>2 DEF ReleaseInv, InLine, InOneQueue
    <3> QED
      BY <2>1, <3>1, Completes, Places
  <2>4. /\ pc'[An(a)] = "idle"
        /\ \A v \in Workers : v # An(a) =>
              /\ pc'[v] = pc[v] /\ todo'[v] = todo[v] /\ current'[v] = current[v]
              /\ keyRead'[v] = keyRead[v]
    BY <2>1, Ends, Places
  <2>5. \A b \in Attempts : b # a => Stays(b)
    BY <2>1, <2>3, <2>4, Places DEF Stays
  <2>6. InOneQueue(a)'
    BY <2>3, <2>4, Places DEF ReleaseInv, InLine, InOneQueue
  <2>7. score[a] # 0 /\ Marked(a)'
    BY <2>1, <2>2, <2>3, <2>4, Places DEF ReleaseInv, AllMarked, Marked
  <2>8. publication # "PUBLISHED" /\ result[a] # "PUBLISHED"
    BY <2>2, AtWork
  <2> QED
    BY <2>1, <2>2, <2>3, <2>4, <2>5, <2>6, <2>7, <2>8, Places, JobKeeps
<1> QED
  BY <1>1, <1>2 DEF AnalyticsStep

\* The ranking job of an attempt
LEMMA RankingKeeps ==
    ASSUME Orderly, ReleaseInv, TypeOK, NEW a \in Attempts, RankingStep(a)
    PROVE  ReleaseInv'
<1>1. CASE RankingStart(a)
  <2>1. /\ job[Ra(a)] = "waiting" /\ job' = [job EXCEPT ![Ra(a)] = "active"]
        /\ pc' = [pc EXCEPT ![Ra(a)] = "rankRead"]
        /\ UNCHANGED <<submission, ended, result, score, key, publication, todo, current, keyRead>>
    BY <1>1 DEF RankingStart, Take, Goto, Ra, locals
  <2>2. ~Idle(a) /\ score[a] # 0
    BY <2>1 DEF Idle, ReleaseInv, AllMarked, Marked
  <2>3. /\ job'[Ra(a)] = "active" /\ pc'[Ra(a)] = "rankRead"
        /\ \A j \in Jobs : j # Ra(a) => job'[j] = job[j]
        /\ \A w \in Workers : w # Ra(a) => pc'[w] = pc[w]
    BY <2>1, Places DEF TypeOK, JobsRun
  <2>4. \A b \in Attempts : b # a => Stays(b)
    BY <2>1, <2>3, Places DEF Stays
  <2>5. InOneQueue(a)'
    BY <2>1, <2>3, Places DEF ReleaseInv, InLine, InOneQueue, RankSteps
  <2>6. Marked(a)'
    BY <2>1, <2>2, <2>3, Places DEF ReleaseInv, AllMarked, Marked
  <2>7. publication # "PUBLISHED" /\ result[a] # "PUBLISHED"
    BY <2>2, AtWork
  <2> QED
    BY <2>1, <2>2, <2>3, <2>4, <2>5, <2>6, <2>7, Places, JobKeeps
<1>2. CASE RankRead(Ra(a)) \/ RankWrite(Ra(a)) \/ WorkflowRead(a) \/ WorkflowUpdate(a) \/ CheckRead(Ra(a))
  <2>1. /\ UNCHANGED <<submission, ended, score, key, publication, job, todo, current, keyRead>>
        /\ pc[Ra(a)] # "idle"
        /\ \E s \in {"rankWrite", "workflow", "markReady", "check", "checkWrite"} :
              pc' = [pc EXCEPT ![Ra(a)] = s]
        /\ result' = result \/ result' = [result EXCEPT ![a] = "READY_TO_PUBLISH"]
    <3>1. pc[Ra(a)] \notin {"publishMock", "publishCheck"}
      BY DEF ReleaseInv, InLine, InOneQueue, RankSteps
    <3>2. Ra(a) \notin Admins
      BY Places
    <3>3. CASE RankRead(Ra(a)) \/ RankWrite(Ra(a))
      BY <3>2, <3>3 DEF RankRead, RankWrite, RanksDone, rows, queues
    <3>4. CASE WorkflowRead(a) \/ WorkflowUpdate(a)
      BY <3>1, <3>4 DEF Orderly, WorkflowRead, WorkflowUpdate, Goto, SetStatus, Ra, rows, queues, locals
    <3>5. CASE CheckRead(Ra(a))
      BY <3>1, <3>5 DEF CheckRead, rows, queues
    <3> QED
      BY <1>2, <3>3, <3>4, <3>5
  <2>2. job[Ra(a)] = "active" /\ ~Idle(a)
    BY <2>1, Running, Places DEF Idle
  <2>3. /\ pc'[Ra(a)] \in {"rankWrite", "workflow", "markReady", "check", "checkWrite"}
        /\ \A w \in Workers : w # Ra(a) => pc'[w] = pc[w]
    BY <2>1, Places DEF TypeOK, JobsRun
  <2>4. /\ result'[a] \in {result[a], "READY_TO_PUBLISH"}
        /\ \A b \in Attempts : b # a => result'[b] = result[b]
    BY <2>1 DEF TypeOK, RowTypes
  <2>5. \A b \in Attempts : b # a => Stays(b)
    BY <2>1, <2>3, <2>4, Places DEF Stays
  <2>6. InOneQueue(a)'
    BY <2>1, <2>2, <2>3, Places DEF ReleaseInv, InLine, InOneQueue, RankSteps
  <2>7. score[a] # 0 /\ Marked(a)'
    BY <2>1, <2>2, <2>3, <2>4, Places DEF ReleaseInv, AllMarked, Marked
  <2>8. publication # "PUBLISHED" /\ result[a] # "PUBLISHED"
    BY <2>2, AtWork
  <2> QED
    BY <2>1, <2>2, <2>3, <2>4, <2>5, <2>6, <2>7, <2>8, Places, JobKeeps
<1>3. CASE CheckWrite(Ra(a))
  <2>1. /\ pc[Ra(a)] = "checkWrite" /\ CompleteJob(Ra(a), {}) /\ Finish(Ra(a))
        /\ UNCHANGED <<submission, ended, key, score, result>>
        /\ publication' \in {publication, "READY_TO_PUBLISH", "PROCESSING"}
    BY <1>3, Places DEF CheckWrite, UpdatePublication
  <2>2. job[Ra(a)] = "active" /\ ~Idle(a)
    BY <2>1, Running, Places DEF Idle
  <2>3. job'[Ra(a)] = "none" /\ \A j \in Jobs : j # Ra(a) => job'[j] = job[j]
    BY <2>1, Completes, Places
  <2>4. /\ pc'[Ra(a)] = "idle"
        /\ \A v \in Workers : v # Ra(a) =>
              /\ pc'[v] = pc[v] /\ todo'[v] = todo[v] /\ current'[v] = current[v]
              /\ keyRead'[v] = keyRead[v]
    BY <2>1, Ends, Places
  <2>5. \A b \in Attempts : b # a => Stays(b)
    BY <2>1, <2>3, <2>4, Places DEF Stays
  <2>6. InOneQueue(a)'
    BY <2>3, <2>4, Places DEF ReleaseInv, InLine, InOneQueue
  <2>7. score[a] # 0 /\ Marked(a)'
    BY <2>1, <2>2, <2>3, <2>4, Places DEF ReleaseInv, AllMarked, Marked
  <2>8. publication' # "PUBLISHED" /\ result[a] # "PUBLISHED"
    BY <2>1, <2>2, AtWork
  <2> QED
    BY <2>1, <2>2, <2>3, <2>4, <2>5, <2>6, <2>7, <2>8, Places, JobKeeps
<1> QED
  BY <1>1, <1>2, <1>3 DEF RankingStep, Ra

\* A request that has the queues to itself
Alone(w) == pc[w] \in {"idle"} \cup LoneSteps /\ NoJobs /\ \A v \in Admins : v # w => pc[v] = "idle"

\* A request that is accepted finds the queues empty and the others idle.
LEMMA Accepted ==
    ASSUME Orderly, ReleaseInv, NEW w \in Admins, NEW op, Accept(w, op)
    PROVE  Alone(w) /\ pc[w] = "idle" /\ \A a \in Attempts : submission[a] # "FINALISING"
<1>1. Quiescent /\ pc[w] = "idle"
  BY DEF Orderly, Accept
<1>2. NoJobs
  BY <1>1, Places DEF Quiescent, ReleaseInv, InLine, InOneQueue, NoJobs, Idle
<1> QED
  BY <1>1, <1>2, Places DEF Quiescent, Alone

\* A request other than an upload has the queues to itself until it ends.
LEMMA LoneRequest ==
    ASSUME ReleaseInv, NEW w \in Admins, pc[w] \in LoneSteps
    PROVE  Alone(w)
<1>1. pc[w] # "idle"
  BY DEF LoneSteps, PublishSteps
<1> QED
  BY <1>1 DEF ReleaseInv, InTurn, Alone

\* What it has to keep while it changes no mark and no result
LEMMA AloneKeeps ==
    ASSUME ReleaseInv, TypeOK, NEW w \in Admins, Alone(w), pc[w] # "uploadRead",
           pc'[w] \in {"idle"} \cup LoneSteps, pc'[w] # "uploadRead",
           \A v \in Workers : v # w =>
               pc'[v] = pc[v] /\ pubRead'[v] = pubRead[v] /\ readyRead'[v] = readyRead[v],
           UNCHANGED <<submission, ended, result, score, key, snapshot, job>>,
           pc'[w] = "uploadTx" => ended /\ \A a \in Attempts : submission[a] # "FINALISING",
           pc'[w] \in {"checkWrite", "publishCheckWrite"} /\ pubRead'[w] # "PUBLISHED"
               => publication' # "PUBLISHED",
           pc'[w] = "publishTx" => readyRead'[w],
           pc'[w] \in {"publishCheckWrite", "publishTx"} /\ readyRead'[w] =>
               \A a \in Attempts : submission[a] = "SUBMITTED" /\ result[a] # "NONE" /\ score[a] # 0,
           publication' = "PUBLISHED" => publication = "PUBLISHED"
    PROVE  ReleaseInv'
<1>1. \A v \in Admins : v # w => pc[v] = "idle" /\ pc'[v] = "idle"
  BY Places DEF Alone
<1>2. NoJobs /\ NoJobs' /\ \A a \in Attempts : Idle(a)'
  BY DEF Alone, NoJobs, Idle
<1>3. \A j \in Jobs : pc[j] = "idle" /\ pc'[j] = "idle"
  BY <1>2, Running, Places DEF NoJobs, Idle
<1>4. \A v \in Admins, a \in Attempts : ~Holds(v, a) /\ ~Holds(v, a)'
  BY <1>1 DEF Holds, Alone, LoopSteps, LoneSteps, PublishSteps
<1>5. InTurn'
  BY <1>1, <1>2 DEF InTurn, LoneSteps, PublishSteps
<1>6. InLine'
  BY <1>2, <1>3, <1>4, Places DEF InLine, InOneQueue, Idle
<1>7. Keyed'
  <2>1. \A v \in Admins : pc'[v] \notin {"uploadRead"} \cup LoopSteps
    BY <1>1 DEF LoneSteps, LoopSteps, PublishSteps
  <2>2. \A v \in Admins : pc'[v] = "uploadTx" => v = w
    BY <1>1
  <2> QED
    BY <1>2, <2>1, <2>2 DEF ReleaseInv, Keyed
<1>8. Awaited'
  <2>1. \A v \in Admins : pc[v] # "uploadRead"
    BY <1>1
  <2> QED
    BY <1>4, <2>1 DEF ReleaseInv, Awaited
<1>9. AllMarked'
  BY <1>2, <1>3, Places DEF ReleaseInv, AllMarked, Marked, Idle
<1>10. Checked'
  <2>1. \A v \in Workers : v # w => pc'[v] = "idle"
    BY <1>1, <1>3, Places
  <2> QED
    BY <2>1, Places DEF Checked
<1>11. Released'
  BY <1>2, <1>4 DEF ReleaseInv, Released
<1> QED
  BY <1>5, <1>6, <1>7, <1>8, <1>9, <1>10, <1>11 DEF ReleaseInv

\* The readiness of the exam means that every attempt is marked.
LEMMA ReadyMeans ==
    ASSUME ReleaseInv, TypeOK, NEW w \in Admins, Alone(w), pc[w] # "uploadRead", Ready
    PROVE  \A a \in Attempts : submission[a] = "SUBMITTED" /\ result[a] # "NONE" /\ score[a] # 0
<1>1. key # 0
  BY DEF Ready, ReleaseInv, Keyed
<1>2. \A a \in Attempts : submission[a] = "SUBMITTED" /\ result[a] # "NONE"
  BY <1>1 DEF Ready, IsFinal, ReleaseInv, Keyed, TypeOK, RowTypes, Submissions
<1>3. \A v \in Admins : pc[v] \notin {"uploadRead"} \cup LoopSteps
  BY DEF Alone, LoneSteps, LoopSteps, PublishSteps
<1>4. \A v \in Admins, a \in Attempts : ~Holds(v, a)
  BY <1>3 DEF Holds, LoopSteps
<1> QED
  BY <1>1, <1>2, <1>3, <1>4 DEF ReleaseInv, Awaited, Alone, NoJobs, Idle

\* Requests that look or wait: the dashboard, the check, the lock
LEMMA LooksKeep ==
    ASSUME Orderly, ReleaseInv, TypeOK, NEW w \in Admins,
           \/ Dashboard(w) \/ PublishRequest(w) \/ UploadRequest(w)
           \/ CheckRead(w) \/ CheckWrite(w)
           \/ PublishLock(w) \/ PublishCheckWrite(w) \/ PublishUnlock(w)
    PROVE  ReleaseInv'
<1> USE DEF LoneSteps, PublishSteps
<1>1. CASE Dashboard(w) \/ PublishRequest(w) \/ UploadRequest(w)
  <2>1. /\ Alone(w) /\ pc[w] = "idle" /\ \A a \in Attempts : submission[a] # "FINALISING"
    BY <1>1, Accepted DEF Dashboard, PublishRequest, UploadRequest
  <2>2. PICK s \in {"check", "publishLock", "uploadTx"} : Goto(w, s) /\ (s = "uploadTx" => ended)
    BY <1>1 DEF Dashboard, PublishRequest, UploadRequest
  <2>3. UNCHANGED <<submission, ended, result, score, key, snapshot, job, publication>>
    BY <1>1 DEF Dashboard, PublishRequest, UploadRequest, rows, queues
  <2>4. /\ pc'[w] = s /\ \A v \in Workers : v # w => pc'[v] = pc[v]
        /\ UNCHANGED <<readyRead, pubRead>>
    BY <2>2, Goes, Places
  <2> QED
    BY <2>1, <2>2, <2>3, <2>4, AloneKeeps
<1>2. CASE CheckRead(w)
  <2>1. /\ pc[w] \in {"check", "publishCheck"} /\ pc'[w] \in {"checkWrite", "publishCheckWrite"}
        /\ pubRead'[w] = publication /\ readyRead'[w] = Ready
        /\ \A v \in Workers : v # w =>
              pc'[v] = pc[v] /\ pubRead'[v] = pubRead[v] /\ readyRead'[v] = readyRead[v]
        /\ UNCHANGED <<submission, ended, result, score, key, snapshot, job, publication>>
    <3>1. w \in Workers
      BY Places
    <3>2. /\ pc \in [Workers -> Steps] /\ pubRead \in [Workers -> PublicationStatuses]
          /\ readyRead \in [Workers -> BOOLEAN]
      BY DEF TypeOK, JobsRun, LocalTypes
    <3> QED
      BY <1>2, <3>1, <3>2 DEF CheckRead, rows, queues
  <2>2. Alone(w)
    BY <2>1, LoneRequest
  <2>3. readyRead'[w] =>
           \A a \in Attempts : submission[a] = "SUBMITTED" /\ result[a] # "NONE" /\ score[a] # 0
    BY <2>1, <2>2, ReadyMeans
  <2> QED
    BY <2>1, <2>2, <2>3, AloneKeeps
<1>3. CASE CheckWrite(w) \/ PublishCheckWrite(w)
  <2>1. /\ pc[w] \in {"checkWrite", "publishCheckWrite"}
        /\ publication' = "PUBLISHED" => publication = "PUBLISHED"
        /\ UNCHANGED <<submission, ended, result, score, key, snapshot, job>>
    BY <1>3, Places DEF CheckWrite, PublishCheckWrite, UpdatePublication, queues
  <2>2. Alone(w)
    BY <2>1, LoneRequest
  <2>3. CASE CheckWrite(w)
    <3>1. /\ pc'[w] = "idle"
          /\ \A v \in Workers : v # w =>
                pc'[v] = pc[v] /\ pubRead'[v] = pubRead[v] /\ readyRead'[v] = readyRead[v]
      BY <2>3, Ends, Places DEF CheckWrite
    <3> QED
      BY <2>1, <2>2, <3>1, AloneKeeps
  <2>4. CASE PublishCheckWrite(w)
    <3>1. PICK s \in {"publishTx", "publishUnlock"} :
             Goto(w, s) /\ pc[w] = "publishCheckWrite" /\ (s = "publishTx" => readyRead[w])
      BY <2>4 DEF PublishCheckWrite
    <3>2. /\ pc'[w] = s /\ \A v \in Workers : v # w => pc'[v] = pc[v]
          /\ UNCHANGED <<readyRead, pubRead>>
      BY <3>1, Goes, Places
    <3>3. readyRead[w] =>
             \A a \in Attempts : submission[a] = "SUBMITTED" /\ result[a] # "NONE" /\ score[a] # 0
      BY <3>1 DEF ReleaseInv, Checked
    <3> QED
      BY <2>1, <2>2, <3>1, <3>2, <3>3, AloneKeeps
  <2> QED
    BY <1>3, <2>3, <2>4
<1>4. CASE PublishLock(w)
  <2>1. /\ pc[w] = "publishLock" /\ Goto(w, "publishCheck")
        /\ UNCHANGED <<submission, ended, result, score, key, snapshot, job, publication>>
    BY <1>4 DEF PublishLock, rows, queues
  <2>2. /\ pc'[w] = "publishCheck" /\ \A v \in Workers : v # w => pc'[v] = pc[v]
        /\ UNCHANGED <<readyRead, pubRead>>
    BY <2>1, Goes, Places
  <2>3. Alone(w)
    BY <2>1, LoneRequest
  <2> QED
    BY <2>1, <2>2, <2>3, AloneKeeps
<1>5. CASE PublishUnlock(w)
  <2>1. /\ pc[w] = "publishUnlock" /\ Finish(w)
        /\ UNCHANGED <<submission, ended, result, score, key, snapshot, job, publication>>
    BY <1>5 DEF PublishUnlock, rows, queues
  <2>2. /\ pc'[w] = "idle"
        /\ \A v \in Workers : v # w =>
              pc'[v] = pc[v] /\ pubRead'[v] = pubRead[v] /\ readyRead'[v] = readyRead[v]
    BY <2>1, Ends, Places
  <2>3. Alone(w)
    BY <2>1, LoneRequest
  <2> QED
    BY <2>1, <2>2, <2>3, AloneKeeps
<1> QED
  BY <1>1, <1>2, <1>3, <1>4, <1>5

\* The publication releases every result at once.
LEMMA PublishKeeps ==
    ASSUME ReleaseInv, TypeOK, NEW w \in Admins, PublishTx(w)
    PROVE  /\ ReleaseInv'
           /\ \A a \in Attempts : result'[a] = "PUBLISHED" /\ score[a] # 0
<1> USE DEF LoneSteps, PublishSteps
<1>1. /\ pc[w] = "publishTx" /\ Goto(w, "publishUnlock") /\ publication' = "PUBLISHED"
      /\ \A a \in Attempts : IsFinal(a) /\ result[a] # "NONE" => result'[a] = "PUBLISHED"
      /\ UNCHANGED <<submission, ended, score, key, snapshot, job>>
  BY DEF PublishTx, queues
<1>2. /\ pc'[w] = "publishUnlock" /\ \A v \in Workers : v # w => pc'[v] = pc[v]
      /\ UNCHANGED <<readyRead, pubRead>>
  BY <1>1, Goes, Places
<1>3. Alone(w)
  BY <1>1, LoneRequest
<1>4. \A a \in Attempts : submission[a] = "SUBMITTED" /\ result'[a] = "PUBLISHED" /\ score[a] # 0
  BY <1>1 DEF ReleaseInv, Checked, IsFinal
<1>5. \A v \in Admins : v # w => pc[v] = "idle" /\ pc'[v] = "idle"
  BY <1>2, <1>3, Places DEF Alone
<1>6. NoJobs /\ NoJobs' /\ \A a \in Attempts : Idle(a)'
  BY <1>1, <1>3 DEF Alone, NoJobs, Idle
<1>7. \A j \in Jobs : pc[j] = "idle" /\ pc'[j] = "idle"
  BY <1>2, <1>6, Running, Places DEF NoJobs, Idle
<1>8. \A v \in Admins, a \in Attempts : ~Holds(v, a)'
  BY <1>2, <1>5 DEF Holds, LoopSteps
<1>9. InTurn'
  BY <1>2, <1>5, <1>6 DEF InTurn
<1>10. InLine'
  BY <1>6, <1>7, <1>8, Places DEF InLine, InOneQueue, Idle
<1>11. Keyed'
  BY <1>1, <1>2, <1>4, <1>5, <1>6 DEF ReleaseInv, Keyed, LoopSteps
<1>12. Awaited' /\ AllMarked'
  BY <1>1, <1>4, <1>6, <1>7, Places DEF Awaited, AllMarked, Marked, Idle
<1>13. Checked'
  BY <1>2, <1>5, <1>7, Places DEF Checked
<1>14. Released'
  BY <1>1, <1>4, <1>6, <1>8 DEF Released
<1> QED
  BY <1>4, <1>9, <1>10, <1>11, <1>12, <1>13, <1>14 DEF ReleaseInv

\* The upload takes the publication back and looks for the attempts to mark.
LEMMA UploadBegins ==
    ASSUME ReleaseInv, TypeOK, NEW w \in Admins, UploadTx(w) \/ UploadRead(w)
    PROVE  ReleaseInv'
<1> USE DEF LoneSteps, PublishSteps
<1>1. pc[w] \in {"uploadTx", "uploadRead"} /\ Alone(w)
  BY LoneRequest DEF UploadTx, UploadRead
<1>2. /\ UNCHANGED <<submission, ended, result, score, snapshot, job, readyRead, pubRead>>
      /\ publication' = "PUBLISHED" => publication = "PUBLISHED"
      /\ key' # 0
      /\ \/ UploadTx(w) /\ pc'[w] = "uploadRead" /\ UNCHANGED todo
         \/ UploadRead(w) /\ pc'[w] = "uploadMark" /\ todo'[w] = Eligible
      /\ \A v \in Workers : v # w => pc'[v] = pc[v]
  <2>1. key \in Nat /\ pc \in [Workers -> Steps] /\ todo \in [Workers -> SUBSET Attempts] /\ w \in Workers
    BY Constants, Places DEF TypeOK, RowTypes, LocalTypes, JobsRun
  <2>2. CASE UploadTx(w)
    BY <2>1, <2>2, Goes DEF UploadTx, queues
  <2>3. CASE UploadRead(w)
    BY <2>1, <2>3 DEF UploadRead, rows, queues, ReleaseInv, Keyed
  <2> QED
    BY <2>2, <2>3
<1>3. \A v \in Admins : v # w => pc[v] = "idle" /\ pc'[v] = "idle"
  BY <1>1, <1>2, Places DEF Alone
<1>4. NoJobs /\ NoJobs' /\ \A a \in Attempts : Idle(a)'
  BY <1>1, <1>2 DEF Alone, NoJobs, Idle
<1>5. \A j \in Jobs : pc[j] = "idle" /\ pc'[j] = "idle"
  BY <1>2, <1>4, Running, Places DEF NoJobs, Idle
<1>6. /\ \A v \in Admins, a \in Attempts : ~Holds(v, a)
      /\ \A v \in Admins, a \in Attempts : Holds(v, a)' => v = w /\ UploadRead(w) /\ a \in Eligible
  BY <1>1, <1>2, <1>3 DEF Holds, LoopSteps
<1>7. InTurn'
  BY <1>2, <1>3, <1>4 DEF InTurn, LoopSteps
<1>8. InLine'
  BY <1>4, <1>5, Places DEF InLine, InOneQueue, Idle
<1>9. Keyed'
  <2>1. ended /\ \A a \in Attempts : submission[a] # "FINALISING"
    BY <1>1 DEF ReleaseInv, Keyed
  <2> QED
    BY <1>2, <2>1 DEF Keyed
<1>10. Awaited'
  <2>1. CASE UploadTx(w)
    BY <1>2, <2>1 DEF Awaited, UploadTx, UploadRead
  <2>2. CASE UploadRead(w)
    <3>1. pc'[w] = "uploadMark" /\ todo'[w] = Eligible
      BY <1>2, <2>2 DEF UploadRead, UploadTx
    <3>2. \A a \in Attempts : submission[a] = "SUBMITTED" /\ score[a] = 0 => a \in Eligible
      BY DEF ReleaseInv, AllMarked, Marked, Eligible, IsFinal
    <3> QED
      BY <1>2, <3>1, <3>2 DEF Awaited, Holds, LoopSteps
  <2> QED
    BY <2>1, <2>2
<1>11. AllMarked'
  BY <1>2, <1>4, <1>5, Places DEF ReleaseInv, AllMarked, Marked, Idle
<1>12. Checked'
  BY <1>2, <1>3, <1>5, Places DEF Checked
<1>13. Released'
  BY <1>2, <1>4, <1>6 DEF ReleaseInv, Released, Eligible, Deferred
<1> QED
  BY <1>7, <1>8, <1>9, <1>10, <1>11, <1>12, <1>13 DEF ReleaseInv

\* Its loop marks and enqueues one attempt after the other.
LEMMA LoopKeeps ==
    ASSUME ReleaseInv, TypeOK, NEW w \in Admins, UploadMark(w) \/ UploadEnqueue(w) \/ LoopDone(w)
    PROVE  ReleaseInv'
<1> USE DEF LoopSteps
<1>1. pc[w] \in LoopSteps /\ w \in Workers
  BY Places DEF UploadMark, MarkNext, UploadEnqueue, LoopDone, ReleaseInv, InTurn, LoneSteps, PublishSteps
<1>2. \A v \in Admins : v # w => pc[v] = "idle"
  BY <1>1 DEF ReleaseInv, InTurn
<1>3. key # 0 /\ ended /\ \A a \in Attempts : submission[a] # "FINALISING"
  <2>1. key # 0
    BY <1>1 DEF ReleaseInv, Keyed
  <2> QED
    BY <2>1 DEF ReleaseInv, Keyed
<1>4. CASE UploadMark(w)
  <2>1. PICK a \in todo[w] :
           /\ pc[w] = "uploadMark" /\ result' = [result EXCEPT ![a] = "PROCESSING"]
           /\ current' = [current EXCEPT ![w] = a] /\ todo' = [todo EXCEPT ![w] = @ \ {a}]
           /\ pc' = [pc EXCEPT ![w] = "uploadEnqueue"]
           /\ UNCHANGED <<submission, ended, score, key, publication, job, keyRead>>
    BY <1>4 DEF UploadMark, MarkNext, SetStatus, queues
  <2>2. /\ a \in Attempts /\ pc'[w] = "uploadEnqueue" /\ todo'[w] = todo[w] \ {a} /\ current'[w] = a
        /\ \A v \in Workers : v # w => pc'[v] = pc[v]
        /\ result'[a] = "PROCESSING" /\ \A b \in Attempts : b # a => result'[b] = result[b]
    BY <1>1, <2>1 DEF TypeOK, JobsRun, LocalTypes, RowTypes
  <2>3. Holds(w, a) /\ Idle(a)
    BY <2>1, <2>2 DEF Holds, ReleaseInv, InLine
  <2>4. \A v \in Admins, b \in Attempts : Holds(v, b)' <=> Holds(v, b)
    BY <1>2, <2>1, <2>2, Places DEF Holds
  <2>5. InTurn'
    BY <1>1, <1>2, <2>2, Places DEF ReleaseInv, InTurn, LoneSteps, PublishSteps
  <2>6. InLine'
    BY <2>1, <2>2, <2>4, Places DEF ReleaseInv, InLine, InOneQueue, Idle
  <2>7. Keyed'
    BY <1>3, <2>1 DEF Keyed
  <2>8. Awaited'
    BY <1>2, <2>1, <2>4 DEF ReleaseInv, Awaited
  <2>9. AllMarked'
    BY <2>1, <2>2, Places DEF ReleaseInv, AllMarked, Marked, Deferred
  <2>10. publication # "PUBLISHED" /\ \A b \in Attempts : result[b] # "PUBLISHED"
    BY <2>2, <2>3 DEF ReleaseInv, Released
  <2>11. Checked' /\ Released'
    BY <1>2, <2>1, <2>2, <2>10, Places DEF Checked, Released
  <2> QED
    BY <2>5, <2>6, <2>7, <2>8, <2>9, <2>11 DEF ReleaseInv
<1>5. CASE UploadEnqueue(w)
  <2>1. PICK a \in Attempts : a = current[w]
    BY <1>1, <1>5 DEF UploadEnqueue, TypeOK, JobsRun
  <2>2. /\ pc[w] = "uploadEnqueue" /\ Enqueue("evaluation", a) /\ Goto(w, "uploadMark")
        /\ UNCHANGED <<submission, ended, result, score, key, publication>>
    BY <1>5, <2>1 DEF UploadEnqueue, rows
  <2>3. Holds(w, a) /\ Idle(a) /\ a \notin todo[w]
    BY <2>1, <2>2 DEF Holds, ReleaseInv, InLine, InTurn
  <2>4. job'[Ev(a)] = "waiting" /\ \A j \in Jobs : j # Ev(a) => job'[j] = job[j]
    BY <2>2, <2>3, Places DEF Enqueue, Ev, Idle, TypeOK, JobsRun
  <2>5. /\ pc'[w] = "uploadMark" /\ \A v \in Workers : v # w => pc'[v] = pc[v]
        /\ UNCHANGED <<todo, current, keyRead>>
    BY <1>1, <2>2, Goes
  <2>6. \A v \in Admins, b \in Attempts : Holds(v, b)' <=> Holds(v, b) /\ b # a
    BY <1>2, <2>1, <2>2, <2>3, <2>5, Places DEF Holds
  <2>7. InTurn'
    BY <1>1, <1>2, <2>5, Places DEF ReleaseInv, InTurn, LoneSteps, PublishSteps
  <2>8. InLine'
    <3>1. ASSUME NEW b \in Attempts, b # a PROVE InOneQueue(b)' /\ (Idle(b) => Idle(b)')
      BY <2>4, <2>5, <3>1, Places DEF ReleaseInv, InLine, InOneQueue, Idle
    <3>2. InOneQueue(a)'
      BY <2>3, <2>4, <2>5, Places DEF ReleaseInv, InLine, InOneQueue, Idle
    <3> QED
      BY <2>6, <3>1, <3>2 DEF ReleaseInv, InLine
  <2>9. Keyed'
    BY <1>3, <2>2 DEF Keyed
  <2>10. Awaited'
    BY <1>2, <2>2, <2>4, <2>6, Places DEF ReleaseInv, Awaited
  <2>11. AllMarked'
    <3>1. pc[Ev(a)] = "idle"
      BY <2>3, Running, Places DEF Idle
    <3>2. job'[An(a)] = job[An(a)] /\ job'[Ra(a)] = job[Ra(a)] /\ pc'[Ev(a)] = "idle"
      BY <2>4, <2>5, <3>1, Places
    <3>3. ASSUME NEW b \in Attempts, b # a PROVE Marked(b)'
      BY <2>2, <2>4, <2>5, <3>3, Places DEF ReleaseInv, AllMarked, Marked
    <3>4. Marked(a)'
      BY <2>2, <3>2 DEF ReleaseInv, AllMarked, Marked
    <3> QED
      BY <3>3, <3>4 DEF AllMarked
  <2>12. publication # "PUBLISHED" /\ \A b \in Attempts : result[b] # "PUBLISHED"
    BY <2>3 DEF ReleaseInv, Released
  <2>13. Checked' /\ Released'
    BY <1>2, <2>2, <2>5, <2>12, Places DEF Checked, Released
  <2> QED
    BY <2>7, <2>8, <2>9, <2>10, <2>11, <2>13 DEF ReleaseInv
<1>6. CASE LoopDone(w)
  <2>1. /\ pc[w] = "uploadMark" /\ todo[w] = {} /\ Finish(w)
        /\ UNCHANGED <<submission, ended, result, score, key, publication, job, snapshot>>
    BY <1>1, <1>6 DEF LoopDone, rows, queues
  <2>2. /\ pc'[w] = "idle"
        /\ \A v \in Workers : v # w =>
              /\ pc'[v] = pc[v] /\ todo'[v] = todo[v] /\ current'[v] = current[v]
              /\ keyRead'[v] = keyRead[v] /\ readyRead'[v] = readyRead[v]
              /\ pubRead'[v] = pubRead[v]
    BY <1>1, <2>1, Ends
  <2>3. \A v \in Admins, b \in Attempts : ~Holds(v, b) /\ ~Holds(v, b)'
    BY <1>2, <2>1, <2>2, Places DEF Holds
  <2>4. InTurn'
    BY <1>2, <2>2, Places DEF InTurn, LoneSteps, PublishSteps
  <2>5. InLine'
    BY <2>1, <2>2, <2>3, Places DEF ReleaseInv, InLine, InOneQueue
  <2>6. Keyed'
    BY <1>3, <2>1 DEF Keyed
  <2>7. Awaited'
    BY <1>2, <2>1, <2>3 DEF ReleaseInv, Awaited
  <2>8. AllMarked'
    BY <2>1, <2>2, Places DEF ReleaseInv, AllMarked, Marked
  <2>9. Checked'
    BY <1>2, <2>1, <2>2, Places DEF ReleaseInv, Checked
  <2>10. Released'
    BY <2>1, <2>3 DEF ReleaseInv, Released, NoJobs, Idle
  <2> QED
    BY <2>4, <2>5, <2>6, <2>7, <2>8, <2>9, <2>10 DEF ReleaseInv
<1> QED
  BY <1>4, <1>5, <1>6

\* Candidates, viewers, reviewers and the clock
LEMMA CandidatesKeep ==
    ASSUME Orderly, ReleaseInv, TypeOK,
           \/ \E a \in Attempts :
                 SubmitStatus(a) \/ SubmitTail(a) \/ OpenAnalyses(a) \/ ReviewPending(a)
           \/ WindowCloses \/ LockExpires
    PROVE  ReleaseInv'
<1>1. UNCHANGED <<score, key, snapshot, publication, job, pc, todo, current, keyRead, readyRead, pubRead>>
  <2> USE DEF queues, locals
  <2>1. ASSUME NEW a \in Attempts, SubmitTail(a)
        PROVE  UNCHANGED <<score, key, snapshot, publication, job, pc, todo, current, keyRead, readyRead, pubRead>>
    BY <2>1 DEF SubmitTail, Orderly
  <2>2. ASSUME NEW a \in Attempts, SubmitStatus(a) \/ OpenAnalyses(a) \/ ReviewPending(a)
        PROVE  UNCHANGED <<score, key, snapshot, publication, job, pc, todo, current, keyRead, readyRead, pubRead>>
    BY <2>2 DEF SubmitStatus, OpenAnalyses, ReviewPending
  <2>3. CASE WindowCloses \/ LockExpires
    BY <2>3 DEF WindowCloses, LockExpires, rows
  <2> QED
    BY <2>1, <2>2, <2>3
<1>2. \A w \in Admins, a \in Attempts : Holds(w, a)' <=> Holds(w, a)
  BY <1>1 DEF Holds
<1>3. InTurn' /\ InLine'
  BY <1>1, <1>2 DEF ReleaseInv, InTurn, InLine, InOneQueue, NoJobs, Idle
<1>4. CASE UNCHANGED <<submission, result>> /\ (ended => ended')
  <2>1. Keyed' /\ Awaited' /\ AllMarked'
    BY <1>1, <1>2, <1>4 DEF ReleaseInv, Keyed, Awaited, AllMarked, Marked, NoJobs, Idle
  <2>2. Checked' /\ Released'
    BY <1>1, <1>2, <1>4 DEF ReleaseInv, Checked, Released, NoJobs, Idle
  <2> QED
    BY <1>3, <2>1, <2>2 DEF ReleaseInv
<1>5. ASSUME NEW a \in Attempts, SubmitStatus(a) \/ SubmitTail(a) PROVE ReleaseInv'
  <2>1. /\ UNCHANGED ended
        /\ \/ /\ submission[a] = "IN_PROGRESS" /\ ~ended /\ UNCHANGED result
              /\ submission' = [submission EXCEPT ![a] = "FINALISING"]
           \/ /\ submission[a] = "FINALISING" /\ result' = [result EXCEPT ![a] = "PENDING_WINDOW_CLOSE"]
              /\ submission' = [submission EXCEPT ![a] = "SUBMITTED"]
    BY <1>5 DEF SubmitStatus, SubmitTail, SetStatus, Orderly
  <2>2. key = 0 /\ \A w \in Admins : pc[w] # "uploadTx"
    BY <2>1 DEF ReleaseInv, Keyed
  <2>3. \A w \in Admins : pc[w] \in {"publishCheckWrite", "publishTx"} => ~readyRead[w]
    BY <2>2 DEF ReleaseInv, Checked, Keyed
  <2>4. \A b \in Attempts : b # a => result'[b] = result[b]
    BY <2>1 DEF TypeOK, RowTypes
  <2>5. result'[a] \in {result[a], "PENDING_WINDOW_CLOSE"}
    BY <2>1 DEF TypeOK, RowTypes
  <2>6. publication # "PUBLISHED" /\ \A b \in Attempts : result[b] # "PUBLISHED"
    BY <2>2 DEF ReleaseInv, Released, Keyed
  <2>7. Keyed' /\ Awaited'
    BY <1>1, <2>2 DEF ReleaseInv, Keyed, Awaited, NoJobs, Idle
  <2>8. AllMarked'
    BY <1>1, <2>4, <2>5 DEF ReleaseInv, AllMarked, Marked, Deferred
  <2>9. Checked'
    BY <1>1, <2>3, <2>6 DEF ReleaseInv, Checked
  <2>10. Released'
    BY <1>1, <2>4, <2>5, <2>6 DEF Released
  <2> QED
    BY <1>3, <2>7, <2>8, <2>9, <2>10 DEF ReleaseInv
<1>6. ASSUME NEW a \in Attempts, OpenAnalyses(a) \/ ReviewPending(a) PROVE ReleaseInv'
  <2>1. UNCHANGED <<submission, result, ended>>
    BY <1>6 DEF OpenAnalyses, ReviewPending
  <2> QED
    BY <1>4, <2>1
<1>7. CASE WindowCloses \/ LockExpires
  <2>1. UNCHANGED <<submission, result>> /\ (ended => ended')
    BY <1>7 DEF WindowCloses, LockExpires, rows
  <2> QED
    BY <1>4, <2>1
<1> QED
  BY <1>5, <1>6, <1>7

\* The steps that an orderly release has.  The others are of requests that are not
\* made, or failures.
LEMMA OrderlySteps ==
    ASSUME Orderly, ReleaseInv, TypeOK, Next
    PROVE  \/ \E a \in Attempts :
                 SubmitStatus(a) \/ SubmitTail(a) \/ OpenAnalyses(a) \/ ReviewPending(a)
           \/ WindowCloses \/ LockExpires
           \/ \E a \in Attempts : EvaluationStep(a) \/ AnalyticsStep(a) \/ RankingStep(a)
           \/ \E w \in Admins :
                 \/ Dashboard(w) \/ PublishRequest(w) \/ UploadRequest(w)
                 \/ CheckRead(w) \/ CheckWrite(w)
                 \/ PublishLock(w) \/ PublishCheckWrite(w) \/ PublishUnlock(w)
                 \/ PublishTx(w) \/ UploadTx(w) \/ UploadRead(w)
                 \/ UploadMark(w) \/ UploadEnqueue(w) \/ LoopDone(w)
<1>1. ~(failures < MaxFailures)
  BY DEF Orderly, TypeOK, RowTypes
<1>2. \A a \in Attempts : ~StepFails(a) /\ ~HealMock(a)
  BY <1>1 DEF StepFails, EvaluationFails, AnalyticsFails, RankingFails, RankFails, FailJob, HealMock,
              Orderly
<1>3. ASSUME NEW w \in Admins
      PROVE  /\ ~RankFails(w) /\ ~UploadEnqueueFails(w)
             /\ ~AdminRanks(w) /\ ~RetryFailed(w) /\ ~RetryOne(w)
             /\ \A a \in Attempts : ~CalculateRequest(w, a) /\ ~TerminateRequest(w, a)
             /\ ~RankRead(w) /\ ~RankWrite(w) /\ ~RetryMark(w) /\ ~RetryAdd(w)
             /\ ~TerminateRead(w) /\ ~CalculateDone(w)
  <2>1. ~RankFails(w) /\ ~UploadEnqueueFails(w)
    BY <1>1 DEF RankFails, UploadEnqueueFails
  <2>2. /\ ~AdminRanks(w) /\ ~RetryFailed(w) /\ ~RetryOne(w)
        /\ \A a \in Attempts : ~CalculateRequest(w, a) /\ ~TerminateRequest(w, a)
    BY DEF AdminRanks, RetryFailed, RetryOne, CalculateRequest, TerminateRequest, Accept, Orderly
  <2>3. pc[w] \notin {"rankRead", "rankWrite", "retryMark", "retryAdd", "termRead", "calcWrite"}
    BY DEF ReleaseInv, InTurn, LoneSteps, LoopSteps, PublishSteps
  <2> QED
    BY <2>1, <2>2, <2>3 DEF RankRead, RankWrite, RetryMark, MarkNext, RetryAdd, TerminateRead,
                                CalculateDone
<1> QED
  BY <1>2, <1>3 DEF Next, Request, AdminStep

\* At first nothing is submitted, queued or released.
LEMMA ReleaseInitInv == Init => ReleaseInv
<1> SUFFICES ASSUME Init PROVE ReleaseInv
  OBVIOUS
<1>1. \A w \in Workers : pc[w] = "idle"
  BY DEF Init
<1>2. \A j \in Jobs : job[j] = "none"
  BY DEF Init
<1>3. NoJobs /\ \A w \in Admins, a \in Attempts : ~Holds(w, a)
  BY <1>1, <1>2, Places DEF NoJobs, Idle, Holds, LoopSteps
<1>4. InTurn
  BY <1>1, Places DEF InTurn, LoneSteps, PublishSteps
<1>5. InLine
  BY <1>1, <1>2, <1>3, Places DEF InLine, InOneQueue
<1>6. key = 0 /\ snapshot = "NONE" /\ ended = FALSE /\ publication = "NONE"
      /\ \A a \in Attempts : score[a] = 0 /\ result[a] = "NONE"
  BY DEF Init, NoScores
<1>7. Keyed
  BY <1>1, <1>3, <1>6, Places DEF Keyed, LoopSteps
<1>8. Awaited /\ AllMarked
  BY <1>1, <1>2, <1>6, Places DEF Awaited, AllMarked, Marked
<1>9. Checked /\ Released
  BY <1>1, <1>6, Places DEF Checked, Released
<1> QED
  BY <1>4, <1>5, <1>7, <1>8, <1>9 DEF ReleaseInv

\* Every step of an orderly pipeline keeps the release invariant.
LEMMA ReleaseNextInv ==
    ASSUME Orderly
    PROVE  TypeOK /\ ReleaseInv /\ [Next]_vars => ReleaseInv'
<1> SUFFICES ASSUME TypeOK, ReleaseInv, [Next]_vars PROVE ReleaseInv'
  OBVIOUS
<1>1. CASE Next
  BY <1>1, OrderlySteps, CandidatesKeep, EvaluationKeeps, AnalyticsKeeps, RankingKeeps, LooksKeep,
     PublishKeeps, UploadBegins, LoopKeeps
<1>2. CASE UNCHANGED vars
  <2> USE <1>2 DEF vars, rows, queues, locals
  <2>1. InTurn' /\ InLine' /\ Keyed'
    BY DEF ReleaseInv, InTurn, InLine, InOneQueue, Keyed, NoJobs, Idle, Holds
  <2>2. Awaited' /\ AllMarked' /\ Checked' /\ Released'
    BY DEF ReleaseInv, Awaited, AllMarked, Marked, Checked, Released, NoJobs, Idle, Holds
  <2> QED
    BY <2>1, <2>2 DEF ReleaseInv
<1> QED
  BY <1>1, <1>2

\* In an orderly pipeline the release invariant holds in every state.
LEMMA ReleaseInvariant == ASSUME Orderly PROVE Spec => [](TypeOK /\ ReleaseInv)
BY ReleaseInitInv, ReleaseNextInv, TypeCorrect, PTL DEF Spec

\* result.service publishExamResults(): if the administrators act in order and no job
\* fails, the publication of a live exam releases the results of all attempts, and
\* each of them has been evaluated.
THEOREM PublicationsAreComplete ==
    ASSUME Orderly
    PROVE  Spec => []PublishedComplete
<1>1. TypeOK /\ ReleaseInv => PublishedComplete
  <2> SUFFICES ASSUME TypeOK, ReleaseInv, publication = "PUBLISHED", NEW a \in Attempts
               PROVE  result[a] = "PUBLISHED" /\ score[a] > 0
    BY DEF PublishedComplete, PublishedTogether, EvaluatedWhenPublished
  <2>1. score[a] \in Nat
    BY Constants DEF TypeOK, RowTypes
  <2> QED
    BY <2>1 DEF ReleaseInv, Released
<1> QED
  BY <1>1, ReleaseInvariant, PTL

\* result.service: a publication is taken back by the upload of another answer key and
\* by nothing else, however late a check of the readiness writes.
THEOREM PublicationsAreStable ==
    ASSUME Orderly
    PROVE  Spec => PublicationStable
<1>1. TypeOK /\ ReleaseInv /\ [Next]_vars
          => [publication = "PUBLISHED" /\ key' = key => publication' = "PUBLISHED"]_vars
  <2> SUFFICES ASSUME TypeOK, ReleaseInv, Next, publication = "PUBLISHED", key' = key
               PROVE  publication' = "PUBLISHED"
    OBVIOUS
  <2>1. NoJobs
    BY DEF ReleaseInv, Released
  <2>2. \A a \in Attempts : ~EvaluationStep(a) /\ ~AnalyticsStep(a) /\ ~RankingStep(a)
    <3> SUFFICES ASSUME NEW a \in Attempts
                 PROVE  ~EvaluationStep(a) /\ ~AnalyticsStep(a) /\ ~RankingStep(a)
      OBVIOUS
    <3>1. /\ job[Ev(a)] = "none" /\ job[An(a)] = "none" /\ job[Ra(a)] = "none"
          /\ pc[Ev(a)] = "idle" /\ pc[An(a)] = "idle" /\ pc[Ra(a)] = "idle"
      BY <2>1, Running, Places DEF NoJobs, Idle
    <3>2. ~EvaluationStep(a)
      BY <3>1 DEF Ev, EvaluationStep, EvaluationRead, EvaluationWrite, EvaluationMark,
                  EvaluationEnqueue, Take
    <3>3. ~AnalyticsStep(a)
      BY <3>1 DEF An, AnalyticsStep, AnalyticsStart, AnalyticsGenerate, AnalyticsEnqueue, Take
    <3>4. ~RankingStep(a)
      BY <3>1 DEF Ra, RankingStep, RankingStart, RankRead, RankWrite, WorkflowRead, WorkflowUpdate,
                  CheckRead, CheckWrite, Take
    <3> QED
      BY <3>2, <3>3, <3>4
  <2>3. CASE \/ \E a \in Attempts :
                   SubmitStatus(a) \/ SubmitTail(a) \/ OpenAnalyses(a) \/ ReviewPending(a)
             \/ WindowCloses \/ LockExpires
    BY <2>3 DEF SubmitStatus, SubmitTail, OpenAnalyses, ReviewPending, WindowCloses, LockExpires, rows
  <2>4. ASSUME NEW w \in Admins, CheckWrite(w) \/ PublishCheckWrite(w)
        PROVE  publication' = "PUBLISHED"
    <3>1. pubRead[w] = "PUBLISHED"
      BY <2>4, Places DEF CheckWrite, PublishCheckWrite, ReleaseInv, Checked
    <3> QED
      BY <2>4, <3>1 DEF CheckWrite, PublishCheckWrite, UpdatePublication
  <2>5. ASSUME NEW w \in Admins, UploadTx(w) PROVE publication' = "PUBLISHED"
    <3>1. key \in Nat /\ key' = key + 1
      BY <2>5, Constants DEF UploadTx, TypeOK, RowTypes
    <3> QED
      BY <3>1
  <2>6. ASSUME NEW w \in Admins,
               \/ Dashboard(w) \/ PublishRequest(w) \/ UploadRequest(w) \/ CheckRead(w)
               \/ PublishLock(w) \/ PublishUnlock(w) \/ UploadRead(w) \/ UploadMark(w)
               \/ UploadEnqueue(w) \/ LoopDone(w)
        PROVE  publication' = publication
    BY <2>6 DEF Dashboard, PublishRequest, UploadRequest, CheckRead, PublishLock, PublishUnlock,
                UploadRead, UploadMark, MarkNext, UploadEnqueue, LoopDone, rows
  <2>7. ASSUME NEW w \in Admins, PublishTx(w) PROVE publication' = "PUBLISHED"
    BY <2>7 DEF PublishTx
  <2> QED
    BY <2>2, <2>3, <2>4, <2>5, <2>6, <2>7, OrderlySteps
<1> QED
  BY <1>1, ReleaseInvariant, PTL DEF PublicationStable, Spec

-----------------------------------------------------------------------------
(* The refinement of the promise made to the candidates *)

\* The candidates who see their result
Visible == {a \in Attempts : result[a] = "PUBLISHED"}

\* Steps that neither mark an attempt nor release results: the promise stutters.
LEMMA OthersHide ==
    ASSUME Orderly, ReleaseInv, TypeOK,
           \/ \E a \in Attempts :
                 SubmitStatus(a) \/ SubmitTail(a) \/ OpenAnalyses(a) \/ ReviewPending(a)
           \/ WindowCloses \/ LockExpires
           \/ \E w \in Admins :
                 \/ Dashboard(w) \/ PublishRequest(w) \/ UploadRequest(w)
                 \/ CheckRead(w) \/ CheckWrite(w)
                 \/ PublishLock(w) \/ PublishCheckWrite(w) \/ PublishUnlock(w)
                 \/ UploadTx(w) \/ UploadRead(w)
                 \/ UploadMark(w) \/ UploadEnqueue(w) \/ LoopDone(w)
    PROVE  UNCHANGED <<score, Visible>>
<1>1. CASE UNCHANGED <<score, result>>
  BY <1>1 DEF Visible
<1>2. ASSUME NEW a \in Attempts, SubmitTail(a) PROVE UNCHANGED <<score, Visible>>
  <2>1. /\ submission[a] = "FINALISING" /\ UNCHANGED score
        /\ result' = [result EXCEPT ![a] = "PENDING_WINDOW_CLOSE"]
    BY <1>2 DEF SubmitTail, SetStatus, Orderly
  <2>2. \A b \in Attempts : result[b] # "PUBLISHED"
    BY <2>1 DEF ReleaseInv, Released
  <2>3. \A b \in Attempts : result'[b] \in {result[b], "PENDING_WINDOW_CLOSE"}
    BY <2>1 DEF TypeOK, RowTypes
  <2> QED
    BY <2>1, <2>2, <2>3 DEF Visible
<1>3. ASSUME NEW w \in Admins, UploadMark(w) PROVE UNCHANGED <<score, Visible>>
  <2>1. PICK a \in todo[w] :
           /\ pc[w] = "uploadMark" /\ result' = [result EXCEPT ![a] = "PROCESSING"] /\ UNCHANGED score
    BY <1>3 DEF UploadMark, MarkNext, SetStatus
  <2>2. a \in Attempts /\ Holds(w, a)
    BY <2>1, Places DEF Holds, LoopSteps, TypeOK, LocalTypes
  <2>3. \A b \in Attempts : result[b] # "PUBLISHED"
    BY <2>2 DEF ReleaseInv, Released
  <2>4. \A b \in Attempts : result'[b] \in {result[b], "PROCESSING"}
    BY <2>1 DEF TypeOK, RowTypes
  <2> QED
    BY <2>1, <2>3, <2>4 DEF Visible
<1>4. ASSUME NEW w \in Admins,
             \/ Dashboard(w) \/ PublishRequest(w) \/ UploadRequest(w)
             \/ CheckRead(w) \/ CheckWrite(w)
             \/ PublishLock(w) \/ PublishCheckWrite(w) \/ PublishUnlock(w)
             \/ UploadTx(w) \/ UploadRead(w) \/ UploadEnqueue(w) \/ LoopDone(w)
      PROVE  UNCHANGED <<score, result>>
  BY <1>4 DEF Dashboard, PublishRequest, UploadRequest, CheckRead, CheckWrite, PublishLock,
              PublishCheckWrite, PublishUnlock, UploadTx, UploadRead, UploadEnqueue, LoopDone, rows
<1>5. ASSUME NEW a \in Attempts, SubmitStatus(a) \/ OpenAnalyses(a) \/ ReviewPending(a)
      PROVE  UNCHANGED <<score, result>>
  BY <1>5 DEF SubmitStatus, OpenAnalyses, ReviewPending
<1>6. CASE WindowCloses \/ LockExpires
  BY <1>1, <1>6 DEF WindowCloses, LockExpires, rows
<1> QED
  BY <1>1, <1>2, <1>3, <1>4, <1>5, <1>6

\* A job marks its attempt, or changes only what its candidate does not see.
LEMMA JobsMark ==
    ASSUME Orderly, ReleaseInv, TypeOK, NEW a \in Attempts,
           EvaluationStep(a) \/ AnalyticsStep(a) \/ RankingStep(a)
    PROVE  Candidates!Mark(a) \/ UNCHANGED <<score, Visible>>
<1>1. ~Idle(a)
  <2>1. CASE EvaluationStep(a)
    <3>1. pc[Ev(a)] # "idle" \/ job[Ev(a)] = "waiting"
      BY <2>1 DEF Ev, EvaluationStep, EvaluationRead, EvaluationWrite, EvaluationMark,
                  EvaluationEnqueue, Take
    <3> QED
      BY <3>1, Running, Places DEF Idle
  <2>2. CASE AnalyticsStep(a)
    <3>1. pc[An(a)] # "idle" \/ job[An(a)] = "waiting"
      BY <2>2 DEF An, AnalyticsStep, AnalyticsStart, AnalyticsGenerate, AnalyticsEnqueue, Take
    <3> QED
      BY <3>1, Running, Places DEF Idle
  <2>3. CASE RankingStep(a)
    <3>1. pc[Ra(a)] # "idle" \/ job[Ra(a)] = "waiting"
      BY <2>3 DEF Ra, RankingStep, RankingStart, RankRead, RankWrite, WorkflowRead, WorkflowUpdate,
                  CheckRead, CheckWrite, Take
    <3> QED
      BY <3>1, Running, Places DEF Idle
  <2> QED
    BY <2>1, <2>2, <2>3
<1>2. \A b \in Attempts : result[b] # "PUBLISHED"
  BY <1>1, AtWork
<1>3. pc[Ra(a)] # "publishMock"
  BY DEF ReleaseInv, InLine, InOneQueue, RankSteps
<1>4. \A b \in Attempts : result'[b] # "PUBLISHED"
  <2>1. \/ result' = result
        \/ \E s \in {"NONE", "EVALUATED", "ANALYTICS_PROCESSING", "RANKING_PROCESSING",
                     "READY_TO_PUBLISH"} : result' = [result EXCEPT ![a] = s]
    <3>1. CASE EvaluationStep(a)
      BY <3>1 DEF EvaluationStep, EvaluationRead, EvaluationWrite, EvaluationMark, EvaluationEnqueue,
                  CalculateWrite, SetStatus, rows
    <3>2. CASE AnalyticsStep(a)
      BY <3>2 DEF AnalyticsStep, AnalyticsStart, AnalyticsGenerate, AnalyticsEnqueue, UpdateStatus,
                  SetStatus, rows
    <3>3. CASE RankingStep(a)
      BY <1>3, <3>3 DEF Ra, RankingStep, RankingStart, RankRead, RankWrite, WorkflowRead,
                        WorkflowUpdate, CheckRead, CheckWrite, SetStatus, rows
    <3> QED
      BY <3>1, <3>2, <3>3
  <2> QED
    BY <1>2, <2>1 DEF TypeOK, RowTypes
<1>5. Visible = {} /\ Visible' = {}
  BY <1>2, <1>4 DEF Visible
<1>6. CASE UNCHANGED score
  BY <1>5, <1>6
<1>7. CASE EvaluationWrite(a) /\ keyRead[Ev(a)] # 0
  <2>1. pc[Ev(a)] = "evalWrite" /\ score' = [score EXCEPT ![a] = keyRead[Ev(a)]]
    BY <1>7 DEF EvaluationWrite, CalculateWrite, Ev
  <2>2. score[a] = 0 /\ keyRead[Ev(a)] # 1
    BY <1>7, <2>1 DEF ReleaseInv, AllMarked, Marked
  <2>3. keyRead[Ev(a)] \in 2 .. MaxKeys + 1
    <3>1. keyRead[Ev(a)] \in 0 .. MaxKeys + 1
      BY Places DEF TypeOK, LocalTypes, Scores
    <3> QED
      BY <1>7, <2>2, <3>1, Constants
  <2>4. {b \in Attempts : result[b] = "PUBLISHED"} = {} /\ {b \in Attempts : result'[b] = "PUBLISHED"} = {}
    BY <1>2, <1>4
  <2> QED
    BY <2>1, <2>2, <2>3, <2>4 DEF Candidates!Mark
<1> QED
  BY <1>6, <1>7 DEF EvaluationStep, AnalyticsStep, RankingStep, EvaluationRead, EvaluationWrite,
                    EvaluationMark, EvaluationEnqueue, CalculateWrite, Ev, AnalyticsStart,
                    AnalyticsGenerate, AnalyticsEnqueue, RankingStart, RankRead, RankWrite,
                    WorkflowRead, WorkflowUpdate, CheckRead, CheckWrite, rows

\* The publication is the release, or finds it made.
LEMMA PublicationReleases ==
    ASSUME ReleaseInv, TypeOK, NEW w \in Admins, PublishTx(w)
    PROVE  Candidates!Release \/ UNCHANGED <<score, Visible>>
<1>1. \A a \in Attempts : result'[a] = "PUBLISHED" /\ score[a] # 0
  BY PublishKeeps
<1>2. UNCHANGED score
  BY DEF PublishTx
<1>3. CASE \E a \in Attempts : result[a] = "PUBLISHED"
  <2>1. \A a \in Attempts : result[a] = "PUBLISHED"
    BY <1>3 DEF ReleaseInv, Released
  <2> QED
    BY <1>1, <1>2, <2>1 DEF Visible
<1>4. CASE \A a \in Attempts : result[a] # "PUBLISHED"
  <2>1. /\ {a \in Attempts : result[a] = "PUBLISHED"} = {}
        /\ {a \in Attempts : result'[a] = "PUBLISHED"} = Attempts
    BY <1>1, <1>4
  <2> QED
    BY <1>1, <1>2, <2>1 DEF Candidates!Release
<1> QED
  BY <1>3, <1>4

\* The pipeline of a live exam implements what its candidates are promised
\* (ResultRelease): every attempt is marked once and with a key, all results are
\* released in one step, and no mark changes and no result is hidden afterwards.
THEOREM ImplementsRelease ==
    ASSUME Orderly
    PROVE  Spec => ReleaseSpec
<1>1. Init => Candidates!Init
  BY DEF Init, Candidates!Init, NoScores
<1>2. TypeOK /\ ReleaseInv /\ [Next]_vars => [Candidates!Next]_Candidates!vars
  <2> SUFFICES ASSUME TypeOK, ReleaseInv, [Next]_vars
               PROVE  Candidates!Next \/ UNCHANGED <<score, Visible>>
    BY DEF Candidates!vars, Visible
  <2>1. CASE UNCHANGED vars
    BY <2>1 DEF vars, rows, Visible
  <2>2. CASE Next
    BY <2>2, OrderlySteps, OthersHide, JobsMark, PublicationReleases DEF Candidates!Next
  <2> QED
    BY <2>1, <2>2
<1> QED
  BY <1>1, <1>2, ReleaseInvariant, PTL DEF Spec, ReleaseSpec, Candidates!Spec

-----------------------------------------------------------------------------
(* No result is left behind in the middle of the pipeline *)

\* What is asked of the administrators and of Redis: they wait for the queues, every
\* job that an upload adds is accepted, no attempt is terminated, and of a live exam no
\* single result is calculated by hand.  Handlers and jobs may fail, and be retried, at
\* any time.
Attended ==
    /\ Quiet /\ {"queueDown", "terminate"} \cap Operations = {}
    /\ Live => "calculate" \notin Operations

Stalled == {"PROCESSING", "EVALUATED", "ANALYTICS_PROCESSING", "RANKING_PROCESSING"}
Resting(j) == job[j] \in {"none", "failed"}
AtRest(a) == Resting(Ev(a)) /\ Resting(An(a)) /\ Resting(Ra(a))

\* An attempt is treated by one job at a time, leaves the last one with its result
\* settled, and is not evaluated without a job that says so.
Sound(a) ==
    /\ Resting(Ev(a)) \/ (Resting(An(a)) /\ Resting(Ra(a)))
    /\ Resting(An(a)) \/ Resting(Ra(a))
    /\ pc[Ra(a)] # "publishCheck"
    /\ pc[Ra(a)] \in {"check", "checkWrite"} => result[a] \notin Stalled
    /\ pc[Ev(a)] \in {"evalMark", "evalEnqueue"} => score[a] # 0
    /\ pc[Ev(a)] = "evalWrite" /\ keyRead[Ev(a)] = 0 => score[a] # 0
    /\ ~Live /\ submission[a] # "SUBMITTED" => Idle(a) /\ result[a] = "NONE"
    /\ ~Live /\ submission[a] = "SUBMITTED" /\ score[a] = 0 => job[Ev(a)] # "none"

Loops == {"uploadMark", "uploadEnqueue", "retryMark", "retryAdd"}
HandOvers == {"uploadEnqueue", "retryAdd", "calcWrite"}

\* A request that has an attempt, or will take it, is the only one to treat it.
Treats(w, a) ==
    \/ pc[w] \in Loops /\ a \in todo[w]
    \/ pc[w] \in HandOvers /\ current[w] = a
Careful(w) ==
    /\ \A a \in Attempts : Treats(w, a) => AtRest(a) /\ (~Live => submission[a] = "SUBMITTED")
    /\ pc[w] \in {"uploadEnqueue", "retryAdd"} => current[w] \notin todo[w]
    /\ pc[w] \in {"uploadTx", "uploadRead"} => Live /\ \A a \in Attempts : AtRest(a)
    /\ pc[w] = "calcWrite" => ~Live /\ job[Ev(current[w])] = "failed"
    /\ pc[w] # "termRead"
OneRequest == \A w, v \in Admins : pc[w] # "idle" /\ pc[v] # "idle" => w = v

Accounted(a) == ~Idle(a) \/ \E w \in Admins : pc[w] \in HandOvers /\ current[w] = a

StallInv ==
    /\ \A a \in Attempts : Sound(a)
    /\ \A w \in Admins : Careful(w)
    /\ OneRequest
    /\ \A a \in Attempts : result[a] \in Stalled => Accounted(a)

\* What the processor of a job has to keep
LEMMA JobSettles ==
    ASSUME StallInv, TypeOK, NEW a \in Attempts, ~AtRest(a), UNCHANGED submission,
           \A w \in Admins : pc'[w] = pc[w] /\ todo'[w] = todo[w] /\ current'[w] = current[w],
           \A b \in Attempts : b # a => Stays(b),
           Sound(a)', result'[a] \in Stalled => ~Idle(a)'
    PROVE  StallInv'
<1>1. \A w \in Admins : ~Treats(w, a) /\ pc[w] \notin {"uploadTx", "uploadRead"}
  BY DEF StallInv, Careful
<1>2. \A w \in Admins, b \in Attempts : Treats(w, b)' <=> Treats(w, b)
  BY DEF Treats
<1>3. \A b \in Attempts : b # a => (AtRest(b)' <=> AtRest(b)) /\ (Idle(b)' <=> Idle(b))
  BY DEF AtRest, Resting, Idle, Stays
<1>4. ASSUME NEW b \in Attempts PROVE Sound(b)'
  BY <1>3 DEF StallInv, Sound, Stays, Resting
<1>5. ASSUME NEW w \in Admins PROVE Careful(w)'
  <2>1. \A b \in Attempts : Treats(w, b)' => AtRest(b)' /\ (~Live => submission'[b] = "SUBMITTED")
    BY <1>1, <1>2, <1>3 DEF StallInv, Careful
  <2>2. pc[w] = "calcWrite" => ~Live /\ job'[Ev(current[w])] = "failed"
    <3>1. SUFFICES ASSUME pc[w] = "calcWrite" PROVE ~Live /\ job'[Ev(current[w])] = "failed"
      OBVIOUS
    <3>2. ~Live /\ job[Ev(current[w])] = "failed"
      BY <3>1 DEF StallInv, Careful
    <3>3. current[w] # a
      BY <1>1, <3>1 DEF Treats, HandOvers
    <3>4. current[w] \in Attempts
      BY <3>1, Places DEF TypeOK, JobsRun
    <3> QED
      BY <3>2, <3>3, <3>4 DEF Stays
  <2> QED
    BY <1>1, <2>1, <2>2 DEF StallInv, Careful
<1>6. OneRequest'
  BY DEF StallInv, OneRequest
<1>7. ASSUME NEW b \in Attempts, result'[b] \in Stalled PROVE Accounted(b)'
  BY <1>3, <1>7 DEF StallInv, Accounted, Stays
<1> QED
  BY <1>4, <1>5, <1>6, <1>7 DEF StallInv

\* A job that runs, or is about to, is the only one of its attempt, and the attempt
\* has been submitted.
LEMMA JobAlone ==
    ASSUME StallInv, TypeOK, NEW a \in Attempts, NEW j \in {Ev(a), An(a), Ra(a)},
           pc[j] # "idle" \/ job[j] = "waiting"
    PROVE  /\ ~Resting(j) /\ ~AtRest(a)
           /\ \A i \in {Ev(a), An(a), Ra(a)} : i # j => Resting(i) /\ pc[i] = "idle"
           /\ ~Live => submission[a] = "SUBMITTED"
<1>1. \A i \in {Ev(a), An(a), Ra(a)} :
          i \in Jobs /\ job[i] \in JobStates /\ (job[i] = "active" <=> pc[i] # "idle")
  BY Running, Places
<1>2. ~Resting(j)
  BY <1>1 DEF Resting, JobStates
<1>3. \A i \in {Ev(a), An(a), Ra(a)} : i # j => Resting(i)
  BY <1>2, Places DEF StallInv, Sound
<1>4. ~Live => submission[a] = "SUBMITTED"
  BY <1>2 DEF StallInv, Sound, Idle, Resting
<1> QED
  BY <1>1, <1>2, <1>3, <1>4 DEF AtRest, Resting

\* The evaluation of an attempt
LEMMA EvaluationSettles ==
    ASSUME StallInv, TypeOK, NEW a \in Attempts, EvaluationStep(a)
    PROVE  StallInv'
<1>1. CASE EvaluationRead(a)
  <2>1. /\ job[Ev(a)] = "waiting" /\ job' = [job EXCEPT ![Ev(a)] = "active"]
        /\ keyRead' = [keyRead EXCEPT ![Ev(a)] = IF score[a] > 0 THEN 0 ELSE key + 1]
        /\ pc' = [pc EXCEPT ![Ev(a)] = "evalWrite"]
        /\ UNCHANGED <<submission, result, score, todo, current>>
    BY <1>1 DEF EvaluationRead, Take, CalculateRead, Ev, rows
  <2>2. /\ ~AtRest(a) /\ Resting(An(a)) /\ Resting(Ra(a)) /\ pc[Ra(a)] = "idle"
        /\ ~Live => submission[a] = "SUBMITTED"
    BY <2>1, JobAlone, Places
  <2>3. /\ job'[Ev(a)] = "active" /\ pc'[Ev(a)] = "evalWrite"
        /\ keyRead'[Ev(a)] = IF score[a] > 0 THEN 0 ELSE key + 1
        /\ \A j \in Jobs : j # Ev(a) => job'[j] = job[j]
        /\ \A w \in Workers : w # Ev(a) => pc'[w] = pc[w] /\ keyRead'[w] = keyRead[w]
    BY <2>1, Places DEF TypeOK, JobsRun, LocalTypes
  <2>4. score[a] \in Nat /\ key \in Nat
    BY Constants DEF TypeOK, RowTypes
  <2>5. \A b \in Attempts : b # a => Stays(b)
    BY <2>1, <2>3, Places DEF Stays
  <2>6. Sound(a)'
    BY <2>1, <2>2, <2>3, <2>4, Places DEF Sound, Resting
  <2> QED
    BY <2>1, <2>2, <2>3, <2>5, <2>6, Places, JobSettles DEF Idle
<1>2. CASE EvaluationWrite(a) \/ EvaluationMark(a)
  <2>1. /\ UNCHANGED <<submission, job, todo, current, keyRead>>
        /\ \/ /\ pc[Ev(a)] = "evalWrite" /\ pc' = [pc EXCEPT ![Ev(a)] = "evalMark"]
              /\ \/ keyRead[Ev(a)] = 0 /\ UNCHANGED <<score, result>>
                 \/ /\ keyRead[Ev(a)] > 0 /\ score' = [score EXCEPT ![a] = keyRead[Ev(a)]]
                    /\ result' = [result EXCEPT ![a] = "EVALUATED"]
           \/ /\ pc[Ev(a)] = "evalMark" /\ pc' = [pc EXCEPT ![Ev(a)] = "evalEnqueue"]
              /\ UNCHANGED score /\ result' = [result EXCEPT ![a] = "EVALUATED"]
    BY <1>2 DEF EvaluationWrite, EvaluationMark, CalculateWrite, SetStatus, Goto, Ev, queues, locals
  <2>2. /\ ~AtRest(a) /\ Resting(An(a)) /\ Resting(Ra(a)) /\ pc[Ra(a)] = "idle"
        /\ job[Ev(a)] = "active"
        /\ ~Live => submission[a] = "SUBMITTED"
    BY <2>1, JobAlone, Running, Places
  <2>3. /\ pc'[Ev(a)] \in {"evalMark", "evalEnqueue"}
        /\ \A w \in Workers : w # Ev(a) => pc'[w] = pc[w]
    BY <2>1, Places DEF TypeOK, JobsRun
  <2>4. /\ score'[a] # 0 /\ \A b \in Attempts : b # a => score'[b] = score[b]
        /\ \A b \in Attempts : b # a => result'[b] = result[b]
    BY <2>1, Constants, Places DEF StallInv, Sound, TypeOK, RowTypes
  <2>5. \A b \in Attempts : b # a => Stays(b)
    BY <2>1, <2>3, <2>4, Places DEF Stays
  <2>6. Sound(a)'
    BY <2>1, <2>2, <2>3, <2>4, Places DEF Sound, Resting
  <2> QED
    BY <2>1, <2>2, <2>3, <2>5, <2>6, Places, JobSettles DEF Idle
<1>3. CASE EvaluationEnqueue(a)
  <2>1. /\ pc[Ev(a)] = "evalEnqueue" /\ CompleteJob(Ev(a), {An(a)}) /\ Finish(Ev(a))
        /\ UNCHANGED <<submission, score, result>>
    BY <1>3 DEF EvaluationEnqueue, Ev, An, rows
  <2>2. /\ ~AtRest(a) /\ Resting(An(a)) /\ Resting(Ra(a)) /\ pc[Ra(a)] = "idle"
        /\ ~Live => submission[a] = "SUBMITTED"
    BY <2>1, JobAlone, Places
  <2>3. /\ job'[Ev(a)] = "none" /\ job'[An(a)] # "none" /\ job'[Ra(a)] = job[Ra(a)]
        /\ \A j \in Jobs : j # Ev(a) /\ j # An(a) => job'[j] = job[j]
    BY <2>1, Completes, Places
  <2>4. /\ pc'[Ev(a)] = "idle"
        /\ \A v \in Workers : v # Ev(a) =>
              /\ pc'[v] = pc[v] /\ todo'[v] = todo[v] /\ current'[v] = current[v]
              /\ keyRead'[v] = keyRead[v]
    BY <2>1, Ends, Places
  <2>5. \A b \in Attempts : b # a => Stays(b)
    BY <2>1, <2>3, <2>4, Places DEF Stays
  <2>6. score[a] # 0
    BY <2>1 DEF StallInv, Sound
  <2>7. Sound(a)'
    BY <2>1, <2>2, <2>3, <2>4, <2>6, Places DEF Sound, Resting
  <2> QED
    BY <2>1, <2>2, <2>3, <2>4, <2>5, <2>7, Places, JobSettles DEF Idle
<1> QED
  BY <1>1, <1>2, <1>3 DEF EvaluationStep

\* The analysis of an attempt
LEMMA AnalyticsSettles ==
    ASSUME StallInv, TypeOK, NEW a \in Attempts, AnalyticsStep(a)
    PROVE  StallInv'
<1>1. CASE AnalyticsStart(a) \/ AnalyticsGenerate(a)
  <2>1. /\ UNCHANGED <<submission, score, todo, current, keyRead>>
        /\ \/ /\ job[An(a)] = "waiting" /\ job' = [job EXCEPT ![An(a)] = "active"]
              /\ pc' = [pc EXCEPT ![An(a)] = "anaGenerate"]
           \/ /\ pc[An(a)] = "anaGenerate" /\ UNCHANGED job
              /\ pc' = [pc EXCEPT ![An(a)] = "anaEnqueue"]
        /\ \E s \in ResultStatuses : result' = [result EXCEPT ![a] = s]
    BY <1>1 DEF AnalyticsStart, AnalyticsGenerate, Take, UpdateStatus, SetStatus, Goto, An, queues,
                locals, ResultStatuses
  <2>2. /\ ~AtRest(a) /\ Resting(Ev(a)) /\ Resting(Ra(a)) /\ pc[Ra(a)] = "idle" /\ pc[Ev(a)] = "idle"
        /\ ~Live => submission[a] = "SUBMITTED"
    BY <2>1, JobAlone, Places
  <2>3. /\ job'[An(a)] = "active"
        /\ \A j \in Jobs : j # An(a) => job'[j] = job[j]
        /\ \A w \in Workers : w # An(a) => pc'[w] = pc[w]
    BY <2>1, Running, Places DEF TypeOK, JobsRun
  <2>4. \A b \in Attempts : b # a => result'[b] = result[b]
    BY <2>1 DEF TypeOK, RowTypes
  <2>5. \A b \in Attempts : b # a => Stays(b)
    BY <2>1, <2>3, <2>4, Places DEF Stays
  <2>6. Sound(a)'
    BY <2>1, <2>2, <2>3, Places DEF StallInv, Sound, Resting
  <2> QED
    BY <2>1, <2>2, <2>3, <2>5, <2>6, Places, JobSettles DEF Idle
<1>2. CASE AnalyticsEnqueue(a)
  <2>1. /\ pc[An(a)] = "anaEnqueue" /\ CompleteJob(An(a), {Ra(a)}) /\ Finish(An(a))
        /\ UNCHANGED <<submission, score, result>>
    BY <1>2 DEF AnalyticsEnqueue, An, Ra, rows
  <2>2. /\ ~AtRest(a) /\ Resting(Ev(a)) /\ Resting(Ra(a)) /\ pc[Ra(a)] = "idle" /\ pc[Ev(a)] = "idle"
        /\ ~Live => submission[a] = "SUBMITTED"
    BY <2>1, JobAlone, Places
  <2>3. /\ job'[Ev(a)] = job[Ev(a)] /\ job'[An(a)] = "none" /\ job'[Ra(a)] # "none"
        /\ \A j \in Jobs : j # An(a) /\ j # Ra(a) => job'[j] = job[j]
    BY <2>1, Completes, Places
  <2>4. /\ pc'[An(a)] = "idle"
        /\ \A v \in Workers : v # An(a) =>
              /\ pc'[v] = pc[v] /\ todo'[v] = todo[v] /\ current'[v] = current[v]
              /\ keyRead'[v] = keyRead[v]
    BY <2>1, Ends, Places
  <2>5. \A b \in Attempts : b # a => Stays(b)
    BY <2>1, <2>3, <2>4, Places DEF Stays
  <2>6. Sound(a)'
    BY <2>1, <2>2, <2>3, <2>4, Places DEF StallInv, Sound, Resting
  <2> QED
    BY <2>1, <2>2, <2>3, <2>4, <2>5, <2>6, Places, JobSettles DEF Idle
<1> QED
  BY <1>1, <1>2 DEF AnalyticsStep

\* The ranking job of an attempt
LEMMA RankingSettles ==
    ASSUME StallInv, TypeOK, NEW a \in Attempts, RankingStep(a) \/ RankFails(Ra(a))
    PROVE  StallInv'
<1>1. CASE RankingStart(a)
  <2>1. /\ job[Ra(a)] = "waiting" /\ job' = [job EXCEPT ![Ra(a)] = "active"]
        /\ pc' = [pc EXCEPT ![Ra(a)] = "rankRead"]
        /\ UNCHANGED <<submission, result, score, todo, current, keyRead>>
    BY <1>1 DEF RankingStart, Take, Goto, Ra, locals
  <2>2. /\ ~AtRest(a) /\ Resting(Ev(a)) /\ Resting(An(a)) /\ pc[Ev(a)] = "idle"
        /\ ~Live => submission[a] = "SUBMITTED"
    BY <2>1, JobAlone, Places
  <2>3. /\ job'[Ra(a)] = "active" /\ pc'[Ra(a)] = "rankRead"
        /\ \A j \in Jobs : j # Ra(a) => job'[j] = job[j]
        /\ \A w \in Workers : w # Ra(a) => pc'[w] = pc[w]
    BY <2>1, Places DEF TypeOK, JobsRun
  <2>4. \A b \in Attempts : b # a => Stays(b)
    BY <2>1, <2>3, Places DEF Stays
  <2>5. Sound(a)'
    BY <2>1, <2>2, <2>3, Places DEF StallInv, Sound, Resting
  <2> QED
    BY <2>1, <2>2, <2>3, <2>4, <2>5, Places, JobSettles DEF Idle
<1>2. CASE \/ RankRead(Ra(a)) \/ RankWrite(Ra(a)) \/ RankFails(Ra(a))
           \/ WorkflowRead(a) \/ WorkflowUpdate(a) \/ CheckRead(Ra(a))
  <2>1. /\ UNCHANGED <<submission, score, job, todo, current, keyRead>>
        /\ pc[Ra(a)] # "idle"
        /\ \E s \in {"rankWrite", "workflow", "publishMock", "markReady", "check", "checkWrite"} :
              /\ pc' = [pc EXCEPT ![Ra(a)] = s]
              /\ s \in {"check", "checkWrite"} =>
                    \/ result' = result /\ result[a] \notin Stalled
                    \/ result' = [result EXCEPT ![a] = "READY_TO_PUBLISH"]
                    \/ result' = [result EXCEPT ![a] = "PUBLISHED"]
              /\ s \notin {"check", "checkWrite"} => result' = result
    <3>1. pc[Ra(a)] # "publishCheck" /\ (pc[Ra(a)] \in {"check", "checkWrite"} => result[a] \notin Stalled)
      BY DEF StallInv, Sound
    <3>2. Ra(a) \notin Admins
      BY Places
    <3>3. CASE RankRead(Ra(a)) \/ RankWrite(Ra(a)) \/ RankFails(Ra(a))
      BY <3>2, <3>3 DEF RankRead, RankWrite, RankFails, RanksDone, RankSteps, rows, queues
    <3>4. CASE WorkflowRead(a)
      BY <3>4 DEF WorkflowRead, Goto, Ra, rows, queues, locals, Stalled
    <3>5. CASE WorkflowUpdate(a)
      BY <3>5 DEF WorkflowUpdate, Goto, SetStatus, Ra, queues, locals
    <3>6. CASE CheckRead(Ra(a))
      BY <3>1, <3>6 DEF CheckRead, rows, queues
    <3> QED
      BY <1>2, <3>3, <3>4, <3>5, <3>6
  <2>2. /\ ~AtRest(a) /\ Resting(Ev(a)) /\ Resting(An(a)) /\ pc[Ev(a)] = "idle"
        /\ job[Ra(a)] = "active"
        /\ ~Live => submission[a] = "SUBMITTED"
    BY <2>1, JobAlone, Running, Places
  <2>3. /\ pc'[Ra(a)] # "publishCheck"
        /\ pc'[Ra(a)] \in {"check", "checkWrite"} => result'[a] \notin Stalled
        /\ \A b \in Attempts : b # a => result'[b] = result[b]
        /\ \A w \in Workers : w # Ra(a) => pc'[w] = pc[w]
    BY <2>1, Places DEF TypeOK, JobsRun, RowTypes, Stalled
  <2>4. \A b \in Attempts : b # a => Stays(b)
    BY <2>1, <2>3, Places DEF Stays
  <2>5. Sound(a)'
    BY <2>1, <2>2, <2>3, Places DEF StallInv, Sound, Resting
  <2> QED
    BY <2>1, <2>2, <2>3, <2>4, <2>5, Places, JobSettles DEF Idle
<1>3. CASE CheckWrite(Ra(a))
  <2>1. /\ pc[Ra(a)] = "checkWrite" /\ CompleteJob(Ra(a), {}) /\ Finish(Ra(a))
        /\ UNCHANGED <<submission, score, result>>
    BY <1>3, Places DEF CheckWrite
  <2>2. /\ ~AtRest(a) /\ Resting(Ev(a)) /\ Resting(An(a)) /\ pc[Ev(a)] = "idle"
        /\ ~Live => submission[a] = "SUBMITTED"
    BY <2>1, JobAlone, Places
  <2>3. job'[Ra(a)] = "none" /\ \A j \in Jobs : j # Ra(a) => job'[j] = job[j]
    BY <2>1, Completes, Places
  <2>4. /\ pc'[Ra(a)] = "idle"
        /\ \A v \in Workers : v # Ra(a) =>
              /\ pc'[v] = pc[v] /\ todo'[v] = todo[v] /\ current'[v] = current[v]
              /\ keyRead'[v] = keyRead[v]
    BY <2>1, Ends, Places
  <2>5. \A b \in Attempts : b # a => Stays(b)
    BY <2>1, <2>3, <2>4, Places DEF Stays
  <2>6. Sound(a)'
    BY <2>1, <2>2, <2>3, <2>4, Places DEF StallInv, Sound, Resting
  <2>7. result'[a] \notin Stalled
    BY <2>1 DEF StallInv, Sound
  <2> QED
    BY <2>1, <2>2, <2>4, <2>5, <2>6, <2>7, Places, JobSettles
<1> QED
  BY <1>1, <1>2, <1>3 DEF RankingStep, Ra

\* A failure puts the job back into its queue, or among the failed ones.
LEMMA FailuresSettle ==
    ASSUME StallInv, TypeOK, NEW a \in Attempts, StepFails(a)
    PROVE  StallInv'
<1>1. ASSUME NEW j \in {Ev(a), An(a), Ra(a)}, pc[j] # "idle", FailJob(j), Finish(j),
             UNCHANGED <<submission, score>>,
             \/ UNCHANGED result
             \/ \E s \in {"NONE", "FAILED"} : result' = [result EXCEPT ![a] = s]
      PROVE  StallInv'
  <2>1. j \in Jobs /\ j \in Workers /\ j \notin Admins
    BY Places
  <2>2. /\ ~AtRest(a)
        /\ \A i \in {Ev(a), An(a), Ra(a)} : i # j => Resting(i) /\ pc[i] = "idle"
        /\ ~Live => submission[a] = "SUBMITTED"
    BY <1>1, JobAlone
  <2>3. job'[j] \in {"waiting", "failed"} /\ \A i \in Jobs : i # j => job'[i] = job[i]
    BY <1>1, <2>1 DEF FailJob, TypeOK, JobsRun
  <2>4. /\ pc'[j] = "idle"
        /\ \A v \in Workers : v # j =>
              /\ pc'[v] = pc[v] /\ todo'[v] = todo[v] /\ current'[v] = current[v]
              /\ keyRead'[v] = keyRead[v]
    BY <1>1, <2>1, Ends
  <2>5. \A b \in Attempts : b # a => result'[b] = result[b]
    BY <1>1 DEF TypeOK, RowTypes
  <2>6. \A b \in Attempts : b # a => Stays(b)
    BY <1>1, <2>3, <2>4, <2>5, Places DEF Stays
  <2>7. pc'[Ev(a)] = "idle" /\ pc'[An(a)] = "idle" /\ pc'[Ra(a)] = "idle"
    BY <2>2, <2>4, Places
  <2>8. /\ Resting(Ev(a))' \/ (Resting(An(a))' /\ Resting(Ra(a))')
        /\ Resting(An(a))' \/ Resting(Ra(a))'
        /\ Ev(a) # j => job'[Ev(a)] = job[Ev(a)]
        /\ Ev(a) = j => job'[Ev(a)] # "none"
    BY <2>1, <2>2, <2>3, Places DEF Resting
  <2>9. Sound(a)'
    BY <1>1, <2>2, <2>7, <2>8 DEF StallInv, Sound
  <2>10. ~Idle(a)'
    BY <2>3 DEF Idle
  <2> QED
    BY <1>1, <2>1, <2>2, <2>4, <2>6, <2>9, <2>10, Places, JobSettles
<1>2. CASE EvaluationFails(a)
  <2>1. /\ pc[Ev(a)] # "idle" /\ FailJob(Ev(a)) /\ Finish(Ev(a)) /\ UNCHANGED <<submission, score>>
        /\ \E s \in {"NONE", "FAILED"} : result' = [result EXCEPT ![a] = s]
    BY <1>2 DEF EvaluationFails, Ev, EvaluationSteps, UpdateStatus, SetStatus
  <2> QED
    BY <1>1, <2>1
<1>3. CASE AnalyticsFails(a)
  BY <1>1, <1>3 DEF AnalyticsFails, An, AnalyticsSteps, rows
<1>4. CASE RankingFails(a)
  BY <1>1, <1>4 DEF RankingFails, Ra, WorkflowSteps, rows
<1> QED
  BY <1>2, <1>3, <1>4, RankingSettles DEF StepFails, Ra

\* A request that is accepted finds every job at rest and nobody else at work.
LEMMA AcceptedAtRest ==
    ASSUME Attended, TypeOK, NEW w \in Admins, NEW op, Accept(w, op)
    PROVE  /\ pc[w] = "idle" /\ op \in Operations
           /\ \A v \in Admins : pc[v] = "idle"
           /\ \A a \in Attempts : AtRest(a)
           /\ \A a \in Attempts : submission[a] \in {"IN_PROGRESS", "SUBMITTED"}
<1>1. Quiescent /\ pc[w] = "idle" /\ op \in Operations
  BY DEF Attended, Accept
<1>2. \A a \in Attempts : AtRest(a)
  BY <1>1, Places DEF Quiescent, AtRest, Resting
<1>3. \A a \in Attempts : submission[a] \in {"IN_PROGRESS", "SUBMITTED"}
  BY <1>1 DEF Quiescent, TypeOK, RowTypes, Submissions
<1> QED
  BY <1>1, <1>2, <1>3, Places DEF Quiescent

\* What a request has to keep while it changes no job
LEMMA RequestSettles ==
    ASSUME StallInv, TypeOK, NEW w \in Admins, UNCHANGED <<job, score, submission>>,
           \A v \in Workers : v # w =>
               /\ pc'[v] = pc[v] /\ todo'[v] = todo[v] /\ current'[v] = current[v]
               /\ keyRead'[v] = keyRead[v],
           pc[w] = "idle" => \A v \in Admins : pc[v] = "idle",
           pc[w] \notin HandOvers,
           \A a \in Attempts : \/ result'[a] = result[a]
                               \/ result[a] # "NONE" /\ result'[a] = "PUBLISHED",
           Careful(w)'
    PROVE  StallInv'
<1>1. ASSUME NEW a \in Attempts PROVE Sound(a)' /\ (AtRest(a)' <=> AtRest(a)) /\ (Idle(a)' <=> Idle(a))
  <2>1. /\ pc'[Ev(a)] = pc[Ev(a)] /\ pc'[An(a)] = pc[An(a)] /\ pc'[Ra(a)] = pc[Ra(a)]
        /\ keyRead'[Ev(a)] = keyRead[Ev(a)]
    BY Places
  <2>2. Sound(a)
    BY DEF StallInv
  <2> QED
    BY <2>1, <2>2 DEF Sound, AtRest, Resting, Idle, Stalled
<1>2. ASSUME NEW v \in Admins, v # w PROVE Careful(v)'
  <2>1. pc'[v] = pc[v] /\ todo'[v] = todo[v] /\ current'[v] = current[v]
    BY <1>2, Places
  <2>2. \A a \in Attempts : Treats(v, a)' <=> Treats(v, a)
    BY <2>1 DEF Treats
  <2> QED
    BY <1>1, <2>1, <2>2 DEF StallInv, Careful
<1>3. OneRequest'
  <2>1. \A v \in Admins : v # w => pc'[v] = pc[v]
    BY Places
  <2> QED
    BY <2>1 DEF StallInv, OneRequest
<1>4. ASSUME NEW a \in Attempts, result'[a] \in Stalled PROVE Accounted(a)'
  <2>1. Accounted(a)
    BY <1>4 DEF StallInv, Stalled
  <2>2. CASE ~Idle(a)
    BY <1>1, <2>2 DEF Accounted
  <2>3. CASE \E v \in Admins : pc[v] \in HandOvers /\ current[v] = a
    <3>1. PICK v \in Admins : pc[v] \in HandOvers /\ current[v] = a
      BY <2>3
    <3>2. v # w /\ v \in Workers
      BY <3>1, Places
    <3> QED
      BY <3>1, <3>2 DEF Accounted
  <2> QED
    BY <2>1, <2>2, <2>3 DEF Accounted
<1> QED
  BY <1>1, <1>2, <1>3, <1>4 DEF StallInv

\* A step after which the request treats no attempt
LEMMA LooksSettle ==
    ASSUME StallInv, TypeOK, NEW w \in Admins, UNCHANGED <<job, score, submission>>,
           \A v \in Workers : v # w =>
               /\ pc'[v] = pc[v] /\ todo'[v] = todo[v] /\ current'[v] = current[v]
               /\ keyRead'[v] = keyRead[v],
           pc[w] = "idle" => \A v \in Admins : pc[v] = "idle",
           pc[w] \notin HandOvers,
           \A a \in Attempts : \/ result'[a] = result[a]
                               \/ result[a] # "NONE" /\ result'[a] = "PUBLISHED",
           pc'[w] \notin Loops \cup HandOvers \cup {"uploadTx", "uploadRead", "termRead"}
    PROVE  StallInv'
<1>1. Careful(w)'
  BY DEF Careful, Treats, Loops, HandOvers
<1> QED
  BY <1>1, RequestSettles

\* Ranks, checks and publications
LEMMA ReleasesSettle ==
    ASSUME Attended, StallInv, TypeOK, NEW w \in Admins,
           \/ AdminRanks(w) \/ Dashboard(w) \/ PublishRequest(w)
           \/ RankRead(w) \/ RankWrite(w) \/ RankFails(w) \/ CheckRead(w) \/ CheckWrite(w)
           \/ PublishLock(w) \/ PublishCheckWrite(w) \/ PublishTx(w) \/ PublishUnlock(w)
           \/ LoopDone(w)
    PROVE  StallInv'
<1> DEFINE Others == \A v \in Workers : v # w =>
               /\ pc'[v] = pc[v] /\ todo'[v] = todo[v] /\ current'[v] = current[v]
               /\ keyRead'[v] = keyRead[v]
           Quiets == {"idle", "rankRead", "rankWrite", "check", "checkWrite"} \cup PublishSteps
<1>1. w \in Workers /\ w \notin Jobs
  BY Places
<1>2. /\ UNCHANGED <<job, score, submission>> /\ Others
      /\ pc[w] \in Quiets \cup {"uploadMark", "retryMark"} /\ pc'[w] \in Quiets
      /\ pc[w] = "idle" => \A v \in Admins : pc[v] = "idle"
      /\ \A a \in Attempts : \/ result'[a] = result[a]
                             \/ result[a] # "NONE" /\ result'[a] = "PUBLISHED"
  <2>1. CASE AdminRanks(w) \/ Dashboard(w) \/ PublishRequest(w)
    <3>1. PICK op \in {"ranks", "dashboard", "publish"} : Accept(w, op)
      BY <2>1 DEF AdminRanks, Dashboard, PublishRequest
    <3>2. \A v \in Admins : pc[v] = "idle"
      BY <3>1, AcceptedAtRest
    <3>3. PICK s \in {"rankRead", "check", "publishLock"} : Goto(w, s)
      BY <2>1 DEF AdminRanks, Dashboard, PublishRequest
    <3>4. UNCHANGED <<job, score, submission, result>>
      BY <2>1 DEF AdminRanks, Dashboard, PublishRequest, rows, queues
    <3> QED
      BY <1>1, <3>2, <3>3, <3>4, Goes DEF PublishSteps
  <2>2. CASE \/ RankWrite(w) \/ RankFails(w) \/ CheckWrite(w) \/ PublishUnlock(w) \/ LoopDone(w)
    <3>1. /\ UNCHANGED <<job, score, submission, result>> /\ Finish(w)
          /\ pc[w] \in {"rankWrite", "rankRead", "checkWrite", "publishUnlock", "uploadMark", "retryMark"}
      BY <2>2 DEF RankWrite, RankFails, RanksDone, CheckWrite, PublishUnlock, LoopDone, RankSteps, rows,
                  queues
    <3> QED
      BY <1>1, <3>1, Ends DEF PublishSteps
  <2>3. CASE RankRead(w) \/ CheckRead(w)
    <3>1. /\ UNCHANGED <<job, score, submission, result, todo, current, keyRead>>
          /\ pc[w] \in {"rankRead", "check", "publishCheck"}
          /\ \E s \in {"rankWrite", "checkWrite", "publishCheckWrite"} : pc' = [pc EXCEPT ![w] = s]
      BY <2>3 DEF RankRead, CheckRead, rows, queues
    <3> QED
      BY <1>1, <3>1 DEF PublishSteps, TypeOK, JobsRun
  <2>4. CASE PublishLock(w) \/ PublishCheckWrite(w) \/ PublishTx(w)
    <3>1. /\ UNCHANGED <<job, score, submission>> /\ pc[w] \in PublishSteps \ {"publishUnlock"}
          /\ \A a \in Attempts : \/ result'[a] = result[a]
                                 \/ result[a] # "NONE" /\ result'[a] = "PUBLISHED"
      BY <2>4 DEF PublishLock, PublishCheckWrite, PublishTx, rows, queues, PublishSteps
    <3>2. PICK s \in {"publishCheck", "publishTx", "publishUnlock"} : Goto(w, s)
      BY <2>4 DEF PublishLock, PublishCheckWrite, PublishTx
    <3> QED
      BY <1>1, <3>1, <3>2, Goes DEF PublishSteps
  <2> QED
    BY <2>1, <2>2, <2>3, <2>4
<1>3. pc[w] \notin HandOvers /\ pc'[w] \notin Loops \cup HandOvers \cup {"uploadTx", "uploadRead", "termRead"}
  BY <1>2 DEF HandOvers, Loops, PublishSteps
<1> QED
  BY <1>2, <1>3, LooksSettle

\* An upload or a retry begins, and takes the attempts it is to treat.
LEMMA LoopsBegin ==
    ASSUME Attended, StallInv, TypeOK, NEW w \in Admins,
           \/ UploadRequest(w) \/ UploadTx(w) \/ UploadRead(w) \/ RetryFailed(w) \/ RetryOne(w)
    PROVE  StallInv'
<1>1. w \in Workers /\ w \notin Jobs
  BY Places
<1>2. CASE UploadRequest(w) \/ UploadTx(w)
  <2>1. /\ UNCHANGED <<job, score, submission, result>>
        /\ pc[w] \in {"idle", "uploadTx"} /\ Goto(w, IF pc[w] = "idle" THEN "uploadTx" ELSE "uploadRead")
    BY <1>2 DEF UploadRequest, UploadTx, Accept, rows, queues
  <2>2. /\ pc'[w] \in {"uploadTx", "uploadRead"} /\ \A v \in Workers : v # w => pc'[v] = pc[v]
        /\ UNCHANGED <<todo, current, keyRead>>
    BY <1>1, <2>1, Goes
  <2>3. /\ Live /\ \A a \in Attempts : AtRest(a)
        /\ pc[w] = "idle" => \A v \in Admins : pc[v] = "idle"
    <3>1. CASE UploadRequest(w)
      BY <3>1, AcceptedAtRest DEF UploadRequest
    <3>2. CASE UploadTx(w)
      BY <3>2 DEF UploadTx, StallInv, Careful
    <3> QED
      BY <1>2, <3>1, <3>2
  <2>4. Careful(w)'
    BY <2>1, <2>2, <2>3 DEF Careful, Treats, Loops, HandOvers, AtRest, Resting
  <2> QED
    BY <2>1, <2>2, <2>3, <2>4, RequestSettles DEF HandOvers
<1>3. CASE UploadRead(w) \/ RetryFailed(w) \/ RetryOne(w)
  <2>1. PICK as \in SUBSET Attempts :
           /\ UNCHANGED <<job, score, submission, result, current, keyRead>>
           /\ todo' = [todo EXCEPT ![w] = as]
           /\ \E s \in {"uploadMark", "retryMark"} : pc' = [pc EXCEPT ![w] = s]
           /\ pc[w] \in {"idle", "uploadRead"}
           /\ \A a \in Attempts : AtRest(a)
           /\ pc[w] = "idle" => \A v \in Admins : pc[v] = "idle"
           /\ \A a \in as : ~Live => submission[a] = "SUBMITTED"
    <3>1. CASE UploadRead(w)
      <4>1. Live /\ \A a \in Attempts : AtRest(a)
        BY <3>1 DEF UploadRead, StallInv, Careful
      <4>2. Eligible \in SUBSET Attempts
        BY DEF Eligible
      <4> QED
        BY <3>1, <4>1, <4>2 DEF UploadRead, rows, queues
    <3>2. CASE RetryFailed(w) \/ RetryOne(w)
      <4>1. PICK op \in {"retryFailed", "retryOne"} : Accept(w, op)
        BY <3>2 DEF RetryFailed, RetryOne
      <4>2. PICK as \in SUBSET Attempts : RetryAccepted(w, as) /\ \A a \in as : result[a] # "NONE"
        <5>1. CASE RetryFailed(w)
          <6>1. RetryAccepted(w, {a \in Attempts : result[a] = "FAILED"})
            BY <5>1 DEF RetryFailed
          <6> QED
            BY <6>1
        <5>2. CASE RetryOne(w)
          <6>1. PICK a \in Attempts : result[a] # "NONE" /\ RetryAccepted(w, {a})
            BY <5>2 DEF RetryOne
          <6> QED
            BY <6>1
        <5> QED
          BY <3>2, <5>1, <5>2
      <4>3. \A a \in as : ~Live => submission[a] = "SUBMITTED"
        BY <4>2 DEF StallInv, Sound
      <4> QED
        BY <4>1, <4>2, <4>3, AcceptedAtRest DEF RetryAccepted, rows, queues
    <3> QED
      BY <1>3, <3>1, <3>2
  <2>2. /\ pc'[w] \in {"uploadMark", "retryMark"} /\ todo'[w] = as
        /\ \A v \in Workers : v # w => pc'[v] = pc[v] /\ todo'[v] = todo[v]
    BY <1>1, <2>1 DEF TypeOK, JobsRun, LocalTypes
  <2>3. Careful(w)'
    BY <2>1, <2>2 DEF Careful, Treats, Loops, HandOvers, AtRest, Resting
  <2> QED
    BY <2>1, <2>2, <2>3, RequestSettles DEF HandOvers
<1> QED
  BY <1>2, <1>3

\* A loop marks the attempt that it treats next.
LEMMA LoopsMark ==
    ASSUME StallInv, TypeOK, NEW w \in Admins, UploadMark(w) \/ RetryMark(w)
    PROVE  StallInv'
<1>1. w \in Workers /\ w \notin Jobs
  BY Places
<1>2. PICK a \in todo[w] :
         /\ pc[w] \in {"uploadMark", "retryMark"} /\ result' = [result EXCEPT ![a] = "PROCESSING"]
         /\ current' = [current EXCEPT ![w] = a] /\ todo' = [todo EXCEPT ![w] = @ \ {a}]
         /\ \E s \in {"uploadEnqueue", "retryAdd"} : pc' = [pc EXCEPT ![w] = s]
         /\ UNCHANGED <<submission, score, job, keyRead>>
  BY DEF UploadMark, RetryMark, MarkNext, SetStatus, queues
<1>3. /\ a \in Attempts /\ pc'[w] \in {"uploadEnqueue", "retryAdd"}
      /\ todo'[w] = todo[w] \ {a} /\ current'[w] = a
      /\ \A v \in Workers : v # w =>
            pc'[v] = pc[v] /\ todo'[v] = todo[v] /\ current'[v] = current[v]
      /\ result'[a] = "PROCESSING" /\ \A b \in Attempts : b # a => result'[b] = result[b]
  BY <1>1, <1>2 DEF TypeOK, JobsRun, LocalTypes, RowTypes
<1>4. Treats(w, a) /\ AtRest(a) /\ (~Live => submission[a] = "SUBMITTED")
  BY <1>2, <1>3 DEF Treats, Loops, StallInv, Careful
<1>5. \A b \in Attempts : Treats(w, b)' <=> Treats(w, b)
  BY <1>2, <1>3 DEF Treats, Loops, HandOvers
<1>6. pc[Ra(a)] = "idle"
  BY <1>3, <1>4, Running, Places DEF AtRest, Resting
<1>7. ASSUME NEW b \in Attempts PROVE Sound(b)' /\ (AtRest(b)' <=> AtRest(b)) /\ (Idle(b)' <=> Idle(b))
  <2>1. pc'[Ev(b)] = pc[Ev(b)] /\ pc'[An(b)] = pc[An(b)] /\ pc'[Ra(b)] = pc[Ra(b)]
    BY <1>1, <1>3, Places
  <2>2. Sound(b)
    BY DEF StallInv
  <2>3. AtRest(b)' <=> AtRest(b)
    BY <1>2 DEF AtRest, Resting
  <2>4. Idle(b)' <=> Idle(b)
    BY <1>2 DEF Idle
  <2>5. UNCHANGED <<submission, score, job, keyRead>> /\ (b # a => result'[b] = result[b])
    BY <1>2, <1>3
  <2>6. ASSUME b = a PROVE Sound(b)'
    BY <1>4, <1>6, <2>1, <2>2, <2>5, <2>6 DEF Sound, Resting, Idle
  <2>7. ASSUME b # a PROVE Sound(b)'
    BY <2>1, <2>2, <2>5, <2>7 DEF Sound, Resting, Idle
  <2> QED
    BY <2>3, <2>4, <2>6, <2>7
<1>8. ASSUME NEW v \in Admins PROVE Careful(v)'
  <2>1. CASE v = w
    <3>1. \A b \in Attempts : Treats(w, b)' => AtRest(b)' /\ (~Live => submission'[b] = "SUBMITTED")
      BY <1>2, <1>5, <1>7 DEF StallInv, Careful
    <3> QED
      BY <1>3, <2>1, <3>1 DEF Careful
  <2>2. CASE v # w
    <3>1. pc'[v] = pc[v] /\ todo'[v] = todo[v] /\ current'[v] = current[v]
      BY <1>3, <2>2, Places
    <3>2. \A b \in Attempts : Treats(v, b)' <=> Treats(v, b)
      BY <3>1 DEF Treats
    <3> QED
      BY <1>2, <1>7, <3>1, <3>2 DEF StallInv, Careful
  <2> QED
    BY <2>1, <2>2
<1>9. OneRequest'
  <2>1. pc[w] # "idle" /\ \A v \in Admins : v # w => pc'[v] = pc[v]
    BY <1>2, <1>3, Places
  <2> QED
    BY <2>1 DEF StallInv, OneRequest
<1>10. ASSUME NEW b \in Attempts, result'[b] \in Stalled PROVE Accounted(b)'
  <2>1. CASE b = a
    BY <1>3, <2>1 DEF Accounted, HandOvers
  <2>2. CASE b # a
    <3>1. Accounted(b)
      BY <1>3, <1>10, <2>2 DEF StallInv
    <3>2. \A v \in Admins : pc[v] \in HandOvers => v # w /\ v \in Workers
      BY <1>2, Places DEF HandOvers
    <3> QED
      BY <1>3, <1>7, <3>1, <3>2 DEF Accounted
  <2> QED
    BY <2>1, <2>2
<1> QED
  BY <1>7, <1>8, <1>9, <1>10 DEF StallInv

\* An upload or a retry gives the attempt it treats to the evaluation.
LEMMA LoopsEnqueue ==
    ASSUME StallInv, TypeOK, NEW w \in Admins, UploadEnqueue(w) \/ RetryAdd(w)
    PROVE  StallInv'
<1>1. w \in Workers /\ w \notin Jobs
  BY Places
<1>2. PICK a \in Attempts : a = current[w]
  BY <1>1 DEF UploadEnqueue, RetryAdd, TypeOK, JobsRun
<1>3. /\ pc[w] \in {"uploadEnqueue", "retryAdd"}
      /\ UNCHANGED <<submission, result, score>>
      /\ \E s \in {"uploadMark", "retryMark"} : Goto(w, s)
      /\ \E s \in {"waiting", job[Ev(a)]} :
            job' = [job EXCEPT ![Ev(a)] = s] /\ s # "none" /\ s # "active"
  <2>1. Treats(w, a)
    BY <1>2 DEF Treats, HandOvers, UploadEnqueue, RetryAdd
  <2>2. job[Ev(a)] \in {"none", "failed"}
    BY <2>1 DEF StallInv, Careful, AtRest, Resting
  <2> QED
    BY <1>2, <2>2 DEF UploadEnqueue, RetryAdd, Enqueue, Ev, rows
<1>4. Treats(w, a) /\ AtRest(a) /\ a \notin todo[w] /\ (~Live => submission[a] = "SUBMITTED")
  BY <1>2, <1>3 DEF Treats, HandOvers, StallInv, Careful
<1>5. /\ pc'[w] \in {"uploadMark", "retryMark"} /\ \A v \in Workers : v # w => pc'[v] = pc[v]
      /\ UNCHANGED <<todo, current, keyRead>>
      /\ job'[Ev(a)] \in {"waiting", "failed"} /\ \A j \in Jobs : j # Ev(a) => job'[j] = job[j]
  <2>1. job'[Ev(a)] \in {"waiting", "failed"} /\ \A j \in Jobs : j # Ev(a) => job'[j] = job[j]
    BY <1>3, <1>4, Places DEF TypeOK, JobsRun, AtRest, Resting
  <2> QED
    BY <1>1, <1>3, <2>1, Goes
<1>6. /\ \A b \in Attempts : /\ Treats(w, b)' => Treats(w, b) /\ b # a
                             /\ b # a => (AtRest(b)' <=> AtRest(b)) /\ (Idle(b)' <=> Idle(b))
      /\ ~Idle(a)'
  <2>1. \A b \in Attempts : Treats(w, b)' => Treats(w, b) /\ b # a
    BY <1>3, <1>4, <1>5 DEF Treats, Loops, HandOvers
  <2>2. \A b \in Attempts : b # a => (AtRest(b)' <=> AtRest(b)) /\ (Idle(b)' <=> Idle(b))
    BY <1>5, Places DEF AtRest, Resting, Idle
  <2>3. ~Idle(a)'
    BY <1>5 DEF Idle
  <2> QED
    BY <2>1, <2>2, <2>3
<1>7. ASSUME NEW b \in Attempts PROVE Sound(b)'
  <2>1. pc'[Ev(b)] = pc[Ev(b)] /\ pc'[An(b)] = pc[An(b)] /\ pc'[Ra(b)] = pc[Ra(b)]
    BY <1>1, <1>5, Places
  <2>2. Sound(b)
    BY DEF StallInv
  <2>3. UNCHANGED <<submission, result, score, keyRead>>
    BY <1>3, <1>5
  <2>4. CASE b = a
    <3>1. /\ Resting(An(a))' /\ Resting(Ra(a))' /\ job'[Ev(a)] # "none"
      BY <1>4, <1>5, Places DEF AtRest, Resting
    <3> QED
      BY <1>4, <2>1, <2>2, <2>3, <2>4, <3>1 DEF Sound
  <2>5. CASE b # a
    <3>1. job'[Ev(b)] = job[Ev(b)] /\ job'[An(b)] = job[An(b)] /\ job'[Ra(b)] = job[Ra(b)]
      BY <1>5, <2>5, Places
    <3> QED
      BY <2>1, <2>2, <2>3, <3>1 DEF Sound, Resting, Idle
  <2> QED
    BY <2>4, <2>5
<1>8. ASSUME NEW v \in Admins PROVE Careful(v)'
  <2>1. CASE v = w
    BY <1>3, <1>5, <1>6, <2>1 DEF StallInv, Careful
  <2>2. CASE v # w
    <3>1. pc[v] = "idle" /\ pc'[v] = "idle"
      BY <1>3, <1>5, <2>2, Places DEF StallInv, OneRequest
    <3> QED
      BY <3>1 DEF Careful, Treats, Loops, HandOvers
  <2> QED
    BY <2>1, <2>2
<1>9. OneRequest'
  <2>1. pc[w] # "idle" /\ \A v \in Admins : v # w => pc'[v] = pc[v]
    BY <1>3, <1>5, Places
  <2> QED
    BY <2>1 DEF StallInv, OneRequest
<1>10. ASSUME NEW b \in Attempts, result'[b] \in Stalled PROVE Accounted(b)'
  <2>1. CASE b = a
    BY <1>6, <2>1 DEF Accounted
  <2>2. CASE b # a
    <3>1. Accounted(b)
      BY <1>3, <1>10 DEF StallInv
    <3>2. \A v \in Admins : pc[v] \in HandOvers => v = w
      BY <1>3, Places DEF HandOvers, StallInv, OneRequest
    <3> QED
      BY <1>2, <1>6, <2>2, <3>1, <3>2 DEF Accounted
  <2> QED
    BY <2>1, <2>2
<1> QED
  BY <1>7, <1>8, <1>9, <1>10 DEF StallInv

\* One result of a mock is calculated on request, after its job has failed for good.
LEMMA CalculationSettles ==
    ASSUME Attended, StallInv, TypeOK, NEW w \in Admins,
           CalculateDone(w) \/ \E a \in Attempts : CalculateRequest(w, a)
    PROVE  StallInv'
<1>1. w \in Workers /\ w \notin Jobs
  BY Places
<1>2. ASSUME NEW a \in Attempts, CalculateRequest(w, a) PROVE StallInv'
  <2>1. /\ UNCHANGED <<job, score, submission, result, todo>>
        /\ score[a] = 0 /\ submission[a] # "IN_PROGRESS"
        /\ current' = [current EXCEPT ![w] = a] /\ pc' = [pc EXCEPT ![w] = "calcWrite"]
        /\ \E n : keyRead' = [keyRead EXCEPT ![w] = n]
    BY <1>2 DEF CalculateRequest, CalculateRead, IsFinal, rows, queues
  <2>2. Accept(w, "calculate")
    BY <1>2 DEF CalculateRequest
  <2>3. /\ pc[w] = "idle" /\ ~Live /\ \A v \in Admins : pc[v] = "idle"
        /\ \A b \in Attempts : AtRest(b)
        /\ submission[a] = "SUBMITTED"
    BY <2>1, <2>2, AcceptedAtRest DEF Attended
  <2>4. job[Ev(a)] = "failed"
    BY <2>1, <2>3 DEF StallInv, Sound, AtRest, Resting
  <2>5. /\ pc'[w] = "calcWrite" /\ current'[w] = a
        /\ \A v \in Workers : v # w => pc'[v] = pc[v] /\ current'[v] = current[v] /\ keyRead'[v] = keyRead[v]
    BY <1>1, <2>1 DEF TypeOK, JobsRun, LocalTypes
  <2>6. Careful(w)'
    BY <2>1, <2>3, <2>4, <2>5 DEF Careful, Treats, Loops, HandOvers, AtRest, Resting
  <2> QED
    BY <2>1, <2>3, <2>5, <2>6, RequestSettles DEF HandOvers
<1>3. CASE CalculateDone(w)
  <2>1. PICK a \in Attempts : a = current[w]
    BY <1>1, <1>3 DEF CalculateDone, TypeOK, JobsRun
  <2>2. /\ pc[w] = "calcWrite" /\ Finish(w) /\ UNCHANGED <<submission, job>>
        /\ \/ UNCHANGED <<score, result>>
           \/ \E n : /\ n > 0 /\ score' = [score EXCEPT ![a] = n] /\ n = keyRead[w]
                     /\ result' = [result EXCEPT ![a] = "EVALUATED"]
    BY <1>3, <2>1 DEF CalculateDone, CalculateWrite, SetStatus, queues
  <2>3. Treats(w, a) /\ AtRest(a) /\ ~Live /\ submission[a] = "SUBMITTED" /\ job[Ev(a)] = "failed"
    BY <2>1, <2>2 DEF Treats, HandOvers, StallInv, Careful
  <2>4. pc[Ra(a)] = "idle" /\ pc[Ev(a)] = "idle"
    BY <2>3, Running, Places DEF AtRest, Resting
  <2>5. /\ pc'[w] = "idle"
        /\ \A v \in Workers : v # w =>
              /\ pc'[v] = pc[v] /\ todo'[v] = todo[v] /\ current'[v] = current[v]
              /\ keyRead'[v] = keyRead[v]
    BY <1>1, <2>2, Ends
  <2>6. /\ \A b \in Attempts : b # a => score'[b] = score[b] /\ result'[b] = result[b]
        /\ score[a] # 0 => score'[a] # 0
    <3>1. \A n \in Scores : n > 0 => n # 0
      BY Constants
    <3>2. keyRead[w] \in Scores
      BY <1>1 DEF TypeOK, LocalTypes
    <3> QED
      BY <2>2, <3>1, <3>2 DEF TypeOK, RowTypes
  <2>7. ASSUME NEW b \in Attempts PROVE Sound(b)'
    <3>1. /\ pc'[Ev(b)] = pc[Ev(b)] /\ pc'[An(b)] = pc[An(b)] /\ pc'[Ra(b)] = pc[Ra(b)]
          /\ keyRead'[Ev(b)] = keyRead[Ev(b)]
      BY <1>1, <2>5, Places
    <3>2. Sound(b) /\ UNCHANGED <<submission, job>>
      BY <2>2 DEF StallInv
    <3>3. CASE b = a
      BY <2>3, <2>4, <3>1, <3>2, <3>3 DEF Sound, Resting
    <3>4. CASE b # a
      BY <2>6, <3>1, <3>2, <3>4 DEF Sound, Resting, Idle
    <3> QED
      BY <3>3, <3>4
  <2>8. ASSUME NEW v \in Admins PROVE Careful(v)' /\ pc'[v] = "idle"
    <3>1. pc'[v] = "idle"
      BY <2>2, <2>5, Places DEF StallInv, OneRequest
    <3> QED
      BY <3>1 DEF Careful, Treats, Loops, HandOvers
  <2>9. OneRequest'
    BY <2>8 DEF OneRequest
  <2>10. ASSUME NEW b \in Attempts, result'[b] \in Stalled PROVE Accounted(b)'
    <3>1. CASE b = a
      BY <2>2, <2>3, <3>1 DEF Accounted, Idle
    <3>2. CASE b # a
      <4>1. Accounted(b)
        BY <2>6, <2>10, <3>2 DEF StallInv
      <4>2. \A v \in Admins : pc[v] \in HandOvers => v = w
        BY <2>2, Places DEF HandOvers, StallInv, OneRequest
      <4> QED
        BY <2>1, <2>2, <3>2, <4>1, <4>2 DEF Accounted, Idle
    <3> QED
      BY <3>1, <3>2
  <2> QED
    BY <2>7, <2>8, <2>9, <2>10 DEF StallInv
<1> QED
  BY <1>2, <1>3

\* Candidates, viewers, reviewers and the clock
LEMMA CandidatesSettle ==
    ASSUME StallInv, TypeOK,
           \/ \E a \in Attempts : SubmitStatus(a) \/ SubmitTail(a) \/ OpenAnalyses(a)
                                  \/ ReviewPending(a) \/ HealMock(a)
           \/ WindowCloses \/ LockExpires
    PROVE  StallInv'
<1>1. ASSUME UNCHANGED <<job, pc, todo, current, keyRead, score>>,
             \A a \in Attempts :
                /\ submission'[a] = submission[a]
                   \/ (submission[a] # "SUBMITTED" /\ submission'[a] = "FINALISING")
                   \/ (Live /\ submission[a] = "FINALISING" /\ submission'[a] = "SUBMITTED")
                /\ \/ result'[a] = result[a]
                   \/ Live /\ result'[a] = "PENDING_WINDOW_CLOSE"
                   \/ result[a] # "NONE" /\ result'[a] = "PUBLISHED"
      PROVE  StallInv'
  <2>1. \A a \in Attempts : /\ AtRest(a)' <=> AtRest(a)
                            /\ Idle(a)' <=> Idle(a)
                            /\ \A w \in Admins : Treats(w, a)' <=> Treats(w, a)
    BY <1>1 DEF AtRest, Resting, Idle, Treats
  <2>2. ASSUME NEW a \in Attempts PROVE Sound(a)'
    <3>1. Sound(a)
      BY DEF StallInv
    <3>2. /\ submission'[a] = submission[a]
             \/ (submission[a] # "SUBMITTED" /\ submission'[a] = "FINALISING")
             \/ (Live /\ submission[a] = "FINALISING" /\ submission'[a] = "SUBMITTED")
          /\ \/ result'[a] = result[a]
             \/ Live /\ result'[a] = "PENDING_WINDOW_CLOSE"
             \/ result[a] # "NONE" /\ result'[a] = "PUBLISHED"
      BY <1>1
    <3> QED
      BY <1>1, <3>1, <3>2 DEF Sound, Resting, Idle, Stalled
  <2>3. ASSUME NEW w \in Admins PROVE Careful(w)'
    <3>1. Careful(w)
      BY DEF StallInv
    <3>2. ASSUME NEW a \in Attempts, Treats(w, a)'
          PROVE  AtRest(a)' /\ (~Live => submission'[a] = "SUBMITTED")
      BY <1>1, <2>1, <3>1, <3>2 DEF Careful
    <3> QED
      BY <1>1, <2>1, <3>1, <3>2 DEF Careful
  <2>4. OneRequest'
    BY <1>1 DEF StallInv, OneRequest
  <2>5. ASSUME NEW a \in Attempts, result'[a] \in Stalled PROVE Accounted(a)'
    <3>1. Accounted(a)
      BY <1>1, <2>5 DEF StallInv, Stalled
    <3> QED
      BY <1>1, <2>1, <3>1 DEF Accounted
  <2> QED
    BY <2>2, <2>3, <2>4, <2>5 DEF StallInv
<1>2. ASSUME NEW a \in Attempts, SubmitStatus(a) PROVE StallInv'
  <2>1. /\ UNCHANGED <<job, pc, todo, current, keyRead, score, result>>
        /\ submission[a] = "IN_PROGRESS" /\ submission' = [submission EXCEPT ![a] = "FINALISING"]
    BY <1>2 DEF SubmitStatus, queues, locals
  <2> QED
    BY <1>1, <2>1 DEF TypeOK, RowTypes
<1>3. ASSUME NEW a \in Attempts, SubmitTail(a), Live PROVE StallInv'
  <2>1. /\ UNCHANGED <<job, pc, todo, current, keyRead, score>>
        /\ submission[a] = "FINALISING" /\ submission' = [submission EXCEPT ![a] = "SUBMITTED"]
        /\ result' = [result EXCEPT ![a] = "PENDING_WINDOW_CLOSE"]
    BY <1>3 DEF SubmitTail, SetStatus, queues, locals
  <2> QED
    BY <1>1, <1>3, <2>1 DEF TypeOK, RowTypes
<1>4. ASSUME NEW a \in Attempts, SubmitTail(a), ~Live PROVE StallInv'
  <2>1. /\ UNCHANGED <<pc, todo, current, keyRead, score, result>>
        /\ submission[a] = "FINALISING" /\ submission' = [submission EXCEPT ![a] = "SUBMITTED"]
        /\ job' = [job EXCEPT ![Ev(a)] = IF @ = "none" THEN "waiting" ELSE @]
    BY <1>4 DEF SubmitTail, Enqueue, Ev, locals
  <2>2. Idle(a) /\ result[a] = "NONE"
    BY <1>4, <2>1 DEF StallInv, Sound
  <2>3. job'[Ev(a)] = "waiting" /\ \A j \in Jobs : j # Ev(a) => job'[j] = job[j]
    BY <2>1, <2>2, Places DEF Idle, TypeOK, JobsRun
  <2>4. submission'[a] = "SUBMITTED" /\ \A b \in Attempts : b # a => submission'[b] = submission[b]
    BY <2>1 DEF TypeOK, RowTypes
  <2>5. \A w \in Admins : ~Treats(w, a)
    BY <1>4, <2>1 DEF StallInv, Careful
  <2>6. ASSUME NEW b \in Attempts, b # a
        PROVE  /\ job'[Ev(b)] = job[Ev(b)] /\ job'[An(b)] = job[An(b)] /\ job'[Ra(b)] = job[Ra(b)]
               /\ AtRest(b)' <=> AtRest(b)
               /\ Idle(b)' <=> Idle(b)
    BY <2>3, <2>6, Places DEF AtRest, Resting, Idle
  <2>7. ASSUME NEW b \in Attempts PROVE Sound(b)'
    <3>1. Sound(b)
      BY DEF StallInv
    <3>2. CASE b = a
      <4>1. job'[An(a)] = "none" /\ job'[Ra(a)] = "none"
        BY <2>2, <2>3, Places DEF Idle
      <4>2. pc[Ev(a)] = "idle" /\ pc[Ra(a)] = "idle"
        BY <2>2, Running, Places DEF Idle
      <4> QED
        BY <2>1, <2>3, <2>4, <3>2, <4>1, <4>2 DEF Sound, Resting
    <3>3. CASE b # a
      BY <2>1, <2>4, <2>6, <3>1, <3>3 DEF Sound, Resting, Idle
    <3> QED
      BY <3>2, <3>3
  <2>8. ASSUME NEW w \in Admins PROVE Careful(w)'
    <3>1. \A b \in Attempts : Treats(w, b)' <=> Treats(w, b)
      BY <2>1 DEF Treats
    <3>2. Careful(w)
      BY DEF StallInv
    <3>3. ASSUME NEW b \in Attempts, Treats(w, b)'
          PROVE  AtRest(b)' /\ (~Live => submission'[b] = "SUBMITTED")
      BY <2>4, <2>5, <2>6, <3>1, <3>2, <3>3 DEF Careful
    <3>4. pc[w] = "calcWrite" => job'[Ev(current[w])] = "failed"
      <4>1. SUFFICES ASSUME pc[w] = "calcWrite" PROVE job'[Ev(current[w])] = "failed"
        OBVIOUS
      <4>2. current[w] \in Attempts /\ current[w] # a
        BY <2>5, <4>1, Places DEF Treats, HandOvers, TypeOK, JobsRun
      <4> QED
        BY <2>6, <3>2, <4>1, <4>2 DEF Careful
    <3> QED
      BY <1>4, <2>1, <3>2, <3>3, <3>4 DEF Careful
  <2>9. OneRequest'
    BY <2>1 DEF StallInv, OneRequest
  <2>10. ASSUME NEW b \in Attempts, result'[b] \in Stalled PROVE Accounted(b)'
    <3>1. b # a
      BY <2>1, <2>2, <2>10 DEF Stalled
    <3> QED
      BY <2>1, <2>6, <2>10, <3>1 DEF StallInv, Accounted
  <2> QED
    BY <2>7, <2>8, <2>9, <2>10 DEF StallInv
<1>5. ASSUME NEW a \in Attempts, HealMock(a) PROVE StallInv'
  <2>1. /\ UNCHANGED <<job, pc, todo, current, keyRead, score, submission>>
        /\ result[a] # "NONE" /\ result' = [result EXCEPT ![a] = "PUBLISHED"]
    BY <1>5 DEF HealMock, SetStatus, queues, locals
  <2> QED
    BY <1>1, <2>1 DEF TypeOK, RowTypes
<1>6. ASSUME \/ WindowCloses \/ LockExpires
             \/ \E a \in Attempts : OpenAnalyses(a) \/ ReviewPending(a)
      PROVE  StallInv'
  <2>1. UNCHANGED <<job, pc, todo, current, keyRead, score, submission, result>>
    BY <1>6 DEF WindowCloses, LockExpires, OpenAnalyses, ReviewPending, rows, queues, locals
  <2> QED
    BY <1>1, <2>1
<1> QED
  BY <1>2, <1>3, <1>4, <1>5, <1>6

\* At first no result waits for a job.
LEMMA StallInitInv == Init => StallInv
<1> SUFFICES ASSUME Init PROVE StallInv
  OBVIOUS
<1>1. \A w \in Workers : pc[w] = "idle"
  BY DEF Init
<1>2. ASSUME NEW a \in Attempts PROVE Sound(a) /\ result[a] \notin Stalled
  <2>1. Idle(a)
    BY Places DEF Init, Idle
  <2>2. pc[Ev(a)] = "idle" /\ pc[Ra(a)] = "idle" /\ submission[a] = "IN_PROGRESS" /\ result[a] = "NONE"
    BY <1>1, Places DEF Init
  <2> QED
    BY <2>1, <2>2 DEF Sound, Resting, Idle, Stalled
<1>3. \A w \in Admins : pc[w] = "idle"
  BY <1>1, Places
<1> QED
  BY <1>2, <1>3 DEF StallInv, Careful, Treats, Loops, HandOvers, OneRequest

\* Every step keeps each result in process accounted for.
LEMMA StallNextInv ==
    ASSUME Attended, TypeOK, StallInv, [Next]_vars
    PROVE  StallInv'
<1>1. CASE UNCHANGED vars
  BY <1>1 DEF vars, rows, queues, locals, StallInv, Sound, Resting, Idle, Careful, Treats, AtRest, OneRequest,
              Accounted
<1>2. ASSUME NEW a \in Attempts,
             EvaluationStep(a) \/ AnalyticsStep(a) \/ RankingStep(a) \/ StepFails(a)
      PROVE  StallInv'
  BY <1>2, EvaluationSettles, AnalyticsSettles, RankingSettles, FailuresSettle
<1>5. ASSUME NEW w \in Admins, TerminateRead(w) \/ \E a \in Attempts : TerminateRequest(w, a)
      PROVE  FALSE
  BY <1>5 DEF TerminateRead, TerminateRequest, Accept, Attended, StallInv, Careful
<1>3. ASSUME NEW w \in Admins, Request(w) \/ AdminStep(w) \/ RankFails(w) PROVE StallInv'
  BY <1>3, <1>5, ReleasesSettle, LoopsBegin, LoopsMark, LoopsEnqueue, CalculationSettles DEF Request, AdminStep
<1>4. ASSUME NEW w \in Admins, UploadEnqueueFails(w) PROVE FALSE
  BY <1>4 DEF UploadEnqueueFails, Attended
<1> QED
  BY <1>1, <1>2, <1>3, <1>4, <1>5, CandidatesSettle DEF Next

\* A result that says it is being processed is accounted for, whatever fails and
\* whatever is retried: a job of its attempt is in a queue, or a request is about to
\* put it there.
THEOREM NothingStalls ==
    ASSUME Attended
    PROVE  Spec => []NoSilentStall
<1>1. TypeOK /\ StallInv => NoSilentStall
  <2> SUFFICES ASSUME StallInv, NEW a \in Attempts, result[a] \in Stalled
               PROVE  \/ \E q \in Queues : job[<<q, a>>] # "none"
                      \/ \E w \in Admins :
                            current[w] = a /\ pc[w] \in {"uploadEnqueue", "retryAdd", "calcWrite"}
    BY DEF NoSilentStall, Stalled
  <2>1. Accounted(a)
    BY DEF StallInv
  <2> QED
    BY <2>1 DEF Accounted, HandOvers, Idle, Ev, An, Ra, Queues
<1> QED
  BY <1>1, StallInitInv, StallNextInv, TypeCorrect, PTL DEF Spec
=============================================================================
