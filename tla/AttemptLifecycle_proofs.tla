----------------------- MODULE AttemptLifecycle_proofs -----------------------
(***************************************************************************)
(* Proofs about AttemptLifecycle, for any number of students, exams,       *)
(* request slots, attempts and crashes.  Each invariance proof has one     *)
(* step for every action of the module.                                    *)
(***************************************************************************)
EXTENDS AttemptLifecycle, TLAPS

\* Every reachable state has the types the tables and the handlers give it,
\* and a handler that works on an attempt or an exam has one.
THEOREM TypeCorrect == Spec => []TypeOK
<1> USE AttemptAssumption
<1>1. Init => TypeOK
  BY DEF Init, TypeOK, Statuses, Steps, ExamSteps, AttemptSteps
<1>2. TypeOK /\ [Next]_vars => TypeOK'
  <2> SUFFICES ASSUME TypeOK, [Next]_vars PROVE TypeOK'
    OBVIOUS
  <2> USE DEF TypeOK, Steps, ExamSteps, AttemptSteps, Statuses, FinalStatuses,
              Begin, Goto, GotoAt, Done, rows, slots
  <2>1. ASSUME NEW r \in Requests, Crash(r) PROVE TypeOK'
    BY <2>1 DEF Crash
  <2>2. ASSUME NEW r \in Requests, NEW e \in Exams, StartAccess(r, e)
      PROVE  TypeOK'
    BY <2>2 DEF StartAccess
  <2>3. ASSUME NEW r \in Requests, NEW a \in Attempts, SubmitRequest(r, a)
      PROVE  TypeOK'
    BY <2>3 DEF SubmitRequest
  <2>4. ASSUME NEW r \in Requests, NEW a \in Attempts, AutoSubmitRequest(r, a)
      PROVE  TypeOK'
    BY <2>4 DEF AutoSubmitRequest
  <2>5. ASSUME NEW r \in Requests, NEW a \in Attempts, SwitchLanguage(r, a)
      PROVE  TypeOK'
    BY <2>5 DEF SwitchLanguage, CheckedRead
  <2>6. ASSUME NEW r \in Requests, NEW a \in Attempts, Terminate(r, a)
      PROVE  TypeOK'
    BY <2>6 DEF Terminate
  <2>7. ASSUME NEW r \in Requests, NEW a \in Attempts, NEW q \in Questions, SaveAnswer(r, a, q)
      PROVE  TypeOK'
    BY <2>7 DEF SaveAnswer, CheckedRead
  <2>8. ASSUME NEW r \in Requests, NEW a \in Attempts, NEW qs \in SUBSET Questions, BulkSave(r, a, qs)
      PROVE  TypeOK'
    BY <2>8 DEF BulkSave
  <2>9. ASSUME NEW r \in Requests, NEW a \in Attempts, NEW v \in Verdicts, ReviewCreate(r, a, v)
      PROVE  TypeOK'
    <3>1. v \in ReviewStatuses
      BY DEF ReviewStatuses
    <3>2. reviews' \in [Attempts -> SUBSET ReviewStatuses]
      BY <3>1, <2>9 DEF ReviewCreate
    <3>3. CASE UNCHANGED slots
      BY <3>2, <3>3, <2>9 DEF ReviewCreate
    <3>4. CASE \E step \in {"clear", "disqualify"} : Begin(r, step, a, NoExam, {})
      BY <3>2, <3>4, <2>9 DEF ReviewCreate
    <3>5. QED
      BY <3>3, <3>4, <2>9 DEF ReviewCreate
  <2>10. ASSUME NEW r \in Requests, StartCheckOthers(r) PROVE TypeOK'
    BY <2>10 DEF StartCheckOthers
  <2>11. ASSUME NEW r \in Requests, StartFindActive(r) PROVE TypeOK'
    BY <2>11 DEF StartFindActive, AttemptsOf
  <2>12. ASSUME NEW r \in Requests, StartResume(r) PROVE TypeOK'
    BY <2>12 DEF StartResume
  <2>13. ASSUME NEW r \in Requests, StartCheckPrior(r) PROVE TypeOK'
    BY <2>13 DEF StartCheckPrior
  <2>14. ASSUME NEW r \in Requests, StartCreate(r) PROVE TypeOK'
    BY <2>14 DEF StartCreate, Least
  <2>15. ASSUME NEW r \in Requests, StartCreateFails(r) PROVE TypeOK'
    BY <2>15 DEF StartCreateFails
  <2>16. ASSUME NEW r \in Requests, SubmitRead(r) PROVE TypeOK'
    BY <2>16 DEF SubmitRead
  <2>17. ASSUME NEW r \in Requests, SubmitCas(r) PROVE TypeOK'
    BY <2>17 DEF SubmitCas, Finalise
  <2>18. ASSUME NEW r \in Requests, AutoSubmitRead(r) PROVE TypeOK'
    BY <2>18 DEF AutoSubmitRead, Least
  <2>19. ASSUME NEW r \in Requests, AutoSubmitCas(r) PROVE TypeOK'
    BY <2>19 DEF AutoSubmitCas, Finalise
  <2>20. ASSUME NEW r \in Requests, FinaliseTail(r) PROVE TypeOK'
    BY <2>20 DEF FinaliseTail, Outcomes
  <2>21. ASSUME NEW r \in Requests, FinaliseFallback(r) PROVE TypeOK'
    BY <2>21 DEF FinaliseFallback, Calculate, Outcomes
  <2>22. ASSUME NEW r \in Requests, WriteAnswer(r) PROVE TypeOK'
    BY <2>22 DEF WriteAnswer
  <2>23. ASSUME NEW r \in Requests, WriteLanguage(r) PROVE TypeOK'
    BY <2>23 DEF WriteLanguage
  <2>24. ASSUME NEW r \in Requests, ReviewApply(r) PROVE TypeOK'
    BY <2>24 DEF ReviewApply
  <2>25. ASSUME NEW r \in Requests, TerminateReview(r) PROVE TypeOK'
    BY <2>25 DEF TerminateReview, ReviewStatuses
  <2>26. ASSUME NEW r \in Requests, TerminateCalculate(r) PROVE TypeOK'
    BY <2>26 DEF TerminateCalculate, Calculate, Outcomes
  <2>27. CASE Tick
    BY <2>27 DEF Tick
  <2>28. CASE UNCHANGED vars
    BY <2>28 DEF vars
  <2> QED
    BY <2>1, <2>2, <2>3, <2>4, <2>5, <2>6, <2>7, <2>8, <2>9, <2>10, <2>11,
       <2>12, <2>13, <2>14, <2>15, <2>16, <2>17, <2>18, <2>19, <2>20,
       <2>21, <2>22, <2>23, <2>24, <2>25, <2>26, <2>27, <2>28 DEF Next,
       Arrive, Continue
<1>3. QED
  BY <1>1, <1>2, PTL DEF Spec

-----------------------------------------------------------------------------
\* What the local variables of a running handler say about the rows, kept true
\* by every other handler that runs in between.
SlotInv ==
    /\ \A a \in Attempts : ~Exists(a) => outcome[a] = {}
    /\ \A r \in Requests :
          /\ pc[r] \in AttemptSteps => Exists(att[r])
          /\ pc[r] = "autoCas" => at[r] <= serverEnd[att[r]]
          /\ pc[r] = "tailCalc" => ~IsLive(att[r])
          /\ pc[r] = "termCalc" => "DISQUALIFIED" \in reviews[att[r]]

\* The inductive invariant the properties below rest on.
THEOREM SlotsCorrect == Spec => []SlotInv
<1> USE AttemptAssumption
<1>1. Init => SlotInv
  BY DEF Init, SlotInv, Exists, AttemptSteps
<1>2. TypeOK /\ SlotInv /\ [Next]_vars => SlotInv'
  <2> SUFFICES ASSUME TypeOK, SlotInv, [Next]_vars PROVE SlotInv'
    OBVIOUS
  <2> USE DEF TypeOK, SlotInv, Exists, IsFinal, IsLive, ExamSteps, AttemptSteps,
              Steps, FinalStatuses, Begin, Goto, GotoAt, Done, rows, slots
  <2>1. ASSUME NEW r \in Requests, Crash(r) PROVE SlotInv'
    BY <2>1 DEF Crash
  <2>2. ASSUME NEW r \in Requests, NEW e \in Exams, StartAccess(r, e)
      PROVE  SlotInv'
    BY <2>2 DEF StartAccess
  <2>3. ASSUME NEW r \in Requests, NEW a \in Attempts, SubmitRequest(r, a)
      PROVE  SlotInv'
    BY <2>3 DEF SubmitRequest
  <2>4. ASSUME NEW r \in Requests, NEW a \in Attempts, AutoSubmitRequest(r, a)
      PROVE  SlotInv'
    BY <2>4 DEF AutoSubmitRequest
  <2>5. ASSUME NEW r \in Requests, NEW a \in Attempts, SwitchLanguage(r, a)
      PROVE  SlotInv'
    BY <2>5 DEF SwitchLanguage, CheckedRead
  <2>6. ASSUME NEW r \in Requests, NEW a \in Attempts, Terminate(r, a)
      PROVE  SlotInv'
    BY <2>6 DEF Terminate
  <2>7. ASSUME NEW r \in Requests, NEW a \in Attempts, NEW q \in Questions, SaveAnswer(r, a, q)
      PROVE  SlotInv'
    BY <2>7 DEF SaveAnswer, CheckedRead
  <2>8. ASSUME NEW r \in Requests, NEW a \in Attempts, NEW qs \in SUBSET Questions, BulkSave(r, a, qs)
      PROVE  SlotInv'
    BY <2>8 DEF BulkSave
  <2>9. ASSUME NEW r \in Requests, NEW a \in Attempts, NEW v \in Verdicts, ReviewCreate(r, a, v)
      PROVE  SlotInv'
    BY <2>9 DEF ReviewCreate
  <2>10. ASSUME NEW r \in Requests, StartCheckOthers(r) PROVE SlotInv'
    BY <2>10 DEF StartCheckOthers
  <2>11. ASSUME NEW r \in Requests, StartFindActive(r) PROVE SlotInv'
    BY <2>11 DEF StartFindActive, AttemptsOf
  <2>12. ASSUME NEW r \in Requests, StartResume(r) PROVE SlotInv'
    BY <2>12 DEF StartResume
  <2>13. ASSUME NEW r \in Requests, StartCheckPrior(r) PROVE SlotInv'
    BY <2>13 DEF StartCheckPrior
  <2>14. ASSUME NEW r \in Requests, StartCreate(r) PROVE SlotInv'
    BY <2>14 DEF StartCreate, Least
  <2>15. ASSUME NEW r \in Requests, StartCreateFails(r) PROVE SlotInv'
    BY <2>15 DEF StartCreateFails
  <2>16. ASSUME NEW r \in Requests, SubmitRead(r) PROVE SlotInv'
    BY <2>16 DEF SubmitRead
  <2>17. ASSUME NEW r \in Requests, SubmitCas(r) PROVE SlotInv'
    BY <2>17 DEF SubmitCas, Finalise
  <2>18. ASSUME NEW r \in Requests, AutoSubmitRead(r) PROVE SlotInv'
    BY <2>18 DEF AutoSubmitRead, Least
  <2>19. ASSUME NEW r \in Requests, AutoSubmitCas(r) PROVE SlotInv'
    BY <2>19 DEF AutoSubmitCas, Finalise
  <2>20. ASSUME NEW r \in Requests, FinaliseTail(r) PROVE SlotInv'
    BY <2>20 DEF FinaliseTail
  <2>21. ASSUME NEW r \in Requests, FinaliseFallback(r) PROVE SlotInv'
    BY <2>21 DEF FinaliseFallback, Calculate
  <2>22. ASSUME NEW r \in Requests, WriteAnswer(r) PROVE SlotInv'
    BY <2>22 DEF WriteAnswer
  <2>23. ASSUME NEW r \in Requests, WriteLanguage(r) PROVE SlotInv'
    BY <2>23 DEF WriteLanguage
  <2>24. ASSUME NEW r \in Requests, ReviewApply(r) PROVE SlotInv'
    BY <2>24 DEF ReviewApply
  <2>25. ASSUME NEW r \in Requests, TerminateReview(r) PROVE SlotInv'
    BY <2>25 DEF TerminateReview
  <2>26. ASSUME NEW r \in Requests, TerminateCalculate(r) PROVE SlotInv'
    BY <2>26 DEF TerminateCalculate, Calculate
  <2>27. CASE Tick
    BY <2>27 DEF Tick
  <2>28. CASE UNCHANGED vars
    BY <2>28 DEF vars
  <2> QED
    BY <2>1, <2>2, <2>3, <2>4, <2>5, <2>6, <2>7, <2>8, <2>9, <2>10, <2>11,
       <2>12, <2>13, <2>14, <2>15, <2>16, <2>17, <2>18, <2>19, <2>20,
       <2>21, <2>22, <2>23, <2>24, <2>25, <2>26, <2>27, <2>28 DEF Next,
       Arrive, Continue
<1>3. QED
  BY <1>1, <1>2, TypeCorrect, PTL DEF Spec

-----------------------------------------------------------------------------
\* Without a crash no submission is lost between the compare-and-swap of the
\* status and the result it must lead to.
LEMMA NoSubmissionLost == Spec => []NoOrphanedSubmission
<1> USE AttemptAssumption
<1>1. Init => NoOrphanedSubmission
  BY DEF Init, NoOrphanedSubmission, IsFinal, FinalStatuses
<1>2. TypeOK /\ SlotInv /\ NoOrphanedSubmission /\ [Next]_vars
        => NoOrphanedSubmission'
  <2> SUFFICES ASSUME TypeOK, SlotInv, NoOrphanedSubmission, [Next]_vars
               PROVE  NoOrphanedSubmission'
    OBVIOUS
  <2> USE DEF TypeOK, SlotInv, NoOrphanedSubmission, ProducesOutcome, Exists,
              IsFinal, ExamSteps, AttemptSteps, Steps, Statuses, FinalStatuses,
              Begin, Goto, GotoAt, Done, rows, slots
  <2>1. ASSUME NEW r \in Requests, Crash(r) PROVE NoOrphanedSubmission'
    BY <2>1 DEF Crash
  <2>2. ASSUME NEW r \in Requests, NEW e \in Exams, StartAccess(r, e)
      PROVE  NoOrphanedSubmission'
    BY <2>2 DEF StartAccess
  <2>3. ASSUME NEW r \in Requests, NEW a \in Attempts, SubmitRequest(r, a)
      PROVE  NoOrphanedSubmission'
    BY <2>3 DEF SubmitRequest
  <2>4. ASSUME NEW r \in Requests, NEW a \in Attempts, AutoSubmitRequest(r, a)
      PROVE  NoOrphanedSubmission'
    BY <2>4 DEF AutoSubmitRequest
  <2>5. ASSUME NEW r \in Requests, NEW a \in Attempts, SwitchLanguage(r, a)
      PROVE  NoOrphanedSubmission'
    BY <2>5 DEF SwitchLanguage, CheckedRead
  <2>6. ASSUME NEW r \in Requests, NEW a \in Attempts, Terminate(r, a)
      PROVE  NoOrphanedSubmission'
    BY <2>6 DEF Terminate
  <2>7. ASSUME NEW r \in Requests, NEW a \in Attempts, NEW q \in Questions, SaveAnswer(r, a, q)
      PROVE  NoOrphanedSubmission'
    BY <2>7 DEF SaveAnswer, CheckedRead
  <2>8. ASSUME NEW r \in Requests, NEW a \in Attempts, NEW qs \in SUBSET Questions, BulkSave(r, a, qs)
      PROVE  NoOrphanedSubmission'
    BY <2>8 DEF BulkSave
  <2>9. ASSUME NEW r \in Requests, NEW a \in Attempts, NEW v \in Verdicts, ReviewCreate(r, a, v)
      PROVE  NoOrphanedSubmission'
    BY <2>9 DEF ReviewCreate
  <2>10. ASSUME NEW r \in Requests, StartCheckOthers(r)
      PROVE  NoOrphanedSubmission'
    BY <2>10 DEF StartCheckOthers
  <2>11. ASSUME NEW r \in Requests, StartFindActive(r)
      PROVE  NoOrphanedSubmission'
    BY <2>11 DEF StartFindActive, AttemptsOf
  <2>12. ASSUME NEW r \in Requests, StartResume(r) PROVE NoOrphanedSubmission'
    BY <2>12 DEF StartResume
  <2>13. ASSUME NEW r \in Requests, StartCheckPrior(r)
      PROVE  NoOrphanedSubmission'
    BY <2>13 DEF StartCheckPrior
  <2>14. ASSUME NEW r \in Requests, StartCreate(r) PROVE NoOrphanedSubmission'
    BY <2>14 DEF StartCreate, Least
  <2>15. ASSUME NEW r \in Requests, StartCreateFails(r)
      PROVE  NoOrphanedSubmission'
    BY <2>15 DEF StartCreateFails
  <2>16. ASSUME NEW r \in Requests, SubmitRead(r) PROVE NoOrphanedSubmission'
    BY <2>16 DEF SubmitRead
  <2>17. ASSUME NEW r \in Requests, SubmitCas(r) PROVE NoOrphanedSubmission'
    BY <2>17 DEF SubmitCas, Finalise
  <2>18. ASSUME NEW r \in Requests, AutoSubmitRead(r)
      PROVE  NoOrphanedSubmission'
    BY <2>18 DEF AutoSubmitRead, Least
  <2>19. ASSUME NEW r \in Requests, AutoSubmitCas(r) PROVE NoOrphanedSubmission'
    BY <2>19 DEF AutoSubmitCas, Finalise
  <2>20. ASSUME NEW r \in Requests, FinaliseTail(r) PROVE NoOrphanedSubmission'
    <3> SUFFICES ASSUME crashes' = 0, NEW a \in Attempts, IsFinal(a)'
                 PROVE  \/ outcome'[a] # {}
                        \/ \E p \in Requests : /\ att'[p] = a
                                               /\ pc'[p] \in ProducesOutcome
      BY DEF NoOrphanedSubmission
    <3>1. att[r] \in Attempts /\ IsFinal(a) /\ crashes = 0
      BY <2>20 DEF FinaliseTail
    <3>2. CASE a = att[r]
      <4>1. \/ \E x \in Outcomes : outcome'[a] = outcome[a] \union {x}
            \/ pc'[r] = "tailCalc" /\ att'[r] = a
        BY <3>1, <3>2, <2>20 DEF FinaliseTail, Outcomes
      <4>2. QED
        BY <4>1
    <3>3. CASE a # att[r]
      <4>1. outcome'[a] = outcome[a]
        BY <3>1, <3>3, <2>20 DEF FinaliseTail
      <4>2. ASSUME NEW p \in Requests, att[p] = a, pc[p] \in ProducesOutcome
            PROVE  att'[p] = a /\ pc'[p] \in ProducesOutcome
        BY <3>3, <4>2, <2>20 DEF FinaliseTail
      <4>3. QED
        BY <3>1, <4>1, <4>2
    <3>4. QED
      BY <3>2, <3>3
  <2>21. ASSUME NEW r \in Requests, FinaliseFallback(r)
      PROVE  NoOrphanedSubmission'
    <3> SUFFICES ASSUME crashes' = 0, NEW a \in Attempts, IsFinal(a)'
                 PROVE  \/ outcome'[a] # {}
                        \/ \E p \in Requests : /\ att'[p] = a
                                               /\ pc'[p] \in ProducesOutcome
      BY DEF NoOrphanedSubmission
    <3>1. att[r] \in Attempts /\ IsFinal(a) /\ crashes = 0
      BY <2>21 DEF FinaliseFallback, Calculate
    <3>2. CASE a = att[r]
      <4>1. \E x \in Outcomes : outcome'[a] = outcome[a] \union {x}
        BY <3>1, <3>2, <2>21 DEF FinaliseFallback, Calculate, Outcomes
      <4>2. QED
        BY <4>1
    <3>3. CASE a # att[r]
      <4>1. outcome'[a] = outcome[a]
        BY <3>1, <3>3, <2>21 DEF FinaliseFallback, Calculate
      <4>2. ASSUME NEW p \in Requests, att[p] = a, pc[p] \in ProducesOutcome
            PROVE  att'[p] = a /\ pc'[p] \in ProducesOutcome
        BY <3>3, <4>2, <2>21 DEF FinaliseFallback, Calculate
      <4>3. QED
        BY <3>1, <4>1, <4>2
    <3>4. QED
      BY <3>2, <3>3
  <2>22. ASSUME NEW r \in Requests, WriteAnswer(r) PROVE NoOrphanedSubmission'
    BY <2>22 DEF WriteAnswer
  <2>23. ASSUME NEW r \in Requests, WriteLanguage(r) PROVE NoOrphanedSubmission'
    BY <2>23 DEF WriteLanguage
  <2>24. ASSUME NEW r \in Requests, ReviewApply(r) PROVE NoOrphanedSubmission'
    BY <2>24 DEF ReviewApply
  <2>25. ASSUME NEW r \in Requests, TerminateReview(r)
      PROVE  NoOrphanedSubmission'
    BY <2>25 DEF TerminateReview
  <2>26. ASSUME NEW r \in Requests, TerminateCalculate(r)
      PROVE  NoOrphanedSubmission'
    <3> SUFFICES ASSUME crashes' = 0, NEW a \in Attempts, IsFinal(a)'
                 PROVE  \/ outcome'[a] # {}
                        \/ \E p \in Requests : /\ att'[p] = a
                                               /\ pc'[p] \in ProducesOutcome
      BY DEF NoOrphanedSubmission
    <3>1. att[r] \in Attempts /\ IsFinal(a) /\ crashes = 0
      BY <2>26 DEF TerminateCalculate, Calculate
    <3>2. CASE a = att[r]
      <4>1. \E x \in Outcomes : outcome'[a] = outcome[a] \union {x}
        BY <3>1, <3>2, <2>26 DEF TerminateCalculate, Calculate, Outcomes
      <4>2. QED
        BY <4>1
    <3>3. CASE a # att[r]
      <4>1. outcome'[a] = outcome[a]
        BY <3>1, <3>3, <2>26 DEF TerminateCalculate, Calculate
      <4>2. ASSUME NEW p \in Requests, att[p] = a, pc[p] \in ProducesOutcome
            PROVE  att'[p] = a /\ pc'[p] \in ProducesOutcome
        BY <3>3, <4>2, <2>26 DEF TerminateCalculate, Calculate
      <4>3. QED
        BY <3>1, <4>1, <4>2
    <3>4. QED
      BY <3>2, <3>3
  <2>27. CASE Tick
    BY <2>27 DEF Tick
  <2>28. CASE UNCHANGED vars
    BY <2>28 DEF vars
  <2> QED
    BY <2>1, <2>2, <2>3, <2>4, <2>5, <2>6, <2>7, <2>8, <2>9, <2>10, <2>11,
       <2>12, <2>13, <2>14, <2>15, <2>16, <2>17, <2>18, <2>19, <2>20,
       <2>21, <2>22, <2>23, <2>24, <2>25, <2>26, <2>27, <2>28 DEF Next,
       Arrive, Continue
<1>3. QED
  BY <1>1, <1>2, TypeCorrect, SlotsCorrect, PTL DEF Spec

\* Submitting has no live attempt evaluated and parks no mock attempt.
LEMMA OutcomeCorrect == Spec => []OutcomeFitsMode
<1> USE AttemptAssumption
<1>1. Init => OutcomeFitsMode
  BY DEF Init, OutcomeFitsMode
<1>2. TypeOK /\ SlotInv /\ OutcomeFitsMode /\ [Next]_vars => OutcomeFitsMode'
  <2> SUFFICES ASSUME TypeOK, SlotInv, OutcomeFitsMode, [Next]_vars
               PROVE  OutcomeFitsMode'
    OBVIOUS
  <2> USE DEF TypeOK, SlotInv, OutcomeFitsMode, Exists, IsLive,
              ExamSteps, AttemptSteps, Steps, rows, slots
  <2>1. ASSUME NEW r \in Requests, Crash(r) PROVE OutcomeFitsMode'
    BY <2>1 DEF Crash
  <2>2. ASSUME NEW r \in Requests, NEW e \in Exams, StartAccess(r, e)
      PROVE  OutcomeFitsMode'
    BY <2>2 DEF StartAccess
  <2>3. ASSUME NEW r \in Requests, NEW a \in Attempts, SubmitRequest(r, a)
      PROVE  OutcomeFitsMode'
    BY <2>3 DEF SubmitRequest
  <2>4. ASSUME NEW r \in Requests, NEW a \in Attempts, AutoSubmitRequest(r, a)
      PROVE  OutcomeFitsMode'
    BY <2>4 DEF AutoSubmitRequest
  <2>5. ASSUME NEW r \in Requests, NEW a \in Attempts, SwitchLanguage(r, a)
      PROVE  OutcomeFitsMode'
    BY <2>5 DEF SwitchLanguage, CheckedRead
  <2>6. ASSUME NEW r \in Requests, NEW a \in Attempts, Terminate(r, a)
      PROVE  OutcomeFitsMode'
    BY <2>6 DEF Terminate
  <2>7. ASSUME NEW r \in Requests, NEW a \in Attempts, NEW q \in Questions, SaveAnswer(r, a, q)
      PROVE  OutcomeFitsMode'
    BY <2>7 DEF SaveAnswer, CheckedRead
  <2>8. ASSUME NEW r \in Requests, NEW a \in Attempts, NEW qs \in SUBSET Questions, BulkSave(r, a, qs)
      PROVE  OutcomeFitsMode'
    BY <2>8 DEF BulkSave
  <2>9. ASSUME NEW r \in Requests, NEW a \in Attempts, NEW v \in Verdicts, ReviewCreate(r, a, v)
      PROVE  OutcomeFitsMode'
    BY <2>9 DEF ReviewCreate
  <2>10. ASSUME NEW r \in Requests, StartCheckOthers(r) PROVE OutcomeFitsMode'
    BY <2>10 DEF StartCheckOthers
  <2>11. ASSUME NEW r \in Requests, StartFindActive(r) PROVE OutcomeFitsMode'
    BY <2>11 DEF StartFindActive, AttemptsOf
  <2>12. ASSUME NEW r \in Requests, StartResume(r) PROVE OutcomeFitsMode'
    BY <2>12 DEF StartResume
  <2>13. ASSUME NEW r \in Requests, StartCheckPrior(r) PROVE OutcomeFitsMode'
    BY <2>13 DEF StartCheckPrior
  <2>14. ASSUME NEW r \in Requests, StartCreate(r) PROVE OutcomeFitsMode'
    BY <2>14 DEF StartCreate, Least
  <2>15. ASSUME NEW r \in Requests, StartCreateFails(r) PROVE OutcomeFitsMode'
    BY <2>15 DEF StartCreateFails
  <2>16. ASSUME NEW r \in Requests, SubmitRead(r) PROVE OutcomeFitsMode'
    BY <2>16 DEF SubmitRead
  <2>17. ASSUME NEW r \in Requests, SubmitCas(r) PROVE OutcomeFitsMode'
    BY <2>17 DEF SubmitCas, Finalise
  <2>18. ASSUME NEW r \in Requests, AutoSubmitRead(r) PROVE OutcomeFitsMode'
    BY <2>18 DEF AutoSubmitRead, Least
  <2>19. ASSUME NEW r \in Requests, AutoSubmitCas(r) PROVE OutcomeFitsMode'
    BY <2>19 DEF AutoSubmitCas, Finalise
  <2>20. ASSUME NEW r \in Requests, FinaliseTail(r) PROVE OutcomeFitsMode'
    BY <2>20 DEF FinaliseTail, Outcomes
  <2>21. ASSUME NEW r \in Requests, FinaliseFallback(r) PROVE OutcomeFitsMode'
    BY <2>21 DEF FinaliseFallback, Calculate, Outcomes
  <2>22. ASSUME NEW r \in Requests, WriteAnswer(r) PROVE OutcomeFitsMode'
    BY <2>22 DEF WriteAnswer
  <2>23. ASSUME NEW r \in Requests, WriteLanguage(r) PROVE OutcomeFitsMode'
    BY <2>23 DEF WriteLanguage
  <2>24. ASSUME NEW r \in Requests, ReviewApply(r) PROVE OutcomeFitsMode'
    BY <2>24 DEF ReviewApply
  <2>25. ASSUME NEW r \in Requests, TerminateReview(r) PROVE OutcomeFitsMode'
    BY <2>25 DEF TerminateReview
  <2>26. ASSUME NEW r \in Requests, TerminateCalculate(r) PROVE OutcomeFitsMode'
    BY <2>26 DEF TerminateCalculate, Calculate, Outcomes
  <2>27. CASE Tick
    BY <2>27 DEF Tick
  <2>28. CASE UNCHANGED vars
    BY <2>28 DEF vars
  <2> QED
    BY <2>1, <2>2, <2>3, <2>4, <2>5, <2>6, <2>7, <2>8, <2>9, <2>10, <2>11,
       <2>12, <2>13, <2>14, <2>15, <2>16, <2>17, <2>18, <2>19, <2>20,
       <2>21, <2>22, <2>23, <2>24, <2>25, <2>26, <2>27, <2>28 DEF Next,
       Arrive, Continue
<1>3. QED
  BY <1>1, <1>2, TypeCorrect, SlotsCorrect, PTL DEF Spec

-----------------------------------------------------------------------------
\* A finalised status is overwritten by a resume or a termination only.
LEMMA FinalStatusKept == Spec => FinalStatusStable
<1> DEFINE Kept == \A a \in Attempts : IsFinal(a) /\ status'[a] # status[a] =>
                       \/ \E r \in Requests : pc[r] = "resume" /\ att[r] = a
                       \/ disqualified'[a]
<1>1. TypeOK /\ [Next]_vars => Kept
  <2> SUFFICES ASSUME TypeOK, [Next]_vars PROVE Kept
    OBVIOUS
  <2> USE DEF TypeOK, IsFinal, Exists, FinalStatuses, rows, AttemptSteps
  <2>1. ASSUME NEW r \in Requests, Crash(r) PROVE Kept
    BY <2>1 DEF Crash
  <2>2. ASSUME NEW r \in Requests, NEW e \in Exams, StartAccess(r, e) PROVE Kept
    BY <2>2 DEF StartAccess
  <2>3. ASSUME NEW r \in Requests, NEW a \in Attempts, SubmitRequest(r, a)
      PROVE  Kept
    BY <2>3 DEF SubmitRequest
  <2>4. ASSUME NEW r \in Requests, NEW a \in Attempts, AutoSubmitRequest(r, a)
      PROVE  Kept
    BY <2>4 DEF AutoSubmitRequest
  <2>5. ASSUME NEW r \in Requests, NEW a \in Attempts, SwitchLanguage(r, a)
      PROVE  Kept
    BY <2>5 DEF SwitchLanguage, CheckedRead
  <2>6. ASSUME NEW r \in Requests, NEW a \in Attempts, Terminate(r, a)
      PROVE  Kept
    BY <2>6 DEF Terminate
  <2>7. ASSUME NEW r \in Requests, NEW a \in Attempts, NEW q \in Questions, SaveAnswer(r, a, q)
      PROVE  Kept
    BY <2>7 DEF SaveAnswer, CheckedRead
  <2>8. ASSUME NEW r \in Requests, NEW a \in Attempts, NEW qs \in SUBSET Questions, BulkSave(r, a, qs)
      PROVE  Kept
    BY <2>8 DEF BulkSave
  <2>9. ASSUME NEW r \in Requests, NEW a \in Attempts, NEW v \in Verdicts, ReviewCreate(r, a, v)
      PROVE  Kept
    BY <2>9 DEF ReviewCreate
  <2>10. ASSUME NEW r \in Requests, StartCheckOthers(r) PROVE Kept
    BY <2>10 DEF StartCheckOthers
  <2>11. ASSUME NEW r \in Requests, StartFindActive(r) PROVE Kept
    BY <2>11 DEF StartFindActive, AttemptsOf
  <2>12. ASSUME NEW r \in Requests, StartResume(r) PROVE Kept
    BY <2>12 DEF StartResume
  <2>13. ASSUME NEW r \in Requests, StartCheckPrior(r) PROVE Kept
    BY <2>13 DEF StartCheckPrior
  <2>14. ASSUME NEW r \in Requests, StartCreate(r) PROVE Kept
    BY <2>14 DEF StartCreate
  <2>15. ASSUME NEW r \in Requests, StartCreateFails(r) PROVE Kept
    BY <2>15 DEF StartCreateFails
  <2>16. ASSUME NEW r \in Requests, SubmitRead(r) PROVE Kept
    BY <2>16 DEF SubmitRead
  <2>17. ASSUME NEW r \in Requests, SubmitCas(r) PROVE Kept
    BY <2>17 DEF SubmitCas, Finalise
  <2>18. ASSUME NEW r \in Requests, AutoSubmitRead(r) PROVE Kept
    BY <2>18 DEF AutoSubmitRead, Least
  <2>19. ASSUME NEW r \in Requests, AutoSubmitCas(r) PROVE Kept
    BY <2>19 DEF AutoSubmitCas, Finalise
  <2>20. ASSUME NEW r \in Requests, FinaliseTail(r) PROVE Kept
    BY <2>20 DEF FinaliseTail
  <2>21. ASSUME NEW r \in Requests, FinaliseFallback(r) PROVE Kept
    BY <2>21 DEF FinaliseFallback, Calculate
  <2>22. ASSUME NEW r \in Requests, WriteAnswer(r) PROVE Kept
    BY <2>22 DEF WriteAnswer
  <2>23. ASSUME NEW r \in Requests, WriteLanguage(r) PROVE Kept
    BY <2>23 DEF WriteLanguage
  <2>24. ASSUME NEW r \in Requests, ReviewApply(r) PROVE Kept
    BY <2>24 DEF ReviewApply
  <2>25. ASSUME NEW r \in Requests, TerminateReview(r) PROVE Kept
    BY <2>25 DEF TerminateReview
  <2>26. ASSUME NEW r \in Requests, TerminateCalculate(r) PROVE Kept
    BY <2>26 DEF TerminateCalculate, Calculate
  <2>27. CASE Tick
    BY <2>27 DEF Tick
  <2>28. CASE UNCHANGED vars
    BY <2>28 DEF vars
  <2> QED
    BY <2>1, <2>2, <2>3, <2>4, <2>5, <2>6, <2>7, <2>8, <2>9, <2>10, <2>11,
       <2>12, <2>13, <2>14, <2>15, <2>16, <2>17, <2>18, <2>19, <2>20,
       <2>21, <2>22, <2>23, <2>24, <2>25, <2>26, <2>27, <2>28 DEF Next,
       Arrive, Continue
<1>2. QED
  BY <1>1, TypeCorrect, PTL DEF Spec, FinalStatusStable

\* An auto-submit is dated no later than the attempt's serverEndTime.
LEMMA AutoSubmitInTime == Spec => AutoSubmitWithinTime
<1> USE AttemptAssumption
<1> DEFINE InTime == \A a \in Attempts :
                        /\ status[a] = "IN_PROGRESS"
                        /\ status'[a] = "AUTO_SUBMITTED"
                        /\ ~disqualified'[a]
                        => submittedAt'[a] <= serverEnd[a]
<1>1. TypeOK /\ SlotInv /\ [Next]_vars => InTime
  <2> SUFFICES ASSUME TypeOK, SlotInv, [Next]_vars PROVE InTime
    OBVIOUS
  <2> USE DEF TypeOK, SlotInv, IsFinal, Exists, FinalStatuses, rows, AttemptSteps
  <2>1. ASSUME NEW r \in Requests, Crash(r) PROVE InTime
    BY <2>1 DEF Crash
  <2>2. ASSUME NEW r \in Requests, NEW e \in Exams, StartAccess(r, e)
      PROVE  InTime
    BY <2>2 DEF StartAccess
  <2>3. ASSUME NEW r \in Requests, NEW a \in Attempts, SubmitRequest(r, a)
      PROVE  InTime
    BY <2>3 DEF SubmitRequest
  <2>4. ASSUME NEW r \in Requests, NEW a \in Attempts, AutoSubmitRequest(r, a)
      PROVE  InTime
    BY <2>4 DEF AutoSubmitRequest
  <2>5. ASSUME NEW r \in Requests, NEW a \in Attempts, SwitchLanguage(r, a)
      PROVE  InTime
    BY <2>5 DEF SwitchLanguage, CheckedRead
  <2>6. ASSUME NEW r \in Requests, NEW a \in Attempts, Terminate(r, a)
      PROVE  InTime
    BY <2>6 DEF Terminate
  <2>7. ASSUME NEW r \in Requests, NEW a \in Attempts, NEW q \in Questions, SaveAnswer(r, a, q)
      PROVE  InTime
    BY <2>7 DEF SaveAnswer, CheckedRead
  <2>8. ASSUME NEW r \in Requests, NEW a \in Attempts, NEW qs \in SUBSET Questions, BulkSave(r, a, qs)
      PROVE  InTime
    BY <2>8 DEF BulkSave
  <2>9. ASSUME NEW r \in Requests, NEW a \in Attempts, NEW v \in Verdicts, ReviewCreate(r, a, v)
      PROVE  InTime
    BY <2>9 DEF ReviewCreate
  <2>10. ASSUME NEW r \in Requests, StartCheckOthers(r) PROVE InTime
    BY <2>10 DEF StartCheckOthers
  <2>11. ASSUME NEW r \in Requests, StartFindActive(r) PROVE InTime
    BY <2>11 DEF StartFindActive, AttemptsOf
  <2>12. ASSUME NEW r \in Requests, StartResume(r) PROVE InTime
    BY <2>12 DEF StartResume
  <2>13. ASSUME NEW r \in Requests, StartCheckPrior(r) PROVE InTime
    BY <2>13 DEF StartCheckPrior
  <2>14. ASSUME NEW r \in Requests, StartCreate(r) PROVE InTime
    BY <2>14 DEF StartCreate
  <2>15. ASSUME NEW r \in Requests, StartCreateFails(r) PROVE InTime
    BY <2>15 DEF StartCreateFails
  <2>16. ASSUME NEW r \in Requests, SubmitRead(r) PROVE InTime
    BY <2>16 DEF SubmitRead
  <2>17. ASSUME NEW r \in Requests, SubmitCas(r) PROVE InTime
    BY <2>17 DEF SubmitCas, Finalise
  <2>18. ASSUME NEW r \in Requests, AutoSubmitRead(r) PROVE InTime
    BY <2>18 DEF AutoSubmitRead, Least
  <2>19. ASSUME NEW r \in Requests, AutoSubmitCas(r) PROVE InTime
    BY <2>19 DEF AutoSubmitCas, Finalise
  <2>20. ASSUME NEW r \in Requests, FinaliseTail(r) PROVE InTime
    BY <2>20 DEF FinaliseTail
  <2>21. ASSUME NEW r \in Requests, FinaliseFallback(r) PROVE InTime
    BY <2>21 DEF FinaliseFallback, Calculate
  <2>22. ASSUME NEW r \in Requests, WriteAnswer(r) PROVE InTime
    BY <2>22 DEF WriteAnswer
  <2>23. ASSUME NEW r \in Requests, WriteLanguage(r) PROVE InTime
    BY <2>23 DEF WriteLanguage
  <2>24. ASSUME NEW r \in Requests, ReviewApply(r) PROVE InTime
    BY <2>24 DEF ReviewApply
  <2>25. ASSUME NEW r \in Requests, TerminateReview(r) PROVE InTime
    BY <2>25 DEF TerminateReview
  <2>26. ASSUME NEW r \in Requests, TerminateCalculate(r) PROVE InTime
    BY <2>26 DEF TerminateCalculate, Calculate
  <2>27. CASE Tick
    BY <2>27 DEF Tick
  <2>28. CASE UNCHANGED vars
    BY <2>28 DEF vars
  <2> QED
    BY <2>1, <2>2, <2>3, <2>4, <2>5, <2>6, <2>7, <2>8, <2>9, <2>10, <2>11,
       <2>12, <2>13, <2>14, <2>15, <2>16, <2>17, <2>18, <2>19, <2>20,
       <2>21, <2>22, <2>23, <2>24, <2>25, <2>26, <2>27, <2>28 DEF Next,
       Arrive, Continue
<1>2. QED
  BY <1>1, TypeCorrect, SlotsCorrect, PTL DEF Spec, AutoSubmitWithinTime

-----------------------------------------------------------------------------
\* A startAttempt that is about to create an attempt has seen that the student
\* has none running on the exam, and on a live exam none at all; this stays so
\* because only the student's own, only, handler could change it.
StartInv ==
    /\ SingleLiveAttempt
    /\ \A r \in Requests :
          /\ pc[r] = "resume" => owner[att[r]] = ClientOf[r]
          /\ pc[r] = "prior" =>
                \A a \in Attempts :
                    status[a] = "IN_PROGRESS" /\ owner[a] = ClientOf[r]
                    => examOf[a] # exam[r]
          /\ pc[r] = "create" /\ exam[r] \in LiveExams =>
                \A a \in Attempts :
                    Exists(a) /\ owner[a] = ClientOf[r] => examOf[a] # exam[r]

\* The Single Attempt Rule holds when every student has one request in flight
\* at a time, whatever other students and administrators do meanwhile.
THEOREM SingleAttemptRule ==
    ASSUME \A p, q \in Requests : ClientOf[p] = ClientOf[q] => p = q
    PROVE  Spec => []SingleLiveAttempt
<1> USE AttemptAssumption
<1>1. Init => StartInv
  BY DEF Init, StartInv, SingleLiveAttempt, Exists
<1>2. TypeOK /\ SlotInv /\ StartInv /\ [Next]_vars => StartInv'
  <2> SUFFICES ASSUME TypeOK, SlotInv, StartInv, [Next]_vars PROVE StartInv'
    OBVIOUS
  <2> USE DEF TypeOK, SlotInv, StartInv, SingleLiveAttempt, Exists, IsLive,
              IsFinal, Statuses, FinalStatuses, ExamSteps, AttemptSteps, Steps,
              Begin, Goto, GotoAt, Done, rows, slots
  <2>1. ASSUME NEW r \in Requests, Crash(r) PROVE StartInv'
    BY <2>1 DEF Crash
  <2>2. ASSUME NEW r \in Requests, NEW e \in Exams, StartAccess(r, e)
      PROVE  StartInv'
    BY <2>2 DEF StartAccess
  <2>3. ASSUME NEW r \in Requests, NEW a \in Attempts, SubmitRequest(r, a)
      PROVE  StartInv'
    BY <2>3 DEF SubmitRequest
  <2>4. ASSUME NEW r \in Requests, NEW a \in Attempts, AutoSubmitRequest(r, a)
      PROVE  StartInv'
    BY <2>4 DEF AutoSubmitRequest
  <2>5. ASSUME NEW r \in Requests, NEW a \in Attempts, SwitchLanguage(r, a)
      PROVE  StartInv'
    BY <2>5 DEF SwitchLanguage, CheckedRead
  <2>6. ASSUME NEW r \in Requests, NEW a \in Attempts, Terminate(r, a)
      PROVE  StartInv'
    BY <2>6 DEF Terminate
  <2>7. ASSUME NEW r \in Requests, NEW a \in Attempts, NEW q \in Questions, SaveAnswer(r, a, q)
      PROVE  StartInv'
    <3>1. /\ UNCHANGED <<status, owner, examOf>>
          /\ pc'[r] \in {"autoRead", "saveWrite"}
          /\ \A p \in Requests : p # r => /\ pc'[p] = pc[p] /\ att'[p] = att[p]
                                         /\ exam'[p] = exam[p]
      BY <2>7 DEF SaveAnswer, CheckedRead
    <3>2. QED
      BY <3>1
  <2>8. ASSUME NEW r \in Requests, NEW a \in Attempts, NEW qs \in SUBSET Questions, BulkSave(r, a, qs)
      PROVE  StartInv'
    BY <2>8 DEF BulkSave
  <2>9. ASSUME NEW r \in Requests, NEW a \in Attempts, NEW v \in Verdicts, ReviewCreate(r, a, v)
      PROVE  StartInv'
    BY <2>9 DEF ReviewCreate
  <2>10. ASSUME NEW r \in Requests, StartCheckOthers(r) PROVE StartInv'
    BY <2>10 DEF StartCheckOthers
  <2>11. ASSUME NEW r \in Requests, StartFindActive(r) PROVE StartInv'
    BY <2>11 DEF StartFindActive, AttemptsOf
  <2>12. ASSUME NEW r \in Requests, StartResume(r) PROVE StartInv'
    BY <2>12 DEF StartResume
  <2>13. ASSUME NEW r \in Requests, StartCheckPrior(r) PROVE StartInv'
    BY <2>13 DEF StartCheckPrior, AttemptsOf
  <2>14. ASSUME NEW r \in Requests, StartCreate(r) PROVE StartInv'
    BY <2>14 DEF StartCreate
  <2>15. ASSUME NEW r \in Requests, StartCreateFails(r) PROVE StartInv'
    BY <2>15 DEF StartCreateFails
  <2>16. ASSUME NEW r \in Requests, SubmitRead(r) PROVE StartInv'
    BY <2>16 DEF SubmitRead
  <2>17. ASSUME NEW r \in Requests, SubmitCas(r) PROVE StartInv'
    <3>1. att[r] \in Attempts /\ Exists(att[r])
      BY <2>17 DEF SubmitCas, Finalise
    <3>2. /\ owner' = owner /\ examOf' = examOf /\ exam'[r] \in Exams \union {NoExam}
          /\ \A a \in Attempts : Exists(a)' <=> Exists(a)
          /\ \A a \in Attempts : status'[a] = "IN_PROGRESS" => status[a] = "IN_PROGRESS"
          /\ pc'[r] \in {"idle", "tail"}
          /\ \A p \in Requests : p # r => /\ pc'[p] = pc[p] /\ att'[p] = att[p]
                                         /\ exam'[p] = exam[p]
      BY <3>1, <2>17 DEF SubmitCas, Finalise
    <3>3. SingleLiveAttempt'
      BY <3>2
    <3>4. QED
      BY <3>2, <3>3
  <2>18. ASSUME NEW r \in Requests, AutoSubmitRead(r) PROVE StartInv'
    BY <2>18 DEF AutoSubmitRead, Least
  <2>19. ASSUME NEW r \in Requests, AutoSubmitCas(r) PROVE StartInv'
    <3>1. att[r] \in Attempts /\ Exists(att[r])
      BY <2>19 DEF AutoSubmitCas, Finalise
    <3>2. /\ owner' = owner /\ examOf' = examOf /\ exam'[r] \in Exams \union {NoExam}
          /\ \A a \in Attempts : Exists(a)' <=> Exists(a)
          /\ \A a \in Attempts : status'[a] = "IN_PROGRESS" => status[a] = "IN_PROGRESS"
          /\ pc'[r] \in {"idle", "tail"}
          /\ \A p \in Requests : p # r => /\ pc'[p] = pc[p] /\ att'[p] = att[p]
                                         /\ exam'[p] = exam[p]
      BY <3>1, <2>19 DEF AutoSubmitCas, Finalise
    <3>3. SingleLiveAttempt'
      BY <3>2
    <3>4. QED
      BY <3>2, <3>3
  <2>20. ASSUME NEW r \in Requests, FinaliseTail(r) PROVE StartInv'
    BY <2>20 DEF FinaliseTail
  <2>21. ASSUME NEW r \in Requests, FinaliseFallback(r) PROVE StartInv'
    BY <2>21 DEF FinaliseFallback, Calculate
  <2>22. ASSUME NEW r \in Requests, WriteAnswer(r) PROVE StartInv'
    BY <2>22 DEF WriteAnswer
  <2>23. ASSUME NEW r \in Requests, WriteLanguage(r) PROVE StartInv'
    BY <2>23 DEF WriteLanguage
  <2>24. ASSUME NEW r \in Requests, ReviewApply(r) PROVE StartInv'
    BY <2>24 DEF ReviewApply
  <2>25. ASSUME NEW r \in Requests, TerminateReview(r) PROVE StartInv'
    BY <2>25 DEF TerminateReview
  <2>26. ASSUME NEW r \in Requests, TerminateCalculate(r) PROVE StartInv'
    BY <2>26 DEF TerminateCalculate, Calculate
  <2>27. CASE Tick
    BY <2>27 DEF Tick
  <2>28. CASE UNCHANGED vars
    BY <2>28 DEF vars
  <2> QED
    BY <2>1, <2>2, <2>3, <2>4, <2>5, <2>6, <2>7, <2>8, <2>9, <2>10, <2>11,
       <2>12, <2>13, <2>14, <2>15, <2>16, <2>17, <2>18, <2>19, <2>20,
       <2>21, <2>22, <2>23, <2>24, <2>25, <2>26, <2>27, <2>28 DEF Next,
       Arrive, Continue
<1>3. QED
  <2>1. StartInv => SingleLiveAttempt
    BY DEF StartInv
  <2>2. QED
    BY <1>1, <1>2, <2>1, TypeCorrect, SlotsCorrect, PTL DEF Spec

-----------------------------------------------------------------------------
\* A startAttempt that has looked for attempts on other exams has found none
\* running, and what it resumes is the student's attempt on this exam.
StartSteps == {"findActive", "resume", "prior", "create"}

ActiveInv ==
    /\ OneActiveAttempt
    /\ \A r \in Requests :
          /\ pc[r] = "resume" => owner[att[r]] = ClientOf[r] /\ examOf[att[r]] = exam[r]
          /\ pc[r] \in StartSteps =>
                \A a \in Attempts : Running(a) /\ owner[a] = ClientOf[r] => examOf[a] = exam[r]

\* A step that starts no attempt, resumes none and moves only a handler that is
\* not starting one, or not any more.
QuietStep ==
    /\ UNCHANGED <<owner, examOf, serverEnd>>
    /\ now' \in Nat /\ now <= now'
    /\ \A a \in Attempts : status'[a] = "IN_PROGRESS" => status[a] = "IN_PROGRESS"
    /\ \A p \in Requests : \/ pc'[p] \notin StartSteps
                           \/ pc'[p] = pc[p] /\ att'[p] = att[p] /\ exam'[p] = exam[p]

\* Such a step keeps the one active attempt of a student.
LEMMA QuietStepsKeepActive == TypeOK /\ ActiveInv /\ QuietStep => ActiveInv'
<1> SUFFICES ASSUME TypeOK, ActiveInv, QuietStep PROVE ActiveInv'
  OBVIOUS
<1>1. \A a \in Attempts : Running(a)' => Running(a)
  <2> SUFFICES ASSUME NEW a \in Attempts, Running(a)' PROVE Running(a)
    OBVIOUS
  <2>1. serverEnd[a] \in Nat /\ now \in Nat
    BY DEF TypeOK
  <2>2. QED
    BY <2>1 DEF Running, QuietStep
<1>2. OneActiveAttempt'
  BY <1>1 DEF ActiveInv, OneActiveAttempt, QuietStep
<1>3. ASSUME NEW r \in Requests, pc'[r] \in StartSteps
      PROVE  /\ pc'[r] = "resume" => owner'[att'[r]] = ClientOf[r] /\ examOf'[att'[r]] = exam'[r]
             /\ \A a \in Attempts : Running(a)' /\ owner'[a] = ClientOf[r]
                    => examOf'[a] = exam'[r]
  <2>1. pc'[r] = pc[r] /\ att'[r] = att[r] /\ exam'[r] = exam[r]
    BY <1>3 DEF QuietStep
  <2>2. owner' = owner /\ examOf' = examOf
    BY DEF QuietStep
  <2>3. QED
    BY <1>1, <1>3, <2>1, <2>2 DEF ActiveInv
<1>4. QED
  BY <1>2, <1>3 DEF ActiveInv, StartSteps

\* The One Active Attempt Rule holds when every student has one request in
\* flight at a time: startAttempt() looks for running attempts on other exams
\* before it resumes or creates one, and nobody else begins one in between.
THEOREM OneActiveAttemptRule ==
    ASSUME \A p, q \in Requests : ClientOf[p] = ClientOf[q] => p = q
    PROVE  Spec => []OneActiveAttempt
<1> USE AttemptAssumption
<1>1. Init => ActiveInv
  BY DEF Init, ActiveInv, OneActiveAttempt, Running, StartSteps
<1>2. TypeOK /\ SlotInv /\ ActiveInv /\ [Next]_vars => ActiveInv'
  <2> SUFFICES ASSUME TypeOK, SlotInv, ActiveInv, [Next]_vars PROVE ActiveInv'
    OBVIOUS
  <2>q. QuietStep => ActiveInv'
    BY QuietStepsKeepActive
  <2>1. ASSUME NEW r \in Requests, StartCheckOthers(r) PROVE ActiveInv'
    <3>1. CASE pc'[r] = "idle"
      BY <2>1, <3>1, <2>q DEF StartCheckOthers, QuietStep, TypeOK, rows, Done, GotoAt, StartSteps
    <3>2. CASE pc'[r] # "idle"
      <4>1. /\ ~\E a \in Attempts : /\ status[a] = "IN_PROGRESS" /\ owner[a] = ClientOf[r]
                                    /\ examOf[a] # exam[r] /\ serverEnd[a] > now
            /\ pc' = [pc EXCEPT ![r] = "findActive"] /\ UNCHANGED <<att, exam, now, rows>>
        BY <2>1, <3>2 DEF StartCheckOthers, Done, GotoAt, TypeOK
      <4>2. \A a \in Attempts : Running(a)' <=> Running(a)
        BY <4>1 DEF Running, rows
      <4>3. OneActiveAttempt'
        BY <4>1, <4>2 DEF ActiveInv, OneActiveAttempt, rows
      <4>4. \A a \in Attempts : Running(a) /\ owner[a] = ClientOf[r] => examOf[a] = exam[r]
        BY <4>1 DEF Running
      <4>5. QED
        BY <4>1, <4>2, <4>3, <4>4 DEF ActiveInv, StartSteps, TypeOK, rows
    <3>3. QED
      BY <3>1, <3>2
  <2>2. ASSUME NEW r \in Requests, StartFindActive(r) PROVE ActiveInv'
    <3>1. /\ pc[r] = "findActive" /\ UNCHANGED <<exam, now, rows>>
          /\ \A p \in Requests : p # r => pc'[p] = pc[p] /\ att'[p] = att[p]
          /\ pc'[r] = "resume" => /\ att'[r] \in Attempts
                                  /\ owner[att'[r]] = ClientOf[r] /\ examOf[att'[r]] = exam[r]
      BY <2>2 DEF StartFindActive, AttemptsOf, Goto, TypeOK
    <3>2. \A a \in Attempts : Running(a)' <=> Running(a)
      BY <3>1 DEF Running, rows
    <3>3. OneActiveAttempt'
      BY <3>1, <3>2 DEF ActiveInv, OneActiveAttempt, rows
    <3>4. QED
      BY <3>1, <3>2, <3>3 DEF ActiveInv, StartSteps, rows
  <2>3. ASSUME NEW r \in Requests, StartResume(r) PROVE ActiveInv'
    <3>1. /\ att[r] \in Attempts /\ owner[att[r]] = ClientOf[r] /\ examOf[att[r]] = exam[r]
          /\ \A a \in Attempts : Running(a) /\ owner[a] = ClientOf[r] => examOf[a] = exam[r]
      BY <2>3 DEF StartResume, ActiveInv, StartSteps, TypeOK, AttemptSteps
    <3>2. /\ UNCHANGED <<owner, examOf, serverEnd, now>>
          /\ \A a \in Attempts : a # att[r] => status'[a] = status[a]
          /\ pc'[r] = "idle"
          /\ \A p \in Requests : p # r => /\ pc'[p] = pc[p] /\ att'[p] = att[p]
                                         /\ exam'[p] = exam[p]
      BY <2>3 DEF StartResume, Done, TypeOK
    <3>3. \A a \in Attempts : a # att[r] => (Running(a)' <=> Running(a))
      BY <3>2 DEF Running
    <3>4. OneActiveAttempt'
      BY <3>1, <3>2, <3>3 DEF ActiveInv, OneActiveAttempt
    <3>5. \A p \in Requests : p # r => ClientOf[p] # ClientOf[r]
      OBVIOUS
    <3>6. QED
      BY <3>1, <3>2, <3>3, <3>4, <3>5 DEF ActiveInv, StartSteps
  <2>4. ASSUME NEW r \in Requests, StartCheckPrior(r) PROVE ActiveInv'
    <3>1. /\ pc[r] = "prior" /\ pc'[r] \in {"idle", "create"} /\ UNCHANGED <<now, rows>>
          /\ pc'[r] = "create" => exam'[r] = exam[r]
          /\ \A p \in Requests : p # r => /\ pc'[p] = pc[p] /\ att'[p] = att[p]
                                         /\ exam'[p] = exam[p]
      BY <2>4 DEF StartCheckPrior, Done, Goto, TypeOK
    <3>2. \A a \in Attempts : Running(a)' <=> Running(a)
      BY <3>1 DEF Running, rows
    <3>3. OneActiveAttempt'
      BY <3>1, <3>2 DEF ActiveInv, OneActiveAttempt, rows
    <3>4. QED
      BY <3>1, <3>2, <3>3 DEF ActiveInv, StartSteps, rows
  <2>5. ASSUME NEW r \in Requests, StartCreate(r) PROVE ActiveInv'
    <3>1. PICK a \in Attempts :
             /\ status[a] = "NONE"
             /\ owner' = [owner EXCEPT ![a] = ClientOf[r]]
             /\ examOf' = [examOf EXCEPT ![a] = exam[r]]
             /\ \A b \in Attempts : b # a => status'[b] = status[b] /\ serverEnd'[b] = serverEnd[b]
      BY <2>5 DEF StartCreate, Exists, TypeOK
    <3>2. /\ now' = now /\ pc'[r] = "idle"
          /\ \A p \in Requests : p # r => /\ pc'[p] = pc[p] /\ att'[p] = att[p]
                                         /\ exam'[p] = exam[p]
      BY <2>5 DEF StartCreate, Done, TypeOK
    <3>3. \A b \in Attempts : b # a =>
             (Running(b)' <=> Running(b)) /\ owner'[b] = owner[b] /\ examOf'[b] = examOf[b]
      BY <3>1, <3>2 DEF Running, TypeOK
    <3>4. owner'[a] = ClientOf[r] /\ examOf'[a] = exam[r]
      BY <3>1 DEF TypeOK
    <3>5. \A b \in Attempts : Running(b) /\ owner[b] = ClientOf[r] => examOf[b] = exam[r]
      BY <2>5 DEF StartCreate, ActiveInv, StartSteps
    <3>6. OneActiveAttempt'
      BY <3>3, <3>4, <3>5 DEF ActiveInv, OneActiveAttempt
    <3>7. ASSUME NEW p \in Requests, pc'[p] \in StartSteps
          PROVE  \A b \in Attempts : Running(b)' /\ owner'[b] = ClientOf[p] => examOf'[b] = exam'[p]
      <4>1. p # r /\ ClientOf[p] # ClientOf[r] /\ pc[p] \in StartSteps /\ exam'[p] = exam[p]
        BY <3>2, <3>7 DEF StartSteps
      <4>2. QED
        BY <3>3, <3>4, <4>1 DEF ActiveInv
    <3>8. ASSUME NEW p \in Requests, pc'[p] = "resume"
          PROVE  owner'[att'[p]] = ClientOf[p] /\ examOf'[att'[p]] = exam'[p]
      <4>1. p # r /\ pc[p] = "resume" /\ att'[p] = att[p] /\ exam'[p] = exam[p]
        BY <3>2, <3>8
      <4>2. att[p] \in Attempts /\ att[p] # a
        BY <4>1, <3>1 DEF SlotInv, TypeOK, AttemptSteps, Exists
      <4>3. QED
        BY <3>3, <4>1, <4>2 DEF ActiveInv
    <3>9. QED
      BY <3>6, <3>7, <3>8 DEF ActiveInv
  <2> USE DEF QuietStep, TypeOK, StartSteps, rows, slots, Begin, Goto, GotoAt, Done
  <2>6. ASSUME NEW r \in Requests, Crash(r) PROVE ActiveInv'
    BY <2>6, <2>q DEF Crash
  <2>7. ASSUME NEW r \in Requests, NEW e \in Exams, StartAccess(r, e) PROVE ActiveInv'
    BY <2>7, <2>q DEF StartAccess
  <2>8. ASSUME NEW r \in Requests, NEW a \in Attempts,
               \/ SubmitRequest(r, a) \/ AutoSubmitRequest(r, a)
        PROVE  ActiveInv'
    BY <2>8, <2>q DEF SubmitRequest, AutoSubmitRequest
  <2>9. ASSUME NEW r \in Requests, NEW a \in Attempts, NEW step \in {"saveWrite", "switch"},
               NEW qs, CheckedRead(r, a, step, qs)
        PROVE  ActiveInv'
    BY <2>9, <2>q DEF CheckedRead
  <2>10. ASSUME NEW r \in Requests, NEW a \in Attempts, NEW qs, BulkSave(r, a, qs) PROVE ActiveInv'
    BY <2>10, <2>q DEF BulkSave
  <2>11. ASSUME NEW r \in Requests, NEW a \in Attempts, NEW v \in Verdicts, ReviewCreate(r, a, v)
         PROVE  ActiveInv'
    BY <2>11, <2>q DEF ReviewCreate
  <2>12. ASSUME NEW r \in Requests, NEW a \in Attempts, Terminate(r, a) PROVE ActiveInv'
    BY <2>12, <2>q DEF Terminate
  <2>13. ASSUME NEW r \in Requests, StartCreateFails(r) PROVE ActiveInv'
    BY <2>13, <2>q DEF StartCreateFails
  <2>14. ASSUME NEW r \in Requests, SubmitRead(r) \/ AutoSubmitRead(r) PROVE ActiveInv'
    BY <2>14, <2>q DEF SubmitRead, AutoSubmitRead
  <2>15. ASSUME NEW r \in Requests, NEW final \in FinalStatuses, Finalise(r, final) PROVE ActiveInv'
    BY <2>15, <2>q DEF Finalise, FinalStatuses
  <2>16. ASSUME NEW r \in Requests, FinaliseTail(r) PROVE ActiveInv'
    BY <2>16, <2>q DEF FinaliseTail
  <2>17. ASSUME NEW r \in Requests, Calculate(r) PROVE ActiveInv'
    BY <2>17, <2>q DEF Calculate
  <2>18. ASSUME NEW r \in Requests, WriteAnswer(r) \/ WriteLanguage(r) PROVE ActiveInv'
    BY <2>18, <2>q DEF WriteAnswer, WriteLanguage
  <2>19. ASSUME NEW r \in Requests, ReviewApply(r) \/ TerminateReview(r) PROVE ActiveInv'
    BY <2>19, <2>q DEF ReviewApply, TerminateReview
  <2>20. CASE Tick
    BY <2>20, <2>q DEF Tick
  <2>21. CASE UNCHANGED vars
    BY <2>21, <2>q DEF vars
  <2>22. ASSUME NEW r \in Requests, Arrive(r) PROVE ActiveInv'
    BY <2>22, <2>7, <2>8, <2>9, <2>10, <2>11, <2>12 DEF Arrive, SaveAnswer, SwitchLanguage
  <2>23. ASSUME NEW r \in Requests, Continue(r) PROVE ActiveInv'
    BY <2>23, <2>1, <2>2, <2>3, <2>4, <2>5, <2>13, <2>14, <2>15, <2>16, <2>17, <2>18, <2>19
    DEF Continue, SubmitCas, AutoSubmitCas, FinaliseFallback, TerminateCalculate, FinalStatuses
  <2>24. QED
    BY <2>6, <2>20, <2>21, <2>22, <2>23 DEF Next
<1>3. QED
  <2>1. ActiveInv => OneActiveAttempt
    BY DEF ActiveInv
  <2>2. QED
    BY <1>1, <1>2, <2>1, TypeCorrect, SlotsCorrect, PTL DEF Spec

-----------------------------------------------------------------------------
\* submitAttempt(), autoSubmitAttempt() and terminateAttempt(), in any order and
\* short of a crash, lead every submission to the result the mode allows.
THEOREM SubmissionsLeadOn == Spec => []SubmissionsEvaluated
  BY NoSubmissionLost, OutcomeCorrect, PTL DEF SubmissionsEvaluated

\* However the ways to finalise an attempt race, it is finalised once, and not
\* later than its end.
THEOREM FinalisedForGood == Spec => FinalisedOnce
  BY FinalStatusKept, AutoSubmitInTime DEF FinalisedOnce
=============================================================================
