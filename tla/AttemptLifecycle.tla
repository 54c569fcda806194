-------------------------- MODULE AttemptLifecycle --------------------------
(***************************************************************************)
(* Exam attempts: starting or resuming one, saving answers, submitting,    *)
(* auto-submitting, and an administrator's review or termination.          *)
(*                                                                         *)
(* Every HTTP handler of ExamAttemptService and SecurityReviewService runs *)
(* in a request slot.  A handler is a chain of awaited database calls; one *)
(* action models the code between two awaits, so handlers of the same      *)
(* student, of other students and of administrators interleave there.      *)
(* What the handler keeps in local variables over an await is in the slot: *)
(* the attempt, the exam, the instant and the answers it works on.         *)
(* A crash of the server forgets the local variables and keeps the rows.   *)
(***************************************************************************)
EXTENDS Naturals, FiniteSets

CONSTANTS
    Students,      \* candidates
    Exams,         \* exams of the platform
    LiveExams,     \* those isLiveExam() answers true for
    NoExam,        \* "no exam" in an idle request slot
    Languages,     \* languages enabled for the exams
    Questions,     \* questions of an exam
    Verdicts,      \* the review statuses administrators give
    Requests,      \* handlers the server can be running at one time
    ClientOf,      \* the student whose client issues the request
    AdminSlots,    \* those an administrator's client can use too
    WindowEnd,     \* end of an exam's schedule (beyond MaxTime: unscheduled)
    Duration,      \* durationMinutes, in ticks
    MaxAttempts,   \* bound: attempt rows ever created
    MaxTime,       \* bound: the clock stops here
    MaxCrashes     \* bound: crashes of a running handler

ASSUME AttemptAssumption ==
    /\ Students # {} /\ Exams # {} /\ Languages # {}
    /\ LiveExams \subseteq Exams
    /\ NoExam \notin Exams
    /\ Verdicts \subseteq {"PENDING", "CLEARED", "CONFIRMED", "DISQUALIFIED"}
    /\ ClientOf \in [Requests -> Students]
    /\ AdminSlots \subseteq Requests
    /\ WindowEnd \in [Exams -> Nat]
    /\ Duration \in Nat \ {0}
    /\ MaxAttempts \in Nat
    /\ MaxTime \in Nat
    /\ MaxCrashes \in Nat

VARIABLES
    now,           \* the server's clock
    status,        \* Attempt.status, "NONE" for a row not created yet
    owner,         \* Attempt.studentId
    examOf,        \* Attempt.examId
    language,      \* Attempt.languageId
    serverEnd,     \* Attempt.serverEndTime
    submittedAt,   \* Attempt.submittedAt
    disqualified,  \* Attempt.disqualifiedAt # null
    answers,       \* questions with an Answer row
    reviews,       \* statuses of the attempt's AttemptSecurityReview rows
    outcome,       \* what finalising has produced for the attempt
    pc,            \* the step a request slot is at
    att,           \* the attempt its handler works on
    exam,          \* the exam its handler works on
    at,            \* the instant its handler has read from the clock
    todo,          \* the answers its handler has still to write
    crashes        \* handlers lost to a crash so far

rows == <<status, owner, examOf, language, serverEnd, submittedAt,
          disqualified, answers, reviews, outcome>>
slots == <<pc, att, exam, at, todo>>
vars == <<now, rows, slots, crashes>>

Attempts == 1 .. MaxAttempts       \* in the order of createdAt
NoAttempt == 0

FinalStatuses == {"SUBMITTED", "AUTO_SUBMITTED"}
Statuses == {"NONE", "IN_PROGRESS"} \union FinalStatuses
ReviewStatuses == {"PENDING", "CLEARED", "CONFIRMED", "DISQUALIFIED"}
Outcomes == {"PENDING_WINDOW_CLOSE", "QUEUED", "CALCULATED"}
ExamSteps == {"access", "findActive", "prior", "create"}
AttemptSteps == {"resume", "submitRead", "submitCas", "autoRead", "autoCas",
                 "tail", "tailCalc", "saveWrite", "bulkWrite", "switch",
                 "disqualify", "clear", "termReview", "termCalc"}
Steps == {"idle"} \union ExamSteps \union AttemptSteps

IsLive(a) == examOf[a] \in LiveExams
Exists(a) == status[a] # "NONE"
IsFinal(a) == status[a] \in FinalStatuses
AttemptsOf(s, e) ==
    {a \in Attempts : Exists(a) /\ owner[a] = s /\ examOf[a] = e}

\* What becomes of the slot: a handler begins, moves on, or is done.
Begin(r, step, a, e, qs) ==
    /\ pc[r] = "idle"
    /\ pc' = [pc EXCEPT ![r] = step]
    /\ att' = [att EXCEPT ![r] = a]
    /\ exam' = [exam EXCEPT ![r] = e]
    /\ todo' = [todo EXCEPT ![r] = qs]
    /\ at' = at
Goto(r, step) ==
    /\ pc' = [pc EXCEPT ![r] = step]
    /\ UNCHANGED <<att, exam, at, todo>>
GotoAt(r, step, instant) ==
    /\ pc' = [pc EXCEPT ![r] = step]
    /\ at' = [at EXCEPT ![r] = instant]
    /\ UNCHANGED <<att, exam, todo>>
Done(r) ==
    /\ pc' = [pc EXCEPT ![r] = "idle"]
    /\ att' = [att EXCEPT ![r] = NoAttempt]
    /\ exam' = [exam EXCEPT ![r] = NoExam]
    /\ at' = [at EXCEPT ![r] = 0]
    /\ todo' = [todo EXCEPT ![r] = {}]

Least(x, y) == IF x <= y THEN x ELSE y

Init ==
    /\ now = 0
    /\ status = [a \in Attempts |-> "NONE"]
    /\ owner \in [Attempts -> {CHOOSE s \in Students : TRUE}]
    /\ examOf \in [Attempts -> {CHOOSE e \in Exams : TRUE}]
    /\ language \in [Attempts -> {CHOOSE l \in Languages : TRUE}]
    /\ serverEnd = [a \in Attempts |-> 0]
    /\ submittedAt = [a \in Attempts |-> 0]
    /\ disqualified = [a \in Attempts |-> FALSE]
    /\ answers = [a \in Attempts |-> {}]
    /\ reviews = [a \in Attempts |-> {}]
    /\ outcome = [a \in Attempts |-> {}]
    /\ pc = [r \in Requests |-> "idle"]
    /\ att = [r \in Requests |-> NoAttempt]
    /\ exam = [r \in Requests |-> NoExam]
    /\ at = [r \in Requests |-> 0]
    /\ todo = [r \in Requests |-> {}]
    /\ crashes = 0

-----------------------------------------------------------------------------
(* startAttempt                                                            *)

\* validateStudentAccess: the exam is open and its window has not ended.
StartAccess(r, e) ==
    /\ now < WindowEnd[e]
    /\ Begin(r, "access", NoAttempt, e, {})
    /\ UNCHANGED <<now, rows, crashes>>

\* Mutant: the check for attempts on other exams is forgotten.
StartCheckOthers_Unchecked(r) ==
    /\ pc[r] = "access"
    /\ GotoAt(r, "findActive", now)
    /\ UNCHANGED <<now, rows, crashes>>

\* The instant `now` of the handler is taken, and no attempt of the student
\* on another exam may be running at that instant.
StartCheckOthers(r) ==
    /\ pc[r] = "access"
    /\ IF \E a \in Attempts : /\ status[a] = "IN_PROGRESS"
                              /\ owner[a] = ClientOf[r]
                              /\ examOf[a] # exam[r]
                              /\ serverEnd[a] > now
       THEN Done(r)
       ELSE GotoAt(r, "findActive", now)
    /\ UNCHANGED <<now, rows, crashes>>

\* The student's latest running attempt on this exam: expired, it is submitted
\* instead of resumed; otherwise it is resumed.
StartFindActive(r) ==
    /\ pc[r] = "findActive"
    /\ LET active == {a \in AttemptsOf(ClientOf[r], exam[r]) :
                          status[a] = "IN_PROGRESS"}
       IN  \/ /\ active = {}
              /\ Goto(r, "prior")
           \/ \E a \in active :
                 /\ \A b \in active : b <= a
                 /\ att' = [att EXCEPT ![r] = a]
                 /\ pc' = [pc EXCEPT ![r] = IF at[r] >= serverEnd[a]
                                            THEN "submitRead" ELSE "resume"]
                 /\ UNCHANGED <<exam, at, todo>>
    /\ UNCHANGED <<now, rows, crashes>>

\* Mutant: the resumed row gets a status the seeds do not have.
StartResume_Interrupted(r) ==
    /\ pc[r] = "resume"
    /\ status' = [status EXCEPT ![att[r]] = "INTERRUPTED"]
    /\ Done(r)
    /\ UNCHANGED <<now, owner, examOf, language, serverEnd, submittedAt,
                   disqualified, answers, reviews, outcome, crashes>>

\* The row is put back to IN_PROGRESS, whatever it says by now; its questions
\* were created with it, so ensureAttemptQuestionsInitialized finds them.
StartResume(r) ==
    /\ pc[r] = "resume"
    /\ status' = [status EXCEPT ![att[r]] = "IN_PROGRESS"]
    /\ Done(r)
    /\ UNCHANGED <<now, owner, examOf, language, serverEnd, submittedAt,
                   disqualified, answers, reviews, outcome, crashes>>

\* Mutant: the Single Attempt Rule forgets auto-submitted attempts.
StartCheckPrior_SubmittedOnly(r) ==
    /\ pc[r] = "prior"
    /\ IF /\ exam[r] \in LiveExams
          /\ \E a \in AttemptsOf(ClientOf[r], exam[r]) : status[a] = "SUBMITTED"
       THEN Done(r)
       ELSE Goto(r, "create")
    /\ UNCHANGED <<now, rows, crashes>>

\* The Single Attempt Rule, for live exams only.
StartCheckPrior(r) ==
    /\ pc[r] = "prior"
    /\ IF /\ exam[r] \in LiveExams
          /\ \E a \in AttemptsOf(ClientOf[r], exam[r]) : IsFinal(a)
       THEN Done(r)
       ELSE Goto(r, "create")
    /\ UNCHANGED <<now, rows, crashes>>

\* The transaction that creates the attempt with its questions and options
\* (or times out: at the bound MaxAttempts it always does).
StartCreateFails(r) ==
    /\ pc[r] = "create"
    /\ Done(r)
    /\ UNCHANGED <<now, rows, crashes>>

StartCreate(r) ==
    /\ pc[r] = "create"
    /\ \E a \in Attempts, l \in Languages :
          /\ ~Exists(a)
          /\ \A b \in Attempts : ~Exists(b) => a <= b
          /\ status' = [status EXCEPT ![a] = "IN_PROGRESS"]
          /\ owner' = [owner EXCEPT ![a] = ClientOf[r]]
          /\ examOf' = [examOf EXCEPT ![a] = exam[r]]
          /\ language' = [language EXCEPT ![a] = l]
          /\ serverEnd' = [serverEnd EXCEPT ![a] =
                Least(at[r] + Duration, WindowEnd[exam[r]])]
    /\ Done(r)
    /\ UNCHANGED <<now, submittedAt, disqualified, answers, reviews, outcome,
                   crashes>>

-----------------------------------------------------------------------------
(* submitAttempt (also the student's "leave") and autoSubmitAttempt        *)

\* The client asks for a submission.  Ownership is verified when it is read.
SubmitRequest(r, a) ==
    /\ Exists(a)
    /\ owner[a] = ClientOf[r]
    /\ Begin(r, "submitRead", a, NoExam, {})
    /\ UNCHANGED <<now, rows, crashes>>

SubmitRead(r) ==
    /\ pc[r] = "submitRead"
    /\ IF status[att[r]] = "IN_PROGRESS"
       THEN GotoAt(r, "submitCas", now)
       ELSE Done(r)
    /\ UNCHANGED <<now, rows, crashes>>

\* Mutant: update by id, without the status in the where clause.
Finalise_Unconditional(r, final) ==
    /\ status' = [status EXCEPT ![att[r]] = final]
    /\ submittedAt' = [submittedAt EXCEPT ![att[r]] = at[r]]
    /\ Goto(r, "tail")
    /\ UNCHANGED <<now, owner, examOf, language, serverEnd, disqualified,
                   answers, reviews, outcome, crashes>>

\* updateMany(where id and IN_PROGRESS): the loser finds it already finalised.
Finalise(r, final) ==
    LET a == att[r]
    IN  /\ IF status[a] = "IN_PROGRESS"
           THEN /\ status' = [status EXCEPT ![a] = final]
                /\ submittedAt' = [submittedAt EXCEPT ![a] = at[r]]
                /\ Goto(r, "tail")
           ELSE /\ Done(r)
                /\ UNCHANGED <<status, submittedAt>>
        /\ UNCHANGED <<now, owner, examOf, language, serverEnd, disqualified,
                       answers, reviews, outcome, crashes>>

SubmitCas(r) == pc[r] = "submitCas" /\ Finalise(r, "SUBMITTED")

\* Any signed-in client may post auto-submit; it asks nothing of the status.
AutoSubmitRequest(r, a) ==
    /\ Exists(a)
    /\ Begin(r, "autoRead", a, NoExam, {})
    /\ UNCHANGED <<now, rows, crashes>>

\* Mutant: an auto-submit before the end of the attempt is ignored.
AutoSubmitRead_ExpiredOnly(r) ==
    /\ pc[r] = "autoRead"
    /\ IF now > serverEnd[att[r]]
       THEN GotoAt(r, "autoCas", serverEnd[att[r]])
       ELSE Done(r)
    /\ UNCHANGED <<now, rows, crashes>>

\* effectiveEndTime: never later than the attempt's end.
AutoSubmitRead(r) ==
    /\ pc[r] = "autoRead"
    /\ GotoAt(r, "autoCas", Least(now, serverEnd[att[r]]))
    /\ UNCHANGED <<now, rows, crashes>>

AutoSubmitCas(r) == pc[r] = "autoCas" /\ Finalise(r, "AUTO_SUBMITTED")

\* Mutant: a refused evaluation job is forgotten.
FinaliseTail_NoFallback(r) ==
    LET a == att[r]
    IN  /\ pc[r] = "tail"
        /\ \/ outcome' = [outcome EXCEPT ![a] = @ \union
                   {IF IsLive(a) THEN "PENDING_WINDOW_CLOSE" ELSE "QUEUED"}]
           \/ ~IsLive(a) /\ outcome' = outcome
        /\ Done(r)
        /\ UNCHANGED <<now, status, owner, examOf, language, serverEnd,
                       submittedAt, disqualified, answers, reviews, crashes>>

\* After winning: a live attempt gets the placeholder result, any other is
\* queued for evaluation, or calculated in the background when the queue
\* refuses the job.
FinaliseTail(r) ==
    LET a == att[r]
    IN  /\ pc[r] = "tail"
        /\ \/ /\ IsLive(a)
              /\ outcome' = [outcome EXCEPT ![a] = @ \union {"PENDING_WINDOW_CLOSE"}]
              /\ Done(r)
           \/ /\ ~IsLive(a)
              /\ outcome' = [outcome EXCEPT ![a] = @ \union {"QUEUED"}]
              /\ Done(r)
           \/ /\ ~IsLive(a)
              /\ outcome' = outcome
              /\ Goto(r, "tailCalc")
        /\ UNCHANGED <<now, status, owner, examOf, language, serverEnd,
                       submittedAt, disqualified, answers, reviews, crashes>>

\* calculateResult refuses an attempt that is not finalised; its callers
\* swallow the error.
Calculate(r) ==
    LET a == att[r]
    IN  /\ IF IsFinal(a)
           THEN outcome' = [outcome EXCEPT ![a] = @ \union {"CALCULATED"}]
           ELSE outcome' = outcome
        /\ Done(r)
        /\ UNCHANGED <<now, status, owner, examOf, language, serverEnd,
                       submittedAt, disqualified, answers, reviews, crashes>>

FinaliseFallback(r) == pc[r] = "tailCalc" /\ Calculate(r)

-----------------------------------------------------------------------------
(* saveAnswer, bulkSaveAnswers, switchAttemptLanguage                      *)

\* A request on an expired attempt is refused, and the refusal leaves an
\* auto-submit running in the background.
CheckedRead(r, a, step, qs) ==
    /\ status[a] = "IN_PROGRESS"
    /\ owner[a] = ClientOf[r]
    /\ IF now > serverEnd[a]
       THEN Begin(r, "autoRead", a, NoExam, {})
       ELSE Begin(r, step, a, NoExam, qs)
    /\ UNCHANGED <<now, rows, crashes>>

SaveAnswer(r, a, q) == CheckedRead(r, a, "saveWrite", {q})
SwitchLanguage(r, a) == CheckedRead(r, a, "switch", {})

\* The auto-save of several answers looks at the status only, not at the time.
BulkSave(r, a, qs) ==
    /\ status[a] = "IN_PROGRESS"
    /\ owner[a] = ClientOf[r]
    /\ Begin(r, "bulkWrite", a, NoExam, qs)
    /\ UNCHANGED <<now, rows, crashes>>

\* One upsert of one answer; the status is not looked at again.
WriteAnswer(r) ==
    /\ pc[r] = "saveWrite" \/ pc[r] = "bulkWrite"
    /\ \E q \in todo[r] :
          /\ answers' = [answers EXCEPT ![att[r]] = @ \union {q}]
          /\ IF todo[r] = {q}
             THEN Done(r)
             ELSE /\ todo' = [todo EXCEPT ![r] = @ \ {q}]
                  /\ UNCHANGED <<pc, att, exam, at>>
    /\ UNCHANGED <<now, status, owner, examOf, language, serverEnd,
                   submittedAt, disqualified, reviews, outcome, crashes>>

WriteLanguage(r) ==
    /\ pc[r] = "switch"
    /\ \E l \in Languages :
          language' = [language EXCEPT ![att[r]] = l]
    /\ Done(r)
    /\ UNCHANGED <<now, status, owner, examOf, serverEnd, submittedAt,
                   disqualified, answers, reviews, outcome, crashes>>

-----------------------------------------------------------------------------
(* reviewAttempt and terminateAttempt of SecurityReviewService             *)

\* The review row is created first; two of the verdicts then change the attempt.
ReviewCreate(r, a, verdict) ==
    /\ pc[r] = "idle"
    /\ r \in AdminSlots
    /\ Exists(a)
    /\ reviews' = [reviews EXCEPT ![a] = @ \union {verdict}]
    /\ \/ /\ verdict \in {"PENDING", "CONFIRMED"}
          /\ UNCHANGED slots
       \/ /\ verdict = "CLEARED"
          /\ Begin(r, "clear", a, NoExam, {})
       \/ /\ verdict = "DISQUALIFIED"
          /\ Begin(r, "disqualify", a, NoExam, {})
    /\ UNCHANGED <<now, status, owner, examOf, language, serverEnd,
                   submittedAt, disqualified, answers, outcome, crashes>>

ReviewApply(r) ==
    /\ pc[r] = "disqualify" \/ pc[r] = "clear"
    /\ disqualified' = [disqualified EXCEPT ![att[r]] = pc[r] = "disqualify"]
    /\ Done(r)
    /\ UNCHANGED <<now, status, owner, examOf, language, serverEnd,
                   submittedAt, answers, reviews, outcome, crashes>>

\* The seeds hold no TERMINATED status, so a terminated attempt is
\* AUTO_SUBMITTED, with the time of the termination, whatever it was before.
Terminate(r, a) ==
    /\ r \in AdminSlots
    /\ Exists(a)
    /\ status' = [status EXCEPT ![a] = "AUTO_SUBMITTED"]
    /\ submittedAt' = [submittedAt EXCEPT ![a] = now]
    /\ disqualified' = [disqualified EXCEPT ![a] = TRUE]
    /\ Begin(r, "termReview", a, NoExam, {})
    /\ UNCHANGED <<now, owner, examOf, language, serverEnd, answers, reviews,
                   outcome, crashes>>

TerminateReview(r) ==
    /\ pc[r] = "termReview"
    /\ reviews' = [reviews EXCEPT ![att[r]] = @ \union {"DISQUALIFIED"}]
    /\ Goto(r, "termCalc")
    /\ UNCHANGED <<now, status, owner, examOf, language, serverEnd,
                   submittedAt, disqualified, answers, outcome, crashes>>

TerminateCalculate(r) == pc[r] = "termCalc" /\ Calculate(r)

-----------------------------------------------------------------------------
(* Environment                                                             *)

Tick ==
    /\ now < MaxTime
    /\ now' = now + 1
    /\ UNCHANGED <<rows, slots, crashes>>

\* The process dies between two awaits of a handler.
Crash(r) ==
    /\ crashes < MaxCrashes
    /\ pc[r] # "idle"
    /\ crashes' = crashes + 1
    /\ Done(r)
    /\ UNCHANGED <<now, rows>>

\* A new request: a client's or an administrator's.
Arrive(r) ==
    \/ \E e \in Exams : StartAccess(r, e)
    \/ \E a \in Attempts :
          \/ SubmitRequest(r, a)
          \/ AutoSubmitRequest(r, a)
          \/ \E q \in Questions : SaveAnswer(r, a, q)
          \/ \E qs \in SUBSET Questions \ {{}} : BulkSave(r, a, qs)
          \/ SwitchLanguage(r, a)
          \/ \E v \in Verdicts : ReviewCreate(r, a, v)
          \/ Terminate(r, a)

\* A handler the server is already running takes its next step.
Continue(r) ==
    \/ StartCheckOthers(r) \/ StartFindActive(r) \/ StartResume(r)
    \/ StartCheckPrior(r) \/ StartCreate(r) \/ StartCreateFails(r)
    \/ SubmitRead(r) \/ SubmitCas(r)
    \/ AutoSubmitRead(r) \/ AutoSubmitCas(r)
    \/ FinaliseTail(r) \/ FinaliseFallback(r)
    \/ WriteAnswer(r) \/ WriteLanguage(r)
    \/ ReviewApply(r) \/ TerminateReview(r) \/ TerminateCalculate(r)

Next ==
    \/ Tick
    \/ \E r \in Requests : Arrive(r) \/ Continue(r) \/ Crash(r)

Spec == Init /\ [][Next]_vars

\* The event loop runs every pending continuation.
FairSpec == Spec /\ \A r \in Requests : WF_vars(Continue(r))

-----------------------------------------------------------------------------
(* Properties                                                              *)

TypeOK ==
    /\ now \in Nat
    /\ status \in [Attempts -> Statuses]
    /\ owner \in [Attempts -> Students]
    /\ examOf \in [Attempts -> Exams]
    /\ language \in [Attempts -> Languages]
    /\ serverEnd \in [Attempts -> Nat]
    /\ submittedAt \in [Attempts -> Nat]
    /\ disqualified \in [Attempts -> BOOLEAN]
    /\ answers \in [Attempts -> SUBSET Questions]
    /\ reviews \in [Attempts -> SUBSET ReviewStatuses]
    /\ outcome \in [Attempts -> SUBSET Outcomes]
    /\ pc \in [Requests -> Steps]
    /\ att \in [Requests -> Attempts \union {NoAttempt}]
    /\ exam \in [Requests -> Exams \union {NoExam}]
    /\ at \in [Requests -> Nat]
    /\ todo \in [Requests -> SUBSET Questions]
    /\ crashes \in Nat
    /\ \A r \in Requests : pc[r] \in ExamSteps => exam[r] \in Exams
    /\ \A r \in Requests : pc[r] \in AttemptSteps => att[r] \in Attempts

\* A finalised attempt always has something that leads to a result: the
\* placeholder, an evaluation job, a calculated result, or the handler that is
\* about to produce one.  Only a crash between the compare-and-swap of the
\* status and the rest of submitAttempt or autoSubmitAttempt can lose it.
ProducesOutcome == {"tail", "tailCalc", "termReview", "termCalc"}

NoOrphanedSubmission ==
    crashes = 0 =>
        \A a \in Attempts : IsFinal(a) =>
            \/ outcome[a] # {}
            \/ \E r \in Requests : att[r] = a /\ pc[r] \in ProducesOutcome

\* Submitting never has a live attempt evaluated: before its window closes it
\* has the placeholder and nothing else, unless a security administrator
\* terminated it (terminateAttempt leaves a DISQUALIFIED review and calculates).
\* And no mock attempt is ever parked behind a placeholder nobody will lift.
OutcomeFitsMode ==
    \A a \in Attempts :
        IF IsLive(a)
        THEN /\ "QUEUED" \notin outcome[a]
             /\ "CALCULATED" \in outcome[a] => "DISQUALIFIED" \in reviews[a]
        ELSE "PENDING_WINDOW_CLOSE" \notin outcome[a]

\* What finalising an attempt leads to: every submission has something that
\* leads to a result, and never to one that the mode of the exam rules out.
SubmissionsEvaluated == NoOrphanedSubmission /\ OutcomeFitsMode

\* Whoever loses the race to finalise an attempt leaves it alone: a finalised
\* status is overwritten by the resume step of a startAttempt that had read it
\* IN_PROGRESS, and by an administrator's termination, and by nothing else.
FinalStatusStable ==
    [][\A a \in Attempts : IsFinal(a) /\ status'[a] # status[a] =>
          \/ \E r \in Requests : pc[r] = "resume" /\ att[r] = a
          \/ disqualified'[a]]_vars

\* A late auto-submit never stretches an attempt: its submission time is cut at
\* serverEndTime, however long the expiry went unnoticed.
AutoSubmitWithinTime ==
    [][\A a \in Attempts :
          /\ status[a] = "IN_PROGRESS"
          /\ status'[a] = "AUTO_SUBMITTED"
          /\ ~disqualified'[a]
          => submittedAt'[a] <= serverEnd[a]]_vars

\* An attempt is finalised once, and within its time.
FinalisedOnce == FinalStatusStable /\ AutoSubmitWithinTime

\* The Single Attempt Rule: at most one attempt of a student on a live exam.
SingleLiveAttempt ==
    \A a, b \in Attempts :
        /\ Exists(a) /\ Exists(b) /\ a # b
        /\ owner[a] = owner[b] /\ examOf[a] = examOf[b]
        => ~IsLive(a)

\* The One Active Attempt Rule: a student never has running attempts on two exams.
Running(a) == status[a] = "IN_PROGRESS" /\ serverEnd[a] > now

OneActiveAttempt ==
    \A a, b \in Attempts :
        Running(a) /\ Running(b) /\ owner[a] = owner[b] => examOf[a] = examOf[b]

\* Every submission is eventually followed by a result in the making, unless
\* the attempt is put back in progress.
SubmissionIsFollowedUp ==
    \A a \in Attempts : IsFinal(a) ~> (outcome[a] # {} \/ ~IsFinal(a))

\* saveAnswer tells the student that the expired attempt has been submitted:
\* the auto-submit it leaves behind does finalise the attempt.
ExpiryIsFinalised ==
    \A a \in Attempts :
        (\E r \in Requests : pc[r] = "autoRead" /\ att[r] = a) ~> IsFinal(a)

\* An attempt that is over, because it was submitted or because a student was
\* told so, ends in the result it must lead to.
EveryAttemptEnds == SubmissionIsFollowedUp /\ ExpiryIsFinalised
=============================================================================
