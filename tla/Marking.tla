------------------------------ MODULE Marking ------------------------------
(***************************************************************************)
(* How the answers of one attempt are marked.  Four services read the same *)
(* rows, each with a copy of the comparison with the key and of the test   *)
(* whether a question was attempted: the calculation of the result, the    *)
(* performance analysis made from it, the strategy analysis and the time   *)
(* analysis.  The last two are made when somebody first asks, at any time, *)
(* and kept for good.                                                      *)
(*                                                                         *)
(* Options are numbered in their order.  A numerical key and answer count  *)
(* in units of 0.0005, so that the tolerance of 0.001 is 2.  Nothing       *)
(* writes an ExamScoringRule, so the marks of a question are its own or    *)
(* the default of the exam.  The time logs are those of the submission.    *)
(***************************************************************************)
EXTENDS Integers, FiniteSets, FiniteSetsExt

CONSTANTS
    PaperQuestions,   \* the questions of the paper
    QuestionRows,     \* what a question of a paper may be, and
    AnswerRows,       \* what a client may send for one
    MaxAnswers,       \* answers that the client sends
    DefaultMarks, DefaultPenalty,
    AverageTime,      \* time used per question of the paper, in seconds
    Benchmark,        \* time allowed per question
    Default,          \* no marks of its own
    NoOption, NoList, NoNumber, NoAnswer, NoRow

ASSUME MarkingAssumption ==
    /\ IsFiniteSet(PaperQuestions) /\ PaperQuestions # {}
    /\ MaxAnswers \in Nat
    /\ DefaultMarks \in Int /\ DefaultPenalty \in Int
    /\ AverageTime \in Nat /\ Benchmark \in Nat
    /\ NoAnswer \notin AnswerRows
    /\ \A row \in QuestionRows :
          /\ row.correct \subseteq Nat
          /\ row.marks \in Int \cup {Default} /\ row.penalty \in Int \cup {Default}
          /\ row.spent \in Nat
    /\ NoOption \notin Nat

VARIABLES
    questions,   \* the ExamQuestion rows with their questions, options and time logs
    answers,     \* the Answer rows
    saving,      \* answers whose request found the attempt in progress
    sent,        \* the number of answers sent
    submitted,
    result,      \* the Result row, and
    subjects,    \* its SubjectResult rows
    analysis,    \* what the performance analysis shows
    strategy,    \* the StrategyAnalysis row
    timing,      \* the TimeAnalysis row
    late,        \* an answer was written after the result was made
    apart        \* the last three that were made from other rows than the result

answerVars == <<answers, saving, sent>>
reportVars == <<analysis, strategy, timing>>
markingVars == <<questions, answerVars, submitted, result, subjects, reportVars, late, apart>>

-----------------------------------------------------------------------------
Total(S, weight) == SumFunctionOnSet(weight, S)
AtLeastZero(n) == IF n < 0 THEN 0 ELSE n
Distance(m, n) == IF m < n THEN n - m ELSE m - n

\* The forms, and the import of questions, want marks and penalties that are not
\* negative; the import of papers writes what the sheet says.
MarksOf == [q \in PaperQuestions |->
    IF questions[q].marks = Default THEN DefaultMarks ELSE questions[q].marks]
PenaltyOf == [q \in PaperQuestions |->
    IF questions[q].penalty = Default THEN DefaultPenalty ELSE questions[q].penalty]

\* evaluateAnswer(): the comparison with the key, by the code of the question type.
EvaluateAnswer(q, a) ==
    LET correct == questions[q].correct
        key == questions[q].key
    IN
    CASE questions[q].code \in {"SCQ", "TF", "AR"} ->
            correct # {} /\ a.option = Min(correct)
      [] questions[q].code = "MCQ" -> a.list \notin {NoList, {}} /\ a.list = correct
      [] questions[q].code = "NUM" ->
            /\ a.number # NoNumber
            /\ \/ key.kind = "exact" /\ Distance(a.number, key.low) < 2
               \/ key.kind = "range" /\ key.low <= a.number /\ a.number <= key.high
      [] OTHER -> FALSE

\* Its copies in the other services.
AnalysisCorrect(q, a) == EvaluateAnswer(q, a)
StrategyCorrect(q, a) == EvaluateAnswer(q, a)
TimingCorrect(q, a) == EvaluateAnswer(q, a)

\* The result, the performance and the time analysis take any stored list for
\* an answer; the strategy analysis, like the review of the questions, wants
\* one that is not empty.
HasAnswer(a) == a # NoAnswer /\ (a.option # NoOption \/ a.number # NoNumber \/ a.list # NoList)
ResultAttempted(q) == HasAnswer(answers[q])
\* Mutant: the number 0 is taken for no answer
AnalysisAttempted_Truthy(q) ==
    HasAnswer(answers[q]) /\ answers[q].number # 0
AnalysisAttempted(q) == HasAnswer(answers[q])
TimingAttempted(q) == HasAnswer(answers[q])
StrategyAttempted(q) ==
    /\ answers[q] # NoAnswer
    /\ \/ answers[q].option # NoOption
       \/ answers[q].number # NoNumber
       \/ answers[q].list \notin {NoList, {}}

-----------------------------------------------------------------------------
MarkingStart ==
    /\ answers = [q \in PaperQuestions |-> NoAnswer]
    /\ saving = {} /\ sent = 0
    /\ submitted = FALSE
    /\ result = NoRow /\ subjects = NoRow
    /\ analysis = NoRow /\ strategy = NoRow /\ timing = NoRow
    /\ late = FALSE /\ apart = {}

MarkingInit == questions \in [PaperQuestions -> QuestionRows] /\ MarkingStart

\* saveAnswer() and bulkSaveAnswers() find the attempt in progress ...
SaveAnswerRead(q, a) ==
    /\ ~submitted
    /\ sent < MaxAnswers
    /\ sent' = sent + 1
    /\ saving' = saving \cup {<<q, a>>}
    /\ UNCHANGED <<questions, answers, submitted, result, subjects, reportVars, late, apart>>

\* ... and replace the whole row, whatever the type of the question and whatever
\* has become of the attempt: the answer may arrive after the submission, and
\* after the result.  A time analysis that was made before the result is then
\* made from other answers.
SaveAnswerWrite(q, a) ==
    /\ <<q, a>> \in saving
    /\ saving' = saving \ {<<q, a>>}
    /\ answers' = [answers EXCEPT ![q] = a]
    /\ late' = (late \/ result # NoRow)
    /\ apart' = IF result = NoRow /\ timing # NoRow THEN apart \cup {"timing"} ELSE apart
    /\ UNCHANGED <<questions, sent, submitted, result, subjects, reportVars>>

SubmitPaper ==
    /\ ~submitted
    /\ submitted' = TRUE
    /\ UNCHANGED <<questions, answerVars, result, subjects, reportVars, late, apart>>

\* The row of a set of questions: of the paper, or of one of its subjects.
Marked(Qs) ==
    LET Tried == {q \in Qs : ResultAttempted(q)}
        Right == {q \in Tried : EvaluateAnswer(q, answers[q])}
    IN  [correct |-> Cardinality(Right), wrong |-> Cardinality(Tried \ Right),
         unattempted |-> Cardinality(Qs \ Tried),
         score |-> AtLeastZero(Total(Right, MarksOf) - Total(Tried \ Right, PenaltyOf)),
         max |-> Total(Qs, MarksOf)]

PaperSubjects == {questions[q].subject : q \in PaperQuestions}

\* calculateResult(): a complete result is kept.
CalculateResult ==
    /\ submitted
    /\ result = NoRow
    /\ result' = Marked(PaperQuestions)
    /\ subjects' = [s \in PaperSubjects |->
                       Marked({q \in PaperQuestions : questions[q].subject = s})]
    /\ UNCHANGED <<questions, answerVars, submitted, reportVars, late, apart>>

\* generateFullAnalysis(): a question with an answer but without a time log
\* counts with the average time.
TimeOn == [q \in PaperQuestions |->
    IF questions[q].spent = 0 /\ answers[q] # NoAnswer THEN AverageTime ELSE questions[q].spent]

PerformanceRow ==
    LET Tried == {q \in PaperQuestions : AnalysisAttempted(q)}
        Right == {q \in Tried : AnalysisCorrect(q, answers[q])}
        lost == Total(Tried \ Right, PenaltyOf)
    IN  [correct |-> Cardinality(Right), wrong |-> Cardinality(Tried \ Right),
         unattempted |-> Cardinality(PaperQuestions \ Tried),
         lost |-> lost, potential |-> result.score + lost,
         wasted |-> Total(PaperQuestions \ Right, TimeOn)]

\* A report stands apart from the result when it was made while the exam went
\* on, when an answer came after the result or, for one that copies the result,
\* when there was none.
MadeApart(report, wantsResult) ==
    apart' = IF ~submitted \/ late \/ (wantsResult /\ result = NoRow)
             THEN apart \cup {report} ELSE apart

AnalysePerformance ==
    /\ result # NoRow
    /\ analysis = NoRow
    /\ analysis' = PerformanceRow
    /\ MadeApart("analysis", TRUE)
    /\ UNCHANGED <<questions, answerVars, submitted, result, subjects, strategy, timing, late>>

\* calculateMetrics(), stored by generateStrategyAnalysis() for good.  A penalty
\* below zero counts as none here.  Wrong answers to hard questions, or to ones
\* with more than the usual penalty, are the avoidable ones.  Without a result
\* the score counts as 0.
StrategyPenalty == [q \in PaperQuestions |-> AtLeastZero(PenaltyOf[q])]
Risky == {q \in PaperQuestions :
             questions[q].hard \/ (DefaultPenalty # 0 /\ StrategyPenalty[q] > DefaultPenalty)}

StrategyRow ==
    LET Tried == {q \in PaperQuestions : StrategyAttempted(q)}
        Wrong == {q \in Tried : ~StrategyCorrect(q, answers[q])}
        obtained == IF result = NoRow THEN 0 ELSE result.score
        attainable == IF result = NoRow THEN Total(PaperQuestions, MarksOf) ELSE result.max
        avoidable == Total(Wrong \cap Risky, StrategyPenalty)
    IN  [attempted |-> Cardinality(Tried), wrong |-> Cardinality(Wrong),
         lost |-> Total(Wrong, StrategyPenalty), obtained |-> obtained,
         projected |-> Min({attainable, obtained + avoidable})]

AnalyseStrategy ==
    /\ strategy = NoRow
    /\ strategy' = StrategyRow
    /\ MadeApart("strategy", TRUE)
    /\ UNCHANGED <<questions, answerVars, submitted, result, subjects, analysis, timing, late>>

\* generateTimeAnalysis(): the outcome of each question, and the time that wrong
\* answers took beyond the benchmark.
Beyond == [q \in PaperQuestions |-> AtLeastZero(questions[q].spent - Benchmark)]

TimingRow ==
    LET Tried == {q \in PaperQuestions : TimingAttempted(q)}
        Wrong == {q \in Tried : ~TimingCorrect(q, answers[q])}
    IN  [correct |-> Cardinality(Tried \ Wrong), wrong |-> Cardinality(Wrong),
         unattempted |-> Cardinality(PaperQuestions \ Tried), wasted |-> Total(Wrong, Beyond)]

AnalyseTime ==
    /\ timing = NoRow
    /\ timing' = TimingRow
    /\ MadeApart("timing", FALSE)
    /\ UNCHANGED <<questions, answerVars, submitted, result, subjects, analysis, strategy, late>>

\* The loss that the eligibility service hands to the ranking.
RankedLoss == result.wrong * DefaultPenalty

MarkingNext ==
    \/ \E q \in PaperQuestions, a \in AnswerRows : SaveAnswerRead(q, a) \/ SaveAnswerWrite(q, a)
    \/ SubmitPaper
    \/ CalculateResult
    \/ AnalysePerformance
    \/ AnalyseStrategy
    \/ AnalyseTime

MarkingSpec == MarkingInit /\ [][MarkingNext]_markingVars

-----------------------------------------------------------------------------
MarkedRows == [correct : Nat, wrong : Nat, unattempted : Nat, score : Nat, max : Int]
PerformanceRows ==
    [correct : Nat, wrong : Nat, unattempted : Nat, lost : Int, potential : Int, wasted : Nat]
StrategyRows == [attempted : Nat, wrong : Nat, lost : Nat, obtained : Nat, projected : Int]
TimingRows == [correct : Nat, wrong : Nat, unattempted : Nat, wasted : Nat]

MarkingTypeOK ==
    /\ questions \in [PaperQuestions -> QuestionRows]
    /\ answers \in [PaperQuestions -> AnswerRows \cup {NoAnswer}]
    /\ saving \subseteq PaperQuestions \X AnswerRows /\ sent \in 0 .. MaxAnswers
    /\ submitted \in BOOLEAN
    /\ result # NoRow => result \in MarkedRows
    /\ subjects # NoRow => subjects \in [PaperSubjects -> MarkedRows]
    /\ analysis # NoRow => analysis \in PerformanceRows
    /\ strategy # NoRow => strategy \in StrategyRows
    /\ timing # NoRow => timing \in TimingRows
    /\ late \in BOOLEAN
    /\ apart \subseteq {"analysis", "strategy", "timing"}

Outcomes(row) == <<row.correct, row.wrong, row.unattempted>>
Cleared == {q \in PaperQuestions : AnalysisAttempted(q) /\ ~StrategyAttempted(q)}

\* Whoever counts, the outcome of every question is the same: the result, the
\* performance and the time analysis agree, and the strategy analysis differs
\* only by lists that were cleared, which it misses both as attempted and as
\* wrong.  An answer that comes late changes none of this, nor the number of
\* those lists until one does.
SameOutcomes ==
    result # NoRow =>
        /\ analysis # NoRow /\ "analysis" \notin apart => Outcomes(analysis) = Outcomes(result)
        /\ timing # NoRow /\ "timing" \notin apart => Outcomes(timing) = Outcomes(result)
        /\ strategy # NoRow /\ "strategy" \notin apart =>
              LET missed == result.wrong - strategy.wrong IN
              /\ missed >= 0
              /\ strategy.attempted = result.correct + result.wrong - missed
              /\ ~late => missed = Cardinality(Cleared)

\* The subjects of a result add up to it: exactly in questions, outcomes and
\* attainable marks, and in marks unless a subject or the paper ended below
\* zero; then the subjects show more.
SubjectsAddUp ==
    result # NoRow =>
        LET Sum(f) == Total(PaperSubjects, [s \in PaperSubjects |-> subjects[s][f]])
        IN  /\ \A f \in {"correct", "wrong", "unattempted", "max"} : Sum(f) = result[f]
            /\ Sum("score") >= result.score
            /\ (\A s \in PaperSubjects : subjects[s].score > 0) => Sum("score") = result.score

\* No question was imported with negative marks or a negative penalty.
NoneNegative == \A q \in PaperQuestions : MarksOf[q] >= 0 /\ PenaltyOf[q] >= 0

\* What the performance analysis calls the potential marks are the marks of the
\* correct answers, and more only when the score ended at zero; the loss that
\* orders the ranks is the lost marks unless a question has a penalty of its own;
\* and unless a paper has negative marks or penalties (NoneNegative), the strategy
\* analysis never blames more lost marks than the performance analysis, nor projects
\* a score beyond what is attainable or below what was obtained.
LossesAccounted ==
    LET Right == {q \in PaperQuestions : ResultAttempted(q) /\ EvaluateAnswer(q, answers[q])}
    IN
    analysis # NoRow /\ "analysis" \notin apart =>
        /\ ~late => /\ analysis.potential >= Total(Right, MarksOf)
                    /\ result.score > 0 => analysis.potential = Total(Right, MarksOf)
        /\ (\A q \in PaperQuestions : questions[q].penalty = Default) => RankedLoss = analysis.lost
        /\ strategy # NoRow /\ "strategy" \notin apart =>
              /\ strategy.obtained = result.score
              /\ NoneNegative =>
                    /\ strategy.lost <= analysis.lost
                    /\ strategy.projected \in result.score .. Min({result.max, analysis.potential})
        /\ timing # NoRow /\ "timing" \notin apart => timing.wasted <= analysis.wasted

\* The four services tell one student one story, except a report that stands
\* apart from the result (apart): one that was made before it, or that an
\* answer saved in a race with the submission separates from it.
MarksAgree == SameOutcomes /\ SubjectsAddUp /\ LossesAccounted

\* The options a type of question asks for: prisma/seeders/01-master-data.seeder.ts
\* names a type SINGLE_CORRECT "Single Choice Correct".  An answer that selects
\* the correct option of such a question counts as correct.
CorrectOptionsCount ==
    result # NoRow /\ ~late =>
        result.correct >= Cardinality({q \in PaperQuestions :
            /\ answers[q] # NoAnswer
            /\ questions[q].type = "SINGLE_CORRECT"
            /\ answers[q].option \in questions[q].correct})
=============================================================================
