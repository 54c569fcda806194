---------------------------- MODULE MCCandidate ----------------------------
(***************************************************************************)
(* What a candidate meets around an attempt: the paper (ExamPaper), the    *)
(* timing of its questions (QuestionTiming), the monitoring                *)
(* (ExamMonitoring), the marking (Marking) and the rank (RankAssignment).  *)
(* They share no state: a behaviour is one of one of them, so that their   *)
(* states are added and not multiplied.                                    *)
(*                                                                         *)
(* The populations that are ranked are those of every paper of a few       *)
(* questions, with the metrics that calculateResult() and the eligibility  *)
(* service derive from it, with the placeholder of a submission that is    *)
(* ranked before it is evaluated, and a student with two attempts.         *)
(***************************************************************************)
EXTENDS RankAssignment, ExamPaper, QuestionTiming, ExamMonitoring, MCMarking, TLC

\* The actors of all parts are {a1, a2}, the questions {q1, q2}
CONSTANTS a1, a2, q1, q2, AnswerCount, TimesUsed

\* 4 marks for a correct answer, 1 lost for a wrong one
AnsweredPaper(correct, wrong, used) ==
    [score |-> 4 * correct - wrong,
     accuracy |-> IF correct + wrong = 0 THEN 0
                  ELSE RoundedQuotient(10000 * correct, correct + wrong),
     lost |-> wrong, time |-> used, correct |-> correct, wrong |-> wrong,
     max |-> 4 * AnswerCount]
\* The row that a submission in a live exam leaves until it is evaluated
Placeholder == [m \in Metrics |-> 0]
PossiblePapers ==
    {AnsweredPaper(c, w, t) : c \in 0 .. AnswerCount, w \in 0 .. AnswerCount, t \in TimesUsed}
AnsweredPapers ==
    {p \in PossiblePapers : p.correct + p.wrong <= AnswerCount} \cup {Placeholder}

RankedStudent == [a \in Attempts |-> IF a = 1 THEN 1 ELSE 2]

\* The parts that a behaviour is not about stay at some paper and some questions
ASSUME CandidateAssumption == Papers # {} /\ QuestionRows # {}

VARIABLE part

CandidateInit ==
    /\ part \in {"rank", "paper", "timing", "monitoring", "marking"}
    /\ IF part = "rank" THEN Init
       ELSE /\ paper = [a \in Attempts |-> CHOOSE p \in Papers : TRUE]
            /\ mode = "ORDINAL" /\ sorted = <<>> /\ ranks = <<>>
            /\ currentRank = 1 /\ denseRank = 1
    /\ PaperInit /\ TimingInit /\ MonitorInit
    /\ IF part = "marking" THEN MarkingInit
       ELSE /\ questions = [q \in PaperQuestions |-> CHOOSE row \in QuestionRows : TRUE]
            /\ MarkingStart

\* A window or a reviewer that dies counts as one request more
CandidateNext ==
    \/ /\ part = "rank" /\ Next
       /\ UNCHANGED <<part, allPaperVars, timingVars, monitorVars, markingVars>>
    \/ /\ part = "paper" /\ PaperNext
       /\ UNCHANGED <<part, vars, timingVars, monitorVars, markingVars>>
    \/ /\ part = "timing" /\ TimingNext
       /\ UNCHANGED <<part, vars, allPaperVars, monitorVars, markingVars>>
    \/ /\ part = "monitoring" /\ MonitorNext /\ undertaken' + cuts' <= MaxUndertaken
       /\ UNCHANGED <<part, vars, allPaperVars, timingVars, markingVars>>
    \/ /\ part = "marking" /\ MarkingNext
       /\ UNCHANGED <<part, vars, allPaperVars, timingVars, monitorVars>>

CandidateSpec ==
    CandidateInit /\ [][CandidateNext]_<<part, vars, allPaperVars, timingVars, monitorVars, markingVars>>

\* Within the part a behaviour is about, these are interchangeable
CandidateSymmetry == Permutations({a1, a2}) \cup Permutations({q1, q2})

\* The rows and the local variables of every part have values of their types
CandidateTypeOK == TypeOK /\ PaperTypeOK /\ TimingTypeOK /\ MonitorTypeOK /\ MarkingTypeOK
=============================================================================
