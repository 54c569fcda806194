---------------------------- MODULE QuestionBank ----------------------------
(***************************************************************************)
(* The questions of the bank: drafting, editing, review, versions, removal *)
(* and the exams they are on.                                              *)
(*                                                                         *)
(* Every operation reads the question, checks its status, and writes it by *)
(* its id in a transaction of its own, with what it had read; others come  *)
(* in between.  The stem, the options and the answer of a question are its *)
(* text, and every edit makes a new one.  Translations and answer keys     *)
(* write it too, in place and whatever the status is.  Who may ask for     *)
(* what is settled by roles before: an edit of a question under review is  *)
(* one of its author or of a super admin.                                  *)
(***************************************************************************)
EXTENDS Naturals, FiniteSets

CONSTANTS
    Editors,    \* the members of the staff, one operation at a time each
    Questions,  \* the ids of questions
    MaxTasks,   \* bound on the operations the staff begins
    NoQuestion

ASSUME BankAssumption ==
    /\ MaxTasks \in Nat
    /\ NoQuestion \notin Questions

VARIABLES
    question,   \* Question.status, "NONE" before the row and "GONE" after it
    text,       \* its content, numbered in the order of the edits
    version,    \* Question.version
    parent,     \* Question.parentQuestionId
    trail,      \* toStatus of its newest row of QuestionReviewHistory
    listed,     \* the questions on an exam: they have rows of ExamQuestion
    queued,     \* questions with a PENDING request in the approval queue
    desk,       \* the operation each member of the staff is in
    tasks,      \* operations the staff may still begin
    agreed,     \* history: the text the last approval had read
    gaps,       \* history: questions with a history row whose fromStatus is
                \* not the toStatus of the row before
    mixed,      \* history: questions on which two operations overlapped
    unsettled,  \* history: those where one of the two was an approval
    withdrawn,  \* history: those whose request in the queue was cancelled
    overwritten,    \* history: those whose text was written in place when they
                    \* were approved, or were being approved
    planted     \* history: those created by an exam, not through the bank

questionVars == <<question, text, version, parent, trail>>
reviewVars == <<agreed, gaps, withdrawn, overwritten, planted>>
bankVars == <<questionVars, listed, queued, desk, tasks, reviewVars, mixed, unsettled>>

Kept == {"DRAFT", "SUBMITTED", "UNDER_REVIEW", "APPROVED", "REJECTED", "ARCHIVED"}
QuestionStatuses == Kept \cup {"NONE", "GONE"}
InBank(q) == question[q] \in Kept

Reads == {"edit", "submit", "review", "approve", "reject", "archive", "delete"}
DeskSteps == Reads \cup {"off", "version", "retire", "erase"}
AtRest == [step |-> "off", at |-> NoQuestion, was |-> "NONE", read |-> 0]
Occupied(q) == {u \in Editors : desk[u].at = q}

Leave(u) == desk' = [desk EXCEPT ![u] = AtRest] /\ UNCHANGED tasks
GoOn(u, step) == desk' = [desk EXCEPT ![u].step = step] /\ UNCHANGED tasks

-----------------------------------------------------------------------------
(* Drafting, and what an operation checks before its transaction *)

\* A question begins as a draft of version 1; a version of an approved one as a
\* draft of the next.  Its history begins with this row.
Draft(q, n, from) ==
    /\ question[q] = "NONE"
    /\ question' = [question EXCEPT ![q] = "DRAFT"]
    /\ text' = [text EXCEPT ![q] = 1]
    /\ version' = [version EXCEPT ![q] = n]
    /\ parent' = [parent EXCEPT ![q] = from]
    /\ trail' = [trail EXCEPT ![q] = "DRAFT"]

CreateQuestion(q) ==
    /\ Draft(q, 1, NoQuestion)
    /\ UNCHANGED <<listed, queued, reviewVars, mixed, unsettled>>

\* The statuses in which each operation is accepted
Accepts(step) ==
    CASE step = "edit" -> Kept \ {"ARCHIVED"}
      [] step = "submit" -> {"DRAFT", "REJECTED"}
      [] step = "review" -> {"SUBMITTED"}
      [] step \in {"approve", "reject"} -> {"SUBMITTED", "UNDER_REVIEW"}
      [] step = "archive" -> Kept \ {"ARCHIVED"}
      [] step = "delete" -> Kept

\* Mutant: an approved question is edited in place
EditStep_InPlace(q) == "edit"
\* An approved question is not edited: the edit becomes a new version
EditStep(q) == IF question[q] = "APPROVED" THEN "version" ELSE "edit"

\* History records what an operation that starts on q overlaps with
Overlap(u, q, step) ==
    LET others == Occupied(q) \ {u} IN
    /\ mixed' = mixed \cup (IF others = {} THEN {} ELSE {q})
    /\ unsettled' = unsettled \cup
         (IF others # {} /\ (step = "approve" \/ \E v \in others : desk[v].step = "approve")
          THEN {q} ELSE {})

OpenQuestion(u, q, step) ==
    /\ desk[u] = AtRest
    /\ question[q] \in Accepts(step)
    /\ desk' = [desk EXCEPT ![u] =
                  [step |-> IF step = "edit" THEN EditStep(q) ELSE step,
                   at |-> q, was |-> question[q], read |-> text[q]]]
    /\ Overlap(u, q, step)
    /\ UNCHANGED <<questionVars, listed, queued, reviewVars>>

-----------------------------------------------------------------------------
(* The transactions: they write by id, and fail when the row is gone *)

\* The status and a row of history that says which status was read before
Move(u, to) ==
    LET q == desk[u].at IN
    /\ question' = [question EXCEPT ![q] = to]
    /\ trail' = [trail EXCEPT ![q] = to]
    /\ gaps' = gaps \cup (IF trail[q] = desk[u].was THEN {} ELSE {q})

\* What becomes of the status in a transaction of this kind
MovesTo(step) ==
    CASE step = "submit" -> "SUBMITTED"
      [] step = "review" -> "UNDER_REVIEW"
      [] step = "approve" -> "APPROVED"
      [] step = "reject" -> "REJECTED"
      [] step = "archive" -> "ARCHIVED"

MoveCommit(u) ==
    LET q == desk[u].at IN
    /\ desk[u].step \in {"submit", "review", "approve", "reject", "archive"}
    /\ InBank(q)
    /\ Move(u, MovesTo(desk[u].step))
    /\ agreed' = IF desk[u].step = "approve"
                 THEN [agreed EXCEPT ![q] = desk[u].read] ELSE agreed
    /\ Leave(u)
    /\ UNCHANGED <<text, version, parent, listed, queued, withdrawn, overwritten, planted, mixed, unsettled>>

\* The status is written back as it was read, a rejected question as a draft
EditCommit(u) ==
    LET q == desk[u].at
        was == desk[u].was IN
    /\ desk[u].step = "edit"
    /\ InBank(q)
    /\ Move(u, IF was = "REJECTED" THEN "DRAFT" ELSE was)
    /\ text' = [text EXCEPT ![q] = @ + 1]
    /\ Leave(u)
    /\ UNCHANGED <<version, parent, listed, queued, agreed, withdrawn, overwritten, planted, mixed, unsettled>>

\* Mutant: the new version keeps the number of the old one
VersionCommit_SameNumber(u, q) ==
    LET old == desk[u].at IN
    /\ desk[u].step = "version"
    /\ InBank(old)
    /\ Draft(q, version[old], old)
    /\ Leave(u)
    /\ UNCHANGED <<listed, queued, reviewVars, mixed, unsettled>>

\* The new version is a child of the question the edit was of
VersionCommit(u, q) ==
    LET old == desk[u].at IN
    /\ desk[u].step = "version"
    /\ InBank(old)
    /\ Draft(q, version[old] + 1, old)
    /\ Leave(u)
    /\ UNCHANGED <<listed, queued, reviewVars, mixed, unsettled>>

-----------------------------------------------------------------------------
(* What writes to the questions from elsewhere *)

\* A test generated from a file, or a paper import, creates questions of its own,
\* approved by whoever asks for it or as drafts, and writes no history
PlantQuestion(q) ==
    /\ question[q] = "NONE"
    /\ \E status \in {"DRAFT", "APPROVED"} :
          /\ question' = [question EXCEPT ![q] = status]
          /\ agreed' = [agreed EXCEPT ![q] = IF status = "APPROVED" THEN 1 ELSE 0]
    /\ text' = [text EXCEPT ![q] = 1]
    /\ version' = [version EXCEPT ![q] = 1]
    /\ parent' = [parent EXCEPT ![q] = NoQuestion]
    /\ planted' = planted \cup {q}
    /\ UNCHANGED <<trail, listed, queued, gaps, withdrawn, overwritten, mixed, unsettled>>

\* One transaction writes to these questions, neither asking for their status nor
\* making a version or a row of history
WriteInPlace(some) ==
    /\ some # {} /\ \A q \in some : InBank(q)
    /\ text' = [q \in Questions |-> IF q \in some THEN text[q] + 1 ELSE text[q]]
    /\ overwritten' = overwritten \cup
         {q \in some : question[q] = "APPROVED" \/ \E u \in Occupied(q) : desk[u].step = "approve"}
    /\ UNCHANGED <<question, version, parent, trail, listed, queued, agreed, gaps, withdrawn,
                   planted, mixed, unsettled>>

\* The stem and the options of a question in a language, its default one too; a
\* file of them writes to all questions of an exam
TranslateQuestions(some) == WriteInPlace(some)

\* The key of an exam is written to the questions its version was made from, which
\* may have left the exam since
UploadAnswerKey(some) == WriteInPlace(some)

-----------------------------------------------------------------------------
(* Removal *)

\* What an exam uses and what was approved when it was read is archived instead
Retires(u) == desk[u].at \in listed \/ desk[u].was = "APPROVED"

CountUsage(u) ==
    /\ desk[u].step = "delete"
    /\ GoOn(u, IF Retires(u) THEN "retire" ELSE "erase")
    /\ UNCHANGED <<questionVars, listed, queued, reviewVars, mixed, unsettled>>

\* archiveQuestion() reads the question once more
Retire(u) ==
    LET q == desk[u].at IN
    /\ desk[u].step = "retire"
    /\ question[q] \in Accepts("archive")
    /\ desk' = [desk EXCEPT ![u].step = "archive", ![u].was = question[q]]
    /\ UNCHANGED tasks
    /\ UNCHANGED <<questionVars, listed, queued, reviewVars, mixed, unsettled>>

\* The foreign key refuses a question that is on an exam; the versions of one
\* that is erased lose their parent
Erase(u) ==
    LET q == desk[u].at IN
    /\ desk[u].step = "erase"
    /\ InBank(q) /\ q \notin listed
    /\ question' = [question EXCEPT ![q] = "GONE"]
    /\ parent' = [p \in Questions |-> IF parent[p] = q THEN NoQuestion ELSE parent[p]]
    /\ Leave(u)
    /\ UNCHANGED <<text, version, trail, listed, queued, reviewVars, mixed, unsettled>>

\* The operation fails, by itself or with the process: nothing is written
GiveUp(u) ==
    /\ desk[u] # AtRest
    /\ Leave(u)
    /\ UNCHANGED <<questionVars, listed, queued, reviewVars, mixed, unsettled>>

-----------------------------------------------------------------------------
(* Exams and the approval queue *)

\* Exams take any question there is, and let go of it when they are rebuilt
AddToExam(q) ==
    /\ InBank(q) /\ q \notin listed
    /\ listed' = listed \cup {q}
    /\ UNCHANGED <<questionVars, queued, desk, tasks, reviewVars, mixed, unsettled>>

TakeOffExam(q) ==
    /\ q \in listed
    /\ listed' = listed \ {q}
    /\ UNCHANGED <<questionVars, queued, desk, tasks, reviewVars, mixed, unsettled>>

RequestReview(q) ==
    /\ InBank(q) /\ question[q] # "APPROVED" /\ q \notin queued
    /\ queued' = queued \cup {q}
    /\ UNCHANGED <<questionVars, listed, desk, reviewVars, mixed, unsettled>>

\* A cancellation makes the question a draft, whatever became of it, and writes
\* no history.  A decision in the queue changes nothing: the row of history it
\* would write lacks two mandatory columns, and its transaction fails.
CancelRequest(q) ==
    /\ q \in queued /\ InBank(q)
    /\ question' = [question EXCEPT ![q] = "DRAFT"]
    /\ queued' = queued \ {q}
    /\ withdrawn' = withdrawn \cup {q}
    /\ UNCHANGED <<text, version, parent, trail, listed, desk, tasks, agreed, gaps,
                   overwritten, planted, mixed, unsettled>>

-----------------------------------------------------------------------------
\* The bank has some drafts and some approved questions already
BankInit ==
    /\ question \in [Questions -> {"NONE", "DRAFT", "APPROVED"}]
    /\ text = [q \in Questions |-> IF question[q] = "NONE" THEN 0 ELSE 1]
    /\ version = text
    /\ parent = [q \in Questions |-> NoQuestion]
    /\ trail = question
    /\ listed = {} /\ queued = {}
    /\ desk = [u \in Editors |-> AtRest]
    /\ tasks \in 0..MaxTasks
    /\ agreed = [q \in Questions |-> IF question[q] = "APPROVED" THEN 1 ELSE 0]
    /\ gaps = {} /\ mixed = {} /\ unsettled = {} /\ withdrawn = {}
    /\ overwritten = {} /\ planted = {}

\* What one of these members of the staff begins costs a task
Begins(free) ==
    /\ tasks > 0 /\ tasks' = tasks - 1
    /\ \/ \E u \in free, q \in Questions, step \in Reads : OpenQuestion(u, q, step)
       \/ \E q \in Questions : CreateQuestion(q) /\ UNCHANGED desk
       \/ \E q \in Questions : RequestReview(q)
       \/ \E q \in Questions : PlantQuestion(q) /\ UNCHANGED desk
       \/ \E some \in SUBSET Questions :
             (TranslateQuestions(some) \/ UploadAnswerKey(some)) /\ UNCHANGED desk

EditorNext(u) ==
    \/ MoveCommit(u) \/ EditCommit(u)
    \/ \E q \in Questions : VersionCommit(u, q)
    \/ CountUsage(u) \/ Retire(u) \/ Erase(u) \/ GiveUp(u)

OthersNext ==
    \E q \in Questions : AddToExam(q) \/ TakeOffExam(q) \/ CancelRequest(q)

BankNext ==
    \/ Begins(Editors)
    \/ \E u \in Editors : EditorNext(u)
    \/ OthersNext

BankSpec == BankInit /\ [][BankNext]_bankVars

-----------------------------------------------------------------------------
\* Every variable has its type
BankTypeOK ==
    /\ question \in [Questions -> QuestionStatuses]
    /\ text \in [Questions -> Nat]
    /\ version \in [Questions -> Nat]
    /\ parent \in [Questions -> Questions \cup {NoQuestion}]
    /\ trail \in [Questions -> QuestionStatuses]
    /\ listed \subseteq Questions
    /\ queued \subseteq Questions
    /\ desk \in [Editors -> [step : DeskSteps, at : Questions \cup {NoQuestion},
                             was : QuestionStatuses, read : Nat]]
    /\ tasks \in 0..MaxTasks
    /\ agreed \in [Questions -> Nat]
    /\ gaps \subseteq Questions
    /\ mixed \subseteq Questions
    /\ unsettled \subseteq mixed
    /\ withdrawn \subseteq Questions
    /\ overwritten \subseteq Questions /\ planted \subseteq Questions

\* An approved question has the text its approver read, unless another operation
\* overlapped with the approval, a request about it was cancelled later, or its
\* text was written in place, by a translation or a key, during or after the approval.
ApprovedAsRead ==
    \A q \in Questions \ (unsettled \cup withdrawn \cup overwritten) :
        question[q] = "APPROVED" => text[q] = agreed[q]

\* The history of a question ends in its status, and goes from row to row without
\* a gap, unless a request was cancelled; gaps come from overlaps besides, and what
\* an exam created has no history before its first operation.
TrailComplete ==
    /\ \A q \in Questions : InBank(q) /\ q \notin withdrawn =>
          trail[q] = question[q] \/ (q \in planted /\ trail[q] = "NONE")
    /\ gaps \subseteq mixed \cup withdrawn \cup planted

\* What was approved stays approved or is archived: no edit in place, no older
\* operation and no deletion takes it back, unless it overlapped with the approval.
ApprovalStands ==
    \A q \in Questions \ (unsettled \cup withdrawn') :
        question[q] = "APPROVED" => question'[q] \in {"APPROVED", "ARCHIVED"}

\* A review stands for the text that was reviewed, and can be followed.
QuestionsReviewed == [][ApprovedAsRead' /\ TrailComplete' /\ ApprovalStands]_bankVars

\* A version follows the question it was made from, which was approved and is
\* still there; what is on an exam is in the bank.
VersionsKept ==
    /\ \A q \in Questions : parent[q] # NoQuestion =>
          /\ InBank(parent[q]) /\ version[q] = version[parent[q]] + 1
          /\ question[parent[q]] \in {"APPROVED", "ARCHIVED"} \/ parent[q] \in unsettled \cup withdrawn
    /\ \A q \in listed : InBank(q)
=============================================================================
