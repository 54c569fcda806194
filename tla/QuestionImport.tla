--------------------------- MODULE QuestionImport ---------------------------
(***************************************************************************)
(* One file of questions, imported into the bank: it is uploaded and       *)
(* validated into rows, rows are corrected, and a confirmation creates or  *)
(* edits a question for every row, one after the other, through the        *)
(* operations of QuestionBank.  Every step of a confirmation is a step of  *)
(* its own: other confirmations, cancellations and the staff's work on the *)
(* same questions come in between, and the process may die.                *)
(*                                                                         *)
(* Nobody knows the id of an import before its upload is answered, so that *)
(* upload and validation are one step.                                     *)
(***************************************************************************)
EXTENDS QuestionBank

CONSTANTS
    MaxRows,    \* bound on the rows of the file
    MaxSlips    \* bound on the database errors and crashes during a confirmation

ASSUME ImportAssumption == MaxRows \in Nat \ {0} /\ MaxSlips \in Nat

VARIABLES
    import,     \* QuestionImport.status, "NONE" before the upload
    counts,     \* its createdCount + updatedCount, and its failedCount
    kind,       \* what a row asks for: QuestionImportRow.status and action
    target,     \* its targetQuestionId
    mark,       \* its importStatus
    clerk,      \* the confirmation each member of the staff has under way
    slips,      \* database errors and crashes so far
    made,       \* history: how often a row was written to the bank
    doubled,    \* history: a confirmation went on when it should not have: what
                \* it read of the import was stale, or the import was cancelled
                \* while it ran or after it
    slipped     \* history: rows written to the bank and not marked as such

rowsVars == <<kind, target, mark>>
idleVars == <<questionVars, listed, queued, desk, reviewVars, mixed, unsettled>>
importVars == <<import, counts, rowsVars, clerk, slips, made, doubled, slipped>>

FileRows == 1..MaxRows
ImportStatuses == {"NONE", "READY_TO_IMPORT", "IMPORTING", "COMPLETED", "FAILED", "CANCELLED"}
RowKinds == {"none", "create", "update", "invalid"}
ClerkSteps == {"off", "claim", "rows", "next", "write", "mark", "fail"}

Away == [step |-> "off", left |-> {}, ok |-> 0, bad |-> 0,
         aim |-> [r \in FileRows |-> NoQuestion]]
Importing(u) == clerk[u].step # "off"
\* The row a confirmation is at: they go by rowNumber
Row(u) == CHOOSE r \in clerk[u].left : \A s \in clerk[u].left : r <= s

StepTo(u, step) == clerk' = [clerk EXCEPT ![u].step = step]

\* What the validation says of a row: invalid, a new question, or an edit of one
\* that was in the bank when it looked
Judged(k, t) ==
    /\ k \in RowKinds \ {"none"}
    /\ IF k = "update" THEN t \in Questions /\ InBank(t) ELSE t = NoQuestion

-----------------------------------------------------------------------------
\* A file whose validation fails leaves no rows; no question id is in it twice
Upload ==
    /\ import = "NONE"
    /\ \/ import' = "FAILED" /\ UNCHANGED <<kind, target>>
       \/ /\ import' = "READY_TO_IMPORT"
          /\ \E k \in [FileRows -> RowKinds], t \in [FileRows -> Questions \cup {NoQuestion}] :
                /\ \A r \in FileRows : Judged(k[r], t[r])
                /\ \A r, s \in FileRows : r # s /\ t[r] = t[s] => t[r] = NoQuestion
                /\ kind' = k /\ target' = t
    /\ UNCHANGED <<bankVars, counts, mark, clerk, slips, made, doubled, slipped>>

\* A correction validates the row alone, and may name the question itself; the
\* status of the import is not asked
CorrectRow(r) ==
    /\ kind[r] # "none"
    /\ \E k \in RowKinds \ {"none"}, t \in Questions \cup {NoQuestion} :
          /\ (k = "update") = (t # NoQuestion)
          /\ kind' = [kind EXCEPT ![r] = k]
          /\ target' = [target EXCEPT ![r] = t]
    /\ UNCHANGED <<idleVars, import, counts, mark, clerk, slips, made, doubled, slipped>>

CancelImport ==
    /\ import # "NONE"
    /\ import' = "CANCELLED"
    /\ doubled' = (doubled \/ import \in {"IMPORTING", "COMPLETED"})
    /\ UNCHANGED <<idleVars, counts, rowsVars, clerk, slips, made, slipped>>

-----------------------------------------------------------------------------
(* A confirmation *)

MayConfirm == import \notin {"NONE", "IMPORTING", "COMPLETED"}

Confirm(u) ==
    /\ desk[u] = AtRest /\ ~Importing(u)
    /\ MayConfirm
    /\ clerk' = [clerk EXCEPT ![u] = [Away EXCEPT !.step = "claim"]]
    /\ UNCHANGED <<idleVars, import, counts, rowsVars, slips, made, doubled, slipped>>

\* The status is written without a condition
Claim(u) ==
    /\ clerk[u].step = "claim"
    /\ import' = "IMPORTING"
    /\ doubled' = (doubled \/ import \in {"IMPORTING", "COMPLETED"})
    /\ StepTo(u, "rows")
    /\ UNCHANGED <<bankVars, counts, rowsVars, slips, made, slipped>>

\* The valid rows, those of an earlier confirmation included, as they are now
ReadRows(u) ==
    /\ clerk[u].step = "rows"
    /\ clerk' = [clerk EXCEPT ![u].step = "next", ![u].aim = target,
                              ![u].left = {r \in FileRows : kind[r] \in {"create", "update"}}]
    /\ UNCHANGED <<bankVars, import, counts, rowsVars, slips, made, doubled, slipped>>

At(u, step) == clerk[u].step = step /\ clerk[u].left # {}
Wrote(u) == made' = [made EXCEPT ![Row(u)] = @ + 1] /\ StepTo(u, "mark")

\* A row without a question id becomes a question
CreateFromRow(u, q) ==
    /\ At(u, "next") /\ clerk[u].aim[Row(u)] = NoQuestion
    /\ CreateQuestion(q) /\ UNCHANGED <<desk, tasks>>
    /\ Wrote(u)
    /\ UNCHANGED <<import, counts, rowsVars, slips, doubled, slipped>>

\* A row with one is an edit, with the rights of a super admin
OpenFromRow(u) ==
    /\ At(u, "next") /\ clerk[u].aim[Row(u)] # NoQuestion
    /\ OpenQuestion(u, clerk[u].aim[Row(u)], "edit") /\ UNCHANGED tasks
    /\ StepTo(u, "write")
    /\ UNCHANGED <<import, counts, rowsVars, slips, made, doubled, slipped>>

WriteFromRow(u) ==
    /\ At(u, "write")
    /\ EditCommit(u) \/ \E q \in Questions : VersionCommit(u, q)
    /\ Wrote(u)
    /\ UNCHANGED <<import, counts, rowsVars, slips, doubled, slipped>>

\* The bank refuses the row: its chapter is gone, or its question is, or archived
RefuseRow(u) ==
    /\ \/ At(u, "next") /\ UNCHANGED bankVars
       \/ At(u, "write") /\ GiveUp(u)
    /\ StepTo(u, "fail")
    /\ UNCHANGED <<import, counts, rowsVars, slips, made, doubled, slipped>>

Marked(u, m) ==
    clerk' = [clerk EXCEPT ![u].step = "next", ![u].left = @ \ {Row(u)},
                           ![u].ok = IF m = "SUCCESS" THEN @ + 1 ELSE @,
                           ![u].bad = IF m = "FAILED" THEN @ + 1 ELSE @]

\* When the row cannot be marked, it counts as failed
MarkRow(u) ==
    /\ At(u, "mark")
    /\ \/ /\ mark' = [mark EXCEPT ![Row(u)] = "SUCCESS"]
          /\ Marked(u, "SUCCESS")
          /\ UNCHANGED <<slips, slipped>>
       \/ /\ slips < MaxSlips /\ slips' = slips + 1
          /\ slipped' = slipped \cup {Row(u)}
          /\ StepTo(u, "fail")
          /\ UNCHANGED mark
    /\ UNCHANGED <<bankVars, import, counts, kind, target, made, doubled>>

FailRow(u) ==
    /\ At(u, "fail")
    /\ mark' = [mark EXCEPT ![Row(u)] = "FAILED"]
    /\ Marked(u, "FAILED")
    /\ UNCHANGED <<bankVars, import, counts, kind, target, slips, made, doubled, slipped>>

\* Mutant: an import in which a row failed counts as failed, and may be confirmed again
FinishImport_FailedOnAny(u) ==
    LET c == clerk[u] IN
    /\ c.step = "next" /\ c.left = {}
    /\ import' = IF c.bad > 0 THEN "FAILED" ELSE "COMPLETED"
    /\ counts' = <<c.ok, c.bad>>
    /\ clerk' = [clerk EXCEPT ![u] = Away]
    /\ UNCHANGED <<bankVars, rowsVars, slips, made, doubled, slipped>>

\* The status is overwritten, a cancellation too
FinishImport(u) ==
    LET c == clerk[u] IN
    /\ c.step = "next" /\ c.left = {}
    /\ import' = IF c.bad > 0 /\ c.ok = 0 THEN "FAILED" ELSE "COMPLETED"
    /\ counts' = <<c.ok, c.bad>>
    /\ clerk' = [clerk EXCEPT ![u] = Away]
    /\ UNCHANGED <<bankVars, rowsVars, slips, made, doubled, slipped>>

\* A confirmation ends in an error of the database, or the process dies with all
\* that is under way; the import stays IMPORTING
ImportDies ==
    /\ slips < MaxSlips /\ slips' = slips + 1
    /\ \E dead \in {Editors} \cup {{u} : u \in Editors} :
          /\ \E u \in dead : Importing(u)
          /\ clerk' = [u \in Editors |-> IF u \in dead THEN Away ELSE clerk[u]]
          /\ desk' = [u \in Editors |-> IF u \in dead THEN AtRest ELSE desk[u]]
          /\ slipped' = slipped \cup {Row(u) : u \in {v \in dead : At(v, "mark")}}
    /\ UNCHANGED <<questionVars, listed, queued, tasks, reviewVars, mixed, unsettled>>
    /\ UNCHANGED <<import, counts, rowsVars, made, doubled>>

-----------------------------------------------------------------------------
ImportInit ==
    /\ BankInit
    /\ import = "NONE" /\ counts = <<0, 0>>
    /\ kind = [r \in FileRows |-> "none"]
    /\ target = [r \in FileRows |-> NoQuestion]
    /\ mark = [r \in FileRows |-> "PENDING"]
    /\ clerk = [u \in Editors |-> Away]
    /\ slips = 0
    /\ made = [r \in FileRows |-> 0]
    /\ doubled = FALSE /\ slipped = {}

ClerkRuns(u) ==
    \/ Claim(u) \/ ReadRows(u)
    \/ \E q \in Questions : CreateFromRow(u, q)
    \/ OpenFromRow(u) \/ WriteFromRow(u) \/ RefuseRow(u)
    \/ MarkRow(u) \/ FailRow(u) \/ FinishImport(u)

\* What is asked of the import costs a task as well
Asked ==
    /\ tasks > 0 /\ tasks' = tasks - 1
    /\ \/ \E r \in FileRows : CorrectRow(r)
       \/ CancelImport
       \/ \E u \in Editors : Confirm(u)

BankRuns ==
    /\ \/ Begins({u \in Editors : ~Importing(u)})
       \/ \E u \in Editors : ~Importing(u) /\ EditorNext(u)
       \/ OthersNext
    /\ UNCHANGED importVars

ImportNext ==
    \/ Upload \/ Asked \/ ImportDies
    \/ \E u \in Editors : ClerkRuns(u)
    \/ BankRuns

importerVars == <<bankVars, importVars>>
ImportSpec == ImportInit /\ [][ImportNext]_importerVars

-----------------------------------------------------------------------------
\* Every variable has its type
ImportTypeOK ==
    /\ BankTypeOK
    /\ import \in ImportStatuses
    /\ counts \in Nat \X Nat
    /\ kind \in [FileRows -> RowKinds]
    /\ target \in [FileRows -> Questions \cup {NoQuestion}]
    /\ mark \in [FileRows -> {"PENDING", "SUCCESS", "FAILED"}]
    /\ clerk \in [Editors -> [step : ClerkSteps, left : SUBSET FileRows, ok : Nat, bad : Nat,
                              aim : [FileRows -> Questions \cup {NoQuestion}]]]
    /\ slips \in 0..MaxSlips
    /\ made \in [FileRows -> Nat]
    /\ doubled \in BOOLEAN
    /\ slipped \subseteq FileRows

\* A row is written to the bank once, however often the import is confirmed, unless
\* a confirmation ran on a stale status or a cancelled import, or the row could
\* not be marked.
RowsOnce == doubled \/ \A r \in FileRows \ slipped : made[r] <= 1

\* Between confirmations, the import and its rows say what was done: the count of the successes,
\* and for every row that is marked whether it is in the bank.
RowsTrue ==
    (~doubled /\ \A u \in Editors : ~Importing(u)) =>
        /\ import \in {"COMPLETED", "FAILED"} =>
              counts[1] = Cardinality({r \in FileRows : mark[r] = "SUCCESS"})
        /\ \A r \in FileRows \ slipped :
              /\ mark[r] = "SUCCESS" => made[r] = 1
              /\ mark[r] = "FAILED" => made[r] = 0

\* An import writes every row once and tells the truth about it.
RowsImported == RowsOnce /\ RowsTrue
=============================================================================
