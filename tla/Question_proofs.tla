-------------------------- MODULE Question_proofs --------------------------
(***************************************************************************)
(* Proofs about QuestionBank and about QuestionImport, which extends it,   *)
(* for any staff, any number of questions, rows, operations and faults.    *)
(***************************************************************************)
EXTENDS QuestionImport, FiniteSetTheorems, WellFoundedInduction, TLAPS


-----------------------------------------------------------------------------
(* The bank: the inductive invariant *)

\* An operation is on a question that exists or existed, which it found in the
\* bank; an edit in place found it neither approved nor archived.
AtWork ==
    \A u \in Editors :
        /\ desk[u].step = "off" => desk[u].at = NoQuestion
        /\ desk[u].step # "off" =>
              /\ desk[u].at \in Questions
              /\ question[desk[u].at] # "NONE"
              /\ desk[u].was \in Kept
              /\ desk[u].read # 0
              /\ desk[u].step = "edit" => desk[u].was \notin {"APPROVED", "ARCHIVED"}
              /\ desk[u].step = "version" => agreed[desk[u].at] # 0

\* A question has a text, one that is approved was approved once, and there is no
\* history without a question.
Written ==
    \A q \in Questions :
        /\ question[q] # "NONE" => text[q] # 0
        /\ question[q] = "APPROVED" => agreed[q] # 0
        /\ question[q] = "NONE" => trail[q] = "NONE"

\* Two operations on one question are on record.
Meetings ==
    \A u, v \in Editors :
        u # v /\ desk[u].at = desk[v].at /\ desk[u].at # NoQuestion =>
            /\ desk[u].at \in mixed
            /\ desk[u].step = "approve" => desk[u].at \in unsettled

\* The operations that write what they have read of the status
Writing == {"edit", "submit", "review", "approve", "reject", "archive"}

\* What an operation that met no other has read is still so.
Unmet ==
    \A u \in Editors :
        /\ desk[u].step \in Writing /\ desk[u].at \notin mixed \cup withdrawn =>
              desk[u].was = question[desk[u].at]
        /\ desk[u].step = "approve" /\ desk[u].at \notin unsettled \cup overwritten =>
              desk[u].read = text[desk[u].at]

\* Approved at some time, with nothing else under way
Settled(q) == agreed[q] # 0 /\ q \notin unsettled \cup withdrawn

\* Such a question is approved, archived or erased, and nothing is under way
\* that makes it anything else; it is not erased while it is approved.
Established ==
    \A q \in Questions : Settled(q) =>
        /\ question[q] \in {"APPROVED", "ARCHIVED", "GONE"}
        /\ \A u \in Editors : desk[u].at = q =>
              /\ desk[u].step \in {"version", "archive", "retire", "delete", "erase"}
              /\ desk[u].step = "erase" => question[q] # "APPROVED"
              /\ desk[u].step = "delete" /\ desk[u].was # "APPROVED" =>
                    question[q] # "APPROVED"

\* The parent of a version is in the bank and was approved.
Families ==
    /\ \A q \in Questions : parent[q] # NoQuestion =>
          /\ InBank(parent[q]) /\ version[q] = version[parent[q]] + 1
          /\ agreed[parent[q]] # 0
    /\ \A q \in listed : InBank(q)

Inv ==
    /\ BankTypeOK /\ AtWork /\ Written /\ Meetings /\ Unmet /\ Established
    /\ Families /\ ApprovedAsRead /\ TrailComplete

-----------------------------------------------------------------------------
(* Steps that leave the questions as they are *)

\* What a desk holds
DeskState == [step : DeskSteps, at : Questions \cup {NoQuestion}, was : QuestionStatuses,
              read : Nat]

\* The desk that is cleared is a desk, and the others are as they were.
LEMMA Clearing ==
    ASSUME Inv, NEW u \in Editors, Leave(u)
    PROVE  /\ desk' \in [Editors -> DeskState]
           /\ desk'[u].step = "off" /\ desk'[u].at = NoQuestion
           /\ \A v \in Editors : v # u => desk'[v] = desk[v]
           /\ tasks' = tasks
BY DEF Inv, BankTypeOK, Leave, AtRest, DeskState, DeskSteps, Reads, QuestionStatuses, Kept

\* An operation that ends without a trace leaves the invariant.
LEMMA GiveUpKeeps ==
    ASSUME Inv, NEW u \in Editors, GiveUp(u)
    PROVE  Inv' /\ ApprovalStands
<1> USE DEF GiveUp, questionVars, reviewVars
<1>1. BankTypeOK'
  BY Clearing DEF Inv, BankTypeOK, DeskState
<1>2. AtWork'
  BY Clearing DEF Inv, AtWork
<1>3. Written' /\ Families' /\ ApprovedAsRead' /\ TrailComplete'
  BY DEF Inv, Written, Families, ApprovedAsRead, TrailComplete, InBank
<1>4. Meetings'
  BY Clearing DEF Inv, Meetings
<1>5. Unmet'
  BY Clearing DEF Inv, Unmet, Writing
<1>6. Established'
  BY Clearing, BankAssumption DEF Inv, Established, Settled
<1>7. ApprovalStands
  BY DEF ApprovalStands
<1> QED
  BY <1>1, <1>2, <1>3, <1>4, <1>5, <1>6, <1>7 DEF Inv

\* Exams and requests for review change nothing the invariant is about.
LEMMA OutsideKeeps ==
    ASSUME Inv, NEW q \in Questions, tasks' \in 0..MaxTasks,
           AddToExam(q) \/ TakeOffExam(q) \/ RequestReview(q)
    PROVE  Inv' /\ ApprovalStands
<1> USE DEF AddToExam, TakeOffExam, RequestReview, questionVars, reviewVars
<1>1. BankTypeOK'
  BY DEF Inv, BankTypeOK
<1>2. AtWork' /\ Written' /\ Meetings' /\ Unmet'
  BY DEF Inv, AtWork, Written, Meetings, Unmet
<1>3. Established'
  BY DEF Inv, Established, Settled
<1>4. Families' /\ ApprovedAsRead' /\ TrailComplete'
  BY DEF Inv, Families, ApprovedAsRead, TrailComplete, InBank
<1>5. ApprovalStands
  BY DEF ApprovalStands
<1> QED
  BY <1>1, <1>2, <1>3, <1>4, <1>5 DEF Inv

\* A cancelled request changes a status, of a question that is excused from then on.
LEMMA CancelKeeps ==
    ASSUME Inv, NEW q \in Questions, CancelRequest(q)
    PROVE  Inv' /\ ApprovalStands
<1> USE DEF CancelRequest
<1>1. BankTypeOK'
  BY DEF Inv, BankTypeOK, QuestionStatuses, Kept
<1>2. AtWork' /\ Written' /\ Meetings'
  BY DEF Inv, BankTypeOK, AtWork, Written, Meetings, InBank, Kept
<1>3. Unmet'
  BY DEF Inv, BankTypeOK, Unmet, AtWork, Writing
<1>4. Established'
  BY DEF Inv, BankTypeOK, Established, Settled
<1>5. Families' /\ ApprovedAsRead' /\ TrailComplete'
  BY DEF Inv, BankTypeOK, Families, ApprovedAsRead, TrailComplete, InBank, Kept
<1>6. ApprovalStands
  BY DEF Inv, BankTypeOK, ApprovalStands
<1> QED
  BY <1>1, <1>2, <1>3, <1>4, <1>5, <1>6 DEF Inv

\* A deletion goes on to archive or to erase.
LEMMA CountUsageKeeps ==
    ASSUME Inv, NEW u \in Editors, CountUsage(u)
    PROVE  Inv' /\ ApprovalStands
<1> USE DEF CountUsage, GoOn, questionVars, reviewVars
<1>1. BankTypeOK'
  BY DEF Inv, BankTypeOK, DeskSteps
<1>2. AtWork'
  BY DEF Inv, BankTypeOK, AtWork
<1>3. Meetings'
  BY DEF Inv, BankTypeOK, Meetings
<1>4. Unmet'
  BY DEF Inv, BankTypeOK, Unmet, Writing
<1>5. Established'
  BY DEF Inv, BankTypeOK, Established, Settled, Retires
<1>6. Written' /\ Families' /\ ApprovedAsRead' /\ TrailComplete'
  BY DEF Inv, Written, Families, ApprovedAsRead, TrailComplete, InBank
<1>7. ApprovalStands
  BY DEF ApprovalStands
<1> QED
  BY <1>1, <1>2, <1>3, <1>4, <1>5, <1>6, <1>7 DEF Inv

\* The archiving of what may not be deleted reads the status once more.
LEMMA RetireKeeps ==
    ASSUME Inv, NEW u \in Editors, Retire(u)
    PROVE  Inv' /\ ApprovalStands
<1> USE DEF Retire, questionVars, reviewVars
<1>1. question[desk[u].at] \in Kept
  BY DEF Accepts
<1>2. desk' \in [Editors -> DeskState] /\ desk'[u].step = "archive" /\ desk'[u].at = desk[u].at
      /\ desk'[u].was = question[desk[u].at] /\ desk'[u].read = desk[u].read
      /\ \A v \in Editors : v # u => desk'[v] = desk[v]
  BY <1>1 DEF Inv, BankTypeOK, DeskState, DeskSteps, Reads, QuestionStatuses
<1>3. BankTypeOK'
  BY <1>2 DEF Inv, BankTypeOK, DeskState
<1>4. AtWork'
  BY <1>1, <1>2 DEF Inv, AtWork
<1>5. Meetings'
  BY <1>2 DEF Inv, Meetings
<1>6. Unmet'
  BY <1>2 DEF Inv, Unmet
<1>7. Established'
  BY <1>2 DEF Inv, Established, Settled
<1>8. Written' /\ Families' /\ ApprovedAsRead' /\ TrailComplete'
  BY DEF Inv, Written, Families, ApprovedAsRead, TrailComplete, InBank
<1>9. ApprovalStands
  BY DEF ApprovalStands
<1> QED
  BY <1>3, <1>4, <1>5, <1>6, <1>7, <1>8, <1>9 DEF Inv

-----------------------------------------------------------------------------
(* An operation begins *)

\* Beside another one on its question it is on record; an approval, or an
\* operation beside an approval, twice.
LEMMA Recorded ==
    ASSUME Inv, NEW u \in Editors, NEW q \in Questions, NEW step, Overlap(u, q, step)
    PROVE  /\ mixed \subseteq mixed' /\ unsettled \subseteq unsettled'
           /\ mixed' \subseteq Questions /\ unsettled' \subseteq mixed'
           /\ \A v \in Editors : v # u /\ desk[v].at = q =>
                 /\ q \in mixed'
                 /\ step = "approve" \/ desk[v].step = "approve" => q \in unsettled'
           /\ \A p \in Questions \ {q} : (p \in mixed' => p \in mixed)
                                         /\ (p \in unsettled' => p \in unsettled)
BY DEF Inv, BankTypeOK, Overlap, Occupied

\* An operation that begins has read the question as it is; what is approved it
\* will not move, whatever it read.
LEMMA OpenKeeps ==
    ASSUME Inv, NEW u \in Editors, NEW q \in Questions, NEW step \in Reads,
           OpenQuestion(u, q, step), tasks' \in 0..MaxTasks
    PROVE  Inv' /\ ApprovalStands
<1> USE DEF OpenQuestion, questionVars, reviewVars
<1>1. /\ desk[u].step = "off" /\ desk[u].at = NoQuestion
      /\ question[q] \in Accepts(step) /\ question[q] \in Kept
  BY DEF AtRest, Accepts, Kept, Reads
<1>2. PICK now \in DeskSteps :
        /\ desk' = [desk EXCEPT ![u] = [step |-> now, at |-> q, was |-> question[q],
                                        read |-> text[q]]]
        /\ now = IF step = "edit" THEN EditStep(q) ELSE step
  BY DEF EditStep, DeskSteps, Reads
<1>3. /\ desk' \in [Editors -> DeskState]
      /\ desk'[u].step = now /\ desk'[u].at = q /\ desk'[u].was = question[q]
      /\ desk'[u].read = text[q]
      /\ \A v \in Editors : v # u => desk'[v] = desk[v]
  BY <1>1, <1>2 DEF Inv, BankTypeOK, DeskState, QuestionStatuses
<1>4. /\ now # "off" /\ (now = "approve" <=> step = "approve")
      /\ now = "edit" => question[q] \notin {"APPROVED", "ARCHIVED"}
      /\ now = "version" => question[q] = "APPROVED"
      /\ question[q] = "APPROVED" => now \in {"version", "archive", "delete"}
      /\ question[q] = "ARCHIVED" => now = "delete"
      /\ now # "erase"
  BY <1>1, <1>2 DEF EditStep, Accepts, Reads, Kept
<1>5. BankTypeOK'
  BY <1>3, Recorded DEF Inv, BankTypeOK, DeskState
<1>6. AtWork'
  BY <1>1, <1>3, <1>4 DEF Inv, AtWork, Written, Kept
<1>7. Meetings'
  BY <1>1, <1>3, <1>4, Recorded, BankAssumption DEF Inv, Meetings
<1>8. Unmet'
  BY <1>3, Recorded DEF Inv, Unmet
<1>9. Established'
  <2>1. SUFFICES ASSUME NEW p \in Questions, Settled(p)'
                 PROVE  /\ question'[p] \in {"APPROVED", "ARCHIVED", "GONE"}
                        /\ \A v \in Editors : desk'[v].at = p =>
                              /\ desk'[v].step \in {"version", "archive", "retire", "delete", "erase"}
                              /\ desk'[v].step = "erase" => question'[p] # "APPROVED"
                              /\ desk'[v].step = "delete" /\ desk'[v].was # "APPROVED" =>
                                    question'[p] # "APPROVED"
    BY DEF Established
  <2>2. Settled(p) /\ question'[p] = question[p]
    BY <2>1, Recorded DEF Settled
  <2>3. ASSUME NEW v \in Editors, v # u, desk'[v].at = p
        PROVE  /\ desk'[v].step \in {"version", "archive", "retire", "delete", "erase"}
               /\ desk'[v].step = "erase" => question'[p] # "APPROVED"
               /\ desk'[v].step = "delete" /\ desk'[v].was # "APPROVED" => question'[p] # "APPROVED"
    BY <2>2, <2>3, <1>3 DEF Inv, Established
  <2>4. p = q => question[q] \in {"APPROVED", "ARCHIVED"}
    BY <2>2, <1>1 DEF Inv, Established, Kept
  <2> QED
    BY <2>2, <2>3, <2>4, <1>3, <1>4 DEF Inv, Established
<1>10. Written' /\ Families' /\ TrailComplete'
  BY Recorded DEF Inv, Written, Families, TrailComplete, InBank
<1>11. ApprovedAsRead'
  BY Recorded DEF Inv, ApprovedAsRead
<1>12. ApprovalStands
  BY DEF ApprovalStands
<1> QED
  BY <1>5, <1>6, <1>7, <1>8, <1>9, <1>10, <1>11, <1>12 DEF Inv

-----------------------------------------------------------------------------
(* The transactions *)

\* A question that is drafted has no operation, no parent and no child yet.
LEMMA DraftKeeps ==
    ASSUME Inv, NEW q \in Questions, NEW n \in Nat, NEW from \in Questions \cup {NoQuestion},
           Draft(q, n, from), UNCHANGED <<listed, queued, reviewVars, mixed, unsettled>>,
           tasks' \in 0..MaxTasks, desk' \in [Editors -> DeskState],
           \A v \in Editors : desk'[v] # desk[v] => desk'[v].step = "off" /\ desk'[v].at = NoQuestion,
           from # NoQuestion => InBank(from) /\ n = version[from] + 1 /\ agreed[from] # 0
    PROVE  Inv' /\ ApprovalStands
<1> USE DEF Draft, reviewVars
<1>1. BankTypeOK'
  BY DEF Inv, BankTypeOK, DeskState, QuestionStatuses, Kept
<1>2. AtWork'
  BY DEF Inv, BankTypeOK, AtWork
<1>3. Written' /\ ApprovedAsRead'
  BY DEF Inv, BankTypeOK, Written, ApprovedAsRead
<1>4. TrailComplete'
  BY DEF Inv, BankTypeOK, TrailComplete, InBank
<1>5. Meetings'
  BY DEF Inv, BankTypeOK, Meetings
<1>6. Unmet'
  BY DEF Inv, BankTypeOK, Unmet, AtWork, Writing
<1>7. Established'
  <2>1. SUFFICES ASSUME NEW p \in Questions, Settled(p)'
                 PROVE  /\ question'[p] \in {"APPROVED", "ARCHIVED", "GONE"}
                        /\ \A v \in Editors : desk'[v].at = p =>
                              /\ desk'[v].step \in {"version", "archive", "retire", "delete", "erase"}
                              /\ desk'[v].step = "erase" => question'[p] # "APPROVED"
                              /\ desk'[v].step = "delete" /\ desk'[v].was # "APPROVED" =>
                                    question'[p] # "APPROVED"
    BY DEF Established
  <2>2. Settled(p) /\ p # q /\ question'[p] = question[p]
    BY <2>1 DEF Inv, BankTypeOK, Established, Settled
  <2>3. \A v \in Editors : desk'[v].at = p => desk'[v] = desk[v]
    BY BankAssumption
  <2> QED
    BY <2>2, <2>3 DEF Inv, Established
<1>8. Families'
  BY BankAssumption DEF Inv, BankTypeOK, Families, InBank, Kept
<1>9. ApprovalStands
  BY DEF Inv, BankTypeOK, ApprovalStands
<1> QED
  BY <1>1, <1>2, <1>3, <1>4, <1>5, <1>6, <1>7, <1>8, <1>9 DEF Inv

\* A new version of what was approved once; its parent has not been erased.
LEMMA VersionKeeps ==
    ASSUME Inv, NEW u \in Editors, NEW q \in Questions, VersionCommit(u, q)
    PROVE  Inv' /\ ApprovalStands
<1>1. PICK old \in Questions : old = desk[u].at
  BY DEF VersionCommit, Inv, AtWork
<1>2. PICK n \in Nat : n = version[old] + 1
  BY <1>1 DEF Inv, BankTypeOK
<1>3. /\ Leave(u) /\ Draft(q, n, old)
      /\ InBank(old) /\ agreed[old] # 0
      /\ UNCHANGED <<listed, queued, reviewVars, mixed, unsettled>>
  BY <1>1, <1>2 DEF VersionCommit, Inv, AtWork
<1>4. /\ tasks' \in 0..MaxTasks /\ desk' \in [Editors -> DeskState]
      /\ \A v \in Editors : desk'[v] # desk[v] => desk'[v].step = "off" /\ desk'[v].at = NoQuestion
  BY <1>3, Clearing DEF Inv, BankTypeOK
<1> QED
  BY <1>1, <1>2, <1>3, <1>4, DraftKeeps

\* A question that is drafted by itself.
LEMMA CreateKeeps ==
    ASSUME Inv, NEW q \in Questions, CreateQuestion(q), UNCHANGED desk, tasks' \in 0..MaxTasks
    PROVE  Inv' /\ ApprovalStands
<1>1. /\ desk' \in [Editors -> DeskState]
      /\ \A v \in Editors : desk'[v] # desk[v] => desk'[v].step = "off" /\ desk'[v].at = NoQuestion
  BY DEF Inv, BankTypeOK, DeskState
<1>2. /\ Draft(q, 1, NoQuestion)
      /\ UNCHANGED <<listed, queued, reviewVars, mixed, unsettled>>
  BY DEF CreateQuestion
<1>3. 1 \in Nat /\ NoQuestion \in Questions \cup {NoQuestion}
  OBVIOUS
<1> QED
  BY <1>1, <1>2, <1>3, DraftKeeps

\* A question an exam creates has nothing under way, and the approval it may be
\* created with is for the text it is created with.
LEMMA PlantKeeps ==
    ASSUME Inv, NEW q \in Questions, PlantQuestion(q), UNCHANGED desk, tasks' \in 0..MaxTasks
    PROVE  Inv' /\ ApprovalStands
<1>1. PICK status \in {"DRAFT", "APPROVED"} :
         /\ question' = [question EXCEPT ![q] = status]
         /\ agreed' = [agreed EXCEPT ![q] = IF status = "APPROVED" THEN 1 ELSE 0]
  BY DEF PlantQuestion
<1>2. /\ question[q] = "NONE"
      /\ text' = [text EXCEPT ![q] = 1] /\ version' = [version EXCEPT ![q] = 1]
      /\ planted' = planted \cup {q} /\ parent' = [parent EXCEPT ![q] = NoQuestion]
      /\ UNCHANGED <<trail, listed, queued, gaps, withdrawn, overwritten, mixed, unsettled>>
  BY DEF PlantQuestion
<1>3. \A p \in Questions : p # q => question'[p] = question[p] /\ agreed'[p] = agreed[p]
  BY <1>1
<1>4. question'[q] = status /\ agreed'[q] = IF status = "APPROVED" THEN 1 ELSE 0
  BY <1>1 DEF Inv, BankTypeOK
<1>5. \A u \in Editors : desk[u].at # q
  BY <1>2, BankAssumption DEF Inv, AtWork
<1>6. BankTypeOK'
  BY <1>1, <1>2 DEF Inv, BankTypeOK, QuestionStatuses, Kept
<1>7. AtWork'
  BY <1>2, <1>3, <1>5 DEF Inv, AtWork
<1>8. Written' /\ ApprovedAsRead'
  BY <1>2, <1>3, <1>4 DEF Inv, BankTypeOK, Written, ApprovedAsRead
<1>9. TrailComplete'
  <2>1. trail'[q] = question'[q] \/ (q \in planted' /\ trail'[q] = "NONE") \/ q \in withdrawn'
    BY <1>2 DEF Inv, Written
  <2> QED
    BY <2>1, <1>2, <1>3 DEF Inv, TrailComplete, InBank
<1>10. Meetings' /\ Unmet'
  BY <1>2, <1>3, <1>5 DEF Inv, BankTypeOK, Meetings, Unmet, AtWork, Writing
<1>11. Established'
  <2>1. SUFFICES ASSUME NEW p \in Questions, Settled(p)'
                 PROVE  /\ question'[p] \in {"APPROVED", "ARCHIVED", "GONE"}
                        /\ \A v \in Editors : desk'[v].at = p =>
                              /\ desk'[v].step \in {"version", "archive", "retire", "delete", "erase"}
                              /\ desk'[v].step = "erase" => question'[p] # "APPROVED"
                              /\ desk'[v].step = "delete" /\ desk'[v].was # "APPROVED" =>
                                    question'[p] # "APPROVED"
    BY DEF Established
  <2>2. CASE p = q
    BY <2>1, <2>2, <1>4, <1>5 DEF Settled
  <2>3. CASE p # q
    BY <2>1, <2>3, <1>2, <1>3 DEF Inv, Established, Settled
  <2> QED
    BY <2>2, <2>3
<1>12. Families'
  BY <1>1, <1>2, <1>3, BankAssumption DEF Inv, BankTypeOK, Families, InBank, Kept
<1>13. ApprovalStands
  BY <1>2, <1>3 DEF ApprovalStands
<1> QED
  BY <1>6, <1>7, <1>8, <1>9, <1>10, <1>11, <1>12, <1>13 DEF Inv

\* A text written in place is on record where an approval stands or is under way.
LEMMA WriteKeeps ==
    ASSUME Inv, NEW some \in SUBSET Questions, WriteInPlace(some), UNCHANGED desk,
           tasks' \in 0..MaxTasks
    PROVE  Inv' /\ ApprovalStands
<1>1. /\ \A q \in Questions : text'[q] = IF q \in some THEN text[q] + 1 ELSE text[q]
      /\ text' \in [Questions -> Nat]
      /\ UNCHANGED <<question, version, parent, trail, listed, queued, agreed, gaps, withdrawn,
                     planted, mixed, unsettled>>
  BY DEF WriteInPlace, Inv, BankTypeOK
<1>2. /\ overwritten \subseteq overwritten' /\ overwritten' \subseteq Questions
      /\ \A q \in some : question[q] = "APPROVED" => q \in overwritten'
      /\ \A u \in Editors : desk[u].step = "approve" /\ desk[u].at \in some => desk[u].at \in overwritten'
  BY DEF WriteInPlace, Occupied, Inv, BankTypeOK
<1>3. BankTypeOK'
  BY <1>1, <1>2 DEF Inv, BankTypeOK
<1>4. AtWork' /\ Meetings'
  BY <1>1 DEF Inv, AtWork, Meetings
<1>5. Written'
  BY <1>1 DEF Inv, BankTypeOK, Written
<1>6. Unmet'
  BY <1>1, <1>2 DEF Inv, Unmet, AtWork
<1>7. Established' /\ Families'
  BY <1>1 DEF Inv, Established, Settled, Families, InBank
<1>8. ApprovedAsRead' /\ TrailComplete'
  BY <1>1, <1>2 DEF Inv, ApprovedAsRead, TrailComplete, InBank
<1>9. ApprovalStands
  BY <1>1 DEF ApprovalStands
<1> QED
  BY <1>3, <1>4, <1>5, <1>6, <1>7, <1>8, <1>9 DEF Inv

\* A status that is written: the operations that met no other wrote what they had
\* read, and what was approved is approved again or archived.
LEMMA MoveKeeps ==
    ASSUME Inv, NEW u \in Editors, MoveCommit(u)
    PROVE  Inv' /\ ApprovalStands
<1> DEFINE q == desk[u].at
           to == MovesTo(desk[u].step)
<1>1. /\ q \in Questions /\ question[q] # "NONE" /\ question[q] # "GONE"
      /\ desk[u].was \in Kept /\ desk[u].read # 0 /\ desk[u].read \in Nat
      /\ q # NoQuestion
  BY BankAssumption DEF MoveCommit, Inv, AtWork, BankTypeOK, InBank, Kept
<1>2. /\ to \in Kept
      /\ to = "APPROVED" <=> desk[u].step = "approve"
      /\ to = "ARCHIVED" <=> desk[u].step = "archive"
  BY DEF MoveCommit, MovesTo, Kept
<1>3. /\ question' = [question EXCEPT ![q] = to] /\ trail' = [trail EXCEPT ![q] = to]
      /\ gaps' = gaps \cup (IF trail[q] = desk[u].was THEN {} ELSE {q})
      /\ agreed' = IF desk[u].step = "approve" THEN [agreed EXCEPT ![q] = desk[u].read] ELSE agreed
      /\ UNCHANGED <<text, version, parent, listed, queued, withdrawn, overwritten, planted, mixed, unsettled>>
  BY DEF MoveCommit, Move
<1>4. /\ desk' \in [Editors -> DeskState]
      /\ desk'[u].step = "off" /\ desk'[u].at = NoQuestion
      /\ \A v \in Editors : v # u => desk'[v] = desk[v]
      /\ tasks' = tasks
  BY Clearing DEF MoveCommit
<1>5. /\ \A v \in Editors : v # u /\ desk[v].at = q => q \in mixed
      /\ \A v \in Editors : v # u /\ desk[v].at = q /\ desk[u].step = "approve" => q \in unsettled
      /\ \A v \in Editors : v # u /\ desk[v].at = q /\ desk[v].step = "approve" => q \in unsettled
  BY <1>1 DEF Inv, Meetings
<1>6. Settled(q) => desk[u].step = "archive" /\ question[q] \in {"APPROVED", "ARCHIVED"}
  BY <1>1 DEF MoveCommit, Inv, Established
<1>7. question[q] = "APPROVED" /\ q \notin unsettled \cup withdrawn => Settled(q)
  BY <1>1 DEF Inv, Written, Settled
<1> HIDE DEF q, to
<1>8. BankTypeOK'
  BY <1>1, <1>2, <1>3, <1>4 DEF Inv, BankTypeOK, DeskState, QuestionStatuses
<1>9. AtWork'
  BY <1>1, <1>2, <1>3, <1>4 DEF Inv, BankTypeOK, AtWork, Kept
<1>10. Written'
  BY <1>1, <1>2, <1>3 DEF Inv, BankTypeOK, Written, MoveCommit
<1>11. Meetings'
  BY <1>3, <1>4 DEF Inv, Meetings
<1>12. Unmet'
  BY <1>3, <1>4, <1>5 DEF Inv, BankTypeOK, Unmet, AtWork, Writing
<1>13. Established'
  <2>1. SUFFICES ASSUME NEW p \in Questions, Settled(p)'
                 PROVE  /\ question'[p] \in {"APPROVED", "ARCHIVED", "GONE"}
                        /\ \A v \in Editors : desk'[v].at = p =>
                              /\ desk'[v].step \in {"version", "archive", "retire", "delete", "erase"}
                              /\ desk'[v].step = "erase" => question'[p] # "APPROVED"
                              /\ desk'[v].step = "delete" /\ desk'[v].was # "APPROVED" =>
                                    question'[p] # "APPROVED"
    BY DEF Established
  <2>2. CASE p # q
    <3>1. Settled(p) /\ question'[p] = question[p]
      BY <2>1, <2>2, <1>1, <1>3 DEF Inv, BankTypeOK, Settled
    <3>2. \A v \in Editors : desk'[v].at = p => desk'[v] = desk[v]
      BY <1>4, BankAssumption
    <3> QED
      BY <3>1, <3>2 DEF Inv, Established
  <2>3. CASE p = q /\ desk[u].step = "approve"
    <3>1. q \notin unsettled /\ question'[p] = "APPROVED"
      BY <2>1, <2>3, <1>1, <1>2, <1>3 DEF Inv, BankTypeOK, Settled
    <3>2. \A v \in Editors : desk'[v].at # p
      BY <3>1, <2>3, <1>1, <1>4, <1>5
    <3> QED
      BY <3>1, <3>2
  <2>4. CASE p = q /\ desk[u].step # "approve"
    <3>1. Settled(q)
      BY <2>1, <2>4, <1>3 DEF Settled
    <3>2. question'[p] = "ARCHIVED"
      BY <3>1, <2>4, <1>1, <1>2, <1>3, <1>6 DEF Inv, BankTypeOK
    <3>3. \A v \in Editors : desk'[v].at = p => desk'[v] = desk[v]
      BY <1>4, BankAssumption
    <3> QED
      BY <3>1, <3>2, <3>3, <2>4 DEF Inv, Established
  <2> QED
    BY <2>2, <2>3, <2>4
<1>14. Families'
  BY <1>1, <1>2, <1>3 DEF Inv, BankTypeOK, Families, InBank
<1>15. ApprovedAsRead'
  <2>1. desk[u].step = "approve" /\ q \notin unsettled \cup overwritten => desk[u].read = text[q]
    BY DEF Inv, Unmet, q
  <2> QED
    BY <2>1, <1>1, <1>2, <1>3 DEF Inv, BankTypeOK, ApprovedAsRead
<1>16. TrailComplete'
  <2>1. q \notin mixed \cup withdrawn => desk[u].was = question[q]
    BY DEF Inv, Unmet, Writing, MoveCommit, q
  <2> QED
    BY <2>1, <1>1, <1>2, <1>3 DEF Inv, BankTypeOK, TrailComplete, InBank, Kept
<1>17. ApprovalStands
  BY <1>1, <1>2, <1>3, <1>6, <1>7 DEF Inv, BankTypeOK, ApprovalStands
<1> QED
  BY <1>8, <1>9, <1>10, <1>11, <1>12, <1>13, <1>14, <1>15, <1>16, <1>17 DEF Inv

\* An edit in place is of what is not approved, and leaves it so.
LEMMA EditKeeps ==
    ASSUME Inv, NEW u \in Editors, EditCommit(u)
    PROVE  Inv' /\ ApprovalStands
<1> DEFINE q == desk[u].at
           to == IF desk[u].was = "REJECTED" THEN "DRAFT" ELSE desk[u].was
<1>1. /\ q \in Questions /\ question[q] # "NONE" /\ question[q] # "GONE"
      /\ q # NoQuestion
  BY BankAssumption DEF EditCommit, Inv, AtWork, BankTypeOK, InBank, Kept
<1>2. to \in Kept \ {"APPROVED", "ARCHIVED"}
  BY DEF EditCommit, Inv, AtWork, Kept
<1>3. /\ question' = [question EXCEPT ![q] = to] /\ trail' = [trail EXCEPT ![q] = to]
      /\ gaps' = gaps \cup (IF trail[q] = desk[u].was THEN {} ELSE {q})
      /\ text' = [text EXCEPT ![q] = @ + 1]
      /\ UNCHANGED <<version, parent, listed, queued, agreed, withdrawn, overwritten, planted, mixed, unsettled>>
  BY DEF EditCommit, Move
<1>4. /\ desk' \in [Editors -> DeskState]
      /\ desk'[u].step = "off" /\ desk'[u].at = NoQuestion
      /\ \A v \in Editors : v # u => desk'[v] = desk[v]
      /\ tasks' = tasks
  BY Clearing DEF EditCommit
<1>5. /\ \A v \in Editors : v # u /\ desk[v].at = q => q \in mixed
      /\ \A v \in Editors : v # u /\ desk[v].at = q /\ desk[v].step = "approve" => q \in unsettled
  BY <1>1 DEF Inv, Meetings
<1>6. ~Settled(q)
  BY <1>1 DEF EditCommit, Inv, Established
<1>7. question[q] = "APPROVED" /\ q \notin unsettled \cup withdrawn => Settled(q)
  BY <1>1 DEF Inv, Written, Settled
<1>8. q \notin mixed \cup withdrawn => desk[u].was = question[q]
  BY DEF EditCommit, Inv, Unmet, Writing
<1> HIDE DEF q, to
<1>9. BankTypeOK'
  BY <1>1, <1>2, <1>3, <1>4 DEF Inv, BankTypeOK, DeskState, QuestionStatuses
<1>10. AtWork'
  BY <1>1, <1>2, <1>3, <1>4 DEF Inv, BankTypeOK, AtWork, Kept
<1>11. Written'
  BY <1>1, <1>2, <1>3 DEF Inv, BankTypeOK, Written
<1>12. Meetings'
  BY <1>3, <1>4 DEF Inv, Meetings
<1>13. Unmet'
  BY <1>3, <1>4, <1>5 DEF Inv, BankTypeOK, Unmet, AtWork, Writing
<1>14. Established'
  <2>1. SUFFICES ASSUME NEW p \in Questions, Settled(p)'
                 PROVE  /\ question'[p] \in {"APPROVED", "ARCHIVED", "GONE"}
                        /\ \A v \in Editors : desk'[v].at = p =>
                              /\ desk'[v].step \in {"version", "archive", "retire", "delete", "erase"}
                              /\ desk'[v].step = "erase" => question'[p] # "APPROVED"
                              /\ desk'[v].step = "delete" /\ desk'[v].was # "APPROVED" =>
                                    question'[p] # "APPROVED"
    BY DEF Established
  <2>2. Settled(p) /\ p # q
    BY <2>1, <1>3, <1>6 DEF Settled
  <2>3. question'[p] = question[p]
    BY <2>2, <1>3 DEF Inv, BankTypeOK
  <2>4. \A v \in Editors : desk'[v].at = p => desk'[v] = desk[v]
    BY <1>4, BankAssumption
  <2> QED
    BY <2>2, <2>3, <2>4 DEF Inv, Established
<1>15. Families'
  BY <1>1, <1>2, <1>3 DEF Inv, BankTypeOK, Families, InBank
<1>16. ApprovedAsRead'
  BY <1>1, <1>2, <1>3 DEF Inv, BankTypeOK, ApprovedAsRead
<1>17. TrailComplete'
  <2>1. q \notin mixed \cup withdrawn \cup planted => trail[q] = desk[u].was
    BY <1>1, <1>8 DEF Inv, BankTypeOK, TrailComplete, InBank, QuestionStatuses
  <2>2. gaps' \subseteq mixed' \cup withdrawn' \cup planted'
    BY <2>1, <1>1, <1>3 DEF Inv, TrailComplete
  <2>3. \A p \in Questions : InBank(p)' /\ p \notin withdrawn' =>
           trail'[p] = question'[p] \/ (p \in planted' /\ trail'[p] = "NONE")
    BY <1>1, <1>3 DEF Inv, BankTypeOK, TrailComplete, InBank
  <2> QED
    BY <2>2, <2>3 DEF TrailComplete
<1>18. ApprovalStands
  BY <1>1, <1>3, <1>6, <1>7 DEF Inv, BankTypeOK, ApprovalStands
<1> QED
  BY <1>9, <1>10, <1>11, <1>12, <1>13, <1>14, <1>15, <1>16, <1>17, <1>18 DEF Inv

\* What is erased is not approved, is on no exam, and leaves no child behind.
LEMMA EraseKeeps ==
    ASSUME Inv, NEW u \in Editors, Erase(u)
    PROVE  Inv' /\ ApprovalStands
<1> DEFINE q == desk[u].at
<1>1. /\ q \in Questions /\ question[q] \in Kept /\ q # NoQuestion /\ q \notin listed
  BY BankAssumption DEF Erase, Inv, AtWork, BankTypeOK, InBank, Kept
<1>2. /\ question' = [question EXCEPT ![q] = "GONE"]
      /\ parent' = [p \in Questions |-> IF parent[p] = q THEN NoQuestion ELSE parent[p]]
      /\ UNCHANGED <<text, version, trail, listed, queued, reviewVars, mixed, unsettled>>
  BY DEF Erase
<1>3. /\ desk' \in [Editors -> DeskState]
      /\ desk'[u].step = "off" /\ desk'[u].at = NoQuestion
      /\ \A v \in Editors : v # u => desk'[v] = desk[v]
      /\ tasks' = tasks
  BY Clearing DEF Erase
<1>4. \A v \in Editors : v # u /\ desk[v].at = q => q \in mixed
  BY <1>1 DEF Inv, Meetings
<1>5. question[q] = "APPROVED" => q \in unsettled \cup withdrawn
  BY <1>1 DEF Erase, Inv, Written, Settled, Established
<1> HIDE DEF q
<1> USE DEF reviewVars
<1>6. BankTypeOK'
  BY <1>1, <1>2, <1>3 DEF Inv, BankTypeOK, DeskState, QuestionStatuses
<1>7. AtWork'
  BY <1>1, <1>2, <1>3 DEF Inv, BankTypeOK, AtWork
<1>8. Written' /\ ApprovedAsRead'
  BY <1>1, <1>2 DEF Inv, BankTypeOK, Written, ApprovedAsRead, Kept
<1>9. TrailComplete'
  BY <1>1, <1>2 DEF Inv, BankTypeOK, TrailComplete, InBank, Kept
<1>10. Meetings'
  BY <1>2, <1>3 DEF Inv, Meetings
<1>11. Unmet'
  BY <1>2, <1>3, <1>4 DEF Inv, BankTypeOK, Unmet, AtWork, Writing
<1>12. Established'
  <2>1. SUFFICES ASSUME NEW p \in Questions, Settled(p)'
                 PROVE  /\ question'[p] \in {"APPROVED", "ARCHIVED", "GONE"}
                        /\ \A v \in Editors : desk'[v].at = p =>
                              /\ desk'[v].step \in {"version", "archive", "retire", "delete", "erase"}
                              /\ desk'[v].step = "erase" => question'[p] # "APPROVED"
                              /\ desk'[v].step = "delete" /\ desk'[v].was # "APPROVED" =>
                                    question'[p] # "APPROVED"
    BY DEF Established
  <2>2. Settled(p)
    BY <2>1, <1>2 DEF Settled
  <2>3. question'[p] = question[p] \/ question'[p] = "GONE"
    BY <1>2 DEF Inv, BankTypeOK
  <2>4. \A v \in Editors : desk'[v].at = p => desk'[v] = desk[v]
    BY <1>3, BankAssumption
  <2> QED
    BY <2>2, <2>3, <2>4 DEF Inv, Established
<1>13. Families'
  <2>1. ASSUME NEW p \in Questions, parent'[p] # NoQuestion
        PROVE  parent'[p] = parent[p] /\ parent[p] # q
    BY <2>1, <1>2
  <2> QED
    BY <2>1, <1>1, <1>2 DEF Inv, BankTypeOK, Families, InBank, Kept
<1>14. ApprovalStands
  BY <1>1, <1>2, <1>5 DEF Inv, BankTypeOK, ApprovalStands
<1> QED
  BY <1>6, <1>7, <1>8, <1>9, <1>10, <1>11, <1>12, <1>13, <1>14 DEF Inv

-----------------------------------------------------------------------------
(* The theorems *)

\* Every step keeps the invariant and lets what was approved stand.
LEMMA NextKeeps ==
    ASSUME Inv, BankNext
    PROVE  Inv' /\ ApprovalStands
<1>1. ASSUME Begins(Editors) PROVE Inv' /\ ApprovalStands
  <2>1. tasks' \in 0..MaxTasks
    BY <1>1, BankAssumption DEF Begins, Inv, BankTypeOK
  <2> QED
    BY <1>1, <2>1, OpenKeeps, CreateKeeps, OutsideKeeps, PlantKeeps, WriteKeeps
    DEF Begins, TranslateQuestions, UploadAnswerKey
<1>2. ASSUME NEW u \in Editors, EditorNext(u) PROVE Inv' /\ ApprovalStands
  BY <1>2, MoveKeeps, EditKeeps, VersionKeeps, CountUsageKeeps, RetireKeeps, EraseKeeps,
     GiveUpKeeps DEF EditorNext
<1>3. ASSUME OthersNext PROVE Inv' /\ ApprovalStands
  <2>1. PICK q \in Questions : AddToExam(q) \/ TakeOffExam(q) \/ CancelRequest(q)
    BY <1>3 DEF OthersNext
  <2>2. tasks' \in 0..MaxTasks
    BY <2>1 DEF AddToExam, TakeOffExam, CancelRequest, Inv, BankTypeOK
  <2> QED
    BY <2>1, <2>2, OutsideKeeps, CancelKeeps
<1> QED
  BY <1>1, <1>2, <1>3 DEF BankNext

\* The bank begins with drafts and approved questions that nobody works on.
LEMMA InitInv == BankInit => Inv
<1> SUFFICES ASSUME BankInit PROVE Inv
  OBVIOUS
<1> USE DEF BankInit
<1>1. AtRest \in DeskState /\ AtRest.step = "off" /\ AtRest.at = NoQuestion
  BY DEF AtRest, DeskState, DeskSteps, Reads, QuestionStatuses
<1>2. BankTypeOK
  BY <1>1 DEF BankTypeOK, DeskState, QuestionStatuses, Kept
<1>3. AtWork /\ Meetings /\ Unmet /\ Written
  BY <1>1 DEF AtWork, Meetings, Unmet, Written, Writing
<1>4. Established
  BY <1>1, BankAssumption DEF Established, Settled
<1>5. Families /\ ApprovedAsRead /\ TrailComplete
  BY DEF Families, ApprovedAsRead, TrailComplete
<1> QED
  BY <1>2, <1>3, <1>4, <1>5 DEF Inv

\* The invariant holds throughout.
THEOREM InvHolds == BankSpec => []Inv
<1>1. Inv /\ [BankNext]_bankVars => Inv'
  <2>1. ASSUME Inv, UNCHANGED bankVars PROVE Inv'
    BY <2>1 DEF bankVars, questionVars, reviewVars, Inv, BankTypeOK, AtWork, Written, Meetings,
       Unmet, Established, Settled, Families, InBank, ApprovedAsRead, TrailComplete
  <2> QED
    BY <2>1, NextKeeps
<1> QED
  BY <1>1, InitInv, PTL DEF BankSpec

\* The rows and the operations of the staff have values of their types.
THEOREM BankTypeCorrect == BankSpec => []BankTypeOK
<1>1. Inv => BankTypeOK
  BY DEF Inv
<1> QED
  BY <1>1, InvHolds, PTL

LEMMA VersionsOfInv == Inv => VersionsKept
BY DEF Inv, BankTypeOK, VersionsKept, Families, Established, Settled, InBank, Kept

\* Whatever overlaps, is deleted or cancelled: a version has its parent in the bank,
\* one version lower and approved or archived, unless an approval overlapped or a
\* request was cancelled; and exams hold only questions of the bank.
THEOREM VersionsAreKept == BankSpec => []VersionsKept
BY VersionsOfInv, InvHolds, PTL

\* For any number of concurrent operations: a review stands for the text that was
\* reviewed, nothing takes it back, and the history shows it, but for the named
\* overlaps and cancellations, and what translations, keys and exams write themselves.
THEOREM ReviewsHold == BankSpec => QuestionsReviewed
<1>1. Inv /\ Inv' /\ [BankNext]_bankVars =>
          [ApprovedAsRead' /\ TrailComplete' /\ ApprovalStands]_bankVars
  BY NextKeeps DEF Inv
<1> QED
  BY <1>1, InvHolds, PTL DEF BankSpec, QuestionsReviewed

-----------------------------------------------------------------------------
(* An import: the inductive invariant *)

\* A confirmation that has set the status
Active(u) == clerk[u].step \in {"rows", "next", "write", "mark", "fail"}

Successes == {r \in FileRows : mark[r] = "SUCCESS"}

\* A row says whether it is in the bank.
Told(r) ==
    /\ mark[r] = "SUCCESS" => made[r] = 1
    /\ mark[r] # "SUCCESS" => made[r] = 0

\* A row that is about to be marked
Due(r) == \E u \in Editors : clerk[u].step = "mark" /\ r = Row(u)

\* The rows and the confirmations have values of their types; one that is at a
\* row has that row before it, and one that has not read the rows has none.
Confirmations ==
    /\ mark \in [FileRows -> {"PENDING", "SUCCESS", "FAILED"}]
    /\ made \in [FileRows -> Nat]
    /\ doubled \in BOOLEAN
    /\ counts \in Nat \X Nat
    /\ slipped \subseteq FileRows
    /\ clerk \in [Editors -> [step : ClerkSteps, left : SUBSET FileRows, ok : Nat, bad : Nat,
                              aim : [FileRows -> Questions \cup {NoQuestion}]]]
    /\ kind \in [FileRows -> RowKinds]
    /\ target \in [FileRows -> Questions \cup {NoQuestion}]
    /\ \A u \in Editors :
          /\ clerk[u].step \in {"write", "mark", "fail"} => clerk[u].left # {}
          /\ clerk[u].step \in {"claim", "rows"} => clerk[u].left = {} /\ clerk[u].ok = 0

\* Unless a confirmation went on when it should not have: there is one at a time,
\* the status says so, it counts the rows that are marked, and every row says
\* whether it is in the bank but the one about to be marked, which is.  An import
\* that can be confirmed has marked nothing.
Honest ==
    /\ \A u, v \in Editors : Active(u) /\ Active(v) => u = v
    /\ \A u \in Editors : Active(u) =>
          /\ import = "IMPORTING"
          /\ clerk[u].ok = Cardinality(Successes)
          /\ clerk[u].left \cap Successes = {}
          /\ clerk[u].step = "rows" => Successes = {}
    /\ import \in {"IMPORTING", "COMPLETED"} \/ Successes = {}
    /\ import # "IMPORTING" => counts[1] = Cardinality(Successes)
    /\ \A r \in FileRows \ slipped :
          IF Due(r) THEN made[r] = 1 /\ mark[r] # "SUCCESS" ELSE Told(r)

ImportInv == Confirmations /\ (doubled \/ Honest)

-----------------------------------------------------------------------------
(* The rows of a confirmation *)

\* A confirmation that has rows before it is at one of them.
LEMMA RowIsLeft ==
    ASSUME Confirmations, NEW u \in Editors, clerk[u].left # {}
    PROVE  Row(u) \in clerk[u].left /\ Row(u) \in FileRows
<1>1. clerk[u].left \subseteq FileRows /\ FileRows \subseteq Nat
  BY ImportAssumption DEF Confirmations, FileRows
<1>2. \E r \in clerk[u].left : \A s \in clerk[u].left : ~(<<s, r>> \in OpToRel(<, Nat))
  BY <1>1, NatLessThanWellFounded, WFMin
<1>3. \A r, s \in Nat : <<s, r>> \in OpToRel(<, Nat) <=> s < r
  BY DEF OpToRel
<1>4. \E r \in clerk[u].left : \A s \in clerk[u].left : r <= s
  <2>1. PICK r \in clerk[u].left : \A s \in clerk[u].left : ~(<<s, r>> \in OpToRel(<, Nat))
    BY <1>2
  <2>2. ASSUME NEW s \in clerk[u].left PROVE r <= s
    <3>1. r \in Nat /\ s \in Nat
      BY <1>1
    <3>2. ~(s < r)
      BY <2>1, <1>3, <3>1
    <3> QED
      BY <3>1, <3>2
  <2> QED
    BY <2>1, <2>2
<1> QED
  BY <1>1, <1>4 DEF Row

\* The rows of the file are finitely many, and so are those that are marked.
LEMMA Counting ==
    ASSUME Confirmations
    PROVE  /\ IsFiniteSet(Successes) /\ Cardinality(Successes) \in Nat
           /\ Cardinality(Successes) = 0 => Successes = {}
           /\ \A r \in FileRows \ Successes :
                 Cardinality(Successes \cup {r}) = Cardinality(Successes) + 1
<1>1. IsFiniteSet(FileRows)
  BY ImportAssumption, FS_Interval DEF FileRows
<1>2. IsFiniteSet(Successes)
  BY <1>1, FS_Subset DEF Successes
<1> QED
  BY <1>2, FS_CardinalityType, FS_EmptySet, FS_AddElement

\* What the steps of the staff and of the upload leave alone
Beside == UNCHANGED <<mark, made, doubled, slipped, clerk>>

\* A step that changes nothing but what the rows ask for
LEMMA BesideKeeps ==
    ASSUME ImportInv, Beside,
           kind' \in [FileRows -> RowKinds], target' \in [FileRows -> Questions \cup {NoQuestion}],
           UNCHANGED counts,
           import' # import => {import, import'} \cap {"IMPORTING", "COMPLETED"} = {}
    PROVE  ImportInv'
<1> USE DEF Beside
<1>1. Confirmations'
  BY DEF ImportInv, Confirmations
<1>2. ASSUME Honest PROVE Honest'
  <2>1. Successes' = Successes /\ \A u \in Editors : Active(u)' = Active(u) /\ Row(u)' = Row(u)
    BY DEF Successes, Active, Row
  <2>2. \A u \in Editors : Active(u) => import' = import
    BY <1>2 DEF Honest
  <2>3. \A r \in FileRows : Told(r)' = Told(r) /\ Due(r)' = Due(r)
    BY <2>1 DEF Told, Due
  <2> QED
    BY <1>2, <2>1, <2>2, <2>3 DEF Honest
<1> QED
  BY <1>1, <1>2 DEF ImportInv

-----------------------------------------------------------------------------
(* The steps of a confirmation *)

\* A confirmation that goes on, with its rows and its counts as they were
Onward(u, step) ==
    /\ clerk' = [clerk EXCEPT ![u].step = step]
    /\ UNCHANGED <<import, counts, kind, target, mark, doubled>>

\* What such a step makes of the confirmations
LEMMA Stepping ==
    ASSUME Confirmations, NEW u \in Editors, NEW step \in ClerkSteps,
           clerk' = [clerk EXCEPT ![u].step = step]
    PROVE  /\ clerk' \in [Editors -> [step : ClerkSteps, left : SUBSET FileRows, ok : Nat,
                                      bad : Nat, aim : [FileRows -> Questions \cup {NoQuestion}]]]
           /\ clerk'[u].step = step /\ clerk'[u].left = clerk[u].left
           /\ clerk'[u].ok = clerk[u].ok
           /\ \A v \in Editors : v # u => clerk'[v] = clerk[v]
           /\ \A v \in Editors : Row(v)' = Row(v)
BY DEF Confirmations, ClerkSteps, Row

\* The one row about to be marked is that of the one confirmation.
LEMMA OneIsDue ==
    ASSUME Honest, NEW u \in Editors, Active(u), \A v \in Editors : Active(v)' = Active(v)
    PROVE  /\ \A r : Due(r) <=> clerk[u].step = "mark" /\ r = Row(u)
           /\ \A r : Due(r)' <=> clerk'[u].step = "mark" /\ r = Row(u)'
<1>1. \A v \in Editors : Active(v) => v = u
  BY DEF Honest
<1>2. \A v \in Editors : clerk[v].step = "mark" => v = u
  BY <1>1 DEF Active
<1>3. \A v \in Editors : clerk'[v].step = "mark" => v = u
  BY <1>1 DEF Active
<1> QED
  BY <1>2, <1>3 DEF Due

\* One that writes a row: nobody wrote it before.
LEMMA WroteKeeps ==
    ASSUME ImportInv, NEW u \in Editors, clerk[u].step \in {"next", "write"}, clerk[u].left # {},
           Wrote(u), UNCHANGED <<import, counts, kind, target, mark, doubled, slipped>>
    PROVE  ImportInv'
<1>1. Row(u) \in clerk[u].left /\ Row(u) \in FileRows
  BY RowIsLeft DEF ImportInv
<1>2. /\ made' = [made EXCEPT ![Row(u)] = @ + 1]
      /\ clerk' = [clerk EXCEPT ![u].step = "mark"]
  BY DEF Wrote, StepTo
<1>3. /\ clerk' \in [Editors -> [step : ClerkSteps, left : SUBSET FileRows, ok : Nat,
                                 bad : Nat, aim : [FileRows -> Questions \cup {NoQuestion}]]]
      /\ clerk'[u].step = "mark" /\ clerk'[u].left = clerk[u].left /\ clerk'[u].ok = clerk[u].ok
      /\ \A v \in Editors : v # u => clerk'[v] = clerk[v]
      /\ \A v \in Editors : Row(v)' = Row(v)
  BY <1>2, Stepping DEF ImportInv, ClerkSteps
<1>4. Confirmations'
  <2>1. made' \in [FileRows -> Nat]
    BY <1>1, <1>2 DEF ImportInv, Confirmations
  <2> QED
    BY <1>3, <2>1 DEF ImportInv, Confirmations
<1>5. ASSUME Honest PROVE Honest'
  <2>1. Successes' = Successes /\ (\A v \in Editors : Active(v)' = Active(v)) /\ Active(u)
    BY <1>3 DEF Successes, Active
  <2>2. \A r : ~Due(r) /\ (Due(r)' <=> r = Row(u))
    BY <1>3, <1>5, <2>1, OneIsDue
  <2>3. mark[Row(u)] # "SUCCESS"
    BY <1>1, <1>5, <2>1 DEF Honest, Successes
  <2>4. ASSUME NEW r \in FileRows \ slipped
        PROVE  IF Due(r)' THEN made'[r] = 1 /\ mark'[r] # "SUCCESS" ELSE Told(r)'
    <3>1. Told(r)
      BY <1>5, <2>2 DEF Honest
    <3>2. CASE r = Row(u)
      <4>1. made[r] = 0
        BY <2>3, <3>1, <3>2 DEF Told
      <4>2. made'[r] = 1
        BY <1>1, <1>2, <3>2, <4>1 DEF ImportInv, Confirmations
      <4> QED
        BY <2>2, <2>3, <3>2, <4>2
    <3>3. CASE r # Row(u)
      <4>1. made'[r] = made[r]
        BY <1>2, <3>3 DEF ImportInv, Confirmations
      <4> QED
        BY <2>2, <3>1, <3>3, <4>1 DEF Told
    <3> QED
      BY <3>2, <3>3
  <2> QED
    BY <1>3, <1>5, <2>1, <2>4 DEF Honest
<1> QED
  BY <1>4, <1>5 DEF ImportInv

\* One that goes on without having written the row.
LEMMA OnwardKeeps ==
    ASSUME ImportInv, NEW u \in Editors, NEW step \in {"write", "fail"},
           clerk[u].step \in {"next", "write"}, clerk[u].left # {},
           Onward(u, step), UNCHANGED <<made, slipped>>
    PROVE  ImportInv'
<1>1. /\ clerk' \in [Editors -> [step : ClerkSteps, left : SUBSET FileRows, ok : Nat,
                                 bad : Nat, aim : [FileRows -> Questions \cup {NoQuestion}]]]
      /\ clerk'[u].step = step /\ clerk'[u].left = clerk[u].left /\ clerk'[u].ok = clerk[u].ok
      /\ \A v \in Editors : v # u => clerk'[v] = clerk[v]
      /\ \A v \in Editors : Row(v)' = Row(v)
  BY Stepping DEF ImportInv, ClerkSteps, Onward
<1>2. Confirmations'
  BY <1>1 DEF Onward, ImportInv, Confirmations
<1>3. ASSUME Honest PROVE Honest'
  <2>1. Successes' = Successes /\ (\A v \in Editors : Active(v)' = Active(v)) /\ Active(u)
    BY <1>1 DEF Successes, Active, Onward
  <2>2. \A r : ~Due(r) /\ ~Due(r)'
    BY <1>1, <1>3, <2>1, OneIsDue
  <2>3. \A r : Told(r)' = Told(r)
    BY DEF Told, Onward
  <2> QED
    BY <1>1, <1>3, <2>1, <2>2, <2>3 DEF Honest, Onward
<1> QED
  BY <1>2, <1>3 DEF ImportInv, Onward

\* What marking a row makes of the confirmation
LEMMA Marking ==
    ASSUME Confirmations, NEW u \in Editors, NEW m \in {"SUCCESS", "FAILED"}, Marked(u, m)
    PROVE  /\ clerk' \in [Editors -> [step : ClerkSteps, left : SUBSET FileRows, ok : Nat,
                                      bad : Nat, aim : [FileRows -> Questions \cup {NoQuestion}]]]
           /\ clerk'[u].step = "next" /\ clerk'[u].left = clerk[u].left \ {Row(u)}
           /\ clerk'[u].ok = IF m = "SUCCESS" THEN clerk[u].ok + 1 ELSE clerk[u].ok
           /\ \A v \in Editors : v # u => clerk'[v] = clerk[v]
<1>1. CASE m = "SUCCESS"
  <2>1. clerk' = [clerk EXCEPT ![u].step = "next", ![u].left = @ \ {Row(u)},
                               ![u].ok = @ + 1, ![u].bad = @]
    BY <1>1 DEF Marked
  <2> QED
    BY <1>1, <2>1 DEF Confirmations, ClerkSteps
<1>2. CASE m = "FAILED"
  <2>1. clerk' = [clerk EXCEPT ![u].step = "next", ![u].left = @ \ {Row(u)},
                               ![u].ok = @, ![u].bad = @ + 1]
    BY <1>2 DEF Marked
  <2> QED
    BY <1>2, <2>1 DEF Confirmations, ClerkSteps
<1> QED
  BY <1>1, <1>2

\* A row that is marked is one that was written.
LEMMA MarkKeeps ==
    ASSUME ImportInv, NEW u \in Editors, MarkRow(u)
    PROVE  ImportInv'
<1>1. /\ Row(u) \in clerk[u].left /\ Row(u) \in FileRows
      /\ clerk[u].step = "mark" /\ clerk[u].left # {}
      /\ UNCHANGED <<import, counts, kind, target, made, doubled>>
  BY RowIsLeft DEF ImportInv, MarkRow, At
<1>2. CASE mark' = [mark EXCEPT ![Row(u)] = "SUCCESS"] /\ Marked(u, "SUCCESS")
           /\ UNCHANGED <<slips, slipped>>
  <2>1. /\ clerk' \in [Editors -> [step : ClerkSteps, left : SUBSET FileRows, ok : Nat,
                                   bad : Nat, aim : [FileRows -> Questions \cup {NoQuestion}]]]
        /\ clerk'[u].step = "next" /\ clerk'[u].left = clerk[u].left \ {Row(u)}
        /\ clerk'[u].ok = clerk[u].ok + 1
        /\ \A v \in Editors : v # u => clerk'[v] = clerk[v]
    BY <1>2, Marking DEF ImportInv
  <2>2. Confirmations'
    BY <1>1, <1>2, <2>1 DEF ImportInv, Confirmations
  <2>3. ASSUME Honest PROVE Honest'
    <3>1. Active(u) /\ \A v \in Editors : Active(v)' = Active(v)
      BY <1>1, <2>1 DEF Active
    <3>2. \A r : (Due(r) <=> r = Row(u)) /\ ~Due(r)'
      BY <1>1, <2>1, <2>3, <3>1, OneIsDue
    <3>3. Row(u) \notin Successes
      BY <1>1, <2>3, <3>1 DEF Honest
    <3>4. Successes' = Successes \cup {Row(u)}
      BY <1>1, <1>2 DEF ImportInv, Confirmations, Successes
    <3>5. Cardinality(Successes') = Cardinality(Successes) + 1
      BY <1>1, <3>3, <3>4, Counting DEF ImportInv
    <3>6. ASSUME NEW r \in FileRows \ slipped PROVE Told(r)'
      <4>1. CASE r = Row(u)
        <5>1. made[r] = 1
          BY <4>1, <2>3, <3>2 DEF Honest
        <5>2. mark'[r] = "SUCCESS"
          BY <4>1, <1>1, <1>2 DEF ImportInv, Confirmations
        <5> QED
          BY <5>1, <5>2, <1>1 DEF Told
      <4>2. CASE r # Row(u)
        <5>1. Told(r)
          BY <4>2, <2>3, <3>2 DEF Honest
        <5>2. mark'[r] = mark[r]
          BY <4>2, <1>2 DEF ImportInv, Confirmations
        <5> QED
          BY <5>1, <5>2, <1>1 DEF Told
      <4> QED
        BY <4>1, <4>2
    <3>7. /\ import = "IMPORTING" /\ clerk[u].ok = Cardinality(Successes)
          /\ clerk[u].left \cap Successes = {}
      BY <2>3, <3>1 DEF Honest
    <3>8. \A v \in Editors : Active(v) => v = u
      BY <2>3, <3>1 DEF Honest
    <3> QED
      BY <1>1, <1>2, <2>1, <3>1, <3>2, <3>4, <3>5, <3>6, <3>7, <3>8 DEF Honest
  <2> QED
    BY <1>1, <2>2, <2>3 DEF ImportInv
<1>3. CASE slipped' = slipped \cup {Row(u)} /\ StepTo(u, "fail") /\ UNCHANGED mark
  <2>1. clerk' = [clerk EXCEPT ![u].step = "fail"]
    BY <1>3 DEF StepTo
  <2>2. /\ clerk' \in [Editors -> [step : ClerkSteps, left : SUBSET FileRows, ok : Nat,
                                   bad : Nat, aim : [FileRows -> Questions \cup {NoQuestion}]]]
        /\ clerk'[u].step = "fail" /\ clerk'[u].left = clerk[u].left /\ clerk'[u].ok = clerk[u].ok
        /\ \A v \in Editors : v # u => clerk'[v] = clerk[v]
        /\ \A v \in Editors : Row(v)' = Row(v)
    BY <2>1, Stepping DEF ImportInv, ClerkSteps
  <2>3. Confirmations'
    BY <1>1, <1>3, <2>2 DEF ImportInv, Confirmations
  <2>4. ASSUME Honest PROVE Honest'
    <3>1. Active(u) /\ Successes' = Successes /\ \A v \in Editors : Active(v)' = Active(v)
      BY <1>1, <1>3, <2>2 DEF Active, Successes
    <3>2. \A r : (Due(r) <=> r = Row(u)) /\ ~Due(r)'
      BY <1>1, <2>2, <2>4, <3>1, OneIsDue
    <3>3. \A r : Told(r)' = Told(r)
      BY <1>1, <1>3 DEF Told
    <3>4. \A r \in FileRows \ slipped' : r # Row(u) /\ r \in FileRows \ slipped
      BY <1>3
    <3> QED
      BY <1>1, <2>2, <2>4, <3>1, <3>2, <3>3, <3>4 DEF Honest
  <2> QED
    BY <1>1, <2>3, <2>4 DEF ImportInv
<1> QED
  BY <1>2, <1>3 DEF MarkRow

\* A row that is given up was not written, or could not be marked.
LEMMA FailKeeps ==
    ASSUME ImportInv, NEW u \in Editors, FailRow(u)
    PROVE  ImportInv'
<1>1. /\ Row(u) \in clerk[u].left /\ Row(u) \in FileRows
      /\ clerk[u].step = "fail" /\ clerk[u].left # {}
      /\ mark' = [mark EXCEPT ![Row(u)] = "FAILED"]
      /\ UNCHANGED <<import, counts, kind, target, made, doubled, slipped>>
  BY RowIsLeft DEF ImportInv, FailRow, At
<1>2. /\ clerk' \in [Editors -> [step : ClerkSteps, left : SUBSET FileRows, ok : Nat,
                                 bad : Nat, aim : [FileRows -> Questions \cup {NoQuestion}]]]
      /\ clerk'[u].step = "next" /\ clerk'[u].left = clerk[u].left \ {Row(u)}
      /\ clerk'[u].ok = clerk[u].ok
      /\ \A v \in Editors : v # u => clerk'[v] = clerk[v]
  BY Marking DEF ImportInv, FailRow
<1>3. Confirmations'
  BY <1>1, <1>2 DEF ImportInv, Confirmations
<1>4. ASSUME Honest PROVE Honest'
  <2>1. Active(u) /\ \A v \in Editors : Active(v)' = Active(v)
    BY <1>1, <1>2 DEF Active
  <2>2. \A r : ~Due(r) /\ ~Due(r)'
    BY <1>1, <1>2, <1>4, <2>1, OneIsDue
  <2>3. Row(u) \notin Successes /\ mark[Row(u)] # "SUCCESS"
    BY <1>1, <1>4, <2>1 DEF Honest, Successes
  <2>4. \A r \in FileRows : mark'[r] = "SUCCESS" <=> mark[r] = "SUCCESS"
    BY <1>1, <2>3 DEF ImportInv, Confirmations
  <2>5. Successes' = Successes
    BY <2>4 DEF Successes
  <2>6. \A r \in FileRows : Told(r)' = Told(r)
    BY <1>1, <2>4 DEF Told
  <2>7. \A v \in Editors : Active(v) => v = u
    BY <1>4, <2>1 DEF Honest
  <2>8. \A r \in FileRows \ slipped : Told(r)
    BY <1>4, <2>2 DEF Honest
  <2> QED
    BY <1>1, <1>2, <1>4, <2>1, <2>2, <2>5, <2>6, <2>7, <2>8 DEF Honest
<1> QED
  BY <1>1, <1>3, <1>4 DEF ImportInv

\* The last step counts what was marked.
LEMMA FinishKeeps ==
    ASSUME ImportInv, NEW u \in Editors, FinishImport(u)
    PROVE  ImportInv'
<1>1. /\ clerk[u].step = "next"
      /\ import' = IF clerk[u].bad > 0 /\ clerk[u].ok = 0 THEN "FAILED" ELSE "COMPLETED"
      /\ counts' = <<clerk[u].ok, clerk[u].bad>>
      /\ clerk' = [clerk EXCEPT ![u] = Away]
      /\ UNCHANGED <<kind, target, mark, made, doubled, slipped>>
  BY DEF FinishImport, rowsVars
<1>2. /\ clerk' \in [Editors -> [step : ClerkSteps, left : SUBSET FileRows, ok : Nat,
                                 bad : Nat, aim : [FileRows -> Questions \cup {NoQuestion}]]]
      /\ clerk'[u].step = "off"
      /\ \A v \in Editors : v # u => clerk'[v] = clerk[v]
  BY <1>1 DEF ImportInv, Confirmations, ClerkSteps, Away
<1>3. counts' \in Nat \X Nat /\ counts'[1] = clerk[u].ok
  BY <1>1 DEF ImportInv, Confirmations
<1>4. Confirmations'
  BY <1>1, <1>2, <1>3 DEF ImportInv, Confirmations
<1>5. ASSUME Honest PROVE Honest'
  <2>1. Successes' = Successes /\ Active(u)
    BY <1>1 DEF Successes, Active
  <2>2. \A v \in Editors : ~Active(v)' /\ (v # u => ~Active(v))
    BY <1>2, <1>5, <2>1 DEF Honest, Active
  <2>3. \A r : ~Due(r) /\ ~Due(r)'
    BY <1>1, <2>2 DEF Due, Active
  <2>4. clerk[u].ok = Cardinality(Successes)
    BY <1>5, <2>1 DEF Honest
  <2>5. import' = "COMPLETED" \/ Successes = {}
    BY <1>1, <2>4, Counting DEF ImportInv
  <2>6. \A r : Told(r)' = Told(r)
    BY <1>1 DEF Told
  <2>7. \A r \in FileRows \ slipped : Told(r)
    BY <1>5, <2>3 DEF Honest
  <2> QED
    BY <1>1, <1>3, <2>1, <2>2, <2>3, <2>4, <2>5, <2>6, <2>7 DEF Honest
<1> QED
  BY <1>1, <1>4, <1>5 DEF ImportInv

\* A confirmation begins when nothing is marked, or goes on when it should not.
LEMMA ClaimKeeps ==
    ASSUME ImportInv, NEW u \in Editors, Claim(u)
    PROVE  ImportInv'
<1>1. /\ clerk[u].step = "claim" /\ import' = "IMPORTING"
      /\ doubled' = (doubled \/ import \in {"IMPORTING", "COMPLETED"})
      /\ clerk' = [clerk EXCEPT ![u].step = "rows"]
      /\ UNCHANGED <<counts, kind, target, mark, made, slipped>>
  BY DEF Claim, StepTo, rowsVars
<1>2. /\ clerk' \in [Editors -> [step : ClerkSteps, left : SUBSET FileRows, ok : Nat,
                                 bad : Nat, aim : [FileRows -> Questions \cup {NoQuestion}]]]
      /\ clerk'[u].step = "rows" /\ clerk'[u].left = clerk[u].left /\ clerk'[u].ok = clerk[u].ok
      /\ \A v \in Editors : v # u => clerk'[v] = clerk[v]
  BY <1>1, Stepping DEF ImportInv, ClerkSteps
<1>3. clerk[u].left = {} /\ clerk[u].ok = 0
  BY <1>1 DEF ImportInv, Confirmations
<1>4. doubled' \in BOOLEAN
  BY <1>1
<1>5. Confirmations'
  BY <1>1, <1>2, <1>3, <1>4 DEF ImportInv, Confirmations
<1>6. ASSUME ~doubled' PROVE Honest'
  <2>1. Honest /\ import \notin {"IMPORTING", "COMPLETED"}
    BY <1>1, <1>6 DEF ImportInv
  <2>2. Successes = {} /\ \A v \in Editors : ~Active(v)
    BY <2>1 DEF Honest
  <2>3. Successes' = {} /\ Cardinality({}) = 0
    BY <1>1, <2>2, FS_EmptySet DEF Successes
  <2>4. \A v \in Editors : Active(v)' <=> v = u
    BY <1>2, <2>2 DEF Active
  <2>5. \A r : ~Due(r) /\ ~Due(r)'
    BY <1>2, <2>2, <2>4 DEF Due, Active
  <2>6. \A r \in FileRows \ slipped : Told(r)
    BY <2>1, <2>5 DEF Honest
  <2>7. \A r : Told(r)' = Told(r)
    BY <1>1 DEF Told
  <2> QED
    BY <1>1, <1>2, <1>3, <2>3, <2>4, <2>5, <2>6, <2>7 DEF Honest
<1> QED
  BY <1>4, <1>5, <1>6 DEF ImportInv

\* It takes its rows from what is there, before any of them is marked.
LEMMA ReadKeeps ==
    ASSUME ImportInv, NEW u \in Editors, ReadRows(u)
    PROVE  ImportInv'
<1> DEFINE valid == {r \in FileRows : kind[r] \in {"create", "update"}}
<1>1. /\ clerk[u].step = "rows"
      /\ clerk' = [clerk EXCEPT ![u].step = "next", ![u].aim = target, ![u].left = valid]
      /\ UNCHANGED <<import, counts, kind, target, mark, made, doubled, slipped>>
  BY DEF ReadRows, rowsVars
<1>2. valid \subseteq FileRows
  OBVIOUS
<1> HIDE DEF valid
<1>3. /\ clerk' \in [Editors -> [step : ClerkSteps, left : SUBSET FileRows, ok : Nat,
                                 bad : Nat, aim : [FileRows -> Questions \cup {NoQuestion}]]]
      /\ clerk'[u].step = "next" /\ clerk'[u].ok = clerk[u].ok
      /\ \A v \in Editors : v # u => clerk'[v] = clerk[v]
  <2>1. /\ clerk[u] \in [step : ClerkSteps, left : SUBSET FileRows, ok : Nat, bad : Nat,
                         aim : [FileRows -> Questions \cup {NoQuestion}]]
        /\ target \in [FileRows -> Questions \cup {NoQuestion}] /\ "next" \in ClerkSteps
    BY DEF ImportInv, Confirmations, ClerkSteps
  <2>2. PICK c : /\ clerk' = [clerk EXCEPT ![u] = c]
                 /\ c \in [step : ClerkSteps, left : SUBSET FileRows, ok : Nat, bad : Nat,
                           aim : [FileRows -> Questions \cup {NoQuestion}]]
                 /\ c.step = "next" /\ c.ok = clerk[u].ok
    <3> DEFINE c == [clerk[u] EXCEPT !.step = "next", !.aim = target, !.left = valid]
    <3>1. clerk' = [clerk EXCEPT ![u] = c]
      BY <1>1
    <3>2. /\ c \in [step : ClerkSteps, left : SUBSET FileRows, ok : Nat, bad : Nat,
                    aim : [FileRows -> Questions \cup {NoQuestion}]]
          /\ c.step = "next" /\ c.ok = clerk[u].ok
      BY <1>2, <2>1
    <3> QED
      BY <3>1, <3>2
  <2> QED
    BY <2>2 DEF ImportInv, Confirmations
<1>4. Confirmations'
  BY <1>1, <1>3 DEF ImportInv, Confirmations
<1>5. ASSUME Honest PROVE Honest'
  <2>1. Active(u) /\ Successes' = Successes /\ \A v \in Editors : Active(v)' = Active(v)
    BY <1>1, <1>3 DEF Active, Successes
  <2>2. \A r : ~Due(r) /\ ~Due(r)'
    BY <1>1, <1>3, <1>5, <2>1, OneIsDue
  <2>3. Successes = {}
    BY <1>1, <1>5, <2>1 DEF Honest
  <2>4. \A r : Told(r)' = Told(r)
    BY <1>1 DEF Told
  <2> QED
    BY <1>1, <1>3, <1>5, <2>1, <2>2, <2>3, <2>4 DEF Honest
<1> QED
  BY <1>1, <1>4, <1>5 DEF ImportInv

\* A confirmation that has only been asked for has touched nothing.
LEMMA ConfirmKeeps ==
    ASSUME ImportInv, NEW u \in Editors, Confirm(u)
    PROVE  ImportInv'
<1>1. /\ clerk[u].step = "off"
      /\ clerk' = [clerk EXCEPT ![u] = [Away EXCEPT !.step = "claim"]]
      /\ UNCHANGED <<import, counts, kind, target, mark, made, doubled, slipped>>
  BY DEF Confirm, rowsVars, Importing
<1>2. /\ clerk' \in [Editors -> [step : ClerkSteps, left : SUBSET FileRows, ok : Nat,
                                 bad : Nat, aim : [FileRows -> Questions \cup {NoQuestion}]]]
      /\ clerk'[u].step = "claim" /\ clerk'[u].left = {} /\ clerk'[u].ok = 0
      /\ \A v \in Editors : v # u => clerk'[v] = clerk[v]
  BY <1>1 DEF ImportInv, Confirmations, ClerkSteps, Away
<1>3. Confirmations'
  BY <1>1, <1>2 DEF ImportInv, Confirmations
<1>4. ASSUME Honest PROVE Honest'
  <2>1. /\ Successes' = Successes
        /\ \A v \in Editors : Active(v)' = Active(v) /\ (Active(v) => v # u)
    BY <1>1, <1>2 DEF Active, Successes
  <2>2. \A v \in Editors : v # u => Row(v)' = Row(v)
    BY <1>2 DEF Row
  <2>3. \A r : Due(r)' = Due(r) /\ Told(r)' = Told(r)
    BY <1>1, <1>2, <2>2 DEF Due, Told
  <2> QED
    BY <1>1, <1>2, <1>4, <2>1, <2>3 DEF Honest
<1> QED
  BY <1>1, <1>3, <1>4 DEF ImportInv

\* A cancellation is honest before the import is confirmed.
LEMMA CancelImportKeeps ==
    ASSUME ImportInv, CancelImport
    PROVE  ImportInv'
<1>1. /\ import' = "CANCELLED" /\ doubled' = (doubled \/ import \in {"IMPORTING", "COMPLETED"})
      /\ UNCHANGED <<clerk, counts, kind, target, mark, made, slipped>>
  BY DEF CancelImport, rowsVars
<1>2. Confirmations' /\ doubled' \in BOOLEAN
  BY <1>1 DEF ImportInv, Confirmations
<1>3. ASSUME ~doubled' PROVE Honest'
  <2>1. Honest /\ import \notin {"IMPORTING", "COMPLETED"}
    BY <1>1, <1>3 DEF ImportInv
  <2>2. /\ Successes' = Successes
        /\ \A u \in Editors : ~Active(u) /\ ~Active(u)'
    BY <1>1, <2>1 DEF Honest, Active, Successes
  <2>3. \A r : ~Due(r) /\ ~Due(r)' /\ Told(r)' = Told(r)
    BY <1>1, <2>2 DEF Due, Told, Active
  <2> QED
    BY <1>1, <2>1, <2>2, <2>3 DEF Honest
<1> QED
  BY <1>2, <1>3 DEF ImportInv

\* The rows that die before they are marked are known.
LEMMA DiesKeeps ==
    ASSUME ImportInv, ImportDies
    PROVE  ImportInv'
<1>1. PICK dead \in {Editors} \cup {{u} : u \in Editors} :
          /\ clerk' = [u \in Editors |-> IF u \in dead THEN Away ELSE clerk[u]]
          /\ slipped' = slipped \cup {Row(u) : u \in {v \in dead : At(v, "mark")}}
  BY DEF ImportDies
<1>2. /\ UNCHANGED <<import, counts, kind, target, mark, made, doubled>>
      /\ dead \subseteq Editors
  BY DEF ImportDies, rowsVars
<1>3. /\ clerk' \in [Editors -> [step : ClerkSteps, left : SUBSET FileRows, ok : Nat,
                                 bad : Nat, aim : [FileRows -> Questions \cup {NoQuestion}]]]
      /\ \A v \in dead : clerk'[v].step = "off"
      /\ \A v \in Editors \ dead : clerk'[v] = clerk[v]
  BY <1>1, <1>2 DEF ImportInv, Confirmations, ClerkSteps, Away
<1>4. slipped' \subseteq FileRows /\ slipped \subseteq slipped'
  <2>1. \A v \in Editors : clerk[v].left # {} => Row(v) \in FileRows
    BY RowIsLeft DEF ImportInv
  <2> QED
    BY <1>1, <1>2, <2>1 DEF ImportInv, Confirmations, At
<1>5. Confirmations'
  BY <1>2, <1>3, <1>4 DEF ImportInv, Confirmations
<1>6. ASSUME Honest PROVE Honest'
  <2>1. /\ Successes' = Successes
        /\ \A v \in Editors : Active(v)' => Active(v) /\ v \notin dead
    BY <1>2, <1>3 DEF Active, Successes
  <2>2. \A v \in Editors \ dead : Row(v)' = Row(v)
    BY <1>3 DEF Row
  <2>3. ASSUME NEW r \in FileRows \ slipped' PROVE Due(r)' = Due(r)
    <3>1. Due(r)' => Due(r)
      BY <1>3, <2>2 DEF Due
    <3>2. ASSUME NEW v \in Editors, clerk[v].step = "mark", r = Row(v)
          PROVE  clerk'[v].step = "mark" /\ r = Row(v)'
      <4>1. At(v, "mark")
        BY <3>2 DEF At, ImportInv, Confirmations
      <4>2. v \notin dead
        BY <4>1, <3>2, <2>3, <1>1
      <4> QED
        BY <4>2, <3>2, <1>3, <2>2
    <3> QED
      BY <3>1, <3>2 DEF Due
  <2>4. \A r : Told(r)' = Told(r)
    BY <1>2 DEF Told
  <2> QED
    BY <1>2, <1>3, <1>4, <1>6, <2>1, <2>3, <2>4 DEF Honest
<1> QED
  BY <1>2, <1>5, <1>6 DEF ImportInv

-----------------------------------------------------------------------------
\* Every step keeps the invariant.
LEMMA ImportNextKeeps ==
    ASSUME ImportInv, [ImportNext]_importerVars
    PROVE  ImportInv'
<1> USE DEF Beside, importVars, rowsVars
<1>1. CASE Upload
  <2>1. kind' \in [FileRows -> RowKinds] /\ target' \in [FileRows -> Questions \cup {NoQuestion}]
    BY <1>1 DEF Upload, ImportInv, Confirmations
  <2> QED
    BY <1>1, <2>1, BesideKeeps DEF Upload
<1>2. CASE Asked
  <2>1. ASSUME NEW r \in FileRows, CorrectRow(r) PROVE ImportInv'
    <3>1. kind' \in [FileRows -> RowKinds] /\ target' \in [FileRows -> Questions \cup {NoQuestion}]
      BY <2>1 DEF CorrectRow, ImportInv, Confirmations
    <3> QED
      BY <2>1, <3>1, BesideKeeps DEF CorrectRow
  <2> QED
    BY <1>2, <2>1, CancelImportKeeps, ConfirmKeeps DEF Asked
<1>3. CASE ImportDies
  BY <1>3, DiesKeeps
<1>4. ASSUME NEW u \in Editors, ClerkRuns(u) PROVE ImportInv'
  <2>1. ASSUME NEW q \in Questions, CreateFromRow(u, q) PROVE ImportInv'
    BY <2>1, WroteKeeps DEF CreateFromRow, At
  <2>2. ASSUME OpenFromRow(u) PROVE ImportInv'
    BY <2>2, OnwardKeeps DEF OpenFromRow, At, Onward, StepTo
  <2>3. ASSUME WriteFromRow(u) PROVE ImportInv'
    BY <2>3, WroteKeeps DEF WriteFromRow, At
  <2>4. ASSUME RefuseRow(u) PROVE ImportInv'
    BY <2>4, OnwardKeeps DEF RefuseRow, At, Onward, StepTo
  <2> QED
    BY <1>4, <2>1, <2>2, <2>3, <2>4, ClaimKeeps, ReadKeeps, MarkKeeps, FailKeeps, FinishKeeps
    DEF ClerkRuns
<1>5. CASE BankRuns
  <2>1. UNCHANGED importVars
    BY <1>5 DEF BankRuns
  <2> QED
    BY <2>1, BesideKeeps DEF ImportInv, Confirmations
<1>6. CASE UNCHANGED importerVars
  BY <1>6, BesideKeeps DEF importerVars, ImportInv, Confirmations
<1> QED
  BY <1>1, <1>2, <1>3, <1>4, <1>5, <1>6 DEF ImportNext

\* An import begins with rows that are not in the bank and not marked.
LEMMA ImportInitInv ==
    ASSUME ImportInit
    PROVE  ImportInv
<1>1. Confirmations
  BY DEF ImportInit, Confirmations, ClerkSteps, Away, RowKinds
<1>2. Successes = {} /\ Cardinality({}) = 0
  BY FS_EmptySet DEF ImportInit, Successes
<1>3. \A u \in Editors : ~Active(u) /\ clerk[u].step # "mark"
  BY DEF ImportInit, Active, Away
<1>4. \A r \in FileRows : Told(r) /\ ~Due(r)
  BY <1>3 DEF ImportInit, Told, Due
<1>5. Honest
  BY <1>2, <1>3, <1>4 DEF Honest, ImportInit
<1> QED
  BY <1>1, <1>5 DEF ImportInv

\* What the invariant says of the rows.
LEMMA RowsOfInv == ImportInv => RowsImported
<1> SUFFICES ASSUME ImportInv, ~doubled PROVE RowsImported
  BY DEF RowsImported, RowsOnce, RowsTrue
<1>1. Confirmations /\ Honest
  BY DEF ImportInv
<1>2. \A r \in FileRows \ slipped : made[r] <= 1
  BY <1>1 DEF Honest, Told, Confirmations
<1>3. ASSUME \A u \in Editors : ~Importing(u)
      PROVE  /\ import \in {"COMPLETED", "FAILED"} =>
                   counts[1] = Cardinality({r \in FileRows : mark[r] = "SUCCESS"})
             /\ \A r \in FileRows \ slipped :
                   /\ mark[r] = "SUCCESS" => made[r] = 1
                   /\ mark[r] = "FAILED" => made[r] = 0
  <2>1. \A r : ~Due(r)
    BY <1>3 DEF Due, Importing
  <2> QED
    BY <1>1, <2>1 DEF Honest, Told, Successes
<1> QED
  BY <1>2, <1>3 DEF RowsImported, RowsOnce, RowsTrue

\* A row is written to the bank at most once however often its import is confirmed,
\* and what the import says of its rows is what was done (confirmImport() in
\* question-import.service.ts), unless a confirmation ran on a stale status.
THEOREM RowsAreImported == ImportSpec => []RowsImported
<1>1. ImportInit => ImportInv
  BY ImportInitInv
<1>2. ImportInv /\ [ImportNext]_importerVars => ImportInv'
  BY ImportNextKeeps
<1> QED
  BY <1>1, <1>2, RowsOfInv, PTL DEF ImportSpec

-----------------------------------------------------------------------------
(* The bank while files are imported *)

\* What is asked of an import leaves the bank as it is.
LEMMA IdleKeeps ==
    ASSUME Inv, UNCHANGED idleVars, tasks' \in 0..MaxTasks
    PROVE  Inv' /\ ApprovalStands
BY DEF idleVars, questionVars, reviewVars, Inv, BankTypeOK, AtWork, Written, Meetings, Unmet,
   Established, Settled, Families, InBank, ApprovedAsRead, TrailComplete, ApprovalStands

\* Operations that die leave no trace.
LEMMA DeathKeeps ==
    ASSUME Inv, ImportDies
    PROVE  Inv' /\ ApprovalStands
<1> USE DEF questionVars, reviewVars
<1>1. PICK dead : desk' = [u \in Editors |-> IF u \in dead THEN AtRest ELSE desk[u]]
  BY DEF ImportDies
<1>2. UNCHANGED <<questionVars, listed, queued, tasks, reviewVars, mixed, unsettled>>
  BY DEF ImportDies
<1>3. /\ desk' \in [Editors -> DeskState]
      /\ \A v \in Editors : desk'[v] = desk[v] \/ desk'[v] = AtRest
      /\ AtRest.step = "off" /\ AtRest.at = NoQuestion
  BY <1>1 DEF Inv, BankTypeOK, AtRest, DeskState, DeskSteps, Reads, QuestionStatuses, Kept
<1>4. BankTypeOK'
  BY <1>2, <1>3 DEF Inv, BankTypeOK, DeskState
<1>5. AtWork'
  BY <1>2, <1>3 DEF Inv, AtWork
<1>6. Written' /\ Families' /\ ApprovedAsRead' /\ TrailComplete'
  BY <1>2 DEF Inv, Written, Families, ApprovedAsRead, TrailComplete, InBank
<1>7. Meetings' /\ Unmet'
  BY <1>2, <1>3 DEF Inv, Meetings, Unmet, Writing
<1>8. Established'
  BY <1>2, <1>3, BankAssumption DEF Inv, Established, Settled
<1>9. ApprovalStands
  BY <1>2 DEF ApprovalStands
<1> QED
  BY <1>4, <1>5, <1>6, <1>7, <1>8, <1>9 DEF Inv

\* What a confirmation does to the bank are the bank's own operations.
LEMMA ClerkKeepsBank ==
    ASSUME Inv, Confirmations, NEW u \in Editors, ClerkRuns(u)
    PROVE  Inv' /\ ApprovalStands
<1>1. tasks \in 0..MaxTasks
  BY DEF Inv, BankTypeOK
<1>2. UNCHANGED bankVars => Inv' /\ ApprovalStands
  BY <1>1, IdleKeeps DEF bankVars, idleVars
<1>3. ASSUME NEW q \in Questions, CreateFromRow(u, q) PROVE Inv' /\ ApprovalStands
  BY <1>1, <1>3, CreateKeeps DEF CreateFromRow
<1>4. ASSUME OpenFromRow(u) PROVE Inv' /\ ApprovalStands
  <2>1. /\ OpenQuestion(u, clerk[u].aim[Row(u)], "edit") /\ UNCHANGED tasks
        /\ clerk[u].left # {} /\ clerk[u].aim[Row(u)] # NoQuestion
    BY <1>4 DEF OpenFromRow, At
  <2>2. clerk[u].aim[Row(u)] \in Questions
    BY <2>1, RowIsLeft DEF Confirmations
  <2>3. PICK q \in Questions : q = clerk[u].aim[Row(u)]
    BY <2>2
  <2>4. OpenQuestion(u, q, "edit") /\ "edit" \in Reads
    BY <2>1, <2>3 DEF Reads
  <2> QED
    BY <1>1, <2>1, <2>4, OpenKeeps
<1>5. ASSUME WriteFromRow(u) PROVE Inv' /\ ApprovalStands
  BY <1>5, EditKeeps, VersionKeeps DEF WriteFromRow
<1>6. ASSUME RefuseRow(u) PROVE Inv' /\ ApprovalStands
  BY <1>2, <1>6, GiveUpKeeps DEF RefuseRow
<1>7. Claim(u) \/ ReadRows(u) \/ MarkRow(u) \/ FailRow(u) \/ FinishImport(u) => UNCHANGED bankVars
  BY DEF Claim, ReadRows, MarkRow, FailRow, FinishImport
<1> QED
  BY <1>2, <1>3, <1>4, <1>5, <1>6, <1>7 DEF ClerkRuns

\* Every step of the staff and of the imports keeps the invariant of the bank.
LEMMA BankUnderImports ==
    ASSUME Inv, Confirmations, ImportNext
    PROVE  Inv' /\ ApprovalStands
<1>1. tasks \in 0..MaxTasks
  BY DEF Inv, BankTypeOK
<1>2. CASE Upload
  BY <1>1, <1>2, IdleKeeps DEF Upload, bankVars, idleVars
<1>3. CASE Asked
  <2>1. tasks' \in 0..MaxTasks
    BY <1>1, <1>3, BankAssumption DEF Asked
  <2> QED
    BY <1>3, <2>1, IdleKeeps DEF Asked, CorrectRow, CancelImport, Confirm
<1>4. CASE ImportDies
  BY <1>4, DeathKeeps
<1>5. ASSUME NEW u \in Editors, ClerkRuns(u) PROVE Inv' /\ ApprovalStands
  BY <1>5, ClerkKeepsBank
<1>6. CASE BankRuns
  <2>1. ASSUME Begins({u \in Editors : ~Importing(u)}) PROVE BankNext
    BY <2>1 DEF Begins, BankNext
  <2>2. BankNext
    BY <1>6, <2>1 DEF BankRuns, BankNext
  <2> QED
    BY <2>2, NextKeeps
<1> QED
  BY <1>2, <1>3, <1>4, <1>5, <1>6 DEF ImportNext

\* Whatever is imported, by however many confirmations: the versions of questions
\* and the questions on exams are as the bank alone keeps them.
THEOREM VersionsKeptByImports == ImportSpec => []VersionsKept
<1>1. ImportInit => Inv /\ ImportInv
  BY InitInv, ImportInitInv DEF ImportInit
<1>2. Inv /\ ImportInv /\ [ImportNext]_importerVars => (Inv /\ ImportInv)'
  <2>1. ASSUME Inv, UNCHANGED importerVars PROVE Inv'
    <3>1. UNCHANGED idleVars /\ tasks' \in 0..MaxTasks
      BY <2>1 DEF importerVars, bankVars, idleVars, Inv, BankTypeOK
    <3> QED
      BY <2>1, <3>1, IdleKeeps
  <2> QED
    BY <2>1, BankUnderImports, ImportNextKeeps DEF ImportInv
<1> QED
  BY <1>1, <1>2, VersionsOfInv, PTL DEF ImportSpec

\* An import edits with the rights of a super admin, yet no review is undone by it:
\* what was approved is approved or archived and has the text that was read.
THEOREM ReviewsHoldUnderImports == ImportSpec => QuestionsReviewed
<1>1. ImportInit => Inv /\ ImportInv
  BY InitInv, ImportInitInv DEF ImportInit
<1>2. Inv /\ ImportInv /\ ImportNext =>
          Inv' /\ ApprovedAsRead' /\ TrailComplete' /\ ApprovalStands
  BY BankUnderImports DEF ImportInv, Inv
<1>3. Inv /\ UNCHANGED importerVars => Inv' /\ UNCHANGED bankVars
  <2>1. ASSUME Inv, UNCHANGED importerVars PROVE Inv'
    <3>1. UNCHANGED idleVars /\ tasks' \in 0..MaxTasks
      BY <2>1 DEF importerVars, bankVars, idleVars, Inv, BankTypeOK
    <3> QED
      BY <2>1, <3>1, IdleKeeps
  <2> QED
    BY <2>1 DEF importerVars
<1>4. Inv /\ ImportInv /\ [ImportNext]_importerVars =>
          (Inv /\ ImportInv)' /\ [ApprovedAsRead' /\ TrailComplete' /\ ApprovalStands]_bankVars
  BY <1>2, <1>3, ImportNextKeeps
<1> QED
  BY <1>1, <1>4, PTL DEF ImportSpec, QuestionsReviewed
-----------------------------------------------------------------------------
(* The types of an import, and imports beside the bank alone *)

\* The status of the file and the count of the errors have values of their types.
StatusTyped == import \in ImportStatuses /\ slips \in 0..MaxSlips

\* All that is kept by the bank and by the imports
ImporterInv == Inv /\ ImportInv /\ StatusTyped

LEMMA StatusKept ==
    ASSUME StatusTyped, ImportNext
    PROVE  StatusTyped'
<1> USE DEF StatusTyped, ImportStatuses, importVars
<1>1. slips < MaxSlips => slips + 1 \in 0..MaxSlips
  BY ImportAssumption
<1>2. CASE Upload \/ BankRuns
  BY <1>2 DEF Upload, BankRuns
<1>3. CASE Asked
  BY <1>3 DEF Asked, CorrectRow, CancelImport, Confirm
<1>4. CASE ImportDies
  BY <1>1, <1>4 DEF ImportDies
<1>5. ASSUME NEW u \in Editors, ClerkRuns(u) PROVE StatusTyped'
  <2>1. CASE Claim(u) \/ FinishImport(u)
    BY <2>1 DEF Claim, FinishImport
  <2>2. CASE MarkRow(u)
    BY <1>1, <2>2 DEF MarkRow
  <2>3. CASE UNCHANGED <<import, slips>>
    BY <2>3
  <2> QED
    BY <1>5, <2>1, <2>2, <2>3
    DEF ClerkRuns, ReadRows, CreateFromRow, OpenFromRow, WriteFromRow, RefuseRow, FailRow
<1> QED
  BY <1>2, <1>3, <1>4, <1>5 DEF ImportNext

\* The steps of the imports keep it, and so do those of the staff alone.
LEMMA ImporterKeeps ==
    ASSUME ImporterInv,
           ImportNext \/ (BankNext /\ UNCHANGED importVars) \/ UNCHANGED importerVars
    PROVE  ImporterInv'
<1>1. CASE ImportNext
  BY <1>1, BankUnderImports, ImportNextKeeps, StatusKept DEF ImporterInv, ImportInv
<1>2. ASSUME UNCHANGED importVars PROVE ImportInv' /\ StatusTyped'
  <2>1. Beside /\ UNCHANGED <<counts, import, slips>> /\ UNCHANGED <<kind, target>>
    BY <1>2 DEF importVars, rowsVars, Beside
  <2>2. kind' \in [FileRows -> RowKinds] /\ target' \in [FileRows -> Questions \cup {NoQuestion}]
    BY <2>1 DEF ImporterInv, ImportInv, Confirmations
  <2> QED
    BY <2>1, <2>2, BesideKeeps DEF ImporterInv, StatusTyped
<1>3. CASE BankNext /\ UNCHANGED importVars
  BY <1>2, <1>3, NextKeeps DEF ImporterInv
<1>4. CASE UNCHANGED importerVars
  <2>1. UNCHANGED idleVars /\ tasks' \in 0..MaxTasks
    BY <1>4 DEF importerVars, bankVars, idleVars, ImporterInv, Inv, BankTypeOK
  <2> QED
    BY <1>2, <1>4, <2>1, IdleKeeps DEF ImporterInv, importerVars
<1> QED
  BY <1>1, <1>3, <1>4

LEMMA ImporterInit == ImportInit => ImporterInv
<1>1. ASSUME ImportInit PROVE StatusTyped
  BY <1>1, ImportAssumption DEF ImportInit, StatusTyped, ImportStatuses
<1>2. ASSUME ImportInit PROVE Inv /\ ImportInv
  BY <1>2, InitInv, ImportInitInv DEF ImportInit
<1> QED
  BY <1>1, <1>2 DEF ImporterInv

LEMMA ImporterTypes == ImporterInv => ImportTypeOK
BY DEF ImporterInv, Inv, ImportInv, Confirmations, StatusTyped, ImportTypeOK

\* No review is undone by them either.
LEMMA ImporterReviews ==
    ASSUME ImporterInv,
           ImportNext \/ (BankNext /\ UNCHANGED importVars) \/ UNCHANGED importerVars
    PROVE  [ApprovedAsRead' /\ TrailComplete' /\ ApprovalStands]_bankVars
<1>1. CASE ImportNext
  BY <1>1, BankUnderImports DEF ImporterInv, ImportInv, Inv
<1>2. CASE BankNext
  BY <1>2, NextKeeps DEF ImporterInv, Inv
<1>3. CASE UNCHANGED importerVars
  BY <1>3 DEF importerVars
<1> QED
  BY <1>1, <1>2, <1>3

\* The questions, the file, its rows and the confirmations have values of their types.
THEOREM ImportTypeCorrect == ImportSpec => []ImportTypeOK
<1>1. ImporterInv /\ [ImportNext]_importerVars => ImporterInv'
  BY ImporterKeeps
<1> QED
  BY <1>1, ImporterInit, ImporterTypes, PTL DEF ImportSpec
=============================================================================
