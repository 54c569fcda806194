---------------------------- MODULE BatchUpload ----------------------------
(***************************************************************************)
(* One uploaded sheet of students, from its staged rows to their accounts. *)
(* An administrator's upload is edited and confirmed; an institution's is  *)
(* submitted, reviewed, and activated when it is approved, and the approval*)
(* workflow can settle its requests too.  Nobody confirms the upload of an *)
(* institution or submits one of an administrator.                         *)
(*                                                                         *)
(* An administrator's upload makes accounts under +91 and the ten digits,  *)
(* as the other registrations do, an institution's under the ten digits    *)
(* alone, where the others do not look: account is about the form that the *)
(* upload uses.  A number that an administrator's upload finds under its   *)
(* ten digits is refused by every check, like one that cannot be used.     *)
(*                                                                         *)
(* Every check of the status is a read of its own, and every update is by  *)
(* id.  Of a row only the mobile number counts, and whether one can be     *)
(* used at all; a name, a class or a target that is missing makes the row  *)
(* invalid like a bad number.                                              *)
(***************************************************************************)
EXTENDS Naturals, FiniteSets

CONSTANTS
    Officers,   \* administrators, reviewers and institution staff
    Lines,      \* row numbers of the sheet
    Phones,     \* mobile numbers that pass the checks
    NoPhone,    \* the mobile number of a row with an error in it
    Outside,    \* stands for a student that comes from elsewhere
    MaxForms,   \* bound on the ApprovalRequest rows of the upload
    MaxBegun    \* bound on the requests that begin, and on those that die half-way

ASSUME UploadAssumption ==
    /\ NoPhone \notin Phones
    /\ IsFiniteSet(Lines) /\ Lines \subseteq Nat \ {0} /\ Outside \notin Nat
    /\ MaxForms \in Nat /\ MaxBegun \in Nat

VARIABLES
    flow,       \* whose upload it is
    stage,      \* BulkUpload.status
    validRows,  \* BulkUpload.validRowCount
    phoneOf,    \* BulkUploadRow.normalizedData.mobile
    checked,    \* validationStatus, and whether matchedStudentId is set
    activation, \* activationStatus
    account,    \* the row the student with the number was created from, or Outside, or 0
    member,     \* numbers of the active members of the institution's batch
    form,       \* ApprovalRequest.status, "NONE" for a row not inserted yet
    at,         \* the next step of each officer's request
    choice,     \* local variables of the requests: the decision,
    picked,     \* the row or the approval request it is about,
    typed,      \* the number typed in,
    counted,    \* the number of valid rows,
    todo,       \* the rows left to activate,
    copyPhone, copyCheck, \* what was read of them,
    good, bad,  \* and the counts of the activation
    begun,      \* requests begun, and those that died
    raced,      \* history: what requests ran beside each other, of those in Races
    halted      \* history: the kinds of requests that died half-way, of those in Halts

rowVars == <<phoneOf, checked, activation>>
studentVars == <<account, member>>
editVars == <<picked, typed, counted>>
activateVars == <<todo, copyPhone, copyCheck, good, bad>>
uploadVars == <<flow, stage, validRows, rowVars, studentVars, form, at, choice, editVars,
                activateVars, begun, raced, halted>>

Stages == {"READY_FOR_REVIEW", "SUBMITTED", "APPROVED", "REJECTED", "ACTIVATING",
           "ACTIVATED", "PARTIALLY_ACTIVATED", "FAILED"}
FormStatuses == {"NONE", "PENDING", "APPROVED", "REJECTED", "CANCELLED"}
Forms == 1 .. MaxForms
Usable == {"valid", "matched"}

\* The steps a request of each kind has left once it has begun
StepsLeft == [edit     |-> {"row", "count", "batch"},
              submit   |-> {"recheck", "ready", "send"},
              review   |-> {"find", "decide"},
              settle   |-> {"settle"},
              activate |-> {"open", "claim", "list", "rows", "mark", "fail"}]
IsKind(step, k) == step \in StepsLeft[k]
Underway(k) == {x \in Officers : at[x] \in StepsLeft[k]}

\* The check of a row of the sheet d, when the numbers in taken are found to have
\* a student and those in joined are in the batch; an administrator's upload
\* refuses a number that has a student, whatever batch that is in
CheckOf(d, r, taken, joined) ==
    IF d[r] = NoPhone \/ \E q \in Lines : q < r /\ d[q] = d[r] THEN "invalid"
    ELSE IF d[r] \notin taken THEN "valid"
    ELSE IF flow = "institution" /\ d[r] \notin joined THEN "matched" ELSE "invalid"

Taken == {m \in Phones : account[m] # 0}

\* What the first check of an upload finds: that of an administrator's compares
\* ten digits with numbers that have lost their + but not their 91, and finds none
FoundAtUpload == IF flow = "admin" THEN {} ELSE Taken

ValidCount(c) == Cardinality({r \in Lines : c[r] \in Usable})

\* An upload that has been parsed and validated
UploadInit ==
    /\ flow \in {"admin", "institution"}
    /\ phoneOf \in [Lines -> Phones \cup {NoPhone}]
    /\ account \in [Phones -> {0, Outside}]
    /\ member \in SUBSET (IF flow = "admin" THEN {} ELSE Taken)
    /\ checked = [r \in Lines |-> CheckOf(phoneOf, r, FoundAtUpload, member)]
    /\ activation = [r \in Lines |-> "PENDING"]
    /\ validRows = ValidCount(checked)
    /\ stage = IF flow = "admin" /\ validRows = 0 THEN "FAILED" ELSE "READY_FOR_REVIEW"
    /\ form = [q \in Forms |-> "NONE"]
    /\ at = [x \in Officers |-> "none"]
    /\ choice = [x \in Officers |-> "none"]
    /\ picked = [x \in Officers |-> 0]
    /\ typed = [x \in Officers |-> NoPhone]
    /\ counted = [x \in Officers |-> 0]
    /\ todo = [x \in Officers |-> {}]
    /\ copyPhone = [x \in Officers |-> [r \in Lines |-> NoPhone]]
    /\ copyCheck = [x \in Officers |-> [r \in Lines |-> "invalid"]]
    /\ good = [x \in Officers |-> 0] /\ bad = [x \in Officers |-> 0]
    /\ begun = 0 /\ raced = {} /\ halted = {}

\* Two activations, an activation and anything, a review and another decision;
\* and the requests whose death half-way is remembered
Races == {"activations", "activation", "decisions"}
Halts == {"edit", "activate"}
Race(race, one, other) ==
    CASE race = "activations" -> IsKind(one, "activate") /\ IsKind(other, "activate")
      [] race = "activation" -> IsKind(one, "activate") \/ IsKind(other, "activate")
      [] race = "decisions" -> /\ IsKind(one, "review") \/ IsKind(other, "review")
                               /\ \A step \in {one, other} : IsKind(step, "review") \/ IsKind(step, "settle")

\* The request of x goes on to a step, beside those that are under way
Turn(x, step) ==
    /\ at' = [at EXCEPT ![x] = step]
    /\ raced' = raced \cup {race \in Races : \E y \in Officers \ {x} :
                                /\ step # "none" /\ at[y] # "none"
                                /\ Race(race, step, at[y])}

Arrive(x, step) ==
    /\ at[x] = "none" /\ begun < MaxBegun
    /\ begun' = begun + 1
    /\ Turn(x, step)
    /\ UNCHANGED halted

Proceed(x, from, step) ==
    /\ at[x] = from
    /\ Turn(x, step)
    /\ UNCHANGED <<begun, halted>>

-----------------------------------------------------------------------------
(* Editing: updateStagedRow *)

EditRead(x, r, m) ==
    /\ flow = "admin"
    /\ stage \notin {"ACTIVATING", "ACTIVATED"}
    /\ Arrive(x, "row")
    /\ picked' = [picked EXCEPT ![x] = r]
    /\ typed' = [typed EXCEPT ![x] = m]
    /\ UNCHANGED <<flow, stage, validRows, rowVars, studentVars, form, choice, counted, activateVars>>

\* The search for the number and the update of the row; other rows of the sheet
\* are not looked at
EditRow(x) ==
    /\ Proceed(x, "row", "count")
    /\ phoneOf' = [phoneOf EXCEPT ![picked[x]] = typed[x]]
    /\ checked' = [checked EXCEPT ![picked[x]] =
                        IF typed[x] = NoPhone \/ typed[x] \in Taken THEN "invalid" ELSE "valid"]
    /\ picked' = [picked EXCEPT ![x] = 0]
    /\ typed' = [typed EXCEPT ![x] = NoPhone]
    /\ UNCHANGED <<flow, stage, validRows, activation, studentVars, form, choice, counted, activateVars>>

EditCount(x) ==
    /\ Proceed(x, "count", "batch")
    /\ counted' = [counted EXCEPT ![x] = ValidCount(checked)]
    /\ UNCHANGED <<flow, stage, validRows, rowVars, studentVars, form, choice, picked, typed, activateVars>>

EditBatch(x) ==
    /\ Proceed(x, "batch", "none")
    /\ validRows' = counted[x]
    /\ stage' = IF counted[x] > 0 THEN "READY_FOR_REVIEW" ELSE "FAILED"
    /\ counted' = [counted EXCEPT ![x] = 0]
    /\ UNCHANGED <<flow, rowVars, studentVars, form, choice, picked, typed, activateVars>>

-----------------------------------------------------------------------------
(* The institution: submitForApproval, reviewUpload, and the approval workflow *)

SubmitUpload(x) ==
    /\ flow = "institution"
    /\ stage \in {"READY_FOR_REVIEW", "REJECTED"} /\ validRows > 0
    /\ Arrive(x, "recheck")
    /\ UNCHANGED <<flow, stage, validRows, rowVars, studentVars, form, choice, editVars, activateVars>>

\* validateUpload(): the rows, then the upload
SubmitRecheck(x) ==
    /\ Proceed(x, "recheck", "ready")
    /\ checked' = [r \in Lines |-> CheckOf(phoneOf, r, Taken, member)]
    /\ counted' = [counted EXCEPT ![x] = ValidCount(checked')]
    /\ UNCHANGED <<flow, stage, validRows, phoneOf, activation, studentVars, form, choice, picked, typed, activateVars>>

SubmitReady(x) ==
    /\ Proceed(x, "ready", "send")
    /\ validRows' = counted[x] /\ stage' = "READY_FOR_REVIEW"
    /\ counted' = [counted EXCEPT ![x] = 0]
    /\ UNCHANGED <<flow, rowVars, studentVars, form, choice, picked, typed, activateVars>>

\* The upload is SUBMITTED and a request for its approval inserted, whatever
\* requests there are; without a valid row nothing happens
SubmitSend(x) ==
    /\ Proceed(x, "send", "none")
    /\ IF validRows = 0 THEN UNCHANGED <<stage, form>>
       ELSE /\ stage' = "SUBMITTED"
            /\ \E q \in Forms :
                /\ form[q] = "NONE" /\ \A p \in Forms : p < q => form[p] # "NONE"
                /\ form' = [form EXCEPT ![q] = "PENDING"]
    /\ UNCHANGED <<flow, validRows, rowVars, studentVars, choice, editVars, activateVars>>

\* Mutant: an upload need not be SUBMITTED to be reviewed.
ReviewUpload_Unchecked(x, decision) ==
    /\ Arrive(x, "find")
    /\ choice' = [choice EXCEPT ![x] = decision]
    /\ UNCHANGED <<flow, stage, validRows, rowVars, studentVars, form, editVars, activateVars>>

ReviewUpload(x, decision) ==
    /\ stage = "SUBMITTED"
    /\ Arrive(x, "find")
    /\ choice' = [choice EXCEPT ![x] = decision]
    /\ UNCHANGED <<flow, stage, validRows, rowVars, studentVars, form, editVars, activateVars>>

\* Some request that is PENDING, or none
ReviewFind(x) ==
    /\ Proceed(x, "find", "decide")
    /\ \E q \in Forms \cup {0} :
        /\ IF q = 0 THEN \A p \in Forms : form[p] # "PENDING" ELSE form[q] = "PENDING"
        /\ picked' = [picked EXCEPT ![x] = q]
    /\ UNCHANGED <<flow, stage, validRows, rowVars, studentVars, form, choice, typed, counted, activateVars>>

ReviewDecide(x) ==
    /\ Proceed(x, "decide", IF choice[x] = "APPROVED" THEN "open" ELSE "none")
    /\ stage' = choice[x]
    /\ form' = [q \in Forms |-> IF q = picked[x] THEN choice[x] ELSE form[q]]
    /\ choice' = [choice EXCEPT ![x] = "none"]
    /\ picked' = [picked EXCEPT ![x] = 0]
    /\ UNCHANGED <<flow, validRows, rowVars, studentVars, typed, counted, activateVars>>

\* reject() and cancel() of the approval workflow, with the handler of uploads
SettleRead(x, q, decision) ==
    /\ form[q] = "PENDING"
    /\ Arrive(x, "settle")
    /\ picked' = [picked EXCEPT ![x] = q]
    /\ choice' = [choice EXCEPT ![x] = decision]
    /\ UNCHANGED <<flow, stage, validRows, rowVars, studentVars, form, typed, counted, activateVars>>

SettleTx(x) ==
    /\ Proceed(x, "settle", "none")
    /\ form' = [form EXCEPT ![picked[x]] = choice[x]]
    /\ stage' = IF choice[x] = "REJECTED" THEN "REJECTED" ELSE "READY_FOR_REVIEW"
    /\ choice' = [choice EXCEPT ![x] = "none"]
    /\ picked' = [picked EXCEPT ![x] = 0]
    /\ UNCHANGED <<flow, validRows, rowVars, studentVars, typed, counted, activateVars>>

\* approve() of the workflow sets the upload to APPROVED in its transaction, and
\* the activation it calls reads the upload outside of it: it finds another
\* status, throws, and everything is rolled back.  Only an upload that is
\* APPROVED already is activated, after the transaction that blocks the
\* activation has timed out; the request stays PENDING.
ApproveAgain(x) ==
    /\ stage = "APPROVED"
    /\ \E q \in Forms : form[q] = "PENDING"
    /\ Arrive(x, "claim")
    /\ UNCHANGED <<flow, stage, validRows, rowVars, studentVars, form, choice, editVars, activateVars>>

-----------------------------------------------------------------------------
(* Activation: confirmAndRegisterStudents and executeBulkRegistration of an  *)
(* administrator's upload, activateUpload of an institution's                *)

\* The confirmation of an operator writes a status that is no member of the enum,
\* which the database client refuses
Confirm(x) ==
    /\ flow = "admin"
    /\ stage = "READY_FOR_REVIEW" /\ validRows > 0
    /\ Arrive(x, "claim")
    /\ UNCHANGED <<flow, stage, validRows, rowVars, studentVars, form, choice, editVars, activateVars>>

ActivateOpen(x) ==
    /\ Proceed(x, "open", IF stage = "APPROVED" THEN "claim" ELSE "none")
    /\ UNCHANGED <<flow, stage, validRows, rowVars, studentVars, form, choice, editVars, activateVars>>

ActivateClaim(x) ==
    /\ Proceed(x, "claim", "list")
    /\ stage' = "ACTIVATING"
    /\ UNCHANGED <<flow, validRows, rowVars, studentVars, form, choice, editVars, activateVars>>

ActivateList(x) ==
    /\ Proceed(x, "list", "rows")
    /\ todo' = [todo EXCEPT ![x] = {r \in Lines : checked[r] \in Usable /\ activation[r] = "PENDING"}]
    /\ copyPhone' = [copyPhone EXCEPT ![x] = phoneOf]
    /\ copyCheck' = [copyCheck EXCEPT ![x] = checked]
    /\ UNCHANGED <<flow, stage, validRows, rowVars, studentVars, form, choice, editVars, good, bad>>

NextLine(x, r) == r \in todo[x] /\ \A q \in todo[x] : r <= q

\* The transaction of a row.  The student of an administrator's row is created
\* and the row marked together.
RegisterRow(x) ==
    /\ Proceed(x, "rows", "rows")
    /\ flow = "admin"
    /\ \E r \in Lines :
        /\ NextLine(x, r)
        /\ account[copyPhone[x][r]] = 0
        /\ account' = [account EXCEPT ![copyPhone[x][r]] = r]
        /\ activation' = [activation EXCEPT ![r] = "ACTIVATED"]
        /\ todo' = [todo EXCEPT ![x] = @ \ {r}]
    /\ good' = [good EXCEPT ![x] = @ + 1]
    /\ UNCHANGED <<flow, stage, validRows, phoneOf, checked, member, form, choice, editVars,
                   copyPhone, copyCheck, bad>>

\* That of an institution's row creates the student, or finds it, and makes it
\* a member; the row is marked by a statement of its own.
EnrolRow(x) ==
    /\ Proceed(x, "rows", "mark")
    /\ flow = "institution"
    /\ \E r \in Lines :
        /\ NextLine(x, r)
        /\ \/ /\ copyCheck[x][r] = "matched"
              /\ UNCHANGED <<account, checked>>
           \/ /\ copyCheck[x][r] = "valid" /\ account[copyPhone[x][r]] = 0
              /\ account' = [account EXCEPT ![copyPhone[x][r]] = r]
              /\ checked' = [checked EXCEPT ![r] = IF @ = "valid" THEN "matched" ELSE @]
        /\ member' = member \cup {copyPhone[x][r]}
        /\ picked' = [picked EXCEPT ![x] = r]
        /\ todo' = [todo EXCEPT ![x] = @ \ {r}]
    /\ good' = [good EXCEPT ![x] = @ + 1]
    /\ UNCHANGED <<flow, stage, validRows, phoneOf, activation, form, choice, typed, counted,
                   copyPhone, copyCheck, bad>>

MarkRow(x) ==
    /\ Proceed(x, "mark", "rows")
    /\ activation' = [activation EXCEPT ![picked[x]] = "ACTIVATED"]
    /\ picked' = [picked EXCEPT ![x] = 0]
    /\ UNCHANGED <<flow, stage, validRows, phoneOf, checked, studentVars, form, choice, typed, counted,
                   activateVars>>

\* The transaction of a row fails: its number was registered meanwhile, or
\* another registration took its student number, or a reference is missing
RowThrows(x) ==
    /\ Proceed(x, "rows", "fail")
    /\ \E r \in Lines :
        /\ NextLine(x, r)
        /\ picked' = [picked EXCEPT ![x] = r]
        /\ todo' = [todo EXCEPT ![x] = @ \ {r}]
    /\ bad' = [bad EXCEPT ![x] = @ + 1]
    /\ UNCHANGED <<flow, stage, validRows, rowVars, studentVars, form, choice, typed, counted,
                   copyPhone, copyCheck, good>>

FailRow(x) ==
    /\ Proceed(x, "fail", "rows")
    /\ activation' = [activation EXCEPT ![picked[x]] = "FAILED"]
    /\ picked' = [picked EXCEPT ![x] = 0]
    /\ UNCHANGED <<flow, stage, validRows, phoneOf, checked, studentVars, form, choice, typed, counted,
                   activateVars>>

ActivateEnds(x) ==
    /\ Proceed(x, "rows", "none")
    /\ todo[x] = {}
    /\ stage' = IF bad[x] = 0 THEN "ACTIVATED"
                ELSE IF good[x] = 0 THEN "FAILED" ELSE "PARTIALLY_ACTIVATED"
    /\ copyPhone' = [copyPhone EXCEPT ![x] = [r \in Lines |-> NoPhone]]
    /\ copyCheck' = [copyCheck EXCEPT ![x] = [r \in Lines |-> "invalid"]]
    /\ good' = [good EXCEPT ![x] = 0] /\ bad' = [bad EXCEPT ![x] = 0]
    /\ UNCHANGED <<flow, validRows, rowVars, studentVars, form, choice, editVars, todo>>

-----------------------------------------------------------------------------
\* The student registers by any other way
RegisterElsewhere(m) ==
    /\ account[m] = 0
    /\ account' = [account EXCEPT ![m] = Outside]
    /\ UNCHANGED <<flow, stage, validRows, rowVars, member, form, at, choice, editVars, activateVars,
                   begun, raced, halted>>

\* The server dies while the request runs
Stop(x) ==
    /\ at[x] # "none" /\ begun < MaxBegun
    /\ begun' = begun + 1 /\ halted' = halted \cup {k \in Halts : IsKind(at[x], k)}
    /\ at' = [at EXCEPT ![x] = "none"]
    /\ choice' = [choice EXCEPT ![x] = "none"]
    /\ picked' = [picked EXCEPT ![x] = 0]
    /\ typed' = [typed EXCEPT ![x] = NoPhone]
    /\ counted' = [counted EXCEPT ![x] = 0]
    /\ todo' = [todo EXCEPT ![x] = {}]
    /\ copyPhone' = [copyPhone EXCEPT ![x] = [r \in Lines |-> NoPhone]]
    /\ copyCheck' = [copyCheck EXCEPT ![x] = [r \in Lines |-> "invalid"]]
    /\ good' = [good EXCEPT ![x] = 0] /\ bad' = [bad EXCEPT ![x] = 0]
    /\ UNCHANGED <<flow, stage, validRows, rowVars, studentVars, form, raced>>

EditNext(x) ==
    \/ \E r \in Lines, m \in Phones \cup {NoPhone} : EditRead(x, r, m)
    \/ EditRow(x) \/ EditCount(x) \/ EditBatch(x)

ApprovalNext(x) ==
    \/ SubmitUpload(x) \/ SubmitRecheck(x) \/ SubmitReady(x) \/ SubmitSend(x)
    \/ \E decision \in {"APPROVED", "REJECTED"} : ReviewUpload(x, decision)
    \/ ReviewFind(x) \/ ReviewDecide(x)
    \/ \E q \in Forms, decision \in {"REJECTED", "CANCELLED"} : SettleRead(x, q, decision)
    \/ SettleTx(x) \/ ApproveAgain(x)

ActivateNext(x) ==
    \/ Confirm(x) \/ ActivateOpen(x) \/ ActivateClaim(x) \/ ActivateList(x)
    \/ RegisterRow(x) \/ EnrolRow(x) \/ MarkRow(x) \/ RowThrows(x) \/ FailRow(x)
    \/ ActivateEnds(x)

UploadNext ==
    \/ \E x \in Officers : EditNext(x) \/ ApprovalNext(x) \/ ActivateNext(x) \/ Stop(x)
    \/ \E m \in Phones : RegisterElsewhere(m)

UploadSpec == UploadInit /\ [][UploadNext]_uploadVars

-----------------------------------------------------------------------------
\* The rows of the database and the local variables have values of their types.
UploadTypeOK ==
    /\ flow \in {"admin", "institution"} /\ stage \in Stages
    /\ validRows \in 0 .. Cardinality(Lines)
    /\ phoneOf \in [Lines -> Phones \cup {NoPhone}]
    /\ checked \in [Lines -> Usable \cup {"invalid"}]
    /\ activation \in [Lines -> {"PENDING", "ACTIVATED", "FAILED"}]
    /\ account \in [Phones -> {0, Outside} \cup Lines]
    /\ member \subseteq Phones
    /\ form \in [Forms -> FormStatuses]
    /\ at \in [Officers -> {"none"} \cup UNION {StepsLeft[k] : k \in DOMAIN StepsLeft}]
    /\ choice \in [Officers -> {"none", "APPROVED", "REJECTED", "CANCELLED"}]
    /\ picked \in [Officers -> Lines \cup Forms \cup {0}]
    /\ typed \in [Officers -> Phones \cup {NoPhone}]
    /\ counted \in [Officers -> 0 .. Cardinality(Lines)]
    /\ todo \in [Officers -> SUBSET Lines]
    /\ copyPhone \in [Officers -> [Lines -> Phones \cup {NoPhone}]]
    /\ copyCheck \in [Officers -> [Lines -> Usable \cup {"invalid"}]]
    /\ good \in [Officers -> 0 .. Cardinality(Lines)]
    /\ bad \in [Officers -> 0 .. Cardinality(Lines)]
    /\ begun \in 0 .. MaxBegun
    /\ raced \subseteq Races /\ halted \subseteq Halts

\* Unless two activations overlapped or one died, a row whose student the upload
\* created is marked ACTIVATED once the activation is over: no count and no error
\* report takes it for a failure.
StudentsAccounted ==
    (Underway("activate") = {} /\ "activations" \notin raced /\ "activate" \notin halted)
        => \A m \in Phones, r \in Lines : account[m] = r => activation[r] = "ACTIVATED"

\* An activation that nothing overlapped with leaves no valid row behind: it is
\* activated, or it failed.  A row may become valid later, by an edit of an upload
\* that was activated in part: the edit makes the upload READY_FOR_REVIEW again,
\* unless it dies between the row and the upload.
NoRowLeft ==
    (/\ \/ stage = "ACTIVATED"
        \/ stage = "PARTIALLY_ACTIVATED" /\ Underway("edit") = {} /\ "edit" \notin halted
     /\ Underway("activate") = {} /\ "activation" \notin raced)
        => \A r \in Lines : checked[r] \in Usable => activation[r] # "PENDING"

\* Every row of an activated upload comes out as what became of it.
RowsAccounted == StudentsAccounted /\ NoRowLeft

\* No student comes from the upload of an institution before one of its requests
\* is approved, unless two reviewers, or a reviewer and the workflow, decide at
\* the same time.
ApprovedFirst ==
    (flow = "institution" /\ "decisions" \notin raced)
        => \A m \in Phones : account[m] \in Lines => \E q \in Forms : form[q] = "APPROVED"

\* An upload that is activated stays so, unless a request ran beside the
\* activation, or two submissions left a second request for approval.
ActivatedStands ==
    stage = "ACTIVATED" /\ stage' # "ACTIVATED"
        => "activation" \in raced \/ \E q \in Forms : form[q] = "PENDING"

\* What was decided on an upload stands, and what its rows say came of it is true.
UploadsStand == [][ActivatedStands /\ ApprovedFirst' /\ RowsAccounted']_uploadVars
=============================================================================
