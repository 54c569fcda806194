------------------------------- MODULE MCExam -------------------------------
(***************************************************************************)
(* What the staff does: ExamLifecycle, BatchUpload and Reminders, which    *)
(* share no state.  A behaviour is one of one of them, so that their       *)
(* states are added and not multiplied.                                    *)
(***************************************************************************)
EXTENDS ExamLifecycle, BatchUpload, Reminders, TLC

\* The actors of all parts are {a, b}
CONSTANTS a, b, m1, m2

VARIABLE part

\* An administrator's upload, which nobody submits or reviews, has one request less
RequestBound == flow = "admin" => begun' < MaxBegun

\* The rows with an error come last in the sheet, and the third row is one
SheetBound == \A q, r \in Lines : r > 2 \/ (q < r /\ phoneOf[q] = NoPhone) => phoneOf[r] = NoPhone

\* The marks of an error, a death and a stall are one at a time
FaultBound ==
    Cardinality(stalled') + Cardinality({s \in Slots : cause'[s] \in {"died", "failed", "stalled"}}) <= 1

StaffInit ==
    /\ part \in {"exam", "upload", "reminders"}
    /\ Init /\ (part # "exam" => CreatedMock)
    /\ IF part = "upload" THEN UploadInit
       ELSE /\ phoneOf = [r \in Lines |-> NoPhone]
            /\ flow = "admin" /\ account = [m \in Phones |-> 0]
            /\ UploadInit
    /\ SheetBound
    /\ ReminderInit

StaffNext ==
    \/ part = "exam" /\ Next /\ FaultBound /\ UNCHANGED <<part, uploadVars, reminderVars>>
    \/ part = "upload" /\ UploadNext /\ RequestBound /\ UNCHANGED <<part, vars, reminderVars>>
    \/ part = "reminders" /\ ReminderNext /\ UNCHANGED <<part, vars, uploadVars>>

StaffSpec == StaffInit /\ [][StaffNext]_<<part, vars, uploadVars, reminderVars>>

\* Within the part a behaviour is about, these are interchangeable
StaffSymmetry == Permutations({a, b}) \cup Permutations({m1, m2})

\* The rows and the local variables of all parts have values of their types
StaffTypeOK == TypeOK /\ UploadTypeOK /\ ReminderTypeOK
=============================================================================
