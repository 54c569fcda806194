----------------------------- MODULE Reminders -----------------------------
(***************************************************************************)
(* The WhatsApp reminders of one exam for one student, one of the two      *)
(* kinds: students and kinds do not interact.  A reminder is a row and a   *)
(* delayed job whose id is made of that of the row; the key of the row     *)
(* names the slot and a version, which is 1 for the first window of a slot *)
(* (here 0) and the second of the clock for a later one.                   *)
(*                                                                         *)
(* A rescheduling answers the administrator after its transaction; the     *)
(* replacement of the reminders goes on by itself, as a task.  When a job  *)
(* is due is left open, so that a worker may take a waiting job at any     *)
(* time.  Windows are far enough ahead for a reminder to be made, and a    *)
(* job has more attempts than there are faults here.                       *)
(***************************************************************************)
EXTENDS Integers, FiniteSets

CONSTANTS
    Sittings,      \* the slots of the exam
    Tasks,         \* replacements of reminders that can be under way
    MaxSeconds, MaxMoves, MaxFaults,
    NoNote, NoSlot

Notes == Sittings \X (0 .. MaxSeconds)

ASSUME ReminderAssumption ==
    /\ MaxSeconds \in Nat \ {0} /\ MaxMoves \in Nat /\ MaxFaults \in Nat
    /\ NoSlot \notin Sittings
    /\ NoNote \notin Notes

VARIABLES
    second,
    windowNo,      \* the number of the window a slot has
    reminder, timer,   \* the row and the job of each reminder
    tells,         \* the window its message tells
    messages,      \* that reached the student, counted up to 2
    doing, forSlot, announces, stamp, listed, toRemove,   \* of each task
    hand, sending,   \* of the worker
    moves, faults,
    excused,       \* old reminders a task met in a state it does not cancel
    spoiled,       \* slots whose task met another, was cut off or lost its reminder
    bereft,        \* slots whose reminder was cancelled for another slot
    unrecorded     \* reminders that were sent without it being on record

taskVars == <<doing, forSlot, announces, stamp, listed, toRemove, moves>>
senderVars == <<hand, sending, messages>>
pastVars == <<excused, spoiled, bereft, unrecorded>>
reminderVars == <<second, windowNo, reminder, timer, tells, taskVars, senderVars, faults,
                  pastVars>>

-----------------------------------------------------------------------------
ReminderInit ==
    /\ second = 1
    /\ windowNo = [s \in Sittings |-> 1]
    /\ reminder = [n \in Notes |-> IF n[2] = 0 THEN "QUEUED" ELSE "none"]
    /\ timer = [n \in Notes |-> IF n[2] = 0 THEN "waiting" ELSE "none"]
    /\ tells = [n \in Notes |-> IF n[2] = 0 THEN 1 ELSE 0]
    /\ messages = [n \in Notes |-> 0]
    /\ doing = [t \in Tasks |-> "idle"]
    /\ forSlot = [t \in Tasks |-> NoSlot]
    /\ announces = [t \in Tasks |-> 0]
    /\ stamp = [t \in Tasks |-> 0]
    /\ listed = [t \in Tasks |-> {}] /\ toRemove = [t \in Tasks |-> {}]
    /\ hand = NoNote /\ sending = "idle"
    /\ moves = 0 /\ faults = 0
    /\ excused = {} /\ spoiled = {} /\ bereft = {} /\ unrecorded = {}

Running == {t \in Tasks : doing[t] # "idle"}

\* The task goes on to d; what it had read is forgotten at its end.
Goes(t, d) ==
    /\ doing' = [doing EXCEPT ![t] = d]
    /\ forSlot' = IF d = "idle" THEN [forSlot EXCEPT ![t] = NoSlot] ELSE forSlot
    /\ announces' = IF d = "idle" THEN [announces EXCEPT ![t] = 0] ELSE announces
    /\ stamp' = IF d = "idle" THEN [stamp EXCEPT ![t] = 0] ELSE stamp

\* The swallowed failure of a call to the database or the queue.
Fault == faults < MaxFaults /\ faults' = faults + 1

-----------------------------------------------------------------------------
\* rescheduleExam(): the transaction, after which the task starts.
Move(t, s) ==
    /\ doing[t] = "idle"
    /\ moves < MaxMoves
    /\ moves' = moves + 1
    /\ windowNo' = [windowNo EXCEPT ![s] = @ + 1]
    /\ doing' = [doing EXCEPT ![t] = "version"]
    /\ forSlot' = [forSlot EXCEPT ![t] = s]
    /\ announces' = [announces EXCEPT ![t] = windowNo[s] + 1]
    /\ spoiled' = IF Running = {} THEN spoiled
                  ELSE spoiled \cup {s} \cup {forSlot[u] : u \in Running}
    /\ UNCHANGED <<second, reminder, timer, tells, stamp, listed, toRemove, senderVars, faults,
                   excused, bereft, unrecorded>>

\* Date.now() in seconds; how long the statements before it took is open.
TakeVersion(t) ==
    /\ doing[t] = "version"
    /\ second' \in second .. MaxSeconds
    /\ doing' = [doing EXCEPT ![t] = "list"]
    /\ stamp' = [stamp EXCEPT ![t] = second']
    /\ UNCHANGED <<windowNo, reminder, timer, tells, forSlot, announces, listed, toRemove, moves,
                   senderVars, faults, pastVars>>

\* Mutant: the versions before the old one are cancelled
ListPending_Older(t) ==
    /\ doing[t] = "list"
    /\ \/ /\ listed' = [listed EXCEPT ![t] =
                            {n \in Notes : reminder[n] = "QUEUED" /\ n[2] < stamp[t] - 1}]
          /\ excused' = excused \cup {n \in Notes : reminder[n] \notin {"none", "QUEUED"}}
          /\ UNCHANGED faults
       \/ /\ Fault
          /\ excused' = excused \cup {n \in Notes : reminder[n] # "none"}
          /\ UNCHANGED listed
    /\ toRemove' = [toRemove EXCEPT ![t] = listed'[t]]
    /\ bereft' = bereft \cup {s \in Sittings \ {forSlot[t]} :
                                \E n \in listed'[t] : n[1] = s /\ tells[n] = windowNo[s]}
    /\ Goes(t, "remove")
    /\ UNCHANGED <<second, windowNo, reminder, timer, tells, moves, senderVars, spoiled,
                   unrecorded>>

\* cancelExamWhatsAppReminders(): the reminders of all slots that are still
\* QUEUED, of the versions before its own; the slot it is called for is not
\* looked at.  When they cannot be read nothing is cancelled.
ListPending(t) ==
    /\ doing[t] = "list"
    /\ \/ /\ listed' = [listed EXCEPT ![t] =
                            {n \in Notes : reminder[n] = "QUEUED" /\ n[2] < stamp[t]}]
          /\ excused' = excused \cup {n \in Notes : reminder[n] \notin {"none", "QUEUED"}}
          /\ UNCHANGED faults
       \/ /\ Fault
          /\ excused' = excused \cup {n \in Notes : reminder[n] # "none"}
          /\ UNCHANGED listed
    /\ toRemove' = [toRemove EXCEPT ![t] = listed'[t]]
    /\ bereft' = bereft \cup {s \in Sittings \ {forSlot[t]} :
                                \E n \in listed'[t] : n[1] = s /\ tells[n] = windowNo[s]}
    /\ Goes(t, "remove")
    /\ UNCHANGED <<second, windowNo, reminder, timer, tells, moves, senderVars, spoiled,
                   unrecorded>>

\* removeWhatsAppReminderJob(): only a job that waits; an error is swallowed.
RemoveJob(t, n) ==
    /\ doing[t] = "remove"
    /\ n \in toRemove[t]
    /\ toRemove' = [toRemove EXCEPT ![t] = @ \ {n}]
    /\ \/ /\ timer[n] = "waiting"
          /\ timer' = [timer EXCEPT ![n] = "none"]
          /\ UNCHANGED <<faults, excused>>
       \/ /\ timer[n] # "waiting"
          /\ excused' = excused \cup {n}
          /\ UNCHANGED <<timer, faults>>
       \/ /\ timer[n] = "waiting"
          /\ Fault
          /\ excused' = excused \cup {n}
          /\ UNCHANGED timer
    /\ UNCHANGED <<second, windowNo, reminder, tells, doing, forSlot, announces, stamp, listed,
                   moves, senderVars, spoiled, bereft, unrecorded>>

\* The listed rows become CANCELLED, whatever they are by now, unless the
\* update fails, which only is logged.
CancelRows(t) ==
    /\ doing[t] = "remove" /\ toRemove[t] = {}
    /\ \/ /\ reminder' = [n \in Notes |-> IF n \in listed[t] THEN "CANCELLED" ELSE reminder[n]]
          /\ unrecorded' = unrecorded \cup {n \in listed[t] : reminder[n] = "SENT"}
          /\ UNCHANGED faults
       \/ /\ listed[t] # {}
          /\ Fault
          /\ UNCHANGED <<reminder, unrecorded>>
    /\ listed' = [listed EXCEPT ![t] = {}]
    /\ Goes(t, "upsert")
    /\ UNCHANGED <<second, windowNo, timer, tells, toRemove, moves, senderVars, excused, spoiled,
                   bereft>>

\* scheduleExamWhatsAppReminders(): the row, unless its key exists; a student
\* whose row cannot be written is passed over.
Upsert(t) ==
    LET n == <<forSlot[t], stamp[t]>> IN
    /\ doing[t] = "upsert"
    /\ \/ /\ reminder[n] = "none"
          /\ reminder' = [reminder EXCEPT ![n] = "QUEUED"]
          /\ Goes(t, "dispatch")
          /\ UNCHANGED <<faults, spoiled>>
       \/ /\ reminder[n] # "none"
          /\ spoiled' = spoiled \cup {forSlot[t]}
          /\ Goes(t, "dispatch")
          /\ UNCHANGED <<reminder, faults>>
       \/ /\ Fault
          /\ spoiled' = spoiled \cup {forSlot[t]}
          /\ Goes(t, "idle")
          /\ UNCHANGED reminder
    /\ UNCHANGED <<second, windowNo, timer, tells, listed, toRemove, moves, senderVars,
                   excused, bereft, unrecorded>>

\* The queue ignores a job whose id exists, finished or not.
Dispatch(t) ==
    LET n == <<forSlot[t], stamp[t]>> IN
    /\ doing[t] = "dispatch"
    /\ \/ /\ timer[n] = "none"
          /\ timer' = [timer EXCEPT ![n] = "waiting"]
          /\ tells' = [tells EXCEPT ![n] = announces[t]]
          /\ UNCHANGED <<faults, spoiled>>
       \/ /\ timer[n] # "none"
          /\ UNCHANGED <<timer, tells, faults, spoiled>>
       \/ /\ Fault
          /\ spoiled' = spoiled \cup {forSlot[t]}
          /\ UNCHANGED <<timer, tells>>
    /\ Goes(t, "idle")
    /\ UNCHANGED <<second, windowNo, reminder, listed, toRemove, moves, senderVars,
                   excused, bereft, unrecorded>>

-----------------------------------------------------------------------------
WorkerLeaves == <<second, windowNo, tells, taskVars, excused, spoiled, bereft>>

TakeJob(n) ==
    /\ hand = NoNote
    /\ timer[n] = "waiting"
    /\ timer' = [timer EXCEPT ![n] = "active"]
    /\ hand' = n /\ sending' = "load"
    /\ UNCHANGED <<reminder, messages, faults, unrecorded, WorkerLeaves>>

\* The job ends: it is kept with its id, or waits for its next attempt.
EndsJob(state) ==
    /\ timer' = [timer EXCEPT ![hand] = state]
    /\ hand' = NoNote /\ sending' = "idle"

\* process(): only a row that is SENT already is passed over; any other is
\* PROCESSING.  Only the worker makes a row SENT, so that this is one step.  A
\* failure of either has the job tried again.
LoadRow ==
    /\ sending = "load"
    /\ \/ /\ reminder[hand] = "SENT"
          /\ EndsJob("kept")
          /\ UNCHANGED <<reminder, faults>>
       \/ /\ reminder[hand] # "SENT"
          /\ reminder' = [reminder EXCEPT ![hand] = "PROCESSING"]
          /\ sending' = "send"
          /\ UNCHANGED <<hand, timer, faults>>
       \/ EndsJob("waiting") /\ Fault /\ UNCHANGED reminder
    /\ UNCHANGED <<messages, unrecorded, WorkerLeaves>>

\* The provider takes the message, or refuses it for now or for good.
SendMessage ==
    /\ sending = "send"
    /\ \/ /\ messages' = [messages EXCEPT ![hand] = IF @ < 2 THEN @ + 1 ELSE @]
          /\ sending' = "record"
          /\ UNCHANGED faults
       \/ /\ Fault
          /\ sending' \in {"retry", "fail"}
          /\ UNCHANGED messages
    /\ UNCHANGED <<reminder, timer, hand, unrecorded, WorkerLeaves>>

\* The row is SENT and the entry of the log is made; when either fails the job
\* is tried again.
RecordSent ==
    /\ sending = "record"
    /\ \/ /\ reminder' = [reminder EXCEPT ![hand] = "SENT"]
          /\ \/ EndsJob("kept") /\ UNCHANGED faults
             \/ EndsJob("waiting") /\ Fault
          /\ UNCHANGED unrecorded
       \/ /\ EndsJob("waiting") /\ Fault
          /\ unrecorded' = unrecorded \cup {hand}
          /\ UNCHANGED reminder
    /\ UNCHANGED <<messages, WorkerLeaves>>

\* The refusal and its log entry.  A job that was refused for now is tried again
\* until its attempts are spent; so is one whose refusal cannot be recorded (a
\* part of the fault that the refusal was).
RecordFailure ==
    /\ sending \in {"retry", "fail"}
    /\ \/ /\ reminder' = [reminder EXCEPT ![hand] =
                                IF sending = "retry" THEN "RETRYING" ELSE "FAILED"]
          /\ EndsJob("waiting") \/ EndsJob("kept")
       \/ EndsJob("waiting") /\ UNCHANGED reminder
    /\ UNCHANGED <<messages, faults, unrecorded, WorkerLeaves>>

\* The process dies with the tasks and the worker; its job is delivered again.
CrashServer ==
    /\ faults < MaxFaults
    /\ faults' = faults + 1
    /\ Running # {} \/ hand # NoNote
    /\ spoiled' = spoiled \cup {forSlot[t] : t \in Running}
    /\ unrecorded' = IF sending = "record" THEN unrecorded \cup {hand} ELSE unrecorded
    /\ timer' = [n \in Notes |-> IF timer[n] = "active" THEN "waiting" ELSE timer[n]]
    /\ hand' = NoNote /\ sending' = "idle"
    /\ doing' = [t \in Tasks |-> "idle"]
    /\ forSlot' = [t \in Tasks |-> NoSlot]
    /\ announces' = [t \in Tasks |-> 0]
    /\ stamp' = [t \in Tasks |-> 0]
    /\ listed' = [t \in Tasks |-> {}] /\ toRemove' = [t \in Tasks |-> {}]
    /\ UNCHANGED <<second, windowNo, reminder, tells, messages, moves, excused, bereft>>

ReminderNext ==
    \/ \E t \in Tasks :
          \/ \E s \in Sittings : Move(t, s)
          \/ TakeVersion(t)
          \/ ListPending(t)
          \/ \E n \in Notes : RemoveJob(t, n)
          \/ CancelRows(t)
          \/ Upsert(t)
          \/ Dispatch(t)
    \/ \E n \in Notes : TakeJob(n)
    \/ LoadRow
    \/ SendMessage
    \/ RecordSent
    \/ RecordFailure
    \/ CrashServer

ReminderSpec == ReminderInit /\ [][ReminderNext]_reminderVars

-----------------------------------------------------------------------------
TaskSteps == {"idle", "version", "list", "remove", "upsert", "dispatch"}
NoteStatuses == {"none", "QUEUED", "PROCESSING", "RETRYING", "SENT", "FAILED", "CANCELLED"}
SendSteps == {"idle", "load", "send", "record", "retry", "fail"}

\* The rows, jobs and local variables have values of their types, and a job is
\* active exactly while the worker holds it
ReminderTypeOK ==
    /\ second \in 1 .. MaxSeconds
    /\ moves \in 0 .. MaxMoves /\ faults \in 0 .. MaxFaults
    /\ windowNo \in [Sittings -> 1 .. MaxMoves + 1]
    /\ reminder \in [Notes -> NoteStatuses]
    /\ timer \in [Notes -> {"none", "waiting", "active", "kept"}]
    /\ tells \in [Notes -> 0 .. MaxMoves + 1]
    /\ messages \in [Notes -> 0 .. 2]
    /\ doing \in [Tasks -> TaskSteps]
    /\ forSlot \in [Tasks -> Sittings \cup {NoSlot}]
    /\ announces \in [Tasks -> 0 .. MaxMoves + 1]
    /\ stamp \in [Tasks -> 0 .. MaxSeconds]
    /\ listed \in [Tasks -> SUBSET Notes] /\ toRemove \in [Tasks -> SUBSET Notes]
    /\ hand \in Notes \cup {NoNote} /\ sending \in SendSteps
    /\ \A n \in Notes : timer[n] = "active" <=> hand = n

Settled == Running = {}

\* When no task runs, a job that waits to tell a window its slot no longer has
\* is one that the worker had taken, was retrying or could not be removed when
\* the window was replaced, or its slot was disturbed
OldRemindersGone ==
    Settled => \A n \in Notes :
        timer[n] = "waiting" /\ tells[n] # windowNo[n[1]] => n \in excused \/ n[1] \in spoiled

\* When no task runs, the window of a slot has a reminder that waits, is under
\* way or was tried, unless the slot was disturbed or the rescheduling of another
\* slot of the exam took its reminder away
CurrentReminded ==
    Settled => \A s \in Sittings \ (spoiled \cup bereft) :
        \E n \in Notes :
            n[1] = s /\ tells[n] = windowNo[s] /\ timer[n] # "none"

\* A student gets a reminder twice only when the first message was not put on
\* record, or the record was overwritten by a cancellation
ToldOnce == \A n \in Notes \ unrecorded : messages[n] <= 1

\* The reminders follow the windows of the slots.
RemindersFollow == OldRemindersGone /\ CurrentReminded /\ ToldOnce
=============================================================================
