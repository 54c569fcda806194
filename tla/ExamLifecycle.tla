--------------------------- MODULE ExamLifecycle ---------------------------
(***************************************************************************)
(* The life of one exam: its status, its schedules (slots), the approval   *)
(* requests about it and the delayed job that closes a slot.  Everything   *)
(* in the program is keyed by the exam, so one exam is enough.             *)
(*                                                                         *)
(* An operation of the staff reads the rows before its transaction and     *)
(* writes them, without a condition, in it.  Each is therefore two actions *)
(* or more: what was read is kept in op, and other operations, the worker  *)
(* of the closing job and the worker of the generation come in between.    *)
(*                                                                         *)
(* Time is a sequence of windows: window w is open while now = w, and two  *)
(* windows overlap when they are equal.                                    *)
(***************************************************************************)
EXTENDS Naturals, FiniteSets

CONSTANTS
    Staff,      \* the administrators, one operation at a time each
    MaxSlots,   \* bound on the rows of ExamSchedule
    MaxRequests,\* bound on the rows of ApprovalRequest
    Horizon,    \* bound on time: the last window
    MaxOperations \* bound on the operations the staff begins

ASSUME BoundsAssumption ==
    /\ MaxSlots \in Nat \ {0}
    /\ MaxRequests \in Nat \ {0}
    /\ Horizon \in Nat \ {0}
    /\ MaxOperations \in Nat

VARIABLES
    status,     \* Exam.status.name
    mock,       \* the title says MOCK or PRACTICE, or there is one section
    paper,      \* the exam has rows of ExamQuestion
    version,    \* the exam has a row of ExamVersion
    slot,       \* ExamSchedule.status, "NONE" for a row not inserted yet
    window,     \* ExamSchedule.startTime and endTime
    request,    \* ApprovalRequest.status, "NONE" for a row not inserted yet
    audit,      \* the requests with an APPROVE row in the audit log
    cache,      \* the question cache in Redis is CACHE_READY
    lingering,  \* some Attempt of the exam is IN_PROGRESS
    generation, \* the job of the generation worker
    job,        \* the window a delayed window-end job waits for, 0 for none
    run,        \* where the window-end worker stands with the job of a slot
    due,        \* the window the job in the hands of the worker was queued for
    lock,       \* lock:exam-window-end:<exam> exists in Redis
    stalled,    \* the slots whose job was given to a worker a second time
    now,        \* the open window
    op,         \* the operation each member of the staff is in
    left,       \* operations the staff may still begin
    swept,      \* history: requests approved by the sweep of an activation
    met,        \* history: requests two reviews or a sweep met on
    cause       \* history: the last reason why a slot may have no closing job

examVars == <<status, mock, paper, version>>
slotVars == <<slot, window>>
requestVars == <<request, audit, swept, met>>
workerVars == <<run, due, lock, stalled>>
vars == <<examVars, slotVars, requestVars, cache, lingering, generation,
          job, workerVars, now, op, left, cause>>

Slots == 1..MaxSlots
Requests == 1..MaxRequests
Windows == 1..Horizon

Statuses == {"DRAFT", "SUBMITTED", "PENDING_APPROVAL", "APPROVED", "REJECTED",
             "SCHEDULED", "ACTIVE", "ENDED", "COMPLETED", "CANCELLED"}
SlotStatuses == {"NONE", "SCHEDULED", "ACTIVE", "ENDED", "CANCELLED"}
RequestStatuses == {"NONE", "PENDING", "APPROVED", "REJECTED", "CANCELLED"}

\* The statuses that may follow a status
Allowed == [s \in Statuses |->
    CASE s = "DRAFT" -> {"SUBMITTED", "CANCELLED"}
      [] s = "SUBMITTED" -> {"APPROVED", "REJECTED", "CANCELLED"}
      [] s = "REJECTED" -> {"SUBMITTED", "DRAFT", "CANCELLED"}
      [] s = "APPROVED" -> {"SCHEDULED", "CANCELLED"}
      [] s = "SCHEDULED" -> {"ACTIVE", "CANCELLED", "SCHEDULED"}
      [] s = "ACTIVE" -> {"ENDED", "CANCELLED"}
      [] OTHER -> {}]

CanMove(to) == to \in Allowed[status]

Live(s) == slot[s] \in {"SCHEDULED", "ACTIVE"}
LiveSlots == {s \in Slots : Live(s)}
Decided(r) == request[r] \in {"APPROVED", "REJECTED", "CANCELLED"}

\* schedules[0] of the queries that take the last live row by createdAt
Latest(S) == CHOOSE s \in S : \A t \in S : t <= s
FreeSlots == {s \in Slots : slot[s] = "NONE"}
FreeRequests == {r \in Requests : request[r] = "NONE"}
First(S) == CHOOSE s \in S : \A t \in S : s <= t

Kinds == {"idle", "submit", "approve", "reject", "cancel", "invalidate",
          "schedule", "insert", "enqueue", "reschedule", "requeue", "activate",
          "activateBare", "lifecycleActivate", "deactivate", "endExam",
          "requestSubmit", "requestApprove", "handled", "commitApprove", "requestReject",
          "requestCancel", "sync", "setStatus", "clearPaper", "fillPaper"}

\* An operation in progress: do is its next step, the rest is what it has read
\* or what its caller asked for
Ops == [do : Kinds, slot : Slots \cup {0}, req : Requests \cup {0},
        win : Windows \cup {0}, live : SUBSET Slots, to : Statuses]
Idle == [do |-> "idle", slot |-> 0, req |-> 0, win |-> 0, live |-> {}, to |-> "DRAFT"]

Begin(p, o) ==
    /\ op[p] = Idle /\ left > 0
    /\ op' = [op EXCEPT ![p] = o]
    /\ left' = left - 1
Goto(p, o) == op' = [op EXCEPT ![p] = o] /\ UNCHANGED left
Finish(p) == Goto(p, Idle)

-----------------------------------------------------------------------------
(* Rows several operations write *)

\* A PENDING request is inserted
NewRequest ==
    /\ FreeRequests # {}
    /\ request' = [request EXCEPT ![First(FreeRequests)] = "PENDING"]
    /\ UNCHANGED <<audit, swept, met>>

\* Every PENDING request of the exam is set to APPROVED
Sweep ==
    LET pending == {r \in Requests : request[r] = "PENDING"} IN
    /\ request' = [r \in Requests |-> IF r \in pending THEN "APPROVED" ELSE request[r]]
    /\ swept' = swept \cup pending
    /\ met' = met \cup {r \in Requests : \E p \in Staff : op[p].req = r}
    /\ UNCHANGED audit

\* A review of request r begins: history records whom it may meet
Meet(p, r) == met' = met \cup (IF \E q \in Staff \ {p} : op[q].req = r THEN {r} ELSE {})

-----------------------------------------------------------------------------
(* exam-lifecycle.service.ts *)

SubmitRead(p) ==
    /\ CanMove("SUBMITTED") /\ version
    /\ Begin(p, [Idle EXCEPT !.do = "submit"])
    /\ UNCHANGED <<examVars, slotVars, requestVars, cache, lingering, generation, job, workerVars, now, cause>>

\* Mutant: the status of the request is written to the exam
Submit_OldStatus(p) ==
    /\ op[p].do = "submit"
    /\ status' = "PENDING"
    /\ NewRequest
    /\ Finish(p)
    /\ UNCHANGED <<mock, paper, version, slotVars, cache, lingering, generation, job, workerVars, now, cause>>

Submit(p) ==
    /\ op[p].do = "submit"
    /\ status' = "SUBMITTED"
    /\ NewRequest
    /\ Finish(p)
    /\ UNCHANGED <<mock, paper, version, slotVars, cache, lingering, generation, job, workerVars, now, cause>>

ApproveRead(p) ==
    /\ CanMove("APPROVED")
    /\ Begin(p, [Idle EXCEPT !.do = "setStatus", !.to = "APPROVED"])
    /\ UNCHANGED <<examVars, slotVars, requestVars, cache, lingering, generation, job, workerVars, now, cause>>

RejectRead(p) ==
    /\ CanMove("REJECTED")
    /\ Begin(p, [Idle EXCEPT !.do = "setStatus", !.to = "REJECTED"])
    /\ UNCHANGED <<examVars, slotVars, requestVars, cache, lingering, generation, job, workerVars, now, cause>>

\* The transaction of an operation that writes the status and nothing else here
SetStatus(p) ==
    /\ op[p].do = "setStatus"
    /\ status' = op[p].to
    /\ Finish(p)
    /\ UNCHANGED <<mock, paper, version, slotVars, requestVars, cache, lingering, generation, job, workerVars, now, cause>>

CancelRead(p) ==
    /\ CanMove("CANCELLED")
    /\ Begin(p, [Idle EXCEPT !.do = "cancel", !.live = LiveSlots])
    /\ UNCHANGED <<examVars, slotVars, requestVars, cache, lingering, generation, job, workerVars, now, cause>>

\* The slots read before the transaction are cancelled, whatever became of them
Cancel(p) ==
    /\ op[p].do = "cancel"
    /\ status' = "CANCELLED"
    /\ slot' = [s \in Slots |-> IF s \in op[p].live THEN "CANCELLED" ELSE slot[s]]
    /\ Goto(p, [Idle EXCEPT !.do = "invalidate"])
    /\ UNCHANGED <<mock, paper, version, window, requestVars, cache, lingering, generation, job, workerVars, now, cause>>

Invalidate(p) ==
    /\ op[p].do = "invalidate"
    /\ cache' = FALSE
    /\ Finish(p)
    /\ UNCHANGED <<examVars, slotVars, requestVars, lingering, generation, job, workerVars, now, cause>>

\* The activation of the lifecycle service, called for a privileged action: the
\* status, the last live slot and the question cache are checked; a cache that
\* is not ready is prepared, which needs a question
LifecycleActivateRead(p) ==
    /\ status = "SCHEDULED"
    /\ CanMove("ACTIVE")
    /\ LiveSlots # {}
    /\ now <= window[Latest(LiveSlots)]
    /\ cache \/ paper
    /\ cache' = TRUE
    /\ Begin(p, [Idle EXCEPT !.do = "lifecycleActivate", !.slot = Latest(LiveSlots),
                             !.live = {s \in LiveSlots : slot[s] = "ACTIVE"}])
    /\ UNCHANGED <<examVars, slotVars, requestVars, lingering, generation, job, workerVars, now, cause>>

LifecycleActivate(p) ==
    /\ op[p].do = "lifecycleActivate"
    /\ status' = "ACTIVE"
    /\ slot' = [slot EXCEPT ![op[p].slot] = IF op[p].slot \in op[p].live THEN @ ELSE "ACTIVE"]
    /\ cause' = [cause EXCEPT ![op[p].slot] = IF slot[op[p].slot] \in {"ENDED", "CANCELLED"}
                                              THEN "reopened" ELSE @]
    /\ Sweep
    /\ Finish(p)
    /\ UNCHANGED <<mock, paper, version, window, cache, lingering, generation, job, workerVars, now>>

\* The row that endExam writes when it finds the exam ACTIVE
EndExamTx(active) ==
    /\ status' = "ENDED"
    /\ slot' = [s \in Slots |-> IF active # {} /\ slot[s] = "ACTIVE" THEN "ENDED" ELSE slot[s]]

ActiveSlots == {s \in Slots : slot[s] = "ACTIVE"}

\* A student who comes after the end makes the access check call endExam
EndExamRead(p) ==
    /\ status = "ACTIVE"
    /\ LiveSlots # {}
    /\ slot[Latest(LiveSlots)] = "ACTIVE" /\ now > window[Latest(LiveSlots)]
    /\ Begin(p, [Idle EXCEPT !.do = "endExam", !.live = ActiveSlots])
    /\ UNCHANGED <<examVars, slotVars, requestVars, cache, lingering, generation, job, workerVars, now, cause>>

EndExam(p) ==
    /\ op[p].do = "endExam"
    /\ EndExamTx(op[p].live)
    /\ Finish(p)
    /\ UNCHANGED <<mock, paper, version, window, requestVars, cache, lingering, generation, job, workerVars, now, cause>>

-----------------------------------------------------------------------------
(* exam-schedule.service.ts *)

\* A version is created for an exam that has none, outside the transaction
ScheduleRead(p, w) ==
    /\ status \notin {"CANCELLED", "ENDED", "COMPLETED", "DRAFT", "SUBMITTED"}
    /\ now <= w
    /\ version' = TRUE
    /\ Begin(p, [Idle EXCEPT !.do = "schedule", !.win = w])
    /\ UNCHANGED <<status, mock, paper, slotVars, requestVars, cache, lingering, generation, job, workerVars, now, cause>>

\* The search for an overlapping slot ...
ScheduleCheck(p) ==
    /\ op[p].do = "schedule"
    /\ IF \E s \in LiveSlots : window[s] = op[p].win
       THEN Finish(p)
       ELSE Goto(p, [op[p] EXCEPT !.do = "insert"])
    /\ UNCHANGED <<examVars, slotVars, requestVars, cache, lingering, generation, job, workerVars, now, cause>>

\* ... and the insert are two statements of one transaction
ScheduleInsert(p) ==
    /\ op[p].do = "insert"
    /\ FreeSlots # {}
    /\ slot' = [slot EXCEPT ![First(FreeSlots)] = "SCHEDULED"]
    /\ window' = [window EXCEPT ![First(FreeSlots)] = op[p].win]
    /\ status' = "SCHEDULED"
    /\ NewRequest
    /\ Goto(p, [op[p] EXCEPT !.do = "enqueue", !.slot = First(FreeSlots)])
    /\ UNCHANGED <<mock, paper, version, cache, lingering, generation, job, workerVars, now, cause>>

\* The closing job is queued, unless the queue still holds one of that id, a
\* failed one included; an error of the queue is only logged
ScheduleEnqueue(p) ==
    LET s == op[p].slot
        held == job[s] # 0 \/ cause[s] \in {"failed", "stalled"} IN
    /\ op[p].do = "enqueue"
    /\ \/ held /\ UNCHANGED <<job, cause>>
       \/ /\ ~held
          /\ job' = [job EXCEPT ![s] = op[p].win]
          /\ cause' = [cause EXCEPT ![s] = "none"]
       \/ /\ cause' = [cause EXCEPT ![s] = IF held THEN @ ELSE "queueError"]
          /\ UNCHANGED job
    /\ Finish(p)
    /\ UNCHANGED <<examVars, slotVars, requestVars, cache, lingering, generation, workerVars, now>>

RescheduleRead(p, s, w) ==
    /\ slot[s] = "SCHEDULED"
    /\ Begin(p, [Idle EXCEPT !.do = "reschedule", !.slot = s, !.win = w])
    /\ UNCHANGED <<examVars, slotVars, requestVars, cache, lingering, generation, job, workerVars, now, cause>>

\* Mutant: a rescheduled slot is SCHEDULED again
Reschedule_Revives(p) ==
    /\ op[p].do = "reschedule"
    /\ window' = [window EXCEPT ![op[p].slot] = op[p].win]
    /\ slot' = [slot EXCEPT ![op[p].slot] = "SCHEDULED"]
    /\ Goto(p, [op[p] EXCEPT !.do = "requeue"])
    /\ UNCHANGED <<examVars, requestVars, cache, lingering, generation, job, workerVars, now, cause>>

Reschedule(p) ==
    /\ op[p].do = "reschedule"
    /\ window' = [window EXCEPT ![op[p].slot] = op[p].win]
    /\ Goto(p, [op[p] EXCEPT !.do = "requeue"])
    /\ UNCHANGED <<examVars, slot, requestVars, cache, lingering, generation, job, workerVars, now, cause>>

\* Mutant: the old job is removed and no new one added
Requeue_Lost(p) ==
    LET s == op[p].slot IN
    /\ op[p].do = "requeue"
    /\ \/ /\ run[s] = "off"
          /\ job' = [job EXCEPT ![s] = 0]
          /\ cause' = [cause EXCEPT ![s] = "none"]
          /\ stalled' = stalled \ {s}
       \/ /\ run[s] = "off"
          /\ job' = [job EXCEPT ![s] = 0]
          /\ cause' = [cause EXCEPT ![s] = "queueError"]
          /\ stalled' = stalled \ {s}
       \/ UNCHANGED <<job, cause, stalled>>
    /\ Finish(p)
    /\ UNCHANGED <<examVars, slotVars, requestVars, cache, lingering, generation, run, due, lock, now>>

\* The old job is removed and a new one added under its id.  The removal of a
\* job that a worker holds throws, and so may every call of the queue, before
\* or after the removal: that ends the attempt and is only logged.
Requeue(p) ==
    LET s == op[p].slot IN
    /\ op[p].do = "requeue"
    /\ \/ /\ run[s] = "off"
          /\ job' = [job EXCEPT ![s] = op[p].win]
          /\ cause' = [cause EXCEPT ![s] = "none"]
          /\ stalled' = stalled \ {s}
       \/ /\ run[s] = "off"
          /\ job' = [job EXCEPT ![s] = 0]
          /\ cause' = [cause EXCEPT ![s] = "queueError"]
          /\ stalled' = stalled \ {s}
       \/ UNCHANGED <<job, cause, stalled>>
    /\ Finish(p)
    /\ UNCHANGED <<examVars, slotVars, requestVars, cache, lingering, generation, run, due, lock, now>>

\* The server dies after the commit of an operation: what was left to do, the
\* closing job or the cache, is not done.  A new job is lost with it, a replaced
\* one stays or is gone.
ServerDies(p) ==
    LET s == op[p].slot IN
    /\ \/ op[p].do \in {"invalidate", "requestApprove", "requeue"} /\ UNCHANGED <<job, cause, stalled>>
       \/ /\ op[p].do = "enqueue"
          /\ cause' = [cause EXCEPT ![s] = IF job[s] = 0 /\ @ = "none" THEN "died" ELSE @]
          /\ UNCHANGED <<job, stalled>>
       \/ /\ op[p].do = "requeue" /\ run[s] = "off"
          /\ job' = [job EXCEPT ![s] = 0]
          /\ cause' = [cause EXCEPT ![s] = "died"]
          /\ stalled' = stalled \ {s}
    /\ Finish(p)
    /\ UNCHANGED <<examVars, slotVars, requestVars, cache, lingering, generation, run, due, lock, now>>

ActivateRead(p, s) ==
    /\ slot[s] = "SCHEDULED"
    /\ paper
    /\ Begin(p, [Idle EXCEPT !.do = "activate", !.slot = s])
    /\ UNCHANGED <<examVars, slotVars, requestVars, cache, lingering, generation, job, workerVars, now, cause>>

\* The transaction of an activation sets the slot ACTIVE whatever became of it
ActivateTx(s) ==
    /\ slot' = [slot EXCEPT ![s] = "ACTIVE"]
    /\ status' = "ACTIVE"
    /\ cause' = [cause EXCEPT ![s] = IF slot[s] \in {"ENDED", "CANCELLED"}
                                     THEN "reopened" ELSE @]
    /\ Sweep

Activate(p) ==
    /\ op[p].do = "activate"
    /\ ActivateTx(op[p].slot)
    /\ Finish(p)
    /\ UNCHANGED <<mock, paper, version, window, cache, lingering, generation, job, workerVars, now>>

\* An activation by exam that finds no SCHEDULED slot writes the status alone
ActivateBareRead(p) ==
    /\ \A s \in Slots : slot[s] # "SCHEDULED"
    /\ paper
    /\ Begin(p, [Idle EXCEPT !.do = "setStatus", !.to = "ACTIVE"])
    /\ UNCHANGED <<examVars, slotVars, requestVars, cache, lingering, generation, job, workerVars, now, cause>>

-----------------------------------------------------------------------------
(* admin-high-risk.service.ts and exam.service.ts *)

DeactivateRead(p) ==
    /\ status = "ACTIVE"
    /\ Begin(p, [Idle EXCEPT !.do = "setStatus", !.to = "ENDED"])
    /\ UNCHANGED <<examVars, slotVars, requestVars, cache, lingering, generation, job, workerVars, now, cause>>

\* The older exam endpoints: their own submission, approval, activation,
\* completion and cancellation; the last has no condition at all
OlderRead(p) ==
    /\ \E to \in Statuses :
         /\ \/ to = "PENDING_APPROVAL" /\ status = "DRAFT" /\ paper
            \/ to = "APPROVED" /\ status = "PENDING_APPROVAL"
            \/ to = "ACTIVE" /\ status = "APPROVED"
            \/ to = "COMPLETED" /\ status = "ACTIVE"
            \/ to = "CANCELLED"
         /\ Begin(p, [Idle EXCEPT !.do = "setStatus", !.to = to])
    /\ UNCHANGED <<examVars, slotVars, requestVars, cache, lingering, generation, job, workerVars, now, cause>>

\* The questions of a DRAFT are chosen again: the old ones are deleted before
\* the transaction that inserts the new ones, which may fail
ChooseQuestionsRead(p) ==
    /\ status = "DRAFT"
    /\ Begin(p, [Idle EXCEPT !.do = IF paper THEN "clearPaper" ELSE "fillPaper"])
    /\ UNCHANGED <<examVars, slotVars, requestVars, cache, lingering, generation, job, workerVars, now, cause>>

ClearPaper(p) ==
    /\ op[p].do = "clearPaper"
    /\ paper' = FALSE
    /\ Goto(p, [Idle EXCEPT !.do = "fillPaper"])
    /\ UNCHANGED <<status, mock, version, slotVars, requestVars, cache, lingering, generation, job, workerVars, now, cause>>

FillPaper(p) ==
    /\ op[p].do = "fillPaper"
    /\ paper' = TRUE
    /\ Finish(p)
    /\ UNCHANGED <<status, mock, version, slotVars, requestVars, cache, lingering, generation, job, workerVars, now, cause>>

-----------------------------------------------------------------------------
(* approval-workflow.service.ts and exam-approval.handler.ts *)

\* A request is submitted for review, or the synchronisation of the queue
\* misses one for an exam that waits
RequestSubmitRead(p) ==
    /\ \/ /\ status \notin {"APPROVED", "ACTIVE", "COMPLETED"}
          /\ \A r \in Requests : request[r] # "PENDING"
       \/ /\ status \in {"SCHEDULED", "SUBMITTED"}
          /\ \A r \in Requests : request[r] = "NONE"
    /\ Begin(p, [Idle EXCEPT !.do = "requestSubmit"])
    /\ UNCHANGED <<examVars, slotVars, requestVars, cache, lingering, generation, job, workerVars, now, cause>>

RequestSubmit(p) ==
    /\ op[p].do = "requestSubmit"
    /\ NewRequest
    /\ Finish(p)
    /\ UNCHANGED <<examVars, slotVars, cache, lingering, generation, job, workerVars, now, cause>>

\* Mutant: a decided request is reviewed again
ReviewRead_Decided(p, r, review) ==
    /\ request[r] # "NONE"
    /\ Meet(p, r)
    /\ Begin(p, [Idle EXCEPT !.do = review, !.req = r])
    /\ UNCHANGED <<examVars, slotVars, request, audit, swept, cache, lingering, generation, job, workerVars, now, cause>>

\* The request is found PENDING before the transaction of the review
ReviewRead(p, r, review) ==
    /\ request[r] = "PENDING"
    /\ Meet(p, r)
    /\ Begin(p, [Idle EXCEPT !.do = review, !.req = r])
    /\ UNCHANGED <<examVars, slotVars, request, audit, swept, cache, lingering, generation, job, workerVars, now, cause>>

\* What the approval is going to do, from the exam and its last live slot: the
\* activation of that slot, nothing for one that is ACTIVE already, or a status.
\* Without a paper the activation throws, and so does a SCHEDULED exam without
\* a slot.
HandleApprove(p) ==
    /\ op[p].do = "requestApprove"
    /\ IF LiveSlots # {} THEN
          LET s == Latest(LiveSlots) IN
          \/ slot[s] = "SCHEDULED" /\ paper /\ Goto(p, [op[p] EXCEPT !.do = "handled", !.slot = s])
          \/ slot[s] = "SCHEDULED" /\ ~paper /\ Finish(p)
          \/ slot[s] = "ACTIVE" /\ Goto(p, [op[p] EXCEPT !.do = "commitApprove", !.slot = s])
       ELSE IF status = "SCHEDULED" THEN Finish(p)
       ELSE Goto(p, [op[p] EXCEPT !.do = "commitApprove",
                                  !.to = IF mock THEN "ACTIVE" ELSE "APPROVED"])
    /\ UNCHANGED <<examVars, slotVars, requestVars, cache, lingering, generation, job, workerVars, now, cause>>

\* The activation commits in a transaction of its own, inside the approval's
ApproveActivates(p) ==
    /\ op[p].do = "handled"
    /\ ActivateTx(op[p].slot)
    /\ Goto(p, [op[p] EXCEPT !.do = "commitApprove"])
    /\ UNCHANGED <<mock, paper, version, window, cache, lingering, generation, job, workerVars, now>>

\* The transaction of the approval: the status unless a slot was activated, the
\* request without a condition, and the audit log
CommitApprove(p) ==
    /\ op[p].do = "commitApprove"
    /\ status' = IF op[p].slot = 0 THEN op[p].to ELSE status
    /\ request' = [request EXCEPT ![op[p].req] = "APPROVED"]
    /\ audit' = audit \cup {op[p].req}
    /\ Finish(p)
    /\ UNCHANGED <<mock, paper, version, slotVars, swept, met, cache, lingering, generation, job, workerVars, now, cause>>

CommitReject(p) ==
    /\ op[p].do = "requestReject"
    /\ status' = "REJECTED"
    /\ slot' = [s \in Slots |-> IF slot[s] = "SCHEDULED" THEN "CANCELLED" ELSE slot[s]]
    /\ request' = [request EXCEPT ![op[p].req] = "REJECTED"]
    /\ Finish(p)
    /\ UNCHANGED <<mock, paper, version, window, audit, swept, met, cache, lingering, generation, job, workerVars, now, cause>>

CommitCancel(p) ==
    /\ op[p].do = "requestCancel"
    /\ status' = "DRAFT"
    /\ request' = [request EXCEPT ![op[p].req] = "CANCELLED"]
    /\ Finish(p)
    /\ UNCHANGED <<mock, paper, version, slotVars, audit, swept, met, cache, lingering, generation, job, workerVars, now, cause>>

\* A transaction is rolled back by an error of the database or of the audit log,
\* or the server dies in it
RollBack(p) ==
    /\ op[p].do \in Kinds \ {"idle", "invalidate", "enqueue", "requeue", "requestApprove"}
    /\ Finish(p)
    /\ UNCHANGED <<examVars, slotVars, requestVars, cache, lingering, generation, job, workerVars, now, cause>>

-----------------------------------------------------------------------------
(* exam-window-end.processor.ts: run is the next step of the worker *)

\* A due job is taken.  If the lock exists the job is dropped as a duplicate.
WindowEndStart(s) ==
    /\ job[s] # 0 /\ job[s] < now /\ run[s] = "off"
    /\ IF lock
       THEN /\ job' = [job EXCEPT ![s] = 0]
            /\ cause' = [cause EXCEPT ![s] = "skipped"]
            /\ stalled' = stalled \ {s}
            /\ UNCHANGED <<run, due, lock>>
       ELSE /\ run' = [run EXCEPT ![s] = "lock"]
            /\ due' = [due EXCEPT ![s] = job[s]]
            /\ UNCHANGED <<job, lock, stalled, cause>>
    /\ UNCHANGED <<examVars, slotVars, requestVars, cache, lingering, generation, now, op, left>>

WindowEndLock(s) ==
    /\ run[s] = "lock"
    /\ lock' = TRUE
    /\ run' = [run EXCEPT ![s] = "read"]
    /\ UNCHANGED <<due, stalled, examVars, slotVars, requestVars, cache, lingering, generation, job, now, op, left, cause>>

\* A mock is left alone.  A running attempt makes the job fail: the status
\* written to it is the id of a row of another table.
WindowEndRead(s) ==
    /\ run[s] = "read"
    /\ IF mock \/ lingering
       THEN /\ run' = [run EXCEPT ![s] = "unlock"]
            /\ cause' = [cause EXCEPT ![s] = IF mock THEN "notLive" ELSE "failed"]
       ELSE /\ run' = [run EXCEPT ![s] = IF status = "ACTIVE" THEN "closeActive" ELSE "close"]
            /\ UNCHANGED cause
    /\ UNCHANGED <<due, lock, stalled, examVars, slotVars, requestVars, cache, lingering, generation, job, now, op, left>>

\* An error of the database ends the job, which has one attempt
WindowEndFails(s) ==
    /\ run[s] \in {"read", "close", "closeActive"}
    /\ run' = [run EXCEPT ![s] = "unlock"]
    /\ cause' = [cause EXCEPT ![s] = "failed"]
    /\ UNCHANGED <<due, lock, stalled, examVars, slotVars, requestVars, cache, lingering, generation, job, now, op, left>>

WindowEndClose(s) ==
    /\ run[s] \in {"close", "closeActive"}
    /\ slot' = [slot EXCEPT ![s] = IF Live(s) THEN "ENDED" ELSE @]
    /\ run' = [run EXCEPT ![s] = IF run[s] = "close" THEN "unlock" ELSE "end"]
    /\ UNCHANGED <<due, lock, stalled, examVars, window, requestVars, cache, lingering, generation, job, now, op, left, cause>>

\* endExam reads again, and ends the exam and its ACTIVE slots if it is ACTIVE;
\* an error of its transaction is only logged
WindowEndExam(s) ==
    /\ run[s] = "end"
    /\ \/ status = "ACTIVE" /\ EndExamTx(ActiveSlots)
       \/ UNCHANGED <<status, slot>>
    /\ run' = [run EXCEPT ![s] = "unlock"]
    /\ UNCHANGED <<due, lock, stalled, mock, paper, version, window, requestVars, cache, lingering, generation, job, now, op, left, cause>>

\* The lock is deleted, if Redis answers, and the job ends
WindowEndUnlock(s) ==
    /\ run[s] = "unlock"
    /\ lock' \in {FALSE, lock}
    /\ run' = [run EXCEPT ![s] = "off"]
    /\ due' = [due EXCEPT ![s] = 0]
    /\ job' = [job EXCEPT ![s] = 0]
    /\ stalled' = stalled \ {s}
    /\ UNCHANGED <<examVars, slotVars, requestVars, cache, lingering, generation, now, op, left, cause>>

\* The worker's process dies and the lock stays: the job is given to a worker
\* again, and fails when that one dies too, the queue's limit of stalls being 1
WorkerCrash(s) ==
    /\ run[s] # "off"
    /\ run' = [run EXCEPT ![s] = "off"]
    /\ due' = [due EXCEPT ![s] = 0]
    /\ IF s \in stalled
       THEN /\ job' = [job EXCEPT ![s] = 0]
            /\ cause' = [cause EXCEPT ![s] = "stalled"]
            /\ stalled' = stalled \ {s}
       ELSE stalled' = stalled \cup {s} /\ UNCHANGED <<job, cause>>
    /\ UNCHANGED <<lock, examVars, slotVars, requestVars, cache, lingering, generation, now, op, left>>

\* The lock lives for a minute
LockExpires ==
    /\ lock
    /\ lock' = FALSE
    /\ UNCHANGED <<run, due, stalled, examVars, slotVars, requestVars, cache, lingering, generation, job, now, op, left, cause>>

-----------------------------------------------------------------------------
(* exam-generation.processor.ts, the paper import, students and time *)

GenerateTx ==
    /\ generation = "queued"
    /\ paper' = TRUE /\ version' = TRUE
    /\ generation' = "filled"
    /\ UNCHANGED <<status, mock, slotVars, requestVars, cache, lingering, job, workerVars, now, op, left, cause>>

\* The status is written when the job ends, whatever it is by then
GenerateEnds ==
    /\ \/ generation = "filled" /\ status' = "DRAFT"
       \/ generation # "none" /\ status' = "CANCELLED"
    /\ generation' = "none"
    /\ UNCHANGED <<mock, paper, version, slotVars, requestVars, cache, lingering, job, workerVars, now, op, left, cause>>

ImportPaper ==
    /\ ~paper
    /\ paper' = TRUE /\ version' = TRUE
    /\ UNCHANGED <<status, mock, slotVars, requestVars, cache, lingering, generation, job, workerVars, now, op, left, cause>>

\* The access check: a running exam, and inside its last live slot if it has one
Admits ==
    /\ status \in {"ACTIVE", "COMPLETED"}
    /\ LiveSlots # {} => LET s == Latest(LiveSlots) IN slot[s] = "ACTIVE" /\ now = window[s]

StudentStarts ==
    /\ Admits
    /\ lingering' = TRUE
    /\ UNCHANGED <<examVars, slotVars, requestVars, cache, generation, job, workerVars, now, op, left, cause>>

StudentsFinish ==
    /\ lingering
    /\ lingering' = FALSE
    /\ UNCHANGED <<examVars, slotVars, requestVars, cache, generation, job, workerVars, now, op, left, cause>>

Tick ==
    /\ now <= Horizon
    /\ now' = now + 1
    /\ UNCHANGED <<examVars, slotVars, requestVars, cache, lingering, generation, job, workerVars, op, left, cause>>

-----------------------------------------------------------------------------
\* An exam begins as a DRAFT that its author or the generation worker fills; as
\* an APPROVED mock with its paper, built from an import; or with a slot and a
\* request but no closing job, when the administration's form creates and
\* schedules it in one step
CreatedDraft ==
    /\ status = "DRAFT" /\ paper = FALSE /\ version = FALSE
    /\ mock \in BOOLEAN /\ generation \in {"none", "queued"}

CreatedMock ==
    /\ status = "APPROVED" /\ paper = TRUE /\ version = TRUE
    /\ mock = TRUE /\ generation = "none"

CreatedByForm ==
    /\ status = "SCHEDULED" /\ paper = FALSE /\ version = TRUE
    /\ mock \in BOOLEAN /\ generation = "none"

Init ==
    /\ CreatedDraft \/ CreatedMock \/ CreatedByForm
    /\ slot = [s \in Slots |-> IF s = 1 /\ status = "SCHEDULED" THEN "SCHEDULED" ELSE "NONE"]
    /\ request = [r \in Requests |-> IF r = 1 /\ status = "SCHEDULED" THEN "PENDING" ELSE "NONE"]
    /\ cause = [s \in Slots |-> IF s = 1 /\ status = "SCHEDULED" THEN "never" ELSE "none"]
    /\ window = [s \in Slots |-> 1]
    /\ audit = {} /\ swept = {} /\ met = {}
    /\ cache = FALSE
    /\ lingering = FALSE
    /\ job = [s \in Slots |-> 0]
    /\ run = [s \in Slots |-> "off"]
    /\ due = [s \in Slots |-> 0]
    /\ lock = FALSE /\ stalled = {}
    /\ now = 1
    /\ op = [p \in Staff |-> Idle]
    /\ left = MaxOperations

LifecycleOperation(p) ==
    \/ SubmitRead(p) \/ Submit(p) \/ ApproveRead(p) \/ RejectRead(p) \/ SetStatus(p)
    \/ CancelRead(p) \/ Cancel(p) \/ Invalidate(p)
    \/ LifecycleActivateRead(p) \/ LifecycleActivate(p) \/ EndExamRead(p) \/ EndExam(p)

ScheduleOperation(p) ==
    \/ \E w \in Windows : ScheduleRead(p, w) \/ \E s \in Slots : RescheduleRead(p, s, w)
    \/ ScheduleCheck(p) \/ ScheduleInsert(p) \/ ScheduleEnqueue(p)
    \/ Reschedule(p) \/ Requeue(p) \/ ServerDies(p)
    \/ \E s \in Slots : ActivateRead(p, s)
    \/ Activate(p) \/ ActivateBareRead(p)

ExamOperation(p) ==
    \/ DeactivateRead(p) \/ OlderRead(p)
    \/ ChooseQuestionsRead(p) \/ ClearPaper(p) \/ FillPaper(p)

ReviewOperation(p) ==
    \/ RequestSubmitRead(p) \/ RequestSubmit(p)
    \/ \E r \in Requests, review \in {"requestApprove", "requestReject", "requestCancel"} :
          ReviewRead(p, r, review)
    \/ HandleApprove(p) \/ ApproveActivates(p)
    \/ CommitApprove(p) \/ CommitReject(p) \/ CommitCancel(p)
    \/ RollBack(p)

WindowEndWorker(s) ==
    \/ WindowEndStart(s) \/ WindowEndLock(s) \/ WindowEndRead(s) \/ WindowEndClose(s)
    \/ WindowEndExam(s) \/ WindowEndFails(s) \/ WindowEndUnlock(s) \/ WorkerCrash(s)

Next ==
    \/ \E p \in Staff : \/ LifecycleOperation(p) \/ ScheduleOperation(p)
                        \/ ExamOperation(p) \/ ReviewOperation(p)
    \/ \E s \in Slots : WindowEndWorker(s)
    \/ LockExpires \/ GenerateTx \/ GenerateEnds \/ ImportPaper
    \/ StudentStarts \/ StudentsFinish \/ Tick

Spec == Init /\ [][Next]_vars

-----------------------------------------------------------------------------
Steps == {"off", "lock", "read", "close", "closeActive", "end", "unlock"}
Causes == {"none", "never", "queueError", "died", "skipped", "failed", "stalled", "notLive", "reopened"}

\* Every variable holds a value of its type
TypeOK ==
    /\ status \in Statuses
    /\ mock \in BOOLEAN /\ paper \in BOOLEAN /\ version \in BOOLEAN
    /\ slot \in [Slots -> SlotStatuses]
    /\ window \in [Slots -> Windows]
    /\ request \in [Requests -> RequestStatuses]
    /\ audit \subseteq Requests /\ swept \subseteq Requests /\ met \subseteq Requests
    /\ cache \in BOOLEAN /\ lingering \in BOOLEAN
    /\ generation \in {"none", "queued", "filled"}
    /\ job \in [Slots -> Windows \cup {0}]
    /\ run \in [Slots -> Steps]
    /\ due \in [Slots -> Windows \cup {0}]
    /\ lock \in BOOLEAN /\ stalled \subseteq Slots
    /\ now \in 1..(Horizon + 1)
    /\ op \in [Staff -> Ops] /\ left \in 0..MaxOperations
    /\ cause \in [Slots -> Causes]

\* A live slot has a job that will close it, held by a worker or not, or an
\* operation about to queue one, unless the way it lost its job is one of the
\* known ones: it was created by the administration's form, which queues none;
\* the queue refused the job, or the server died before it was queued; the job
\* met the lock and was dropped; the job failed, by a running attempt or an
\* error of the database, or because two workers in turn died at it; the exam is
\* a mock; or a late activation reopened a closed slot.
EveryWindowCloses ==
    \A s \in Slots : Live(s) =>
        \/ job[s] # 0
        \/ \E p \in Staff : op[p].slot = s /\ op[p].do = "enqueue"
        \/ cause[s] # "none"

\* A decided request is decided differently only when two reviews of it, or a
\* review and the sweep of an activation, were in progress at the same time
DecidedOnce ==
    \A r \in Requests : Decided(r) /\ request'[r] # request[r] => r \in met'

\* A request that became APPROVED by no recorded approval was swept up by an
\* activation: that is all that is left of an approval whose own transaction is
\* rolled back after the activation inside it has committed
ApprovedIsAudited ==
    \A r \in Requests : request[r] = "APPROVED" => r \in audit \cup swept

\* A review of a request stands, and an approval leaves a record.
ReviewsStand == [][DecidedOnce /\ ApprovedIsAudited']_vars

\* The worker closes a slot before its window is over only while a rescheduling
\* has moved the window and not yet replaced the job, or when it could not
\* replace a job that the worker already held
ClosedOnTime ==
    [][\A s \in Slots :
         /\ run[s] \in {"close", "closeActive"} /\ run'[s] # run[s]
         /\ Live(s) /\ slot'[s] = "ENDED" /\ now <= window[s]
         => due[s] # window[s]]_vars

\* A slot that ended or was cancelled comes back to life only as ACTIVE, by an
\* activation that had read it as live
Reopened ==
    [][\A s \in Slots : slot[s] \in {"ENDED", "CANCELLED"} /\ slot'[s] # slot[s] =>
         \/ slot'[s] = "CANCELLED" /\ status' = "CANCELLED"
         \/ slot'[s] = "ACTIVE" /\ status' = "ACTIVE" /\ cause'[s] = "reopened"]_vars

\* A slot ends on time and stays ended.
SlotsEnd == ClosedOnTime /\ Reopened

\* The comment of the access check, "serverNow must be < endTime": while the
\* worker is ending an exam whose windows are all over, no student is admitted
NoEntryAfterEnd ==
    (\E s \in Slots : run[s] = "end") /\ (\A s \in Slots : slot[s] # "NONE" => window[s] < now)
    => ~Admits
=============================================================================
