---------------------------- MODULE Staff_proofs ----------------------------
(***************************************************************************)
(* Proofs about what the staff does: ExamLifecycle, for any number of      *)
(* administrators, slots, requests and windows; Reminders, for any number  *)
(* of slots, tasks, reschedulings and faults; and BatchUpload, for any     *)
(* number of officers, rows, numbers and requests.                         *)
(***************************************************************************)
EXTENDS MCExam, FiniteSetTheorems, WellFoundedInduction, TLAPS

-----------------------------------------------------------------------------
(* The life of the exam: the inductive invariant *)

\* What an operation has in hand: a window and a slot that exist where it needs
\* them, and a request that was inserted; a review whose request is not PENDING
\* any more met another one.
OnSlot == {"enqueue", "reschedule", "requeue", "activate", "handled", "lifecycleActivate"}
OnWindow == {"schedule", "insert", "enqueue", "reschedule", "requeue"}
Reviewing == {"requestApprove", "handled", "commitApprove", "requestReject", "requestCancel"}
InHand(o) ==
    /\ o.do \in OnWindow => o.win \in Windows
    /\ o.do \in OnSlot => o.slot \in Slots /\ slot[o.slot] # "NONE"
    /\ o.do \in Reviewing => o.req \in Requests
    /\ o.req # 0 => /\ request[o.req] # "NONE"
                    /\ request[o.req] # "PENDING" => o.req \in met

\* Reviews of one request are on record.
Meetings == \A p, q \in Staff : p # q /\ op[p].req = op[q].req /\ op[p].req # 0 => op[p].req \in met

\* A slot with a job exists; the worker works on a job that was due, and leaves a
\* slot closed or with a reason; and a live slot is going to be closed.
QueuesFor(q, s) == op[q].slot = s /\ op[q].do = "enqueue"
Watched(s) ==
    /\ job[s] # 0 => slot[s] # "NONE"
    /\ run[s] # "off" => job[s] # 0 /\ due[s] < now
    /\ run[s] \in {"end", "unlock"} => ~Live(s) \/ cause[s] # "none"
    /\ Live(s) => job[s] # 0 \/ cause[s] # "none" \/ \E q \in Staff : QueuesFor(q, s)

ExamInv ==
    /\ TypeOK /\ Meetings /\ ApprovedIsAudited
    /\ \A p \in Staff : InHand(op[p])
    /\ \A s \in Slots : Watched(s)

\* What the steps promise: a decided request is decided again, and a closed slot
\* comes back, only as the properties say, and no slot is closed early.
OnTime(s) ==
    /\ run[s] \in {"close", "closeActive"} /\ run'[s] # run[s]
    /\ Live(s) /\ slot'[s] = "ENDED" /\ now <= window[s]
    => due[s] # window[s]
ComesBack(s) ==
    slot[s] \in {"ENDED", "CANCELLED"} /\ slot'[s] # slot[s] =>
        \/ slot'[s] = "CANCELLED" /\ status' = "CANCELLED"
        \/ slot'[s] = "ACTIVE" /\ status' = "ACTIVE" /\ cause'[s] = "reopened"
Promised == DecidedOnce /\ \A s \in Slots : OnTime(s) /\ ComesBack(s)

\* A step of the staff may move the slots so: a slot stays inserted; one that is
\* live was so before, or has a reason to stay open, or the operation o queues
\* its job.
SlotsMove(o) ==
    /\ slot' \in [Slots -> SlotStatuses] /\ window' \in [Slots -> Windows] /\ cause' \in [Slots -> Causes]
    /\ \A s \in Slots : slot[s] # "NONE" => slot'[s] # "NONE"
    /\ \A s \in Slots :
          \/ slot'[s] \notin {"SCHEDULED", "ACTIVE"}
          \/ cause'[s] # "none"
          \/ Live(s) /\ cause'[s] = cause[s]
          \/ slot[s] = "NONE" /\ o.do = "enqueue" /\ o.slot = s
    /\ \A s \in Slots : ComesBack(s)

\* It may move the requests so: a request stays inserted, one that another
\* operation is about changes only as met, and o is about a request that others
\* are about too only if it is met.
RequestsMove(p, o) ==
    /\ request' \in [Requests -> RequestStatuses]
    /\ audit' \subseteq Requests /\ swept' \subseteq Requests /\ met \subseteq met' /\ met' \subseteq Requests
    /\ \A r \in Requests : request[r] # "NONE" => request'[r] # "NONE"
    /\ \A r \in Requests : request[r] # "NONE" /\ request'[r] # request[r] =>
          /\ \A q \in Staff \ {p} : op[q].req = r => r \in met'
          /\ Decided(r) => r \in met'
    /\ o.req # 0 =>
          /\ o.req \in Requests /\ request'[o.req] # "NONE"
          /\ request'[o.req] # "PENDING" => o.req \in met'
          /\ \A q \in Staff \ {p} : op[q].req = o.req => o.req \in met'
    /\ ApprovedIsAudited'

\* The operation o has what it needs.
Fit(o) ==
    /\ o.do \in OnWindow => o.win \in Windows
    /\ o.do \in OnSlot => o.slot \in Slots /\ slot'[o.slot] # "NONE"
    /\ o.do \in Reviewing => o.req \in Requests

-----------------------------------------------------------------------------
(* Rows and records of the exam *)

\* The last and the first of some rows are among them.
LEMMA LatestAndFirst ==
    ASSUME NEW n \in Nat, NEW S \in SUBSET (1 .. n), S # {}
    PROVE  Latest(S) \in S /\ First(S) \in S
<1>1. \A k \in S : k \in Nat /\ k <= n /\ n - k \in Nat
  OBVIOUS
<1>2. S \in SUBSET Nat
  BY <1>1
<1>3. PICK i \in S : \A k \in S : ~(<<k, i>> \in OpToRel(<, Nat))
  BY <1>2, NatLessThanWellFounded, WFMin
<1>4. ASSUME NEW k \in S PROVE i <= k
  <2>1. k \in Nat /\ i \in Nat
    BY <1>1
  <2>2. <<k, i>> \in OpToRel(<, Nat) <=> k < i
    BY <2>1 DEF OpToRel
  <2>3. ~(k < i)
    BY <1>3, <2>2
  <2> QED
    BY <2>1, <2>3
<1>5. First(S) \in S
  BY <1>4 DEF First
<1> DEFINE T == {n - k : k \in S}
<1>6. T \in SUBSET Nat /\ T # {}
  BY <1>1
<1>7. PICK m \in T : \A k \in T : ~(<<k, m>> \in OpToRel(<, Nat))
  BY <1>6, NatLessThanWellFounded, WFMin
<1>8. PICK l \in S : m = n - l
  BY <1>7
<1>9. ASSUME NEW k \in S PROVE k <= l
  <2>1. n - k \in T /\ n - k \in Nat /\ n - l \in Nat /\ k \in Nat /\ l \in Nat
    BY <1>1
  <2>2. <<n - k, n - l>> \in OpToRel(<, Nat) <=> n - k < n - l
    BY <2>1 DEF OpToRel
  <2>3. ~(n - k < n - l)
    BY <1>7, <1>8, <2>1, <2>2
  <2> QED
    BY <2>1, <2>3
<1>10. Latest(S) \in S
  BY <1>9 DEF Latest
<1> QED
  BY <1>5, <1>10

\* Operations are records of their type.
LEMMA ExamTypes ==
    ASSUME TypeOK
    PROVE  /\ \A q \in Staff : op[q] \in Ops
           /\ \A o \in Ops : /\ o.do \in Kinds /\ o.slot \in Slots \cup {0} /\ o.req \in Requests \cup {0}
                             /\ o.win \in Windows \cup {0} /\ o.live \in SUBSET Slots /\ o.to \in Statuses
           /\ Idle \in Ops /\ Idle.do = "idle" /\ Idle.req = 0
           /\ 0 \notin Slots /\ 0 \notin Requests /\ 0 \notin Windows
           /\ slot \in [Slots -> SlotStatuses] /\ window \in [Slots -> Windows]
           /\ request \in [Requests -> RequestStatuses] /\ cause \in [Slots -> Causes]
           /\ job \in [Slots -> Windows \cup {0}] /\ run \in [Slots -> Steps] /\ due \in [Slots -> Windows \cup {0}]
           /\ now \in Nat /\ Windows \subseteq Nat
<1>1. \A o \in Ops : /\ o.do \in Kinds /\ o.slot \in Slots \cup {0} /\ o.req \in Requests \cup {0}
                     /\ o.win \in Windows \cup {0} /\ o.live \in SUBSET Slots /\ o.to \in Statuses
  BY DEF Ops
<1>2. Idle \in Ops /\ Idle.do = "idle" /\ Idle.req = 0
  BY DEF Ops, Idle, Kinds, Statuses
<1>3. 0 \notin Slots /\ 0 \notin Requests /\ 0 \notin Windows /\ Windows \subseteq Nat /\ now \in Nat
  BY BoundsAssumption DEF Slots, Requests, Windows, TypeOK
<1> QED
  BY <1>1, <1>2, <1>3 DEF TypeOK

\* One member of the staff goes on.
LEMMA MovesOn ==
    ASSUME TypeOK, NEW p \in Staff, NEW o \in Ops, Begin(p, o) \/ Goto(p, o)
    PROVE  /\ op'[p] = o /\ \A q \in Staff \ {p} : op'[q] = op[q]
           /\ op' \in [Staff -> Ops] /\ left' \in 0 .. MaxOperations
<1>1. op \in [Staff -> Ops] /\ left \in 0 .. MaxOperations /\ MaxOperations \in Nat
  BY BoundsAssumption DEF TypeOK
<1>2. op' = [op EXCEPT ![p] = o]
  BY DEF Begin, Goto
<1>3. left' \in 0 .. MaxOperations
  <2>1. CASE Begin(p, o)
    BY <1>1, <2>1 DEF Begin
  <2>2. CASE Goto(p, o)
    BY <1>1, <2>2 DEF Goto
  <2> QED
    BY <2>1, <2>2
<1> QED
  BY <1>1, <1>2, <1>3

\* Slots and requests that a step leaves alone
LEMMA SlotsRest ==
    ASSUME TypeOK, UNCHANGED <<slotVars, cause>>, NEW o
    PROVE  SlotsMove(o)
BY ExamTypes DEF SlotsMove, slotVars, ComesBack, Live, SlotStatuses

LEMMA RequestsRest ==
    ASSUME ExamInv, UNCHANGED requestVars, NEW p \in Staff, NEW o \in Ops, o.req \in {0, op[p].req}
    PROVE  RequestsMove(p, o)
<1>1. ApprovedIsAudited'
  BY DEF ExamInv, ApprovedIsAudited, requestVars
<1>2. /\ request \in [Requests -> RequestStatuses] /\ audit \subseteq Requests /\ swept \subseteq Requests /\ met \subseteq Requests
  BY DEF ExamInv, TypeOK
<1>3. UNCHANGED <<request, audit, swept, met>>
  BY DEF requestVars
<1>4. ASSUME o.req # 0
      PROVE  /\ o.req \in Requests /\ request[o.req] # "NONE"
             /\ request[o.req] # "PENDING" => o.req \in met
             /\ \A q \in Staff \ {p} : op[q].req = o.req => o.req \in met
  BY <1>4, ExamTypes DEF ExamInv, InHand, Meetings
<1> QED
  BY <1>1, <1>2, <1>3, <1>4 DEF RequestsMove

\* A request is inserted.
LEMMA RequestsGrow ==
    ASSUME ExamInv, NewRequest, NEW p \in Staff, NEW o \in Ops, o.req \in {0, op[p].req}
    PROVE  RequestsMove(p, o)
<1> DEFINE r == First(FreeRequests)
<1>1. /\ request' = [request EXCEPT ![r] = "PENDING"] /\ UNCHANGED <<audit, swept, met>> /\ FreeRequests # {}
  BY DEF NewRequest
<1>2. /\ request \in [Requests -> RequestStatuses] /\ audit \subseteq Requests /\ swept \subseteq Requests /\ met \subseteq Requests
  BY DEF ExamInv, TypeOK
<1>3. r \in Requests /\ request[r] = "NONE"
  <2>1. FreeRequests \subseteq 1 .. MaxRequests /\ MaxRequests \in Nat
    BY BoundsAssumption DEF FreeRequests, Requests
  <2>2. r \in FreeRequests
    BY <1>1, <2>1, LatestAndFirst
  <2> QED
    BY <2>2 DEF FreeRequests
<1> HIDE DEF r
<1>4. /\ request' \in [Requests -> RequestStatuses] /\ request'[r] = "PENDING"
      /\ \A k \in Requests \ {r} : request'[k] = request[k]
  BY <1>1, <1>2, <1>3 DEF RequestStatuses
<1>5. ApprovedIsAudited'
  BY <1>1, <1>4 DEF ExamInv, ApprovedIsAudited
<1>6. ASSUME o.req # 0
      PROVE  /\ o.req \in Requests /\ request[o.req] # "NONE"
             /\ request[o.req] # "PENDING" => o.req \in met
             /\ \A q \in Staff \ {p} : op[q].req = o.req => o.req \in met
  BY <1>6, ExamTypes DEF ExamInv, InHand, Meetings
<1>7. \A k \in Requests : request[k] # "NONE" => request'[k] = request[k]
  BY <1>3, <1>4
<1> QED
  BY <1>1, <1>2, <1>4, <1>5, <1>6, <1>7 DEF RequestsMove

\* An activation sweeps the requests up.
LEMMA RequestsSwept ==
    ASSUME ExamInv, Sweep, NEW p \in Staff, NEW o \in Ops, o.req \in {0, op[p].req}
    PROVE  RequestsMove(p, o)
<1> DEFINE pending == {k \in Requests : request[k] = "PENDING"}
<1>1. /\ request' = [k \in Requests |-> IF k \in pending THEN "APPROVED" ELSE request[k]]
      /\ swept' = swept \cup pending /\ audit' = audit
      /\ met' = met \cup {k \in Requests : \E q \in Staff : op[q].req = k}
  BY DEF Sweep
<1>2. /\ request \in [Requests -> RequestStatuses] /\ audit \subseteq Requests /\ swept \subseteq Requests /\ met \subseteq Requests
  BY DEF ExamInv, TypeOK
<1>3. request' \in [Requests -> RequestStatuses] /\ swept' \subseteq Requests /\ met \subseteq met' /\ met' \subseteq Requests
  BY <1>1, <1>2 DEF RequestStatuses
<1>4. \A k \in Requests : request[k] # "NONE" => request'[k] # "NONE"
  BY <1>1
<1>5. \A k \in Requests : Decided(k) => request'[k] = request[k]
  BY <1>1 DEF Decided
<1>6. \A k \in Requests : (\E q \in Staff : op[q].req = k) => k \in met'
  BY <1>1
<1>7. o.req # 0 => o.req \in Requests /\ o.req \in met' /\ request[o.req] # "NONE"
  BY <1>6, ExamTypes DEF ExamInv, InHand
<1>8. ApprovedIsAudited'
  BY <1>1 DEF ExamInv, ApprovedIsAudited
<1> QED
  BY <1>1, <1>2, <1>3, <1>4, <1>5, <1>6, <1>7, <1>8 DEF RequestsMove

\* A review decides its request.
LEMMA RequestsDecided ==
    ASSUME ExamInv, NEW p \in Staff, op[p].do \in Reviewing, NEW d \in {"APPROVED", "REJECTED", "CANCELLED"},
           request' = [request EXCEPT ![op[p].req] = d], UNCHANGED <<swept, met>>,
           audit' = audit \/ audit' = audit \cup {op[p].req},
           d = "APPROVED" => audit' = audit \cup {op[p].req}
    PROVE  RequestsMove(p, Idle)
<1> DEFINE r == op[p].req
<1>1. r \in Requests /\ request[r] # "NONE" /\ (request[r] # "PENDING" => r \in met) /\ r # 0
  BY ExamTypes DEF ExamInv, InHand
<1>2. /\ request \in [Requests -> RequestStatuses] /\ audit \subseteq Requests /\ swept \subseteq Requests /\ met \subseteq Requests
  BY DEF ExamInv, TypeOK
<1>3. \A q \in Staff \ {p} : op[q].req = r => r \in met
  BY <1>1 DEF ExamInv, Meetings
<1> HIDE DEF r
<1>4. /\ request' \in [Requests -> RequestStatuses] /\ request'[r] = d
      /\ \A k \in Requests \ {r} : request'[k] = request[k]
      /\ audit' \subseteq Requests /\ audit \subseteq audit' /\ (d = "APPROVED" => r \in audit')
  BY <1>1, <1>2 DEF RequestStatuses, r
<1>5. ApprovedIsAudited'
  BY <1>4 DEF ExamInv, ApprovedIsAudited
<1>6. Idle.req = 0
  BY ExamTypes DEF ExamInv
<1>7. Decided(r) => r \in met
  BY <1>1 DEF Decided
<1> QED
  BY <1>1, <1>2, <1>3, <1>4, <1>5, <1>6, <1>7 DEF RequestsMove

\* A step of the staff keeps the invariant.
LEMMA OperationKeeps ==
    ASSUME ExamInv, NEW p \in Staff, NEW o \in Ops, Begin(p, o) \/ Goto(p, o), op[p].do \notin {"enqueue", "requeue"},
           UNCHANGED <<mock, lingering, generation, job, workerVars, now>>,
           status' \in Statuses, paper' \in BOOLEAN, version' \in BOOLEAN, cache' \in BOOLEAN,
           SlotsMove(o), RequestsMove(p, o), Fit(o)
    PROVE  ExamInv' /\ Promised
<1> USE DEF ExamInv
<1>1. /\ op'[p] = o /\ \A q \in Staff \ {p} : op'[q] = op[q]
      /\ op' \in [Staff -> Ops] /\ left' \in 0 .. MaxOperations
  BY MovesOn
<1>2. UNCHANGED <<run, due, lock, stalled>>
  BY DEF workerVars
<1>3. TypeOK'
  BY <1>1, <1>2 DEF TypeOK, SlotsMove, RequestsMove
<1>4. ASSUME NEW q \in Staff PROVE InHand(op[q])' 
  <2>1. CASE q = p
    BY <1>1, <2>1 DEF InHand, Fit, RequestsMove
  <2>2. CASE q # p
    <3>1. op'[q] = op[q] /\ op[q] \in Ops /\ InHand(op[q]) /\ (op[q].req # 0 => op[q].req \in Requests)
      BY <1>1, <2>2, ExamTypes
    <3> QED
      BY <2>2, <3>1 DEF InHand, SlotsMove, RequestsMove
  <2> QED
    BY <2>1, <2>2
<1>5. Meetings'
  <2>1. ASSUME NEW d \in Staff, NEW q \in Staff, d # q, op'[d].req = op'[q].req, op'[d].req # 0
        PROVE  op'[d].req \in met'
    <3>1. CASE d # p /\ q # p
      BY <1>1, <2>1, <3>1 DEF Meetings, RequestsMove
    <3>2. CASE d = p \/ q = p
      BY <1>1, <2>1, <3>2 DEF RequestsMove
    <3> QED
      BY <3>1, <3>2
  <2> QED
    BY <2>1 DEF Meetings
<1>6. ASSUME NEW s \in Slots PROVE Watched(s)'
  <2>1. \A q \in Staff : QueuesFor(q, s) => QueuesFor(q, s)'
    BY <1>1 DEF QueuesFor
  <2>2. Watched(s) /\ (slot[s] # "NONE" => slot'[s] # "NONE")
    BY DEF SlotsMove
  <2>3. CASE slot'[s] \notin {"SCHEDULED", "ACTIVE"}
    BY <1>2, <2>2, <2>3 DEF Watched, Live
  <2>4. CASE cause'[s] # "none"
    BY <1>2, <2>2, <2>4 DEF Watched, Live
  <2>5. CASE Live(s) /\ cause'[s] = cause[s]
    BY <1>2, <2>1, <2>2, <2>5 DEF Watched, Live
  <2>6. CASE slot[s] = "NONE" /\ o.do = "enqueue" /\ o.slot = s
    <3>1. QueuesFor(p, s)'
      BY <1>1, <2>6 DEF QueuesFor
    <3>2. job[s] = 0 /\ run[s] = "off"
      BY <2>2, <2>6 DEF Watched
    <3> QED
      BY <1>2, <3>1, <3>2 DEF Watched
  <2> QED
    BY <2>3, <2>4, <2>5, <2>6 DEF SlotsMove
<1>7. Promised
  <2>1. DecidedOnce
    BY DEF DecidedOnce, RequestsMove, Decided
  <2>2. ASSUME NEW s \in Slots PROVE OnTime(s) /\ ComesBack(s)
    BY <1>2 DEF OnTime, SlotsMove
  <2> QED
    BY <2>1, <2>2 DEF Promised
<1>8. ApprovedIsAudited'
  BY DEF RequestsMove
<1> QED
  BY <1>3, <1>4, <1>5, <1>6, <1>7, <1>8

-----------------------------------------------------------------------------
(* The operations of the staff *)

\* An operation that leaves slots and requests alone goes on with o.
Quietly(p, o) ==
    /\ o \in Ops /\ o.req \in {0, op[p].req} /\ Fit(o)
    /\ Begin(p, o) \/ Goto(p, o)
    /\ op[p].do \notin {"enqueue", "requeue"}
    /\ UNCHANGED <<mock, lingering, generation, job, workerVars, now, slotVars, requestVars, cause>>
    /\ status' \in Statuses /\ paper' \in BOOLEAN /\ version' \in BOOLEAN /\ cache' \in BOOLEAN

LEMMA QuietlyKeeps ==
    ASSUME ExamInv, NEW p \in Staff, NEW o \in Ops, Quietly(p, o)
    PROVE  ExamInv' /\ Promised
<1>1. SlotsMove(o)
  <2>1. TypeOK /\ UNCHANGED <<slotVars, cause>>
    BY DEF Quietly, ExamInv
  <2> QED
    BY <2>1, SlotsRest
<1>2. RequestsMove(p, o)
  BY RequestsRest DEF Quietly
<1> QED
  BY <1>1, <1>2, OperationKeeps DEF Quietly

\* An operation that writes a status is of its type.
LEMMA NewStatusOperation ==
    ASSUME NEW k \in Kinds, NEW t \in Statuses
    PROVE  /\ [Idle EXCEPT !.do = k, !.to = t] \in Ops
           /\ [Idle EXCEPT !.do = k, !.to = t].do = k /\ [Idle EXCEPT !.do = k, !.to = t].req = 0
<1>1. Idle \in Ops /\ Idle.req = 0
  BY DEF Idle, Ops, Kinds, Statuses
<1> QED
  BY <1>1 DEF Ops

\* The rows and flags of the exam have their types.
LEMMA ExamRows ==
    ASSUME TypeOK
    PROVE  /\ status \in Statuses /\ mock \in BOOLEAN /\ paper \in BOOLEAN /\ version \in BOOLEAN
           /\ cache \in BOOLEAN /\ LiveSlots \subseteq Slots /\ ActiveSlots \subseteq Slots
BY DEF TypeOK, LiveSlots, ActiveSlots

LEMMA SubmitReadKeeps ==
    ASSUME ExamInv, NEW p \in Staff, SubmitRead(p)
    PROVE  ExamInv' /\ Promised
<1> DEFINE o == [Idle EXCEPT !.do = "submit"]
<1>1. o \in Ops /\ o.req \in {0, op[p].req} /\ Fit(o)
  BY ExamTypes, ExamRows DEF ExamInv, SubmitRead, Ops, Idle, Kinds, Statuses, Fit, OnWindow, OnSlot, Reviewing
<1>2. status' \in Statuses /\ paper' \in BOOLEAN /\ version' \in BOOLEAN /\ cache' \in BOOLEAN
  BY ExamRows DEF ExamInv, SubmitRead, examVars, Statuses
<1>3. Begin(p, o) /\ op[p].do \notin {"enqueue", "requeue"}
  BY DEF SubmitRead, Begin, Idle
<1> QED
  BY <1>1, <1>2, <1>3, QuietlyKeeps DEF Quietly, SubmitRead, examVars

LEMMA ApproveReadKeeps ==
    ASSUME ExamInv, NEW p \in Staff, ApproveRead(p)
    PROVE  ExamInv' /\ Promised
<1> DEFINE o == [Idle EXCEPT !.do = "setStatus", !.to = "APPROVED"]
<1>1. o \in Ops /\ o.req \in {0, op[p].req} /\ Fit(o)
  <2>1. "setStatus" \in Kinds /\ "APPROVED" \in Statuses /\ TypeOK
    BY DEF Kinds, Statuses, ExamInv
  <2>2. o \in Ops /\ o.do = "setStatus" /\ o.req = 0
    BY <2>1, NewStatusOperation
  <2> QED
    BY <2>2 DEF Fit, OnWindow, OnSlot, Reviewing
<1>2. status' \in Statuses /\ paper' \in BOOLEAN /\ version' \in BOOLEAN /\ cache' \in BOOLEAN
  BY ExamRows DEF ExamInv, ApproveRead, examVars, Statuses
<1>3. Begin(p, o) /\ op[p].do \notin {"enqueue", "requeue"}
  BY DEF ApproveRead, Begin, Idle
<1> QED
  BY <1>1, <1>2, <1>3, QuietlyKeeps DEF Quietly, ApproveRead, examVars

LEMMA RejectReadKeeps ==
    ASSUME ExamInv, NEW p \in Staff, RejectRead(p)
    PROVE  ExamInv' /\ Promised
<1> DEFINE o == [Idle EXCEPT !.do = "setStatus", !.to = "REJECTED"]
<1>1. o \in Ops /\ o.req \in {0, op[p].req} /\ Fit(o)
  <2>1. "setStatus" \in Kinds /\ "REJECTED" \in Statuses /\ TypeOK
    BY DEF Kinds, Statuses, ExamInv
  <2>2. o \in Ops /\ o.do = "setStatus" /\ o.req = 0
    BY <2>1, NewStatusOperation
  <2> QED
    BY <2>2 DEF Fit, OnWindow, OnSlot, Reviewing
<1>2. status' \in Statuses /\ paper' \in BOOLEAN /\ version' \in BOOLEAN /\ cache' \in BOOLEAN
  BY ExamRows DEF ExamInv, RejectRead, examVars, Statuses
<1>3. Begin(p, o) /\ op[p].do \notin {"enqueue", "requeue"}
  BY DEF RejectRead, Begin, Idle
<1> QED
  BY <1>1, <1>2, <1>3, QuietlyKeeps DEF Quietly, RejectRead, examVars

LEMMA CancelReadKeeps ==
    ASSUME ExamInv, NEW p \in Staff, CancelRead(p)
    PROVE  ExamInv' /\ Promised
<1> DEFINE o == [Idle EXCEPT !.do = "cancel", !.live = LiveSlots]
<1>1. o \in Ops /\ o.req \in {0, op[p].req} /\ Fit(o)
  BY ExamTypes, ExamRows DEF ExamInv, CancelRead, Ops, Idle, Kinds, Statuses, Fit, OnWindow, OnSlot, Reviewing
<1>2. status' \in Statuses /\ paper' \in BOOLEAN /\ version' \in BOOLEAN /\ cache' \in BOOLEAN
  BY ExamRows DEF ExamInv, CancelRead, examVars, Statuses
<1>3. Begin(p, o) /\ op[p].do \notin {"enqueue", "requeue"}
  BY DEF CancelRead, Begin, Idle
<1> QED
  BY <1>1, <1>2, <1>3, QuietlyKeeps DEF Quietly, CancelRead, examVars

LEMMA EndExamReadKeeps ==
    ASSUME ExamInv, NEW p \in Staff, EndExamRead(p)
    PROVE  ExamInv' /\ Promised
<1> DEFINE o == [Idle EXCEPT !.do = "endExam", !.live = ActiveSlots]
<1>1. o \in Ops /\ o.req \in {0, op[p].req} /\ Fit(o)
  BY ExamTypes, ExamRows DEF ExamInv, EndExamRead, Ops, Idle, Kinds, Statuses, Fit, OnWindow, OnSlot, Reviewing
<1>2. status' \in Statuses /\ paper' \in BOOLEAN /\ version' \in BOOLEAN /\ cache' \in BOOLEAN
  BY ExamRows DEF ExamInv, EndExamRead, examVars, Statuses
<1>3. Begin(p, o) /\ op[p].do \notin {"enqueue", "requeue"}
  BY DEF EndExamRead, Begin, Idle
<1> QED
  BY <1>1, <1>2, <1>3, QuietlyKeeps DEF Quietly, EndExamRead, examVars

LEMMA ActivateBareReadKeeps ==
    ASSUME ExamInv, NEW p \in Staff, ActivateBareRead(p)
    PROVE  ExamInv' /\ Promised
<1> DEFINE o == [Idle EXCEPT !.do = "setStatus", !.to = "ACTIVE"]
<1>1. o \in Ops /\ o.req \in {0, op[p].req} /\ Fit(o)
  <2>1. "setStatus" \in Kinds /\ "ACTIVE" \in Statuses /\ TypeOK
    BY DEF Kinds, Statuses, ExamInv
  <2>2. o \in Ops /\ o.do = "setStatus" /\ o.req = 0
    BY <2>1, NewStatusOperation
  <2> QED
    BY <2>2 DEF Fit, OnWindow, OnSlot, Reviewing
<1>2. status' \in Statuses /\ paper' \in BOOLEAN /\ version' \in BOOLEAN /\ cache' \in BOOLEAN
  BY ExamRows DEF ExamInv, ActivateBareRead, examVars, Statuses
<1>3. Begin(p, o) /\ op[p].do \notin {"enqueue", "requeue"}
  BY DEF ActivateBareRead, Begin, Idle
<1> QED
  BY <1>1, <1>2, <1>3, QuietlyKeeps DEF Quietly, ActivateBareRead, examVars

LEMMA DeactivateReadKeeps ==
    ASSUME ExamInv, NEW p \in Staff, DeactivateRead(p)
    PROVE  ExamInv' /\ Promised
<1> DEFINE o == [Idle EXCEPT !.do = "setStatus", !.to = "ENDED"]
<1>1. o \in Ops /\ o.req \in {0, op[p].req} /\ Fit(o)
  <2>1. "setStatus" \in Kinds /\ "ENDED" \in Statuses /\ TypeOK
    BY DEF Kinds, Statuses, ExamInv
  <2>2. o \in Ops /\ o.do = "setStatus" /\ o.req = 0
    BY <2>1, NewStatusOperation
  <2> QED
    BY <2>2 DEF Fit, OnWindow, OnSlot, Reviewing
<1>2. status' \in Statuses /\ paper' \in BOOLEAN /\ version' \in BOOLEAN /\ cache' \in BOOLEAN
  BY ExamRows DEF ExamInv, DeactivateRead, examVars, Statuses
<1>3. Begin(p, o) /\ op[p].do \notin {"enqueue", "requeue"}
  BY DEF DeactivateRead, Begin, Idle
<1> QED
  BY <1>1, <1>2, <1>3, QuietlyKeeps DEF Quietly, DeactivateRead, examVars

LEMMA RequestSubmitReadKeeps ==
    ASSUME ExamInv, NEW p \in Staff, RequestSubmitRead(p)
    PROVE  ExamInv' /\ Promised
<1> DEFINE o == [Idle EXCEPT !.do = "requestSubmit"]
<1>1. o \in Ops /\ o.req \in {0, op[p].req} /\ Fit(o)
  BY ExamTypes, ExamRows DEF ExamInv, RequestSubmitRead, Ops, Idle, Kinds, Statuses, Fit, OnWindow, OnSlot, Reviewing
<1>2. status' \in Statuses /\ paper' \in BOOLEAN /\ version' \in BOOLEAN /\ cache' \in BOOLEAN
  BY ExamRows DEF ExamInv, RequestSubmitRead, examVars, Statuses
<1>3. Begin(p, o) /\ op[p].do \notin {"enqueue", "requeue"}
  BY DEF RequestSubmitRead, Begin, Idle
<1> QED
  BY <1>1, <1>2, <1>3, QuietlyKeeps DEF Quietly, RequestSubmitRead, examVars

LEMMA ScheduleReadKeeps ==
    ASSUME ExamInv, NEW p \in Staff, NEW w \in Windows, ScheduleRead(p, w)
    PROVE  ExamInv' /\ Promised
<1> DEFINE o == [Idle EXCEPT !.do = "schedule", !.win = w]
<1>1. o \in Ops /\ o.req \in {0, op[p].req} /\ Fit(o)
  BY ExamTypes, ExamRows DEF ExamInv, ScheduleRead, Ops, Idle, Kinds, Statuses, Fit, OnWindow, OnSlot, Reviewing
<1>2. status' \in Statuses /\ paper' \in BOOLEAN /\ version' \in BOOLEAN /\ cache' \in BOOLEAN
  BY ExamRows DEF ExamInv, ScheduleRead, examVars, Statuses
<1>3. Begin(p, o) /\ op[p].do \notin {"enqueue", "requeue"}
  BY DEF ScheduleRead, Begin, Idle
<1> QED
  BY <1>1, <1>2, <1>3, QuietlyKeeps DEF Quietly, ScheduleRead, examVars

LEMMA RescheduleReadKeeps ==
    ASSUME ExamInv, NEW p \in Staff, NEW s \in Slots, NEW w \in Windows, RescheduleRead(p, s, w)
    PROVE  ExamInv' /\ Promised
<1> DEFINE o == [Idle EXCEPT !.do = "reschedule", !.slot = s, !.win = w]
<1>1. o \in Ops /\ o.req \in {0, op[p].req} /\ Fit(o)
  <2>1. "reschedule" \in Kinds /\ TypeOK /\ s \in Slots \cup {0} /\ w \in Windows \cup {0}
    BY DEF Kinds, ExamInv
  <2>2. o \in Ops /\ o.do = "reschedule" /\ o.req = 0 /\ o.slot = s /\ o.win = w
    BY <2>1, ExamTypes DEF Ops
  <2>3. slot'[s] = "SCHEDULED"
    BY DEF RescheduleRead, slotVars
  <2> QED
    BY <2>2, <2>3 DEF Fit, OnWindow, OnSlot, Reviewing
<1>2. status' \in Statuses /\ paper' \in BOOLEAN /\ version' \in BOOLEAN /\ cache' \in BOOLEAN
  BY ExamRows DEF ExamInv, RescheduleRead, examVars, Statuses
<1>3. Begin(p, o) /\ op[p].do \notin {"enqueue", "requeue"}
  BY DEF RescheduleRead, Begin, Idle
<1> QED
  BY <1>1, <1>2, <1>3, QuietlyKeeps DEF Quietly, RescheduleRead, examVars

LEMMA ActivateReadKeeps ==
    ASSUME ExamInv, NEW p \in Staff, NEW s \in Slots, ActivateRead(p, s)
    PROVE  ExamInv' /\ Promised
<1> DEFINE o == [Idle EXCEPT !.do = "activate", !.slot = s]
<1>1. o \in Ops /\ o.req \in {0, op[p].req} /\ Fit(o)
  BY ExamTypes, ExamRows DEF ExamInv, ActivateRead, Ops, Idle, Kinds, Statuses, Fit, OnWindow, OnSlot, Reviewing, slotVars
<1>2. status' \in Statuses /\ paper' \in BOOLEAN /\ version' \in BOOLEAN /\ cache' \in BOOLEAN
  BY ExamRows DEF ExamInv, ActivateRead, examVars, Statuses
<1>3. Begin(p, o) /\ op[p].do \notin {"enqueue", "requeue"}
  BY DEF ActivateRead, Begin, Idle
<1> QED
  BY <1>1, <1>2, <1>3, QuietlyKeeps DEF Quietly, ActivateRead, examVars

LEMMA ChooseQuestionsReadKeeps ==
    ASSUME ExamInv, NEW p \in Staff, ChooseQuestionsRead(p)
    PROVE  ExamInv' /\ Promised
<1> DEFINE o == [Idle EXCEPT !.do = IF paper THEN "clearPaper" ELSE "fillPaper"]
<1>1. o \in Ops /\ o.req \in {0, op[p].req} /\ Fit(o)
  BY ExamTypes, ExamRows DEF ExamInv, ChooseQuestionsRead, Ops, Idle, Kinds, Statuses, Fit, OnWindow, OnSlot, Reviewing
<1>2. status' \in Statuses /\ paper' \in BOOLEAN /\ version' \in BOOLEAN /\ cache' \in BOOLEAN
  BY ExamRows DEF ExamInv, ChooseQuestionsRead, examVars, Statuses
<1>3. Begin(p, o) /\ op[p].do \notin {"enqueue", "requeue"}
  BY DEF ChooseQuestionsRead, Begin, Idle
<1> QED
  BY <1>1, <1>2, <1>3, QuietlyKeeps DEF Quietly, ChooseQuestionsRead, examVars

LEMMA SetStatusKeeps ==
    ASSUME ExamInv, NEW p \in Staff, SetStatus(p)
    PROVE  ExamInv' /\ Promised
<1> DEFINE o == Idle
<1>1. o \in Ops /\ o.req \in {0, op[p].req} /\ Fit(o)
  BY ExamTypes, ExamRows DEF ExamInv, SetStatus, Ops, Idle, Kinds, Statuses, Fit, OnWindow, OnSlot, Reviewing
<1>2. status' \in Statuses /\ paper' \in BOOLEAN /\ version' \in BOOLEAN /\ cache' \in BOOLEAN
  BY ExamRows, ExamTypes DEF ExamInv, SetStatus, examVars
<1>3. Goto(p, o) /\ op[p].do \notin {"enqueue", "requeue"}
  BY DEF SetStatus, Finish
<1> QED
  BY <1>1, <1>2, <1>3, QuietlyKeeps DEF Quietly, SetStatus, examVars

LEMMA InvalidateKeeps ==
    ASSUME ExamInv, NEW p \in Staff, Invalidate(p)
    PROVE  ExamInv' /\ Promised
<1> DEFINE o == Idle
<1>1. o \in Ops /\ o.req \in {0, op[p].req} /\ Fit(o)
  BY ExamTypes, ExamRows DEF ExamInv, Invalidate, Ops, Idle, Kinds, Statuses, Fit, OnWindow, OnSlot, Reviewing
<1>2. status' \in Statuses /\ paper' \in BOOLEAN /\ version' \in BOOLEAN /\ cache' \in BOOLEAN
  BY ExamRows DEF ExamInv, Invalidate, examVars, Statuses
<1>3. Goto(p, o) /\ op[p].do \notin {"enqueue", "requeue"}
  BY DEF Invalidate, Finish
<1> QED
  BY <1>1, <1>2, <1>3, QuietlyKeeps DEF Quietly, Invalidate, examVars

LEMMA ClearPaperKeeps ==
    ASSUME ExamInv, NEW p \in Staff, ClearPaper(p)
    PROVE  ExamInv' /\ Promised
<1> DEFINE o == [Idle EXCEPT !.do = "fillPaper"]
<1>1. o \in Ops /\ o.req \in {0, op[p].req} /\ Fit(o)
  BY ExamTypes, ExamRows DEF ExamInv, ClearPaper, Ops, Idle, Kinds, Statuses, Fit, OnWindow, OnSlot, Reviewing
<1>2. status' \in Statuses /\ paper' \in BOOLEAN /\ version' \in BOOLEAN /\ cache' \in BOOLEAN
  BY ExamRows DEF ExamInv, ClearPaper, examVars, Statuses
<1>3. Goto(p, o) /\ op[p].do \notin {"enqueue", "requeue"}
  BY DEF ClearPaper, Finish
<1> QED
  BY <1>1, <1>2, <1>3, QuietlyKeeps DEF Quietly, ClearPaper, examVars

LEMMA FillPaperKeeps ==
    ASSUME ExamInv, NEW p \in Staff, FillPaper(p)
    PROVE  ExamInv' /\ Promised
<1> DEFINE o == Idle
<1>1. o \in Ops /\ o.req \in {0, op[p].req} /\ Fit(o)
  BY ExamTypes, ExamRows DEF ExamInv, FillPaper, Ops, Idle, Kinds, Statuses, Fit, OnWindow, OnSlot, Reviewing
<1>2. status' \in Statuses /\ paper' \in BOOLEAN /\ version' \in BOOLEAN /\ cache' \in BOOLEAN
  BY ExamRows DEF ExamInv, FillPaper, examVars, Statuses
<1>3. Goto(p, o) /\ op[p].do \notin {"enqueue", "requeue"}
  BY DEF FillPaper, Finish
<1> QED
  BY <1>1, <1>2, <1>3, QuietlyKeeps DEF Quietly, FillPaper, examVars

LEMMA RollBackKeeps ==
    ASSUME ExamInv, NEW p \in Staff, RollBack(p)
    PROVE  ExamInv' /\ Promised
<1> DEFINE o == Idle
<1>1. o \in Ops /\ o.req \in {0, op[p].req} /\ Fit(o)
  BY ExamTypes, ExamRows DEF ExamInv, RollBack, Ops, Idle, Kinds, Statuses, Fit, OnWindow, OnSlot, Reviewing
<1>2. status' \in Statuses /\ paper' \in BOOLEAN /\ version' \in BOOLEAN /\ cache' \in BOOLEAN
  BY ExamRows DEF ExamInv, RollBack, examVars, Statuses
<1>3. Goto(p, o) /\ op[p].do \notin {"enqueue", "requeue"}
  BY DEF RollBack, Finish
<1> QED
  BY <1>1, <1>2, <1>3, QuietlyKeeps DEF Quietly, RollBack, examVars

\* The older endpoints
LEMMA OlderReadKeeps ==
    ASSUME ExamInv, NEW p \in Staff, OlderRead(p)
    PROVE  ExamInv' /\ Promised
<1>1. PICK to \in Statuses : Begin(p, [Idle EXCEPT !.do = "setStatus", !.to = to])
  BY DEF OlderRead
<1> DEFINE o == [Idle EXCEPT !.do = "setStatus", !.to = to]
<1>2. o \in Ops /\ o.req \in {0, op[p].req} /\ Fit(o)
  <2>1. "setStatus" \in Kinds
    BY DEF Kinds
  <2>2. o \in Ops /\ o.do = "setStatus" /\ o.req = 0
    BY <2>1, NewStatusOperation
  <2> QED
    BY <2>2 DEF Fit, OnWindow, OnSlot, Reviewing
<1>3. status' \in Statuses /\ paper' \in BOOLEAN /\ version' \in BOOLEAN /\ cache' \in BOOLEAN
  BY ExamRows DEF ExamInv, OlderRead, examVars
<1>4. op[p].do \notin {"enqueue", "requeue"}
  BY <1>1 DEF Begin, Idle
<1> HIDE DEF o
<1>5. UNCHANGED <<mock, lingering, generation, job, workerVars, now, slotVars, requestVars, cause>>
  BY DEF OlderRead, examVars
<1>6. Begin(p, o)
  BY <1>1 DEF o
<1> QED
  BY <1>2, <1>3, <1>4, <1>5, <1>6, QuietlyKeeps DEF Quietly

\* The last live slot is live.
LEMMA LatestIsLive ==
    ASSUME LiveSlots # {}
    PROVE  Latest(LiveSlots) \in Slots /\ Live(Latest(LiveSlots))
<1>1. LiveSlots \in SUBSET (1 .. MaxSlots) /\ MaxSlots \in Nat
  BY BoundsAssumption DEF LiveSlots, Slots
<1> QED
  BY <1>1, LatestAndFirst DEF LiveSlots

LEMMA LifecycleActivateReadKeeps ==
    ASSUME ExamInv, NEW p \in Staff, LifecycleActivateRead(p)
    PROVE  ExamInv' /\ Promised
<1> DEFINE l == Latest(LiveSlots)
           m == {s \in LiveSlots : slot[s] = "ACTIVE"}
           o == [Idle EXCEPT !.do = "lifecycleActivate", !.slot = l, !.live = m]
<1>1. l \in Slots /\ Live(l) /\ m \in SUBSET Slots
  BY LatestIsLive DEF LifecycleActivateRead, LiveSlots
<1>2. Begin(p, o) /\ op[p].do \notin {"enqueue", "requeue"}
  BY DEF LifecycleActivateRead, Begin, Idle
<1> HIDE DEF l, m
<1>3. o \in Ops /\ o.do = "lifecycleActivate" /\ o.req = 0 /\ o.slot = l
  <2>1. "lifecycleActivate" \in Kinds
    BY DEF Kinds
  <2> QED
    BY <1>1, <2>1, ExamTypes DEF Ops, ExamInv
<1>4. Fit(o)
  <2>1. UNCHANGED slot
    BY DEF LifecycleActivateRead, slotVars
  <2> QED
    BY <1>1, <1>3, <2>1 DEF Fit, OnWindow, OnSlot, Reviewing, Live
<1> HIDE DEF o
<1>5. status' \in Statuses /\ paper' \in BOOLEAN /\ version' \in BOOLEAN /\ cache' \in BOOLEAN
  BY ExamRows DEF ExamInv, LifecycleActivateRead, examVars
<1>6. UNCHANGED <<mock, lingering, generation, job, workerVars, now, slotVars, requestVars, cause>>
  BY DEF LifecycleActivateRead, examVars
<1> QED
  BY <1>2, <1>3, <1>4, <1>5, <1>6, QuietlyKeeps DEF Quietly

\* A slot is sought that overlaps.
LEMMA ScheduleCheckKeeps ==
    ASSUME ExamInv, NEW p \in Staff, ScheduleCheck(p)
    PROVE  ExamInv' /\ Promised
<1>1. status' \in Statuses /\ paper' \in BOOLEAN /\ version' \in BOOLEAN /\ cache' \in BOOLEAN
  BY ExamRows DEF ExamInv, ScheduleCheck, examVars
<1>2. /\ op[p].do \notin {"enqueue", "requeue"}
      /\ UNCHANGED <<mock, lingering, generation, job, workerVars, now, slotVars, requestVars, cause>>
  BY DEF ScheduleCheck, examVars
<1>3. CASE Goto(p, Idle)
  <2>1. Idle \in Ops /\ Idle.req = 0 /\ Fit(Idle)
    BY ExamTypes DEF ExamInv, Fit, OnWindow, OnSlot, Reviewing
  <2> QED
    BY <1>1, <1>2, <1>3, <2>1, QuietlyKeeps DEF Quietly
<1>4. CASE Goto(p, [op[p] EXCEPT !.do = "insert"])
  <2> DEFINE o == [op[p] EXCEPT !.do = "insert"]
  <2>1. op[p] \in Ops /\ op[p].do = "schedule" /\ "insert" \in Kinds
    BY ExamTypes DEF ExamInv, ScheduleCheck, Kinds
  <2>2. op[p].win \in Windows
    BY <2>1 DEF ExamInv, InHand, OnWindow
  <2>3. o \in Ops /\ o.do = "insert" /\ o.req = op[p].req /\ o.win \in Windows
    BY <2>1, <2>2 DEF Ops
  <2>4. Fit(o)
    BY <2>3 DEF Fit, OnWindow, OnSlot, Reviewing
  <2> HIDE DEF o
  <2>5. Goto(p, o)
    BY <1>4 DEF o
  <2> QED
    BY <1>1, <1>2, <2>3, <2>4, <2>5, QuietlyKeeps DEF Quietly
<1> QED
  BY <1>3, <1>4 DEF ScheduleCheck, Finish

\* An approval finds out what it is going to do.
LEMMA HandleApproveKeeps ==
    ASSUME ExamInv, NEW p \in Staff, HandleApprove(p)
    PROVE  ExamInv' /\ Promised
<1>1. status' \in Statuses /\ paper' \in BOOLEAN /\ version' \in BOOLEAN /\ cache' \in BOOLEAN
  BY ExamRows DEF ExamInv, HandleApprove, examVars
<1>2. /\ op[p].do = "requestApprove" /\ UNCHANGED slot
      /\ UNCHANGED <<mock, lingering, generation, job, workerVars, now, slotVars, requestVars, cause>>
  BY DEF HandleApprove, examVars, slotVars
<1>3. op[p] \in Ops /\ op[p].req \in Requests
  BY <1>2, ExamTypes DEF ExamInv, InHand, Reviewing
<1>4. ASSUME NEW o \in Ops, Goto(p, o), o.req \in {0, op[p].req}, Fit(o) PROVE ExamInv' /\ Promised
  BY <1>1, <1>2, <1>4, QuietlyKeeps DEF Quietly
<1>5. CASE Goto(p, Idle)
  <2>1. Idle \in Ops /\ Idle.req = 0 /\ Fit(Idle)
    BY ExamTypes DEF ExamInv, Fit, OnWindow, OnSlot, Reviewing
  <2> QED
    BY <1>4, <1>5, <2>1
<1>6. ASSUME NEW s \in Slots, slot[s] # "NONE", NEW k \in {"handled", "commitApprove"},
             Goto(p, [op[p] EXCEPT !.do = k, !.slot = s])
      PROVE  ExamInv' /\ Promised
  <2> DEFINE o == [op[p] EXCEPT !.do = k, !.slot = s]
  <2>1. o \in Ops /\ o.do = k /\ o.req = op[p].req /\ o.slot = s
    <3>1. k \in Kinds
      BY DEF Kinds
    <3> QED
      BY <1>3, <3>1 DEF Ops
  <2>2. Fit(o)
    BY <1>2, <1>3, <1>6, <2>1 DEF Fit, OnWindow, OnSlot, Reviewing
  <2> HIDE DEF o
  <2>3. Goto(p, o)
    BY <1>6 DEF o
  <2> QED
    BY <1>4, <2>1, <2>2, <2>3
<1>7. ASSUME NEW t \in {"ACTIVE", "APPROVED"}, Goto(p, [op[p] EXCEPT !.do = "commitApprove", !.to = t])
      PROVE  ExamInv' /\ Promised
  <2> DEFINE o == [op[p] EXCEPT !.do = "commitApprove", !.to = t]
  <2>1. o \in Ops /\ o.do = "commitApprove" /\ o.req = op[p].req
    <3>1. "commitApprove" \in Kinds /\ t \in Statuses
      BY DEF Kinds, Statuses
    <3> QED
      BY <1>3, <3>1 DEF Ops
  <2>2. Fit(o)
    BY <1>3, <2>1 DEF Fit, OnWindow, OnSlot, Reviewing
  <2> HIDE DEF o
  <2>3. Goto(p, o)
    BY <1>7 DEF o
  <2> QED
    BY <1>4, <2>1, <2>2, <2>3
<1>8. CASE LiveSlots # {}
  <2>1. Latest(LiveSlots) \in Slots /\ slot[Latest(LiveSlots)] # "NONE"
    BY <1>8, LatestIsLive DEF Live
  <2>2. \/ Goto(p, [op[p] EXCEPT !.do = "handled", !.slot = Latest(LiveSlots)])
        \/ Goto(p, [op[p] EXCEPT !.do = "commitApprove", !.slot = Latest(LiveSlots)])
        \/ Goto(p, Idle)
    BY <1>8 DEF HandleApprove, Finish
  <2> QED
    BY <1>5, <1>6, <2>1, <2>2
<1>9. CASE LiveSlots = {}
  <2>1. \/ Goto(p, Idle)
        \/ Goto(p, [op[p] EXCEPT !.do = "commitApprove", !.to = IF mock THEN "ACTIVE" ELSE "APPROVED"])
    BY <1>9 DEF HandleApprove, Finish
  <2>2. (IF mock THEN "ACTIVE" ELSE "APPROVED") \in {"ACTIVE", "APPROVED"}
    OBVIOUS
  <2> QED
    BY <1>5, <1>7, <2>1, <2>2
<1> QED
  BY <1>8, <1>9

\* Slots close, or an activation opens one.
LEMMA SlotsClose ==
    ASSUME TypeOK, window' \in [Slots -> Windows], cause' = cause, slot' \in [Slots -> SlotStatuses],
           \A s \in Slots : \/ slot'[s] = slot[s]
                            \/ Live(s) /\ slot'[s] \in {"ENDED", "CANCELLED"}
                            \/ slot'[s] = "CANCELLED" /\ status' = "CANCELLED",
           NEW o
    PROVE  SlotsMove(o)
<1>1. cause \in [Slots -> Causes]
  BY DEF TypeOK
<1>2. \A s \in Slots : ComesBack(s)
  BY DEF ComesBack, Live
<1>3. \A s \in Slots : slot[s] # "NONE" => slot'[s] # "NONE"
  BY DEF Live
<1>4. \A s \in Slots : slot'[s] \notin {"SCHEDULED", "ACTIVE"} \/ (Live(s) /\ cause'[s] = cause[s])
  BY DEF Live
<1> QED
  BY <1>1, <1>2, <1>3, <1>4 DEF SlotsMove

LEMMA SlotsActivate ==
    ASSUME TypeOK, NEW s \in Slots, slot[s] # "NONE", window' = window, status' = "ACTIVE",
           slot' = slot \/ slot' = [slot EXCEPT ![s] = "ACTIVE"],
           cause' = [cause EXCEPT ![s] = IF slot[s] \in {"ENDED", "CANCELLED"} THEN "reopened" ELSE @],
           NEW o
    PROVE  SlotsMove(o)
<1>1. cause \in [Slots -> Causes] /\ slot \in [Slots -> SlotStatuses] /\ window \in [Slots -> Windows]
  BY DEF TypeOK
<1>2. /\ slot' \in [Slots -> SlotStatuses] /\ cause' \in [Slots -> Causes]
      /\ \A k \in Slots \ {s} : slot'[k] = slot[k] /\ cause'[k] = cause[k]
      /\ slot'[s] \in {slot[s], "ACTIVE"}
      /\ slot[s] \in {"ENDED", "CANCELLED"} => cause'[s] = "reopened"
      /\ slot[s] \notin {"ENDED", "CANCELLED"} => cause'[s] = cause[s]
  BY <1>1 DEF SlotStatuses, Causes
<1>3. slot[s] \in {"SCHEDULED", "ACTIVE", "ENDED", "CANCELLED"}
  BY <1>1 DEF SlotStatuses
<1>4. \A k \in Slots : ComesBack(k)
  BY <1>2 DEF ComesBack
<1>5. \A k \in Slots : \/ slot'[k] \notin {"SCHEDULED", "ACTIVE"}
                       \/ cause'[k] # "none"
                       \/ Live(k) /\ cause'[k] = cause[k]
  BY <1>2, <1>3 DEF Live
<1> QED
  BY <1>1, <1>2, <1>4, <1>5 DEF SlotsMove

\* An operation that is over needs nothing.
LEMMA IdleIsFit ==
    ASSUME TypeOK
    PROVE  Idle \in Ops /\ Idle.req = 0 /\ Fit(Idle)
BY ExamTypes DEF Fit, OnWindow, OnSlot, Reviewing

\* A status that a step of the staff writes
LEMMA StatusWritten ==
    /\ "SUBMITTED" \in Statuses /\ "ACTIVE" \in Statuses /\ "ENDED" \in Statuses /\ "REJECTED" \in Statuses
    /\ "DRAFT" \in Statuses /\ "SCHEDULED" \in Statuses /\ "CANCELLED" \in Statuses
BY DEF Statuses

\* The submission
LEMMA SubmitKeeps ==
    ASSUME ExamInv, NEW p \in Staff, Submit(p)
    PROVE  ExamInv' /\ Promised
<1>1. TypeOK /\ op[p] \in Ops
  BY ExamTypes DEF ExamInv
<1>2. Idle \in Ops /\ Idle.req = 0 /\ Fit(Idle)
  BY <1>1, IdleIsFit
<1>3. status' \in Statuses /\ paper' \in BOOLEAN /\ version' \in BOOLEAN /\ cache' \in BOOLEAN
  BY <1>1, ExamTypes, ExamRows, StatusWritten DEF Submit, examVars
<1>4. /\ Goto(p, Idle) /\ op[p].do \notin {"enqueue", "requeue"}
      /\ UNCHANGED <<mock, lingering, generation, job, workerVars, now>>
  BY DEF Submit, Finish, examVars
<1>5. SlotsMove(Idle)
  <2>1. UNCHANGED <<slotVars, cause>>
    BY DEF Submit
  <2> QED
    BY <1>1, <2>1, SlotsRest
<1>6. RequestsMove(p, Idle)
  <2>1. NewRequest
    BY DEF Submit
  <2> QED
    BY <1>2, <2>1, RequestsGrow
<1> QED
  BY <1>2, <1>3, <1>4, <1>5, <1>6, OperationKeeps

\* A request of its own
LEMMA RequestSubmitKeeps ==
    ASSUME ExamInv, NEW p \in Staff, RequestSubmit(p)
    PROVE  ExamInv' /\ Promised
<1>1. TypeOK /\ op[p] \in Ops
  BY ExamTypes DEF ExamInv
<1>2. Idle \in Ops /\ Idle.req = 0 /\ Fit(Idle)
  BY <1>1, IdleIsFit
<1>3. status' \in Statuses /\ paper' \in BOOLEAN /\ version' \in BOOLEAN /\ cache' \in BOOLEAN
  BY <1>1, ExamTypes, ExamRows, StatusWritten DEF RequestSubmit, examVars
<1>4. /\ Goto(p, Idle) /\ op[p].do \notin {"enqueue", "requeue"}
      /\ UNCHANGED <<mock, lingering, generation, job, workerVars, now>>
  BY DEF RequestSubmit, Finish, examVars
<1>5. SlotsMove(Idle)
  <2>1. UNCHANGED <<slotVars, cause>>
    BY DEF RequestSubmit
  <2> QED
    BY <1>1, <2>1, SlotsRest
<1>6. RequestsMove(p, Idle)
  <2>1. NewRequest
    BY DEF RequestSubmit
  <2> QED
    BY <1>2, <2>1, RequestsGrow
<1> QED
  BY <1>2, <1>3, <1>4, <1>5, <1>6, OperationKeeps

\* The activation of the lifecycle service
LEMMA LifecycleActivateKeeps ==
    ASSUME ExamInv, NEW p \in Staff, LifecycleActivate(p)
    PROVE  ExamInv' /\ Promised
<1>1. TypeOK /\ op[p] \in Ops
  BY ExamTypes DEF ExamInv
<1>2. Idle \in Ops /\ Idle.req = 0 /\ Fit(Idle)
  BY <1>1, IdleIsFit
<1>3. status' \in Statuses /\ paper' \in BOOLEAN /\ version' \in BOOLEAN /\ cache' \in BOOLEAN
  BY <1>1, ExamTypes, ExamRows, StatusWritten DEF LifecycleActivate, examVars
<1>4. /\ Goto(p, Idle) /\ op[p].do \notin {"enqueue", "requeue"}
      /\ UNCHANGED <<mock, lingering, generation, job, workerVars, now>>
  BY DEF LifecycleActivate, Finish, examVars
<1>5. SlotsMove(Idle)
  <2>1. op[p].slot \in Slots /\ slot[op[p].slot] # "NONE"
    BY DEF LifecycleActivate, ExamInv, InHand, OnSlot
  <2>2. /\ window' = window /\ status' = "ACTIVE"
        /\ slot' = slot \/ slot' = [slot EXCEPT ![op[p].slot] = "ACTIVE"]
        /\ cause' = [cause EXCEPT ![op[p].slot] = IF slot[op[p].slot] \in {"ENDED", "CANCELLED"} THEN "reopened" ELSE @]
    BY <1>1, <2>1 DEF LifecycleActivate, TypeOK
  <2> QED
    BY <1>1, <2>1, <2>2, SlotsActivate
<1>6. RequestsMove(p, Idle)
  <2>1. Sweep
    BY DEF LifecycleActivate
  <2> QED
    BY <1>2, <2>1, RequestsSwept
<1> QED
  BY <1>2, <1>3, <1>4, <1>5, <1>6, OperationKeeps

\* The activation of a schedule
LEMMA ActivateKeeps ==
    ASSUME ExamInv, NEW p \in Staff, Activate(p)
    PROVE  ExamInv' /\ Promised
<1>1. TypeOK /\ op[p] \in Ops
  BY ExamTypes DEF ExamInv
<1>2. Idle \in Ops /\ Idle.req = 0 /\ Fit(Idle)
  BY <1>1, IdleIsFit
<1>3. status' \in Statuses /\ paper' \in BOOLEAN /\ version' \in BOOLEAN /\ cache' \in BOOLEAN
  BY <1>1, ExamTypes, ExamRows, StatusWritten DEF Activate, examVars, ActivateTx
<1>4. /\ Goto(p, Idle) /\ op[p].do \notin {"enqueue", "requeue"}
      /\ UNCHANGED <<mock, lingering, generation, job, workerVars, now>>
  BY DEF Activate, Finish, examVars
<1>5. SlotsMove(Idle)
  <2>1. op[p].slot \in Slots /\ slot[op[p].slot] # "NONE"
    BY DEF Activate, ExamInv, InHand, OnSlot
  <2>2. /\ window' = window /\ status' = "ACTIVE"
        /\ slot' = slot \/ slot' = [slot EXCEPT ![op[p].slot] = "ACTIVE"]
        /\ cause' = [cause EXCEPT ![op[p].slot] = IF slot[op[p].slot] \in {"ENDED", "CANCELLED"} THEN "reopened" ELSE @]
    BY <1>1, <2>1 DEF Activate, ActivateTx, TypeOK
  <2> QED
    BY <1>1, <2>1, <2>2, SlotsActivate
<1>6. RequestsMove(p, Idle)
  <2>1. Sweep
    BY DEF Activate, ActivateTx
  <2> QED
    BY <1>2, <2>1, RequestsSwept
<1> QED
  BY <1>2, <1>3, <1>4, <1>5, <1>6, OperationKeeps

\* The end of the exam
LEMMA EndExamKeeps ==
    ASSUME ExamInv, NEW p \in Staff, EndExam(p)
    PROVE  ExamInv' /\ Promised
<1>1. TypeOK /\ op[p] \in Ops
  BY ExamTypes DEF ExamInv
<1>2. Idle \in Ops /\ Idle.req = 0 /\ Fit(Idle)
  BY <1>1, IdleIsFit
<1>3. status' \in Statuses /\ paper' \in BOOLEAN /\ version' \in BOOLEAN /\ cache' \in BOOLEAN
  BY <1>1, ExamTypes, ExamRows, StatusWritten DEF EndExam, examVars, EndExamTx
<1>4. /\ Goto(p, Idle) /\ op[p].do \notin {"enqueue", "requeue"}
      /\ UNCHANGED <<mock, lingering, generation, job, workerVars, now>>
  BY DEF EndExam, Finish, examVars
<1>5. SlotsMove(Idle)
  <2>1. window' = window /\ cause' = cause /\ window \in [Slots -> Windows] /\ slot \in [Slots -> SlotStatuses]
    BY <1>1 DEF EndExam, TypeOK
  <2>2. slot' \in [Slots -> SlotStatuses]
    BY <2>1 DEF EndExam, EndExamTx, SlotStatuses
  <2>3. \A s \in Slots : slot'[s] = slot[s] \/ (Live(s) /\ slot'[s] \in {"ENDED", "CANCELLED"})
    BY DEF EndExam, EndExamTx, Live
  <2> QED
    BY <1>1, <2>1, <2>2, <2>3, SlotsClose
<1>6. RequestsMove(p, Idle)
  <2>1. UNCHANGED requestVars
    BY DEF EndExam
  <2> QED
    BY <1>2, <2>1, RequestsRest
<1> QED
  BY <1>2, <1>3, <1>4, <1>5, <1>6, OperationKeeps

\* The transactions of a review
LEMMA CommitApproveKeeps ==
    ASSUME ExamInv, NEW p \in Staff, CommitApprove(p)
    PROVE  ExamInv' /\ Promised
<1>1. TypeOK /\ op[p] \in Ops
  BY ExamTypes DEF ExamInv
<1>2. Idle \in Ops /\ Idle.req = 0 /\ Fit(Idle)
  BY <1>1, IdleIsFit
<1>3. status' \in Statuses /\ paper' \in BOOLEAN /\ version' \in BOOLEAN /\ cache' \in BOOLEAN
  BY <1>1, ExamTypes, ExamRows, StatusWritten DEF CommitApprove, examVars
<1>4. /\ Goto(p, Idle) /\ op[p].do \notin {"enqueue", "requeue"}
      /\ UNCHANGED <<mock, lingering, generation, job, workerVars, now>>
  BY DEF CommitApprove, Finish, examVars
<1>5. SlotsMove(Idle)
  <2>1. UNCHANGED <<slotVars, cause>>
    BY DEF CommitApprove
  <2> QED
    BY <1>1, <2>1, SlotsRest
<1>6. RequestsMove(p, Idle)
  <2>1. /\ request' = [request EXCEPT ![op[p].req] = "APPROVED"] /\ UNCHANGED <<swept, met>>
        /\ op[p].do \in Reviewing
        /\ audit' = audit \cup {op[p].req}
    BY DEF CommitApprove, Reviewing
  <2> QED
    BY <2>1, RequestsDecided
<1> QED
  BY <1>2, <1>3, <1>4, <1>5, <1>6, OperationKeeps

\* A rejection cancels the slots that wait.
LEMMA CommitRejectKeeps ==
    ASSUME ExamInv, NEW p \in Staff, CommitReject(p)
    PROVE  ExamInv' /\ Promised
<1>1. TypeOK /\ op[p] \in Ops
  BY ExamTypes DEF ExamInv
<1>2. Idle \in Ops /\ Idle.req = 0 /\ Fit(Idle)
  BY <1>1, IdleIsFit
<1>3. status' \in Statuses /\ paper' \in BOOLEAN /\ version' \in BOOLEAN /\ cache' \in BOOLEAN
  BY <1>1, ExamTypes, ExamRows, StatusWritten DEF CommitReject, examVars
<1>4. /\ Goto(p, Idle) /\ op[p].do \notin {"enqueue", "requeue"}
      /\ UNCHANGED <<mock, lingering, generation, job, workerVars, now>>
  BY DEF CommitReject, Finish, examVars
<1>5. SlotsMove(Idle)
  <2>1. window' = window /\ cause' = cause /\ window \in [Slots -> Windows] /\ slot \in [Slots -> SlotStatuses]
    BY <1>1 DEF CommitReject, TypeOK
  <2>2. slot' \in [Slots -> SlotStatuses]
    BY <2>1 DEF CommitReject, SlotStatuses
  <2>3. \A s \in Slots : slot'[s] = slot[s] \/ (Live(s) /\ slot'[s] \in {"ENDED", "CANCELLED"})
    BY DEF CommitReject, Live
  <2> QED
    BY <1>1, <2>1, <2>2, <2>3, SlotsClose
<1>6. RequestsMove(p, Idle)
  <2>1. /\ request' = [request EXCEPT ![op[p].req] = "REJECTED"] /\ UNCHANGED <<swept, met>>
        /\ op[p].do \in Reviewing
        /\ audit' = audit
    BY DEF CommitReject, Reviewing
  <2> QED
    BY <2>1, RequestsDecided
<1> QED
  BY <1>2, <1>3, <1>4, <1>5, <1>6, OperationKeeps

\* A cancellation of the request
LEMMA CommitCancelKeeps ==
    ASSUME ExamInv, NEW p \in Staff, CommitCancel(p)
    PROVE  ExamInv' /\ Promised
<1>1. TypeOK /\ op[p] \in Ops
  BY ExamTypes DEF ExamInv
<1>2. Idle \in Ops /\ Idle.req = 0 /\ Fit(Idle)
  BY <1>1, IdleIsFit
<1>3. status' \in Statuses /\ paper' \in BOOLEAN /\ version' \in BOOLEAN /\ cache' \in BOOLEAN
  BY <1>1, ExamTypes, ExamRows, StatusWritten DEF CommitCancel, examVars
<1>4. /\ Goto(p, Idle) /\ op[p].do \notin {"enqueue", "requeue"}
      /\ UNCHANGED <<mock, lingering, generation, job, workerVars, now>>
  BY DEF CommitCancel, Finish, examVars
<1>5. SlotsMove(Idle)
  <2>1. UNCHANGED <<slotVars, cause>>
    BY DEF CommitCancel
  <2> QED
    BY <1>1, <2>1, SlotsRest
<1>6. RequestsMove(p, Idle)
  <2>1. /\ request' = [request EXCEPT ![op[p].req] = "CANCELLED"] /\ UNCHANGED <<swept, met>>
        /\ op[p].do \in Reviewing
        /\ audit' = audit
    BY DEF CommitCancel, Reviewing
  <2> QED
    BY <2>1, RequestsDecided
<1> QED
  BY <1>2, <1>3, <1>4, <1>5, <1>6, OperationKeeps

\* The cancellation cancels the slots it had read.
LEMMA CancelKeeps ==
    ASSUME ExamInv, NEW p \in Staff, Cancel(p)
    PROVE  ExamInv' /\ Promised
<1> DEFINE o == [Idle EXCEPT !.do = "invalidate"]
<1>1. TypeOK
  BY DEF ExamInv
<1>2. o \in Ops /\ o.req = 0 /\ Fit(o)
  BY <1>1, ExamTypes DEF Ops, Idle, Kinds, Fit, OnWindow, OnSlot, Reviewing
<1>3. status' \in Statuses /\ paper' \in BOOLEAN /\ version' \in BOOLEAN /\ cache' \in BOOLEAN
  BY <1>1, ExamRows, StatusWritten DEF Cancel
<1>4. /\ Goto(p, o) /\ op[p].do \notin {"enqueue", "requeue"} /\ UNCHANGED requestVars
      /\ UNCHANGED <<mock, lingering, generation, job, workerVars, now>>
  BY DEF Cancel
<1> HIDE DEF o
<1>5. SlotsMove(o)
  <2>1. window' = window /\ cause' = cause /\ window \in [Slots -> Windows] /\ slot \in [Slots -> SlotStatuses]
    BY <1>1 DEF Cancel, TypeOK
  <2>2. slot' \in [Slots -> SlotStatuses]
    BY <2>1 DEF Cancel, SlotStatuses
  <2>3. \A s \in Slots : slot'[s] = slot[s] \/ (slot'[s] = "CANCELLED" /\ status' = "CANCELLED")
    BY DEF Cancel
  <2> QED
    BY <1>1, <2>1, <2>2, <2>3, SlotsClose
<1>6. RequestsMove(p, o)
  BY <1>2, <1>4, RequestsRest
<1> QED
  BY <1>2, <1>3, <1>4, <1>5, <1>6, OperationKeeps

\* An approval activates, and has its own transaction to come.
LEMMA ApproveActivatesKeeps ==
    ASSUME ExamInv, NEW p \in Staff, ApproveActivates(p)
    PROVE  ExamInv' /\ Promised
<1> DEFINE o == [op[p] EXCEPT !.do = "commitApprove"]
<1>1. TypeOK /\ op[p] \in Ops /\ op[p].do = "handled"
  BY ExamTypes DEF ExamInv, ApproveActivates
<1>2. op[p].slot \in Slots /\ slot[op[p].slot] # "NONE" /\ op[p].req \in Requests
  BY <1>1 DEF ExamInv, InHand, OnSlot, Reviewing
<1>3. o \in Ops /\ o.do = "commitApprove" /\ o.req = op[p].req
  <2>1. "commitApprove" \in Kinds
    BY DEF Kinds
  <2> QED
    BY <1>1, <2>1 DEF Ops
<1>4. Fit(o)
  BY <1>2, <1>3 DEF Fit, OnWindow, OnSlot, Reviewing
<1>5. status' \in Statuses /\ paper' \in BOOLEAN /\ version' \in BOOLEAN /\ cache' \in BOOLEAN
  BY <1>1, ExamRows, StatusWritten DEF ApproveActivates, ActivateTx
<1>6. Goto(p, o) /\ UNCHANGED <<mock, lingering, generation, job, workerVars, now>> /\ Sweep
  BY DEF ApproveActivates, ActivateTx
<1> HIDE DEF o
<1>7. SlotsMove(o)
  <2>1. /\ window' = window /\ status' = "ACTIVE" /\ slot' = [slot EXCEPT ![op[p].slot] = "ACTIVE"]
        /\ cause' = [cause EXCEPT ![op[p].slot] = IF slot[op[p].slot] \in {"ENDED", "CANCELLED"} THEN "reopened" ELSE @]
    BY DEF ApproveActivates, ActivateTx
  <2> QED
    BY <1>1, <1>2, <2>1, SlotsActivate
<1>8. RequestsMove(p, o)
  BY <1>3, <1>6, RequestsSwept
<1> QED
  BY <1>1, <1>3, <1>4, <1>5, <1>6, <1>7, <1>8, OperationKeeps

\* A slot is moved to another window.
LEMMA RescheduleKeeps ==
    ASSUME ExamInv, NEW p \in Staff, Reschedule(p)
    PROVE  ExamInv' /\ Promised
<1> DEFINE o == [op[p] EXCEPT !.do = "requeue"]
<1>1. TypeOK /\ op[p] \in Ops /\ op[p].do = "reschedule"
  BY ExamTypes DEF ExamInv, Reschedule
<1>2. op[p].slot \in Slots /\ slot[op[p].slot] # "NONE" /\ op[p].win \in Windows
  BY <1>1 DEF ExamInv, InHand, OnSlot, OnWindow
<1>3. o \in Ops /\ o.do = "requeue" /\ o.req = op[p].req /\ o.slot = op[p].slot /\ o.win = op[p].win
  <2>1. "requeue" \in Kinds
    BY DEF Kinds
  <2> QED
    BY <1>1, <2>1 DEF Ops
<1>4. /\ Goto(p, o) /\ UNCHANGED <<mock, lingering, generation, job, workerVars, now>>
      /\ UNCHANGED <<requestVars, slot, cause>> /\ window' = [window EXCEPT ![op[p].slot] = op[p].win]
  BY DEF Reschedule, examVars
<1> HIDE DEF o
<1>5. Fit(o)
  BY <1>2, <1>3, <1>4 DEF Fit, OnWindow, OnSlot, Reviewing
<1>6. status' \in Statuses /\ paper' \in BOOLEAN /\ version' \in BOOLEAN /\ cache' \in BOOLEAN
  BY <1>1, ExamRows DEF Reschedule, examVars
<1>7. SlotsMove(o)
  <2>1. window' \in [Slots -> Windows] /\ slot' \in [Slots -> SlotStatuses]
    BY <1>1, <1>2, <1>4 DEF TypeOK
  <2> QED
    BY <1>1, <1>4, <2>1, SlotsClose
<1>8. RequestsMove(p, o)
  BY <1>3, <1>4, RequestsRest
<1> QED
  BY <1>1, <1>3, <1>4, <1>5, <1>6, <1>7, <1>8, OperationKeeps

\* A slot and a request are inserted, and the job of the slot is to be queued.
LEMMA ScheduleInsertKeeps ==
    ASSUME ExamInv, NEW p \in Staff, ScheduleInsert(p)
    PROVE  ExamInv' /\ Promised
<1> DEFINE f == First(FreeSlots)
           o == [op[p] EXCEPT !.do = "enqueue", !.slot = f]
<1>1. TypeOK /\ op[p] \in Ops /\ op[p].do = "insert"
  BY ExamTypes DEF ExamInv, ScheduleInsert
<1>2. f \in Slots /\ slot[f] = "NONE"
  <2>1. FreeSlots \in SUBSET (1 .. MaxSlots) /\ MaxSlots \in Nat /\ FreeSlots # {}
    BY BoundsAssumption DEF FreeSlots, Slots, ScheduleInsert
  <2>2. f \in FreeSlots
    BY <2>1, LatestAndFirst
  <2> QED
    BY <2>2 DEF FreeSlots
<1>3. /\ Goto(p, o) /\ UNCHANGED <<mock, lingering, generation, job, workerVars, now>>
      /\ NewRequest /\ UNCHANGED cause /\ status' = "SCHEDULED"
      /\ slot' = [slot EXCEPT ![f] = "SCHEDULED"] /\ window' = [window EXCEPT ![f] = op[p].win]
  BY DEF ScheduleInsert
<1> HIDE DEF f
<1>4. op[p].win \in Windows
  BY <1>1 DEF ExamInv, InHand, OnWindow
<1>5. o \in Ops /\ o.do = "enqueue" /\ o.req = op[p].req /\ o.slot = f /\ o.win = op[p].win
  <2>1. "enqueue" \in Kinds
    BY DEF Kinds
  <2> QED
    BY <1>1, <1>2, <2>1 DEF Ops
<1> HIDE DEF o
<1>6. /\ slot' \in [Slots -> SlotStatuses] /\ window' \in [Slots -> Windows] /\ cause' \in [Slots -> Causes]
      /\ slot'[f] = "SCHEDULED" /\ \A s \in Slots \ {f} : slot'[s] = slot[s]
  BY <1>1, <1>2, <1>3, <1>4 DEF TypeOK, SlotStatuses
<1>7. Fit(o)
  BY <1>2, <1>4, <1>5, <1>6 DEF Fit, OnWindow, OnSlot, Reviewing
<1>8. status' \in Statuses /\ paper' \in BOOLEAN /\ version' \in BOOLEAN /\ cache' \in BOOLEAN
  BY <1>1, ExamRows, StatusWritten DEF ScheduleInsert
<1>9. SlotsMove(o)
  BY <1>2, <1>3, <1>5, <1>6 DEF SlotsMove, ComesBack, Live
<1>10. RequestsMove(p, o)
  BY <1>3, <1>5, RequestsGrow
<1> QED
  BY <1>1, <1>3, <1>5, <1>7, <1>8, <1>9, <1>10, OperationKeeps

\* A review begins, and history records whom it meets.
LEMMA ReviewReadKeeps ==
    ASSUME ExamInv, NEW p \in Staff, NEW r \in Requests,
           NEW review \in {"requestApprove", "requestReject", "requestCancel"}, ReviewRead(p, r, review)
    PROVE  ExamInv' /\ Promised
<1> DEFINE o == [Idle EXCEPT !.do = review, !.req = r]
<1>1. TypeOK
  BY DEF ExamInv
<1>2. o \in Ops /\ o.do = review /\ o.req = r
  <2>1. review \in Kinds
    BY DEF Kinds
  <2> QED
    BY <1>1, <2>1, ExamTypes DEF Ops
<1>3. /\ Begin(p, o) /\ UNCHANGED <<mock, lingering, generation, job, workerVars, now>>
      /\ UNCHANGED <<slotVars, cause, request, audit, swept>> /\ request[r] = "PENDING" /\ Meet(p, r)
  BY DEF ReviewRead, examVars
<1>4. op[p].do \notin {"enqueue", "requeue"}
  BY <1>3 DEF Begin, Idle
<1> HIDE DEF o
<1>5. Fit(o)
  BY <1>2 DEF Fit, OnWindow, OnSlot, Reviewing
<1>6. status' \in Statuses /\ paper' \in BOOLEAN /\ version' \in BOOLEAN /\ cache' \in BOOLEAN
  BY <1>1, ExamRows DEF ReviewRead, examVars
<1>7. SlotsMove(o)
  BY <1>1, <1>3, SlotsRest
<1>8. RequestsMove(p, o)
  <2>1. /\ request \in [Requests -> RequestStatuses] /\ audit \subseteq Requests /\ swept \subseteq Requests
        /\ met \subseteq Requests
    BY <1>1 DEF TypeOK
  <2>2. /\ met \subseteq met' /\ met' \subseteq Requests
        /\ \A q \in Staff \ {p} : op[q].req = r => r \in met'
    BY <1>3, <2>1 DEF Meet
  <2>3. ApprovedIsAudited'
    BY <1>3 DEF ExamInv, ApprovedIsAudited
  <2> QED
    BY <1>2, <1>3, <2>1, <2>2, <2>3 DEF RequestsMove
<1> QED
  BY <1>2, <1>3, <1>4, <1>5, <1>6, <1>7, <1>8, OperationKeeps

\* The job of a slot is queued or replaced.
LEMMA QueueKeeps ==
    ASSUME ExamInv, NEW p \in Staff, op[p].do \in {"enqueue", "requeue"}, Goto(p, Idle),
           UNCHANGED <<examVars, slotVars, requestVars, cache, lingering, generation, run, due, lock, now>>, stalled' \subseteq Slots,
           job' \in [Slots -> Windows \cup {0}], cause' \in [Slots -> Causes],
           \A s \in Slots \ {op[p].slot} : job'[s] = job[s] /\ cause'[s] = cause[s],
           \/ job'[op[p].slot] # 0 \/ cause'[op[p].slot] # "none"
           \/ op[p].do = "requeue" /\ job'[op[p].slot] = job[op[p].slot] /\ cause'[op[p].slot] = cause[op[p].slot],
           run[op[p].slot] # "off" =>
              /\ job'[op[p].slot] # 0
              /\ cause'[op[p].slot] = cause[op[p].slot] \/ cause'[op[p].slot] # "none"
    PROVE  ExamInv' /\ Promised
<1> USE DEF ExamInv
<1>1. Idle \in Ops /\ Idle.req = 0 /\ Idle.do = "idle"
  BY ExamTypes
<1>2. /\ op'[p] = Idle /\ \A q \in Staff \ {p} : op'[q] = op[q]
      /\ op' \in [Staff -> Ops] /\ left' \in 0 .. MaxOperations
  BY <1>1, MovesOn
<1>3. UNCHANGED <<status, mock, paper, version, slot, window, request, audit, swept, met,
                  cache, lingering, generation, run, due, lock, now>>
  BY DEF examVars, slotVars, requestVars
<1>4. TypeOK'
  BY <1>2, <1>3 DEF TypeOK
<1>5. Meetings' /\ ApprovedIsAudited'
  BY <1>1, <1>2, <1>3 DEF Meetings, ApprovedIsAudited
<1>6. ASSUME NEW q \in Staff PROVE InHand(op[q])'
  <2>1. CASE q = p
    BY <1>1, <1>2, <2>1 DEF InHand, OnWindow, OnSlot, Reviewing
  <2>2. CASE q # p
    BY <1>2, <1>3, <2>2 DEF InHand
  <2> QED
    BY <2>1, <2>2
<1>7. op[p].slot \in Slots /\ slot[op[p].slot] # "NONE"
  BY DEF InHand, OnSlot
<1>8. ASSUME NEW s \in Slots PROVE Watched(s)'
  <2>1. CASE s = op[p].slot
    <3>1. Watched(s)
      OBVIOUS
    <3>2. op[p].do = "requeue" => \A q \in Staff : QueuesFor(q, s) => QueuesFor(q, s)'
      BY <1>2 DEF QueuesFor
    <3> QED
      BY <1>3, <1>7, <2>1, <3>1, <3>2 DEF Watched, Live
  <2>2. CASE s # op[p].slot
    <3>1. \A q \in Staff : QueuesFor(q, s) => QueuesFor(q, s)'
      BY <1>2, <2>2 DEF QueuesFor
    <3>2. Watched(s) /\ job'[s] = job[s] /\ cause'[s] = cause[s]
      BY <2>2
    <3> QED
      BY <1>3, <3>1, <3>2 DEF Watched, Live
  <2> QED
    BY <2>1, <2>2
<1>9. Promised
  BY <1>3 DEF Promised, DecidedOnce, OnTime, ComesBack
<1> QED
  BY <1>4, <1>5, <1>6, <1>8, <1>9

LEMMA ScheduleEnqueueKeeps ==
    ASSUME ExamInv, NEW p \in Staff, ScheduleEnqueue(p)
    PROVE  ExamInv' /\ Promised
<1> DEFINE s == op[p].slot
<1> DEFINE held == job[s] # 0 \/ cause[s] \in {"failed", "stalled"}
<1>1. op[p].do = "enqueue" /\ op[p].win \in Windows /\ s \in Slots
  BY DEF ScheduleEnqueue, ExamInv, InHand, OnWindow, OnSlot
<1>2. 0 \notin Windows /\ job \in [Slots -> Windows \cup {0}] /\ cause \in [Slots -> Causes] /\ stalled \subseteq Slots
  BY ExamTypes DEF ExamInv, TypeOK
<1>3. run[s] # "off" => job[s] # 0
  BY <1>1 DEF ExamInv, Watched
<1>4. /\ Goto(p, Idle)
      /\ UNCHANGED <<examVars, slotVars, requestVars, cache, lingering, generation, workerVars, now>>
      /\ \/ held /\ job' = job /\ cause' = cause
         \/ ~held /\ job' = [job EXCEPT ![s] = op[p].win] /\ cause' = [cause EXCEPT ![s] = "none"]
         \/ held /\ cause' = cause /\ job' = job
         \/ ~held /\ cause' = [cause EXCEPT ![s] = "queueError"] /\ job' = job
  <2>1. [cause EXCEPT ![s] = cause[s]] = cause
    BY <1>1, <1>2
  <2> QED
    BY <2>1 DEF ScheduleEnqueue, Finish
<1>5. /\ held => job[s] # 0 \/ cause[s] # "none"
      /\ run[s] # "off" => held
  BY <1>3
<1> HIDE DEF s, held
<1>6. /\ job' \in [Slots -> Windows \cup {0}] /\ cause' \in [Slots -> Causes]
      /\ \A k \in Slots \ {s} : job'[k] = job[k] /\ cause'[k] = cause[k]
      /\ job'[s] # 0 \/ cause'[s] # "none"
      /\ run[s] # "off" => job'[s] # 0 /\ (cause'[s] = cause[s] \/ cause'[s] # "none")
  BY <1>1, <1>2, <1>3, <1>4, <1>5 DEF Causes
<1> QED
  BY <1>1, <1>2, <1>4, <1>6, QueueKeeps DEF s, workerVars

LEMMA RequeueKeeps ==
    ASSUME ExamInv, NEW p \in Staff, Requeue(p)
    PROVE  ExamInv' /\ Promised
<1> DEFINE s == op[p].slot
<1>1. op[p].do = "requeue" /\ op[p].win \in Windows /\ s \in Slots
  BY DEF Requeue, ExamInv, InHand, OnWindow, OnSlot
<1>2. 0 \notin Windows /\ job \in [Slots -> Windows \cup {0}] /\ cause \in [Slots -> Causes] /\ stalled \subseteq Slots
  BY ExamTypes DEF ExamInv, TypeOK
<1>3. run[s] # "off" => job[s] # 0
  BY <1>1 DEF ExamInv, Watched
<1>4. /\ Goto(p, Idle)
      /\ UNCHANGED <<examVars, slotVars, requestVars, cache, lingering, generation, run, due, lock, now>>
      /\ stalled' \in {stalled, stalled \ {s}}
      /\ \/ run[s] = "off" /\ job' = [job EXCEPT ![s] = op[p].win] /\ cause' = [cause EXCEPT ![s] = "none"]
         \/ run[s] = "off" /\ job' = [job EXCEPT ![s] = 0] /\ cause' = [cause EXCEPT ![s] = "queueError"]
         \/ job' = job /\ cause' = cause
  BY DEF Requeue, Finish
<1> HIDE DEF s
<1>5. /\ job' \in [Slots -> Windows \cup {0}] /\ cause' \in [Slots -> Causes] /\ stalled' \subseteq Slots
      /\ \A k \in Slots \ {s} : job'[k] = job[k] /\ cause'[k] = cause[k]
      /\ job'[s] # 0 \/ cause'[s] # "none" \/ (job'[s] = job[s] /\ cause'[s] = cause[s])
      /\ run[s] # "off" => job'[s] # 0 /\ (cause'[s] = cause[s] \/ cause'[s] # "none")
  BY <1>1, <1>2, <1>3, <1>4 DEF Causes
<1> QED
  BY <1>1, <1>4, <1>5, QueueKeeps DEF s

\* The server dies after a commit.
LEMMA ServerDiesKeeps ==
    ASSUME ExamInv, NEW p \in Staff, ServerDies(p)
    PROVE  ExamInv' /\ Promised
<1> DEFINE s == op[p].slot
<1>1. /\ Goto(p, Idle)
      /\ UNCHANGED <<examVars, slotVars, requestVars, cache, lingering, generation, run, due, lock, now>>
  BY DEF ServerDies, Finish
<1>2. 0 \notin Windows /\ job \in [Slots -> Windows \cup {0}] /\ cause \in [Slots -> Causes] /\ stalled \subseteq Slots
  BY ExamTypes DEF ExamInv, TypeOK
<1>3. CASE op[p].do \in {"invalidate", "requestApprove"}
  <2>1. UNCHANGED <<job, cause, stalled>>
    BY <1>3 DEF ServerDies
  <2>2. Idle \in Ops /\ Idle.req \in {0, op[p].req} /\ Fit(Idle)
    BY ExamTypes, ExamRows DEF ExamInv, Ops, Idle, Kinds, Statuses, Fit, OnWindow, OnSlot, Reviewing
  <2>3. status' \in Statuses /\ paper' \in BOOLEAN /\ version' \in BOOLEAN /\ cache' \in BOOLEAN
    BY <1>1, ExamRows DEF ExamInv, examVars, Statuses
  <2>4. UNCHANGED workerVars /\ op[p].do \notin {"enqueue", "requeue"}
    BY <1>1, <1>3, <2>1 DEF workerVars
  <2> QED
    BY <1>1, <2>1, <2>2, <2>3, <2>4, QuietlyKeeps DEF Quietly, examVars
<1>4. CASE op[p].do \in {"enqueue", "requeue"}
  <2>1. s \in Slots
    BY <1>4 DEF ExamInv, InHand, OnSlot
  <2>2. run[s] # "off" => job[s] # 0
    BY <2>1 DEF ExamInv, Watched
  <2>3. /\ stalled' \subseteq Slots
        /\ \/ op[p].do = "requeue" /\ job' = job /\ cause' = cause
           \/ op[p].do = "enqueue" /\ job' = job /\ job[s] = 0 /\ cause[s] = "none" /\ cause' = [cause EXCEPT ![s] = "died"]
           \/ op[p].do = "enqueue" /\ job' = job /\ (job[s] # 0 \/ cause[s] # "none") /\ cause' = cause
           \/ op[p].do = "requeue" /\ run[s] = "off" /\ job' = [job EXCEPT ![s] = 0] /\ cause' = [cause EXCEPT ![s] = "died"]
    <3>1. [cause EXCEPT ![s] = cause[s]] = cause
      BY <1>2, <2>1
    <3>2. CASE op[p].do = "enqueue"
      <4>1. cause' = [cause EXCEPT ![s] = IF job[s] = 0 /\ cause[s] = "none" THEN "died" ELSE cause[s]]
        BY <3>2 DEF ServerDies
      <4> QED
        BY <1>2, <3>1, <3>2, <4>1 DEF ServerDies
    <3>3. CASE op[p].do = "requeue"
      BY <1>2, <3>3 DEF ServerDies
    <3> QED
      BY <1>4, <3>2, <3>3
  <2> HIDE DEF s
  <2>4. /\ job' \in [Slots -> Windows \cup {0}] /\ cause' \in [Slots -> Causes]
        /\ \A k \in Slots \ {s} : job'[k] = job[k] /\ cause'[k] = cause[k]
        /\ \/ job'[s] # 0 \/ cause'[s] # "none"
           \/ op[p].do = "requeue" /\ job'[s] = job[s] /\ cause'[s] = cause[s]
        /\ run[s] # "off" => job'[s] # 0 /\ (cause'[s] = cause[s] \/ cause'[s] # "none")
    BY <1>2, <2>1, <2>2, <2>3 DEF Causes
  <2> QED
    BY <1>1, <1>4, <2>3, <2>4, QueueKeeps DEF s
<1> QED
  BY <1>3, <1>4 DEF ServerDies

-----------------------------------------------------------------------------
(* The worker of the closing job, and the rest *)

\* The worker at slot s may only end live slots, and keeps what is watched.
LEMMA WorkerKeeps ==
    ASSUME ExamInv, NEW s \in Slots,
           UNCHANGED <<mock, paper, version, window, requestVars, cache, lingering, generation, now, op, left>>,
           status' \in Statuses, slot' \in [Slots -> SlotStatuses], lock' \in BOOLEAN, stalled' \subseteq Slots,
           job' \in [Slots -> Windows \cup {0}], run' \in [Slots -> Steps],
           due' \in [Slots -> Windows \cup {0}], cause' \in [Slots -> Causes],
           \A k \in Slots : slot'[k] = slot[k] \/ (Live(k) /\ slot'[k] = "ENDED"),
           \A k \in Slots \ {s} : job'[k] = job[k] /\ run'[k] = run[k] /\ due'[k] = due[k] /\ cause'[k] = cause[k],
           OnTime(s),
           job'[s] # 0 => job[s] # 0,
           run'[s] # "off" => job'[s] # 0 /\ due'[s] < now,
           run'[s] \in {"end", "unlock"} => slot'[s] \notin {"SCHEDULED", "ACTIVE"} \/ cause'[s] # "none",
           slot'[s] \in {"SCHEDULED", "ACTIVE"} =>
              \/ job'[s] # 0 \/ cause'[s] # "none"
              \/ job'[s] = job[s] /\ cause'[s] = cause[s]
    PROVE  ExamInv' /\ Promised
<1> USE DEF ExamInv
<1>1. UNCHANGED <<mock, paper, version, window, request, audit, swept, met, cache, lingering, generation, now, op, left>>
  BY DEF requestVars
<1>2. TypeOK'
  BY <1>1 DEF TypeOK
<1>3. Meetings' /\ ApprovedIsAudited'
  BY <1>1 DEF Meetings, ApprovedIsAudited
<1>4. \A k \in Slots : slot[k] # "NONE" => slot'[k] # "NONE"
  BY DEF Live
<1>5. ASSUME NEW q \in Staff PROVE InHand(op[q])'
  BY <1>1, <1>4 DEF InHand
<1>6. ASSUME NEW k \in Slots PROVE Watched(k)'
  <2>1. \A q \in Staff : QueuesFor(q, k)' <=> QueuesFor(q, k)
    BY <1>1 DEF QueuesFor
  <2>2. slot'[k] \in {"SCHEDULED", "ACTIVE"} => Live(k)
    BY DEF Live
  <2>3. CASE k # s
    BY <1>1, <1>4, <2>1, <2>2, <2>3 DEF Watched, Live
  <2>4. CASE k = s
    BY <1>1, <1>4, <2>1, <2>2, <2>4 DEF Watched, Live
  <2> QED
    BY <2>3, <2>4
<1>7. Promised
  <2>1. DecidedOnce
    BY <1>1 DEF DecidedOnce
  <2>2. ASSUME NEW k \in Slots PROVE OnTime(k) /\ ComesBack(k)
    BY DEF OnTime, ComesBack, Live
  <2> QED
    BY <2>1, <2>2 DEF Promised
<1> QED
  BY <1>2, <1>3, <1>5, <1>6, <1>7

\* The steps of the worker
LEMMA WindowEndStartKeeps ==
    ASSUME ExamInv, NEW s \in Slots, WindowEndStart(s)
    PROVE  ExamInv' /\ Promised
<1>1. /\ slot \in [Slots -> SlotStatuses] /\ job \in [Slots -> Windows \cup {0}] /\ run \in [Slots -> Steps]
      /\ due \in [Slots -> Windows \cup {0}] /\ cause \in [Slots -> Causes] /\ status \in Statuses /\ lock \in BOOLEAN /\ stalled \subseteq Slots
      /\ now \in Nat /\ Windows \subseteq Nat /\ 0 \notin Windows
  BY ExamTypes, ExamRows DEF ExamInv, TypeOK
<1>2. Watched(s)
  BY DEF ExamInv
<1>3. UNCHANGED <<mock, paper, version, window, requestVars, cache, lingering, generation, now, op, left>>
  BY DEF WindowEndStart, examVars, slotVars
<1>4. /\ status' \in Statuses /\ slot' \in [Slots -> SlotStatuses] /\ lock' \in BOOLEAN /\ stalled' \subseteq Slots
      /\ job' \in [Slots -> Windows \cup {0}] /\ run' \in [Slots -> Steps]
      /\ due' \in [Slots -> Windows \cup {0}] /\ cause' \in [Slots -> Causes]
  BY <1>1 DEF WindowEndStart, Statuses, SlotStatuses, Steps, Causes, workerVars, slotVars, examVars
<1>5. /\ \A k \in Slots : slot'[k] = slot[k] \/ (Live(k) /\ slot'[k] = "ENDED")
      /\ \A k \in Slots \ {s} : job'[k] = job[k] /\ run'[k] = run[k] /\ due'[k] = due[k] /\ cause'[k] = cause[k]
  BY <1>1 DEF WindowEndStart, workerVars, slotVars, examVars, Live
<1>6. OnTime(s)
  BY DEF WindowEndStart, slotVars, workerVars, OnTime, Live
<1>7. /\ job'[s] # 0 => job[s] # 0
      /\ run'[s] # "off" => job'[s] # 0 /\ due'[s] < now
      /\ run'[s] \in {"end", "unlock"} => slot'[s] \notin {"SCHEDULED", "ACTIVE"} \/ cause'[s] # "none"
      /\ slot'[s] \in {"SCHEDULED", "ACTIVE"} =>
            \/ job'[s] # 0 \/ cause'[s] # "none"
            \/ job'[s] = job[s] /\ cause'[s] = cause[s]
  BY <1>1, <1>2 DEF WindowEndStart, Watched, Live, workerVars, slotVars, examVars
<1> QED
  BY <1>3, <1>4, <1>5, <1>6, <1>7, WorkerKeeps

LEMMA WindowEndLockKeeps ==
    ASSUME ExamInv, NEW s \in Slots, WindowEndLock(s)
    PROVE  ExamInv' /\ Promised
<1>1. /\ slot \in [Slots -> SlotStatuses] /\ job \in [Slots -> Windows \cup {0}] /\ run \in [Slots -> Steps]
      /\ due \in [Slots -> Windows \cup {0}] /\ cause \in [Slots -> Causes] /\ status \in Statuses /\ lock \in BOOLEAN /\ stalled \subseteq Slots
      /\ now \in Nat /\ Windows \subseteq Nat /\ 0 \notin Windows
  BY ExamTypes, ExamRows DEF ExamInv, TypeOK
<1>2. Watched(s)
  BY DEF ExamInv
<1>3. UNCHANGED <<mock, paper, version, window, requestVars, cache, lingering, generation, now, op, left>>
  BY DEF WindowEndLock, examVars, slotVars
<1>4. /\ status' \in Statuses /\ slot' \in [Slots -> SlotStatuses] /\ lock' \in BOOLEAN /\ stalled' \subseteq Slots
      /\ job' \in [Slots -> Windows \cup {0}] /\ run' \in [Slots -> Steps]
      /\ due' \in [Slots -> Windows \cup {0}] /\ cause' \in [Slots -> Causes]
  BY <1>1 DEF WindowEndLock, Statuses, SlotStatuses, Steps, Causes, workerVars, slotVars, examVars
<1>5. /\ \A k \in Slots : slot'[k] = slot[k] \/ (Live(k) /\ slot'[k] = "ENDED")
      /\ \A k \in Slots \ {s} : job'[k] = job[k] /\ run'[k] = run[k] /\ due'[k] = due[k] /\ cause'[k] = cause[k]
  BY <1>1 DEF WindowEndLock, workerVars, slotVars, examVars, Live
<1>6. OnTime(s)
  BY DEF WindowEndLock, slotVars, workerVars, OnTime, Live
<1>7. /\ job'[s] # 0 => job[s] # 0
      /\ run'[s] # "off" => job'[s] # 0 /\ due'[s] < now
      /\ run'[s] \in {"end", "unlock"} => slot'[s] \notin {"SCHEDULED", "ACTIVE"} \/ cause'[s] # "none"
      /\ slot'[s] \in {"SCHEDULED", "ACTIVE"} =>
            \/ job'[s] # 0 \/ cause'[s] # "none"
            \/ job'[s] = job[s] /\ cause'[s] = cause[s]
  BY <1>1, <1>2 DEF WindowEndLock, Watched, Live, workerVars, slotVars, examVars
<1> QED
  BY <1>3, <1>4, <1>5, <1>6, <1>7, WorkerKeeps

LEMMA WindowEndReadKeeps ==
    ASSUME ExamInv, NEW s \in Slots, WindowEndRead(s)
    PROVE  ExamInv' /\ Promised
<1>1. /\ slot \in [Slots -> SlotStatuses] /\ job \in [Slots -> Windows \cup {0}] /\ run \in [Slots -> Steps]
      /\ due \in [Slots -> Windows \cup {0}] /\ cause \in [Slots -> Causes] /\ status \in Statuses /\ lock \in BOOLEAN /\ stalled \subseteq Slots
      /\ now \in Nat /\ Windows \subseteq Nat /\ 0 \notin Windows
  BY ExamTypes, ExamRows DEF ExamInv, TypeOK
<1>2. Watched(s)
  BY DEF ExamInv
<1>3. UNCHANGED <<mock, paper, version, window, requestVars, cache, lingering, generation, now, op, left>>
  BY DEF WindowEndRead, examVars, slotVars
<1>4. /\ status' \in Statuses /\ slot' \in [Slots -> SlotStatuses] /\ lock' \in BOOLEAN /\ stalled' \subseteq Slots
      /\ job' \in [Slots -> Windows \cup {0}] /\ run' \in [Slots -> Steps]
      /\ due' \in [Slots -> Windows \cup {0}] /\ cause' \in [Slots -> Causes]
  BY <1>1 DEF WindowEndRead, Statuses, SlotStatuses, Steps, Causes, workerVars, slotVars, examVars
<1>5. /\ \A k \in Slots : slot'[k] = slot[k] \/ (Live(k) /\ slot'[k] = "ENDED")
      /\ \A k \in Slots \ {s} : job'[k] = job[k] /\ run'[k] = run[k] /\ due'[k] = due[k] /\ cause'[k] = cause[k]
  BY <1>1 DEF WindowEndRead, workerVars, slotVars, examVars, Live
<1>6. OnTime(s)
  BY DEF WindowEndRead, slotVars, workerVars, OnTime, Live
<1>7. /\ job'[s] # 0 => job[s] # 0
      /\ run'[s] # "off" => job'[s] # 0 /\ due'[s] < now
      /\ run'[s] \in {"end", "unlock"} => slot'[s] \notin {"SCHEDULED", "ACTIVE"} \/ cause'[s] # "none"
      /\ slot'[s] \in {"SCHEDULED", "ACTIVE"} =>
            \/ job'[s] # 0 \/ cause'[s] # "none"
            \/ job'[s] = job[s] /\ cause'[s] = cause[s]
  BY <1>1, <1>2 DEF WindowEndRead, Watched, Live, workerVars, slotVars, examVars
<1> QED
  BY <1>3, <1>4, <1>5, <1>6, <1>7, WorkerKeeps

LEMMA WindowEndFailsKeeps ==
    ASSUME ExamInv, NEW s \in Slots, WindowEndFails(s)
    PROVE  ExamInv' /\ Promised
<1>1. /\ slot \in [Slots -> SlotStatuses] /\ job \in [Slots -> Windows \cup {0}] /\ run \in [Slots -> Steps]
      /\ due \in [Slots -> Windows \cup {0}] /\ cause \in [Slots -> Causes] /\ status \in Statuses /\ lock \in BOOLEAN /\ stalled \subseteq Slots
      /\ now \in Nat /\ Windows \subseteq Nat /\ 0 \notin Windows
  BY ExamTypes, ExamRows DEF ExamInv, TypeOK
<1>2. Watched(s)
  BY DEF ExamInv
<1>3. UNCHANGED <<mock, paper, version, window, requestVars, cache, lingering, generation, now, op, left>>
  BY DEF WindowEndFails, examVars, slotVars
<1>4. /\ status' \in Statuses /\ slot' \in [Slots -> SlotStatuses] /\ lock' \in BOOLEAN /\ stalled' \subseteq Slots
      /\ job' \in [Slots -> Windows \cup {0}] /\ run' \in [Slots -> Steps]
      /\ due' \in [Slots -> Windows \cup {0}] /\ cause' \in [Slots -> Causes]
  BY <1>1 DEF WindowEndFails, Statuses, SlotStatuses, Steps, Causes, workerVars, slotVars, examVars
<1>5. /\ \A k \in Slots : slot'[k] = slot[k] \/ (Live(k) /\ slot'[k] = "ENDED")
      /\ \A k \in Slots \ {s} : job'[k] = job[k] /\ run'[k] = run[k] /\ due'[k] = due[k] /\ cause'[k] = cause[k]
  BY <1>1 DEF WindowEndFails, workerVars, slotVars, examVars, Live
<1>6. OnTime(s)
  BY DEF WindowEndFails, slotVars, workerVars, OnTime, Live
<1>7. /\ job'[s] # 0 => job[s] # 0
      /\ run'[s] # "off" => job'[s] # 0 /\ due'[s] < now
      /\ run'[s] \in {"end", "unlock"} => slot'[s] \notin {"SCHEDULED", "ACTIVE"} \/ cause'[s] # "none"
      /\ slot'[s] \in {"SCHEDULED", "ACTIVE"} =>
            \/ job'[s] # 0 \/ cause'[s] # "none"
            \/ job'[s] = job[s] /\ cause'[s] = cause[s]
  BY <1>1, <1>2 DEF WindowEndFails, Watched, Live, workerVars, slotVars, examVars
<1> QED
  BY <1>3, <1>4, <1>5, <1>6, <1>7, WorkerKeeps

LEMMA WindowEndCloseKeeps ==
    ASSUME ExamInv, NEW s \in Slots, WindowEndClose(s)
    PROVE  ExamInv' /\ Promised
<1>1. /\ slot \in [Slots -> SlotStatuses] /\ job \in [Slots -> Windows \cup {0}] /\ run \in [Slots -> Steps]
      /\ due \in [Slots -> Windows \cup {0}] /\ cause \in [Slots -> Causes] /\ status \in Statuses /\ lock \in BOOLEAN /\ stalled \subseteq Slots
      /\ now \in Nat /\ Windows \subseteq Nat /\ 0 \notin Windows
  BY ExamTypes, ExamRows DEF ExamInv, TypeOK
<1>2. Watched(s)
  BY DEF ExamInv
<1>3. UNCHANGED <<mock, paper, version, window, requestVars, cache, lingering, generation, now, op, left>>
  BY DEF WindowEndClose, examVars, slotVars
<1>4. /\ status' \in Statuses /\ slot' \in [Slots -> SlotStatuses] /\ lock' \in BOOLEAN /\ stalled' \subseteq Slots
      /\ job' \in [Slots -> Windows \cup {0}] /\ run' \in [Slots -> Steps]
      /\ due' \in [Slots -> Windows \cup {0}] /\ cause' \in [Slots -> Causes]
  BY <1>1 DEF WindowEndClose, Statuses, SlotStatuses, Steps, Causes, workerVars, slotVars, examVars
<1>5. /\ \A k \in Slots : slot'[k] = slot[k] \/ (Live(k) /\ slot'[k] = "ENDED")
      /\ \A k \in Slots \ {s} : job'[k] = job[k] /\ run'[k] = run[k] /\ due'[k] = due[k] /\ cause'[k] = cause[k]
  BY <1>1 DEF WindowEndClose, workerVars, slotVars, examVars, Live
<1>6. OnTime(s)
  <2>1. run[s] \in {"close", "closeActive"} => due[s] < now
    BY <1>2 DEF Watched
  <2>2. window \in [Slots -> Windows]
    BY ExamTypes DEF ExamInv
  <2>3. due[s] \in Nat /\ window[s] \in Nat
    <3>1. due[s] \in Windows \cup {0} /\ window[s] \in Windows
      BY <1>1, <2>2
    <3>2. Windows \subseteq Nat /\ 0 \in Nat
      BY <1>1
    <3>3. Windows \cup {0} \subseteq Nat
      BY <3>2
    <3> QED
      BY <3>1, <3>2, <3>3
  <2>4. due[s] < now /\ now <= window[s] => due[s] # window[s]
    BY <1>1, <2>3
  <2> QED
    BY <2>1, <2>4 DEF OnTime
<1>7. /\ job'[s] # 0 => job[s] # 0
      /\ run'[s] # "off" => job'[s] # 0 /\ due'[s] < now
      /\ run'[s] \in {"end", "unlock"} => slot'[s] \notin {"SCHEDULED", "ACTIVE"} \/ cause'[s] # "none"
      /\ slot'[s] \in {"SCHEDULED", "ACTIVE"} =>
            \/ job'[s] # 0 \/ cause'[s] # "none"
            \/ job'[s] = job[s] /\ cause'[s] = cause[s]
  BY <1>1, <1>2 DEF WindowEndClose, Watched, Live, workerVars, slotVars, examVars
<1> QED
  BY <1>3, <1>4, <1>5, <1>6, <1>7, WorkerKeeps

LEMMA WindowEndExamKeeps ==
    ASSUME ExamInv, NEW s \in Slots, WindowEndExam(s)
    PROVE  ExamInv' /\ Promised
<1>1. /\ slot \in [Slots -> SlotStatuses] /\ job \in [Slots -> Windows \cup {0}] /\ run \in [Slots -> Steps]
      /\ due \in [Slots -> Windows \cup {0}] /\ cause \in [Slots -> Causes] /\ status \in Statuses /\ lock \in BOOLEAN /\ stalled \subseteq Slots
      /\ now \in Nat /\ Windows \subseteq Nat /\ 0 \notin Windows
  BY ExamTypes, ExamRows DEF ExamInv, TypeOK
<1>2. Watched(s)
  BY DEF ExamInv
<1>3. UNCHANGED <<mock, paper, version, window, requestVars, cache, lingering, generation, now, op, left>>
  BY DEF WindowEndExam, examVars, slotVars
<1>4. /\ status' \in Statuses /\ slot' \in [Slots -> SlotStatuses] /\ lock' \in BOOLEAN /\ stalled' \subseteq Slots
      /\ job' \in [Slots -> Windows \cup {0}] /\ run' \in [Slots -> Steps]
      /\ due' \in [Slots -> Windows \cup {0}] /\ cause' \in [Slots -> Causes]
  BY <1>1 DEF WindowEndExam, Statuses, SlotStatuses, Steps, Causes, workerVars, slotVars, examVars, EndExamTx
<1>5. /\ \A k \in Slots : slot'[k] = slot[k] \/ (Live(k) /\ slot'[k] = "ENDED")
      /\ \A k \in Slots \ {s} : job'[k] = job[k] /\ run'[k] = run[k] /\ due'[k] = due[k] /\ cause'[k] = cause[k]
  BY <1>1 DEF WindowEndExam, workerVars, slotVars, examVars, Live, EndExamTx, ActiveSlots
<1>6. OnTime(s)
  BY DEF WindowEndExam, OnTime
<1>7. /\ job'[s] # 0 => job[s] # 0
      /\ run'[s] # "off" => job'[s] # 0 /\ due'[s] < now
      /\ run'[s] \in {"end", "unlock"} => slot'[s] \notin {"SCHEDULED", "ACTIVE"} \/ cause'[s] # "none"
      /\ slot'[s] \in {"SCHEDULED", "ACTIVE"} =>
            \/ job'[s] # 0 \/ cause'[s] # "none"
            \/ job'[s] = job[s] /\ cause'[s] = cause[s]
  BY <1>1, <1>2 DEF WindowEndExam, Watched, Live, workerVars, slotVars, examVars, EndExamTx, ActiveSlots
<1> QED
  BY <1>3, <1>4, <1>5, <1>6, <1>7, WorkerKeeps

LEMMA WindowEndUnlockKeeps ==
    ASSUME ExamInv, NEW s \in Slots, WindowEndUnlock(s)
    PROVE  ExamInv' /\ Promised
<1>1. /\ slot \in [Slots -> SlotStatuses] /\ job \in [Slots -> Windows \cup {0}] /\ run \in [Slots -> Steps]
      /\ due \in [Slots -> Windows \cup {0}] /\ cause \in [Slots -> Causes] /\ status \in Statuses /\ lock \in BOOLEAN /\ stalled \subseteq Slots
      /\ now \in Nat /\ Windows \subseteq Nat /\ 0 \notin Windows
  BY ExamTypes, ExamRows DEF ExamInv, TypeOK
<1>2. Watched(s)
  BY DEF ExamInv
<1>3. UNCHANGED <<mock, paper, version, window, requestVars, cache, lingering, generation, now, op, left>>
  BY DEF WindowEndUnlock, examVars, slotVars
<1>4. /\ status' \in Statuses /\ slot' \in [Slots -> SlotStatuses] /\ lock' \in BOOLEAN /\ stalled' \subseteq Slots
      /\ job' \in [Slots -> Windows \cup {0}] /\ run' \in [Slots -> Steps]
      /\ due' \in [Slots -> Windows \cup {0}] /\ cause' \in [Slots -> Causes]
  BY <1>1 DEF WindowEndUnlock, Statuses, SlotStatuses, Steps, Causes, workerVars, slotVars, examVars
<1>5. /\ \A k \in Slots : slot'[k] = slot[k] \/ (Live(k) /\ slot'[k] = "ENDED")
      /\ \A k \in Slots \ {s} : job'[k] = job[k] /\ run'[k] = run[k] /\ due'[k] = due[k] /\ cause'[k] = cause[k]
  BY <1>1 DEF WindowEndUnlock, workerVars, slotVars, examVars, Live
<1>6. OnTime(s)
  BY DEF WindowEndUnlock, slotVars, workerVars, OnTime, Live
<1>7. /\ job'[s] # 0 => job[s] # 0
      /\ run'[s] # "off" => job'[s] # 0 /\ due'[s] < now
      /\ run'[s] \in {"end", "unlock"} => slot'[s] \notin {"SCHEDULED", "ACTIVE"} \/ cause'[s] # "none"
      /\ slot'[s] \in {"SCHEDULED", "ACTIVE"} =>
            \/ job'[s] # 0 \/ cause'[s] # "none"
            \/ job'[s] = job[s] /\ cause'[s] = cause[s]
  BY <1>1, <1>2 DEF WindowEndUnlock, Watched, Live, workerVars, slotVars, examVars
<1> QED
  BY <1>3, <1>4, <1>5, <1>6, <1>7, WorkerKeeps

LEMMA WorkerCrashKeeps ==
    ASSUME ExamInv, NEW s \in Slots, WorkerCrash(s)
    PROVE  ExamInv' /\ Promised
<1>1. /\ slot \in [Slots -> SlotStatuses] /\ job \in [Slots -> Windows \cup {0}] /\ run \in [Slots -> Steps]
      /\ due \in [Slots -> Windows \cup {0}] /\ cause \in [Slots -> Causes] /\ status \in Statuses /\ lock \in BOOLEAN /\ stalled \subseteq Slots
      /\ now \in Nat /\ Windows \subseteq Nat /\ 0 \notin Windows
  BY ExamTypes, ExamRows DEF ExamInv, TypeOK
<1>2. Watched(s)
  BY DEF ExamInv
<1>3. UNCHANGED <<mock, paper, version, window, requestVars, cache, lingering, generation, now, op, left>>
  BY DEF WorkerCrash, examVars, slotVars
<1>4. /\ status' \in Statuses /\ slot' \in [Slots -> SlotStatuses] /\ lock' \in BOOLEAN /\ stalled' \subseteq Slots
      /\ job' \in [Slots -> Windows \cup {0}] /\ run' \in [Slots -> Steps]
      /\ due' \in [Slots -> Windows \cup {0}] /\ cause' \in [Slots -> Causes]
  BY <1>1 DEF WorkerCrash, Statuses, SlotStatuses, Steps, Causes, workerVars, slotVars, examVars
<1>5. /\ \A k \in Slots : slot'[k] = slot[k] \/ (Live(k) /\ slot'[k] = "ENDED")
      /\ \A k \in Slots \ {s} : job'[k] = job[k] /\ run'[k] = run[k] /\ due'[k] = due[k] /\ cause'[k] = cause[k]
  BY <1>1 DEF WorkerCrash, workerVars, slotVars, examVars, Live
<1>6. OnTime(s)
  BY DEF WorkerCrash, slotVars, workerVars, OnTime, Live
<1>7. /\ job'[s] # 0 => job[s] # 0
      /\ run'[s] # "off" => job'[s] # 0 /\ due'[s] < now
      /\ run'[s] \in {"end", "unlock"} => slot'[s] \notin {"SCHEDULED", "ACTIVE"} \/ cause'[s] # "none"
      /\ slot'[s] \in {"SCHEDULED", "ACTIVE"} =>
            \/ job'[s] # 0 \/ cause'[s] # "none"
            \/ job'[s] = job[s] /\ cause'[s] = cause[s]
  BY <1>1, <1>2 DEF WorkerCrash, Watched, Live, workerVars, slotVars, examVars
<1> QED
  BY <1>3, <1>4, <1>5, <1>6, <1>7, WorkerKeeps

\* What happens besides leaves slots, requests, jobs and operations alone.
LEMMA RestKeeps ==
    ASSUME ExamInv, UNCHANGED <<slotVars, requestVars, job, run, due, stalled, op, left, cause>>,
           status' \in Statuses, mock' \in BOOLEAN, paper' \in BOOLEAN, version' \in BOOLEAN, cache' \in BOOLEAN,
           lingering' \in BOOLEAN, generation' \in {"none", "queued", "filled"}, lock' \in BOOLEAN,
           now' \in 1 .. (Horizon + 1), now <= now'
    PROVE  ExamInv' /\ Promised
<1> USE DEF ExamInv
<1>1. UNCHANGED <<slot, window, request, audit, swept, met, job, run, due, stalled, op, left, cause>>
  BY DEF slotVars, requestVars
<1>2. TypeOK'
  BY <1>1 DEF TypeOK
<1>3. Meetings' /\ ApprovedIsAudited'
  BY <1>1 DEF Meetings, ApprovedIsAudited
<1>4. ASSUME NEW q \in Staff PROVE InHand(op[q])'
  BY <1>1 DEF InHand
<1>5. ASSUME NEW s \in Slots PROVE Watched(s)'
  <2>1. Watched(s) /\ due[s] \in Nat /\ now \in Nat /\ now' \in Nat
    BY BoundsAssumption, ExamTypes
  <2>2. due[s] < now => due[s] < now'
    BY <2>1
  <2>3. \A q \in Staff : QueuesFor(q, s)' <=> QueuesFor(q, s)
    BY <1>1 DEF QueuesFor
  <2> QED
    BY <1>1, <2>1, <2>2, <2>3 DEF Watched, Live
<1>6. Promised
  BY <1>1 DEF Promised, DecidedOnce, OnTime, ComesBack
<1> QED
  BY <1>2, <1>3, <1>4, <1>5, <1>6

LEMMA OthersKeep ==
    ASSUME ExamInv,
           \/ LockExpires \/ GenerateTx \/ GenerateEnds \/ ImportPaper \/ StudentStarts \/ StudentsFinish \/ Tick
           \/ UNCHANGED vars
    PROVE  ExamInv' /\ Promised
<1>1. /\ status \in Statuses /\ mock \in BOOLEAN /\ paper \in BOOLEAN /\ version \in BOOLEAN /\ cache \in BOOLEAN
      /\ lingering \in BOOLEAN /\ generation \in {"none", "queued", "filled"} /\ lock \in BOOLEAN
      /\ now \in 1 .. (Horizon + 1) /\ Horizon \in Nat
  BY BoundsAssumption DEF ExamInv, TypeOK
<1>2. UNCHANGED <<slotVars, requestVars, job, run, due, stalled, op, left, cause>>
  BY DEF LockExpires, GenerateTx, GenerateEnds, ImportPaper, StudentStarts, StudentsFinish, Tick, vars, workerVars
<1>3. /\ status' \in Statuses /\ mock' \in BOOLEAN /\ paper' \in BOOLEAN /\ version' \in BOOLEAN
      /\ cache' \in BOOLEAN /\ lingering' \in BOOLEAN
  BY <1>1, StatusWritten DEF LockExpires, GenerateTx, GenerateEnds, ImportPaper, StudentStarts, StudentsFinish, Tick,
                             vars, examVars
<1>4. generation' \in {"none", "queued", "filled"} /\ lock' \in BOOLEAN
  BY <1>1 DEF LockExpires, GenerateTx, GenerateEnds, ImportPaper, StudentStarts, StudentsFinish, Tick,
              vars, workerVars
<1>5. now' \in 1 .. (Horizon + 1) /\ now <= now'
  <2>1. CASE Tick
    BY <1>1, <2>1 DEF Tick
  <2>2. CASE ~Tick
    <3>1. now' = now
      BY <2>2 DEF LockExpires, GenerateTx, GenerateEnds, ImportPaper, StudentStarts, StudentsFinish, vars
    <3> QED
      BY <1>1, <3>1
  <2> QED
    BY <2>1, <2>2
<1> QED
  BY <1>2, <1>3, <1>4, <1>5, RestKeeps

-----------------------------------------------------------------------------
(* The theorems *)

LEMMA ExamInvInit == Init => ExamInv
<1> SUFFICES ASSUME Init PROVE ExamInv
  OBVIOUS
<1>1. status \in {"DRAFT", "APPROVED", "SCHEDULED"} /\ mock \in BOOLEAN /\ paper \in BOOLEAN /\ version \in BOOLEAN
  BY DEF Init, CreatedDraft, CreatedMock, CreatedByForm
<1>2. generation \in {"none", "queued", "filled"}
  BY DEF Init, CreatedDraft, CreatedMock, CreatedByForm
<1>3. /\ Idle \in Ops /\ Idle.do = "idle" /\ Idle.req = 0
  BY DEF Ops, Idle, Kinds, Statuses
<1>4. \A p \in Staff : op[p] = Idle
  BY DEF Init
<1>5. /\ slot = [s \in Slots |-> IF s = 1 /\ status = "SCHEDULED" THEN "SCHEDULED" ELSE "NONE"]
      /\ request = [r \in Requests |-> IF r = 1 /\ status = "SCHEDULED" THEN "PENDING" ELSE "NONE"]
      /\ cause = [s \in Slots |-> IF s = 1 /\ status = "SCHEDULED" THEN "never" ELSE "none"]
      /\ job = [s \in Slots |-> 0] /\ run = [s \in Slots |-> "off"] /\ due = [s \in Slots |-> 0]
      /\ window = [s \in Slots |-> 1]
  BY DEF Init
<1>6. TypeOK
  <2>1. slot \in [Slots -> SlotStatuses] /\ request \in [Requests -> RequestStatuses] /\ cause \in [Slots -> Causes]
    BY <1>5 DEF SlotStatuses, RequestStatuses, Causes
  <2>2. job \in [Slots -> Windows \cup {0}] /\ run \in [Slots -> Steps] /\ due \in [Slots -> Windows \cup {0}]
    BY <1>5 DEF Steps
  <2>3. window \in [Slots -> Windows] /\ now \in 1 .. (Horizon + 1) /\ left \in 0 .. MaxOperations
    BY <1>5, BoundsAssumption DEF Windows, Init
  <2>4. op \in [Staff -> Ops]
    BY <1>3 DEF Init
  <2>5. status \in Statuses
    BY <1>1 DEF Statuses
  <2>6. /\ audit \subseteq Requests /\ swept \subseteq Requests /\ met \subseteq Requests
        /\ cache \in BOOLEAN /\ lingering \in BOOLEAN /\ lock \in BOOLEAN /\ stalled \subseteq Slots
    BY DEF Init
  <2> QED
    BY <1>1, <1>2, <2>1, <2>2, <2>3, <2>4, <2>5, <2>6 DEF TypeOK
<1>7. Meetings /\ \A p \in Staff : InHand(op[p])
  BY <1>3, <1>4 DEF Meetings, InHand, OnWindow, OnSlot, Reviewing
<1>8. ApprovedIsAudited
  BY <1>5 DEF ApprovedIsAudited
<1>9. \A s \in Slots : Watched(s)
  BY <1>5 DEF Watched, Live
<1> QED
  BY <1>6, <1>7, <1>8, <1>9 DEF ExamInv

LEMMA ExamSteps ==
    ASSUME ExamInv, [Next]_vars
    PROVE  ExamInv' /\ Promised
<1>1. ASSUME NEW p \in Staff, LifecycleOperation(p) PROVE ExamInv' /\ Promised
  BY <1>1, SubmitReadKeeps, SubmitKeeps, ApproveReadKeeps, RejectReadKeeps, SetStatusKeeps, CancelReadKeeps,
     CancelKeeps, InvalidateKeeps, LifecycleActivateReadKeeps, LifecycleActivateKeeps, EndExamReadKeeps,
     EndExamKeeps DEF LifecycleOperation
<1>2. ASSUME NEW p \in Staff, ScheduleOperation(p) PROVE ExamInv' /\ Promised
  <2>1. ASSUME NEW s \in Slots, ActivateRead(p, s) PROVE ExamInv' /\ Promised
    BY <2>1, ActivateReadKeeps
  <2>2. ASSUME NEW wd \in Windows, ScheduleRead(p, wd) PROVE ExamInv' /\ Promised
    BY <2>2, ScheduleReadKeeps
  <2>3. ASSUME NEW wd \in Windows, NEW s \in Slots, RescheduleRead(p, s, wd) PROVE ExamInv' /\ Promised
    BY <2>3, RescheduleReadKeeps
  <2> QED
    BY <1>2, <2>1, <2>2, <2>3, ScheduleCheckKeeps, ScheduleInsertKeeps, ScheduleEnqueueKeeps, RescheduleKeeps,
       RequeueKeeps, ServerDiesKeeps, ActivateKeeps, ActivateBareReadKeeps DEF ScheduleOperation
<1>3. ASSUME NEW p \in Staff, ExamOperation(p) PROVE ExamInv' /\ Promised
  BY <1>3, DeactivateReadKeeps, OlderReadKeeps, ChooseQuestionsReadKeeps, ClearPaperKeeps, FillPaperKeeps
     DEF ExamOperation
<1>4. ASSUME NEW p \in Staff, ReviewOperation(p) PROVE ExamInv' /\ Promised
  <2>1. ASSUME NEW r \in Requests, NEW review \in {"requestApprove", "requestReject", "requestCancel"},
               ReviewRead(p, r, review)
        PROVE  ExamInv' /\ Promised
    BY <2>1, ReviewReadKeeps
  <2> QED
    BY <1>4, <2>1, RequestSubmitReadKeeps, RequestSubmitKeeps, HandleApproveKeeps, ApproveActivatesKeeps,
       CommitApproveKeeps, CommitRejectKeeps, CommitCancelKeeps, RollBackKeeps DEF ReviewOperation
<1>5. ASSUME NEW s \in Slots, WindowEndWorker(s) PROVE ExamInv' /\ Promised
  BY <1>5, WindowEndStartKeeps, WindowEndLockKeeps, WindowEndReadKeeps, WindowEndCloseKeeps, WindowEndExamKeeps,
     WindowEndFailsKeeps, WindowEndUnlockKeeps, WorkerCrashKeeps DEF WindowEndWorker
<1> QED
  BY <1>1, <1>2, <1>3, <1>4, <1>5, OthersKeep DEF Next

LEMMA ExamInvariant == Spec => []ExamInv
<1>1. ExamInv /\ [Next]_vars => ExamInv'
  BY ExamSteps
<1> QED
  BY ExamInvInit, <1>1, PTL DEF Spec

\* Every variable of the exam holds a value of its type, the record of an
\* operation of the staff between its reads and its transaction included.
THEOREM ExamTypeCorrect == Spec => []TypeOK
<1>1. ExamInv => TypeOK
  BY DEF ExamInv
<1> QED
  BY ExamInvariant, <1>1, PTL

\* A live slot has a job that closes it, an operation about to queue one, or one
\* of the known reasons for having none, whoever activates, moves or cancels it,
\* wherever the server or the worker of the closing job dies and whichever of
\* its reads and writes fails.
THEOREM EveryWindowIsClosed == Spec => []EveryWindowCloses
<1>1. ExamInv => EveryWindowCloses
  BY DEF ExamInv, Watched, QueuesFor, EveryWindowCloses
<1> QED
  BY ExamInvariant, <1>1, PTL

\* A decided request of approval is decided differently only where two reviews,
\* or a review and the sweep of an activation, met, and one that is APPROVED has
\* its record or was swept up.
THEOREM ReviewsDoStand == Spec => ReviewsStand
<1>1. ExamInv /\ [Next]_vars => [DecidedOnce /\ ApprovedIsAudited']_vars
  BY ExamSteps DEF Promised, ExamInv
<1> QED
  BY ExamInvariant, <1>1, PTL DEF Spec, ReviewsStand

\* The worker ends a slot before its time only for the job of the window it had
\* before, and an ended slot comes back only by an activation that had read it.
THEOREM SlotsDoEnd == Spec => SlotsEnd
<1>1. ExamInv /\ [Next]_vars =>
        [\A s \in Slots :
           /\ run[s] \in {"close", "closeActive"} /\ run'[s] # run[s]
           /\ Live(s) /\ slot'[s] = "ENDED" /\ now <= window[s]
           => due[s] # window[s]]_vars
  BY ExamSteps DEF Promised, OnTime
<1>2. ExamInv /\ [Next]_vars =>
        [\A s \in Slots : slot[s] \in {"ENDED", "CANCELLED"} /\ slot'[s] # slot[s] =>
           \/ slot'[s] = "CANCELLED" /\ status' = "CANCELLED"
           \/ slot'[s] = "ACTIVE" /\ status' = "ACTIVE" /\ cause'[s] = "reopened"]_vars
  BY ExamSteps DEF Promised, ComesBack
<1>3. Spec => ClosedOnTime
  BY ExamInvariant, <1>1, PTL DEF Spec, ClosedOnTime
<1>4. Spec => Reopened
  BY ExamInvariant, <1>2, PTL DEF Spec, Reopened
<1> QED
  BY <1>3, <1>4 DEF SlotsEnd

-----------------------------------------------------------------------------
(* Reminders *)

\* A reminder is a slot of the exam and a version.
LEMMA NoteParts ==
    /\ \A n \in Notes : n[1] \in Sittings /\ n[2] \in 0 .. MaxSeconds
    /\ \A s \in Sittings, k \in 0 .. MaxSeconds :
          <<s, k>> \in Notes /\ <<s, k>>[1] = s /\ <<s, k>>[2] = k
    /\ \A n \in Notes : n = <<n[1], n[2]>>
BY DEF Notes

\* A slot has no more windows than it was moved, and one.
WindowsCounted == \A s \in Sittings : windowNo[s] <= moves + 1

\* A task has a slot and, once it knows the second, a version; what it lists and
\* removes is empty outside the steps that use it.
TasksReady ==
    \A t \in Tasks :
        /\ doing[t] # "idle" => forSlot[t] \in Sittings
        /\ doing[t] # "remove" => toRemove[t] = {}

\* The worker has a reminder exactly at its steps.
HandFull == hand = NoNote <=> sending = "idle"

TypeInv == ReminderTypeOK /\ WindowsCounted /\ TasksReady /\ HandFull

\* A faults counter stays within its bound.
LEMMA FaultCounted == ASSUME ReminderTypeOK, Fault PROVE faults' \in 0 .. MaxFaults
BY ReminderAssumption DEF ReminderTypeOK, Fault

\* The rows, the jobs and the local variables of the tasks and the worker keep
\* their types, and a job is active exactly while the worker has it.
THEOREM TypeInvariant == ReminderSpec => []TypeInv
<1> USE ReminderAssumption DEF TypeInv
<1>1. ReminderInit => TypeInv
  <2> SUFFICES ASSUME ReminderInit PROVE TypeInv
    OBVIOUS
  <2>1. ReminderTypeOK
    BY NoteParts DEF ReminderInit, ReminderTypeOK, NoteStatuses, TaskSteps, SendSteps
  <2> QED
    BY <2>1 DEF ReminderInit, WindowsCounted, TasksReady, HandFull
<1>2. TypeInv /\ [ReminderNext]_reminderVars => TypeInv'
  <2> SUFFICES ASSUME TypeInv, [ReminderNext]_reminderVars PROVE TypeInv'
    OBVIOUS
  <2> USE FaultCounted DEF ReminderTypeOK, WindowsCounted, TasksReady, HandFull,
          NoteStatuses, TaskSteps, SendSteps, Goes
  <2>1. ASSUME NEW t \in Tasks, NEW s \in Sittings, Move(t, s) PROVE TypeInv'
    <3>1. windowNo[s] + 1 \in 1 .. MaxMoves + 1
      BY <2>1 DEF Move
    <3>2. ReminderTypeOK'
      BY <2>1, <3>1 DEF Move, senderVars
    <3>3. WindowsCounted'
      BY <2>1 DEF Move
    <3> QED
      BY <2>1, <3>2, <3>3 DEF Move, senderVars
  <2>2. ASSUME NEW t \in Tasks, TakeVersion(t) PROVE TypeInv'
    BY <2>2 DEF TakeVersion, senderVars, pastVars
  <2>3. ASSUME NEW t \in Tasks, ListPending(t) PROVE TypeInv'
    BY <2>3 DEF ListPending, senderVars
  <2>4. ASSUME NEW t \in Tasks, NEW n \in Notes, RemoveJob(t, n) PROVE TypeInv'
    BY <2>4 DEF RemoveJob, senderVars
  <2>5. ASSUME NEW t \in Tasks, CancelRows(t) PROVE TypeInv'
    BY <2>5 DEF CancelRows, senderVars
  <2>6. ASSUME NEW t \in Tasks, Upsert(t) PROVE TypeInv'
    <3>1. PICK n \in Notes : n = <<forSlot[t], stamp[t]>>
      BY <2>6, NoteParts DEF Upsert
    <3>2. ReminderTypeOK'
      BY <2>6, <3>1 DEF Upsert, senderVars
    <3> QED
      BY <2>6, <3>2 DEF Upsert, senderVars
  <2>7. ASSUME NEW t \in Tasks, Dispatch(t) PROVE TypeInv'
    <3>1. PICK n \in Notes : n = <<forSlot[t], stamp[t]>>
      BY <2>7, NoteParts DEF Dispatch
    <3>2. /\ timer' \in [Notes -> {"none", "waiting", "active", "kept"}]
          /\ tells' \in [Notes -> 0 .. MaxMoves + 1]
          /\ \A m \in Notes : timer'[m] = "active" <=> timer[m] = "active"
      <4>1. CASE /\ timer[n] = "none" /\ timer' = [timer EXCEPT ![n] = "waiting"]
                 /\ tells' = [tells EXCEPT ![n] = announces[t]]
        BY <4>1
      <4>2. CASE UNCHANGED <<timer, tells>>
        BY <4>2
      <4> QED
        BY <2>7, <3>1, <4>1, <4>2 DEF Dispatch
    <3>3. faults' \in 0 .. MaxFaults
      BY <2>7 DEF Dispatch
    <3>4. ReminderTypeOK'
      BY <2>7, <3>2, <3>3 DEF Dispatch, senderVars
    <3> QED
      BY <2>7, <3>4 DEF Dispatch, senderVars
  <2>8. ASSUME NEW n \in Notes, TakeJob(n) PROVE TypeInv'
    BY <2>8 DEF TakeJob, WorkerLeaves, taskVars
  <2>9. CASE LoadRow
    BY <2>9 DEF LoadRow, EndsJob, WorkerLeaves, taskVars
  <2>10. CASE SendMessage
    BY <2>10 DEF SendMessage, WorkerLeaves, taskVars
  <2>11. CASE RecordSent
    BY <2>11 DEF RecordSent, EndsJob, WorkerLeaves, taskVars
  <2>12. CASE RecordFailure
    BY <2>12 DEF RecordFailure, EndsJob, WorkerLeaves, taskVars
  <2>13. CASE CrashServer
    BY <2>13 DEF CrashServer
  <2>14. CASE UNCHANGED reminderVars
    BY <2>14 DEF reminderVars, taskVars, senderVars, pastVars
  <2> QED
    BY <2>1, <2>2, <2>3, <2>4, <2>5, <2>6, <2>7, <2>8, <2>9, <2>10, <2>11, <2>12, <2>13, <2>14
    DEF ReminderNext
<1> QED
  BY <1>1, <1>2, PTL DEF ReminderSpec

-----------------------------------------------------------------------------
(* Nobody is told twice *)

\* A message that is on record was sent once: its row says SENT, or the worker
\* is about to say so.  While the worker sends, the row does not say SENT.
OnRecord ==
    /\ sending \in {"send", "record", "retry", "fail"} => reminder[hand] # "SENT"
    /\ \A n \in Notes \ unrecorded :
          \/ messages[n] = 0
          \/ messages[n] = 1 /\ (reminder[n] = "SENT" \/ (hand = n /\ sending = "record"))

\* A reminder is sent once, whatever the tasks, the worker and the failures do,
\* as long as the record of it is neither lost nor overwritten (ToldOnce).
THEOREM OnRecordInvariant == ReminderSpec => []OnRecord
<1> USE ReminderAssumption
<1>1. ReminderInit => OnRecord
  BY DEF ReminderInit, OnRecord
<1>2. TypeInv /\ OnRecord /\ [ReminderNext]_reminderVars => OnRecord'
  <2> SUFFICES ASSUME TypeInv, OnRecord, [ReminderNext]_reminderVars PROVE OnRecord'
    OBVIOUS
  <2> USE DEF TypeInv, ReminderTypeOK, HandFull, OnRecord, Goes
  <2>1. ASSUME NEW t \in Tasks, NEW s \in Sittings, Move(t, s) PROVE OnRecord'
    BY <2>1 DEF Move, senderVars
  <2>2. ASSUME NEW t \in Tasks, TakeVersion(t) PROVE OnRecord'
    BY <2>2 DEF TakeVersion, senderVars, pastVars
  <2>3. ASSUME NEW t \in Tasks, ListPending(t) PROVE OnRecord'
    BY <2>3 DEF ListPending, senderVars
  <2>4. ASSUME NEW t \in Tasks, NEW n \in Notes, RemoveJob(t, n) PROVE OnRecord'
    BY <2>4 DEF RemoveJob, senderVars
  <2>5. ASSUME NEW t \in Tasks, CancelRows(t) PROVE OnRecord'
    BY <2>5 DEF CancelRows, senderVars
  <2>6. ASSUME NEW t \in Tasks, Upsert(t) PROVE OnRecord'
    <3>1. PICK n \in Notes : n = <<forSlot[t], stamp[t]>>
      BY <2>6, NoteParts DEF Upsert, TasksReady
    <3> QED
      BY <2>6, <3>1 DEF Upsert, senderVars
  <2>7. ASSUME NEW t \in Tasks, Dispatch(t) PROVE OnRecord'
    BY <2>7 DEF Dispatch, senderVars
  <2>8. ASSUME NEW n \in Notes, TakeJob(n) PROVE OnRecord'
    BY <2>8 DEF TakeJob, WorkerLeaves, taskVars
  <2>9. CASE LoadRow
    BY <2>9 DEF LoadRow, EndsJob, WorkerLeaves, taskVars
  <2>10. CASE SendMessage
    BY <2>10 DEF SendMessage, WorkerLeaves, taskVars
  <2>11. CASE RecordSent
    BY <2>11 DEF RecordSent, EndsJob, WorkerLeaves, taskVars
  <2>12. CASE RecordFailure
    BY <2>12 DEF RecordFailure, EndsJob, WorkerLeaves, taskVars
  <2>13. CASE CrashServer
    BY <2>13 DEF CrashServer
  <2>14. CASE UNCHANGED reminderVars
    BY <2>14 DEF reminderVars, taskVars, senderVars, pastVars
  <2> QED
    BY <2>1, <2>2, <2>3, <2>4, <2>5, <2>6, <2>7, <2>8, <2>9, <2>10, <2>11, <2>12, <2>13, <2>14
    DEF ReminderNext
<1> QED
  BY <1>1, <1>2, TypeInvariant, PTL DEF ReminderSpec

-----------------------------------------------------------------------------
(* What a task knows *)

\* The steps of the worker.
WorkerStep ==
    \/ \E n \in Notes : TakeJob(n)
    \/ LoadRow \/ SendMessage \/ RecordSent \/ RecordFailure

\* Upsert changes one row at most, of the slot and the version of its task: it
\* adds it, or the slot is spoiled.
LEMMA UpsertEffect ==
    ASSUME TypeInv, NEW t \in Tasks, Upsert(t)
    PROVE  /\ UNCHANGED <<second, windowNo, timer, tells, listed, toRemove, excused, bereft>>
           /\ spoiled \subseteq spoiled'
           /\ \A u \in Tasks \ {t} : UNCHANGED <<doing[u], forSlot[u], announces[u], stamp[u]>>
           /\ doing[t] = "upsert" /\ forSlot[t] \in Sittings
           /\ \/ doing'[t] = "dispatch" /\ UNCHANGED <<forSlot[t], announces[t], stamp[t]>>
              \/ doing'[t] = "idle" /\ stamp'[t] = 0 /\ forSlot[t] \in spoiled'
           /\ \E n \in Notes :
                 /\ n[1] = forSlot[t] /\ n[2] = stamp[t]
                 /\ \A m \in Notes : m[1] = n[1] /\ m[2] = n[2] => m = n
                 /\ \A m \in Notes \ {n} : reminder'[m] = reminder[m]
                 /\ reminder[n] # "none" => reminder'[n] # "none" /\ forSlot[t] \in spoiled'
                 /\ doing'[t] = "dispatch" => reminder'[n] # "none"
<1> USE NoteParts DEF TypeInv, ReminderTypeOK, TasksReady, Goes
<1>1. /\ UNCHANGED <<second, windowNo, timer, tells, listed, toRemove, excused, bereft>>
      /\ spoiled \subseteq spoiled'
      /\ doing[t] = "upsert" /\ forSlot[t] \in Sittings
  BY DEF Upsert
<1>2. \A u \in Tasks \ {t} : UNCHANGED <<doing[u], forSlot[u], announces[u], stamp[u]>>
  BY DEF Upsert
<1>3. \/ doing'[t] = "dispatch" /\ UNCHANGED <<forSlot[t], announces[t], stamp[t]>>
      \/ doing'[t] = "idle" /\ stamp'[t] = 0 /\ forSlot[t] \in spoiled'
  BY DEF Upsert
<1>4. PICK n \in Notes : n = <<forSlot[t], stamp[t]>>
  BY <1>1
<1>5. n[1] = forSlot[t] /\ n[2] = stamp[t]
  BY <1>4
<1>6. \A m \in Notes : m[1] = n[1] /\ m[2] = n[2] => m = n
  OBVIOUS
<1>7. \A m \in Notes \ {n} : reminder'[m] = reminder[m]
  BY <1>4 DEF Upsert
<1>8. reminder[n] # "none" => reminder'[n] # "none" /\ forSlot[t] \in spoiled'
  BY <1>4 DEF Upsert
<1>9. doing'[t] = "dispatch" => reminder'[n] # "none"
  BY <1>4 DEF Upsert
<1> QED
  BY <1>1, <1>2, <1>3, <1>5, <1>6, <1>7, <1>8, <1>9

\* Rows are there before their jobs and when they are listed, and no row or
\* task has a version that is still to come.
RowsFirst ==
    /\ \A n \in Notes : timer[n] # "none" => reminder[n] # "none"
    /\ \A n \in Notes : reminder[n] # "none" => n[2] <= second
    /\ \A t \in Tasks : stamp[t] <= second
    /\ \A t \in Tasks : \A n \in listed[t] : reminder[n] # "none"
    /\ \A t \in Tasks : doing[t] = "dispatch" =>
          \A n \in Notes : n[1] = forSlot[t] /\ n[2] = stamp[t] => reminder[n] # "none"

\* The worker leaves the tasks and the past alone; it neither adds nor removes
\* rows and jobs, and revives none.
LEMMA WorkerEffect ==
    ASSUME TypeInv, RowsFirst, WorkerStep
    PROVE  /\ UNCHANGED <<second, windowNo, tells, taskVars, excused, spoiled, bereft>>
           /\ \A m \in Notes :
                 /\ timer'[m] = "none" <=> timer[m] = "none"
                 /\ timer'[m] \in {"waiting", "active"} => timer[m] \in {"waiting", "active"}
                 /\ reminder'[m] = "none" <=> reminder[m] = "none"
<1> USE DEF TypeInv, ReminderTypeOK, HandFull, WorkerLeaves, taskVars
<1>1. CASE \E n \in Notes : TakeJob(n)
  BY <1>1 DEF TakeJob, RowsFirst
<1>2. hand # NoNote => hand \in Notes /\ timer[hand] = "active" /\ reminder[hand] # "none"
  BY DEF RowsFirst
<1>3. CASE LoadRow
  BY <1>2, <1>3 DEF LoadRow, EndsJob
<1>4. CASE SendMessage
  BY <1>4 DEF SendMessage
<1>5. CASE RecordSent
  BY <1>2, <1>5 DEF RecordSent, EndsJob
<1>6. CASE RecordFailure
  BY <1>2, <1>6 DEF RecordFailure, EndsJob
<1> QED
  BY <1>1, <1>3, <1>4, <1>5, <1>6 DEF WorkerStep

\* Of two tasks that run, both have spoiled their slots.
Disturbed ==
    \A t, u \in Tasks :
        doing[t] # "idle" /\ doing[u] # "idle" /\ t # u => forSlot[t] \in spoiled

\* A task that nothing disturbed announces the window of its slot, its version is
\* as high as those of the slot's rows, and the job it is about to add is new.
Undisturbed ==
    \A t \in Tasks :
        doing[t] # "idle" /\ forSlot[t] \notin spoiled =>
            /\ announces[t] = windowNo[forSlot[t]]
            /\ doing[t] # "version" =>
                  \A n \in Notes : n[1] = forSlot[t] /\ reminder[n] # "none" => n[2] <= stamp[t]
            /\ doing[t] = "dispatch" =>
                  \A n \in Notes : n[1] = forSlot[t] /\ n[2] = stamp[t] => timer[n] = "none"

\* Rows come before jobs (Upsert before Dispatch).
THEOREM RowsFirstInvariant == ReminderSpec => []RowsFirst
<1> USE ReminderAssumption
<1>1. ReminderInit => RowsFirst
  BY NoteParts DEF ReminderInit, RowsFirst
<1>2. TypeInv /\ RowsFirst /\ [ReminderNext]_reminderVars => RowsFirst'
  <2> SUFFICES ASSUME TypeInv, RowsFirst, [ReminderNext]_reminderVars PROVE RowsFirst'
    OBVIOUS
  <2> USE NoteParts DEF TypeInv, ReminderTypeOK, TasksReady, RowsFirst, Goes
  <2>1. ASSUME NEW t \in Tasks, NEW s \in Sittings, Move(t, s) PROVE RowsFirst'
    BY <2>1 DEF Move, senderVars
  <2>2. ASSUME NEW t \in Tasks, TakeVersion(t) PROVE RowsFirst'
    BY <2>2 DEF TakeVersion, senderVars, pastVars
  <2>3. ASSUME NEW t \in Tasks, ListPending(t) PROVE RowsFirst'
    <3>1. UNCHANGED <<second, reminder, timer, stamp, forSlot>> /\ doing'[t] = "remove"
          /\ \A u \in Tasks \ {t} : doing'[u] = doing[u]
      BY <2>3 DEF ListPending
    <3>2. listed'[t] \in {listed[t], {n \in Notes : reminder[n] = "QUEUED" /\ n[2] < stamp[t]}}
      BY <2>3 DEF ListPending
    <3>3. \A u \in Tasks \ {t} : listed'[u] = listed[u]
      BY <2>3 DEF ListPending
    <3>4. ASSUME NEW u \in Tasks, NEW n \in listed'[u] PROVE reminder[n] # "none"
      BY <3>2, <3>3, <3>4
    <3>5. ASSUME NEW u \in Tasks, doing'[u] = "dispatch" PROVE doing[u] = "dispatch"
      BY <3>1, <3>5
    <3>6. RowsFirst
      OBVIOUS
    <3> QED
      BY <3>1, <3>4, <3>5, <3>6
  <2>4. ASSUME NEW t \in Tasks, NEW n \in Notes, RemoveJob(t, n) PROVE RowsFirst'
    BY <2>4 DEF RemoveJob, senderVars
  <2>5. ASSUME NEW t \in Tasks, CancelRows(t) PROVE RowsFirst'
    BY <2>5 DEF CancelRows, senderVars
  <2>6. ASSUME NEW t \in Tasks, Upsert(t) PROVE RowsFirst'
    <3>1. PICK n \in Notes :
             /\ n[1] = forSlot[t] /\ n[2] = stamp[t]
             /\ \A m \in Notes : m[1] = n[1] /\ m[2] = n[2] => m = n
             /\ \A m \in Notes \ {n} : reminder'[m] = reminder[m]
             /\ reminder[n] # "none" => reminder'[n] # "none"
             /\ doing'[t] = "dispatch" => reminder'[n] # "none"
      BY <2>6, UpsertEffect
    <3>2. \A m \in Notes : reminder[m] # "none" => reminder'[m] # "none"
      BY <3>1
    <3>3. /\ UNCHANGED <<second, timer, listed>>
          /\ \A u \in Tasks \ {t} : UNCHANGED <<doing[u], forSlot[u], stamp[u]>>
          /\ \/ doing'[t] = "dispatch" /\ UNCHANGED <<forSlot[t], stamp[t]>>
             \/ doing'[t] = "idle" /\ stamp'[t] = 0
      BY <2>6, UpsertEffect
    <3>4. \A m \in Notes : reminder'[m] # "none" => m[2] <= second
      BY <3>1
    <3>5. \A u \in Tasks : stamp'[u] <= second
      BY <3>3
    <3>6. ASSUME NEW u \in Tasks, doing'[u] = "dispatch", NEW m \in Notes,
                 m[1] = forSlot'[u], m[2] = stamp'[u]
          PROVE  reminder'[m] # "none"
      <4>1. CASE u = t
        BY <3>1, <3>3, <3>6, <4>1
      <4>2. CASE u # t
        BY <3>2, <3>3, <3>6, <4>2
      <4> QED
        BY <4>1, <4>2
    <3> QED
      BY <3>2, <3>3, <3>4, <3>5, <3>6
  <2>7. ASSUME NEW t \in Tasks, Dispatch(t) PROVE RowsFirst'
    <3>1. PICK n \in Notes : n = <<forSlot[t], stamp[t]>>
      BY <2>7, NoteParts DEF Dispatch
    <3>2. n[1] = forSlot[t] /\ n[2] = stamp[t]
      BY <3>1
    <3> QED
      BY <2>7, <3>1, <3>2 DEF Dispatch, senderVars
  <2>8. CASE WorkerStep
    BY <2>8, WorkerEffect DEF taskVars
  <2>9. CASE CrashServer
    BY <2>9 DEF CrashServer
  <2>10. CASE UNCHANGED reminderVars
    BY <2>10 DEF reminderVars, taskVars, senderVars, pastVars
  <2> QED
    BY <2>1, <2>2, <2>3, <2>4, <2>5, <2>6, <2>7, <2>8, <2>9, <2>10
    DEF ReminderNext, WorkerStep
<1> QED
  BY <1>1, <1>2, TypeInvariant, PTL DEF ReminderSpec

\* Two tasks that meet spoil the slots of both (Move).
THEOREM DisturbedInvariant == ReminderSpec => []Disturbed
<1> USE ReminderAssumption
<1>1. ReminderInit => Disturbed
  BY DEF ReminderInit, Disturbed
<1>2. TypeInv /\ RowsFirst /\ Disturbed /\ [ReminderNext]_reminderVars => Disturbed'
  <2> SUFFICES ASSUME TypeInv /\ RowsFirst, Disturbed, [ReminderNext]_reminderVars PROVE Disturbed'
    OBVIOUS
  <2> USE NoteParts DEF TypeInv, ReminderTypeOK, TasksReady, Disturbed, Running, Goes
  <2>1. ASSUME NEW t \in Tasks, NEW s \in Sittings, Move(t, s) PROVE Disturbed'
    BY <2>1 DEF Move, senderVars
  <2>2. ASSUME NEW t \in Tasks, TakeVersion(t) PROVE Disturbed'
    BY <2>2 DEF TakeVersion, senderVars, pastVars
  <2>3. ASSUME NEW t \in Tasks, ListPending(t) PROVE Disturbed'
    BY <2>3 DEF ListPending, senderVars
  <2>4. ASSUME NEW t \in Tasks, NEW n \in Notes, RemoveJob(t, n) PROVE Disturbed'
    BY <2>4 DEF RemoveJob, senderVars
  <2>5. ASSUME NEW t \in Tasks, CancelRows(t) PROVE Disturbed'
    BY <2>5 DEF CancelRows, senderVars
  <2>6. ASSUME NEW t \in Tasks, Upsert(t) PROVE Disturbed'
    BY <2>6 DEF Upsert, senderVars
  <2>7. ASSUME NEW t \in Tasks, Dispatch(t) PROVE Disturbed'
    BY <2>7 DEF Dispatch, senderVars
  <2>8. CASE WorkerStep
    BY <2>8, WorkerEffect DEF taskVars
  <2>9. CASE CrashServer
    BY <2>9 DEF CrashServer
  <2>10. CASE UNCHANGED reminderVars
    BY <2>10 DEF reminderVars, taskVars, senderVars, pastVars
  <2> QED
    BY <2>1, <2>2, <2>3, <2>4, <2>5, <2>6, <2>7, <2>8, <2>9, <2>10
    DEF ReminderNext, WorkerStep
<1> QED
  BY <1>1, <1>2, TypeInvariant, RowsFirstInvariant, PTL DEF ReminderSpec

\* What a task has read stays true of its slot unless another task disturbs it.
THEOREM UndisturbedInvariant == ReminderSpec => []Undisturbed
<1> USE ReminderAssumption
<1>1. ReminderInit => Undisturbed
  BY NoteParts DEF ReminderInit, Undisturbed
<1>2. TypeInv /\ RowsFirst /\ Disturbed /\ Undisturbed /\ [ReminderNext]_reminderVars => Undisturbed'
  <2> SUFFICES ASSUME TypeInv /\ RowsFirst /\ Disturbed, Undisturbed, [ReminderNext]_reminderVars PROVE Undisturbed'
    OBVIOUS
  <2> USE NoteParts DEF TypeInv, ReminderTypeOK, TasksReady, RowsFirst, Disturbed, Undisturbed, Running, Goes
  <2>1. ASSUME NEW t \in Tasks, NEW s \in Sittings, Move(t, s) PROVE Undisturbed'
    BY <2>1 DEF Move, senderVars
  <2>2. ASSUME NEW t \in Tasks, TakeVersion(t) PROVE Undisturbed'
    BY <2>2 DEF TakeVersion, senderVars, pastVars
  <2>3. ASSUME NEW t \in Tasks, ListPending(t) PROVE Undisturbed'
    BY <2>3 DEF ListPending, senderVars
  <2>4. ASSUME NEW t \in Tasks, NEW n \in Notes, RemoveJob(t, n) PROVE Undisturbed'
    BY <2>4 DEF RemoveJob, senderVars
  <2>5. ASSUME NEW t \in Tasks, CancelRows(t) PROVE Undisturbed'
    BY <2>5 DEF CancelRows, senderVars
  <2>6. ASSUME NEW t \in Tasks, Upsert(t) PROVE Undisturbed'
    <3>1. PICK n \in Notes :
             /\ n[1] = forSlot[t] /\ n[2] = stamp[t]
             /\ \A m \in Notes : m[1] = n[1] /\ m[2] = n[2] => m = n
             /\ \A m \in Notes \ {n} : reminder'[m] = reminder[m]
             /\ reminder[n] # "none" => forSlot[t] \in spoiled'
      BY <2>6, UpsertEffect
    <3>2. /\ UNCHANGED <<second, windowNo, timer>>
          /\ spoiled \subseteq spoiled'
          /\ \A u \in Tasks \ {t} : UNCHANGED <<doing[u], forSlot[u], announces[u], stamp[u]>>
          /\ doing[t] = "upsert"
          /\ doing'[t] # "idle" => doing'[t] = "dispatch" /\ UNCHANGED <<forSlot[t], announces[t], stamp[t]>>
      BY <2>6, UpsertEffect
    <3>3. ASSUME NEW u \in Tasks, doing'[u] # "idle", forSlot'[u] \notin spoiled'
          PROVE  /\ announces'[u] = windowNo'[forSlot'[u]]
                 /\ doing'[u] # "version" =>
                      \A m \in Notes : m[1] = forSlot'[u] /\ reminder'[m] # "none" => m[2] <= stamp'[u]
                 /\ doing'[u] = "dispatch" =>
                      \A m \in Notes : m[1] = forSlot'[u] /\ m[2] = stamp'[u] => timer'[m] = "none"
      <4>1. CASE u = t
        <5>1. reminder[n] = "none" /\ timer[n] = "none"
          BY <3>1, <3>2, <3>3, <4>1
        <5>2. /\ doing'[t] = "dispatch" /\ forSlot[t] \notin spoiled
              /\ UNCHANGED <<forSlot[t], announces[t], stamp[t]>>
          BY <3>2, <3>3, <4>1
        <5>3. announces'[t] = windowNo'[forSlot'[t]]
          BY <3>2, <5>2
        <5>4. ASSUME NEW m \in Notes, m[1] = forSlot[t], reminder'[m] # "none"
              PROVE  m[2] <= stamp[t]
          <6>1. CASE m = n
            BY <3>1, <6>1
          <6>2. CASE m # n
            BY <3>1, <3>2, <5>2, <5>4, <6>2
          <6> QED
            BY <6>1, <6>2
        <5>5. ASSUME NEW m \in Notes, m[1] = forSlot[t], m[2] = stamp[t] PROVE timer[m] = "none"
          BY <3>1, <5>1, <5>5
        <5> QED
          BY <3>2, <4>1, <5>2, <5>3, <5>4, <5>5
      <4>2. CASE u # t
        <5>1. forSlot[u] # forSlot[t]
          BY <3>2, <3>3, <4>2
        <5> QED
          BY <3>1, <3>2, <3>3, <4>2, <5>1
      <4> QED
        BY <4>1, <4>2
    <3> QED
      BY <3>3
  <2>7. ASSUME NEW t \in Tasks, Dispatch(t) PROVE Undisturbed'
    <3>1. PICK n \in Notes : n = <<forSlot[t], stamp[t]>>
      BY <2>7, NoteParts DEF Dispatch
    <3>2. n[1] = forSlot[t] /\ n[2] = stamp[t]
      BY <3>1
    <3>3. \A m \in Notes : m # n => timer'[m] = timer[m]
      BY <2>7, <3>1 DEF Dispatch
    <3>4. /\ UNCHANGED <<second, windowNo, reminder>> /\ spoiled \subseteq spoiled'
          /\ \A u \in Tasks \ {t} : UNCHANGED <<doing[u], forSlot[u], announces[u], stamp[u]>>
          /\ doing'[t] = "idle" /\ doing[t] = "dispatch"
      BY <2>7 DEF Dispatch
    <3> QED
      BY <3>2, <3>3, <3>4
  <2>8. CASE WorkerStep
    BY <2>8, WorkerEffect DEF taskVars
  <2>9. CASE CrashServer
    BY <2>9 DEF CrashServer
  <2>10. CASE UNCHANGED reminderVars
    BY <2>10 DEF reminderVars, taskVars, senderVars, pastVars
  <2> QED
    BY <2>1, <2>2, <2>3, <2>4, <2>5, <2>6, <2>7, <2>8, <2>9, <2>10
    DEF ReminderNext, WorkerStep
<1> QED
  BY <1>1, <1>2, TypeInvariant, RowsFirstInvariant, DisturbedInvariant, PTL DEF ReminderSpec

-----------------------------------------------------------------------------
(* The reminders follow the windows *)

\* A job that is still to be done tells a window its slot no longer has.
Stale(n) == timer[n] \in {"waiting", "active"} /\ tells[n] # windowNo[n[1]]

\* Task t has yet to look at reminder n of its slot, or to find its key taken.
WillGo(t, n) ==
    /\ forSlot[t] = n[1]
    /\ \/ doing[t] \in {"version", "list"}
       \/ doing[t] = "remove" /\ n \in toRemove[t]
       \/ doing[t] \in {"remove", "upsert"} /\ n[2] = stamp[t]

OldHandled ==
    \A n \in Notes :
        Stale(n) => \/ n \in excused \/ n[1] \in spoiled
                    \/ \E t \in Tasks : WillGo(t, n)

\* A number that is at most another is less or the same.
LEMMA AtMost == \A i, j \in Nat : i <= j => i < j \/ i = j
OBVIOUS

\* A job that tells an old window is excused, its slot was disturbed, or a task
\* still has it before it (OldRemindersGone once no task runs).
THEOREM OldHandledInvariant == ReminderSpec => []OldHandled
<1> USE ReminderAssumption
<1>1. ReminderInit => OldHandled
  BY NoteParts DEF ReminderInit, OldHandled, Stale
<1>2. TypeInv /\ RowsFirst /\ Undisturbed /\ OldHandled /\ [ReminderNext]_reminderVars => OldHandled'
  <2> SUFFICES ASSUME TypeInv, RowsFirst, Undisturbed, OldHandled,
                      [ReminderNext]_reminderVars, NEW n \in Notes, Stale(n)',
                      n \notin excused', n[1] \notin spoiled'
               PROVE  \E u \in Tasks : WillGo(u, n)'
    BY DEF OldHandled
  <2> USE NoteParts DEF TypeInv, ReminderTypeOK, TasksReady, Stale
  <2>0. ASSUME Stale(n), n \notin excused, n[1] \notin spoiled
        PROVE  \E u \in Tasks : WillGo(u, n)
    BY <2>0 DEF OldHandled
  <2>1. ASSUME NEW t \in Tasks, NEW s \in Sittings, Move(t, s)
        PROVE  \E u \in Tasks : WillGo(u, n)'
    <3>1. /\ UNCHANGED <<timer, tells, excused, toRemove, stamp>> /\ spoiled \subseteq spoiled'
          /\ doing'[t] = "version" /\ forSlot'[t] = s
          /\ \A u \in Tasks \ {t} : UNCHANGED <<doing[u], forSlot[u]>>
          /\ doing[t] = "idle"
          /\ \A m \in Sittings \ {s} : windowNo'[m] = windowNo[m]
      BY <2>1 DEF Move
    <3>2. CASE n[1] = s
      BY <3>1, <3>2 DEF WillGo
    <3>3. CASE n[1] # s
      <4>1. Stale(n)
        BY <3>1, <3>3
      <4>2. PICK u \in Tasks : WillGo(u, n)
        BY <2>0, <3>1, <4>1
      <4> QED
        BY <3>1, <4>2 DEF WillGo
    <3> QED
      BY <3>2, <3>3
  <2>2. ASSUME NEW t \in Tasks, TakeVersion(t) PROVE \E u \in Tasks : WillGo(u, n)'
    <3>1. UNCHANGED <<timer, tells, windowNo, excused, spoiled, forSlot, toRemove>>
      BY <2>2 DEF TakeVersion, pastVars
    <3>2. PICK u \in Tasks : WillGo(u, n)
      BY <2>0, <3>1
    <3> QED
      BY <2>2, <3>1, <3>2 DEF TakeVersion, WillGo
  <2>3. ASSUME NEW t \in Tasks, ListPending(t) PROVE \E u \in Tasks : WillGo(u, n)'
    <3>1. /\ UNCHANGED <<timer, tells, windowNo, spoiled, forSlot, stamp, reminder>>
          /\ excused \subseteq excused'
          /\ doing[t] = "list" /\ doing'[t] = "remove"
          /\ \A u \in Tasks \ {t} : UNCHANGED <<doing[u], toRemove[u]>>
      BY <2>3 DEF ListPending, Goes
    <3>2. PICK u \in Tasks : WillGo(u, n)
      BY <2>0, <3>1
    <3>3. CASE u # t
      BY <3>1, <3>2, <3>3 DEF WillGo
    <3>4. CASE u = t
      <4>1. reminder[n] # "none" /\ forSlot[t] = n[1] /\ forSlot[t] \notin spoiled
        BY <3>1, <3>2, <3>4 DEF WillGo, RowsFirst
      <4>2. n[2] <= stamp[t] /\ stamp[t] \in Nat /\ n[2] \in Nat
        BY <3>1, <4>1 DEF Undisturbed
      <4>3. n[2] < stamp[t] => n \in toRemove'[t]
        BY <2>3, <4>1 DEF ListPending
      <4>4. n \in toRemove'[t] \/ n[2] = stamp[t]
        BY <4>2, <4>3, AtMost, Zenon
      <4>5. doing'[t] = "remove" /\ forSlot'[t] = n[1] /\ stamp'[t] = stamp[t]
        BY <3>1, <4>1
      <4>6. WillGo(t, n)'
        BY <4>4, <4>5 DEF WillGo
      <4> QED
        BY <4>6
    <3> QED
      BY <3>3, <3>4
  <2>4. ASSUME NEW t \in Tasks, NEW m \in Notes, RemoveJob(t, m)
        PROVE  \E u \in Tasks : WillGo(u, n)'
    <3>1. /\ UNCHANGED <<tells, windowNo, spoiled, forSlot, stamp, doing>>
          /\ excused \subseteq excused'
          /\ timer' = timer \/ timer' = [timer EXCEPT ![m] = "none"]
          /\ m \in excused' \/ timer'[m] = "none"
          /\ \A u \in Tasks : toRemove[u] \ {m} \subseteq toRemove'[u]
      BY <2>4 DEF RemoveJob
    <3>2. n # m
      BY <3>1
    <3>3. Stale(n)
      BY <3>1, <3>2
    <3>4. PICK u \in Tasks : WillGo(u, n)
      BY <2>0, <3>1, <3>3
    <3> QED
      BY <3>1, <3>2, <3>4 DEF WillGo
  <2>5. ASSUME NEW t \in Tasks, CancelRows(t) PROVE \E u \in Tasks : WillGo(u, n)'
    <3>1. /\ UNCHANGED <<timer, tells, windowNo, spoiled, excused, forSlot, stamp, toRemove>>
          /\ doing[t] = "remove" /\ doing'[t] = "upsert" /\ toRemove[t] = {}
          /\ \A u \in Tasks \ {t} : doing'[u] = doing[u]
      BY <2>5 DEF CancelRows, Goes
    <3>2. PICK u \in Tasks : WillGo(u, n)
      BY <2>0, <3>1
    <3> QED
      BY <3>1, <3>2 DEF WillGo
  <2>6. ASSUME NEW t \in Tasks, Upsert(t) PROVE \E u \in Tasks : WillGo(u, n)'
    <3>1. /\ UNCHANGED <<timer, tells, windowNo, excused, toRemove>>
          /\ spoiled \subseteq spoiled'
          /\ \A u \in Tasks \ {t} : UNCHANGED <<doing[u], forSlot[u], stamp[u]>>
          /\ doing[t] = "upsert"
      BY <2>6, UpsertEffect
    <3>2. PICK m \in Notes :
             /\ m[1] = forSlot[t] /\ m[2] = stamp[t]
             /\ \A k \in Notes : k[1] = m[1] /\ k[2] = m[2] => k = m
             /\ reminder[m] # "none" => forSlot[t] \in spoiled'
      BY <2>6, UpsertEffect
    <3>3. PICK u \in Tasks : WillGo(u, n)
      BY <2>0, <3>1
    <3>4. u # t
      <4>1. SUFFICES ASSUME u = t PROVE FALSE
        OBVIOUS
      <4>2. n = m
        BY <3>1, <3>2, <3>3, <4>1 DEF WillGo
      <4> QED
        BY <3>1, <3>2, <4>2 DEF RowsFirst
    <3> QED
      BY <3>1, <3>3, <3>4 DEF WillGo
  <2>7. ASSUME NEW t \in Tasks, Dispatch(t) PROVE \E u \in Tasks : WillGo(u, n)'
    <3>1. PICK m \in Notes : m = <<forSlot[t], stamp[t]>>
      BY <2>7, NoteParts DEF Dispatch
    <3>2. m[1] = forSlot[t]
      BY <3>1
    <3>3. /\ UNCHANGED <<windowNo, excused, toRemove>> /\ spoiled \subseteq spoiled'
          /\ \A u \in Tasks \ {t} : UNCHANGED <<doing[u], forSlot[u], stamp[u]>>
          /\ doing[t] = "dispatch"
      BY <2>7 DEF Dispatch, Goes
    <3>4. \/ UNCHANGED <<timer, tells>>
          \/ /\ timer' = [timer EXCEPT ![m] = "waiting"]
             /\ tells' = [tells EXCEPT ![m] = announces[t]]
      BY <2>7, <3>1 DEF Dispatch
    <3>5. Stale(n)
      <4>1. CASE n = m /\ tells'[m] = announces[t]
        BY <3>2, <3>3, <4>1 DEF Undisturbed
      <4> QED
        BY <3>3, <3>4, <4>1
    <3>6. PICK u \in Tasks : WillGo(u, n)
      BY <2>0, <3>3, <3>5
    <3> QED
      BY <3>3, <3>6 DEF WillGo
  <2>8. CASE WorkerStep
    <3>1. /\ UNCHANGED <<windowNo, tells, excused, spoiled, doing, forSlot, stamp, toRemove>>
          /\ timer'[n] \in {"waiting", "active"} => timer[n] \in {"waiting", "active"}
      BY <2>8, WorkerEffect DEF taskVars
    <3>2. PICK u \in Tasks : WillGo(u, n)
      BY <2>0, <3>1
    <3> QED
      BY <3>1, <3>2 DEF WillGo
  <2>9. CASE CrashServer
    <3>1. /\ UNCHANGED <<windowNo, tells, excused>>
          /\ spoiled' = spoiled \cup {forSlot[u] : u \in Running}
          /\ timer'[n] = IF timer[n] = "active" THEN "waiting" ELSE timer[n]
      BY <2>9 DEF CrashServer
    <3>2. PICK u \in Tasks : WillGo(u, n)
      BY <2>0, <3>1
    <3> QED
      BY <3>1, <3>2 DEF WillGo, Running
  <2>10. CASE UNCHANGED reminderVars
    BY <2>0, <2>10 DEF reminderVars, taskVars, senderVars, pastVars, WillGo
  <2> QED
    BY <2>1, <2>2, <2>3, <2>4, <2>5, <2>6, <2>7, <2>8, <2>9, <2>10
    DEF ReminderNext, WorkerStep
<1> QED
  BY <1>1, <1>2, TypeInvariant, RowsFirstInvariant, UndisturbedInvariant, PTL DEF ReminderSpec

\* Reminder n of slot s tells the window of the slot, and no task removes it.
Keeps(s, n) ==
    /\ n[1] = s /\ tells[n] = windowNo[s] /\ timer[n] # "none"
    /\ \A u \in Tasks : n \notin toRemove[u]

StillReminded ==
    \A s \in Sittings \ (spoiled \cup bereft) :
        \/ \E t \in Tasks : doing[t] # "idle" /\ forSlot[t] = s
        \/ \E n \in Notes : Keeps(s, n)

\* A slot that nothing disturbed has a task that is to remind of its window or a
\* reminder of it (CurrentReminded once no task runs).
THEOREM StillRemindedInvariant == ReminderSpec => []StillReminded
<1> USE ReminderAssumption
<1>1. ReminderInit => StillReminded
  <2> SUFFICES ASSUME ReminderInit, NEW s \in Sittings PROVE \E n \in Notes : Keeps(s, n)
    BY DEF StillReminded
  <2>1. 0 \in 0 .. MaxSeconds
    OBVIOUS
  <2>2. PICK n \in Notes : n = <<s, 0>>
    BY <2>1, Zenon DEF Notes
  <2>3. n[1] = s /\ n[2] = 0
    BY <2>2
  <2> QED
    BY <2>3 DEF ReminderInit, Keeps
<1>2. TypeInv /\ RowsFirst /\ Disturbed /\ Undisturbed /\ StillReminded
      /\ [ReminderNext]_reminderVars => StillReminded'
  <2> SUFFICES ASSUME TypeInv, RowsFirst, Disturbed, Undisturbed, StillReminded,
                      [ReminderNext]_reminderVars,
                      NEW s \in Sittings, s \notin spoiled', s \notin bereft',
                      \A t \in Tasks : ~(doing'[t] # "idle" /\ forSlot'[t] = s)
               PROVE  \E n \in Notes : Keeps(s, n)'
    BY DEF StillReminded
  <2> USE NoteParts DEF TypeInv, ReminderTypeOK, TasksReady
  <2>0. ASSUME s \notin spoiled, s \notin bereft,
               \A t \in Tasks : ~(doing[t] # "idle" /\ forSlot[t] = s)
        PROVE  \E n \in Notes : Keeps(s, n)
    BY <2>0 DEF StillReminded
  <2>1. ASSUME NEW t \in Tasks, NEW x \in Sittings, Move(t, x)
        PROVE  \E n \in Notes : Keeps(s, n)'
    <3>1. /\ UNCHANGED <<timer, tells, toRemove, bereft>> /\ spoiled \subseteq spoiled'
          /\ doing'[t] = "version" /\ forSlot'[t] = x
          /\ \A u \in Tasks \ {t} : UNCHANGED <<doing[u], forSlot[u]>>
          /\ doing[t] = "idle"
          /\ \A m \in Sittings \ {x} : windowNo'[m] = windowNo[m]
      BY <2>1 DEF Move
    <3>2. s # x
      BY <3>1
    <3>3. PICK n \in Notes : Keeps(s, n)
      BY <2>0, <3>1
    <3> QED
      BY <3>1, <3>2, <3>3 DEF Keeps
  <2>2. ASSUME NEW t \in Tasks, TakeVersion(t) PROVE \E n \in Notes : Keeps(s, n)'
    BY <2>0, <2>2 DEF TakeVersion, pastVars, Keeps
  <2>3. ASSUME NEW t \in Tasks, ListPending(t) PROVE \E n \in Notes : Keeps(s, n)'
    <3>1. /\ UNCHANGED <<timer, tells, windowNo, spoiled, forSlot>>
          /\ doing[t] = "list" /\ doing'[t] = "remove"
          /\ \A u \in Tasks \ {t} : UNCHANGED <<doing[u], toRemove[u]>>
          /\ toRemove'[t] = listed'[t]
          /\ bereft \subseteq bereft'
      BY <2>3 DEF ListPending, Goes
    <3>2. PICK n \in Notes : Keeps(s, n)
      BY <2>0, <3>1
    <3>3. n \notin listed'[t]
      <4>1. s # forSlot[t]
        BY <3>1
      <4> QED
        BY <2>3, <3>2, <4>1 DEF ListPending, Keeps
    <3> QED
      BY <3>1, <3>2, <3>3 DEF Keeps
  <2>4. ASSUME NEW t \in Tasks, NEW m \in Notes, RemoveJob(t, m)
        PROVE  \E n \in Notes : Keeps(s, n)'
    <3>1. /\ UNCHANGED <<tells, windowNo, spoiled, bereft, forSlot, doing>>
          /\ timer' = timer \/ timer' = [timer EXCEPT ![m] = "none"]
          /\ m \in toRemove[t]
          /\ \A u \in Tasks : toRemove'[u] \subseteq toRemove[u]
      BY <2>4 DEF RemoveJob
    <3>2. PICK n \in Notes : Keeps(s, n)
      BY <2>0, <3>1
    <3>3. n # m
      BY <3>1, <3>2 DEF Keeps
    <3> QED
      BY <3>1, <3>2, <3>3 DEF Keeps
  <2>5. ASSUME NEW t \in Tasks, CancelRows(t) PROVE \E n \in Notes : Keeps(s, n)'
    <3>1. /\ UNCHANGED <<timer, tells, windowNo, spoiled, bereft, forSlot, toRemove>>
          /\ doing'[t] = "upsert"
          /\ \A u \in Tasks \ {t} : doing'[u] = doing[u]
      BY <2>5 DEF CancelRows, Goes
    <3>2. PICK n \in Notes : Keeps(s, n)
      BY <2>0, <3>1
    <3> QED
      BY <3>1, <3>2 DEF Keeps
  <2>6. ASSUME NEW t \in Tasks, Upsert(t) PROVE \E n \in Notes : Keeps(s, n)'
    <3>1. /\ UNCHANGED <<timer, tells, windowNo, bereft, toRemove>>
          /\ spoiled \subseteq spoiled'
          /\ \A u \in Tasks \ {t} : UNCHANGED <<doing[u], forSlot[u]>>
          /\ \/ doing'[t] # "idle" /\ UNCHANGED forSlot[t]
             \/ forSlot[t] \in spoiled'
      BY <2>6, UpsertEffect
    <3>2. PICK n \in Notes : Keeps(s, n)
      BY <2>0, <3>1
    <3> QED
      BY <3>1, <3>2 DEF Keeps
  <2>7. ASSUME NEW t \in Tasks, Dispatch(t) PROVE \E n \in Notes : Keeps(s, n)'
    <3>1. PICK m \in Notes : m = <<forSlot[t], stamp[t]>>
      BY <2>7, NoteParts DEF Dispatch
    <3>2. m[1] = forSlot[t] /\ m[2] = stamp[t]
      BY <3>1
    <3>3. /\ UNCHANGED <<windowNo, bereft, toRemove>> /\ spoiled \subseteq spoiled'
          /\ \A u \in Tasks \ {t} : UNCHANGED <<doing[u], forSlot[u]>>
          /\ doing[t] = "dispatch"
      BY <2>7 DEF Dispatch, Goes
    <3>4. \/ UNCHANGED <<timer, tells>> /\ (timer[m] # "none" \/ forSlot[t] \in spoiled')
          \/ /\ timer' = [timer EXCEPT ![m] = "waiting"]
             /\ tells' = [tells EXCEPT ![m] = announces[t]]
      BY <2>7, <3>1 DEF Dispatch
    <3>5. CASE forSlot[t] = s
      <4>1. timer[m] = "none" /\ announces[t] = windowNo[s]
        BY <3>2, <3>3, <3>5 DEF Undisturbed
      <4>2. timer'[m] = "waiting" /\ tells'[m] = windowNo'[s]
        BY <3>3, <3>4, <3>5, <4>1
      <4>3. \A u \in Tasks : m \notin toRemove'[u]
        <5>1. toRemove[t] = {}
          BY <3>3
        <5>2. \A u \in Tasks \ {t} : doing[u] = "idle"
          BY <3>3, <3>5 DEF Disturbed
        <5> QED
          BY <3>3, <5>1, <5>2
      <4> QED
        BY <3>2, <3>5, <4>2, <4>3 DEF Keeps
    <3>6. CASE forSlot[t] # s
      <4>1. PICK n \in Notes : Keeps(s, n)
        BY <2>0, <3>3, <3>6
      <4>2. n # m
        BY <3>2, <3>6, <4>1 DEF Keeps
      <4> QED
        BY <3>3, <3>4, <4>1, <4>2 DEF Keeps
    <3> QED
      BY <3>5, <3>6
  <2>8. CASE WorkerStep
    <3>1. /\ UNCHANGED <<windowNo, tells, bereft, spoiled, doing, forSlot, toRemove>>
          /\ \A m \in Notes : timer'[m] = "none" <=> timer[m] = "none"
      BY <2>8, WorkerEffect DEF taskVars
    <3>2. PICK n \in Notes : Keeps(s, n)
      BY <2>0, <3>1
    <3> QED
      BY <3>1, <3>2 DEF Keeps
  <2>9. CASE CrashServer
    <3>1. /\ UNCHANGED <<windowNo, tells, bereft>>
          /\ spoiled' = spoiled \cup {forSlot[u] : u \in Running}
          /\ \A m \in Notes : timer'[m] = IF timer[m] = "active" THEN "waiting" ELSE timer[m]
          /\ \A u \in Tasks : toRemove'[u] = {}
      BY <2>9 DEF CrashServer
    <3>2. PICK n \in Notes : Keeps(s, n)
      BY <2>0, <3>1 DEF Running
    <3> QED
      BY <3>1, <3>2 DEF Keeps
  <2>10. CASE UNCHANGED reminderVars
    BY <2>0, <2>10 DEF reminderVars, taskVars, senderVars, pastVars, Keeps
  <2> QED
    BY <2>1, <2>2, <2>3, <2>4, <2>5, <2>6, <2>7, <2>8, <2>9, <2>10
    DEF ReminderNext, WorkerStep
<1> QED
  BY <1>1, <1>2, TypeInvariant, RowsFirstInvariant, DisturbedInvariant, UndisturbedInvariant, PTL
  DEF ReminderSpec

-----------------------------------------------------------------------------
\* The reminders follow the windows: of an exam whose slots are rescheduled any
\* number of times, with the tasks, the worker and the failures in any order, no
\* old reminder is left that is neither excused nor of a disturbed slot, every
\* undisturbed slot has a reminder of its window, and nobody is told twice.
THEOREM RemindersCorrect == ReminderSpec => []RemindersFollow
<1>1. TypeInv /\ OldHandled => OldRemindersGone
  BY DEF TypeInv, TasksReady, OldHandled, OldRemindersGone, Stale, WillGo, Settled, Running
<1>2. StillReminded => CurrentReminded
  BY DEF StillReminded, Keeps, CurrentReminded, Settled, Running
<1>3. OnRecord => ToldOnce
  BY DEF OnRecord, ToldOnce
<1> QED
  BY <1>1, <1>2, <1>3, TypeInvariant, OldHandledInvariant, StillRemindedInvariant,
     OnRecordInvariant, PTL DEF RemindersFollow

-----------------------------------------------------------------------------
(* The upload of students *)

\* A row that can be used has a number.
RowsUsable == \A r \in Lines : checked[r] \in Usable => phoneOf[r] \in Phones

\* What a request has in hand at its step.
AtRows == {"rows", "mark", "fail"}
OfficerHas(x) ==
    /\ at[x] \in {"row", "mark", "fail"} => picked[x] \in Lines
    /\ at[x] \in StepsLeft["edit"] => flow = "admin"
    /\ at[x] \in {"find", "decide"} => choice[x] \in {"APPROVED", "REJECTED"}
    /\ at[x] = "decide" => picked[x] \in Forms \cup {0}
    /\ at[x] = "settle" => picked[x] \in Forms /\ choice[x] \in {"REJECTED", "CANCELLED"}
    /\ at[x] \notin AtRows => todo[x] = {} /\ good[x] = 0 /\ bad[x] = 0
    /\ good[x] + bad[x] + Cardinality(todo[x]) <= Cardinality(Lines)
    /\ \A r \in todo[x] : copyPhone[x][r] \in Phones

\* What no request ran beside ran alone.
Alone ==
    \A x, y \in Officers : x # y =>
        /\ "activations" \notin raced => ~(IsKind(at[x], "activate") /\ IsKind(at[y], "activate"))
        /\ "activation" \notin raced => (IsKind(at[x], "activate") => at[y] = "none")
        /\ "decisions" \notin raced =>
              (IsKind(at[x], "review") => ~IsKind(at[y], "review") /\ ~IsKind(at[y], "settle"))

\* The student of a row is marked, or about to be; a row that is still to be done,
\* or has failed, has none.
RowsTrue ==
    "activations" \notin raced /\ "activate" \notin halted =>
        /\ \A m \in Phones, r \in Lines : account[m] = r =>
              \/ activation[r] = "ACTIVATED"
              \/ \E x \in Officers : at[x] = "mark" /\ picked[x] = r
        /\ \A x \in Officers : \A r \in todo[x], m \in Phones : account[m] # r
        /\ \A x \in Officers : at[x] = "fail" => \A m \in Phones : account[m] # picked[x]

\* A request finds the upload in a status of its own ...
Early == StepsLeft["submit"] \cup StepsLeft["review"] \cup {"open", "claim"}
StageFits(x) ==
    /\ at[x] \in {"list"} \cup AtRows => stage = "ACTIVATING"
    /\ at[x] \in Early => stage \notin {"ACTIVATED", "PARTIALLY_ACTIVATED"}
    /\ at[x] \in StepsLeft["edit"] => stage # "ACTIVATED"
    /\ at[x] = "settle" /\ stage = "ACTIVATED" => form[picked[x]] = "PENDING"

\* ... and an activation has listed every row there is to do; none is left when it
\* is over.
Waits(r) == checked[r] \in Usable /\ activation[r] = "PENDING"
NoneMissed(x) ==
    at[x] \in AtRows => \A r \in Lines : Waits(r) => r \in todo[x] \/ (at[x] # "rows" /\ picked[x] = r)
NoneWaits ==
    \/ stage = "ACTIVATED"
    \/ stage = "PARTIALLY_ACTIVATED" /\ "edit" \notin halted /\ \A x \in Officers : at[x] \notin {"count", "batch"}
    => \A r \in Lines : ~Waits(r)
LeftTrue ==
    "activation" \notin raced => (\A x \in Officers : StageFits(x) /\ NoneMissed(x)) /\ NoneWaits

\* An upload that is SUBMITTED has a PENDING request; so has its reviewer.  What
\* is approved once stays approved, and stands behind every activation.
Pending == \E q \in Forms : form[q] = "PENDING"
Approved == \E q \in Forms : form[q] = "APPROVED"
Backed ==
    flow = "institution" =>
        /\ stage = "APPROVED" => Approved
        /\ \A x \in Officers : at[x] \in {"claim", "list"} \cup AtRows => Approved
        /\ \A m \in Phones : account[m] \in Lines => Approved
DecisionsTrue ==
    "decisions" \notin raced =>
        /\ \A x \in Officers :
              /\ at[x] = "find" => Pending
              /\ at[x] = "decide" => picked[x] \in Forms /\ form[picked[x]] = "PENDING"
              /\ at[x] = "settle" => form[picked[x]] # "APPROVED"
        /\ Backed

UploadInv ==
    /\ UploadTypeOK /\ RowsUsable /\ \A x \in Officers : OfficerHas(x)
    /\ Alone /\ RowsTrue /\ LeftTrue
    /\ stage = "SUBMITTED" => Pending
    /\ DecisionsTrue

-----------------------------------------------------------------------------
(* Steps, rows and counts of an upload *)

AllSteps == {"none", "row", "count", "batch", "recheck", "ready", "send", "find", "decide", "settle",
             "open", "claim", "list", "rows", "mark", "fail"}

\* The steps of each kind of request
LEMMA StepsOfKinds ==
    /\ StepsLeft["edit"] = {"row", "count", "batch"} /\ StepsLeft["submit"] = {"recheck", "ready", "send"}
    /\ StepsLeft["review"] = {"find", "decide"} /\ StepsLeft["settle"] = {"settle"}
    /\ StepsLeft["activate"] = {"open", "claim", "list", "rows", "mark", "fail"}
    /\ {"none"} \cup UNION {StepsLeft[k] : k \in DOMAIN StepsLeft} = AllSteps
<1>1. /\ StepsLeft["edit"] = {"row", "count", "batch"} /\ StepsLeft["submit"] = {"recheck", "ready", "send"}
      /\ StepsLeft["review"] = {"find", "decide"} /\ StepsLeft["settle"] = {"settle"}
      /\ StepsLeft["activate"] = {"open", "claim", "list", "rows", "mark", "fail"}
  BY DEF StepsLeft
<1>2. DOMAIN StepsLeft = {"edit", "submit", "review", "settle", "activate"}
  BY DEF StepsLeft
<1>3. {StepsLeft[k] : k \in DOMAIN StepsLeft}
        = {StepsLeft["edit"], StepsLeft["submit"], StepsLeft["review"], StepsLeft["settle"], StepsLeft["activate"]}
  BY <1>2
<1>4. \A t : t \in UNION {StepsLeft[k] : k \in DOMAIN StepsLeft} <=>
               \/ t \in {"row", "count", "batch"} \/ t \in {"recheck", "ready", "send"} \/ t \in {"find", "decide"}
               \/ t \in {"settle"} \/ t \in {"open", "claim", "list", "rows", "mark", "fail"}
  BY <1>1, <1>3
<1>5. {"none"} \cup UNION {StepsLeft[k] : k \in DOMAIN StepsLeft} = AllSteps
  BY <1>4 DEF AllSteps
<1> QED
  BY <1>1, <1>5

\* Sets of lines
LEMMA LineSets ==
    /\ Cardinality(Lines) \in Nat /\ Cardinality({}) = 0
    /\ \A S \in SUBSET Lines : Cardinality(S) \in Nat /\ Cardinality(S) <= Cardinality(Lines)
    /\ \A S \in SUBSET Lines : \A r \in S : Cardinality(S \ {r}) = Cardinality(S) - 1
    /\ 0 \notin Lines /\ Outside \notin Lines /\ Outside # 0 /\ NoPhone \notin Phones
<1>1. IsFiniteSet(Lines)
  BY UploadAssumption
<1>2. Cardinality(Lines) \in Nat /\ Cardinality({}) = 0
  BY <1>1, FS_CardinalityType, FS_EmptySet
<1>3. \A S \in SUBSET Lines : IsFiniteSet(S) /\ Cardinality(S) \in Nat /\ Cardinality(S) <= Cardinality(Lines)
  BY <1>1, FS_Subset, FS_CardinalityType
<1>4. ASSUME NEW S \in SUBSET Lines, NEW r \in S PROVE Cardinality(S \ {r}) = Cardinality(S) - 1
  BY <1>3, FS_RemoveElement
<1> QED
  BY <1>2, <1>3, <1>4, UploadAssumption

LEMMA ValidCounts == \A c : ValidCount(c) \in 0 .. Cardinality(Lines)
BY LineSets DEF ValidCount

\* A request goes on, and what it meets is remembered.
Rests(x) ==
    \A y \in Officers \ {x} :
        /\ at'[y] = at[y] /\ choice'[y] = choice[y] /\ picked'[y] = picked[y] /\ todo'[y] = todo[y]
        /\ copyPhone'[y] = copyPhone[y] /\ good'[y] = good[y] /\ bad'[y] = bad[y]

LEMMA Turns ==
    ASSUME UploadInv, NEW x \in Officers, NEW step \in AllSteps, Turn(x, step)
    PROVE  /\ at' \in [Officers -> AllSteps] /\ at'[x] = step /\ \A y \in Officers \ {x} : at'[y] = at[y]
           /\ at \in [Officers -> AllSteps]
           /\ raced \subseteq raced' /\ raced' \subseteq Races /\ Alone'
<1>1. at \in [Officers -> AllSteps] /\ raced \subseteq Races
  BY StepsOfKinds DEF UploadInv, UploadTypeOK
<1>2. /\ at' = [at EXCEPT ![x] = step]
      /\ raced' = raced \cup {race \in Races : \E y \in Officers \ {x} :
                                /\ step # "none" /\ at[y] # "none"
                                /\ Race(race, step, at[y])}
  BY DEF Turn
<1>3. at' \in [Officers -> AllSteps] /\ at'[x] = step /\ \A y \in Officers \ {x} : at'[y] = at[y]
  BY <1>1, <1>2
<1>4. raced \subseteq raced' /\ raced' \subseteq Races
  BY <1>1, <1>2
<1>5. /\ IsKind("none", "activate") = FALSE /\ IsKind("none", "review") = FALSE /\ IsKind("none", "settle") = FALSE
  BY StepsOfKinds DEF IsKind
<1>6. ASSUME NEW y \in Officers, y # x
      PROVE  /\ "activations" \notin raced' => ~(IsKind(step, "activate") /\ IsKind(at[y], "activate"))
             /\ "activation" \notin raced' =>
                   (IsKind(step, "activate") => at[y] = "none") /\ (IsKind(at[y], "activate") => step = "none")
             /\ "decisions" \notin raced' =>
                   /\ IsKind(step, "review") => ~IsKind(at[y], "review") /\ ~IsKind(at[y], "settle")
                   /\ IsKind(at[y], "review") => ~IsKind(step, "review") /\ ~IsKind(step, "settle")
  <2>1. \A race \in Races : race \notin raced' /\ step # "none" /\ at[y] # "none" => ~Race(race, step, at[y])
    BY <1>2, <1>6
  <2>2. /\ "activations" \in Races /\ "activation" \in Races /\ "decisions" \in Races
    BY DEF Races
  <2>3. /\ Race("activations", step, at[y]) <=> IsKind(step, "activate") /\ IsKind(at[y], "activate")
        /\ Race("activation", step, at[y]) <=> IsKind(step, "activate") \/ IsKind(at[y], "activate")
        /\ Race("decisions", step, at[y]) <=>
              /\ IsKind(step, "review") \/ IsKind(at[y], "review")
              /\ IsKind(step, "review") \/ IsKind(step, "settle")
              /\ IsKind(at[y], "review") \/ IsKind(at[y], "settle")
    BY DEF Race
  <2>4. CASE step = "none" \/ at[y] = "none"
    BY <1>5, <2>4
  <2>5. CASE step # "none" /\ at[y] # "none"
    BY <2>1, <2>2, <2>3, <2>5
  <2> QED
    BY <2>4, <2>5
<1>7. ASSUME NEW y \in Officers, NEW z \in Officers, y # z
      PROVE  /\ "activations" \notin raced' => ~(IsKind(at'[y], "activate") /\ IsKind(at'[z], "activate"))
             /\ "activation" \notin raced' => (IsKind(at'[y], "activate") => at'[z] = "none")
             /\ "decisions" \notin raced' =>
                   (IsKind(at'[y], "review") => ~IsKind(at'[z], "review") /\ ~IsKind(at'[z], "settle"))
  <2>1. CASE y = x
    BY <1>3, <1>6, <1>7, <2>1
  <2>2. CASE z = x
    BY <1>3, <1>6, <1>7, <2>2
  <2>3. CASE y # x /\ z # x
    BY <1>3, <1>4, <1>7, <2>3 DEF UploadInv, Alone
  <2> QED
    BY <2>1, <2>2, <2>3
<1>8. Alone'
  BY <1>7 DEF Alone, IsKind
<1> QED
  BY <1>1, <1>3, <1>4, <1>8

-----------------------------------------------------------------------------
(* What a step of one request leaves to the others *)

LEMMA HandsKept ==
    ASSUME UploadInv, NEW x \in Officers, Rests(x), flow' = flow, OfficerHas(x)'
    PROVE  \A y \in Officers : OfficerHas(y)'
<1>1. ASSUME NEW y \in Officers, y # x PROVE OfficerHas(y)'
  BY <1>1 DEF UploadInv, Rests, OfficerHas
<1> QED
  BY <1>1

\* The rows are true if accounts, marks and lists of rows stay as they are.
LEMMA RowsStayTrue ==
    ASSUME UploadInv, NEW x \in Officers, Rests(x), raced \subseteq raced', halted \subseteq halted',
           account' = account, activation' = activation, todo'[x] = todo[x],
           at[x] \notin {"mark", "fail"}, at'[x] \notin {"mark", "fail"}
    PROVE  RowsTrue'
<1> SUFFICES ASSUME "activations" \notin raced', "activate" \notin halted'
             PROVE  /\ \A m \in Phones, r \in Lines : account'[m] = r =>
                          \/ activation'[r] = "ACTIVATED"
                          \/ \E y \in Officers : at'[y] = "mark" /\ picked'[y] = r
                    /\ \A y \in Officers : \A r \in todo'[y], m \in Phones : account'[m] # r
                    /\ \A y \in Officers : at'[y] = "fail" => \A m \in Phones : account'[m] # picked'[y]
  BY DEF RowsTrue
<1>1. /\ \A m \in Phones, r \in Lines : account[m] = r =>
            \/ activation[r] = "ACTIVATED"
            \/ \E y \in Officers : at[y] = "mark" /\ picked[y] = r
      /\ \A y \in Officers : \A r \in todo[y], m \in Phones : account[m] # r
      /\ \A y \in Officers : at[y] = "fail" => \A m \in Phones : account[m] # picked[y]
  BY DEF UploadInv, RowsTrue
<1>2. \A y \in Officers : todo'[y] = todo[y]
  BY DEF Rests
<1>3. \A y \in Officers : at[y] \in {"mark", "fail"} => at'[y] = at[y] /\ picked'[y] = picked[y]
  BY DEF Rests
<1>4. \A y \in Officers : at'[y] = "fail" => at[y] = "fail" /\ picked'[y] = picked[y]
  BY DEF Rests
<1> QED
  BY <1>1, <1>2, <1>3, <1>4

\* A request that is under way, or begins, keeps the others in the status they
\* found.
LEMMA LeftKept ==
    ASSUME UploadInv, Alone', NEW x \in Officers, Rests(x), raced \subseteq raced',
           at[x] # "none" \/ at'[x] # "none",
           \/ stage' = stage /\ \A q \in Forms : form[q] = "PENDING" => form'[q] = "PENDING"
           \/ stage' \notin {"ACTIVATED", "PARTIALLY_ACTIVATED"}
           \/ IsKind(at[x], "activate"),
           "activation" \notin raced' => StageFits(x)' /\ NoneMissed(x)' /\ NoneWaits'
    PROVE  LeftTrue'
<1> SUFFICES ASSUME "activation" \notin raced', NEW y \in Officers, y # x
             PROVE  StageFits(y)' /\ NoneMissed(y)'
  BY DEF LeftTrue
<1>1. "activation" \notin raced
  OBVIOUS
<1>2. ~IsKind(at[y], "activate")
  <2>1. IsKind(at[y], "activate") => at[x] = "none"
    BY <1>1 DEF UploadInv, Alone
  <2>2. IsKind(at'[y], "activate") => at'[x] = "none"
    BY DEF Alone, IsKind
  <2>3. at'[y] = at[y]
    BY DEF Rests
  <2> QED
    BY <2>1, <2>2, <2>3
<1>3. at[y] \notin {"open", "claim", "list", "rows", "mark", "fail"} /\ at'[y] = at[y] /\ picked'[y] = picked[y]
  BY <1>2, StepsOfKinds DEF IsKind, Rests
<1>4. IsKind(at[x], "activate") => at[y] = "none"
  BY <1>1 DEF UploadInv, Alone
<1>5. StageFits(y) /\ (at[y] = "settle" => picked[y] \in Forms)
  BY <1>1 DEF UploadInv, LeftTrue, OfficerHas
<1>6. NoneMissed(y)'
  BY <1>3 DEF NoneMissed, AtRows
<1>7. StageFits(y)'
  <2>1. CASE IsKind(at[x], "activate")
    BY <1>3, <1>4, <2>1, StepsOfKinds DEF StageFits, Early, AtRows
  <2>2. CASE stage' \notin {"ACTIVATED", "PARTIALLY_ACTIVATED"}
    BY <1>3, <2>2 DEF StageFits, AtRows
  <2>3. CASE stage' = stage /\ \A q \in Forms : form[q] = "PENDING" => form'[q] = "PENDING"
    BY <1>3, <1>5, <2>3 DEF StageFits, AtRows
  <2> QED
    BY <2>1, <2>2, <2>3
<1> QED
  BY <1>6, <1>7

\* A decision of one request leaves that of another alone.
LEMMA DecisionsKept ==
    ASSUME UploadInv, Alone', NEW x \in Officers, Rests(x), raced \subseteq raced',
           at[x] # "none" \/ at'[x] # "none",
           \A q \in Forms : form[q] = "PENDING" /\ form'[q] # "PENDING" => at[x] \in {"decide", "settle"},
           \A q \in Forms : form'[q] = "APPROVED" /\ form[q] # "APPROVED" => at[x] = "decide",
           "decisions" \notin raced' =>
              /\ at'[x] = "find" => Pending'
              /\ at'[x] = "decide" => picked'[x] \in Forms /\ form'[picked'[x]] = "PENDING"
              /\ at'[x] = "settle" => form'[picked'[x]] # "APPROVED"
              /\ Backed'
    PROVE  DecisionsTrue'
<1> SUFFICES ASSUME "decisions" \notin raced', NEW y \in Officers, y # x
             PROVE  /\ at'[y] = "find" => Pending'
                    /\ at'[y] = "decide" => picked'[y] \in Forms /\ form'[picked'[y]] = "PENDING"
                    /\ at'[y] = "settle" => form'[picked'[y]] # "APPROVED"
  BY DEF DecisionsTrue
<1>1. "decisions" \notin raced
  OBVIOUS
<1>2. /\ at[y] = "find" => Pending
      /\ at[y] = "decide" => picked[y] \in Forms /\ form[picked[y]] = "PENDING"
      /\ at[y] = "settle" => form[picked[y]] # "APPROVED" /\ picked[y] \in Forms
  BY <1>1 DEF UploadInv, DecisionsTrue, OfficerHas
<1>3. at'[y] = at[y] /\ picked'[y] = picked[y]
  BY DEF Rests
<1>4. /\ at[y] \in {"find", "decide"} => at[x] \notin {"decide", "settle"}
      /\ at[x] = "decide" => at[y] # "settle"
  BY <1>1, StepsOfKinds DEF UploadInv, Alone, IsKind
<1>5. at[y] \in {"find", "decide"} => \A q \in Forms : form[q] = "PENDING" => form'[q] = "PENDING"
  BY <1>4
<1> QED
  BY <1>2, <1>3, <1>4, <1>5 DEF Pending

-----------------------------------------------------------------------------
(* One step of one request *)

\* A request has made a step.
Moves(x, step) ==
    /\ at \in [Officers -> AllSteps] /\ at' \in [Officers -> AllSteps]
    /\ at'[x] = step /\ \A y \in Officers \ {x} : at'[y] = at[y]
    /\ raced \subseteq raced' /\ raced' \subseteq Races /\ Alone'
    /\ begun' \in 0 .. MaxBegun /\ halted' = halted /\ (at[x] # "none" \/ at'[x] # "none")

LEMMA Arrives ==
    ASSUME UploadInv, NEW x \in Officers, NEW step \in AllSteps, step # "none", Arrive(x, step)
    PROVE  Moves(x, step) /\ at[x] = "none"
<1>1. Turn(x, step) /\ at[x] = "none" /\ begun' = begun + 1 /\ begun < MaxBegun /\ halted' = halted
  BY DEF Arrive
<1>2. begun' \in 0 .. MaxBegun
  BY <1>1, UploadAssumption DEF UploadInv, UploadTypeOK
<1> QED
  BY <1>1, <1>2, Turns DEF Moves

LEMMA Proceeds ==
    ASSUME UploadInv, NEW x \in Officers, NEW from \in AllSteps \ {"none"}, NEW step \in AllSteps,
           Proceed(x, from, step)
    PROVE  Moves(x, step) /\ at[x] = from
<1>1. Turn(x, step) /\ at[x] = from /\ begun' = begun /\ halted' = halted
  BY DEF Proceed
<1>2. begun' \in 0 .. MaxBegun
  BY <1>1 DEF UploadInv, UploadTypeOK
<1> QED
  BY <1>1, <1>2, Turns DEF Moves

\* What is to be shown of a step: the types, the request that makes it, the rows,
\* what is left of them, and the decisions.
LEMMA StepKeeps ==
    ASSUME UploadInv, NEW x \in Officers, Rests(x), UploadTypeOK', flow' = flow, OfficerHas(x)', RowsUsable',
           Alone', RowsTrue', LeftTrue', DecisionsTrue', stage' = "SUBMITTED" => Pending'
    PROVE  UploadInv'
<1>1. \A y \in Officers : OfficerHas(y)'
  BY HandsKept
<1> QED
  BY <1>1 DEF UploadInv

\* A step that only reads
Reads == UNCHANGED <<flow, stage, validRows, rowVars, studentVars, form>>
LEMMA ReadingSteps ==
    ASSUME UploadInv, NEW x \in Officers, NEW step \in AllSteps, Moves(x, step), Reads, Rests(x),
           UploadTypeOK', OfficerHas(x)', RowsTrue',
           at[x] \in {"count", "batch"} => step \in {"count", "batch"},
           "activation" \notin raced' => StageFits(x)' /\ NoneMissed(x)',
           "decisions" \notin raced' =>
              /\ step = "find" => Pending
              /\ step = "decide" => picked'[x] \in Forms /\ form[picked'[x]] = "PENDING"
              /\ step = "settle" => form[picked'[x]] # "APPROVED"
              /\ flow = "institution" /\ step \in {"claim", "list"} \cup AtRows => Approved
    PROVE  UploadInv' /\ ActivatedStands
<1>1. /\ flow' = flow /\ stage' = stage /\ phoneOf' = phoneOf /\ checked' = checked
      /\ activation' = activation /\ account' = account /\ form' = form
  BY DEF Reads, rowVars, studentVars
<1>2. /\ at'[x] = step /\ \A y \in Officers \ {x} : at'[y] = at[y]
      /\ raced \subseteq raced' /\ Alone' /\ halted' = halted /\ (at[x] # "none" \/ at'[x] # "none")
  BY DEF Moves
<1>3. RowsUsable' /\ (stage' = "SUBMITTED" => Pending')
  BY <1>1 DEF UploadInv, RowsUsable, Pending
<1>4. LeftTrue'
  <2>1. ASSUME "activation" \notin raced' PROVE NoneWaits'
    <3>1. NoneWaits
      BY <1>2, <2>1 DEF UploadInv, LeftTrue
    <3>2. (\A y \in Officers : at'[y] \notin {"count", "batch"}) => \A y \in Officers : at[y] \notin {"count", "batch"}
      BY <1>2
    <3> QED
      BY <1>1, <1>2, <3>1, <3>2 DEF NoneWaits, Waits
  <2> QED
    BY <1>1, <1>2, <2>1, LeftKept
<1>5. DecisionsTrue'
  <2>1. ASSUME "decisions" \notin raced' PROVE Backed'
    <3>1. Backed
      BY <1>2, <2>1 DEF UploadInv, DecisionsTrue
    <3>2. Approved' = Approved
      BY <1>1 DEF Approved
    <3> QED
      BY <1>1, <1>2, <2>1, <3>1, <3>2 DEF Backed
  <2>2. Pending' = Pending
    BY <1>1 DEF Pending
  <2> QED
    BY <1>1, <1>2, <2>1, <2>2, DecisionsKept
<1> QED
  BY <1>1, <1>2, <1>3, <1>4, <1>5, StepKeeps DEF ActivatedStands

\* Steps that leave the rows an activation has in hand alone
LEMMA RowsUnmoved ==
    ASSUME UploadInv, NEW x \in Officers, NEW step \in AllSteps, Moves(x, step), Reads, Rests(x), todo' = todo,
           at[x] \notin {"mark", "fail"}, step \notin {"mark", "fail"}
    PROVE  RowsTrue'
<1>1. account' = account /\ activation' = activation
  BY DEF Reads, rowVars, studentVars
<1> QED
  BY <1>1, RowsStayTrue DEF Moves

LEMMA EditReadKeeps ==
    ASSUME UploadInv, NEW x \in Officers, NEW r \in Lines, NEW m \in Phones \cup {NoPhone}, EditRead(x, r, m)
    PROVE  UploadInv' /\ ActivatedStands
<1>1. /\ Arrive(x, "row") /\ flow = "admin" /\ stage \notin {"ACTIVATING", "ACTIVATED"}
      /\ picked' = [picked EXCEPT ![x] = r] /\ typed' = [typed EXCEPT ![x] = m]
      /\ Reads /\ UNCHANGED <<choice, counted, activateVars>>
  BY DEF EditRead, Reads
<1>2. Moves(x, "row") /\ at[x] = "none"
  BY <1>1, Arrives DEF AllSteps
<1>3. UploadTypeOK'
  BY <1>1, <1>2, StepsOfKinds DEF UploadInv, UploadTypeOK, Moves, Reads, rowVars, studentVars, editVars, activateVars, Races, Halts
<1>4. Rests(x) /\ picked'[x] = r
  BY <1>1, <1>2 DEF UploadInv, UploadTypeOK, Moves, Rests, editVars, activateVars
<1>5. OfficerHas(x)'
  BY <1>1, <1>2, <1>4, StepsOfKinds DEF UploadInv, OfficerHas, Moves, Reads, AtRows, editVars, activateVars
<1>6. RowsTrue'
  BY <1>1, <1>2, <1>4, RowsUnmoved DEF AllSteps, activateVars
<1>7. "activation" \notin raced' => StageFits(x)' /\ NoneMissed(x)'
  BY <1>1, <1>2, <1>4, StepsOfKinds DEF UploadInv, LeftTrue, Moves, StageFits, NoneMissed, AtRows, Early, Reads
<1> QED
  BY <1>1, <1>2, <1>3, <1>4, <1>5, <1>6, <1>7, ReadingSteps DEF AllSteps, AtRows

LEMMA EditCountKeeps ==
    ASSUME UploadInv, NEW x \in Officers, EditCount(x)
    PROVE  UploadInv' /\ ActivatedStands
<1>1. /\ Proceed(x, "count", "batch") /\ Reads
      /\ counted' = [counted EXCEPT ![x] = ValidCount(checked)]
      /\ UNCHANGED <<choice, picked, typed, activateVars>>
  BY DEF EditCount, Reads
<1>2. Moves(x, "batch") /\ at[x] = "count"
  BY <1>1, Proceeds DEF AllSteps
<1>3. UploadTypeOK'
  BY <1>1, <1>2, StepsOfKinds, ValidCounts DEF UploadInv, UploadTypeOK, Moves, Reads, rowVars, studentVars, editVars, activateVars, Races, Halts
<1>4. Rests(x)
  BY <1>1, <1>2 DEF UploadInv, UploadTypeOK, Moves, Rests, editVars, activateVars
<1>5. OfficerHas(x)'
  BY <1>1, <1>2, <1>4, StepsOfKinds DEF UploadInv, OfficerHas, Moves, Reads, AtRows, editVars, activateVars
<1>6. RowsTrue'
  BY <1>1, <1>2, <1>4, RowsUnmoved DEF AllSteps, activateVars
<1>7. "activation" \notin raced' => StageFits(x)' /\ NoneMissed(x)'
  BY <1>1, <1>2, <1>4, StepsOfKinds DEF UploadInv, LeftTrue, Moves, StageFits, NoneMissed, AtRows, Early, Reads
<1> QED
  BY <1>1, <1>2, <1>3, <1>4, <1>5, <1>6, <1>7, ReadingSteps DEF AllSteps, AtRows

LEMMA SubmitUploadKeeps ==
    ASSUME UploadInv, NEW x \in Officers, SubmitUpload(x)
    PROVE  UploadInv' /\ ActivatedStands
<1>1. /\ flow = "institution" /\ stage \in {"READY_FOR_REVIEW", "REJECTED"}
      /\ Arrive(x, "recheck") /\ Reads
      /\ UNCHANGED <<choice, editVars, activateVars>>
  BY DEF SubmitUpload, Reads
<1>2. Moves(x, "recheck") /\ at[x] = "none"
  BY <1>1, Arrives DEF AllSteps
<1>3. UploadTypeOK'
  BY <1>1, <1>2, StepsOfKinds DEF UploadInv, UploadTypeOK, Moves, Reads, rowVars, studentVars, editVars, activateVars, Races, Halts
<1>4. Rests(x)
  BY <1>1, <1>2 DEF UploadInv, UploadTypeOK, Moves, Rests, editVars, activateVars
<1>5. OfficerHas(x)'
  BY <1>1, <1>2, <1>4, StepsOfKinds DEF UploadInv, OfficerHas, Moves, Reads, AtRows, editVars, activateVars
<1>6. RowsTrue'
  BY <1>1, <1>2, <1>4, RowsUnmoved DEF AllSteps, activateVars
<1>7. "activation" \notin raced' => StageFits(x)' /\ NoneMissed(x)'
  BY <1>1, <1>2, <1>4, StepsOfKinds DEF UploadInv, LeftTrue, Moves, StageFits, NoneMissed, AtRows, Early, Reads
<1> QED
  BY <1>1, <1>2, <1>3, <1>4, <1>5, <1>6, <1>7, ReadingSteps DEF AllSteps, AtRows

LEMMA ReviewUploadKeeps ==
    ASSUME UploadInv, NEW x \in Officers, NEW decision \in {"APPROVED", "REJECTED"}, ReviewUpload(x, decision)
    PROVE  UploadInv' /\ ActivatedStands
<1>1. /\ stage = "SUBMITTED" /\ Arrive(x, "find") /\ Reads
      /\ choice' = [choice EXCEPT ![x] = decision]
      /\ UNCHANGED <<editVars, activateVars>>
  BY DEF ReviewUpload, Reads
<1>2. Moves(x, "find") /\ at[x] = "none"
  BY <1>1, Arrives DEF AllSteps
<1>3. UploadTypeOK'
  BY <1>1, <1>2, StepsOfKinds DEF UploadInv, UploadTypeOK, Moves, Reads, rowVars, studentVars, editVars, activateVars, Races, Halts
<1>4. Rests(x) /\ choice'[x] = decision
  BY <1>1, <1>2 DEF UploadInv, UploadTypeOK, Moves, Rests, editVars, activateVars
<1>5. OfficerHas(x)'
  BY <1>1, <1>2, <1>4, StepsOfKinds DEF UploadInv, OfficerHas, Moves, Reads, AtRows, editVars, activateVars
<1>6. RowsTrue'
  BY <1>1, <1>2, <1>4, RowsUnmoved DEF AllSteps, activateVars
<1>7. "activation" \notin raced' => StageFits(x)' /\ NoneMissed(x)'
  BY <1>1, <1>2, <1>4, StepsOfKinds DEF UploadInv, LeftTrue, Moves, StageFits, NoneMissed, AtRows, Early, Reads
<1>8. Pending
  BY <1>1 DEF UploadInv
<1> QED
  BY <1>1, <1>2, <1>3, <1>4, <1>5, <1>6, <1>7, <1>8, ReadingSteps DEF AllSteps, AtRows

LEMMA ReviewFindKeeps ==
    ASSUME UploadInv, NEW x \in Officers, ReviewFind(x)
    PROVE  UploadInv' /\ ActivatedStands
<1>1. /\ Proceed(x, "find", "decide") /\ Reads
      /\ UNCHANGED <<choice, typed, counted, activateVars>>
  BY DEF ReviewFind, Reads
<1>2. Moves(x, "decide") /\ at[x] = "find"
  BY <1>1, Proceeds DEF AllSteps
<1>q. PICK q \in Forms \cup {0} :
        /\ IF q = 0 THEN \A p \in Forms : form[p] # "PENDING" ELSE form[q] = "PENDING"
        /\ picked' = [picked EXCEPT ![x] = q]
  BY DEF ReviewFind
<1>3. UploadTypeOK'
  BY <1>1, <1>2, <1>q, StepsOfKinds DEF UploadInv, UploadTypeOK, Moves, Reads, rowVars, studentVars, editVars, activateVars, Races, Halts
<1>4. Rests(x) /\ picked'[x] = q
  BY <1>1, <1>2, <1>q DEF UploadInv, UploadTypeOK, Moves, Rests, editVars, activateVars
<1>5. OfficerHas(x)'
  BY <1>1, <1>2, <1>4, StepsOfKinds DEF UploadInv, OfficerHas, Moves, Reads, AtRows, editVars, activateVars
<1>6. RowsTrue'
  BY <1>1, <1>2, <1>4, RowsUnmoved DEF AllSteps, activateVars
<1>7. "activation" \notin raced' => StageFits(x)' /\ NoneMissed(x)'
  BY <1>1, <1>2, <1>4, StepsOfKinds DEF UploadInv, LeftTrue, Moves, StageFits, NoneMissed, AtRows, Early, Reads
<1>8. "decisions" \notin raced' => picked'[x] \in Forms /\ form[picked'[x]] = "PENDING"
  <2>1. "decisions" \notin raced' => Pending
    BY <1>2 DEF UploadInv, DecisionsTrue, Moves
  <2> QED
    BY <1>q, <1>4, <2>1, UploadAssumption DEF Pending, Forms
<1> QED
  BY <1>1, <1>2, <1>3, <1>4, <1>5, <1>6, <1>7, <1>8, ReadingSteps DEF AllSteps, AtRows

LEMMA SettleReadKeeps ==
    ASSUME UploadInv, NEW x \in Officers, NEW q \in Forms, NEW decision \in {"REJECTED", "CANCELLED"}, SettleRead(x, q, decision)
    PROVE  UploadInv' /\ ActivatedStands
<1>1. /\ form[q] = "PENDING" /\ Arrive(x, "settle") /\ Reads
      /\ picked' = [picked EXCEPT ![x] = q] /\ choice' = [choice EXCEPT ![x] = decision]
      /\ UNCHANGED <<typed, counted, activateVars>>
  BY DEF SettleRead, Reads
<1>2. Moves(x, "settle") /\ at[x] = "none"
  BY <1>1, Arrives DEF AllSteps
<1>3. UploadTypeOK'
  BY <1>1, <1>2, StepsOfKinds DEF UploadInv, UploadTypeOK, Moves, Reads, rowVars, studentVars, editVars, activateVars, Races, Halts
<1>4. Rests(x) /\ picked'[x] = q /\ choice'[x] = decision
  BY <1>1, <1>2 DEF UploadInv, UploadTypeOK, Moves, Rests, editVars, activateVars
<1>5. OfficerHas(x)'
  BY <1>1, <1>2, <1>4, StepsOfKinds DEF UploadInv, OfficerHas, Moves, Reads, AtRows, editVars, activateVars
<1>6. RowsTrue'
  BY <1>1, <1>2, <1>4, RowsUnmoved DEF AllSteps, activateVars
<1>7. "activation" \notin raced' => StageFits(x)' /\ NoneMissed(x)'
  BY <1>1, <1>2, <1>4, StepsOfKinds DEF UploadInv, LeftTrue, Moves, StageFits, NoneMissed, AtRows, Early, Reads
<1> QED
  BY <1>1, <1>2, <1>3, <1>4, <1>5, <1>6, <1>7, ReadingSteps DEF AllSteps, AtRows

LEMMA ApproveAgainKeeps ==
    ASSUME UploadInv, NEW x \in Officers, ApproveAgain(x)
    PROVE  UploadInv' /\ ActivatedStands
<1>1. /\ stage = "APPROVED" /\ Arrive(x, "claim") /\ Reads
      /\ UNCHANGED <<choice, editVars, activateVars>>
  BY DEF ApproveAgain, Reads
<1>2. Moves(x, "claim") /\ at[x] = "none"
  BY <1>1, Arrives DEF AllSteps
<1>3. UploadTypeOK'
  BY <1>1, <1>2, StepsOfKinds DEF UploadInv, UploadTypeOK, Moves, Reads, rowVars, studentVars, editVars, activateVars, Races, Halts
<1>4. Rests(x)
  BY <1>1, <1>2 DEF UploadInv, UploadTypeOK, Moves, Rests, editVars, activateVars
<1>5. OfficerHas(x)'
  BY <1>1, <1>2, <1>4, StepsOfKinds DEF UploadInv, OfficerHas, Moves, Reads, AtRows, editVars, activateVars
<1>6. RowsTrue'
  BY <1>1, <1>2, <1>4, RowsUnmoved DEF AllSteps, activateVars
<1>7. "activation" \notin raced' => StageFits(x)' /\ NoneMissed(x)'
  BY <1>1, <1>2, <1>4, StepsOfKinds DEF UploadInv, LeftTrue, Moves, StageFits, NoneMissed, AtRows, Early, Reads
<1>8. flow = "institution" /\ "decisions" \notin raced' => Approved
  BY <1>1, <1>2 DEF UploadInv, DecisionsTrue, Backed, Moves
<1> QED
  BY <1>1, <1>2, <1>3, <1>4, <1>5, <1>6, <1>7, <1>8, ReadingSteps DEF AllSteps, AtRows

LEMMA ConfirmKeeps ==
    ASSUME UploadInv, NEW x \in Officers, Confirm(x)
    PROVE  UploadInv' /\ ActivatedStands
<1>1. /\ flow = "admin" /\ stage = "READY_FOR_REVIEW" /\ Arrive(x, "claim") /\ Reads
      /\ UNCHANGED <<choice, editVars, activateVars>>
  BY DEF Confirm, Reads
<1>2. Moves(x, "claim") /\ at[x] = "none"
  BY <1>1, Arrives DEF AllSteps
<1>3. UploadTypeOK'
  BY <1>1, <1>2, StepsOfKinds DEF UploadInv, UploadTypeOK, Moves, Reads, rowVars, studentVars, editVars, activateVars, Races, Halts
<1>4. Rests(x)
  BY <1>1, <1>2 DEF UploadInv, UploadTypeOK, Moves, Rests, editVars, activateVars
<1>5. OfficerHas(x)'
  BY <1>1, <1>2, <1>4, StepsOfKinds DEF UploadInv, OfficerHas, Moves, Reads, AtRows, editVars, activateVars
<1>6. RowsTrue'
  BY <1>1, <1>2, <1>4, RowsUnmoved DEF AllSteps, activateVars
<1>7. "activation" \notin raced' => StageFits(x)' /\ NoneMissed(x)'
  BY <1>1, <1>2, <1>4, StepsOfKinds DEF UploadInv, LeftTrue, Moves, StageFits, NoneMissed, AtRows, Early, Reads
<1> QED
  BY <1>1, <1>2, <1>3, <1>4, <1>5, <1>6, <1>7, ReadingSteps DEF AllSteps, AtRows

LEMMA ActivateOpenKeeps ==
    ASSUME UploadInv, NEW x \in Officers, ActivateOpen(x)
    PROVE  UploadInv' /\ ActivatedStands
<1> DEFINE step == IF stage = "APPROVED" THEN "claim" ELSE "none"
<1>1. /\ Proceed(x, "open", step) /\ Reads
      /\ UNCHANGED <<choice, editVars, activateVars>>
  BY DEF ActivateOpen, Reads
<1>2. Moves(x, step) /\ at[x] = "open" /\ step \in {"claim", "none"} /\ (step = "claim" => stage = "APPROVED")
  BY <1>1, Proceeds DEF AllSteps
<1>3. UploadTypeOK'
  BY <1>1, <1>2, StepsOfKinds DEF UploadInv, UploadTypeOK, Moves, Reads, rowVars, studentVars, editVars, activateVars, Races, Halts
<1>4. Rests(x)
  BY <1>1, <1>2 DEF UploadInv, UploadTypeOK, Moves, Rests, editVars, activateVars
<1>5. OfficerHas(x)'
  BY <1>1, <1>2, <1>4, StepsOfKinds DEF UploadInv, OfficerHas, Moves, Reads, AtRows, editVars, activateVars
<1>6. RowsTrue'
  BY <1>1, <1>2, <1>4, RowsUnmoved DEF AllSteps, activateVars
<1>7. "activation" \notin raced' => StageFits(x)' /\ NoneMissed(x)'
  BY <1>1, <1>2, <1>4, StepsOfKinds DEF UploadInv, LeftTrue, Moves, StageFits, NoneMissed, AtRows, Early, Reads
<1>8. flow = "institution" /\ "decisions" \notin raced' /\ step = "claim" => Approved
  BY <1>1, <1>2 DEF UploadInv, DecisionsTrue, Backed, Moves
<1> QED
  BY <1>1, <1>2, <1>3, <1>4, <1>5, <1>6, <1>7, <1>8, ReadingSteps DEF AllSteps, AtRows

LEMMA ActivateListKeeps ==
    ASSUME UploadInv, NEW x \in Officers, ActivateList(x)
    PROVE  UploadInv' /\ ActivatedStands
<1>1. /\ Proceed(x, "list", "rows") /\ Reads
      /\ todo' = [todo EXCEPT ![x] = {r \in Lines : Waits(r)}]
      /\ copyPhone' = [copyPhone EXCEPT ![x] = phoneOf] /\ copyCheck' = [copyCheck EXCEPT ![x] = checked]
      /\ UNCHANGED <<choice, editVars, good, bad>>
  BY DEF ActivateList, Reads, Waits
<1>2. Moves(x, "rows") /\ at[x] = "list"
  BY <1>1, Proceeds DEF AllSteps
<1>3. UploadTypeOK'
  BY <1>1, <1>2, StepsOfKinds DEF UploadInv, UploadTypeOK, Moves, Reads, rowVars, studentVars, editVars, activateVars, Races, Halts
<1>4. Rests(x) /\ todo'[x] = {r \in Lines : Waits(r)} /\ copyPhone'[x] = phoneOf
  BY <1>1, <1>2 DEF UploadInv, UploadTypeOK, Moves, Rests, editVars, activateVars
<1>5. OfficerHas(x)'
  <2>1. good'[x] = 0 /\ bad'[x] = 0
    BY <1>1, <1>2 DEF UploadInv, OfficerHas, AtRows
  <2>2. Cardinality(todo'[x]) \in Nat /\ Cardinality(todo'[x]) <= Cardinality(Lines)
    BY <1>4, LineSets
  <2>3. \A r \in todo'[x] : copyPhone'[x][r] \in Phones
    BY <1>4 DEF UploadInv, RowsUsable, Waits
  <2> QED
    BY <1>1, <1>2, <2>1, <2>2, <2>3, LineSets, StepsOfKinds DEF OfficerHas, Moves, Reads, AtRows
<1>6. RowsTrue'
  <2>1. ASSUME "activations" \notin raced', "activate" \notin halted'
        PROVE  /\ \A m \in Phones, r \in Lines : account[m] = r => activation[r] = "ACTIVATED"
               /\ \A y \in Officers \ {x} : at[y] \notin {"list", "rows", "mark", "fail"}
    <3>1. \A y \in Officers \ {x} : at[y] \notin {"list", "rows", "mark", "fail"}
      BY <1>2, <2>1, StepsOfKinds DEF UploadInv, Alone, Moves, IsKind
    <3>2. \A m \in Phones, r \in Lines : account[m] = r =>
             activation[r] = "ACTIVATED" \/ \E y \in Officers : at[y] = "mark" /\ picked[y] = r
      BY <1>2, <2>1 DEF UploadInv, RowsTrue, Moves
    <3> QED
      BY <1>2, <3>1, <3>2
  <2>2. \A y \in Officers \ {x} : at[y] \notin {"list", "rows", "mark", "fail"} => todo'[y] = {}
    BY <1>4 DEF UploadInv, OfficerHas, AtRows, Rests
  <2>3. /\ account' = account /\ activation' = activation
    BY <1>1 DEF Reads, rowVars, studentVars
  <2> QED
    BY <1>2, <1>4, <2>1, <2>2, <2>3 DEF RowsTrue, Waits, Moves
<1>7. "activation" \notin raced' => StageFits(x)' /\ NoneMissed(x)'
  BY <1>1, <1>2, <1>4, StepsOfKinds DEF UploadInv, LeftTrue, Moves, StageFits, NoneMissed, AtRows, Early, Reads, Waits, rowVars
<1>8. flow = "institution" /\ "decisions" \notin raced' => Approved
  BY <1>2 DEF UploadInv, DecisionsTrue, Backed, Moves
<1> QED
  BY <1>1, <1>2, <1>3, <1>4, <1>5, <1>6, <1>7, <1>8, ReadingSteps DEF AllSteps, AtRows

LEMMA RowThrowsKeeps ==
    ASSUME UploadInv, NEW x \in Officers, RowThrows(x)
    PROVE  UploadInv' /\ ActivatedStands
<1>1. /\ Proceed(x, "rows", "fail") /\ Reads
      /\ bad' = [bad EXCEPT ![x] = @ + 1]
      /\ UNCHANGED <<choice, typed, counted, copyPhone, copyCheck, good>>
  BY DEF RowThrows, Reads
<1>2. Moves(x, "fail") /\ at[x] = "rows"
  BY <1>1, Proceeds DEF AllSteps
<1>r. PICK r \in Lines :
        /\ r \in todo[x]
        /\ picked' = [picked EXCEPT ![x] = r]
        /\ todo' = [todo EXCEPT ![x] = @ \ {r}]
  BY DEF RowThrows, NextLine
<1>s. /\ good[x] + bad[x] + Cardinality(todo[x]) <= Cardinality(Lines)
      /\ good[x] \in Nat /\ bad[x] \in Nat /\ Cardinality(Lines) \in Nat
      /\ todo[x] \in SUBSET Lines /\ \A q \in todo[x] : copyPhone[x][q] \in Phones
  BY LineSets DEF UploadInv, OfficerHas, UploadTypeOK
<1>t. /\ Cardinality(todo[x]) \in Nat /\ Cardinality(todo[x] \ {r}) \in Nat
      /\ Cardinality(todo[x] \ {r}) = Cardinality(todo[x]) - 1
  BY <1>r, <1>s, LineSets
<1>u. bad[x] + 1 \in 0 .. Cardinality(Lines)
  BY <1>s, <1>t
<1>3. UploadTypeOK'
  BY <1>1, <1>2, <1>r, <1>u, StepsOfKinds DEF UploadInv, UploadTypeOK, Moves, Reads, rowVars, studentVars, editVars, activateVars, Races, Halts
<1>4. Rests(x) /\ picked'[x] = r /\ todo'[x] = todo[x] \ {r} /\ bad'[x] = bad[x] + 1
  BY <1>1, <1>2, <1>r DEF UploadInv, UploadTypeOK, Moves, Rests, editVars, activateVars
<1>5. OfficerHas(x)'
  <2>1. good'[x] = good[x] /\ copyPhone'[x] = copyPhone[x] /\ flow' = flow
    BY <1>1 DEF Reads
  <2>2. good'[x] + bad'[x] + Cardinality(todo'[x]) <= Cardinality(Lines)
    BY <1>4, <1>s, <1>t, <2>1
  <2>3. at'[x] = "fail"
    BY <1>2 DEF Moves
  <2> QED
    BY <1>4, <1>s, <2>1, <2>2, <2>3, StepsOfKinds DEF OfficerHas, AtRows
<1>6. RowsTrue'
  <2>1. ASSUME "activations" \notin raced', "activate" \notin halted'
        PROVE  /\ \A m \in Phones, n \in Lines : account[m] = n =>
                    activation[n] = "ACTIVATED" \/ \E y \in Officers : at[y] = "mark" /\ picked[y] = n
               /\ \A y \in Officers : \A n \in todo[y], m \in Phones : account[m] # n
               /\ \A y \in Officers : at[y] = "fail" => \A m \in Phones : account[m] # picked[y]
    BY <1>2, <2>1 DEF UploadInv, RowsTrue, Moves
  <2>2. \A y \in Officers \ {x} : at'[y] = at[y] /\ picked'[y] = picked[y] /\ todo'[y] = todo[y]
    BY <1>2, <1>4 DEF Rests
  <2>3. account' = account /\ activation' = activation
    BY <1>1 DEF Reads, rowVars, studentVars
  <2>4. at'[x] = "fail"
    BY <1>2 DEF Moves
  <2> QED
    BY <1>2, <1>4, <1>r, <2>1, <2>2, <2>3, <2>4 DEF RowsTrue
<1>7. "activation" \notin raced' => StageFits(x)' /\ NoneMissed(x)'
  BY <1>1, <1>2, <1>4, StepsOfKinds DEF UploadInv, LeftTrue, Moves, StageFits, NoneMissed, AtRows, Early, Reads, Waits, rowVars
<1>8. flow = "institution" /\ "decisions" \notin raced' => Approved
  BY <1>2 DEF UploadInv, DecisionsTrue, Backed, Moves, AtRows
<1> QED
  BY <1>1, <1>2, <1>3, <1>4, <1>5, <1>6, <1>7, <1>8, ReadingSteps DEF AllSteps, AtRows

-----------------------------------------------------------------------------
(* Steps that edit, submit and decide *)

LEMMA WritingSteps ==
    ASSUME UploadInv, NEW x \in Officers, NEW step \in AllSteps, Moves(x, step), Rests(x), UploadTypeOK',
           flow' = flow, account' = account, activation' = activation, todo' = todo,
           at[x] \notin {"mark", "fail"}, step \notin {"mark", "fail"}, OfficerHas(x)', RowsUsable',
           \/ stage' = stage /\ \A q \in Forms : form[q] = "PENDING" => form'[q] = "PENDING"
           \/ stage' \notin {"ACTIVATED", "PARTIALLY_ACTIVATED"},
           "activation" \notin raced' => StageFits(x)' /\ NoneMissed(x)' /\ NoneWaits',
           \A q \in Forms : form[q] = "PENDING" /\ form'[q] # "PENDING" => at[x] \in {"decide", "settle"},
           \A q \in Forms : form'[q] = "APPROVED" /\ form[q] # "APPROVED" => at[x] = "decide",
           step \notin {"find", "decide", "settle"}, "decisions" \notin raced' => Backed',
           stage' = "SUBMITTED" => Pending'
    PROVE  UploadInv'
<1>1. /\ at'[x] = step /\ raced \subseteq raced' /\ Alone' /\ halted' = halted
      /\ at[x] # "none" \/ at'[x] # "none"
  BY DEF Moves
<1>2. RowsTrue'
  BY <1>1, RowsStayTrue
<1>3. LeftTrue'
  BY <1>1, LeftKept
<1>4. DecisionsTrue'
  BY <1>1, DecisionsKept
<1> QED
  BY <1>1, <1>2, <1>3, <1>4, StepKeeps

\* Approvals that stand, behind activations that were under way
LEMMA BackedStays ==
    ASSUME UploadInv, NEW x \in Officers, NEW step \in AllSteps, Moves(x, step), flow' = flow, account' = account,
           "decisions" \notin raced', Approved => Approved', stage' = "APPROVED" => stage = "APPROVED" \/ Approved',
           step \in {"claim", "list"} \cup AtRows => at[x] \in {"claim", "list"} \cup AtRows
    PROVE  Backed'
<1>1. Backed
  BY DEF UploadInv, DecisionsTrue, Moves
<1>2. \A y \in Officers : at'[y] \in {"claim", "list"} \cup AtRows => at[y] \in {"claim", "list"} \cup AtRows
  BY DEF Moves
<1> QED
  BY <1>1, <1>2 DEF Backed

LEMMA EditRowKeeps ==
    ASSUME UploadInv, NEW x \in Officers, EditRow(x)
    PROVE  UploadInv' /\ ActivatedStands
<1>1. /\ Proceed(x, "row", "count")
      /\ phoneOf' = [phoneOf EXCEPT ![picked[x]] = typed[x]]
      /\ checked' = [checked EXCEPT ![picked[x]] =
             IF typed[x] = NoPhone \/ typed[x] \in Taken THEN "invalid" ELSE "valid"]
      /\ picked' = [picked EXCEPT ![x] = 0] /\ typed' = [typed EXCEPT ![x] = NoPhone]
      /\ UNCHANGED <<flow, stage, validRows, activation, studentVars, form, choice, counted, activateVars>>
  BY DEF EditRow
<1>2. Moves(x, "count") /\ at[x] = "row"
  BY <1>1, Proceeds DEF AllSteps
<1>p. picked[x] \in Lines
  BY <1>2 DEF UploadInv, OfficerHas
<1>3. UploadTypeOK'
  BY <1>1, <1>2, StepsOfKinds DEF UploadInv, UploadTypeOK, Moves, rowVars, studentVars, editVars, activateVars, Races, Halts, Usable
<1>4. Rests(x)
  BY <1>1, <1>2 DEF UploadInv, UploadTypeOK, Moves, Rests, editVars, activateVars, rowVars, studentVars
<1>5. OfficerHas(x)'
  BY <1>1, <1>2, <1>4, StepsOfKinds DEF UploadInv, OfficerHas, Moves, AtRows, editVars, activateVars
<1>6. RowsUsable'
  BY <1>1, <1>p DEF UploadInv, UploadTypeOK, RowsUsable, Usable
<1>7. "activation" \notin raced' => StageFits(x)' /\ NoneMissed(x)' /\ NoneWaits'
  <2>1. "activation" \notin raced' => stage' # "ACTIVATED"
    BY <1>1, <1>2, StepsOfKinds DEF UploadInv, LeftTrue, StageFits, Moves
  <2>2. at'[x] = "count"
    BY <1>2 DEF Moves
  <2> QED
    BY <2>1, <2>2, StepsOfKinds DEF StageFits, NoneMissed, NoneWaits, AtRows, Early
<1>8. /\ \A q \in Forms : form[q] = "PENDING" /\ form'[q] # "PENDING" => at[x] \in {"decide", "settle"}
      /\ \A q \in Forms : form'[q] = "APPROVED" /\ form[q] # "APPROVED" => at[x] = "decide"
      /\ stage' = "SUBMITTED" => Pending'
  BY <1>1, <1>2 DEF UploadInv, Pending
<1>9. "decisions" \notin raced' => Backed'
  BY <1>1, <1>2, BackedStays DEF Approved, AllSteps, AtRows, studentVars
<1>10. ActivatedStands
  BY <1>1, <1>2, StepsOfKinds DEF ActivatedStands, UploadInv, LeftTrue, StageFits, Early, Moves
<1> QED
  BY <1>1, <1>2, <1>3, <1>4, <1>5, <1>6, <1>7, <1>8, <1>9, <1>10, WritingSteps
      DEF AllSteps, rowVars, studentVars, activateVars

LEMMA EditBatchKeeps ==
    ASSUME UploadInv, NEW x \in Officers, EditBatch(x)
    PROVE  UploadInv' /\ ActivatedStands
<1>1. /\ Proceed(x, "batch", "none")
      /\ validRows' = counted[x]
      /\ stage' = IF counted[x] > 0 THEN "READY_FOR_REVIEW" ELSE "FAILED"
      /\ counted' = [counted EXCEPT ![x] = 0]
      /\ UNCHANGED <<flow, rowVars, studentVars, form, choice, picked, typed, activateVars>>
  BY DEF EditBatch
<1>2. Moves(x, "none") /\ at[x] = "batch"
  BY <1>1, Proceeds DEF AllSteps
<1>c. counted[x] \in 0 .. Cardinality(Lines) /\ 0 \in 0 .. Cardinality(Lines)
  BY LineSets DEF UploadInv, UploadTypeOK
<1>3. UploadTypeOK'
  BY <1>1, <1>2, StepsOfKinds, <1>c DEF UploadInv, UploadTypeOK, Moves, rowVars, studentVars, editVars, activateVars, Races, Halts, Stages
<1>4. Rests(x)
  BY <1>1, <1>2 DEF UploadInv, UploadTypeOK, Moves, Rests, editVars, activateVars, rowVars, studentVars
<1>5. OfficerHas(x)'
  BY <1>1, <1>2, <1>4, StepsOfKinds DEF UploadInv, OfficerHas, Moves, AtRows, editVars, activateVars
<1>6. RowsUsable'
  BY <1>1 DEF UploadInv, RowsUsable, rowVars
<1>7. "activation" \notin raced' => StageFits(x)' /\ NoneMissed(x)' /\ NoneWaits'
  BY <1>1, <1>2, <1>4, StepsOfKinds DEF UploadInv, LeftTrue, Moves, StageFits, NoneMissed, NoneWaits, Waits, AtRows, Early, rowVars
<1>8. /\ \A q \in Forms : form[q] = "PENDING" /\ form'[q] # "PENDING" => at[x] \in {"decide", "settle"}
      /\ \A q \in Forms : form'[q] = "APPROVED" /\ form[q] # "APPROVED" => at[x] = "decide"
      /\ stage' = "SUBMITTED" => Pending'
  BY <1>1, <1>2 DEF UploadInv, Pending
<1>9. "decisions" \notin raced' => Backed'
  BY <1>1, <1>2, BackedStays DEF Approved, AllSteps, AtRows, studentVars
<1>10. ActivatedStands
  BY <1>1, <1>2, StepsOfKinds DEF ActivatedStands, UploadInv, LeftTrue, StageFits, Early, Moves
<1> QED
  BY <1>1, <1>2, <1>3, <1>4, <1>5, <1>6, <1>7, <1>8, <1>9, <1>10, WritingSteps
      DEF AllSteps, rowVars, studentVars, activateVars

LEMMA SubmitRecheckKeeps ==
    ASSUME UploadInv, NEW x \in Officers, SubmitRecheck(x)
    PROVE  UploadInv' /\ ActivatedStands
<1>1. /\ Proceed(x, "recheck", "ready")
      /\ checked' = [r \in Lines |-> CheckOf(phoneOf, r, Taken, member)]
      /\ counted' = [counted EXCEPT ![x] = ValidCount(checked')]
      /\ UNCHANGED <<flow, stage, validRows, phoneOf, activation, studentVars, form, choice, picked, typed, activateVars>>
  BY DEF SubmitRecheck
<1>2. Moves(x, "ready") /\ at[x] = "recheck"
  BY <1>1, Proceeds DEF AllSteps
<1>3. UploadTypeOK'
  BY <1>1, <1>2, StepsOfKinds, ValidCounts DEF UploadInv, UploadTypeOK, Moves, rowVars, studentVars, editVars, activateVars, Races, Halts, Usable, CheckOf
<1>4. Rests(x)
  BY <1>1, <1>2 DEF UploadInv, UploadTypeOK, Moves, Rests, editVars, activateVars, rowVars, studentVars
<1>5. OfficerHas(x)'
  BY <1>1, <1>2, <1>4, StepsOfKinds DEF UploadInv, OfficerHas, Moves, AtRows, editVars, activateVars
<1>6. RowsUsable'
  BY <1>1 DEF UploadInv, UploadTypeOK, RowsUsable, Usable, CheckOf
<1>7. "activation" \notin raced' => StageFits(x)' /\ NoneMissed(x)' /\ NoneWaits'
  BY <1>1, <1>2, <1>4, StepsOfKinds DEF UploadInv, LeftTrue, Moves, StageFits, NoneMissed, NoneWaits, Waits, AtRows, Early, rowVars
<1>8. /\ \A q \in Forms : form[q] = "PENDING" /\ form'[q] # "PENDING" => at[x] \in {"decide", "settle"}
      /\ \A q \in Forms : form'[q] = "APPROVED" /\ form[q] # "APPROVED" => at[x] = "decide"
      /\ stage' = "SUBMITTED" => Pending'
  BY <1>1, <1>2 DEF UploadInv, Pending
<1>9. "decisions" \notin raced' => Backed'
  BY <1>1, <1>2, BackedStays DEF Approved, AllSteps, AtRows, studentVars
<1>10. ActivatedStands
  BY <1>1, <1>2, StepsOfKinds DEF ActivatedStands, UploadInv, LeftTrue, StageFits, Early, Moves
<1> QED
  BY <1>1, <1>2, <1>3, <1>4, <1>5, <1>6, <1>7, <1>8, <1>9, <1>10, WritingSteps
      DEF AllSteps, rowVars, studentVars, activateVars

LEMMA SubmitReadyKeeps ==
    ASSUME UploadInv, NEW x \in Officers, SubmitReady(x)
    PROVE  UploadInv' /\ ActivatedStands
<1>1. /\ Proceed(x, "ready", "send")
      /\ validRows' = counted[x] /\ stage' = "READY_FOR_REVIEW"
      /\ counted' = [counted EXCEPT ![x] = 0]
      /\ UNCHANGED <<flow, rowVars, studentVars, form, choice, picked, typed, activateVars>>
  BY DEF SubmitReady
<1>2. Moves(x, "send") /\ at[x] = "ready"
  BY <1>1, Proceeds DEF AllSteps
<1>c. counted[x] \in 0 .. Cardinality(Lines) /\ 0 \in 0 .. Cardinality(Lines)
  BY LineSets DEF UploadInv, UploadTypeOK
<1>3. UploadTypeOK'
  BY <1>1, <1>2, StepsOfKinds, <1>c DEF UploadInv, UploadTypeOK, Moves, rowVars, studentVars, editVars, activateVars, Races, Halts, Stages
<1>4. Rests(x)
  BY <1>1, <1>2 DEF UploadInv, UploadTypeOK, Moves, Rests, editVars, activateVars, rowVars, studentVars
<1>5. OfficerHas(x)'
  BY <1>1, <1>2, <1>4, StepsOfKinds DEF UploadInv, OfficerHas, Moves, AtRows, editVars, activateVars
<1>6. RowsUsable'
  BY <1>1 DEF UploadInv, RowsUsable, rowVars
<1>7. "activation" \notin raced' => StageFits(x)' /\ NoneMissed(x)' /\ NoneWaits'
  BY <1>1, <1>2, <1>4, StepsOfKinds DEF UploadInv, LeftTrue, Moves, StageFits, NoneMissed, NoneWaits, Waits, AtRows, Early, rowVars
<1>8. /\ \A q \in Forms : form[q] = "PENDING" /\ form'[q] # "PENDING" => at[x] \in {"decide", "settle"}
      /\ \A q \in Forms : form'[q] = "APPROVED" /\ form[q] # "APPROVED" => at[x] = "decide"
      /\ stage' = "SUBMITTED" => Pending'
  BY <1>1, <1>2 DEF UploadInv, Pending
<1>9. "decisions" \notin raced' => Backed'
  BY <1>1, <1>2, BackedStays DEF Approved, AllSteps, AtRows, studentVars
<1>10. ActivatedStands
  BY <1>1, <1>2, StepsOfKinds DEF ActivatedStands, UploadInv, LeftTrue, StageFits, Early, Moves
<1> QED
  BY <1>1, <1>2, <1>3, <1>4, <1>5, <1>6, <1>7, <1>8, <1>9, <1>10, WritingSteps
      DEF AllSteps, rowVars, studentVars, activateVars

LEMMA SubmitSendKeeps ==
    ASSUME UploadInv, NEW x \in Officers, SubmitSend(x)
    PROVE  UploadInv' /\ ActivatedStands
<1>1. /\ Proceed(x, "send", "none")
      /\ UNCHANGED <<flow, validRows, rowVars, studentVars, choice, editVars, activateVars>>
  BY DEF SubmitSend
<1>2. Moves(x, "none") /\ at[x] = "send"
  BY <1>1, Proceeds DEF AllSteps
<1>f. \/ UNCHANGED <<stage, form>>
      \/ stage' = "SUBMITTED" /\ \E q \in Forms : form[q] = "NONE" /\ form' = [form EXCEPT ![q] = "PENDING"]
  BY DEF SubmitSend
<1>g. /\ \A q \in Forms : form[q] = "PENDING" => form'[q] = "PENDING"
      /\ \A q \in Forms : form'[q] = "APPROVED" <=> form[q] = "APPROVED"
      /\ stage' = stage \/ (stage' = "SUBMITTED" /\ Pending')
  BY <1>f DEF UploadInv, UploadTypeOK, Pending
<1>3. UploadTypeOK'
  BY <1>1, <1>2, StepsOfKinds, <1>f DEF UploadInv, UploadTypeOK, Moves, rowVars, studentVars, editVars, activateVars, Races, Halts, Stages, FormStatuses
<1>4. Rests(x)
  BY <1>1, <1>2 DEF UploadInv, UploadTypeOK, Moves, Rests, editVars, activateVars, rowVars, studentVars
<1>5. OfficerHas(x)'
  BY <1>1, <1>2, <1>4, StepsOfKinds DEF UploadInv, OfficerHas, Moves, AtRows, editVars, activateVars
<1>6. RowsUsable'
  BY <1>1 DEF UploadInv, RowsUsable, rowVars
<1>7. "activation" \notin raced' => StageFits(x)' /\ NoneMissed(x)' /\ NoneWaits'
  BY <1>1, <1>2, <1>g, <1>f, StepsOfKinds DEF UploadInv, LeftTrue, Moves, StageFits, NoneMissed, NoneWaits, Waits, AtRows, Early, rowVars
<1>8. /\ \A q \in Forms : form[q] = "PENDING" /\ form'[q] # "PENDING" => at[x] \in {"decide", "settle"}
      /\ \A q \in Forms : form'[q] = "APPROVED" /\ form[q] # "APPROVED" => at[x] = "decide"
      /\ stage' = "SUBMITTED" => Pending'
  <2>1. Pending => Pending'
    BY <1>g DEF Pending
  <2> QED
    BY <1>g, <2>1 DEF UploadInv
<1>9. "decisions" \notin raced' => Backed'
  BY <1>1, <1>2, <1>g, BackedStays DEF Approved, AllSteps, AtRows, studentVars
<1>10. ActivatedStands
  BY <1>1, <1>2, StepsOfKinds DEF ActivatedStands, UploadInv, LeftTrue, StageFits, Early, Moves
<1> QED
  BY <1>g, <1>1, <1>2, <1>3, <1>4, <1>5, <1>6, <1>7, <1>8, <1>9, <1>10, WritingSteps
      DEF AllSteps, rowVars, studentVars, activateVars

LEMMA ReviewDecideKeeps ==
    ASSUME UploadInv, NEW x \in Officers, ReviewDecide(x)
    PROVE  UploadInv' /\ ActivatedStands
<1> DEFINE step == IF choice[x] = "APPROVED" THEN "open" ELSE "none"
<1>1. /\ Proceed(x, "decide", step)
      /\ stage' = choice[x] /\ form' = [q \in Forms |-> IF q = picked[x] THEN choice[x] ELSE form[q]]
      /\ choice' = [choice EXCEPT ![x] = "none"] /\ picked' = [picked EXCEPT ![x] = 0]
      /\ UNCHANGED <<flow, validRows, rowVars, studentVars, typed, counted, activateVars>>
  BY DEF ReviewDecide
<1>2. Moves(x, step) /\ at[x] = "decide" /\ step \in {"open", "none"}
  BY <1>1, Proceeds DEF AllSteps
<1>p. choice[x] \in {"APPROVED", "REJECTED"} /\ picked[x] \in Forms \cup {0}
  BY <1>2 DEF UploadInv, OfficerHas
<1>3. UploadTypeOK'
  BY <1>1, <1>2, StepsOfKinds, <1>p DEF UploadInv, UploadTypeOK, Moves, rowVars, studentVars, editVars, activateVars, Races, Halts, Stages, FormStatuses
<1>4. Rests(x)
  BY <1>1, <1>2 DEF UploadInv, UploadTypeOK, Moves, Rests, editVars, activateVars, rowVars, studentVars
<1>5. OfficerHas(x)'
  BY <1>1, <1>2, <1>4, StepsOfKinds DEF UploadInv, OfficerHas, Moves, AtRows, editVars, activateVars
<1>6. RowsUsable'
  BY <1>1 DEF UploadInv, RowsUsable, rowVars
<1>7. "activation" \notin raced' => StageFits(x)' /\ NoneMissed(x)' /\ NoneWaits'
  BY <1>1, <1>2, <1>p, StepsOfKinds DEF Moves, StageFits, NoneMissed, NoneWaits, AtRows, Early
<1>8. /\ \A q \in Forms : form[q] = "PENDING" /\ form'[q] # "PENDING" => at[x] \in {"decide", "settle"}
      /\ \A q \in Forms : form'[q] = "APPROVED" /\ form[q] # "APPROVED" => at[x] = "decide"
      /\ stage' = "SUBMITTED" => Pending'
  BY <1>1, <1>2, <1>p DEF UploadInv, UploadTypeOK
<1>9. "decisions" \notin raced' => Backed'
  <2>1. ASSUME "decisions" \notin raced' PROVE picked[x] \in Forms /\ form[picked[x]] = "PENDING"
    BY <1>2, <2>1 DEF UploadInv, DecisionsTrue, Moves
  <2>2. "decisions" \notin raced' => (Approved => Approved') /\ (stage' = "APPROVED" => Approved')
    BY <1>1, <2>1 DEF Approved
  <2> QED
    BY <1>1, <1>2, <2>2, BackedStays DEF AllSteps, AtRows, studentVars
<1>10. ActivatedStands
  BY <1>1, <1>2, StepsOfKinds DEF ActivatedStands, UploadInv, LeftTrue, StageFits, Early, Moves
<1> QED
  BY <1>p, <1>1, <1>2, <1>3, <1>4, <1>5, <1>6, <1>7, <1>8, <1>9, <1>10, WritingSteps
      DEF AllSteps, rowVars, studentVars, activateVars

LEMMA SettleTxKeeps ==
    ASSUME UploadInv, NEW x \in Officers, SettleTx(x)
    PROVE  UploadInv' /\ ActivatedStands
<1>1. /\ Proceed(x, "settle", "none")
      /\ form' = [form EXCEPT ![picked[x]] = choice[x]]
      /\ stage' = IF choice[x] = "REJECTED" THEN "REJECTED" ELSE "READY_FOR_REVIEW"
      /\ choice' = [choice EXCEPT ![x] = "none"] /\ picked' = [picked EXCEPT ![x] = 0]
      /\ UNCHANGED <<flow, validRows, rowVars, studentVars, typed, counted, activateVars>>
  BY DEF SettleTx
<1>2. Moves(x, "none") /\ at[x] = "settle"
  BY <1>1, Proceeds DEF AllSteps
<1>p. choice[x] \in {"REJECTED", "CANCELLED"} /\ picked[x] \in Forms
  BY <1>2 DEF UploadInv, OfficerHas
<1>3. UploadTypeOK'
  BY <1>1, <1>2, StepsOfKinds, <1>p DEF UploadInv, UploadTypeOK, Moves, rowVars, studentVars, editVars, activateVars, Races, Halts, Stages, FormStatuses
<1>4. Rests(x)
  BY <1>1, <1>2 DEF UploadInv, UploadTypeOK, Moves, Rests, editVars, activateVars, rowVars, studentVars
<1>5. OfficerHas(x)'
  BY <1>1, <1>2, <1>4, StepsOfKinds DEF UploadInv, OfficerHas, Moves, AtRows, editVars, activateVars
<1>6. RowsUsable'
  BY <1>1 DEF UploadInv, RowsUsable, rowVars
<1>7. "activation" \notin raced' => StageFits(x)' /\ NoneMissed(x)' /\ NoneWaits'
  BY <1>1, <1>2, <1>p, StepsOfKinds DEF Moves, StageFits, NoneMissed, NoneWaits, AtRows, Early
<1>8. /\ \A q \in Forms : form[q] = "PENDING" /\ form'[q] # "PENDING" => at[x] \in {"decide", "settle"}
      /\ \A q \in Forms : form'[q] = "APPROVED" /\ form[q] # "APPROVED" => at[x] = "decide"
      /\ stage' = "SUBMITTED" => Pending'
  BY <1>1, <1>2, <1>p DEF UploadInv, UploadTypeOK
<1>9. "decisions" \notin raced' => Backed'
  <2>1. "decisions" \notin raced' => form[picked[x]] # "APPROVED"
    BY <1>2 DEF UploadInv, DecisionsTrue, Moves
  <2>2. "decisions" \notin raced' => (Approved => Approved')
    BY <1>1, <1>p, <2>1 DEF Approved, UploadInv, UploadTypeOK
  <2> QED
    BY <1>1, <1>2, <2>2, BackedStays DEF AllSteps, AtRows, studentVars
<1>10. ActivatedStands
  BY <1>1, <1>2, <1>p DEF ActivatedStands, UploadInv, LeftTrue, StageFits
<1> QED
  BY <1>1, <1>2, <1>3, <1>4, <1>5, <1>6, <1>7, <1>8, <1>9, <1>10, WritingSteps
      DEF AllSteps, rowVars, studentVars, activateVars

LEMMA ActivateClaimKeeps ==
    ASSUME UploadInv, NEW x \in Officers, ActivateClaim(x)
    PROVE  UploadInv' /\ ActivatedStands
<1>1. /\ Proceed(x, "claim", "list") /\ stage' = "ACTIVATING"
      /\ UNCHANGED <<flow, validRows, rowVars, studentVars, form, choice, editVars, activateVars>>
  BY DEF ActivateClaim
<1>2. Moves(x, "list") /\ at[x] = "claim"
  BY <1>1, Proceeds DEF AllSteps
<1>3. UploadTypeOK'
  BY <1>1, <1>2, StepsOfKinds DEF UploadInv, UploadTypeOK, Moves, rowVars, studentVars, editVars, activateVars, Races, Halts, Stages
<1>4. Rests(x)
  BY <1>1, <1>2 DEF UploadInv, UploadTypeOK, Moves, Rests, editVars, activateVars, rowVars, studentVars
<1>5. OfficerHas(x)'
  BY <1>1, <1>2, <1>4, StepsOfKinds DEF UploadInv, OfficerHas, Moves, AtRows, editVars, activateVars
<1>6. RowsUsable'
  BY <1>1 DEF UploadInv, RowsUsable, rowVars
<1>7. "activation" \notin raced' => StageFits(x)' /\ NoneMissed(x)' /\ NoneWaits'
  BY <1>1, <1>2, <1>4, StepsOfKinds DEF UploadInv, LeftTrue, Moves, StageFits, NoneMissed, NoneWaits, Waits, AtRows, Early, rowVars
<1>8. /\ \A q \in Forms : form[q] = "PENDING" /\ form'[q] # "PENDING" => at[x] \in {"decide", "settle"}
      /\ \A q \in Forms : form'[q] = "APPROVED" /\ form[q] # "APPROVED" => at[x] = "decide"
      /\ stage' = "SUBMITTED" => Pending'
  BY <1>1, <1>2 DEF UploadInv, Pending
<1>9. "decisions" \notin raced' => Backed'
  BY <1>1, <1>2, BackedStays DEF Approved, AllSteps, AtRows, studentVars
<1>10. ActivatedStands
  BY <1>1, <1>2, StepsOfKinds DEF ActivatedStands, UploadInv, LeftTrue, StageFits, Early, Moves
<1> QED
  BY <1>1, <1>2, <1>3, <1>4, <1>5, <1>6, <1>7, <1>8, <1>9, <1>10, WritingSteps
      DEF AllSteps, rowVars, studentVars, activateVars

-----------------------------------------------------------------------------
(* Steps that activate *)

LEMMA ActivatingSteps ==
    ASSUME UploadInv, NEW x \in Officers, NEW step \in AllSteps, Moves(x, step), Rests(x), UploadTypeOK',
           flow' = flow, form' = form, at[x] \in AtRows, step \in AtRows \cup {"none"},
           OfficerHas(x)', RowsUsable', RowsTrue',
           stage' = stage \/ stage' \in {"ACTIVATED", "PARTIALLY_ACTIVATED", "FAILED"},
           "activation" \notin raced' => StageFits(x)' /\ NoneMissed(x)' /\ NoneWaits'
    PROVE  UploadInv' /\ ActivatedStands
<1>1. /\ at'[x] = step /\ raced \subseteq raced' /\ Alone'
      /\ at[x] # "none" \/ at'[x] # "none"
  BY DEF Moves
<1>2. IsKind(at[x], "activate")
  BY StepsOfKinds DEF IsKind, AtRows
<1>3. LeftTrue'
  BY <1>1, <1>2, LeftKept
<1>4. DecisionsTrue'
  <2>1. ASSUME "decisions" \notin raced' PROVE Backed'
    <3>1. Backed
      BY <1>1, <2>1 DEF UploadInv, DecisionsTrue
    <3>2. flow = "institution" => Approved
      BY <3>1 DEF Backed
    <3>3. Approved' = Approved
      BY DEF Approved
    <3> QED
      BY <3>2, <3>3 DEF Backed
  <2> QED
    BY <1>1, <2>1, DecisionsKept DEF AtRows
<1>5. stage' = "SUBMITTED" => Pending'
  BY DEF UploadInv, Pending
<1>6. ActivatedStands
  BY DEF UploadInv, LeftTrue, StageFits, ActivatedStands
<1> QED
  BY <1>1, <1>3, <1>4, <1>5, <1>6, StepKeeps

\* What an activation that none overlapped with knows of the rows
LEMMA RowsKnown ==
    ASSUME UploadInv, NEW x \in Officers, NEW step \in AllSteps, Moves(x, step), Rests(x), at[x] \in AtRows,
           "activations" \notin raced', "activate" \notin halted'
    PROVE  /\ \A m \in Phones, n \in Lines : account[m] = n =>
                 activation[n] = "ACTIVATED" \/ (at[x] = "mark" /\ picked[x] = n)
           /\ \A n \in todo[x], m \in Phones : account[m] # n
           /\ at[x] = "fail" => \A m \in Phones : account[m] # picked[x]
           /\ \A y \in Officers \ {x} : at'[y] \notin {"mark", "fail"} /\ todo'[y] = {}
<1>1. \A y \in Officers \ {x} : at[y] \notin AtRows /\ at'[y] = at[y] /\ todo'[y] = todo[y]
  BY StepsOfKinds DEF UploadInv, Alone, IsKind, Moves, Rests, AtRows
<1>2. \A y \in Officers \ {x} : todo[y] = {}
  BY <1>1 DEF UploadInv, OfficerHas
<1>3. /\ \A m \in Phones, n \in Lines : account[m] = n =>
            \/ activation[n] = "ACTIVATED"
            \/ \E y \in Officers : at[y] = "mark" /\ picked[y] = n
      /\ \A y \in Officers : \A n \in todo[y], m \in Phones : account[m] # n
      /\ \A y \in Officers : at[y] = "fail" => \A m \in Phones : account[m] # picked[y]
  BY DEF UploadInv, RowsTrue, Moves
<1> QED
  BY <1>1, <1>2, <1>3 DEF AtRows

\* The counts of an activation that takes a row from its list
LEMMA RowTaken ==
    ASSUME UploadInv, NEW x \in Officers, NEW r \in todo[x]
    PROVE  /\ r \in Lines /\ copyPhone[x][r] \in Phones /\ todo[x] \in SUBSET Lines
           /\ good[x] + 1 \in 0 .. Cardinality(Lines)
           /\ good[x] + 1 + bad[x] + Cardinality(todo[x] \ {r}) <= Cardinality(Lines)
           /\ \A q \in todo[x] : copyPhone[x][q] \in Phones
<1>1. /\ good[x] + bad[x] + Cardinality(todo[x]) <= Cardinality(Lines)
      /\ good[x] \in Nat /\ bad[x] \in Nat /\ Cardinality(Lines) \in Nat
      /\ todo[x] \in SUBSET Lines /\ \A q \in todo[x] : copyPhone[x][q] \in Phones
  BY LineSets DEF UploadInv, OfficerHas, UploadTypeOK
<1>2. /\ Cardinality(todo[x]) \in Nat /\ Cardinality(todo[x] \ {r}) \in Nat
      /\ Cardinality(todo[x] \ {r}) = Cardinality(todo[x]) - 1
  BY <1>1, LineSets
<1> QED
  BY <1>1, <1>2

LEMMA RegisterRowKeeps ==
    ASSUME UploadInv, NEW x \in Officers, RegisterRow(x)
    PROVE  UploadInv' /\ ActivatedStands
<1>1. /\ Proceed(x, "rows", "rows") /\ flow = "admin"
      /\ good' = [good EXCEPT ![x] = @ + 1]
      /\ UNCHANGED <<flow, stage, validRows, phoneOf, checked, member, form, choice, editVars,
                 copyPhone, copyCheck, bad>>
  BY DEF RegisterRow
<1>2. Moves(x, "rows") /\ at[x] = "rows"
  BY <1>1, Proceeds DEF AllSteps
<1>r. PICK r \in Lines :
        /\ r \in todo[x] /\ account[copyPhone[x][r]] = 0
        /\ account' = [account EXCEPT ![copyPhone[x][r]] = r]
        /\ activation' = [activation EXCEPT ![r] = "ACTIVATED"]
        /\ todo' = [todo EXCEPT ![x] = @ \ {r}]
  BY DEF RegisterRow, NextLine
<1>t. /\ r \in Lines /\ copyPhone[x][r] \in Phones /\ todo[x] \in SUBSET Lines
      /\ good[x] + 1 \in 0 .. Cardinality(Lines)
      /\ good[x] + 1 + bad[x] + Cardinality(todo[x] \ {r}) <= Cardinality(Lines)
      /\ \A q \in todo[x] : copyPhone[x][q] \in Phones
  BY <1>r, RowTaken
<1>3. UploadTypeOK'
  BY <1>1, <1>2, StepsOfKinds, <1>r, <1>t DEF UploadInv, UploadTypeOK, Moves, rowVars, studentVars, editVars, activateVars, Races, Halts, Usable
<1>4. Rests(x) /\ todo'[x] = todo[x] \ {r}
  BY <1>1, <1>2, <1>r DEF UploadInv, UploadTypeOK, Moves, Rests, editVars, activateVars
<1>5. OfficerHas(x)'
  <2>1. good'[x] = good[x] + 1 /\ bad'[x] = bad[x] /\ copyPhone'[x] = copyPhone[x]
    BY <1>1 DEF UploadInv, UploadTypeOK
  <2>2. at'[x] = "rows"
    BY <1>2 DEF Moves
  <2> QED
    BY <1>1, <1>4, <1>r, <1>t, <2>1, <2>2, StepsOfKinds DEF OfficerHas, AtRows
<1>6. RowsUsable'
  BY <1>1 DEF UploadInv, RowsUsable
<1>7. RowsTrue'
  <2> SUFFICES ASSUME "activations" \notin raced', "activate" \notin halted'
               PROVE  /\ \A m \in Phones, n \in Lines : account'[m] = n =>
                            \/ activation'[n] = "ACTIVATED"
                            \/ \E y \in Officers : at'[y] = "mark" /\ picked'[y] = n
                      /\ \A y \in Officers : \A n \in todo'[y], m \in Phones : account'[m] # n
                      /\ \A y \in Officers : at'[y] = "fail" => \A m \in Phones : account'[m] # picked'[y]
    BY DEF RowsTrue
  <2>1. /\ \A m \in Phones, n \in Lines : account[m] = n =>
              activation[n] = "ACTIVATED" \/ (at[x] = "mark" /\ picked[x] = n)
        /\ \A n \in todo[x], m \in Phones : account[m] # n
        /\ at[x] = "fail" => \A m \in Phones : account[m] # picked[x]
        /\ \A y \in Officers \ {x} : at'[y] \notin {"mark", "fail"} /\ todo'[y] = {}
    BY <1>2, <1>4, RowsKnown DEF AllSteps, AtRows
  <2>2. /\ \A m \in Phones : account'[m] = IF m = copyPhone[x][r] THEN r ELSE account[m]
        /\ \A n \in Lines : activation'[n] = IF n = r THEN "ACTIVATED" ELSE activation[n]
        /\ at'[x] = "rows"
    BY <1>2, <1>r DEF UploadInv, UploadTypeOK, Moves
  <2> QED
    BY <1>2, <1>4, <1>r, <1>t, <2>1, <2>2
<1>8. "activation" \notin raced' => StageFits(x)' /\ NoneMissed(x)' /\ NoneWaits'
  <2>1. ASSUME "activation" \notin raced' PROVE stage = "ACTIVATING" /\ NoneMissed(x)
    BY <1>2, <2>1 DEF UploadInv, LeftTrue, StageFits, Moves, AtRows
  <2>2. "activation" \notin raced' => StageFits(x)' /\ NoneWaits'
    BY <1>1, <1>2, <2>1, StepsOfKinds DEF StageFits, Moves, NoneWaits, AtRows, Early
  <2>3. "activation" \notin raced' => NoneMissed(x)'
    BY <1>1, <1>2, <1>4, <2>1, <1>r DEF NoneMissed, Waits, Moves, AtRows, rowVars, UploadInv, UploadTypeOK, Usable
  <2> QED
    BY <2>2, <2>3
<1> QED
  BY <1>1, <1>2, <1>3, <1>4, <1>5, <1>6, <1>7, <1>8, ActivatingSteps DEF AllSteps, AtRows

LEMMA EnrolRowKeeps ==
    ASSUME UploadInv, NEW x \in Officers, EnrolRow(x)
    PROVE  UploadInv' /\ ActivatedStands
<1>1. /\ Proceed(x, "rows", "mark") /\ flow = "institution"
      /\ good' = [good EXCEPT ![x] = @ + 1]
      /\ UNCHANGED <<flow, stage, validRows, phoneOf, activation, form, choice, typed, counted,
                 copyPhone, copyCheck, bad>>
  BY DEF EnrolRow
<1>2. Moves(x, "mark") /\ at[x] = "rows"
  BY <1>1, Proceeds DEF AllSteps
<1>r. PICK r \in Lines :
        /\ r \in todo[x]
        /\ \/ UNCHANGED <<account, checked>>
           \/ /\ account[copyPhone[x][r]] = 0
              /\ account' = [account EXCEPT ![copyPhone[x][r]] = r]
              /\ checked' = [checked EXCEPT ![r] = IF @ = "valid" THEN "matched" ELSE @]
        /\ member' = member \cup {copyPhone[x][r]}
        /\ picked' = [picked EXCEPT ![x] = r]
        /\ todo' = [todo EXCEPT ![x] = @ \ {r}]
  BY DEF EnrolRow, NextLine
<1>t. /\ r \in Lines /\ copyPhone[x][r] \in Phones /\ todo[x] \in SUBSET Lines
      /\ good[x] + 1 \in 0 .. Cardinality(Lines)
      /\ good[x] + 1 + bad[x] + Cardinality(todo[x] \ {r}) <= Cardinality(Lines)
      /\ \A q \in todo[x] : copyPhone[x][q] \in Phones
  BY <1>r, RowTaken
<1>c. /\ checked' \in [Lines -> Usable \cup {"invalid"}] /\ account' \in [Phones -> {0, Outside} \cup Lines]
      /\ member' \subseteq Phones /\ picked' \in [Officers -> Lines \cup Forms \cup {0}]
      /\ todo' \in [Officers -> SUBSET Lines] /\ good' \in [Officers -> 0 .. Cardinality(Lines)]
  <2>1. checked' \in [Lines -> Usable \cup {"invalid"}]
    <3>1. checked \in [Lines -> Usable \cup {"invalid"}]
      BY DEF UploadInv, UploadTypeOK
    <3>2. (IF checked[r] = "valid" THEN "matched" ELSE checked[r]) \in Usable \cup {"invalid"}
      BY <3>1 DEF Usable
    <3> QED
      BY <1>r, <3>1, <3>2
  <2>2. account' \in [Phones -> {0, Outside} \cup Lines]
    <3>1. account \in [Phones -> {0, Outside} \cup Lines] /\ r \in {0, Outside} \cup Lines
      BY DEF UploadInv, UploadTypeOK
    <3>2. account' = account \/ account' = [account EXCEPT ![copyPhone[x][r]] = r]
      BY <1>r
    <3> QED
      BY <3>1, <3>2
  <2>3. member' \subseteq Phones /\ picked' \in [Officers -> Lines \cup Forms \cup {0}]
    BY <1>r, <1>t DEF UploadInv, UploadTypeOK
  <2>4. todo' \in [Officers -> SUBSET Lines] /\ good' \in [Officers -> 0 .. Cardinality(Lines)]
    BY <1>1, <1>r, <1>t DEF UploadInv, UploadTypeOK
  <2> QED
    BY <2>1, <2>2, <2>3, <2>4
<1>3. UploadTypeOK'
  BY <1>1, <1>2, StepsOfKinds, <1>c DEF UploadInv, UploadTypeOK, Moves, rowVars, studentVars, editVars, activateVars, Races, Halts, Usable
<1>4. Rests(x) /\ todo'[x] = todo[x] \ {r} /\ picked'[x] = r
  BY <1>1, <1>2, <1>r DEF UploadInv, UploadTypeOK, Moves, Rests, editVars, activateVars
<1>5. OfficerHas(x)'
  <2>1. good'[x] = good[x] + 1 /\ bad'[x] = bad[x] /\ copyPhone'[x] = copyPhone[x]
    BY <1>1 DEF UploadInv, UploadTypeOK
  <2>2. at'[x] = "mark"
    BY <1>2 DEF Moves
  <2> QED
    BY <1>1, <1>4, <1>r, <1>t, <2>1, <2>2, StepsOfKinds DEF OfficerHas, AtRows
<1>6. RowsUsable'
  <2>1. \A n \in Lines : checked'[n] \in Usable <=> checked[n] \in Usable
    BY <1>r DEF UploadInv, UploadTypeOK, Usable
  <2> QED
    BY <1>1, <2>1 DEF UploadInv, RowsUsable
<1>7. RowsTrue'
  <2> SUFFICES ASSUME "activations" \notin raced', "activate" \notin halted'
               PROVE  /\ \A m \in Phones, n \in Lines : account'[m] = n =>
                            \/ activation'[n] = "ACTIVATED"
                            \/ \E y \in Officers : at'[y] = "mark" /\ picked'[y] = n
                      /\ \A y \in Officers : \A n \in todo'[y], m \in Phones : account'[m] # n
                      /\ \A y \in Officers : at'[y] = "fail" => \A m \in Phones : account'[m] # picked'[y]
    BY DEF RowsTrue
  <2>1. /\ \A m \in Phones, n \in Lines : account[m] = n =>
              activation[n] = "ACTIVATED" \/ (at[x] = "mark" /\ picked[x] = n)
        /\ \A n \in todo[x], m \in Phones : account[m] # n
        /\ at[x] = "fail" => \A m \in Phones : account[m] # picked[x]
        /\ \A y \in Officers \ {x} : at'[y] \notin {"mark", "fail"} /\ todo'[y] = {}
    BY <1>2, <1>4, RowsKnown DEF AllSteps, AtRows
  <2>2. /\ \A m \in Phones : account'[m] = account[m] \/ account'[m] = r
        /\ activation' = activation /\ at'[x] = "mark"
    BY <1>1, <1>2, <1>r DEF UploadInv, UploadTypeOK, Moves
  <2> QED
    BY <1>2, <1>4, <1>r, <1>t, <2>1, <2>2
<1>8. "activation" \notin raced' => StageFits(x)' /\ NoneMissed(x)' /\ NoneWaits'
  <2>1. ASSUME "activation" \notin raced' PROVE stage = "ACTIVATING" /\ NoneMissed(x)
    BY <1>2, <2>1 DEF UploadInv, LeftTrue, StageFits, Moves, AtRows
  <2>2. "activation" \notin raced' => StageFits(x)' /\ NoneWaits'
    BY <1>1, <1>2, <2>1, StepsOfKinds DEF StageFits, Moves, NoneWaits, AtRows, Early
  <2>3. "activation" \notin raced' => NoneMissed(x)'
    BY <1>1, <1>2, <1>4, <2>1, <1>r DEF NoneMissed, Waits, Moves, AtRows, rowVars, UploadInv, UploadTypeOK, Usable
  <2> QED
    BY <2>2, <2>3
<1> QED
  BY <1>1, <1>2, <1>3, <1>4, <1>5, <1>6, <1>7, <1>8, ActivatingSteps DEF AllSteps, AtRows

LEMMA MarkRowKeeps ==
    ASSUME UploadInv, NEW x \in Officers, MarkRow(x)
    PROVE  UploadInv' /\ ActivatedStands
<1>1. /\ Proceed(x, "mark", "rows")
      /\ activation' = [activation EXCEPT ![picked[x]] = "ACTIVATED"]
      /\ picked' = [picked EXCEPT ![x] = 0]
      /\ UNCHANGED <<flow, stage, validRows, phoneOf, checked, studentVars, form, choice, typed, counted,
                 activateVars>>
  BY DEF MarkRow
<1>2. Moves(x, "rows") /\ at[x] = "mark"
  BY <1>1, Proceeds DEF AllSteps
<1>p. picked[x] \in Lines
  BY <1>2 DEF UploadInv, OfficerHas
<1>3. UploadTypeOK'
  BY <1>1, <1>2, StepsOfKinds, <1>p DEF UploadInv, UploadTypeOK, Moves, rowVars, studentVars, editVars, activateVars, Races, Halts, Usable
<1>4. Rests(x)
  BY <1>1, <1>2 DEF UploadInv, UploadTypeOK, Moves, Rests, editVars, activateVars
<1>5. OfficerHas(x)'
  BY <1>1, <1>2, <1>4, StepsOfKinds DEF UploadInv, OfficerHas, Moves, AtRows, editVars, activateVars
<1>6. RowsUsable'
  BY <1>1 DEF UploadInv, RowsUsable, rowVars
<1>7. RowsTrue'
  <2> SUFFICES ASSUME "activations" \notin raced', "activate" \notin halted'
               PROVE  /\ \A m \in Phones, n \in Lines : account'[m] = n =>
                            \/ activation'[n] = "ACTIVATED"
                            \/ \E y \in Officers : at'[y] = "mark" /\ picked'[y] = n
                      /\ \A y \in Officers : \A n \in todo'[y], m \in Phones : account'[m] # n
                      /\ \A y \in Officers : at'[y] = "fail" => \A m \in Phones : account'[m] # picked'[y]
    BY DEF RowsTrue
  <2>1. /\ \A m \in Phones, n \in Lines : account[m] = n =>
              activation[n] = "ACTIVATED" \/ (at[x] = "mark" /\ picked[x] = n)
        /\ \A n \in todo[x], m \in Phones : account[m] # n
        /\ at[x] = "fail" => \A m \in Phones : account[m] # picked[x]
        /\ \A y \in Officers \ {x} : at'[y] \notin {"mark", "fail"} /\ todo'[y] = {}
    BY <1>2, <1>4, RowsKnown DEF AllSteps, AtRows
  <2>2. /\ \A n \in Lines : activation'[n] = IF n = picked[x] THEN "ACTIVATED" ELSE activation[n]
        /\ at'[x] = "rows" /\ account' = account /\ todo' = todo
    BY <1>1, <1>2, <1>p DEF UploadInv, UploadTypeOK, Moves, studentVars, activateVars
  <2> QED
    BY <1>2, <2>1, <2>2, LineSets
<1>8. "activation" \notin raced' => StageFits(x)' /\ NoneMissed(x)' /\ NoneWaits'
  <2>1. ASSUME "activation" \notin raced' PROVE stage = "ACTIVATING" /\ NoneMissed(x)
    BY <1>2, <2>1 DEF UploadInv, LeftTrue, StageFits, Moves, AtRows
  <2>2. "activation" \notin raced' => StageFits(x)' /\ NoneWaits'
    BY <1>1, <1>2, <2>1, StepsOfKinds DEF StageFits, Moves, NoneWaits, AtRows, Early
  <2>3. "activation" \notin raced' => NoneMissed(x)'
    BY <1>1, <1>2, <1>4, <2>1, <1>p DEF NoneMissed, Waits, Moves, AtRows, rowVars, activateVars, UploadInv, UploadTypeOK, Usable
  <2> QED
    BY <2>2, <2>3
<1> QED
  BY <1>1, <1>2, <1>3, <1>4, <1>5, <1>6, <1>7, <1>8, ActivatingSteps DEF AllSteps, AtRows

LEMMA FailRowKeeps ==
    ASSUME UploadInv, NEW x \in Officers, FailRow(x)
    PROVE  UploadInv' /\ ActivatedStands
<1>1. /\ Proceed(x, "fail", "rows")
      /\ activation' = [activation EXCEPT ![picked[x]] = "FAILED"]
      /\ picked' = [picked EXCEPT ![x] = 0]
      /\ UNCHANGED <<flow, stage, validRows, phoneOf, checked, studentVars, form, choice, typed, counted,
                 activateVars>>
  BY DEF FailRow
<1>2. Moves(x, "rows") /\ at[x] = "fail"
  BY <1>1, Proceeds DEF AllSteps
<1>p. picked[x] \in Lines
  BY <1>2 DEF UploadInv, OfficerHas
<1>3. UploadTypeOK'
  BY <1>1, <1>2, StepsOfKinds, <1>p DEF UploadInv, UploadTypeOK, Moves, rowVars, studentVars, editVars, activateVars, Races, Halts, Usable
<1>4. Rests(x)
  BY <1>1, <1>2 DEF UploadInv, UploadTypeOK, Moves, Rests, editVars, activateVars
<1>5. OfficerHas(x)'
  BY <1>1, <1>2, <1>4, StepsOfKinds DEF UploadInv, OfficerHas, Moves, AtRows, editVars, activateVars
<1>6. RowsUsable'
  BY <1>1 DEF UploadInv, RowsUsable, rowVars
<1>7. RowsTrue'
  <2> SUFFICES ASSUME "activations" \notin raced', "activate" \notin halted'
               PROVE  /\ \A m \in Phones, n \in Lines : account'[m] = n =>
                            \/ activation'[n] = "ACTIVATED"
                            \/ \E y \in Officers : at'[y] = "mark" /\ picked'[y] = n
                      /\ \A y \in Officers : \A n \in todo'[y], m \in Phones : account'[m] # n
                      /\ \A y \in Officers : at'[y] = "fail" => \A m \in Phones : account'[m] # picked'[y]
    BY DEF RowsTrue
  <2>1. /\ \A m \in Phones, n \in Lines : account[m] = n =>
              activation[n] = "ACTIVATED" \/ (at[x] = "mark" /\ picked[x] = n)
        /\ \A n \in todo[x], m \in Phones : account[m] # n
        /\ at[x] = "fail" => \A m \in Phones : account[m] # picked[x]
        /\ \A y \in Officers \ {x} : at'[y] \notin {"mark", "fail"} /\ todo'[y] = {}
    BY <1>2, <1>4, RowsKnown DEF AllSteps, AtRows
  <2>2. /\ \A n \in Lines : activation'[n] = IF n = picked[x] THEN "FAILED" ELSE activation[n]
        /\ at'[x] = "rows" /\ account' = account /\ todo' = todo
    BY <1>1, <1>2, <1>p DEF UploadInv, UploadTypeOK, Moves, studentVars, activateVars
  <2> QED
    BY <1>2, <2>1, <2>2, LineSets
<1>8. "activation" \notin raced' => StageFits(x)' /\ NoneMissed(x)' /\ NoneWaits'
  <2>1. ASSUME "activation" \notin raced' PROVE stage = "ACTIVATING" /\ NoneMissed(x)
    BY <1>2, <2>1 DEF UploadInv, LeftTrue, StageFits, Moves, AtRows
  <2>2. "activation" \notin raced' => StageFits(x)' /\ NoneWaits'
    BY <1>1, <1>2, <2>1, StepsOfKinds DEF StageFits, Moves, NoneWaits, AtRows, Early
  <2>3. "activation" \notin raced' => NoneMissed(x)'
    BY <1>1, <1>2, <1>4, <2>1, <1>p DEF NoneMissed, Waits, Moves, AtRows, rowVars, activateVars, UploadInv, UploadTypeOK, Usable
  <2> QED
    BY <2>2, <2>3
<1> QED
  BY <1>1, <1>2, <1>3, <1>4, <1>5, <1>6, <1>7, <1>8, ActivatingSteps DEF AllSteps, AtRows

LEMMA ActivateEndsKeeps ==
    ASSUME UploadInv, NEW x \in Officers, ActivateEnds(x)
    PROVE  UploadInv' /\ ActivatedStands
<1>1. /\ Proceed(x, "rows", "none") /\ todo[x] = {}
      /\ stage' = IF bad[x] = 0 THEN "ACTIVATED"
                 ELSE IF good[x] = 0 THEN "FAILED" ELSE "PARTIALLY_ACTIVATED"
      /\ copyPhone' = [copyPhone EXCEPT ![x] = [r \in Lines |-> NoPhone]]
      /\ copyCheck' = [copyCheck EXCEPT ![x] = [r \in Lines |-> "invalid"]]
      /\ good' = [good EXCEPT ![x] = 0] /\ bad' = [bad EXCEPT ![x] = 0]
      /\ UNCHANGED <<flow, validRows, rowVars, studentVars, form, choice, editVars, todo>>
  BY DEF ActivateEnds
<1>2. Moves(x, "none") /\ at[x] = "rows"
  BY <1>1, Proceeds DEF AllSteps
<1>c. /\ copyPhone' \in [Officers -> [Lines -> Phones \cup {NoPhone}]]
      /\ copyCheck' \in [Officers -> [Lines -> Usable \cup {"invalid"}]]
      /\ good' \in [Officers -> 0 .. Cardinality(Lines)] /\ bad' \in [Officers -> 0 .. Cardinality(Lines)]
  BY <1>1, LineSets DEF UploadInv, UploadTypeOK
<1>3. UploadTypeOK'
  BY <1>1, <1>2, StepsOfKinds, <1>c DEF UploadInv, UploadTypeOK, Moves, rowVars, studentVars, editVars, activateVars, Races, Halts, Usable, Stages
<1>4. Rests(x) /\ good'[x] = 0 /\ bad'[x] = 0 /\ todo'[x] = {}
  BY <1>1, <1>2 DEF UploadInv, UploadTypeOK, Moves, Rests, editVars, activateVars
<1>5. OfficerHas(x)'
  <2>1. Cardinality(Lines) \in Nat /\ Cardinality(todo'[x]) = 0
    BY <1>4, LineSets
  <2> QED
    BY <1>2, <1>4, <2>1, StepsOfKinds DEF OfficerHas, Moves, AtRows
<1>6. RowsUsable'
  BY <1>1 DEF UploadInv, RowsUsable, rowVars
<1>7. RowsTrue'
  <2> SUFFICES ASSUME "activations" \notin raced', "activate" \notin halted'
               PROVE  /\ \A m \in Phones, n \in Lines : account'[m] = n =>
                            \/ activation'[n] = "ACTIVATED"
                            \/ \E y \in Officers : at'[y] = "mark" /\ picked'[y] = n
                      /\ \A y \in Officers : \A n \in todo'[y], m \in Phones : account'[m] # n
                      /\ \A y \in Officers : at'[y] = "fail" => \A m \in Phones : account'[m] # picked'[y]
    BY DEF RowsTrue
  <2>1. /\ \A m \in Phones, n \in Lines : account[m] = n =>
              activation[n] = "ACTIVATED" \/ (at[x] = "mark" /\ picked[x] = n)
        /\ \A n \in todo[x], m \in Phones : account[m] # n
        /\ at[x] = "fail" => \A m \in Phones : account[m] # picked[x]
        /\ \A y \in Officers \ {x} : at'[y] \notin {"mark", "fail"} /\ todo'[y] = {}
    BY <1>2, <1>4, RowsKnown DEF AllSteps, AtRows
  <2>2. at'[x] = "none" /\ account' = account /\ activation' = activation
    BY <1>1, <1>2 DEF Moves, studentVars, rowVars
  <2> QED
    BY <1>2, <1>4, <2>1, <2>2
<1>8. "activation" \notin raced' => StageFits(x)' /\ NoneMissed(x)' /\ NoneWaits'
  <2>1. ASSUME "activation" \notin raced' PROVE NoneMissed(x)
    BY <1>2, <2>1 DEF UploadInv, LeftTrue, Moves
  <2>2. \A r \in Lines : Waits(r)' <=> Waits(r)
    BY <1>1 DEF Waits, rowVars
  <2> QED
    BY <1>1, <1>2, <2>1, <2>2, StepsOfKinds DEF StageFits, NoneMissed, NoneWaits, AtRows, Early, Moves
<1> QED
  BY <1>1, <1>2, <1>3, <1>4, <1>5, <1>6, <1>7, <1>8, ActivatingSteps DEF AllSteps, AtRows

-----------------------------------------------------------------------------
(* Registrations from elsewhere, requests that die, and the theorems *)

LEMMA RegisterElsewhereKeeps ==
    ASSUME UploadInv, NEW m \in Phones, RegisterElsewhere(m)
    PROVE  UploadInv' /\ ActivatedStands
<1>1. /\ account[m] = 0 /\ account' = [account EXCEPT ![m] = Outside]
      /\ UNCHANGED <<flow, stage, validRows, rowVars, member, form, at, choice, editVars, activateVars,
                     begun, raced, halted>>
  BY DEF RegisterElsewhere
<1>2. UploadTypeOK'
  BY <1>1, StepsOfKinds DEF UploadInv, UploadTypeOK, rowVars, editVars, activateVars
<1>3. \A n \in Lines, p \in Phones : account'[p] = n => account[p] = n
  BY <1>1, LineSets DEF UploadInv, UploadTypeOK
<1>4. RowsUsable' /\ (\A x \in Officers : OfficerHas(x)') /\ Alone'
  BY <1>1 DEF UploadInv, RowsUsable, OfficerHas, Alone, IsKind, rowVars, editVars, activateVars
<1>5. RowsTrue'
  <2>1. /\ at' = at /\ picked' = picked /\ todo' = todo /\ activation' = activation
        /\ raced' = raced /\ halted' = halted
    BY <1>1 DEF rowVars, editVars, activateVars
  <2>2. \A x \in Officers : todo[x] \subseteq Lines /\ (at[x] = "fail" => picked[x] \in Lines)
    BY DEF UploadInv, UploadTypeOK, OfficerHas
  <2> QED
    BY <1>3, <2>1, <2>2 DEF UploadInv, RowsTrue
<1>6. LeftTrue'
  BY <1>1 DEF UploadInv, LeftTrue, StageFits, NoneMissed, NoneWaits, Waits, rowVars, editVars, activateVars
<1>7. (stage' = "SUBMITTED" => Pending') /\ ActivatedStands
  BY <1>1 DEF UploadInv, Pending, ActivatedStands
<1>8. DecisionsTrue'
  <2>1. (Pending' <=> Pending) /\ (Approved' <=> Approved)
    BY <1>1 DEF Pending, Approved
  <2>2. Backed => Backed'
    BY <1>1, <1>3, <2>1 DEF Backed
  <2> QED
    BY <1>1, <2>1, <2>2 DEF UploadInv, DecisionsTrue, editVars
<1> QED
  BY <1>2, <1>4, <1>5, <1>6, <1>7, <1>8 DEF UploadInv

LEMMA StopKeeps ==
    ASSUME UploadInv, NEW x \in Officers, Stop(x)
    PROVE  UploadInv' /\ ActivatedStands
<1>1. /\ at[x] # "none" /\ begun < MaxBegun /\ begun' = begun + 1
      /\ halted' = halted \cup {k \in Halts : IsKind(at[x], k)}
      /\ at' = [at EXCEPT ![x] = "none"] /\ choice' = [choice EXCEPT ![x] = "none"]
      /\ picked' = [picked EXCEPT ![x] = 0] /\ typed' = [typed EXCEPT ![x] = NoPhone]
      /\ counted' = [counted EXCEPT ![x] = 0] /\ todo' = [todo EXCEPT ![x] = {}]
      /\ copyPhone' = [copyPhone EXCEPT ![x] = [r \in Lines |-> NoPhone]]
      /\ copyCheck' = [copyCheck EXCEPT ![x] = [r \in Lines |-> "invalid"]]
      /\ good' = [good EXCEPT ![x] = 0] /\ bad' = [bad EXCEPT ![x] = 0]
      /\ UNCHANGED <<flow, stage, validRows, rowVars, studentVars, form, raced>>
  BY DEF Stop
<1>2. at \in [Officers -> AllSteps] /\ at' \in [Officers -> AllSteps] /\ at'[x] = "none"
  BY <1>1, StepsOfKinds DEF UploadInv, UploadTypeOK, AllSteps
<1>3. /\ halted \subseteq halted' /\ halted' \subseteq Halts
      /\ at[x] \in {"count", "batch"} => "edit" \in halted'
      /\ at[x] \in AtRows => "activate" \in halted'
  BY <1>1, StepsOfKinds DEF UploadInv, UploadTypeOK, Halts, IsKind, AtRows
<1>4. UploadTypeOK'
  <2>1. begun' \in 0 .. MaxBegun
    BY <1>1, UploadAssumption DEF UploadInv, UploadTypeOK
  <2>2. /\ copyPhone' \in [Officers -> [Lines -> Phones \cup {NoPhone}]]
        /\ copyCheck' \in [Officers -> [Lines -> Usable \cup {"invalid"}]]
        /\ good' \in [Officers -> 0 .. Cardinality(Lines)] /\ bad' \in [Officers -> 0 .. Cardinality(Lines)]
        /\ counted' \in [Officers -> 0 .. Cardinality(Lines)]
    BY <1>1, LineSets DEF UploadInv, UploadTypeOK
  <2>3. /\ choice' \in [Officers -> {"none", "APPROVED", "REJECTED", "CANCELLED"}]
        /\ picked' \in [Officers -> Lines \cup Forms \cup {0}]
        /\ typed' \in [Officers -> Phones \cup {NoPhone}] /\ todo' \in [Officers -> SUBSET Lines]
    BY <1>1 DEF UploadInv, UploadTypeOK
  <2> QED
    BY <1>1, <1>2, <1>3, <2>1, <2>2, <2>3, StepsOfKinds DEF UploadInv, UploadTypeOK, rowVars, studentVars
<1>5. Rests(x) /\ todo'[x] = {} /\ good'[x] = 0 /\ bad'[x] = 0
  BY <1>1 DEF UploadInv, UploadTypeOK, Rests
<1>6. OfficerHas(x)'
  <2>1. Cardinality(Lines) \in Nat /\ Cardinality(todo'[x]) = 0
    BY <1>5, LineSets
  <2> QED
    BY <1>2, <1>5, <2>1, StepsOfKinds DEF OfficerHas
<1>7. RowsUsable' /\ (stage' = "SUBMITTED" => Pending') /\ ActivatedStands
  BY <1>1 DEF UploadInv, RowsUsable, rowVars, Pending, ActivatedStands
<1>8. Alone'
  <2>1. ~IsKind("none", "activate") /\ ~IsKind("none", "review") /\ ~IsKind("none", "settle")
    BY StepsOfKinds DEF IsKind
  <2>2. \A y \in Officers : at'[y] = IF y = x THEN "none" ELSE at[y]
    BY <1>1 DEF UploadInv, UploadTypeOK
  <2> QED
    BY <1>1, <2>1, <2>2 DEF UploadInv, Alone, IsKind
<1>9. RowsTrue'
  <2>1. account' = account /\ activation' = activation
    BY <1>1 DEF rowVars, studentVars
  <2>2. CASE at[x] \in AtRows
    BY <1>3, <2>2 DEF RowsTrue
  <2>3. CASE at[x] \notin AtRows
    <3>1. todo'[x] = todo[x]
      BY <1>5, <2>3 DEF UploadInv, OfficerHas
    <3> QED
      BY <1>1, <1>2, <1>3, <1>5, <2>1, <2>3, <3>1, RowsStayTrue DEF AtRows
  <2> QED
    BY <2>2, <2>3
<1>10. LeftTrue'
  <2>1. ASSUME "activation" \notin raced' PROVE NoneWaits'
    <3>1. NoneWaits
      BY <1>1, <2>1 DEF UploadInv, LeftTrue
    <3>2. "edit" \notin halted' /\ (\A y \in Officers : at'[y] \notin {"count", "batch"})
             => "edit" \notin halted /\ \A y \in Officers : at[y] \notin {"count", "batch"}
      BY <1>3, <1>5, <1>1 DEF Rests, UploadInv, UploadTypeOK
    <3> QED
      BY <1>1, <3>1, <3>2 DEF NoneWaits, Waits, rowVars
  <2>2. StageFits(x)' /\ NoneMissed(x)'
    BY <1>2, StepsOfKinds DEF StageFits, NoneMissed, AtRows, Early
  <2> QED
    BY <1>1, <1>5, <1>8, <2>1, <2>2, LeftKept
<1>11. DecisionsTrue'
  <2>1. ASSUME "decisions" \notin raced' PROVE Backed'
    <3>1. Backed
      BY <1>1, <2>1 DEF UploadInv, DecisionsTrue
    <3>2. Approved' = Approved /\ account' = account
      BY <1>1 DEF Approved, studentVars
    <3>3. \A y \in Officers : at'[y] \in {"claim", "list"} \cup AtRows => at[y] \in {"claim", "list"} \cup AtRows
      BY <1>2, <1>5 DEF Rests, AtRows
    <3> QED
      BY <1>1, <3>1, <3>2, <3>3 DEF Backed
  <2> QED
    BY <1>1, <1>2, <1>5, <1>8, <2>1, DecisionsKept
<1> QED
  BY <1>1, <1>4, <1>5, <1>6, <1>7, <1>8, <1>9, <1>10, <1>11, StepKeeps

LEMMA UploadStarts == UploadInit => UploadInv
<1> SUFFICES ASSUME UploadInit PROVE UploadInv
  OBVIOUS
<1>1. /\ \A x \in Officers : at[x] = "none" /\ todo[x] = {} /\ good[x] = 0 /\ bad[x] = 0
      /\ \A p \in Phones : account[p] \notin Lines
      /\ raced = {} /\ halted = {} /\ stage \in {"FAILED", "READY_FOR_REVIEW"}
      /\ \A r \in Lines : checked[r] \in Usable => phoneOf[r] \in Phones
  BY LineSets DEF UploadInit, CheckOf, Usable
<1>2. UploadTypeOK
  <2>1. checked \in [Lines -> Usable \cup {"invalid"}]
    BY DEF UploadInit, CheckOf, Usable
  <2>2. validRows \in 0 .. Cardinality(Lines) /\ 0 \in 0 .. Cardinality(Lines) /\ 0 \in 0 .. MaxBegun
    BY ValidCounts, LineSets, UploadAssumption DEF UploadInit
  <2>3. member \subseteq Phones /\ stage \in Stages
    BY DEF UploadInit, Taken, Stages
  <2>4. /\ flow \in {"admin", "institution"} /\ phoneOf \in [Lines -> Phones \cup {NoPhone}]
        /\ activation \in [Lines -> {"PENDING", "ACTIVATED", "FAILED"}]
        /\ account \in [Phones -> {0, Outside} \cup Lines] /\ form \in [Forms -> FormStatuses]
        /\ choice \in [Officers -> {"none", "APPROVED", "REJECTED", "CANCELLED"}]
        /\ picked \in [Officers -> Lines \cup Forms \cup {0}] /\ typed \in [Officers -> Phones \cup {NoPhone}]
    BY DEF UploadInit, FormStatuses
  <2>5. /\ counted \in [Officers -> 0 .. Cardinality(Lines)] /\ todo \in [Officers -> SUBSET Lines]
        /\ copyPhone \in [Officers -> [Lines -> Phones \cup {NoPhone}]]
        /\ copyCheck \in [Officers -> [Lines -> Usable \cup {"invalid"}]]
        /\ good \in [Officers -> 0 .. Cardinality(Lines)] /\ bad \in [Officers -> 0 .. Cardinality(Lines)]
        /\ begun \in 0 .. MaxBegun
    BY <2>2 DEF UploadInit
  <2>6. at \in [Officers -> AllSteps]
    BY DEF UploadInit, AllSteps
  <2> QED
    BY <1>1, <2>1, <2>2, <2>3, <2>4, <2>5, <2>6, StepsOfKinds DEF UploadTypeOK
<1>3. \A x \in Officers : OfficerHas(x)
  BY <1>1, LineSets, StepsOfKinds DEF OfficerHas
<1>4. Alone /\ RowsUsable
  BY <1>1, StepsOfKinds DEF Alone, IsKind, RowsUsable
<1>5. RowsTrue
  BY <1>1 DEF RowsTrue
<1>6. LeftTrue
  BY <1>1, StepsOfKinds DEF LeftTrue, StageFits, NoneMissed, NoneWaits, AtRows, Early
<1>7. DecisionsTrue /\ stage # "SUBMITTED"
  BY <1>1 DEF DecisionsTrue, Backed, AtRows
<1> QED
  BY <1>2, <1>3, <1>4, <1>5, <1>6, <1>7 DEF UploadInv

LEMMA UploadSteps == UploadInv /\ [UploadNext]_uploadVars => UploadInv' /\ (UploadNext => ActivatedStands)
<1> SUFFICES ASSUME UploadInv, [UploadNext]_uploadVars PROVE UploadInv' /\ (UploadNext => ActivatedStands)
  OBVIOUS
<1>1. CASE UNCHANGED uploadVars
  <2>1. /\ UNCHANGED <<flow, stage, validRows, phoneOf, checked, activation, account, member, form, at, choice>>
        /\ UNCHANGED <<picked, typed, counted, todo, copyPhone, copyCheck, good, bad, begun, raced, halted>>
    BY <1>1 DEF uploadVars, rowVars, studentVars, editVars, activateVars
  <2>2. UploadTypeOK'
    BY <2>1, StepsOfKinds DEF UploadInv, UploadTypeOK
  <2>3. RowsUsable' /\ (\A x \in Officers : OfficerHas(x)') /\ Alone'
    BY <2>1 DEF UploadInv, RowsUsable, OfficerHas, Alone, IsKind
  <2>4. RowsTrue'
    BY <2>1 DEF UploadInv, RowsTrue
  <2>5. LeftTrue'
    BY <2>1 DEF UploadInv, LeftTrue, StageFits, NoneMissed, NoneWaits, Waits
  <2>6. DecisionsTrue' /\ (stage' = "SUBMITTED" => Pending') /\ ActivatedStands
    BY <2>1 DEF UploadInv, DecisionsTrue, Backed, Pending, Approved, ActivatedStands
  <2> QED
    BY <2>2, <2>3, <2>4, <2>5, <2>6 DEF UploadInv
<1>2. ASSUME NEW x \in Officers, EditNext(x) PROVE UploadInv' /\ ActivatedStands
  BY <1>2, EditReadKeeps, EditRowKeeps, EditCountKeeps, EditBatchKeeps DEF EditNext
<1>3. ASSUME NEW x \in Officers, ApprovalNext(x) PROVE UploadInv' /\ ActivatedStands
  BY <1>3, SubmitUploadKeeps, SubmitRecheckKeeps, SubmitReadyKeeps, SubmitSendKeeps, ReviewUploadKeeps,
     ReviewFindKeeps, ReviewDecideKeeps, SettleReadKeeps, SettleTxKeeps, ApproveAgainKeeps DEF ApprovalNext
<1>4. ASSUME NEW x \in Officers, ActivateNext(x) PROVE UploadInv' /\ ActivatedStands
  BY <1>4, ConfirmKeeps, ActivateOpenKeeps, ActivateClaimKeeps, ActivateListKeeps, RegisterRowKeeps,
     EnrolRowKeeps, MarkRowKeeps, RowThrowsKeeps, FailRowKeeps, ActivateEndsKeeps DEF ActivateNext
<1> QED
  BY <1>1, <1>2, <1>3, <1>4, StopKeeps, RegisterElsewhereKeeps DEF UploadNext

\* What the invariant says of the rows and of the decisions
LEMMA UploadsTrue == UploadInv => ApprovedFirst /\ RowsAccounted
<1> SUFFICES ASSUME UploadInv PROVE ApprovedFirst /\ RowsAccounted
  OBVIOUS
<1>1. ApprovedFirst
  BY DEF UploadInv, DecisionsTrue, Backed, Approved, ApprovedFirst
<1>2. StudentsAccounted
  <2>1. Underway("activate") = {} => \A x \in Officers : at[x] # "mark"
    BY StepsOfKinds DEF Underway
  <2> QED
    BY <2>1 DEF UploadInv, RowsTrue, StudentsAccounted
<1>3. NoRowLeft
  <2>1. Underway("edit") = {} => \A x \in Officers : at[x] \notin {"count", "batch"}
    BY StepsOfKinds DEF Underway
  <2>2. "activation" \notin raced => NoneWaits
    BY DEF UploadInv, LeftTrue
  <2> QED
    BY <2>1, <2>2 DEF NoRowLeft, NoneWaits, Waits
<1> QED
  BY <1>1, <1>2, <1>3 DEF RowsAccounted

LEMMA UploadInvariance == UploadSpec => []UploadInv
<1>1. UploadInit => UploadInv
  BY UploadStarts
<1>2. UploadInv /\ [UploadNext]_uploadVars => UploadInv'
  BY UploadSteps
<1> QED
  BY <1>1, <1>2, PTL DEF UploadSpec

\* The rows of an upload, its requests for approval and the requests that work on
\* them have values of their types, whatever the officers do and in which order:
\* the counts of an activation never exceed the rows of the sheet.
THEOREM UploadTypeCorrect == UploadSpec => []UploadTypeOK
<1>1. UploadInv => UploadTypeOK
  BY DEF UploadInv
<1> QED
  BY <1>1, UploadInvariance, PTL

\* UploadsStand, for any number of officers, rows and requests: an activated upload
\* stays so, no student comes from an institution's upload before an approval, and
\* every row says what became of it, in updateStagedRow, submitForApproval,
\* reviewUpload, the approval workflow and both activations.
THEOREM UploadsDoStand == UploadSpec => UploadsStand
<1>1. UploadInv => ApprovedFirst /\ RowsAccounted
  BY UploadsTrue
<1>2. UploadInv /\ [UploadNext]_uploadVars => UploadInv' /\ [ActivatedStands]_uploadVars
  BY UploadSteps
<1>3. UploadInv' => ApprovedFirst' /\ RowsAccounted'
  BY <1>1, PTL
<1>4. UploadInv /\ [UploadNext]_uploadVars => [ActivatedStands /\ ApprovedFirst' /\ RowsAccounted']_uploadVars
  BY <1>2, <1>3
<1> QED
  BY <1>4, UploadInvariance, PTL DEF UploadSpec, UploadsStand

-----------------------------------------------------------------------------
(* Beside each other *)

\* Exams, uploads and reminders, put beside the others, behave as they do alone.
LEMMA StaffParts == StaffSpec => Spec /\ UploadSpec /\ ReminderSpec
<1>1. StaffInit => Init /\ UploadInit /\ ReminderInit
  BY DEF StaffInit
<1>2. [StaffNext]_<<part, vars, uploadVars, reminderVars>>
        => [Next]_vars /\ [UploadNext]_uploadVars /\ [ReminderNext]_reminderVars
  BY DEF StaffNext
<1> QED
  BY <1>1, <1>2, PTL DEF StaffSpec, Spec, UploadSpec, ReminderSpec

\* Every value the staff's modules keep has its type in a behaviour that is one of
\* any of them, as the runs explore them together (MCExam).
THEOREM StaffTypeCorrect == StaffSpec => []StaffTypeOK
<1>1. TypeInv => ReminderTypeOK
  BY DEF TypeInv
<1> QED
  BY <1>1, StaffParts, ExamTypeCorrect, UploadTypeCorrect, TypeInvariant, PTL DEF StaffTypeOK

\* What is proved of every part alone holds of them beside each other: windows close,
\* reminders follow their exams, and reviews, slots and uploads stand.
THEOREM StaffIsSafe ==
    StaffSpec =>
        /\ [](EveryWindowCloses /\ RemindersFollow)
        /\ ReviewsStand /\ SlotsEnd /\ UploadsStand
<1>1. StaffSpec => [](EveryWindowCloses /\ RemindersFollow)
  BY StaffParts, EveryWindowIsClosed, RemindersCorrect, PTL
<1>2. StaffSpec => ReviewsStand /\ SlotsEnd /\ UploadsStand
  BY StaffParts, ReviewsDoStand, SlotsDoEnd, UploadsDoStand
<1> QED
  BY <1>1, <1>2
=============================================================================
