--------------------------- MODULE Billing_proofs ---------------------------
(***************************************************************************)
(* Proofs about Billing, for any number of clerks, bills, mail jobs,       *)
(* operations and faults.                                                  *)
(***************************************************************************)
EXTENDS Billing, FiniteSetTheorems, WellFoundedInduction, TLAPS

-----------------------------------------------------------------------------
(* Rows and operations *)

\* The statuses of new bills, and the operations on a bill that exists.
Firsts == {"GENERATED", "DRAFT", "PENDING_APPROVAL"}
OnOneBill == {"submit", "update", "approve", "reject", "send", "resend", "enqueue"}

\* An operation is a record of six fields; of the number nothing is said.
\* The six fields of an operation.
IsRecord(a) ==
    a = [do |-> a.do, on |-> a.on, seen |-> a.seen, num |-> a.num, first |-> a.first,
         rest |-> a.rest]

Operation(a) ==
    /\ IsRecord(a)
    /\ a.do \in BillingSteps /\ a.on \in Bills \cup {NoBill} /\ a.seen \in 0 .. 2
    /\ a.first \in BillStatuses /\ a.rest \subseteq Invoices

\* An operation on a bill that was read has a bill that exists; a creation gives
\* one of the first statuses, and one of several schools is on no bill.
WorksOnBill(a) ==
    /\ a.do \in OnOneBill => a.on \in Bills /\ Exists(a.on)
    /\ a.do = "insert" => a.on \in Bills /\ a.first \in Firsts
    /\ a.do = "number" => a.first \in Firsts /\ (a.rest = {} => a.on \in Bills)
    /\ a.rest # {} => a.on = NoBill
    /\ a.do = "bulk" => a.rest # {}
    /\ a.do = "idle" => a.on = NoBill

\* The rows and the mail jobs have values of their types.
RowsShape ==
    /\ bill \in [Bills -> BillStatuses]
    /\ amount \in [Bills -> 0 .. 2] /\ reviewed \in [Bills -> 0 .. 2]
    /\ email \in [Bills -> EmailStatuses]
    /\ undecided \in [Bills -> Nat]
    /\ verdicts \in [Bills -> SUBSET Decisions]
    /\ mail \in [Jobs -> [at : JobsAt, of : Bills \cup {NoBill}, direct : BOOLEAN]]
    /\ \A j \in Jobs : Alive(j) => mail[j].of \in Bills

\* So do the operations, each with what its step needs.
Shape ==
    /\ RowsShape
    /\ act = [u \in Clerks |-> act[u]]
    /\ \A u \in Clerks : Operation(act[u]) /\ WorksOnBill(act[u])

\* A change of one field of an operation leaves the others.
LEMMA NextStep ==
    ASSUME NEW a, IsRecord(a), NEW x
    PROVE  [a EXCEPT !.do = x] =
              [do |-> x, on |-> a.on, seen |-> a.seen, num |-> a.num,
               first |-> a.first, rest |-> a.rest]
BY DEF IsRecord

\* A change of one field of an operation leaves the others.
LEMMA NextSchools ==
    ASSUME NEW a, IsRecord(a), NEW x
    PROVE  [a EXCEPT !.rest = x] =
              [do |-> a.do, on |-> a.on, seen |-> a.seen, num |-> a.num,
               first |-> a.first, rest |-> x]
BY DEF IsRecord

\* The operations that begin, one of one bill and one of several schools.
LEMMA Beginnings ==
    ASSUME NEW d, NEW b, NEW x
    PROVE  /\ [Resting EXCEPT !.do = d, !.on = b, !.first = x] =
                [do |-> d, on |-> b, seen |-> 0, num |-> 0, first |-> x, rest |-> {}]
           /\ [Resting EXCEPT !.do = d, !.rest = b, !.first = x] =
                [do |-> d, on |-> NoBill, seen |-> 0, num |-> 0, first |-> x, rest |-> b]
           /\ [Resting EXCEPT !.do = d, !.on = b, !.seen = x] =
                [do |-> d, on |-> b, seen |-> x, num |-> 0, first |-> "NONE", rest |-> {}]
           /\ [Resting EXCEPT !.do = d, !.on = b] =
                [do |-> d, on |-> b, seen |-> 0, num |-> 0, first |-> "NONE", rest |-> {}]
<1>1. DEFINE R1 == [Resting EXCEPT !.do = d]
             R2 == [R1 EXCEPT !.on = b]
             R3 == [R1 EXCEPT !.rest = b]
<1>2. R1 = [do |-> d, on |-> NoBill, seen |-> 0, num |-> 0, first |-> "NONE", rest |-> {}]
  BY DEF Resting
<1>3. [Resting EXCEPT !.do = d, !.on = b, !.first = x] = [R2 EXCEPT !.first = x]
  OBVIOUS
<1>4. [Resting EXCEPT !.do = d, !.rest = b, !.first = x] = [R3 EXCEPT !.first = x]
  OBVIOUS
<1>5. [Resting EXCEPT !.do = d, !.on = b, !.seen = x] = [R2 EXCEPT !.seen = x]
  OBVIOUS
<1>6. [Resting EXCEPT !.do = d, !.on = b] = R2
  OBVIOUS
<1> HIDE DEF R1
<1>7. R2 = [do |-> d, on |-> b, seen |-> 0, num |-> 0, first |-> "NONE", rest |-> {}]
  BY <1>2
<1>8. R3 = [do |-> d, on |-> NoBill, seen |-> 0, num |-> 0, first |-> "NONE", rest |-> b]
  BY <1>2
<1> HIDE DEF R2, R3
<1>9. [R2 EXCEPT !.first = x] =
          [do |-> d, on |-> b, seen |-> 0, num |-> 0, first |-> x, rest |-> {}]
  BY <1>7
<1>10. [R3 EXCEPT !.first = x] =
          [do |-> d, on |-> NoBill, seen |-> 0, num |-> 0, first |-> x, rest |-> b]
  BY <1>8
<1>11. [R2 EXCEPT !.seen = x] =
          [do |-> d, on |-> b, seen |-> x, num |-> 0, first |-> "NONE", rest |-> {}]
  BY <1>7
<1> QED
  BY <1>3, <1>4, <1>5, <1>6, <1>7, <1>9, <1>10, <1>11

\* The record of an operation that begins.
LEMMA FirstRecord ==
    /\ Operation(Resting) /\ WorksOnBill(Resting) /\ WorksOnBill(Resting)'
    /\ Resting.do = "idle" /\ Resting.on = NoBill /\ Resting.rest = {}
<1>1. /\ IsRecord(Resting)
      /\ Resting.do = "idle" /\ Resting.on = NoBill /\ Resting.rest = {}
      /\ Resting.seen = 0 /\ Resting.first = "NONE"
  BY DEF Resting, IsRecord
<1>2. Operation(Resting)
  BY <1>1 DEF Operation, BillingSteps, BillStatuses
<1>3. WorksOnBill(Resting)
  BY <1>1 DEF WorksOnBill, OnOneBill
<1>4. WorksOnBill(Resting)'
  BY <1>1 DEF WorksOnBill, OnOneBill
<1> QED
  BY <1>1, <1>2, <1>3, <1>4

\* The two steps of a creation that change two fields.
LEMMA TwoFields ==
    ASSUME NEW a, IsRecord(a), NEW x, NEW n
    PROVE  /\ [a EXCEPT !.do = x, !.num = n] =
                [do |-> x, on |-> a.on, seen |-> a.seen, num |-> n,
                 first |-> a.first, rest |-> a.rest]
           /\ [a EXCEPT !.rest = x, !.num = n] =
                [do |-> a.do, on |-> a.on, seen |-> a.seen, num |-> n,
                 first |-> a.first, rest |-> x]
<1>1. DEFINE d == [a EXCEPT !.do = x]
             s == [a EXCEPT !.rest = x]
<1>2. /\ [a EXCEPT !.do = x, !.num = n] = [d EXCEPT !.num = n]
      /\ [a EXCEPT !.rest = x, !.num = n] = [s EXCEPT !.num = n]
  OBVIOUS
<1>3. /\ d = [do |-> x, on |-> a.on, seen |-> a.seen, num |-> a.num, first |-> a.first,
              rest |-> a.rest]
      /\ s = [do |-> a.do, on |-> a.on, seen |-> a.seen, num |-> a.num, first |-> a.first,
              rest |-> x]
  BY NextStep, NextSchools
<1> HIDE DEF d, s
<1>4. [d EXCEPT !.num = n] =
        [do |-> x, on |-> a.on, seen |-> a.seen, num |-> n, first |-> a.first, rest |-> a.rest]
  BY <1>3
<1>5. [s EXCEPT !.num = n] =
        [do |-> a.do, on |-> a.on, seen |-> a.seen, num |-> n, first |-> a.first, rest |-> x]
  BY <1>3
<1> QED
  BY <1>2, <1>4, <1>5

\* Every clerk but u goes on with his operation, and u takes operation a.
LEMMA Changes ==
    ASSUME Shape, NEW u \in Clerks, NEW a, act' = [act EXCEPT ![u] = a]
    PROVE  /\ act' = [v \in Clerks |-> act'[v]]
           /\ act'[u] = a /\ \A v \in Clerks \ {u} : act'[v] = act[v]
BY DEF Shape

\* A step that leaves every operation but that of u keeps the shape of the
\* operations, as long as no bill disappears.
LEMMA OperationsKept ==
    ASSUME Shape, NEW u \in Clerks, NEW a, act' = [act EXCEPT ![u] = a],
           Operation(a), WorksOnBill(a)',
           \A b \in Bills : Exists(b) => Exists(b)'
    PROVE  /\ act' = [v \in Clerks |-> act'[v]]
           /\ \A v \in Clerks : Operation(act'[v]) /\ WorksOnBill(act[v])'
<1>1. /\ act' = [v \in Clerks |-> act'[v]]
      /\ act'[u] = a /\ \A v \in Clerks \ {u} : act'[v] = act[v]
  BY Changes
<1>2. \A v \in Clerks \ {u} : Operation(act[v]) /\ WorksOnBill(act[v])
  BY DEF Shape
<1>3. ASSUME NEW v \in Clerks \ {u} PROVE WorksOnBill(act[v])'
  BY <1>1, <1>2, <1>3 DEF WorksOnBill
<1> QED
  BY <1>1, <1>2, <1>3 DEF WorksOnBill


\* Rows and operations keep their shape.
THEOREM ShapeInvariant == BillingSpec => []Shape
<1> USE BillingAssumption
<1>1. BillingInit => Shape
  <2> SUFFICES ASSUME BillingInit PROVE Shape
    OBVIOUS
  <2>1. RowsShape
    BY DEF BillingInit, RowsShape, NoJob, Alive, BillStatuses, EmailStatuses, JobsAt
  <2>2. \A u \in Clerks : act[u] = Resting
    BY DEF BillingInit
  <2>3. act = [u \in Clerks |-> act[u]]
    BY DEF BillingInit
  <2> QED
    BY <2>1, <2>2, <2>3, FirstRecord DEF Shape
<1>2. Shape /\ [BillingNext]_billingVars => Shape'
  <2> SUFFICES ASSUME Shape, [BillingNext]_billingVars PROVE Shape'
    OBVIOUS
  <2> USE DEF RowsShape, billingVars, rowVars, requestVars, seriesVars, mailVars
  <2>0. RowsShape
    BY DEF Shape
  <2>1. ASSUME NEW u \in Clerks, NEW a, act' = [act EXCEPT ![u] = a],
               Operation(a), WorksOnBill(a)',
               \A b \in Bills : Exists(b) => Exists(b)', RowsShape'
        PROVE  Shape'
    BY <2>1, OperationsKept DEF Shape
  <2>2. ASSUME NEW u \in Clerks, UNCHANGED bill, RowsShape', NEW a, act' = [act EXCEPT ![u] = a],
               Operation(a), WorksOnBill(a)
        PROVE  Shape'
    BY <2>1, <2>2 DEF Exists, WorksOnBill
  <2>3. ASSUME NEW u \in Clerks, NEW b \in Bills, NEW first \in BillStatuses, CreateRead(u, b, first)
        PROVE  Shape'
    <3>1. DEFINE a == [Resting EXCEPT !.do = "number", !.on = b, !.first = first]
    <3>2. a = [do |-> "number", on |-> b, seen |-> 0, num |-> 0, first |-> first, rest |-> {}]
      BY Beginnings
    <3> HIDE DEF a
    <3>3. Operation(a) /\ WorksOnBill(a)
      BY <2>3, <3>2 DEF Operation, IsRecord, WorksOnBill, CreateRead, Firsts, OnOneBill, BillingSteps
    <3>4. UNCHANGED bill /\ act' = [act EXCEPT ![u] = a] /\ RowsShape'
      BY <2>0, <2>3 DEF CreateRead, Start, Alive, a
    <3> QED
      BY <2>2, <3>3, <3>4
  <2>4. ASSUME NEW u \in Clerks, NEW schools \in SUBSET Invoices, BulkRead(u, schools)
        PROVE  Shape'
    <3>1. DEFINE a == [Resting EXCEPT !.do = "number", !.rest = schools, !.first = "GENERATED"]
    <3>2. a = [do |-> "number", on |-> NoBill, seen |-> 0, num |-> 0, first |-> "GENERATED",
               rest |-> schools]
      BY Beginnings
    <3> HIDE DEF a
    <3>3. Operation(a) /\ WorksOnBill(a)
      BY <2>4, <3>2
      DEF Operation, IsRecord, WorksOnBill, BulkRead, Firsts, OnOneBill, BillingSteps, BillStatuses
    <3>4. UNCHANGED bill /\ act' = [act EXCEPT ![u] = a] /\ RowsShape'
      BY <2>0, <2>4 DEF BulkRead, Start, Alive, a
    <3> QED
      BY <2>2, <3>3, <3>4
  <2>5. ASSUME NEW u \in Clerks, ReadNumber(u) PROVE Shape'
    <3>1. PICK d, n : /\ d = IF act[u].rest = {} THEN "insert" ELSE "bulk"
                      /\ act' = [act EXCEPT ![u] = [act[u] EXCEPT !.do = d, !.num = n]]
      BY <2>5 DEF ReadNumber, Turn
    <3>2. DEFINE a == [act[u] EXCEPT !.do = d, !.num = n]
    <3>3. Operation(act[u]) /\ WorksOnBill(act[u]) /\ act[u].do = "number"
      BY <2>5 DEF Shape, ReadNumber
    <3>4. a = [do |-> d, on |-> act[u].on, seen |-> act[u].seen, num |-> n,
               first |-> act[u].first, rest |-> act[u].rest]
      BY <3>3, TwoFields DEF Operation
    <3>5. Operation(a) /\ WorksOnBill(a)
      BY <3>1, <3>3, <3>4 DEF Operation, IsRecord, WorksOnBill, OnOneBill, BillingSteps
    <3>6. UNCHANGED bill /\ RowsShape'
      BY <2>0, <2>5 DEF ReadNumber, Alive
    <3> QED
      BY <2>2, <3>1, <3>5, <3>6
  <2>6. ASSUME NEW u \in Clerks, UNCHANGED bill, RowsShape', act' = [act EXCEPT ![u] = Resting]
        PROVE  Shape'
    BY <2>2, <2>6, FirstRecord
  <2>7. ASSUME NEW u \in Clerks, NEW b \in Bills, NEW first \in Firsts, InsertRow(u, b, first),
               UNCHANGED mailVars
        PROVE  RowsShape' /\ \A c \in Bills : Exists(c) => Exists(c)'
    BY <2>0, <2>7 DEF InsertRow, Firsts, BillStatuses, Exists, Alive
  <2>8. ASSUME NEW u \in Clerks, Create(u) PROVE Shape'
    <3>1. act[u].do = "insert" /\ WorksOnBill(act[u])
      BY <2>8 DEF Create, Shape
    <3>2. RowsShape' /\ \A c \in Bills : Exists(c) => Exists(c)'
      BY <2>7, <2>8, <3>1 DEF Create, WorksOnBill
    <3>3. act' = [act EXCEPT ![u] = Resting] /\ WorksOnBill(Resting)'
      BY <2>8, FirstRecord DEF Create, Stop, Turn
    <3> QED
      BY <2>1, <3>2, <3>3, FirstRecord
  <2>9. ASSUME NEW u \in Clerks, NEW b \in Invoices, BulkCreate(u, b) PROVE Shape'
    <3>1. Operation(act[u]) /\ WorksOnBill(act[u]) /\ act[u].do = "bulk" /\ b \in act[u].rest
      BY <2>9 DEF BulkCreate, Shape
    <3>2. RowsShape' /\ \A c \in Bills : Exists(c) => Exists(c)'
      BY <2>7, <2>9 DEF BulkCreate, Bills, Firsts
    <3>3. CASE act[u].rest = {b}
      <4>1. act' = [act EXCEPT ![u] = Resting] /\ WorksOnBill(Resting)'
        BY <2>9, <3>3, FirstRecord DEF BulkCreate, Stop, Turn
      <4> QED
        BY <2>1, <3>2, <4>1, FirstRecord
    <3>4. CASE act[u].rest # {b}
      <4>1. PICK x, n : /\ x = act[u].rest \ {b}
                        /\ act' = [act EXCEPT ![u] = [act[u] EXCEPT !.rest = x, !.num = n]]
        BY <2>9, <3>4 DEF BulkCreate, Turn
      <4>2. PICK a : a = [act[u] EXCEPT !.rest = x, !.num = n]
        OBVIOUS
      <4>3. a = [do |-> act[u].do, on |-> act[u].on, seen |-> act[u].seen, num |-> n,
                 first |-> act[u].first, rest |-> x]
        BY <3>1, <4>2, TwoFields, Zenon DEF Operation
      <4>4. x # {} /\ x \subseteq act[u].rest
        BY <3>1, <3>4, <4>1
      <4>5. IsRecord(a) /\ a.do = "bulk" /\ a.on = act[u].on /\ a.seen = act[u].seen
            /\ a.first = act[u].first /\ a.rest = x
        BY <3>1, <4>3 DEF IsRecord
      <4>6. Operation(a)
        BY <3>1, <4>4, <4>5 DEF Operation
      <4>7. WorksOnBill(a)'
        BY <3>1, <4>4, <4>5 DEF WorksOnBill, OnOneBill
      <4> QED
        BY <2>1, <3>2, <4>1, <4>2, <4>6, <4>7
    <3> QED
      BY <3>3, <3>4
  <2>10. ASSUME NEW u \in Clerks, NEW b \in Bills, Exists(b), NEW d \in OnOneBill, NEW n \in 0 .. 2,
                act' = [act EXCEPT ![u] = [Resting EXCEPT !.do = d, !.on = b, !.seen = n]],
                UNCHANGED bill, RowsShape'
         PROVE  Shape'
    <3>1. DEFINE a == [Resting EXCEPT !.do = d, !.on = b, !.seen = n]
    <3>2. a = [do |-> d, on |-> b, seen |-> n, num |-> 0, first |-> "NONE", rest |-> {}]
      BY Beginnings
    <3>3. Operation(a) /\ WorksOnBill(a)
      BY <2>10, <3>2 DEF Operation, IsRecord, WorksOnBill, OnOneBill, BillingSteps, BillStatuses
    <3> QED
      BY <2>2, <2>10, <3>3
  <2>11. ASSUME NEW u \in Clerks, NEW b \in ManualBills,
                NEW step \in {"submit", "update", "approve", "reject"}, ReadBill(u, b, step)
         PROVE  Shape'
    <3>1. b \in Bills /\ Exists(b) /\ amount[b] \in 0 .. 2
      BY <2>0, <2>11 DEF ReadBill, MayStart, Bills, Exists
    <3>2. /\ act' = [act EXCEPT ![u] = [Resting EXCEPT !.do = step, !.on = b, !.seen = amount[b]]]
          /\ UNCHANGED bill /\ RowsShape'
      BY <2>0, <2>11 DEF ReadBill, Start, Alive
    <3> QED
      BY <2>10, <3>1, <3>2 DEF OnOneBill
  <2>12. ASSUME NEW u \in Clerks, SubmitBill(u) \/ UpdateBill(u) \/ ApproveBill(u) \/ RejectBill(u)
         PROVE  Shape'
    <3>1. act[u].on \in Bills /\ act[u].seen \in 0 .. 2
      BY <2>12 DEF Shape, WorksOnBill, Operation, SubmitBill, UpdateBill, ApproveBill, RejectBill, OnOneBill
    <3>2. RowsShape'
      BY <2>0, <2>12, <3>1
      DEF SubmitBill, UpdateBill, ApproveBill, RejectBill, Decide, BillStatuses, Decisions, Alive
    <3>3. \A c \in Bills : Exists(c) => Exists(c)'
      BY <2>0, <2>12, <3>1
      DEF SubmitBill, UpdateBill, ApproveBill, RejectBill, Decide, Exists
    <3>4. act' = [act EXCEPT ![u] = Resting] /\ WorksOnBill(Resting)'
      BY <2>12, FirstRecord
      DEF SubmitBill, UpdateBill, ApproveBill, RejectBill, Decide, Stop, Turn
    <3> QED
      BY <2>1, <3>2, <3>3, <3>4, FirstRecord
  <2>13. ASSUME NEW u \in Clerks, NEW b \in Bills, SendRead(u, b) PROVE Shape'
    <3>1. [Resting EXCEPT !.do = "send", !.on = b] =
             [Resting EXCEPT !.do = "send", !.on = b, !.seen = 0]
      <4> DEFINE r == [do |-> "send", on |-> b, seen |-> 0, num |-> 0, first |-> "NONE",
                       rest |-> {}]
      <4>1. [Resting EXCEPT !.do = "send", !.on = b] = r
        BY Beginnings
      <4>2. [Resting EXCEPT !.do = "send", !.on = b, !.seen = 0] = r
        BY Beginnings
      <4> QED
        BY <4>1, <4>2
    <3>3. "send" \in OnOneBill /\ 0 \in 0 .. 2
      BY DEF OnOneBill
    <3>2. /\ act' = [act EXCEPT ![u] = [Resting EXCEPT !.do = "send", !.on = b, !.seen = 0]]
          /\ Exists(b) /\ UNCHANGED bill /\ RowsShape'
      BY <2>0, <2>13, <3>1 DEF SendRead, Start, Alive
    <3> QED
      BY <2>10, <3>2, <3>3
  <2>14. ASSUME NEW u \in Clerks, NEW b \in Bills, RetryEmail(u, b) PROVE Shape'
    <3>1. [Resting EXCEPT !.do = "resend", !.on = b] =
             [Resting EXCEPT !.do = "resend", !.on = b, !.seen = 0]
      <4> DEFINE r == [do |-> "resend", on |-> b, seen |-> 0, num |-> 0, first |-> "NONE",
                       rest |-> {}]
      <4>1. [Resting EXCEPT !.do = "resend", !.on = b] = r
        BY Beginnings
      <4>2. [Resting EXCEPT !.do = "resend", !.on = b, !.seen = 0] = r
        BY Beginnings
      <4> QED
        BY <4>1, <4>2
    <3>3. "resend" \in OnOneBill /\ 0 \in 0 .. 2
      BY DEF OnOneBill
    <3>2. /\ act' = [act EXCEPT ![u] = [Resting EXCEPT !.do = "resend", !.on = b, !.seen = 0]]
          /\ Exists(b) /\ UNCHANGED bill /\ RowsShape'
      BY <2>0, <2>14, <3>1 DEF RetryEmail, Start, Alive, EmailStatuses
    <3> QED
      BY <2>10, <3>2, <3>3
  <2>15. ASSUME NEW u \in Clerks, NEW d \in OnOneBill, act[u].do \in OnOneBill,
                act' = [act EXCEPT ![u] = [act[u] EXCEPT !.do = d]], UNCHANGED bill, RowsShape'
         PROVE  Shape'
    <3>1. DEFINE a == [act[u] EXCEPT !.do = d]
    <3>2. Operation(act[u]) /\ WorksOnBill(act[u])
      BY DEF Shape
    <3>3. a = [do |-> d, on |-> act[u].on, seen |-> act[u].seen, num |-> act[u].num,
               first |-> act[u].first, rest |-> act[u].rest]
      <4>1. IsRecord(act[u])
        BY <3>2 DEF Operation
      <4> QED
        BY <4>1, NextStep, Zenon
    <3> HIDE DEF a
    <3>4. Operation(a) /\ WorksOnBill(a)
      BY <2>15, <3>2, <3>3 DEF Operation, IsRecord, WorksOnBill, OnOneBill, BillingSteps
    <3> QED
      BY <2>2, <2>15, <3>4 DEF a
  <2>16. ASSUME NEW u \in Clerks, Resend(u) PROVE Shape'
    <3>1. RowsShape' /\ UNCHANGED bill
      BY <2>0, <2>16 DEF Resend, Alive
    <3>2. CASE act' = [act EXCEPT ![u] = Resting]
      BY <2>6, <3>1, <3>2
    <3>3. CASE act' = [act EXCEPT ![u] = [act[u] EXCEPT !.do = "send"]]
      BY <2>15, <2>16, <3>1, <3>3 DEF Resend, OnOneBill
    <3> QED
      BY <2>16, <3>2, <3>3 DEF Resend, Stop, Turn
  <2>17. ASSUME NEW u \in Clerks, MarkQueued(u) PROVE Shape'
    <3>1. RowsShape' /\ UNCHANGED bill
      BY <2>0, <2>17 DEF MarkQueued, Alive, EmailStatuses
    <3> QED
      BY <2>15, <2>17, <3>1 DEF MarkQueued, OnOneBill, Turn
  <2>18. ASSUME NEW u \in Clerks, Enqueue(u) PROVE Shape'
    <3>1. act[u].on \in Bills
      BY <2>18 DEF Enqueue, Shape, WorksOnBill, OnOneBill
    <3>2. RowsShape' /\ UNCHANGED bill
      BY <2>0, <2>18, <3>1 DEF Enqueue, Alive, JobsAt
    <3> QED
      BY <2>6, <2>18, <3>2 DEF Enqueue, Stop, Turn
  <2>19. ASSUME NEW j \in Jobs, WorkerNext(j) PROVE Shape'
    <3>1. RowsShape' /\ \A c \in Bills : Exists(c) => Exists(c)'
      <4> USE <2>0 DEF Alive, JobsAt, NoJob, EmailStatuses, BillStatuses, Exists
      <4>1. CASE WorkerStarts(j)
        BY <4>1 DEF WorkerStarts
      <4>2. CASE WorkerMails(j)
        BY <4>2 DEF WorkerMails
      <4>3. CASE WorkerDelivers(j)
        BY <4>3 DEF WorkerDelivers
      <4>4. CASE WorkerFails(j)
        BY <4>4 DEF WorkerFails
      <4> QED
        BY <2>19, <4>1, <4>2, <4>3, <4>4 DEF WorkerNext
    <3>2. UNCHANGED act
      BY <2>19 DEF WorkerNext, WorkerStarts, WorkerMails, WorkerDelivers, WorkerFails
    <3> QED
      BY <3>1, <3>2 DEF Shape, WorksOnBill
  <2>20. CASE Crash
    <3>1. RowsShape' /\ UNCHANGED bill
      BY <2>0, <2>20 DEF Crash, Alive, JobsAt, NoJob
    <3>2. act' = [u \in Clerks |-> act'[u]] /\ \A u \in Clerks : act'[u] = Resting
      BY <2>20 DEF Crash
    <3>3. WorksOnBill(Resting)'
      BY <3>1, FirstRecord DEF WorksOnBill, Exists
    <3> QED
      BY <3>1, <3>2, <3>3, FirstRecord DEF Shape
  <2>21. CASE UNCHANGED billingVars
    BY <2>21 DEF Shape, WorksOnBill, Exists, Alive
  <2> QED
    BY <2>3, <2>4, <2>5, <2>8, <2>9, <2>11, <2>12, <2>13, <2>14, <2>16, <2>17, <2>18, <2>19,
       <2>20, <2>21
    DEF BillingNext, ClerkNext
<1> QED
  BY <1>1, <1>2, PTL DEF BillingSpec

-----------------------------------------------------------------------------
(* What a step does to the operation of its clerk *)

\* The operation of u is at step d, on bill b, after step u is taken.
IsNow(u, d, b) == act'[u].do = d /\ act'[u].on = b

\* Every action of a clerk leaves the operations of the others alone and begins,
\* continues or ends his own.
LEMMA OperationEffect ==
    ASSUME Shape, NEW u \in Clerks
    PROVE  /\ ClerkNext(u) => \A v \in Clerks \ {u} : act'[v] = act[v]
           /\ \A b \in Bills, first \in BillStatuses : CreateRead(u, b, first) =>
                 act[u].on = NoBill /\ IsNow(u, "number", b)
           /\ \A schools \in SUBSET Invoices : BulkRead(u, schools) => IsNow(u, "number", NoBill)
           /\ ReadNumber(u) =>
                 IsNow(u, "insert", act[u].on) \/ (act[u].on = NoBill /\ IsNow(u, "bulk", NoBill))
           /\ Create(u) => IsNow(u, "idle", NoBill)
           /\ \A b \in Invoices : BulkCreate(u, b) =>
                 act[u].on = NoBill /\ (IsNow(u, "bulk", NoBill) \/ IsNow(u, "idle", NoBill))
           /\ \A b \in ManualBills, step \in {"submit", "update", "approve", "reject"} :
                 ReadBill(u, b, step) =>
                     act[u].on = NoBill /\ IsNow(u, step, b) /\ act'[u].seen = amount[b]
           /\ SubmitBill(u) \/ UpdateBill(u) \/ ApproveBill(u) \/ RejectBill(u) =>
                 act[u].on \in Bills /\ IsNow(u, "idle", NoBill)
           /\ \A b \in Bills :
                 /\ SendRead(u, b) => act[u].on = NoBill /\ IsNow(u, "send", b)
                 /\ RetryEmail(u, b) => act[u].on = NoBill /\ IsNow(u, "resend", b)
           /\ Resend(u) => \/ MaySend(act[u].on) /\ IsNow(u, "send", act[u].on)
                           \/ IsNow(u, "idle", NoBill)
           /\ MarkQueued(u) => act[u].on \in Bills /\ IsNow(u, "enqueue", act[u].on)
           /\ Enqueue(u) => act[u].on \in Bills /\ IsNow(u, "idle", NoBill)
<1> USE BillingAssumption
<1> DEFINE a == act[u]
<1>1. IsRecord(a) /\ Operation(a) /\ WorksOnBill(a)
  BY DEF Shape, Operation
<1>2. \A o : act' = [act EXCEPT ![u] = o] =>
         act'[u] = o /\ \A v \in Clerks \ {u} : act'[v] = act[v]
  BY DEF Shape
<1>3. act[u] = Resting => act[u].on = NoBill
  BY FirstRecord
<1>5. act' = [act EXCEPT ![u] = Resting] => IsNow(u, "idle", NoBill)
  BY <1>2, FirstRecord DEF IsNow
<1>6. ASSUME ClerkNext(u) PROVE \A v \in Clerks \ {u} : act'[v] = act[v]
  <2>1. \E o : act' = [act EXCEPT ![u] = o]
    BY <1>6
    DEF ClerkNext, CreateRead, BulkRead, ReadNumber, Create, BulkCreate, ReadBill, SubmitBill,
        UpdateBill, ApproveBill, RejectBill, Decide, SendRead, RetryEmail, Resend, MarkQueued,
        Enqueue, Start, Turn, Stop
  <2> QED
    BY <1>2, <2>1
<1>7. ASSUME NEW b \in Bills, NEW first \in BillStatuses, CreateRead(u, b, first)
      PROVE  act[u].on = NoBill /\ IsNow(u, "number", b)
  <2>1. PICK o : o = [Resting EXCEPT !.do = "number", !.on = b, !.first = first]
    OBVIOUS
  <2>2. act[u] = Resting /\ act' = [act EXCEPT ![u] = o]
    BY <1>7, <2>1 DEF CreateRead, Start
  <2>3. o = [do |-> "number", on |-> b, seen |-> 0, num |-> 0, first |-> first, rest |-> {}]
    BY <2>1, Beginnings
  <2>4. o.do = "number" /\ o.on = b
    BY <2>3
  <2> QED
    BY <1>2, <1>3, <2>2, <2>4 DEF IsNow
<1>8. ASSUME NEW schools \in SUBSET Invoices, BulkRead(u, schools)
      PROVE  IsNow(u, "number", NoBill)
  <2>1. PICK o : o = [Resting EXCEPT !.do = "number", !.rest = schools, !.first = "GENERATED"]
    OBVIOUS
  <2>2. act' = [act EXCEPT ![u] = o]
    BY <1>8, <2>1 DEF BulkRead, Start
  <2>3. o = [do |-> "number", on |-> NoBill, seen |-> 0, num |-> 0, first |-> "GENERATED",
             rest |-> schools]
    BY <2>1, Beginnings
  <2>4. o.do = "number" /\ o.on = NoBill
    BY <2>3
  <2> QED
    BY <1>2, <2>2, <2>4 DEF IsNow
<1>9. ASSUME ReadNumber(u)
      PROVE  IsNow(u, "insert", act[u].on) \/ (act[u].on = NoBill /\ IsNow(u, "bulk", NoBill))
  <2>1. PICK d, n : /\ d = IF act[u].rest = {} THEN "insert" ELSE "bulk"
                    /\ act' = [act EXCEPT ![u] = [act[u] EXCEPT !.do = d, !.num = n]]
    BY <1>9 DEF ReadNumber, Turn
  <2>2. PICK o : o = [act[u] EXCEPT !.do = d, !.num = n]
    OBVIOUS
  <2>3. o = [do |-> d, on |-> act[u].on, seen |-> act[u].seen, num |-> n,
             first |-> act[u].first, rest |-> act[u].rest]
    BY <1>1, <2>2, TwoFields, Zenon
  <2>4. o.do = d /\ o.on = act[u].on
    BY <2>3
  <2>5. IsNow(u, d, act[u].on)
    BY <1>2, <2>1, <2>2, <2>4 DEF IsNow
  <2>6. act[u].rest # {} => act[u].on = NoBill
    BY <1>1 DEF WorksOnBill
  <2> QED
    BY <2>1, <2>5, <2>6
<1>10. ASSUME Create(u) PROVE IsNow(u, "idle", NoBill)
  BY <1>5, <1>10 DEF Create, Stop, Turn
<1>11. ASSUME NEW b \in Invoices, BulkCreate(u, b)
       PROVE  act[u].on = NoBill /\ (IsNow(u, "bulk", NoBill) \/ IsNow(u, "idle", NoBill))
  <2>1. act[u].do = "bulk" /\ act[u].on = NoBill
    BY <1>1, <1>11 DEF BulkCreate, WorksOnBill
  <2>2. CASE act[u].rest = {b}
    BY <1>5, <1>11, <2>1, <2>2 DEF BulkCreate, Stop, Turn
  <2>3. CASE act[u].rest # {b}
    <3>1. PICK x, n : act' = [act EXCEPT ![u] = [act[u] EXCEPT !.rest = x, !.num = n]]
      BY <1>11, <2>3 DEF BulkCreate, Turn
    <3>2. PICK o : o = [act[u] EXCEPT !.rest = x, !.num = n]
      OBVIOUS
    <3>3. o = [do |-> act[u].do, on |-> act[u].on, seen |-> act[u].seen, num |-> n,
               first |-> act[u].first, rest |-> x]
      BY <1>1, <3>2, TwoFields, Zenon
    <3> QED
      BY <1>2, <2>1, <3>1, <3>2, <3>3 DEF IsNow
  <2> QED
    BY <2>2, <2>3
<1>12. ASSUME NEW b \in ManualBills, NEW step \in {"submit", "update", "approve", "reject"},
              ReadBill(u, b, step)
       PROVE  act[u].on = NoBill /\ IsNow(u, step, b) /\ act'[u].seen = amount[b]
  <2>1. PICK o : o = [Resting EXCEPT !.do = step, !.on = b, !.seen = amount[b]]
    OBVIOUS
  <2>2. act[u] = Resting /\ act' = [act EXCEPT ![u] = o]
    BY <1>12, <2>1 DEF ReadBill, Start
  <2>3. o = [do |-> step, on |-> b, seen |-> amount[b], num |-> 0, first |-> "NONE", rest |-> {}]
    BY <2>1, Beginnings
  <2>4. o.do = step /\ o.on = b /\ o.seen = amount[b]
    BY <2>3
  <2> QED
    BY <1>2, <1>3, <2>2, <2>4 DEF IsNow
<1>13. ASSUME SubmitBill(u) \/ UpdateBill(u) \/ ApproveBill(u) \/ RejectBill(u)
       PROVE  act[u].on \in Bills /\ IsNow(u, "idle", NoBill)
  BY <1>1, <1>5, <1>13
  DEF WorksOnBill, OnOneBill, SubmitBill, UpdateBill, ApproveBill, RejectBill, Decide, Stop, Turn
<1>14. ASSUME NEW b \in Bills, SendRead(u, b)
       PROVE  act[u].on = NoBill /\ IsNow(u, "send", b)
  <2>1. PICK o : o = [Resting EXCEPT !.do = "send", !.on = b]
    OBVIOUS
  <2>2. act[u] = Resting /\ act' = [act EXCEPT ![u] = o]
    BY <1>14, <2>1 DEF SendRead, Start
  <2>3. o = [do |-> "send", on |-> b, seen |-> 0, num |-> 0, first |-> "NONE", rest |-> {}]
    BY <2>1, Beginnings
  <2>4. o.do = "send" /\ o.on = b
    BY <2>3
  <2> QED
    BY <1>2, <1>3, <2>2, <2>4 DEF IsNow
<1>15. ASSUME NEW b \in Bills, RetryEmail(u, b)
       PROVE  act[u].on = NoBill /\ IsNow(u, "resend", b)
  <2>1. PICK o : o = [Resting EXCEPT !.do = "resend", !.on = b]
    OBVIOUS
  <2>2. act[u] = Resting /\ act' = [act EXCEPT ![u] = o]
    BY <1>15, <2>1 DEF RetryEmail, Start
  <2>3. o = [do |-> "resend", on |-> b, seen |-> 0, num |-> 0, first |-> "NONE", rest |-> {}]
    BY <2>1, Beginnings
  <2>4. o.do = "resend" /\ o.on = b
    BY <2>3
  <2> QED
    BY <1>2, <1>3, <2>2, <2>4 DEF IsNow
<1>16. ASSUME NEW d, act' = [act EXCEPT ![u] = [act[u] EXCEPT !.do = d]]
       PROVE  IsNow(u, d, act[u].on)
  <2>1. PICK o : o = [act[u] EXCEPT !.do = d]
    OBVIOUS
  <2>2. o = [do |-> d, on |-> act[u].on, seen |-> act[u].seen, num |-> act[u].num,
             first |-> act[u].first, rest |-> act[u].rest]
    BY <1>1, <2>1, NextStep, Zenon
  <2> QED
    BY <1>2, <1>16, <2>1, <2>2 DEF IsNow
<1>17. ASSUME Resend(u)
       PROVE  \/ MaySend(act[u].on) /\ IsNow(u, "send", act[u].on)
              \/ IsNow(u, "idle", NoBill)
  BY <1>5, <1>16, <1>17 DEF Resend, Stop, Turn
<1>18. ASSUME MarkQueued(u) PROVE act[u].on \in Bills /\ IsNow(u, "enqueue", act[u].on)
  BY <1>1, <1>16, <1>18 DEF MarkQueued, Turn, WorksOnBill, OnOneBill
<1>19. ASSUME Enqueue(u) PROVE act[u].on \in Bills /\ IsNow(u, "idle", NoBill)
  BY <1>1, <1>5, <1>19 DEF Enqueue, Stop, Turn, WorksOnBill, OnOneBill
<1> QED
  BY <1>6, <1>7, <1>8, <1>9, <1>10, <1>11, <1>12, <1>13, <1>14, <1>15, <1>17, <1>18, <1>19

\* Only the reads that meet another operation on their bill add to raced.
LEMMA RacedGrows ==
    ASSUME [BillingNext]_billingVars
    PROVE  raced \subseteq raced' /\ hurried \subseteq hurried'
<1> USE DEF billingVars, rowVars, requestVars, seriesVars, mailVars
<1>1. ASSUME NEW u \in Clerks, ClerkNext(u) PROVE raced \subseteq raced' /\ hurried \subseteq hurried'
  BY <1>1
  DEF ClerkNext, CreateRead, BulkRead, ReadNumber, Create, BulkCreate, ReadBill, SubmitBill,
      UpdateBill, ApproveBill, RejectBill, Decide, SendRead, RetryEmail, Resend, MarkQueued,
      Enqueue, Meets
<1>2. ASSUME NEW j \in Jobs, WorkerNext(j) PROVE UNCHANGED <<raced, hurried>>
  BY <1>2 DEF WorkerNext, WorkerStarts, WorkerMails, WorkerDelivers, WorkerFails
<1>3. Crash => UNCHANGED <<raced, hurried>>
  BY DEF Crash
<1> QED
  BY <1>1, <1>2, <1>3 DEF BillingNext

\* The mail worker leaves the operations alone, and a crash ends all of them.
LEMMA WorkerOperations ==
    /\ \A j \in Jobs : WorkerNext(j) => UNCHANGED act
    /\ Crash => \A u \in Clerks : IsNow(u, "idle", NoBill)
BY FirstRecord
DEF WorkerNext, WorkerStarts, WorkerMails, WorkerDelivers, WorkerFails, Crash, IsNow

-----------------------------------------------------------------------------
(* Two operations on a bill race, or only create it *)

\* Of two operations with the same bill, unless one met the other when it read
\* the bill, each is its creation.
Alone ==
    \A b \in Bills \ raced : \A u, v \in Clerks :
        u # v /\ act[u].on = b /\ act[v].on = b => act[u].do \in {"number", "insert"}

\* When two operations have the same bill and neither met the other at its read,
\* both create it.
THEOREM AloneInvariant == BillingSpec => []Alone
<1> USE BillingAssumption
<1>1. BillingInit => Alone
  BY FirstRecord DEF BillingInit, Alone, Bills
<1>2. Shape /\ Alone /\ [BillingNext]_billingVars => Alone'
  <2> SUFFICES ASSUME Shape, Alone, [BillingNext]_billingVars PROVE Alone'
    OBVIOUS
  <2>1. raced \subseteq raced'
    BY RacedGrows
  <2>2. ASSUME NEW u \in Clerks, ClerkNext(u), NEW b \in Bills \ raced', act'[u].on = b,
               NEW v \in Clerks \ {u}, act'[v].on = b
        PROVE  act'[u].do \in {"number", "insert"} /\ act'[v].do \in {"number", "insert"}
    <3>1. act'[v] = act[v] /\ NoBill \notin Bills
      BY <2>2, OperationEffect DEF Bills
    <3>2. ASSUME act[u].on = b
          PROVE  act[u].do \in {"number", "insert"} /\ act[v].do \in {"number", "insert"}
      BY <2>1, <2>2, <3>1, <3>2 DEF Alone
    <3>3. ASSUME NEW c \in Bills, NEW first \in BillStatuses, CreateRead(u, c, first)
          PROVE  act'[u].do \in {"number", "insert"} /\ act'[v].do \in {"number", "insert"}
      <4>1. act'[u].do = "number" /\ c = b
        BY <2>2, <3>3, OperationEffect DEF IsNow
      <4>2. ~Exists(b)
        BY <3>3, <4>1 DEF CreateRead
      <4>3. Operation(act[v]) /\ WorksOnBill(act[v])
        BY DEF Shape
      <4> QED
        BY <2>2, <3>1, <4>1, <4>2, <4>3 DEF WorksOnBill, Operation, OnOneBill, BillingSteps
    <3>4. ASSUME NEW c \in Bills, IsNow(u, act'[u].do, c), Meets(u, c) PROVE FALSE
      BY <2>2, <3>1, <3>4 DEF Meets, IsNow
    <3>5. ~IsNow(u, "idle", NoBill) /\ ~IsNow(u, "bulk", NoBill) /\ ~IsNow(u, "number", NoBill)
      BY <2>2, <3>1 DEF IsNow
    <3>6. ~\E schools \in SUBSET Invoices : BulkRead(u, schools)
      BY <3>5, OperationEffect
    <3>7. ASSUME ReadNumber(u)
          PROVE  act'[u].do \in {"number", "insert"} /\ act'[v].do \in {"number", "insert"}
      <4>1. IsNow(u, "insert", act[u].on)
        BY <3>5, <3>7, OperationEffect
      <4> QED
        BY <2>2, <3>1, <3>2, <4>1 DEF IsNow
    <3>8. ~Create(u) /\ ~\E c \in Invoices : BulkCreate(u, c)
      BY <3>5, OperationEffect
    <3>9. ~\E c \in ManualBills, step \in {"submit", "update", "approve", "reject"} :
              ReadBill(u, c, step)
      BY <3>4, OperationEffect DEF ReadBill, IsNow, Bills
    <3>10. ~(SubmitBill(u) \/ UpdateBill(u) \/ ApproveBill(u) \/ RejectBill(u))
      BY <3>5, OperationEffect
    <3>11. ~\E c \in Bills : SendRead(u, c) \/ RetryEmail(u, c)
      BY <3>4, OperationEffect DEF SendRead, RetryEmail, IsNow
    <3>12. ~Resend(u) /\ ~MarkQueued(u)
      <4>1. ASSUME Resend(u) \/ MarkQueued(u) PROVE FALSE
        <5>1. act'[u].on = act[u].on
          BY <3>5, <4>1, OperationEffect DEF IsNow
        <5>2. act[u].do \in {"resend", "send"}
          BY <4>1 DEF Resend, MarkQueued
        <5> QED
          BY <2>2, <3>2, <5>1, <5>2
      <4> QED
        BY <4>1
    <3>13. ~Enqueue(u)
      BY <3>5, OperationEffect
    <3> QED
      BY <2>2, <3>3, <3>6, <3>7, <3>8, <3>9, <3>10, <3>11, <3>12, <3>13 DEF ClerkNext
  <2>3. ASSUME NEW u \in Clerks, ClerkNext(u) PROVE Alone'
    <3>1. \A v \in Clerks \ {u} : act'[v] = act[v]
      BY <2>3, OperationEffect
    <3> SUFFICES ASSUME NEW b \in Bills \ raced', NEW v \in Clerks, NEW w \in Clerks, v # w,
                        act'[v].on = b, act'[w].on = b
                 PROVE  act'[v].do \in {"number", "insert"}
      BY DEF Alone
    <3>2. CASE v = u
      BY <2>2, <2>3, <3>2
    <3>3. CASE w = u
      BY <2>2, <2>3, <3>3
    <3>4. CASE v # u /\ w # u
      BY <2>1, <3>1, <3>4 DEF Alone
    <3> QED
      BY <3>2, <3>3, <3>4
  <2>4. ASSUME NEW j \in Jobs, WorkerNext(j) PROVE Alone'
    BY <2>1, <2>4, WorkerOperations DEF Alone
  <2>5. CASE Crash
    BY <2>5, WorkerOperations DEF Alone, IsNow, Bills
  <2>6. CASE UNCHANGED billingVars
    BY <2>6 DEF Alone, billingVars
  <2> QED
    BY <2>3, <2>4, <2>5, <2>6 DEF BillingNext
<1> QED
  BY <1>1, <1>2, ShapeInvariant, PTL DEF BillingSpec

-----------------------------------------------------------------------------
(* Bills and what is decided about them *)

\* A bill waits for approval exactly while a request about it is PENDING, or it
\* was mailed meanwhile (RequestMatches of VerdictsKept).
THEOREM RequestsMatch == BillingSpec => []RequestMatches
<1> USE BillingAssumption
<1>1. BillingInit => RequestMatches
  BY DEF BillingInit, RequestMatches
<1>2. Shape /\ RequestMatches /\ [BillingNext]_billingVars => RequestMatches'
  <2> SUFFICES ASSUME Shape, RequestMatches, [BillingNext]_billingVars PROVE RequestMatches'
    OBVIOUS
  <2>0. RowsShape
    BY DEF Shape
  <2> USE DEF RowsShape, RequestMatches, rowVars, requestVars, seriesVars, mailVars
  <2>1. ASSUME UNCHANGED <<bill, undecided>> PROVE RequestMatches'
    BY <2>1
  <2>2. ASSUME NEW u \in Clerks, NEW b \in Bills, NEW first \in Firsts, InsertRow(u, b, first)
        PROVE  RequestMatches'
    BY <2>0, <2>2 DEF InsertRow, Exists, Firsts
  <2>3. ASSUME NEW u \in Clerks, ClerkNext(u) PROVE RequestMatches'
    <3>1. WorksOnBill(act[u]) /\ Invoices \subseteq Bills
      BY DEF Shape, Bills
    <3>2. CASE Create(u)
      BY <2>2, <3>1, <3>2 DEF Create, WorksOnBill
    <3>3. ASSUME NEW b \in Invoices, BulkCreate(u, b) PROVE RequestMatches'
      BY <2>2, <3>1, <3>3 DEF BulkCreate, Firsts
    <3>4. CASE SubmitBill(u)
      BY <2>0, <3>4 DEF SubmitBill
    <3>5. CASE ApproveBill(u) \/ RejectBill(u)
      BY <2>0, <3>5 DEF ApproveBill, RejectBill, Decide
    <3>6. CASE ~(Create(u) \/ (\E b \in Invoices : BulkCreate(u, b)) \/ SubmitBill(u)
                 \/ ApproveBill(u) \/ RejectBill(u))
      BY <2>1, <2>3, <3>6
      DEF ClerkNext, CreateRead, BulkRead, ReadNumber, ReadBill, UpdateBill, SendRead, RetryEmail,
          Resend, MarkQueued, Enqueue
    <3> QED
      BY <3>2, <3>3, <3>4, <3>5, <3>6
  <2>4. ASSUME NEW j \in Jobs, WorkerNext(j) PROVE RequestMatches'
    <3>1. CASE WorkerDelivers(j)
      BY <2>0, <3>1 DEF WorkerDelivers
    <3>2. CASE WorkerStarts(j) \/ WorkerMails(j) \/ WorkerFails(j)
      BY <2>1, <3>2 DEF WorkerStarts, WorkerMails, WorkerFails
    <3> QED
      BY <2>4, <3>1, <3>2 DEF WorkerNext
  <2>5. CASE Crash
    BY <2>1, <2>5 DEF Crash
  <2>6. CASE UNCHANGED billingVars
    BY <2>1, <2>6 DEF billingVars
  <2> QED
    BY <2>3, <2>4, <2>5, <2>6 DEF BillingNext
<1> QED
  BY <1>1, <1>2, ShapeInvariant, PTL DEF BillingSpec

\* The operation at a bill that no other met has read it as it still is, unless
\* it was mailed.
ReadStands(b, u) ==
    /\ act[u].do \in {"submit", "update"} => bill[b] \in {"DRAFT", "SENT"} /\ verdicts[b] = {}
    /\ act[u].do \in {"approve", "reject"} =>
          /\ bill[b] \in {"PENDING_APPROVAL", "SENT"} /\ verdicts[b] = {}
          /\ act[u].seen = amount[b]

\* What is decided about a bill on which no two operations met.
Reviewed ==
    \A b \in Bills \ raced :
        /\ bill[b] \in {"NONE", "DRAFT", "PENDING_APPROVAL"} => verdicts[b] = {}
        /\ bill[b] \in Decisions => verdicts[b] \subseteq {bill[b]} /\ amount[b] = reviewed[b]
        /\ \A u \in Clerks : act[u].on = b => ReadStands(b, u)

\* A bill on which no two operations met has no verdict before its review, and
\* after it that of the review, of the amount it had read.
THEOREM ReviewedInvariant == BillingSpec => []Reviewed
<1> USE BillingAssumption
<1>1. BillingInit => Reviewed
  BY FirstRecord DEF BillingInit, Reviewed, Decisions, ReadStands
<1>2. Shape /\ Alone /\ Reviewed /\ [BillingNext]_billingVars => Reviewed'
  <2> SUFFICES ASSUME Shape, Alone, Reviewed, [BillingNext]_billingVars, NEW b \in Bills \ raced'
               PROVE  /\ bill'[b] \in {"NONE", "DRAFT", "PENDING_APPROVAL"} => verdicts'[b] = {}
                      /\ bill'[b] \in Decisions =>
                            verdicts'[b] \subseteq {bill'[b]} /\ amount'[b] = reviewed'[b]
                      /\ \A u \in Clerks : act'[u].on = b => ReadStands(b, u)'
    BY DEF Reviewed
  <2>0. RowsShape /\ b \notin raced /\ NoBill \notin Bills
    BY RacedGrows DEF Shape, Bills
  <2> DEFINE Now == /\ bill[b] \in {"NONE", "DRAFT", "PENDING_APPROVAL"} => verdicts[b] = {}
                    /\ bill[b] \in Decisions =>
                          verdicts[b] \subseteq {bill[b]} /\ amount[b] = reviewed[b]
             Steps == \A u \in Clerks : act[u].on = b => ReadStands(b, u)
  <2>1. Now /\ Steps
    BY <2>0 DEF Reviewed
  <2> USE DEF RowsShape, rowVars, requestVars, seriesVars, mailVars
  <2>2. ASSUME UNCHANGED <<bill, verdicts, amount, reviewed>>
        PROVE  Now' /\ \A u \in Clerks : act'[u].on = b /\ act'[u] = act[u] => ReadStands(b, u)'
    BY <2>1, <2>2 DEF ReadStands
  <2>3. ASSUME NEW u \in Clerks, NEW c \in Bills, NEW first \in Firsts, InsertRow(u, c, first),
               act'[u].on = NoBill, \A v \in Clerks \ {u} : act'[v] = act[v]
        PROVE  Now' /\ Steps'
    <3>1. CASE UNCHANGED <<bill, verdicts, amount, reviewed>>
      BY <2>0, <2>2, <2>3, <3>1
    <3>2. CASE ~UNCHANGED <<bill, verdicts, amount, reviewed>>
      <4>1. /\ ~Exists(c) /\ bill' = [bill EXCEPT ![c] = first]
            /\ amount' = [amount EXCEPT ![c] = 1] /\ UNCHANGED <<verdicts, reviewed>>
        BY <2>3, <3>2 DEF InsertRow
      <4>2. Now'
        BY <2>0, <2>1, <4>1 DEF Exists, Firsts, Decisions
      <4>3. ASSUME NEW v \in Clerks, act'[v].on = b PROVE ReadStands(b, v)'
        <5>1. v # u /\ act'[v] = act[v]
          BY <2>0, <2>3, <4>3
        <5>2. act[v].do \in OnOneBill => b # c
          BY <4>1, <4>3, <5>1 DEF Shape, WorksOnBill
        <5> QED
          BY <2>0, <2>1, <4>1, <4>3, <5>1, <5>2 DEF ReadStands, OnOneBill
      <4> QED
        BY <4>2, <4>3
    <3> QED
      BY <3>1, <3>2
  <2>4. ASSUME NEW u \in Clerks, ClerkNext(u) PROVE Now' /\ Steps'
    <3>1. \A v \in Clerks \ {u} : act'[v] = act[v]
      BY <2>4, OperationEffect
    <3>2. WorksOnBill(act[u]) /\ Invoices \subseteq Bills /\ ManualBills \subseteq Bills
      BY DEF Shape, Bills
    <3>3. ASSUME UNCHANGED <<bill, verdicts, amount, reviewed>>, act'[u].on = b => ReadStands(b, u)'
          PROVE  Now' /\ Steps'
      BY <2>2, <3>1, <3>3
    <3>4. ASSUME UNCHANGED <<bill, verdicts, amount, reviewed>>, NEW d, NEW c, IsNow(u, d, c),
                 d \notin {"submit", "update", "approve", "reject"}
          PROVE  Now' /\ Steps'
      BY <3>3, <3>4 DEF IsNow, ReadStands
    <3>5. ASSUME NEW c \in Bills, NEW first \in BillStatuses, CreateRead(u, c, first)
          PROVE  Now' /\ Steps'
      <4>1. UNCHANGED <<bill, verdicts, amount, reviewed>>
        BY <3>5 DEF CreateRead
      <4>2. IsNow(u, "number", c)
        BY <3>5, OperationEffect
      <4> QED
        BY <3>4, <4>1, <4>2
    <3>6. ASSUME NEW schools \in SUBSET Invoices, BulkRead(u, schools) PROVE Now' /\ Steps'
      <4>1. UNCHANGED <<bill, verdicts, amount, reviewed>>
        BY <3>6 DEF BulkRead
      <4>2. IsNow(u, "number", NoBill)
        BY <3>6, OperationEffect
      <4> QED
        BY <3>4, <4>1, <4>2
    <3>7. CASE ReadNumber(u)
      <4>1. UNCHANGED <<bill, verdicts, amount, reviewed>>
        BY <3>7 DEF ReadNumber
      <4>2. IsNow(u, "insert", act[u].on) \/ IsNow(u, "bulk", NoBill)
        BY <3>7, OperationEffect
      <4> QED
        BY <3>4, <4>1, <4>2
    <3>8. CASE Create(u)
      <4>1. InsertRow(u, act[u].on, act[u].first) /\ act[u].on \in Bills /\ act[u].first \in Firsts
        BY <3>2, <3>8 DEF Create, WorksOnBill
      <4>2. act'[u].on = NoBill
        BY <3>8, OperationEffect DEF IsNow
      <4> QED
        BY <2>3, <3>1, <4>1, <4>2
    <3>9. ASSUME NEW c \in Invoices, BulkCreate(u, c) PROVE Now' /\ Steps'
      <4>1. InsertRow(u, c, "GENERATED") /\ c \in Bills /\ "GENERATED" \in Firsts
        BY <3>2, <3>9 DEF BulkCreate, Firsts
      <4>2. act'[u].on = NoBill
        BY <3>9, OperationEffect DEF IsNow
      <4> QED
        BY <2>3, <3>1, <4>1, <4>2
    <3>10. ASSUME NEW c \in ManualBills, NEW step \in {"submit", "update", "approve", "reject"},
                  ReadBill(u, c, step)
           PROVE  Now' /\ Steps'
      <4>1. UNCHANGED <<bill, verdicts, amount, reviewed>> /\ MayStart(u, c, step)
        BY <3>10 DEF ReadBill
      <4>2. IsNow(u, step, c) /\ act'[u].seen = amount[c]
        BY <3>10, OperationEffect
      <4> QED
        BY <2>1, <3>3, <4>1, <4>2 DEF IsNow, ReadStands, MayStart
    <3>11. ASSUME SubmitBill(u) \/ UpdateBill(u) \/ ApproveBill(u) \/ RejectBill(u)
           PROVE  Now' /\ Steps'
      <4>1. /\ act[u].on \in Bills /\ act'[u].on = NoBill
            /\ act[u].do \in {"submit", "update", "approve", "reject"}
        BY <3>11, OperationEffect
        DEF IsNow, SubmitBill, UpdateBill, ApproveBill, RejectBill
      <4>2. CASE act[u].on = b
        <5>1. \A v \in Clerks : act'[v].on # b
          BY <2>0, <3>1, <4>1, <4>2 DEF Alone
        <5>2. Now'
          <6>1. ReadStands(b, u)
            BY <2>1, <4>2
          <6>2. CASE SubmitBill(u)
            BY <2>0, <4>2, <6>1, <6>2 DEF SubmitBill, ReadStands, Decisions
          <6>3. CASE UpdateBill(u)
            BY <2>0, <4>2, <6>1, <6>3 DEF UpdateBill, ReadStands, Decisions
          <6>4. CASE ApproveBill(u)
            BY <2>0, <4>2, <6>1, <6>4 DEF ApproveBill, Decide, ReadStands, Decisions
          <6>5. CASE RejectBill(u)
            BY <2>0, <4>2, <6>1, <6>5 DEF RejectBill, Decide, ReadStands, Decisions
          <6> QED
            BY <3>11, <6>2, <6>3, <6>4, <6>5
        <5> QED
          BY <5>1, <5>2
      <4>3. CASE act[u].on # b
        <5>1. /\ bill'[b] = bill[b] /\ verdicts'[b] = verdicts[b]
              /\ amount'[b] = amount[b] /\ reviewed'[b] = reviewed[b]
          BY <2>0, <3>11, <4>1, <4>3
          DEF SubmitBill, UpdateBill, ApproveBill, RejectBill, Decide
        <5> QED
          BY <2>0, <2>1, <3>1, <4>1, <5>1 DEF ReadStands
      <4> QED
        BY <4>2, <4>3
    <3>12. ASSUME NEW c \in Bills, SendRead(u, c) \/ RetryEmail(u, c) PROVE Now' /\ Steps'
      <4>1. UNCHANGED <<bill, verdicts, amount, reviewed>>
        BY <3>12 DEF SendRead, RetryEmail
      <4>2. IsNow(u, "send", c) \/ IsNow(u, "resend", c)
        BY <3>12, OperationEffect
      <4> QED
        BY <3>4, <4>1, <4>2
    <3>13. CASE Resend(u)
      <4>1. UNCHANGED <<bill, verdicts, amount, reviewed>>
        BY <3>13 DEF Resend
      <4>2. IsNow(u, "send", act[u].on) \/ IsNow(u, "idle", NoBill)
        BY <3>13, OperationEffect
      <4> QED
        BY <3>4, <4>1, <4>2
    <3>14. CASE MarkQueued(u)
      <4>1. UNCHANGED <<bill, verdicts, amount, reviewed>>
        BY <3>14 DEF MarkQueued
      <4>2. IsNow(u, "enqueue", act[u].on)
        BY <3>14, OperationEffect
      <4> QED
        BY <3>4, <4>1, <4>2
    <3>15. CASE Enqueue(u)
      <4>1. UNCHANGED <<bill, verdicts, amount, reviewed>>
        BY <3>15 DEF Enqueue
      <4>2. IsNow(u, "idle", NoBill)
        BY <3>15, OperationEffect
      <4> QED
        BY <3>4, <4>1, <4>2
    <3> QED
      BY <2>4, <3>5, <3>6, <3>7, <3>8, <3>9, <3>10, <3>11, <3>12, <3>13, <3>14, <3>15
      DEF ClerkNext
  <2>5. ASSUME NEW j \in Jobs, WorkerNext(j) PROVE Now' /\ Steps'
    <3>1. UNCHANGED <<verdicts, amount, reviewed, act>>
      BY <2>5 DEF WorkerNext, WorkerStarts, WorkerMails, WorkerDelivers, WorkerFails
    <3>2. bill'[b] \in {bill[b], "SENT"}
      BY <2>0, <2>5 DEF WorkerNext, WorkerStarts, WorkerMails, WorkerDelivers, WorkerFails
    <3> QED
      BY <2>1, <3>1, <3>2 DEF ReadStands, Decisions
  <2>6. CASE Crash
    <3>1. UNCHANGED <<bill, verdicts, amount, reviewed>>
      BY <2>6 DEF Crash
    <3> QED
      BY <2>0, <2>2, <2>6, <3>1, WorkerOperations DEF IsNow
  <2>7. CASE UNCHANGED billingVars
    BY <2>2, <2>7 DEF billingVars
  <2>8. Now' /\ Steps'
    BY <2>4, <2>5, <2>6, <2>7 DEF BillingNext
  <2> QED
    BY <2>8
<1> QED
  BY <1>1, <1>2, ShapeInvariant, AloneInvariant, PTL DEF BillingSpec

\* Requests match their bills, a bill on which no two operations met carries the
\* verdict and the amount of its review, and a rejection is not undone
\* (VerdictsKept), for any number of bills, clerks and operations.
THEOREM VerdictsAreKept == BillingSpec => VerdictsKept
<1> USE BillingAssumption
<1>1. RequestMatches' /\ Reviewed' => (RequestMatches /\ DecisionRecorded)'
  BY DEF Reviewed, DecisionRecorded
<1>2. Shape /\ Reviewed /\ [BillingNext]_billingVars => RejectionStands
  <2> SUFFICES ASSUME Shape, Reviewed, [BillingNext]_billingVars,
                      NEW b \in Bills, bill[b] = "REJECTED", b \notin raced
               PROVE  bill'[b] \in {"REJECTED", "SENT"}
    BY DEF RejectionStands
  <2>0. RowsShape
    BY DEF Shape
  <2> USE DEF RowsShape, rowVars, requestVars, seriesVars, mailVars
  <2>1. CASE UNCHANGED bill
    BY <2>1
  <2>2. ASSUME NEW u \in Clerks, NEW c \in Bills, NEW first \in Firsts, InsertRow(u, c, first)
        PROVE  bill'[b] \in {"REJECTED", "SENT"}
    BY <2>0, <2>2 DEF InsertRow, Exists
  <2>3. ASSUME NEW u \in Clerks, ClerkNext(u) PROVE bill'[b] \in {"REJECTED", "SENT"}
    <3>1. WorksOnBill(act[u]) /\ Invoices \subseteq Bills
      BY DEF Shape, Bills
    <3>2. CASE Create(u)
      BY <2>2, <3>1, <3>2 DEF Create, WorksOnBill
    <3>3. ASSUME NEW c \in Invoices, BulkCreate(u, c) PROVE bill'[b] \in {"REJECTED", "SENT"}
      BY <2>2, <3>1, <3>3 DEF BulkCreate, Firsts
    <3>4. CASE SubmitBill(u) \/ ApproveBill(u) \/ RejectBill(u)
      <4>1. act[u].on # b
        BY <3>4 DEF Reviewed, ReadStands, SubmitBill, ApproveBill, RejectBill, Decisions
      <4> QED
        BY <2>0, <3>4, <4>1 DEF SubmitBill, ApproveBill, RejectBill, Decide
    <3>5. CASE ~(Create(u) \/ (\E c \in Invoices : BulkCreate(u, c)) \/ SubmitBill(u)
                 \/ ApproveBill(u) \/ RejectBill(u))
      BY <2>1, <2>3, <3>5
      DEF ClerkNext, CreateRead, BulkRead, ReadNumber, ReadBill, UpdateBill, SendRead, RetryEmail,
          Resend, MarkQueued, Enqueue
    <3> QED
      BY <3>2, <3>3, <3>4, <3>5
  <2>4. ASSUME NEW j \in Jobs, WorkerNext(j) PROVE bill'[b] \in {"REJECTED", "SENT"}
    BY <2>0, <2>4 DEF WorkerNext, WorkerStarts, WorkerMails, WorkerDelivers, WorkerFails
  <2>5. CASE Crash \/ UNCHANGED billingVars
    BY <2>1, <2>5 DEF Crash, billingVars
  <2> QED
    BY <2>3, <2>4, <2>5 DEF BillingNext
<1>3. Shape /\ Reviewed /\ RequestMatches' /\ Reviewed' /\ [BillingNext]_billingVars
      => [(RequestMatches /\ DecisionRecorded)' /\ RejectionStands]_billingVars
  BY <1>1, <1>2
<1> QED
  BY <1>3, ShapeInvariant, RequestsMatch, ReviewedInvariant, PTL DEF BillingSpec, VerdictsKept

-----------------------------------------------------------------------------
(* Mail jobs *)

\* No job is about to mail bill b.
NoJobFor(b) == \A j \in Jobs : Alive(j) => mail[j].of # b

\* The jobs of a bill whose mailings do not overlap.
OnceMailed ==
    \A b \in Bills \ (raced \cup hurried) :
        /\ \A j, k \in Jobs : Alive(j) /\ Alive(k) /\ mail[j].of = b /\ mail[k].of = b => j = k
        /\ \A j \in Jobs : Alive(j) /\ mail[j].of = b => email[b] \in InFlight
        /\ \A u \in Clerks : act[u].on = b =>
              /\ act[u].do \in {"send", "resend", "enqueue"} => NoJobFor(b)
              /\ act[u].do = "enqueue" => email[b] = "QUEUED"

\* A bill on which no two operations met, and whose e-mail was not retried while
\* it was under way, has one job at most, and none before it is enqueued.
THEOREM OnceMailedInvariant == BillingSpec => []OnceMailed
<1> USE BillingAssumption
<1>1. BillingInit => OnceMailed
  BY FirstRecord DEF BillingInit, OnceMailed, Alive, NoJob, Bills
<1>2. Shape /\ Alone /\ OnceMailed /\ [BillingNext]_billingVars => OnceMailed'
  <2> SUFFICES ASSUME Shape, Alone, OnceMailed, [BillingNext]_billingVars,
                      NEW b \in Bills \ (raced' \cup hurried')
               PROVE  /\ \A j, k \in Jobs : (Alive(j) /\ Alive(k) /\ mail[j].of = b
                                              /\ mail[k].of = b)' => j = k
                      /\ \A j \in Jobs : (Alive(j) /\ mail[j].of = b => email[b] \in InFlight)'
                      /\ \A u \in Clerks : act'[u].on = b =>
                            /\ act'[u].do \in {"send", "resend", "enqueue"} => NoJobFor(b)'
                            /\ act'[u].do = "enqueue" => email'[b] = "QUEUED"
    BY DEF OnceMailed
  <2>0. RowsShape /\ b \notin raced /\ b \notin hurried /\ NoBill \notin Bills
    BY RacedGrows DEF Shape, Bills
  <2> DEFINE One == \A j, k \in Jobs : Alive(j) /\ Alive(k) /\ mail[j].of = b /\ mail[k].of = b
                                          => j = k
             Counts == \A j \in Jobs : Alive(j) /\ mail[j].of = b => email[b] \in InFlight
             Step(u) == act[u].on = b =>
                            /\ act[u].do \in {"send", "resend", "enqueue"} => NoJobFor(b)
                            /\ act[u].do = "enqueue" => email[b] = "QUEUED"
             Steps == \A u \in Clerks : Step(u)
  <2>1. One /\ Counts /\ Steps
    BY <2>0 DEF OnceMailed
  <2> USE DEF RowsShape, rowVars, requestVars, seriesVars, mailVars
  <2>2. ASSUME UNCHANGED mail, email'[b] = email[b]
        PROVE  One' /\ Counts' /\ \A u \in Clerks : act'[u] = act[u] => Step(u)'
    BY <2>1, <2>2 DEF Alive, NoJobFor
  <2>3. ASSUME NEW u \in Clerks, ClerkNext(u) PROVE One' /\ Counts' /\ Steps'
    <3>1. \A v \in Clerks \ {u} : act'[v] = act[v]
      BY <2>3, OperationEffect
    <3>2. ASSUME UNCHANGED <<email, mail>>, NEW d, NEW c, IsNow(u, d, c),
                 d \notin {"send", "resend", "enqueue"}
          PROVE  One' /\ Counts' /\ Steps'
      BY <2>2, <3>1, <3>2 DEF IsNow
    <3>3. ASSUME NEW c \in Bills, NEW first \in BillStatuses, CreateRead(u, c, first)
          PROVE  One' /\ Counts' /\ Steps'
      <4>1. UNCHANGED <<email, mail>>
        BY <3>3 DEF CreateRead
      <4>2. IsNow(u, "number", c)
        BY <3>3, OperationEffect
      <4> QED
        BY <3>2, <4>1, <4>2
    <3>4. ASSUME NEW schools \in SUBSET Invoices, BulkRead(u, schools)
          PROVE  One' /\ Counts' /\ Steps'
      <4>1. UNCHANGED <<email, mail>>
        BY <3>4 DEF BulkRead
      <4>2. IsNow(u, "number", NoBill)
        BY <3>4, OperationEffect
      <4> QED
        BY <3>2, <4>1, <4>2
    <3>5. CASE ReadNumber(u)
      <4>1. UNCHANGED <<email, mail>>
        BY <3>5 DEF ReadNumber
      <4>2. IsNow(u, "insert", act[u].on) \/ IsNow(u, "bulk", NoBill)
        BY <3>5, OperationEffect
      <4> QED
        BY <3>2, <4>1, <4>2
    <3>6. CASE Create(u)
      <4>1. UNCHANGED <<email, mail>>
        BY <3>6 DEF Create
      <4>2. IsNow(u, "idle", NoBill)
        BY <3>6, OperationEffect
      <4> QED
        BY <3>2, <4>1, <4>2
    <3>7. ASSUME NEW c \in Invoices, BulkCreate(u, c) PROVE One' /\ Counts' /\ Steps'
      <4>1. UNCHANGED <<email, mail>>
        BY <3>7 DEF BulkCreate
      <4>2. IsNow(u, "bulk", NoBill) \/ IsNow(u, "idle", NoBill)
        BY <3>7, OperationEffect
      <4> QED
        BY <3>2, <4>1, <4>2
    <3>8. ASSUME NEW c \in ManualBills, NEW step \in {"submit", "update", "approve", "reject"},
                 ReadBill(u, c, step)
          PROVE  One' /\ Counts' /\ Steps'
      <4>1. UNCHANGED <<email, mail>>
        BY <3>8 DEF ReadBill
      <4>2. IsNow(u, step, c)
        BY <3>8, OperationEffect
      <4> QED
        BY <3>2, <4>1, <4>2
    <3>9. CASE SubmitBill(u) \/ UpdateBill(u) \/ ApproveBill(u) \/ RejectBill(u)
      <4>1. UNCHANGED <<email, mail>>
        BY <3>9 DEF SubmitBill, UpdateBill, ApproveBill, RejectBill, Decide
      <4>2. IsNow(u, "idle", NoBill)
        BY <3>9, OperationEffect
      <4> QED
        BY <3>2, <4>1, <4>2
    <3>10. ASSUME NEW c \in Bills, SendRead(u, c) PROVE One' /\ Counts' /\ Steps'
      <4>1. UNCHANGED <<email, mail>> /\ MaySend(c) /\ IsNow(u, "send", c)
        BY <3>10, OperationEffect DEF SendRead
      <4>2. Step(u)'
        BY <2>1, <4>1 DEF IsNow, MaySend, Alive, NoJobFor
      <4> QED
        BY <2>2, <3>1, <4>1, <4>2
    <3>11. ASSUME NEW c \in Bills, RetryEmail(u, c) PROVE One' /\ Counts' /\ Steps'
      <4>1. UNCHANGED mail /\ IsNow(u, "resend", c) /\ email' = [email EXCEPT ![c] = "IDLE"]
        BY <3>11, OperationEffect DEF RetryEmail
      <4>2. CASE c # b
        <5>1. email'[b] = email[b] /\ Step(u)'
          BY <2>0, <4>1, <4>2 DEF IsNow
        <5> QED
          BY <2>2, <3>1, <4>1, <5>1
      <4>3. CASE c = b
        <5>1. JobsFor(b) = {}
          BY <3>11, <4>3 DEF RetryEmail
        <5>2. NoJobFor(b) /\ NoJobFor(b)'
          BY <4>1, <5>1 DEF JobsFor, NoJobFor, Alive
        <5>3. \A v \in Clerks \ {u} : act[v].on # b
          BY <3>11, <4>3 DEF RetryEmail, Meets
        <5> QED
          BY <3>1, <4>1, <5>2, <5>3 DEF NoJobFor, IsNow
      <4> QED
        BY <4>2, <4>3
    <3>12. CASE Resend(u)
      <4>1. UNCHANGED <<email, mail>> /\ act[u].do = "resend"
        BY <3>12 DEF Resend
      <4>2. CASE IsNow(u, "send", act[u].on)
        <5>1. Step(u)'
          BY <2>1, <4>1, <4>2 DEF IsNow, NoJobFor, Alive
        <5> QED
          BY <2>2, <3>1, <4>1, <5>1
      <4>3. CASE IsNow(u, "idle", NoBill)
        BY <3>2, <4>1, <4>3
      <4> QED
        BY <3>12, <4>2, <4>3, OperationEffect
    <3>13. CASE MarkQueued(u)
      <4>1. /\ UNCHANGED mail /\ email' = [email EXCEPT ![act[u].on] = "QUEUED"]
            /\ act[u].do = "send"
        BY <3>13 DEF MarkQueued
      <4>2. IsNow(u, "enqueue", act[u].on) /\ act[u].on \in Bills
        BY <3>13, OperationEffect
      <4>3. CASE act[u].on = b
        <5>1. NoJobFor(b) /\ NoJobFor(b)' /\ email'[b] = "QUEUED"
          BY <2>0, <2>1, <4>1, <4>3 DEF NoJobFor, Alive
        <5>2. \A v \in Clerks \ {u} : act[v].on # b
          BY <2>0, <4>1, <4>3 DEF Alone
        <5> QED
          BY <3>1, <4>2, <5>1, <5>2 DEF NoJobFor, IsNow
      <4>4. CASE act[u].on # b
        <5>1. email'[b] = email[b] /\ Step(u)'
          BY <2>0, <4>1, <4>2, <4>4 DEF IsNow
        <5> QED
          BY <2>2, <3>1, <4>1, <5>1
      <4> QED
        BY <4>3, <4>4
    <3>14. CASE Enqueue(u)
      <4>1. PICK j \in Jobs, d \in BOOLEAN :
               /\ ~Alive(j)
               /\ mail' = [mail EXCEPT ![j] = [at |-> "waiting", of |-> act[u].on, direct |-> d]]
        BY <3>14 DEF Enqueue
      <4>2. UNCHANGED email /\ act[u].do = "enqueue" /\ act[u].on \in Bills /\ act'[u].on = NoBill
        BY <3>14, OperationEffect DEF Enqueue, IsNow
      <4>3. /\ mail'[j].of = act[u].on /\ mail'[j].at = "waiting"
            /\ \A k \in Jobs \ {j} : mail'[k] = mail[k]
        BY <2>0, <4>1
      <4>4. CASE act[u].on = b
        <5>1. NoJobFor(b) /\ email[b] = "QUEUED"
          BY <2>1, <4>2, <4>4
        <5>2. \A k \in Jobs : Alive(k)' /\ mail'[k].of = b => k = j
          BY <4>3, <5>1 DEF NoJobFor, Alive
        <5>3. One' /\ Counts'
          BY <4>2, <5>1, <5>2 DEF InFlight
        <5>4. \A v \in Clerks : act'[v].on # b
          BY <2>0, <3>1, <4>2, <4>4 DEF Alone
        <5> QED
          BY <5>3, <5>4
      <4>5. CASE act[u].on # b
        <5>1. \A k \in Jobs : Alive(k)' /\ mail'[k].of = b => k # j /\ Alive(k) /\ mail[k].of = b
          BY <4>3, <4>5 DEF Alive
        <5>2. One' /\ Counts'
          BY <2>1, <4>2, <5>1
        <5>3. NoJobFor(b) => NoJobFor(b)'
          BY <5>1 DEF NoJobFor
        <5> QED
          BY <2>0, <2>1, <3>1, <4>2, <5>2, <5>3
      <4> QED
        BY <4>4, <4>5
    <3> QED
      BY <2>3, <3>3, <3>4, <3>5, <3>6, <3>7, <3>8, <3>9, <3>10, <3>11, <3>12, <3>13, <3>14
      DEF ClerkNext
  <2>4. ASSUME NEW j \in Jobs, WorkerNext(j) PROVE One' /\ Counts' /\ Steps'
    <3>1. UNCHANGED act /\ Alive(j)
      BY <2>4
      DEF WorkerNext, WorkerStarts, WorkerMails, WorkerDelivers, WorkerFails, Alive
    <3>2. \A k \in Jobs \ {j} : mail'[k] = mail[k]
      BY <2>0, <2>4 DEF WorkerNext, WorkerStarts, WorkerMails, WorkerDelivers, WorkerFails
    <3>3. mail'[j] = NoJob \/ mail'[j].of = mail[j].of
      BY <2>0, <2>4 DEF WorkerNext, WorkerStarts, WorkerMails, WorkerDelivers, WorkerFails
    <3>4. mail[j].of # b => email'[b] = email[b]
      BY <2>0, <2>4 DEF WorkerNext, WorkerStarts, WorkerMails, WorkerDelivers, WorkerFails
    <3>5. mail'[j] = NoJob \/ email'[mail[j].of] \in InFlight \/ UNCHANGED email
      BY <2>0, <2>4, <3>1
      DEF WorkerNext, WorkerStarts, WorkerMails, WorkerDelivers, WorkerFails, InFlight, RowsShape
    <3>6. \A k \in Jobs : Alive(k)' /\ mail'[k].of = b => Alive(k) /\ mail[k].of = b
      BY <3>1, <3>2, <3>3 DEF Alive, NoJob
    <3>7. One'
      BY <2>1, <3>6
    <3>8. Counts'
      <4> SUFFICES ASSUME NEW k \in Jobs, Alive(k)', mail'[k].of = b PROVE email'[b] \in InFlight
        OBVIOUS
      <4>1. Alive(k) /\ mail[k].of = b /\ email[b] \in InFlight
        BY <2>1, <3>6
      <4>2. CASE mail[j].of = b
        <5>1. k = j /\ mail'[j] # NoJob
          BY <2>1, <3>1, <4>1, <4>2 DEF Alive, NoJob
        <5> QED
          BY <3>5, <4>1, <4>2, <5>1
      <4> QED
        BY <3>4, <4>1, <4>2
    <3>9. Steps'
      <4> SUFFICES ASSUME NEW u \in Clerks, act[u].on = b PROVE Step(u)'
        BY <3>1
      <4>1. NoJobFor(b) => NoJobFor(b)' /\ mail[j].of # b
        BY <3>1, <3>6 DEF NoJobFor
      <4> QED
        BY <2>1, <3>1, <3>4, <4>1
    <3> QED
      BY <3>7, <3>8, <3>9
  <2>5. CASE Crash
    <3>1. \A k \in Jobs : Alive(k)' => Alive(k) /\ mail'[k].of = mail[k].of
      BY <2>0, <2>5 DEF Crash, Alive, NoJob
    <3>2. UNCHANGED email
      BY <2>5 DEF Crash
    <3>3. \A u \in Clerks : act'[u].on # b
      BY <2>0, <2>5, WorkerOperations DEF IsNow
    <3> QED
      BY <2>1, <3>1, <3>2, <3>3
  <2>6. CASE UNCHANGED billingVars
    BY <2>2, <2>6 DEF billingVars
  <2>7. One' /\ Counts' /\ Steps'
    BY <2>3, <2>4, <2>5, <2>6 DEF BillingNext
  <2> QED
    BY <2>7
<1> QED
  BY <1>1, <1>2, ShapeInvariant, AloneInvariant, PTL DEF BillingSpec

\* What keeps a mailing alive: its job, or the request that is to add it.
HasMailing(b) ==
    \/ ~NoJobFor(b)
    \/ \E u \in Clerks : act[u].do = "enqueue" /\ act[u].on = b
    \/ b \in stranded

\* A bill that counts as being mailed is.
Mailed == \A b \in Bills : email[b] \in InFlight => HasMailing(b)

\* A bill that counts as being mailed has a job, is about to have one, or lost it
\* in a crash or a database error (MailingAlive).
THEOREM MailedInvariant == BillingSpec => []Mailed
<1> USE BillingAssumption
<1>1. BillingInit => Mailed
  BY DEF BillingInit, Mailed, InFlight
<1>2. Shape /\ Mailed /\ [BillingNext]_billingVars => Mailed'
  <2> SUFFICES ASSUME Shape, Mailed, [BillingNext]_billingVars,
                      NEW b \in Bills, email'[b] \in InFlight
               PROVE  HasMailing(b)'
    BY DEF Mailed
  <2>0. RowsShape /\ NoBill \notin Bills
    BY DEF Shape, Bills
  <2>1. email[b] \in InFlight => HasMailing(b)
    BY DEF Mailed
  <2> USE DEF RowsShape, rowVars, requestVars, seriesVars, mailVars
  <2>2. ASSUME UNCHANGED <<mail, stranded>>, email'[b] = email[b], NEW u \in Clerks,
               \A v \in Clerks \ {u} : act'[v] = act[v], act[u].do # "enqueue"
        PROVE  HasMailing(b)'
    BY <2>1, <2>2 DEF HasMailing, NoJobFor, Alive
  <2>3. ASSUME NEW u \in Clerks, ClerkNext(u) PROVE HasMailing(b)'
    <3>1. \A v \in Clerks \ {u} : act'[v] = act[v]
      BY <2>3, OperationEffect
    <3>2. CASE \E c \in Bills : RetryEmail(u, c)
      <4>1. PICK c \in Bills : RetryEmail(u, c)
        BY <3>2
      <4>2. c # b /\ email'[b] = email[b] /\ UNCHANGED mail
        BY <2>0, <4>1 DEF RetryEmail, InFlight
      <4>3. act[u].do # "enqueue" /\ (b \in stranded => b \in stranded')
        BY <4>1, <4>2, FirstRecord DEF RetryEmail, Start
      <4> QED
        BY <2>1, <3>1, <4>2, <4>3 DEF HasMailing, NoJobFor, Alive
    <3>3. CASE MarkQueued(u)
      <4>1. /\ email' = [email EXCEPT ![act[u].on] = "QUEUED"] /\ UNCHANGED <<mail, stranded>>
            /\ act[u].do = "send"
        BY <3>3 DEF MarkQueued
      <4>2. IsNow(u, "enqueue", act[u].on)
        BY <3>3, OperationEffect
      <4>3. CASE act[u].on = b
        BY <4>2, <4>3 DEF HasMailing, IsNow
      <4>4. CASE act[u].on # b
        <5>1. email'[b] = email[b]
          BY <2>0, <4>1, <4>4
        <5> QED
          BY <2>2, <3>1, <4>1, <5>1
      <4> QED
        BY <4>3, <4>4
    <3>4. CASE Enqueue(u)
      <4>1. PICK j \in Jobs, d \in BOOLEAN :
               /\ ~Alive(j)
               /\ mail' = [mail EXCEPT ![j] = [at |-> "waiting", of |-> act[u].on, direct |-> d]]
        BY <3>4 DEF Enqueue
      <4>2. /\ mail'[j].of = act[u].on /\ mail'[j].at = "waiting"
            /\ \A k \in Jobs \ {j} : mail'[k] = mail[k]
        BY <2>0, <4>1
      <4>3. UNCHANGED <<email, stranded>>
        BY <3>4 DEF Enqueue
      <4>4. ~NoJobFor(b) => ~NoJobFor(b)'
        BY <4>1, <4>2 DEF NoJobFor, Alive
      <4>5. act[u].on = b => ~NoJobFor(b)'
        BY <4>2 DEF NoJobFor, Alive
      <4> QED
        BY <2>1, <3>1, <4>3, <4>4, <4>5 DEF HasMailing
    <3>5. CASE ~((\E c \in Bills : RetryEmail(u, c)) \/ MarkQueued(u) \/ Enqueue(u))
      <4>1. UNCHANGED <<email, mail, stranded>>
        BY <2>3, <3>5
        DEF ClerkNext, CreateRead, BulkRead, ReadNumber, Create, BulkCreate, ReadBill, SubmitBill,
            UpdateBill, ApproveBill, RejectBill, Decide, SendRead, Resend
      <4>2. act[u].do # "enqueue"
        BY <2>3, <3>5, FirstRecord
        DEF ClerkNext, CreateRead, BulkRead, ReadNumber, Create, BulkCreate, ReadBill, SubmitBill,
            UpdateBill, ApproveBill, RejectBill, SendRead, Resend, Start
      <4> QED
        BY <2>2, <3>1, <4>1, <4>2
    <3> QED
      BY <3>2, <3>3, <3>4, <3>5
  <2>4. ASSUME NEW j \in Jobs, WorkerNext(j) PROVE HasMailing(b)'
    <3>1. UNCHANGED act /\ stranded \subseteq stranded'
      BY <2>4 DEF WorkerNext, WorkerStarts, WorkerMails, WorkerDelivers, WorkerFails
    <3>2. \A k \in Jobs \ {j} : mail'[k] = mail[k]
      BY <2>0, <2>4 DEF WorkerNext, WorkerStarts, WorkerMails, WorkerDelivers, WorkerFails
    <3>3. CASE mail[j].of = b
      <4>1. CASE WorkerStarts(j) \/ WorkerMails(j)
        <5>1. Alive(j)' /\ mail'[j].of = b
          BY <2>0, <3>3, <4>1 DEF WorkerStarts, WorkerMails, Alive
        <5> QED
          BY <5>1 DEF HasMailing, NoJobFor
      <4>2. CASE WorkerDelivers(j)
        BY <2>0, <3>3, <4>2 DEF WorkerDelivers, InFlight
      <4>3. CASE WorkerFails(j)
        <5>1. b \in stranded'
          BY <2>0, <3>3, <4>3 DEF WorkerFails, InFlight
        <5> QED
          BY <5>1 DEF HasMailing
      <4> QED
        BY <2>4, <4>1, <4>2, <4>3 DEF WorkerNext
    <3>4. CASE mail[j].of # b
      <4>1. email'[b] = email[b]
        BY <2>0, <2>4, <3>4 DEF WorkerNext, WorkerStarts, WorkerMails, WorkerDelivers, WorkerFails
      <4>2. ~NoJobFor(b) => ~NoJobFor(b)'
        BY <3>2, <3>4 DEF NoJobFor, Alive
      <4> QED
        BY <2>1, <3>1, <4>1, <4>2 DEF HasMailing
    <3> QED
      BY <3>3, <3>4
  <2>5. CASE Crash
    <3>1. UNCHANGED email
      BY <2>5 DEF Crash
    <3>2. ASSUME NEW u \in Clerks, act[u].do = "enqueue", act[u].on = b PROVE b \in stranded'
      BY <2>5, <3>2 DEF Crash
    <3>3. ASSUME NEW j \in Jobs, Alive(j), mail[j].of = b PROVE ~NoJobFor(b)' \/ b \in stranded'
      <4>1. CASE mail[j].direct
        BY <2>5, <3>3, <4>1 DEF Crash
      <4>2. CASE ~mail[j].direct
        <5>1. mail'[j].at = "waiting" /\ mail'[j].of = b
          BY <2>0, <2>5, <3>3, <4>2 DEF Crash, Alive
        <5> QED
          BY <5>1 DEF NoJobFor, Alive
      <4> QED
        BY <4>1, <4>2
    <3>4. b \in stranded => b \in stranded'
      BY <2>5 DEF Crash
    <3> QED
      BY <2>1, <3>1, <3>2, <3>3, <3>4 DEF HasMailing, NoJobFor
  <2>6. CASE UNCHANGED billingVars
    BY <2>1, <2>6 DEF billingVars, HasMailing, NoJobFor, Alive
  <2> QED
    BY <2>3, <2>4, <2>5, <2>6 DEF BillingNext
<1> QED
  BY <1>1, <1>2, ShapeInvariant, PTL DEF BillingSpec

\* A bill that is being mailed has a mail job and, as long as its operations do
\* not overlap and its e-mail is not retried while under way, only one.
THEOREM OneMailIsKept == BillingSpec => []OneMailJob
<1>1. OnceMailed => OneMailing
  <2> SUFFICES ASSUME OnceMailed, NEW b \in Bills \ (raced \cup hurried)
               PROVE  Cardinality(JobsFor(b)) <= 1
    BY DEF OneMailing
  <2>1. CASE JobsFor(b) = {}
    BY <2>1, FS_EmptySet
  <2>2. CASE JobsFor(b) # {}
    <3>1. PICK j : JobsFor(b) = {j}
      BY <2>2 DEF OnceMailed, JobsFor
    <3>2. Cardinality(JobsFor(b)) = 1
      BY <3>1, FS_Singleton
    <3> QED
      BY <3>2
  <2> QED
    BY <2>1, <2>2
<1>2. Mailed => MailingAlive
  BY DEF Mailed, HasMailing, MailingAlive, NoJobFor, JobsFor
<1> QED
  BY <1>1, <1>2, OnceMailedInvariant, MailedInvariant, PTL DEF OneMailJob

-----------------------------------------------------------------------------
(* The numbers of a series *)

Existing(s) == {b \in BillsOf(s) : Exists(b)}
Total(s) == Before(s) + Cardinality(Existing(s))
Creating(u, s) == act[u].do \in {"number", "insert", "bulk"} /\ SeriesOf(act[u].on) = s

\* While creations in a series do not overlap, its numbers are 1..Total; the one
\* creation in progress has a row that does not exist yet and the next number, or a
\* taken one after the numbers have outgrown their digits.
Prepared(u, s) ==
    /\ \A b \in Bills : b = act[u].on \/ b \in act[u].rest => ~Exists(b)
    /\ act[u].do # "number" =>
          /\ act[u].num \in 1 .. Total(s) + 1
          /\ act[u].num <= Total(s) => Width + 1 <= Total(s)
SeriesInv(s) ==
    /\ IsFiniteSet(Existing(s))
    /\ NumbersOf(s) = 1 .. Total(s)
    /\ s \in clashed => Width + 1 <= Total(s)
    /\ \A u, v \in Clerks : Creating(u, s) /\ Creating(v, s) => u = v
    /\ \A u \in Clerks : Creating(u, s) => Prepared(u, s)

NumberedInv ==
    /\ number = [b \in Bills |-> number[b]]
    /\ \A s \in Series \ overlapped : SeriesInv(s)

\* Every bill belongs to one series.
LEMMA SeriesBills ==
    /\ \A s \in Series : BillsOf(s) \subseteq Bills /\ Before(s) \in Nat
    /\ \A b \in Bills : SeriesOf(b) \in Series /\ b \in BillsOf(SeriesOf(b))
    /\ \A b \in Bills, s \in Series : b \in BillsOf(s) => s = SeriesOf(b)
    /\ NoBill \notin Bills /\ SeriesOf(NoBill) = "INV" /\ \A b \in Invoices : SeriesOf(b) = "INV"
    /\ Width \in Nat \ {0}
BY BillingAssumption DEF Series, SeriesOf, BillsOf, Bills, Before

\* The next number of a series without gaps
LEMMA NextNumberIs ==
    ASSUME NEW s \in Series, NEW N \in Nat, NumbersOf(s) = 1 .. N
    PROVE  /\ NextNumber(s) \in 1 .. N + 1
           /\ NextNumber(s) <= N => Width + 1 <= N
<1> DEFINE short == {n \in 1 .. N : n <= Width}
           M == IF N <= Width THEN N ELSE Width
<1>1. NextNumber(s) = IF short = {} THEN 1 ELSE Greatest(short) + 1
  BY DEF NextNumber
<1>2. Width \in Nat /\ Width # 0
  BY SeriesBills
<1>3. CASE N = 0
  <2>1. short = {}
    BY <1>3
  <2> QED
    BY <1>1, <1>3, <2>1
<1>4. CASE N # 0
  <2>1. M \in short /\ \A m \in short : m <= M
    BY <1>2, <1>4
  <2>2. Greatest(short) \in short /\ \A m \in short : m <= Greatest(short)
    BY <2>1 DEF Greatest
  <2>3. Greatest(short) = M
    BY <1>2, <2>1, <2>2
  <2>4. NextNumber(s) = M + 1
    BY <1>1, <2>1, <2>3
  <2> QED
    BY <1>2, <1>4, <2>4
<1> QED
  BY <1>3, <1>4

\* While no bill comes into being, nothing changes in a series.
LEMMA NothingNumbered ==
    ASSUME \A b \in Bills : Exists(b)' <=> Exists(b), UNCHANGED number, NEW s \in Series
    PROVE  Existing(s)' = Existing(s) /\ NumbersOf(s)' = NumbersOf(s) /\ Total(s)' = Total(s)
<1>1. Existing(s)' = Existing(s)
  BY SeriesBills DEF Existing
<1> QED
  BY <1>1 DEF NumbersOf, Existing, Total

\* Nor does it in the other series when one does.
LEMMA OthersNumbered ==
    ASSUME NEW b \in Bills, NEW s \in Series, s # SeriesOf(b),
           \A c \in Bills : c # b => (Exists(c)' <=> Exists(c)) /\ number'[c] = number[c]
    PROVE  Existing(s)' = Existing(s) /\ NumbersOf(s)' = NumbersOf(s) /\ Total(s)' = Total(s)
<1>1. \A c \in BillsOf(s) : c \in Bills /\ c # b
  BY SeriesBills
<1>2. Existing(s)' = Existing(s)
  BY <1>1 DEF Existing
<1>3. {number'[c] : c \in Existing(s)} = {number[c] : c \in Existing(s)}
  BY <1>1 DEF Existing
<1> QED
  BY <1>2, <1>3 DEF NumbersOf, Existing, Total

\* A new bill with the next number
LEMMA OneMore ==
    ASSUME NEW b \in Bills, NEW s \in Series, s = SeriesOf(b), SeriesInv(s),
           ~Exists(b), Exists(b)', number'[b] = Total(s) + 1,
           \A c \in Bills : c # b => (Exists(c)' <=> Exists(c)) /\ number'[c] = number[c]
    PROVE  IsFiniteSet(Existing(s)') /\ Total(s)' = Total(s) + 1 /\ NumbersOf(s)' = 1 .. Total(s)'
<1>1. b \in BillsOf(s) /\ b \notin Existing(s) /\ \A c \in BillsOf(s) : c \in Bills
  BY SeriesBills DEF Existing
<1>2. Existing(s)' = Existing(s) \cup {b}
  BY <1>1 DEF Existing
<1>3. IsFiniteSet(Existing(s))
  BY DEF SeriesInv
<1>4. /\ IsFiniteSet(Existing(s)')
      /\ Cardinality(Existing(s)') = Cardinality(Existing(s)) + 1
      /\ Cardinality(Existing(s)) \in Nat
  BY <1>1, <1>2, <1>3, FS_AddElement, FS_CardinalityType
<1>5. Total(s)' = Total(s) + 1 /\ Total(s) \in Nat
  BY <1>4, SeriesBills DEF Total
<1>6. NumbersOf(s)' = NumbersOf(s) \cup {Total(s) + 1}
  <2>1. \A c \in Existing(s) : number'[c] = number[c]
    BY <1>1 DEF Existing
  <2>2. NumbersOf(s) = (1 .. Before(s)) \cup {number[c] : c \in Existing(s)}
    BY DEF NumbersOf, Existing
  <2>3. NumbersOf(s)' = (1 .. Before(s)) \cup {number'[c] : c \in Existing(s)'}
    BY DEF NumbersOf, Existing
  <2> QED
    BY <1>2, <2>1, <2>2, <2>3
<1>7. NumbersOf(s)' = 1 .. Total(s) + 1
  BY <1>5, <1>6 DEF SeriesInv
<1> QED
  BY <1>4, <1>5, <1>7

\* A step that creates no bill, and in which nobody begins or goes on with a creation
LEMMA NobodyCreates ==
    ASSUME NumberedInv, \A b \in Bills : Exists(b)' <=> Exists(b),
           UNCHANGED <<number, overlapped, clashed>>,
           \A u \in Clerks, s \in Series : Creating(u, s)' => act'[u] = act[u]
    PROVE  NumberedInv'
<1>1. ASSUME NEW s \in Series \ overlapped PROVE SeriesInv(s)'
  <2>1. SeriesInv(s)
    BY DEF NumberedInv
  <2>2. Existing(s)' = Existing(s) /\ NumbersOf(s)' = NumbersOf(s) /\ Total(s)' = Total(s)
    BY NothingNumbered
  <2>3. \A u \in Clerks : Creating(u, s)' => Creating(u, s) /\ act'[u] = act[u]
    BY DEF Creating
  <2>4. ASSUME NEW u \in Clerks, Creating(u, s)' PROVE Prepared(u, s)'
    <3>1. Prepared(u, s) /\ act'[u] = act[u]
      BY <2>1, <2>3, <2>4 DEF SeriesInv
    <3> QED
      BY <2>2, <3>1 DEF Prepared
  <2>5. \A u, v \in Clerks : Creating(u, s)' /\ Creating(v, s)' => u = v
    BY <2>1, <2>3 DEF SeriesInv
  <2> QED
    BY <2>1, <2>2, <2>4, <2>5 DEF SeriesInv
<1> QED
  BY <1>1 DEF NumberedInv

\* What the steps of a creation keep of it
LEMMA CreationEffect ==
    ASSUME Shape, NEW u \in Clerks
    PROVE  /\ \A b \in Bills, first \in BillStatuses : CreateRead(u, b, first) => act'[u].rest = {}
           /\ \A schools \in SUBSET Invoices : BulkRead(u, schools) => act'[u].rest = schools
           /\ ReadNumber(u) => /\ act'[u].do \in {"insert", "bulk"} /\ act'[u].on = act[u].on
                               /\ act'[u].rest = act[u].rest
                               /\ act'[u].num = NextNumber(SeriesOf(act[u].on))
           /\ \A b \in Invoices : BulkCreate(u, b) =>
                 \/ act'[u].do = "idle"
                 \/ /\ act'[u].do = "bulk" /\ act'[u].on = act[u].on
                    /\ act'[u].rest = act[u].rest \ {b} /\ act'[u].num = act[u].num + 1
<1>1. IsRecord(act[u])
  BY DEF Shape, Operation
<1>2. \A o : act' = [act EXCEPT ![u] = o] => act'[u] = o
  BY DEF Shape
<1>3. ASSUME NEW b \in Bills, NEW first \in BillStatuses, CreateRead(u, b, first)
      PROVE  act'[u].rest = {}
  <2>1. PICK o : o = [Resting EXCEPT !.do = "number", !.on = b, !.first = first]
    OBVIOUS
  <2>2. act' = [act EXCEPT ![u] = o]
    BY <1>3, <2>1 DEF CreateRead, Start
  <2>3. o = [do |-> "number", on |-> b, seen |-> 0, num |-> 0, first |-> first, rest |-> {}]
    BY <2>1, Beginnings
  <2>4. o.rest = {}
    BY <2>3
  <2> QED
    BY <1>2, <2>2, <2>4
<1>4. ASSUME NEW schools \in SUBSET Invoices, BulkRead(u, schools)
      PROVE  act'[u].rest = schools
  <2>1. PICK o : o = [Resting EXCEPT !.do = "number", !.rest = schools, !.first = "GENERATED"]
    OBVIOUS
  <2>2. act' = [act EXCEPT ![u] = o]
    BY <1>4, <2>1 DEF BulkRead, Start
  <2>3. o = [do |-> "number", on |-> NoBill, seen |-> 0, num |-> 0, first |-> "GENERATED",
             rest |-> schools]
    BY <2>1, Beginnings
  <2>4. o.rest = schools
    BY <2>3
  <2> QED
    BY <1>2, <2>2, <2>4
<1>5. ASSUME ReadNumber(u)
      PROVE  /\ act'[u].do \in {"insert", "bulk"} /\ act'[u].on = act[u].on
             /\ act'[u].rest = act[u].rest
             /\ act'[u].num = NextNumber(SeriesOf(act[u].on))
  <2>1. PICK d, n : /\ d \in {"insert", "bulk"} /\ n = NextNumber(SeriesOf(act[u].on))
                    /\ act' = [act EXCEPT ![u] = [act[u] EXCEPT !.do = d, !.num = n]]
    BY <1>5 DEF ReadNumber, Turn
  <2>2. PICK o : o = [act[u] EXCEPT !.do = d, !.num = n]
    OBVIOUS
  <2>3. o = [do |-> d, on |-> act[u].on, seen |-> act[u].seen, num |-> n,
             first |-> act[u].first, rest |-> act[u].rest]
    BY <1>1, <2>2, TwoFields, Zenon
  <2>4. o.do = d /\ o.on = act[u].on /\ o.rest = act[u].rest /\ o.num = n
    BY <2>3
  <2>5. act'[u] = o
    BY <1>2, <2>1, <2>2
  <2> QED
    BY <2>1, <2>4, <2>5
<1>6. ASSUME NEW b \in Invoices, BulkCreate(u, b)
      PROVE  \/ act'[u].do = "idle"
             \/ /\ act'[u].do = "bulk" /\ act'[u].on = act[u].on
                /\ act'[u].rest = act[u].rest \ {b} /\ act'[u].num = act[u].num + 1
  <2>1. act[u].do = "bulk"
    BY <1>6 DEF BulkCreate
  <2>2. CASE act[u].rest = {b}
    BY <1>2, <1>6, <2>2, FirstRecord DEF BulkCreate, Stop, Turn
  <2>3. CASE act[u].rest # {b}
    <3>1. PICK x, n : /\ x = act[u].rest \ {b} /\ n = act[u].num + 1
                      /\ act' = [act EXCEPT ![u] = [act[u] EXCEPT !.rest = x, !.num = n]]
      BY <1>6, <2>3 DEF BulkCreate, Turn
    <3>2. PICK o : o = [act[u] EXCEPT !.rest = x, !.num = n]
      OBVIOUS
    <3>3. o = [do |-> act[u].do, on |-> act[u].on, seen |-> act[u].seen, num |-> n,
               first |-> act[u].first, rest |-> x]
      BY <1>1, <3>2, TwoFields, Zenon
    <3>4. o.do = act[u].do /\ o.on = act[u].on /\ o.rest = x /\ o.num = n
      BY <3>3
    <3>5. act'[u] = o
      BY <1>2, <3>1, <3>2
    <3> QED
      BY <2>1, <3>1, <3>4, <3>5
  <2> QED
    BY <2>2, <2>3
<1> QED
  BY <1>3, <1>4, <1>5, <1>6

\* A creation begins: unless it meets another, it is the only one of its series.
LEMMA CreationsBegin ==
    ASSUME NumberedInv, Shape, NEW u \in Clerks, NEW s \in Series, Overlaps(u, s),
           UNCHANGED <<bill, number, clashed>>,
           \A v \in Clerks \ {u} : act'[v] = act[v],
           act'[u].do = "number" /\ SeriesOf(act'[u].on) = s,
           \A b \in Bills : b = act'[u].on \/ b \in act'[u].rest => ~Exists(b)
    PROVE  NumberedInv'
<1>1. overlapped \subseteq overlapped'
      /\ (s \notin overlapped' => \A v \in Clerks \ {u} : ~Creating(v, s))
  BY DEF Overlaps, Creating
<1>2. ASSUME NEW t \in Series \ overlapped' PROVE SeriesInv(t)'
  <2>1. SeriesInv(t)
    BY <1>1 DEF NumberedInv
  <2>2. Existing(t)' = Existing(t) /\ NumbersOf(t)' = NumbersOf(t) /\ Total(t)' = Total(t)
    BY NothingNumbered DEF Exists
  <2>3. Creating(u, t)' <=> t = s
    BY DEF Creating
  <2>4. \A v \in Clerks \ {u} : Creating(v, t)' <=> Creating(v, t)
    BY DEF Creating
  <2>5. \A v, w \in Clerks : Creating(v, t)' /\ Creating(w, t)' => v = w
    BY <1>1, <1>2, <2>1, <2>3, <2>4 DEF SeriesInv
  <2>6. ASSUME NEW v \in Clerks, Creating(v, t)' PROVE Prepared(v, t)'
    <3>1. CASE v = u
      BY <3>1 DEF Prepared, Exists
    <3>2. CASE v # u
      <4>1. Prepared(v, t) /\ act'[v] = act[v]
        BY <2>1, <2>4, <2>6, <3>2 DEF SeriesInv
      <4> QED
        BY <2>2, <4>1 DEF Prepared, Exists
    <3> QED
      BY <3>1, <3>2
  <2> QED
    BY <2>1, <2>2, <2>5, <2>6 DEF SeriesInv
<1> QED
  BY <1>2 DEF NumberedInv

\* It takes the next number.
LEMMA NumbersAreRead ==
    ASSUME NumberedInv, Shape, NEW u \in Clerks, ReadNumber(u)
    PROVE  NumberedInv'
<1>1. /\ UNCHANGED <<bill, number, overlapped, clashed>> /\ act[u].do = "number"
      /\ \A v \in Clerks \ {u} : act'[v] = act[v]
      /\ act'[u].do \in {"insert", "bulk"} /\ act'[u].on = act[u].on /\ act'[u].rest = act[u].rest
      /\ act'[u].num = NextNumber(SeriesOf(act[u].on))
  BY CreationEffect, OperationEffect DEF ClerkNext, ReadNumber, rowVars, seriesVars
<1>2. ASSUME NEW s \in Series \ overlapped PROVE SeriesInv(s)'
  <2>1. SeriesInv(s)
    BY DEF NumberedInv
  <2>2. Existing(s)' = Existing(s) /\ NumbersOf(s)' = NumbersOf(s) /\ Total(s)' = Total(s)
    BY <1>1, NothingNumbered DEF Exists
  <2>3. \A v \in Clerks : Creating(v, s)' <=> Creating(v, s)
    BY <1>1 DEF Creating
  <2>4. Total(s) \in Nat
    BY <2>1, FS_CardinalityType, SeriesBills DEF SeriesInv, Total
  <2>5. ASSUME NEW v \in Clerks, Creating(v, s)' PROVE Prepared(v, s)'
    <3>1. Prepared(v, s)
      BY <2>1, <2>3, <2>5 DEF SeriesInv
    <3>2. CASE v = u
      <4>1. SeriesOf(act[u].on) = s
        BY <1>1, <2>5, <3>2 DEF Creating
      <4>2. act'[u].num \in 1 .. Total(s) + 1 /\ (act'[u].num <= Total(s) => Width + 1 <= Total(s))
        BY <1>1, <2>1, <2>4, <4>1, NextNumberIs DEF SeriesInv
      <4> QED
        BY <1>1, <2>2, <3>1, <3>2, <4>2 DEF Prepared, Exists
    <3>3. CASE v # u
      BY <1>1, <2>2, <3>1, <3>3 DEF Prepared, Exists
    <3> QED
      BY <3>2, <3>3
  <2> QED
    BY <1>1, <2>1, <2>2, <2>3, <2>5 DEF SeriesInv
<1> QED
  BY <1>1, <1>2 DEF NumberedInv

\* The row of a creation
LEMMA RowsAreInserted ==
    ASSUME NumberedInv, Shape, NEW u \in Clerks, NEW b \in Bills, NEW s \in Series \ overlapped,
           s = SeriesOf(b), Creating(u, s), act[u].do # "number", b = act[u].on \/ b \in act[u].rest,
           NEW first \in Firsts, InsertRow(u, b, first)
    PROVE  /\ IsFiniteSet(Existing(s)') /\ NumbersOf(s)' = 1 .. Total(s)'
           /\ s \in clashed' => Width + 1 <= Total(s)'
           /\ act[u].num \in Nat /\ Total(s)' \in Nat /\ 0 < act[u].num /\ act[u].num <= Total(s)'
           /\ act[u].num + 1 <= Total(s)' => Width + 1 <= Total(s)'
<1>1. SeriesInv(s) /\ Prepared(u, s)
  BY DEF NumberedInv, SeriesInv
<1>2. Total(s) \in Nat
  BY <1>1, FS_CardinalityType, SeriesBills DEF SeriesInv, Total
<1>3. /\ ~Exists(b) /\ act[u].num \in 1 .. Total(s) + 1
      /\ act[u].num <= Total(s) => Width + 1 <= Total(s)
  BY <1>1 DEF Prepared
<1>4. CASE act[u].num \in NumbersOf(s)
  <2>1. UNCHANGED <<bill, number>> /\ clashed' = clashed \cup {s}
    BY <1>4 DEF InsertRow, rowVars
  <2>2. Existing(s)' = Existing(s) /\ NumbersOf(s)' = NumbersOf(s) /\ Total(s)' = Total(s)
    BY <2>1, NothingNumbered DEF Exists
  <2>3. act[u].num <= Total(s)
    BY <1>1, <1>2, <1>4 DEF SeriesInv
  <2> QED
    BY <1>1, <1>2, <1>3, <2>1, <2>2, <2>3 DEF SeriesInv
<1>5. CASE act[u].num \notin NumbersOf(s)
  <2>1. /\ bill' = [bill EXCEPT ![b] = first] /\ number' = [number EXCEPT ![b] = act[u].num]
        /\ clashed' = clashed
    BY <1>3, <1>5 DEF InsertRow
  <2>2. act[u].num = Total(s) + 1
    BY <1>1, <1>2, <1>3, <1>5 DEF SeriesInv
  <2>3. /\ Exists(b)' /\ number'[b] = act[u].num
        /\ \A c \in Bills : c # b => (Exists(c)' <=> Exists(c)) /\ number'[c] = number[c]
    BY <2>1 DEF NumberedInv, Shape, RowsShape, Exists, Firsts
  <2>4. IsFiniteSet(Existing(s)') /\ Total(s)' = Total(s) + 1 /\ NumbersOf(s)' = 1 .. Total(s)'
    BY <1>1, <1>3, <2>2, <2>3, OneMore
  <2>5. s \in clashed' => Width + 1 <= Total(s)'
    BY <1>1, <1>2, <2>1, <2>4, SeriesBills DEF SeriesInv
  <2> QED
    BY <1>2, <1>3, <2>2, <2>4, <2>5
<1> QED
  BY <1>4, <1>5

\* The step with which it inserts the row
LEMMA CreationsInsert ==
    ASSUME NumberedInv, Shape, NEW u \in Clerks, Create(u) \/ \E b \in Invoices : BulkCreate(u, b)
    PROVE  NumberedInv'
<1>1. Operation(act[u]) /\ WorksOnBill(act[u])
  BY DEF Shape
<1>2. PICK b \in Bills, first \in Firsts :
         /\ InsertRow(u, b, first) /\ UNCHANGED overlapped
         /\ act[u].do \in {"insert", "bulk"} /\ SeriesOf(act[u].on) = SeriesOf(b)
         /\ b = act[u].on \/ b \in act[u].rest
         /\ \/ act'[u].do = "idle"
            \/ /\ act'[u].do = "bulk" /\ act'[u].on = act[u].on
               /\ act'[u].rest = act[u].rest \ {b} /\ act'[u].num = act[u].num + 1
               /\ act[u].on = NoBill
  <2>1. CASE Create(u)
    <3>1. act[u].on \in Bills /\ act[u].first \in Firsts /\ act'[u].do = "idle"
      BY <1>1, <2>1, OperationEffect DEF Create, WorksOnBill, IsNow
    <3> QED
      BY <2>1, <3>1 DEF Create
  <2>2. ASSUME NEW b \in Invoices, BulkCreate(u, b)
        PROVE  /\ b \in Bills /\ "GENERATED" \in Firsts
               /\ InsertRow(u, b, "GENERATED") /\ UNCHANGED overlapped
               /\ act[u].do = "bulk" /\ act[u].on = NoBill /\ b \in act[u].rest
               /\ \/ act'[u].do = "idle"
                  \/ /\ act'[u].do = "bulk" /\ act'[u].on = act[u].on
                     /\ act'[u].rest = act[u].rest \ {b} /\ act'[u].num = act[u].num + 1
    BY <2>2, CreationEffect, OperationEffect DEF BulkCreate, Bills, Firsts
  <2>3. CASE \E b \in Invoices : BulkCreate(u, b)
    <3>1. PICK b \in Invoices : BulkCreate(u, b)
      BY <2>3
    <3> QED
      BY <2>2, <3>1, SeriesBills
  <2> QED
    BY <2>1, <2>3
<1>3. \A v \in Clerks \ {u} : act'[v] = act[v]
  <2>1. ClerkNext(u)
    BY DEF ClerkNext
  <2> QED
    BY <2>1, OperationEffect
<1>4. /\ number' = [c \in Bills |-> number'[c]]
      /\ \A c \in Bills : c # b => (Exists(c)' <=> Exists(c)) /\ number'[c] = number[c]
      /\ \A t \in Series : t # SeriesOf(b) => (t \in clashed' <=> t \in clashed)
  BY <1>2 DEF InsertRow, rowVars, requestVars, NumberedInv, Shape, RowsShape, Exists
<1>5. ASSUME NEW s \in Series \ overlapped PROVE SeriesInv(s)'
  <2>1. SeriesInv(s)
    BY DEF NumberedInv
  <2>2. \A v \in Clerks : Creating(v, s)' => Creating(v, s)
    BY <1>2, <1>3 DEF Creating
  <2>3. \A v, w \in Clerks : Creating(v, s)' /\ Creating(w, s)' => v = w
    BY <2>1, <2>2 DEF SeriesInv
  <2>4. CASE s # SeriesOf(b)
    <3>1. Existing(s)' = Existing(s) /\ NumbersOf(s)' = NumbersOf(s) /\ Total(s)' = Total(s)
      BY <1>4, <2>4, OthersNumbered
    <3>2. ASSUME NEW v \in Clerks, Creating(v, s)' PROVE Prepared(v, s)'
      <4>1. v # u
        BY <1>2, <2>2, <2>4, <3>2 DEF Creating
      <4>2. Prepared(v, s) /\ act'[v] = act[v]
        BY <1>3, <2>1, <2>2, <3>2, <4>1 DEF SeriesInv
      <4>3. b # act[v].on /\ b \notin act[v].rest
        <5>1. Operation(act[v]) /\ WorksOnBill(act[v]) /\ SeriesOf(act[v].on) = s
          BY <2>2, <3>2 DEF Shape, Creating
        <5>2. b \in act[v].rest => act[v].on = NoBill /\ b \in Invoices
          BY <5>1 DEF Operation, WorksOnBill
        <5> QED
          BY <2>4, <5>1, <5>2, SeriesBills
      <4> QED
        BY <1>4, <3>1, <4>2, <4>3 DEF Prepared
    <3> QED
      BY <1>4, <2>1, <2>3, <2>4, <3>1, <3>2 DEF SeriesInv
  <2>5. CASE s = SeriesOf(b)
    <3>1. Creating(u, s)
      BY <1>2, <2>5 DEF Creating
    <3>2. /\ IsFiniteSet(Existing(s)') /\ NumbersOf(s)' = 1 .. Total(s)'
          /\ s \in clashed' => Width + 1 <= Total(s)'
          /\ act[u].num \in Nat /\ Total(s)' \in Nat /\ 0 < act[u].num /\ act[u].num <= Total(s)'
          /\ act[u].num + 1 <= Total(s)' => Width + 1 <= Total(s)'
      BY <1>2, <2>5, <3>1, RowsAreInserted
    <3>3. ASSUME NEW v \in Clerks, Creating(v, s)' PROVE Prepared(v, s)'
      <4>1. v = u
        BY <2>1, <2>2, <3>1, <3>3 DEF SeriesInv
      <4>2. /\ act'[u].do = "bulk" /\ act'[u].on = NoBill
            /\ act'[u].rest = act[u].rest \ {b} /\ act'[u].num = act[u].num + 1
        BY <1>2, <3>3, <4>1 DEF Creating
      <4>3. \A c \in Bills : c \in act'[u].rest => ~Exists(c)'
        BY <1>4, <2>1, <3>1, <4>2 DEF SeriesInv, Prepared
      <4>4. act'[u].num \in 1 .. Total(s)' + 1 /\ (act'[u].num <= Total(s)' => Width + 1 <= Total(s)')
        BY <3>2, <4>2
      <4> QED
        BY <4>1, <4>2, <4>3, <4>4, SeriesBills DEF Prepared
    <3> QED
      BY <2>3, <3>2, <3>3 DEF SeriesInv
  <2> QED
    BY <2>4, <2>5
<1> QED
  BY <1>2, <1>4, <1>5 DEF NumberedInv

\* No bill disappears.
LEMMA BillsStay ==
    ASSUME Shape, [BillingNext]_billingVars, NEW b \in Bills, Exists(b)
    PROVE  Exists(b)'
<1>1. bill \in [Bills -> BillStatuses]
  BY DEF Shape, RowsShape
<1>2. ASSUME NEW x \in BillStatuses \ {"NONE"}, NEW c, bill' = [bill EXCEPT ![c] = x]
      PROVE  Exists(b)'
  BY <1>1, <1>2 DEF Exists
<1>3. ASSUME NEW u \in Clerks, NEW c \in Bills, NEW first \in Firsts, InsertRow(u, c, first)
      PROVE  Exists(b)'
  BY <1>1, <1>3 DEF InsertRow, rowVars, Exists, Firsts
<1>4. ASSUME NEW u \in Clerks, Create(u) PROVE Exists(b)'
  <2>1. act[u].on \in Bills /\ act[u].first \in Firsts /\ InsertRow(u, act[u].on, act[u].first)
    BY <1>4 DEF Create, Shape, WorksOnBill
  <2> QED
    BY <1>3, <2>1
<1>5. ASSUME NEW u \in Clerks, NEW c \in Invoices, BulkCreate(u, c) PROVE Exists(b)'
  BY <1>3, <1>5 DEF BulkCreate, Bills, Firsts
<1>6. ASSUME NEW u \in Clerks, SubmitBill(u) \/ ApproveBill(u) \/ RejectBill(u) PROVE Exists(b)'
  <2>1. \E x \in BillStatuses \ {"NONE"} : bill' = [bill EXCEPT ![act[u].on] = x]
    BY <1>6 DEF SubmitBill, ApproveBill, RejectBill, Decide, BillStatuses
  <2> QED
    BY <1>2, <2>1
<1>7. ASSUME NEW j \in Jobs, WorkerDelivers(j) PROVE Exists(b)'
  <2>1. "SENT" \in BillStatuses \ {"NONE"} /\ bill' = [bill EXCEPT ![mail[j].of] = "SENT"]
    BY <1>7 DEF WorkerDelivers, BillStatuses
  <2> QED
    BY <1>2, <2>1
<1>8. CASE UNCHANGED bill
  BY <1>8 DEF Exists
<1> QED
  BY <1>4, <1>5, <1>6, <1>7, <1>8
  DEF BillingNext, ClerkNext, WorkerNext, CreateRead, BulkRead, ReadNumber, ReadBill, UpdateBill, SendRead,
      RetryEmail, Resend, MarkQueued, Enqueue, WorkerStarts, WorkerMails, WorkerFails, Crash,
      billingVars, rowVars

\* A bill that a job mails exists.
MailsExist == \A j \in Jobs : Alive(j) => Exists(mail[j].of)

\* Enqueue and crash only pass on bills that exist.
LEMMA MailsExistInvariant == BillingSpec => []MailsExist
<1>1. BillingInit => MailsExist
  BY DEF BillingInit, MailsExist, Alive, NoJob
<1>2. Shape /\ MailsExist /\ [BillingNext]_billingVars => MailsExist'
  <2> SUFFICES ASSUME Shape, MailsExist, [BillingNext]_billingVars, NEW j \in Jobs, Alive(j)'
               PROVE  Exists(mail[j].of)'
    BY DEF MailsExist
  <2>1. RowsShape
    BY DEF Shape
  <2>2. ASSUME Alive(j), mail'[j].of = mail[j].of PROVE Exists(mail[j].of)'
    <3>1. mail[j].of \in Bills /\ Exists(mail[j].of)
      BY <2>1, <2>2 DEF MailsExist, RowsShape
    <3>2. PICK b \in Bills : b = mail[j].of /\ b = mail'[j].of /\ Exists(b)
      BY <2>2, <3>1
    <3>3. Exists(b)'
      BY <3>2, BillsStay
    <3> QED
      BY <3>2, <3>3 DEF Exists
  <2>3. ASSUME NEW u \in Clerks, Enqueue(u) PROVE Exists(mail[j].of)'
    <3>1. act[u].do = "enqueue" /\ act[u].on \in Bills /\ Exists(act[u].on) /\ UNCHANGED bill
      BY <2>3 DEF Enqueue, Shape, WorksOnBill, OnOneBill, rowVars
    <3>2. PICK k \in Jobs, d \in BOOLEAN :
             mail' = [mail EXCEPT ![k] = [at |-> "waiting", of |-> act[u].on, direct |-> d]]
      BY <2>3 DEF Enqueue
    <3>3. CASE j = k
      BY <2>1, <3>1, <3>2, <3>3 DEF RowsShape, Exists
    <3>4. CASE j # k
      BY <2>1, <2>2, <3>2, <3>4 DEF RowsShape, Alive
    <3> QED
      BY <3>3, <3>4
  <2>4. CASE UNCHANGED mail
    BY <2>2, <2>4 DEF Alive
  <2>5. ASSUME NEW k \in Jobs, WorkerNext(k) PROVE Exists(mail[j].of)'
    BY <2>1, <2>2, <2>5
    DEF WorkerNext, WorkerStarts, WorkerMails, WorkerDelivers, WorkerFails, RowsShape, Alive, NoJob
  <2>6. CASE Crash
    BY <2>1, <2>2, <2>6 DEF Crash, RowsShape, Alive, NoJob
  <2> QED
    BY <2>3, <2>4, <2>5, <2>6
    DEF BillingNext, ClerkNext, CreateRead, BulkRead, ReadNumber, Create, BulkCreate, ReadBill, SubmitBill,
        UpdateBill, ApproveBill, RejectBill, Decide, SendRead, RetryEmail, Resend, MarkQueued,
        mailVars, billingVars
<1> QED
  BY <1>1, <1>2, ShapeInvariant, PTL DEF BillingSpec

\* Every step keeps the numbers of the series in which creations do not overlap.
LEMMA NumberedNext ==
    ASSUME NumberedInv, Shape, MailsExist, [BillingNext]_billingVars
    PROVE  NumberedInv'
<1>1. ASSUME NEW u \in Clerks, NEW b \in Bills, NEW first \in BillStatuses, CreateRead(u, b, first)
      PROVE  NumberedInv'
  <2>1. /\ UNCHANGED <<bill, number, clashed>> /\ Overlaps(u, SeriesOf(b)) /\ ~Exists(b)
        /\ act'[u].do = "number" /\ act'[u].on = b /\ act'[u].rest = {}
        /\ \A v \in Clerks \ {u} : act'[v] = act[v]
    BY <1>1, CreationEffect, OperationEffect DEF ClerkNext, CreateRead, rowVars, IsNow
  <2> QED
    BY <2>1, SeriesBills, CreationsBegin
<1>2. ASSUME NEW u \in Clerks, NEW schools \in SUBSET Invoices, BulkRead(u, schools)
      PROVE  NumberedInv'
  <2>1. /\ UNCHANGED <<bill, number, clashed>> /\ Overlaps(u, "INV") /\ \A b \in schools : ~Exists(b)
        /\ act'[u].do = "number" /\ act'[u].on = NoBill /\ act'[u].rest = schools
        /\ \A v \in Clerks \ {u} : act'[v] = act[v]
    BY <1>2, CreationEffect, OperationEffect DEF ClerkNext, BulkRead, rowVars, IsNow
  <2>2. "INV" \in Series
    BY DEF Series
  <2> QED
    BY <2>1, <2>2, SeriesBills, CreationsBegin
<1>3. ASSUME NEW u \in Clerks, ClerkNext(u),
             \/ \E b \in ManualBills, step \in {"submit", "update", "approve", "reject"} :
                   ReadBill(u, b, step)
             \/ SubmitBill(u) \/ UpdateBill(u) \/ ApproveBill(u) \/ RejectBill(u)
             \/ \E b \in Bills : SendRead(u, b) \/ RetryEmail(u, b)
             \/ Resend(u) \/ MarkQueued(u) \/ Enqueue(u)
      PROVE  NumberedInv'
  <2>1. act'[u].do \notin {"number", "insert", "bulk"} /\ \A v \in Clerks \ {u} : act'[v] = act[v]
    BY <1>3, OperationEffect DEF IsNow
  <2>2. UNCHANGED <<number, overlapped, clashed>>
    BY <1>3 DEF ReadBill, SubmitBill, UpdateBill, ApproveBill, RejectBill, Decide, SendRead, RetryEmail,
                Resend, MarkQueued, Enqueue, rowVars, seriesVars
  <2>3. \A b \in Bills : Exists(b)' <=> Exists(b)
    <3>1. CASE SubmitBill(u) \/ ApproveBill(u) \/ RejectBill(u)
      <4>1. /\ act[u].on \in Bills /\ Exists(act[u].on)
            /\ \E x \in {"PENDING_APPROVAL", "APPROVED", "REJECTED"} :
                  bill' = [bill EXCEPT ![act[u].on] = x]
        BY <3>1 DEF SubmitBill, ApproveBill, RejectBill, Decide, Shape, WorksOnBill, OnOneBill
      <4> QED
        BY <4>1 DEF Exists, Shape, RowsShape
    <3>2. CASE UNCHANGED bill
      BY <3>2 DEF Exists
    <3> QED
      BY <1>3, <3>1, <3>2 DEF ReadBill, UpdateBill, SendRead, RetryEmail, Resend, MarkQueued, Enqueue, rowVars
  <2> QED
    BY <2>1, <2>2, <2>3, NobodyCreates DEF Creating
<1>4. ASSUME NEW j \in Jobs, WorkerNext(j) PROVE NumberedInv'
  <2>1. UNCHANGED <<number, overlapped, clashed, act>>
    BY <1>4 DEF WorkerNext, WorkerStarts, WorkerMails, WorkerDelivers, WorkerFails, rowVars, seriesVars
  <2>2. \A b \in Bills : Exists(b)' <=> Exists(b)
    <3>1. CASE WorkerDelivers(j)
      <4>1. Alive(j) /\ bill' = [bill EXCEPT ![mail[j].of] = "SENT"] /\ mail[j].of \in Bills
        BY <3>1 DEF WorkerDelivers, Alive, Shape, RowsShape
      <4>2. ASSUME NEW b \in Bills, ~Exists(b) PROVE b # mail[j].of
        BY <4>1, <4>2 DEF MailsExist
      <4> QED
        BY <4>1, <4>2 DEF Exists, Shape, RowsShape
    <3>2. CASE UNCHANGED bill
      BY <3>2 DEF Exists
    <3> QED
      BY <1>4, <3>1, <3>2 DEF WorkerNext, WorkerStarts, WorkerMails, WorkerFails, rowVars
  <2> QED
    BY <2>1, <2>2, NobodyCreates
<1>5. CASE Crash
  <2>1. UNCHANGED <<number, overlapped, clashed, bill>>
    BY <1>5 DEF Crash, rowVars, seriesVars
  <2>2. \A u \in Clerks : act'[u].do = "idle"
    BY <1>5, WorkerOperations DEF IsNow
  <2> QED
    BY <2>1, <2>2, NobodyCreates DEF Creating, Exists
<1>6. CASE UNCHANGED billingVars
  BY <1>6, NobodyCreates DEF billingVars, rowVars, seriesVars, Exists
<1> QED
  BY <1>1, <1>2, <1>3, <1>4, <1>5, <1>6, NumbersAreRead, CreationsInsert DEF BillingNext, ClerkNext

\* Before the first bill a series has the numbers issued elsewhere, without a gap.
LEMMA NumberedInvariant == BillingSpec => []NumberedInv
<1>1. BillingInit => NumberedInv
  <2> SUFFICES ASSUME BillingInit PROVE NumberedInv
    OBVIOUS
  <2>1. /\ \A b \in Bills : ~Exists(b)
        /\ \A u \in Clerks : act[u].do = "idle"
        /\ number = [b \in Bills |-> number[b]] /\ clashed = {}
    BY FirstRecord DEF BillingInit, Exists
  <2>2. ASSUME NEW s \in Series PROVE SeriesInv(s)
    <3>1. Existing(s) = {}
      BY <2>1, SeriesBills DEF Existing
    <3>2. IsFiniteSet(Existing(s)) /\ Cardinality(Existing(s)) = 0
      BY <3>1, FS_EmptySet
    <3>3. Total(s) = Before(s)
      BY <3>2, SeriesBills DEF Total
    <3>4. NumbersOf(s) = 1 .. Before(s)
      BY <3>1 DEF NumbersOf, Existing
    <3>5. \A u \in Clerks : ~Creating(u, s)
      BY <2>1 DEF Creating
    <3> QED
      BY <2>1, <3>2, <3>3, <3>4, <3>5 DEF SeriesInv
  <2> QED
    BY <2>1, <2>2 DEF NumberedInv
<1>2. NumberedInv /\ Shape /\ MailsExist /\ [BillingNext]_billingVars => NumberedInv'
  BY NumberedNext
<1> QED
  BY <1>1, <1>2, ShapeInvariant, MailsExistInvariant, PTL DEF BillingSpec

\* As long as the creations in a series do not overlap, its numbers have no gap and
\* no creation meets a taken one before the numbers outgrow their digits
\* (generateInvoiceNumber, generateBillNumber), however many bills and clerks there are.
THEOREM NumbersAreSequential == BillingSpec => []Sequential
<1>1. NumberedInv => Sequential
  <2> SUFFICES ASSUME NumberedInv, NEW s \in Series \ overlapped
               PROVE  /\ NumbersOf(s) = 1 .. (Before(s) + Cardinality({b \in BillsOf(s) : Exists(b)}))
                      /\ s \in clashed => Width + 1 \in NumbersOf(s)
    BY DEF Sequential
  <2>1. SeriesInv(s)
    BY DEF NumberedInv
  <2>2. Total(s) \in Nat /\ Width \in Nat
    BY <2>1, FS_CardinalityType, SeriesBills DEF SeriesInv, Total
  <2>3. s \in clashed => Width + 1 \in NumbersOf(s)
    BY <2>1, <2>2 DEF SeriesInv
  <2> QED
    BY <2>1, <2>3 DEF SeriesInv, Total, Existing
<1> QED
  BY <1>1, NumberedInvariant, PTL

-----------------------------------------------------------------------------
(* The types *)

\* The rest of the types: numbers, counters and what history has seen.  A job that
\* was handed over directly is one that is alive.
CountsShape ==
    /\ number \in [Bills -> Nat]
    /\ creator \in [Bills -> Clerks \cup {NoClerk}]
    /\ moves \in 0 .. MaxMoves /\ faults \in 0 .. MaxFaults
    /\ raced \subseteq Bills /\ hurried \subseteq Bills /\ stranded \subseteq Bills
    /\ overlapped \subseteq Series /\ clashed \subseteq Series
    /\ \A j \in Jobs : mail[j].direct => Alive(j)
    /\ \A u \in Clerks : act[u].num \in Nat

\* However many bills and whatever numbers are taken, the next one is a number.
LEMMA NextIsNumber ==
    ASSUME number \in [Bills -> Nat], NEW s \in Series
    PROVE  NextNumber(s) \in Nat
<1> DEFINE short == {n \in NumbersOf(s) : n <= Width}
           gap == {Width - n : n \in short}
<1>1. Width \in Nat /\ short \subseteq Nat
  BY SeriesBills DEF NumbersOf
<1>2. NextNumber(s) = IF short = {} THEN 1 ELSE Greatest(short) + 1
  BY DEF NextNumber
<1>3. ASSUME short # {} PROVE Greatest(short) \in Nat
  <2>1. gap \subseteq Nat /\ gap # {}
    BY <1>1, <1>3
  <2> HIDE DEF gap
  <2>2. PICK d \in gap : \A e \in gap : ~(<<e, d>> \in OpToRel(<, Nat))
    BY <2>1, NatLessThanWellFounded, WFMin
  <2>3. ASSUME NEW e \in gap PROVE e \in Nat /\ d \in Nat /\ d <= e
    <3>1. \A x, y \in Nat : <<x, y>> \in OpToRel(<, Nat) <=> x < y
      BY DEF OpToRel
    <3>2. e \in Nat /\ d \in Nat
      BY <2>1
    <3>3. ~(e < d)
      BY <2>2, <3>1, <3>2
    <3> QED
      BY <3>2, <3>3
  <2>4. PICK m \in short : d = Width - m
    BY <2>2 DEF gap
  <2>5. \A n \in short : n <= m
    <3> HIDE DEF short
    <3>1. \A n \in short : Width - m <= Width - n
      BY <2>3, <2>4 DEF gap
    <3> QED
      BY <1>1, <3>1
  <2> HIDE DEF short
  <2>6. Greatest(short) \in short
    BY <2>4, <2>5 DEF Greatest
  <2> QED
    BY <1>1, <2>6
<1> HIDE DEF short
<1> QED
  BY <1>2, <1>3

\* An operation that begins or goes on keeps a number, and the others keep theirs.
LEMMA NumbersHeld ==
    ASSUME Shape, CountsShape, NEW u \in Clerks, NEW a,
           act' = [act EXCEPT ![u] = a], a.num \in Nat
    PROVE  \A v \in Clerks : act'[v].num \in Nat
<1>1. act'[u] = a /\ \A v \in Clerks \ {u} : act'[v] = act[v]
  BY Changes
<1> QED
  BY <1>1 DEF CountsShape

\* An operation begins: a move is spent, and its number is not known yet.
LEMMA BeginsCounted ==
    ASSUME Shape, CountsShape, NEW u \in Clerks, NEW a, Start(u, a), a.num = 0
    PROVE  moves' \in 0 .. MaxMoves /\ \A v \in Clerks : act'[v].num \in Nat
<1>1. act' = [act EXCEPT ![u] = a] /\ a.num \in Nat
  BY DEF Start
<1>2. \A v \in Clerks : act'[v].num \in Nat
  BY <1>1, NumbersHeld
<1> QED
  BY <1>2, BillingAssumption DEF CountsShape, Start

\* The two steps of a creation give the operation a number.
LEMMA NumberGiven ==
    ASSUME NEW a, IsRecord(a), NEW x, NEW n \in Nat
    PROVE  [a EXCEPT !.do = x, !.num = n].num \in Nat
BY TwoFields

\* The row that is inserted has the number of the operation.
LEMMA RowsCounted ==
    ASSUME CountsShape, NEW u \in Clerks, NEW b \in Bills, NEW first, InsertRow(u, b, first)
    PROVE  /\ number' \in [Bills -> Nat] /\ creator' \in [Bills -> Clerks \cup {NoClerk}]
           /\ clashed' \subseteq Series
<1>1. SeriesOf(b) \in Series
  BY SeriesBills
<1> QED
  BY <1>1 DEF CountsShape, InsertRow, rowVars

\* Every step keeps the rest of the types.
LEMMA CountsNext ==
    ASSUME Shape, CountsShape, [BillingNext]_billingVars
    PROVE  CountsShape'
<1> USE DEF billingVars, rowVars, requestVars, seriesVars, mailVars
<1>1. ASSUME NEW u \in Clerks, NEW a, Start(u, a), a.num = 0,
             UNCHANGED <<number, creator, faults, clashed, mail>>,
             raced' \subseteq Bills, hurried' \subseteq Bills, stranded' \subseteq Bills,
             overlapped' \subseteq Series
      PROVE  CountsShape'
  BY <1>1, BeginsCounted DEF CountsShape, Alive
<1>2. ASSUME NEW u \in Clerks, NEW a, act' = [act EXCEPT ![u] = a], a.num \in Nat,
             UNCHANGED <<moves, faults, overlapped, hurried, stranded, raced>>,
             number' \in [Bills -> Nat], creator' \in [Bills -> Clerks \cup {NoClerk}],
             clashed' \subseteq Series, \A j \in Jobs : mail'[j].direct => Alive(j)'
      PROVE  CountsShape'
  BY <1>2, NumbersHeld DEF CountsShape
<1>3. Resting.num = 0
  BY DEF Resting
<1>4. ASSUME NEW u \in Clerks, NEW b \in Bills PROVE Meets(u, b) => raced' \subseteq Bills
  BY DEF Meets, CountsShape
<1>5. ASSUME NEW u \in Clerks, NEW s \in Series PROVE Overlaps(u, s) => overlapped' \subseteq Series
  BY DEF Overlaps, CountsShape
<1>6. ASSUME NEW u \in Clerks, NEW b \in Bills, NEW first \in BillStatuses, CreateRead(u, b, first)
      PROVE  CountsShape'
  <2>1. DEFINE a == [Resting EXCEPT !.do = "number", !.on = b, !.first = first]
  <2>2. a.num = 0
    BY Beginnings
  <2> HIDE DEF a
  <2>3. Start(u, a) /\ overlapped' \subseteq Series
    BY <1>5, <1>6, SeriesBills DEF CreateRead, a
  <2> QED
    BY <1>1, <1>6, <2>2, <2>3 DEF CreateRead, CountsShape
<1>7. ASSUME NEW u \in Clerks, NEW schools \in SUBSET Invoices, BulkRead(u, schools)
      PROVE  CountsShape'
  <2>1. DEFINE a == [Resting EXCEPT !.do = "number", !.rest = schools, !.first = "GENERATED"]
  <2>2. a.num = 0
    BY Beginnings
  <2> HIDE DEF a
  <2>3. Start(u, a) /\ overlapped' \subseteq Series
    BY <1>5, <1>7 DEF BulkRead, a, Series
  <2> QED
    BY <1>1, <1>7, <2>2, <2>3 DEF BulkRead, CountsShape
<1>8. ASSUME NEW u \in Clerks, ReadNumber(u) PROVE CountsShape'
  <2>1. SeriesOf(act[u].on) \in Series
    BY DEF SeriesOf, Series
  <2>2. NextNumber(SeriesOf(act[u].on)) \in Nat
    BY <2>1, NextIsNumber DEF CountsShape
  <2>3. PICK d, n : n \in Nat /\ act' = [act EXCEPT ![u] = [act[u] EXCEPT !.do = d, !.num = n]]
    BY <1>8, <2>2 DEF ReadNumber, Turn
  <2>4. [act[u] EXCEPT !.do = d, !.num = n].num \in Nat
    BY <2>3, NumberGiven DEF Shape, Operation
  <2> QED
    BY <1>2, <1>8, <2>3, <2>4 DEF ReadNumber, Turn, CountsShape, Alive
<1>9. ASSUME NEW u \in Clerks, Create(u) PROVE CountsShape'
  <2>1. act[u].on \in Bills
    BY <1>9 DEF Create, Shape, WorksOnBill
  <2>2. /\ number' \in [Bills -> Nat] /\ creator' \in [Bills -> Clerks \cup {NoClerk}]
        /\ clashed' \subseteq Series
    BY <1>9, <2>1, RowsCounted DEF Create
  <2> QED
    BY <1>2, <1>3, <1>9, <2>2 DEF Create, Stop, Turn, CountsShape, Alive
<1>10. ASSUME NEW u \in Clerks, NEW b \in Invoices, BulkCreate(u, b) PROVE CountsShape'
  <2>1. /\ number' \in [Bills -> Nat] /\ creator' \in [Bills -> Clerks \cup {NoClerk}]
        /\ clashed' \subseteq Series
    BY <1>10, RowsCounted DEF BulkCreate, Bills
  <2>2. CASE act[u].rest = {b}
    BY <1>2, <1>3, <1>10, <2>1, <2>2 DEF BulkCreate, Stop, Turn, CountsShape, Alive
  <2>3. CASE act[u].rest # {b}
    <3>1. DEFINE x == act[u].rest \ {b}
                 n == act[u].num + 1
                 a == [act[u] EXCEPT !.rest = x, !.num = n]
    <3>2. act' = [act EXCEPT ![u] = a]
      BY <1>10, <2>3 DEF BulkCreate, Turn
    <3>3. n \in Nat
      BY DEF CountsShape
    <3> HIDE DEF x, n
    <3>4. IsRecord(act[u])
      BY DEF Shape, Operation
    <3>5. a = [do |-> act[u].do, on |-> act[u].on, seen |-> act[u].seen, num |-> n,
               first |-> act[u].first, rest |-> x]
      BY <3>4, TwoFields, Zenon
    <3> HIDE DEF a
    <3>6. a.num \in Nat
      BY <3>3, <3>5
    <3> QED
      BY <1>2, <1>10, <2>1, <2>3, <3>2, <3>6 DEF BulkCreate, Turn, CountsShape, Alive
  <2> QED
    BY <2>2, <2>3
<1>11. ASSUME NEW u \in Clerks, NEW b \in ManualBills,
              NEW step \in {"submit", "update", "approve", "reject"}, ReadBill(u, b, step)
       PROVE  CountsShape'
  <2>1. DEFINE x == amount[b]
               a == [Resting EXCEPT !.do = step, !.on = b, !.seen = x]
  <2>2. Start(u, a)
    BY <1>11 DEF ReadBill
  <2> HIDE DEF x
  <2>3. a.num = 0
    BY Beginnings
  <2> HIDE DEF a
  <2>4. raced' \subseteq Bills
    BY <1>4, <1>11 DEF ReadBill, Bills
  <2> QED
    BY <1>1, <1>11, <2>2, <2>3, <2>4 DEF ReadBill, CountsShape
<1>12. ASSUME NEW u \in Clerks, SubmitBill(u) \/ UpdateBill(u) \/ ApproveBill(u) \/ RejectBill(u)
       PROVE  CountsShape'
  <2>1. /\ act' = [act EXCEPT ![u] = Resting]
        /\ UNCHANGED <<number, creator, moves, faults, seriesVars, mailVars, raced>>
    BY <1>12 DEF SubmitBill, UpdateBill, ApproveBill, RejectBill, Decide, Stop, Turn
  <2> QED
    BY <1>2, <1>3, <2>1 DEF CountsShape, Alive
<1>13. ASSUME NEW u \in Clerks, NEW b \in Bills, SendRead(u, b) \/ RetryEmail(u, b)
       PROVE  CountsShape'
  <2>1. PICK d : Start(u, [Resting EXCEPT !.do = d, !.on = b])
    BY <1>13 DEF SendRead, RetryEmail
  <2>2. DEFINE a == [Resting EXCEPT !.do = d, !.on = b]
  <2>3. a.num = 0
    BY Beginnings
  <2> HIDE DEF a
  <2>4. /\ raced' \subseteq Bills /\ hurried' \subseteq Bills /\ stranded' \subseteq Bills
        /\ UNCHANGED <<number, creator, faults, seriesVars, mail>>
    BY <1>4, <1>13 DEF SendRead, RetryEmail, CountsShape
  <2>5. Start(u, a)
    BY <2>1 DEF a
  <2> QED
    BY <1>1, <2>3, <2>4, <2>5 DEF CountsShape
<1>14. ASSUME NEW u \in Clerks, NEW d, act' = [act EXCEPT ![u] = [act[u] EXCEPT !.do = d]],
              UNCHANGED <<number, creator, moves, faults, seriesVars, mail, hurried, stranded, raced>>
       PROVE  CountsShape'
  <2>1. DEFINE a == [act[u] EXCEPT !.do = d]
  <2>2. a.num = act[u].num
    BY NextStep DEF Shape, Operation
  <2>3. act' = [act EXCEPT ![u] = a] /\ act[u].num \in Nat
    BY <1>14 DEF CountsShape
  <2> HIDE DEF a
  <2> QED
    BY <1>2, <1>14, <2>2, <2>3 DEF CountsShape, Alive
<1>15. ASSUME NEW u \in Clerks, Resend(u) PROVE CountsShape'
  <2>1. CASE act' = [act EXCEPT ![u] = Resting]
    BY <1>2, <1>3, <1>15, <2>1 DEF Resend, Stop, Turn, CountsShape, Alive
  <2>2. CASE act' = [act EXCEPT ![u] = [act[u] EXCEPT !.do = "send"]]
    BY <1>14, <1>15, <2>2 DEF Resend, Stop, Turn
  <2> QED
    BY <1>15, <2>1, <2>2 DEF Resend, Stop, Turn
<1>16. ASSUME NEW u \in Clerks, MarkQueued(u) PROVE CountsShape'
  BY <1>14, <1>16 DEF MarkQueued, Turn
<1>17. ASSUME NEW u \in Clerks, Enqueue(u) PROVE CountsShape'
  <2>1. \A j \in Jobs : mail'[j].direct => Alive(j)'
    BY <1>17 DEF Enqueue, CountsShape, Shape, RowsShape, Alive
  <2> QED
    BY <1>2, <1>3, <1>17, <2>1 DEF Enqueue, Stop, Turn, CountsShape
<1>18. ASSUME NEW j \in Jobs, WorkerNext(j) PROVE CountsShape'
  <2>1. Alive(j) => mail[j].of \in Bills
    BY DEF Shape, RowsShape
  <2>2. faults < MaxFaults => faults + 1 \in 0 .. MaxFaults
    BY BillingAssumption DEF CountsShape
  <2>3. \A k \in Jobs : mail'[k].direct => Alive(k)'
    BY <1>18 DEF WorkerNext, WorkerStarts, WorkerMails, WorkerDelivers, WorkerFails, CountsShape,
                 Shape, RowsShape, Alive, NoJob
  <2>4. /\ faults' \in 0 .. MaxFaults /\ stranded' \subseteq Bills
        /\ UNCHANGED <<number, creator, act, moves, raced, overlapped, clashed, hurried>>
    BY <1>18, <2>1, <2>2
    DEF WorkerNext, WorkerStarts, WorkerMails, WorkerDelivers, WorkerFails, CountsShape, Alive
  <2> QED
    BY <2>3, <2>4 DEF CountsShape
<1>19. CASE Crash
  <2>1. faults' \in 0 .. MaxFaults
    BY <1>19, BillingAssumption DEF Crash, CountsShape
  <2>2. \A k \in Jobs : mail'[k].direct => Alive(k)'
    BY <1>19 DEF Crash, Shape, RowsShape, Alive, NoJob, CountsShape
  <2>3. stranded' \subseteq Bills
    <3>1. \A u \in Clerks : act[u].do = "enqueue" => act[u].on \in Bills
      BY DEF Shape, WorksOnBill, OnOneBill
    <3>2. \A j \in Jobs : mail[j].direct => mail[j].of \in Bills
      BY DEF Shape, RowsShape, CountsShape
    <3> QED
      BY <1>19, <3>1, <3>2 DEF Crash, CountsShape
  <2>4. \A u \in Clerks : act'[u].num \in Nat
    BY <1>3, <1>19 DEF Crash
  <2> QED
    BY <1>19, <2>1, <2>2, <2>3, <2>4 DEF Crash, CountsShape
<1>20. CASE UNCHANGED billingVars
  BY <1>20 DEF CountsShape, Alive
<1> QED
  BY <1>6, <1>7, <1>8, <1>9, <1>10, <1>11, <1>12, <1>13, <1>15, <1>16, <1>17, <1>18, <1>19, <1>20
  DEF BillingNext, ClerkNext

\* The bills, the requests, the mail jobs and the operations have their types.
THEOREM BillingTypeCorrect == BillingSpec => []BillingTypeOK
<1>1. BillingInit => CountsShape
  BY BillingAssumption DEF BillingInit, CountsShape, NoJob, Resting, Alive
<1>2. Shape /\ CountsShape /\ [BillingNext]_billingVars => CountsShape'
  BY CountsNext
<1>3. Shape /\ CountsShape => BillingTypeOK
  <2> SUFFICES ASSUME Shape, CountsShape PROVE BillingTypeOK
    OBVIOUS
  <2>1. ASSUME NEW u \in Clerks PROVE act[u] \in Acts
    <3>1. Operation(act[u]) /\ act[u].num \in Nat
      BY DEF Shape, CountsShape
    <3> QED
      BY <3>1 DEF Operation, IsRecord, Acts
  <2>2. act \in [Clerks -> Acts]
    BY <2>1 DEF Shape
  <2> QED
    BY <2>2 DEF Shape, RowsShape, CountsShape, BillingTypeOK
<1> QED
  BY <1>1, <1>2, <1>3, ShapeInvariant, PTL DEF BillingSpec

-----------------------------------------------------------------------------
(* Tax *)

\* A half rounded up is the least number that is not less.
LEMMA RoundedHalf ==
    ASSUME NEW n \in Nat, NEW d \in Nat \ {0}
    PROVE  LET q == Rounded(n, d) IN
           q \in Nat /\ 2 * d * q <= 2 * n + d /\ 2 * n + d < 2 * d * q + 2 * d
BY DEF Rounded

\* Rounding twice an amount, or doubling the rounded amount, differs by one.
LEMMA TwoHalves ==
    ASSUME NEW p \in Nat, NEW d \in Nat \ {0}
    PROVE  LET q == Rounded(p, d)
               r == Rounded(2 * p, d)
           IN  r - 2 * q \in {-1, 0, 1}
<1> DEFINE q == Rounded(p, d)
           r == Rounded(2 * p, d)
<1>1. q \in Nat /\ 2 * d * q <= 2 * p + d /\ 2 * p + d < 2 * d * q + 2 * d
  BY RoundedHalf
<1>2. r \in Nat /\ 2 * d * r <= 2 * (2 * p) + d /\ 2 * (2 * p) + d < 2 * d * r + 2 * d
  <2>1. 2 * p \in Nat
    OBVIOUS
  <2> QED
    BY <2>1, RoundedHalf
<1> HIDE DEF q, r
<1>3. PICK x \in Nat, y \in Nat : x = d * q /\ y = d * r
  BY <1>1, <1>2
<1>4. y - 2 * x <= d /\ 2 * x - y <= d
  BY <1>1, <1>2, <1>3
<1>5. PICK e \in Int : e = r - 2 * q
  BY <1>1, <1>2
<1>6. d * e = y - 2 * x
  BY <1>1, <1>2, <1>3, <1>5
<1>7. d * e <= d /\ -d <= d * e
  BY <1>3, <1>4, <1>6
<1>8. e <= 1 /\ -1 <= e
  BY <1>7
<1> QED
  BY <1>5, <1>8 DEF q, r

\* A rate that is a whole number of percent, or any that halves without a rest,
\* gives the same tax inside the state and across states, up to one paisa
\* (calculateTaxForInstitution), whatever the amount and the cess.
THEOREM TaxAgrees ==
    ASSUME NEW taxable \in Nat, NEW half \in Nat \ {0}, NEW cess \in Nat
    PROVE  TaxOf(taxable, 2 * half, cess, TRUE) - TaxOf(taxable, 2 * half, cess, FALSE)
              \in {-1, 0, 1}
<1> DEFINE p == taxable * half
           c == Share(taxable, cess)
<1>1. p \in Nat /\ taxable * (2 * half) = 2 * p
  OBVIOUS
<1>2. Rounded(2 * half, 2) = half /\ 2 * half # 0
  BY DEF Rounded
<1>3. PICK d \in Nat \ {0} : d = 10000
  OBVIOUS
<1>4. Rounded(p, d) \in Nat /\ Rounded(2 * p, d) \in Nat
  <2>1. ASSUME NEW n \in Nat PROVE Rounded(n, d) \in Nat
    BY RoundedHalf
  <2>2. 2 * p \in Nat
    BY <1>1
  <2> HIDE DEF p
  <2> QED
    BY <1>1, <2>1, <2>2
<1>5. c \in Nat
  <2>1. taxable * cess \in Nat
    OBVIOUS
  <2> QED
    BY <1>3, <2>1, RoundedHalf DEF Share
<1>6. TaxOf(taxable, 2 * half, cess, TRUE) = Rounded(2 * p, d) + c
  BY <1>1, <1>2, <1>3, <1>4, <1>5, SMT DEF TaxOf, Share
<1>7. TaxOf(taxable, 2 * half, cess, FALSE) = 2 * Rounded(p, d) + c
  BY <1>1, <1>2, <1>3, <1>4, <1>5, SMT DEF TaxOf, Share
<1>8. Rounded(2 * p, d) - 2 * Rounded(p, d) \in {-1, 0, 1}
  <2> HIDE DEF p
  <2> QED
    BY <1>1, TwoHalves
<1>9. PICK x \in Nat, y \in Nat, z \in Nat :
         /\ x = Rounded(2 * p, d) /\ y = Rounded(p, d) /\ z = c
  BY <1>4, <1>5
<1>10. /\ TaxOf(taxable, 2 * half, cess, TRUE) = x + z
       /\ TaxOf(taxable, 2 * half, cess, FALSE) = 2 * y + z
       /\ x - 2 * y \in {-1, 0, 1}
  BY <1>6, <1>7, <1>8, <1>9
<1>11. (x + z) - (2 * y + z) = x - 2 * y
  OBVIOUS
<1> QED
  BY <1>10, <1>11
=============================================================================
