------------------------------- MODULE Billing -------------------------------
(***************************************************************************)
(* Invoices and bills: how they get their numbers, how a bill made by hand *)
(* is submitted and decided, and how a bill is mailed by the bill-email    *)
(* worker.                                                                 *)
(*                                                                         *)
(* Every operation reads the bill first and writes it later without a      *)
(* condition; what it read is kept in act while others come in between.    *)
(* All invoices are of one billing period, so a school has at most one;    *)
(* bills made by hand are numbered in a series of their own.               *)
(***************************************************************************)
EXTENDS Integers, FiniteSets

CONSTANTS
    Clerks,     \* accountants and super admins, one operation at a time each
    Invoices,   \* the invoices of the period, one per school
    ManualBills,\* the bills made by hand
    Jobs,       \* bound on the mail jobs alive at the same time
    Issued,     \* how many other invoices the period has already
    Width,      \* the greatest number with four digits, 9999 in the program
    MaxMoves,   \* bound on the operations the clerks begin
    MaxFaults,  \* bound on crashes and database errors
    NoClerk, NoBill

ASSUME BillingAssumption ==
    /\ Issued \in Nat
    /\ Width \in Nat \ {0}
    /\ MaxMoves \in Nat
    /\ MaxFaults \in Nat
    /\ NoClerk \notin Clerks
    /\ NoBill \notin Invoices \cup ManualBills
    /\ Invoices \cap ManualBills = {}

VARIABLES
    bill,       \* Bill.status, "NONE" for a row not inserted yet
    number,     \* the last part of Bill.billNumber
    amount,     \* Bill.amount: 1 as created, 2 as edited
    creator,    \* Bill.createdById
    email,      \* Bill.emailStatus
    undecided,    \* how many ApprovalRequests of the bill are PENDING
    verdicts,   \* the statuses of its decided ApprovalRequests
    mail,       \* the jobs of the bill-email queue and the direct dispatches
    act,        \* the operation each clerk is in
    moves,      \* operations the clerks may still begin
    faults,     \* faults so far
    reviewed,   \* history: the amount the last review had read
    raced,      \* history: bills on which two operations overlapped
    overlapped, \* history: series in which two creations overlapped
    clashed,    \* history: series in which a creation met a taken number
    hurried,    \* history: bills whose mailing was repeated while it ran
    stranded    \* history: bills whose mailing was lost by a fault

rowVars == <<bill, number, amount, creator>>
requestVars == <<undecided, verdicts, reviewed>>
seriesVars == <<overlapped, clashed>>
mailVars == <<email, mail, hurried, stranded>>
billingVars == <<rowVars, requestVars, seriesVars, mailVars, act, moves, faults, raced>>

Bills == Invoices \cup ManualBills
Series == {"INV", "BILL"}
SeriesOf(b) == IF b \in ManualBills THEN "BILL" ELSE "INV"
BillsOf(s) == IF s = "INV" THEN Invoices ELSE ManualBills

BillStatuses == {"NONE", "DRAFT", "PENDING_APPROVAL", "APPROVED", "REJECTED",
                 "GENERATED", "SENT"}
EmailStatuses == {"IDLE", "QUEUED", "PROCESSING", "SENT", "FAILED"}
InFlight == {"QUEUED", "PROCESSING"}
Decisions == {"APPROVED", "REJECTED"}

Exists(b) == bill[b] # "NONE"
Before(s) == IF s = "INV" THEN Issued ELSE 0
NumbersOf(s) == (1..Before(s)) \cup {number[b] : b \in {c \in BillsOf(s) : Exists(c)}}
Greatest(S) == CHOOSE n \in S : \A m \in S : m <= n

(* An operation in progress: its next step, the bill, the amount it has read, *)
(* the number it will give and the schools it has still to bill               *)
BillingSteps == {"idle", "number", "insert", "bulk", "submit", "update", "approve",
          "reject", "send", "resend", "enqueue"}
Acts == [do : BillingSteps, on : Bills \cup {NoBill}, seen : 0..2, num : Nat,
         first : BillStatuses, rest : SUBSET Invoices]
Resting == [do |-> "idle", on |-> NoBill, seen |-> 0, num |-> 0, first |-> "NONE", rest |-> {}]

JobsAt == {"none", "waiting", "mailing", "mailed"}
NoJob == [at |-> "none", of |-> NoBill, direct |-> FALSE]
Alive(j) == mail[j].at # "none"
JobsFor(b) == {j \in Jobs : Alive(j) /\ mail[j].of = b}

Start(u, o) ==
    /\ act[u] = Resting /\ moves > 0
    /\ act' = [act EXCEPT ![u] = o]
    /\ moves' = moves - 1
Turn(u, o) == act' = [act EXCEPT ![u] = o] /\ UNCHANGED moves
Stop(u) == Turn(u, Resting)

\* An operation on a bill starts: history records whether it meets another
Meets(u, b) ==
    raced' = raced \cup (IF \E v \in Clerks \ {u} : act[v].on = b THEN {b} ELSE {})

-----------------------------------------------------------------------------
(* The tax of an invoice, in paise, with rates in hundredths of a percent *)

\* Math.round(n / d) for positive numbers
Rounded(n, d) == (2 * n + d) \div (2 * d)
Share(taxable, rate) == Rounded(taxable * rate, 10000)

\* totalTax: two halves inside the state, one part across states, and the cess
TaxOf(taxable, rate, cess, interState) ==
    LET half == Rounded(rate, 2)
        igst == IF interState THEN Share(taxable, rate) ELSE 0
        cgst == IF interState THEN 0 ELSE Share(taxable, half)
        sgst == cgst
    IN  IF rate = 0 THEN 0 ELSE cgst + sgst + igst + Share(taxable, cess)

-----------------------------------------------------------------------------
(* Bills get numbers and rows *)

\* A creation in a series starts: history records whether it meets another
Overlaps(u, s) ==
    overlapped' = overlapped \cup
        (IF \E v \in Clerks \ {u} :
               act[v].do \in {"number", "insert", "bulk"} /\ SeriesOf(act[v].on) = s
         THEN {s} ELSE {})

\* One invoice, after the check that the period has none of this school; or a
\* bill by hand, a row of its own, as a draft or submitted at once
CreateRead(u, b, first) ==
    /\ ~Exists(b)
    /\ b \in ManualBills => \A v \in Clerks : act[v].on # b
    /\ first \in (IF b \in Invoices THEN {"GENERATED"} ELSE {"DRAFT", "PENDING_APPROVAL"})
    /\ Start(u, [Resting EXCEPT !.do = "number", !.on = b, !.first = first])
    /\ Overlaps(u, SeriesOf(b))
    /\ UNCHANGED <<rowVars, requestVars, clashed, mailVars, faults, raced>>

\* All the schools that have students and, as read now, no invoice
BulkRead(u, schools) ==
    /\ schools # {}
    /\ \A b \in schools : ~Exists(b)
    /\ Start(u, [Resting EXCEPT !.do = "number", !.rest = schools, !.first = "GENERATED"])
    /\ Overlaps(u, "INV")
    /\ UNCHANGED <<rowVars, requestVars, clashed, mailVars, faults, raced>>

\* Mutant: the last number itself
NextNumber_Last(s) ==
    LET short == {n \in NumbersOf(s) : n <= Width}
    IN  IF short = {} THEN 1 ELSE Greatest(short)

\* One more than the last number in the order of strings, in which every
\* longer number comes before the last one with four digits
NextNumber(s) ==
    LET short == {n \in NumbersOf(s) : n <= Width}
    IN  IF short = {} THEN 1 ELSE Greatest(short) + 1

ReadNumber(u) ==
    /\ act[u].do = "number"
    /\ Turn(u, [act[u] EXCEPT !.do = IF act[u].rest = {} THEN "insert" ELSE "bulk",
                              !.num = NextNumber(SeriesOf(act[u].on))])
    /\ UNCHANGED <<rowVars, requestVars, seriesVars, mailVars, faults, raced>>

\* The row is inserted unless its number or its school and period are taken
InsertRow(u, b, first) ==
    LET n == act[u].num
        taken == n \in NumbersOf(SeriesOf(b)) IN
    /\ clashed' = clashed \cup (IF taken THEN {SeriesOf(b)} ELSE {})
    /\ IF taken \/ Exists(b)
       THEN UNCHANGED <<rowVars, requestVars>>
       ELSE /\ bill' = [bill EXCEPT ![b] = first]
            /\ number' = [number EXCEPT ![b] = n]
            /\ amount' = [amount EXCEPT ![b] = 1]
            /\ creator' = [creator EXCEPT ![b] = u]
            /\ undecided' = [undecided EXCEPT ![b] = IF first = "PENDING_APPROVAL" THEN 1 ELSE 0]
            /\ UNCHANGED <<verdicts, reviewed>>

Create(u) ==
    /\ act[u].do = "insert"
    /\ InsertRow(u, act[u].on, act[u].first)
    /\ Stop(u)
    /\ UNCHANGED <<overlapped, mailVars, faults, raced>>

\* One school of the bulk generation: an error is noted, and the number is
\* used up even then
BulkCreate(u, b) ==
    /\ act[u].do = "bulk"
    /\ b \in act[u].rest
    /\ InsertRow(u, b, "GENERATED")
    /\ IF act[u].rest = {b} THEN Stop(u)
       ELSE Turn(u, [act[u] EXCEPT !.rest = @ \ {b}, !.num = @ + 1])
    /\ UNCHANGED <<overlapped, mailVars, faults, raced>>

-----------------------------------------------------------------------------
(* A bill made by hand is edited, submitted and decided *)

\* The checks each operation makes before its transaction; nobody approves a
\* bill of his own, but its creator may reject it
MayStart(u, b, step) ==
    CASE step = "submit" -> bill[b] = "DRAFT"
      [] step = "update" -> bill[b] = "DRAFT"
      [] step = "approve" -> bill[b] = "PENDING_APPROVAL" /\ creator[b] # u
      [] OTHER -> bill[b] = "PENDING_APPROVAL"

ReadBill(u, b, step) ==
    /\ MayStart(u, b, step)
    /\ Start(u, [Resting EXCEPT !.do = step, !.on = b, !.seen = amount[b]])
    /\ Meets(u, b)
    /\ UNCHANGED <<rowVars, requestVars, seriesVars, mailVars, faults>>

SubmitBill(u) ==
    LET b == act[u].on IN
    /\ act[u].do = "submit"
    /\ bill' = [bill EXCEPT ![b] = "PENDING_APPROVAL"]
    /\ undecided' = [undecided EXCEPT ![b] = @ + 1]
    /\ Stop(u)
    /\ UNCHANGED <<number, amount, creator, verdicts, reviewed, seriesVars, mailVars, faults, raced>>

UpdateBill(u) ==
    LET b == act[u].on IN
    /\ act[u].do = "update"
    /\ amount' = [amount EXCEPT ![b] = 2]
    /\ Stop(u)
    /\ UNCHANGED <<bill, number, creator, requestVars, seriesVars, mailVars, faults, raced>>

\* Mutant: a rejection leaves the requests in the queue
Decide_LeavesRequests(u, verdict) ==
    LET b == act[u].on IN
    /\ bill' = [bill EXCEPT ![b] = verdict]
    /\ verdicts' = [verdicts EXCEPT ![b] = @ \cup {verdict}]
    /\ undecided' = [undecided EXCEPT ![b] = IF verdict = "REJECTED" THEN @ ELSE 0]
    /\ reviewed' = [reviewed EXCEPT ![b] = act[u].seen]
    /\ Stop(u)
    /\ UNCHANGED <<number, amount, creator, seriesVars, mailVars, faults, raced>>

\* The transaction of a review: the bill gets the verdict, and so does every
\* request that is PENDING then
Decide(u, verdict) ==
    LET b == act[u].on IN
    /\ bill' = [bill EXCEPT ![b] = verdict]
    /\ verdicts' = [verdicts EXCEPT ![b] = @ \cup (IF undecided[b] > 0 THEN {verdict} ELSE {})]
    /\ undecided' = [undecided EXCEPT ![b] = 0]
    /\ reviewed' = [reviewed EXCEPT ![b] = act[u].seen]
    /\ Stop(u)
    /\ UNCHANGED <<number, amount, creator, seriesVars, mailVars, faults, raced>>

ApproveBill(u) == act[u].do = "approve" /\ Decide(u, "APPROVED")
RejectBill(u) == act[u].do = "reject" /\ Decide(u, "REJECTED")

-----------------------------------------------------------------------------
(* A bill is mailed *)

\* Mutant: a queued mail may be queued again
MaySend_Queued(b) == email[b] # "PROCESSING"

\* The protection against duplicate clicks; the status of the bill is not asked
MaySend(b) == email[b] \notin InFlight

SendRead(u, b) ==
    /\ Exists(b) /\ MaySend(b)
    /\ Start(u, [Resting EXCEPT !.do = "send", !.on = b])
    /\ Meets(u, b)
    /\ UNCHANGED <<rowVars, requestVars, seriesVars, mailVars, faults>>

\* The retry resets the e-mail status, whatever it is, and then sends
RetryEmail(u, b) ==
    /\ Exists(b)
    /\ email' = [email EXCEPT ![b] = "IDLE"]
    /\ hurried' = hurried \cup (IF JobsFor(b) # {} THEN {b} ELSE {})
    /\ stranded' = stranded \ {b}
    /\ Start(u, [Resting EXCEPT !.do = "resend", !.on = b])
    /\ Meets(u, b)
    /\ UNCHANGED <<rowVars, requestVars, seriesVars, mail, faults>>

Resend(u) ==
    /\ act[u].do = "resend"
    /\ IF MaySend(act[u].on) THEN Turn(u, [act[u] EXCEPT !.do = "send"]) ELSE Stop(u)
    /\ UNCHANGED <<rowVars, requestVars, seriesVars, mailVars, faults, raced>>

MarkQueued(u) ==
    /\ act[u].do = "send"
    /\ email' = [email EXCEPT ![act[u].on] = "QUEUED"]
    /\ Turn(u, [act[u] EXCEPT !.do = "enqueue"])
    /\ UNCHANGED <<rowVars, requestVars, seriesVars, mail, hurried, stranded, faults, raced>>

\* The job is queued, or handed to the worker directly when the queue refuses
Enqueue(u) ==
    /\ act[u].do = "enqueue"
    /\ \E j \in Jobs, d \in BOOLEAN :
         /\ ~Alive(j)
         /\ mail' = [mail EXCEPT ![j] = [at |-> "waiting", of |-> act[u].on, direct |-> d]]
    /\ Stop(u)
    /\ UNCHANGED <<rowVars, requestVars, seriesVars, email, hurried, stranded, faults, raced>>

WorkerStarts(j) ==
    /\ mail[j].at = "waiting"
    /\ email' = [email EXCEPT ![mail[j].of] = "PROCESSING"]
    /\ mail' = [mail EXCEPT ![j].at = "mailing"]
    /\ UNCHANGED <<rowVars, requestVars, seriesVars, hurried, stranded, act, moves, faults, raced>>

\* The invoice is rendered and handed to the e-mail service
WorkerMails(j) ==
    /\ mail[j].at = "mailing"
    /\ mail' = [mail EXCEPT ![j].at = "mailed"]
    /\ UNCHANGED <<rowVars, requestVars, seriesVars, email, hurried, stranded, act, moves, faults, raced>>

\* The bill becomes SENT, whatever became of it meanwhile; when only the audit
\* log fails, the e-mail counts as FAILED all the same
WorkerDelivers(j) ==
    LET b == mail[j].of IN
    /\ mail[j].at = "mailed"
    /\ bill' = [bill EXCEPT ![b] = "SENT"]
    /\ \/ email' = [email EXCEPT ![b] = "SENT"] /\ UNCHANGED faults
       \/ /\ faults < MaxFaults
          /\ email' = [email EXCEPT ![b] = "FAILED"]
          /\ faults' = faults + 1
    /\ mail' = [mail EXCEPT ![j] = NoJob]
    /\ UNCHANGED <<number, amount, creator, requestVars, seriesVars, hurried, stranded,
                   act, moves, raced>>

\* The e-mail service refuses, or the database does after the e-mail is out;
\* there is no second attempt.  The database may refuse this status as well.
WorkerFails(j) ==
    LET b == mail[j].of IN
    /\ \/ mail[j].at = "mailing" /\ UNCHANGED <<faults, stranded>>
          /\ email' = [email EXCEPT ![b] = "FAILED"]
       \/ /\ Alive(j) /\ faults < MaxFaults
          /\ faults' = faults + 1
          /\ \/ email' = [email EXCEPT ![b] = "FAILED"] /\ UNCHANGED stranded
             \/ stranded' = stranded \cup {b} /\ UNCHANGED email
    /\ mail' = [mail EXCEPT ![j] = NoJob]
    /\ UNCHANGED <<rowVars, requestVars, seriesVars, hurried, act, moves, raced>>

\* The process dies: operations and direct dispatches are gone, a job a worker
\* held is taken up again from the start
Crash ==
    /\ faults < MaxFaults
    /\ faults' = faults + 1
    /\ act' = [u \in Clerks |-> Resting]
    /\ mail' = [j \in Jobs |-> IF mail[j].direct THEN NoJob
                               ELSE IF Alive(j) THEN [mail[j] EXCEPT !.at = "waiting"]
                               ELSE mail[j]]
    /\ stranded' = stranded \cup {act[u].on : u \in {v \in Clerks : act[v].do = "enqueue"}}
                            \cup {mail[j].of : j \in {k \in Jobs : mail[k].direct}}
    /\ UNCHANGED <<rowVars, requestVars, seriesVars, email, hurried, moves, raced>>

-----------------------------------------------------------------------------
BillingInit ==
    /\ bill = [b \in Bills |-> "NONE"]
    /\ number = [b \in Bills |-> 0]
    /\ amount = [b \in Bills |-> 0]
    /\ creator = [b \in Bills |-> NoClerk]
    /\ email = [b \in Bills |-> "IDLE"]
    /\ undecided = [b \in Bills |-> 0]
    /\ verdicts = [b \in Bills |-> {}]
    /\ reviewed = [b \in Bills |-> 0]
    /\ mail = [j \in Jobs |-> NoJob]
    /\ act = [u \in Clerks |-> Resting]
    /\ moves = MaxMoves
    /\ faults = 0
    /\ raced = {} /\ overlapped = {} /\ clashed = {} /\ hurried = {} /\ stranded = {}

ClerkNext(u) ==
    \/ \E b \in Bills, first \in BillStatuses : CreateRead(u, b, first)
    \/ \E schools \in SUBSET Invoices : BulkRead(u, schools)
    \/ ReadNumber(u) \/ Create(u)
    \/ \E b \in Invoices : BulkCreate(u, b)
    \/ \E b \in ManualBills, step \in {"submit", "update", "approve", "reject"} :
          ReadBill(u, b, step)
    \/ SubmitBill(u) \/ UpdateBill(u) \/ ApproveBill(u) \/ RejectBill(u)
    \/ \E b \in Bills : SendRead(u, b) \/ RetryEmail(u, b)
    \/ Resend(u) \/ MarkQueued(u) \/ Enqueue(u)

WorkerNext(j) == WorkerStarts(j) \/ WorkerMails(j) \/ WorkerDelivers(j) \/ WorkerFails(j)

BillingNext ==
    \/ \E u \in Clerks : ClerkNext(u)
    \/ \E j \in Jobs : WorkerNext(j)
    \/ Crash

BillingSpec == BillingInit /\ [][BillingNext]_billingVars

-----------------------------------------------------------------------------
\* Every variable has its type
BillingTypeOK ==
    /\ bill \in [Bills -> BillStatuses]
    /\ number \in [Bills -> Nat]
    /\ amount \in [Bills -> 0..2]
    /\ creator \in [Bills -> Clerks \cup {NoClerk}]
    /\ email \in [Bills -> EmailStatuses]
    /\ undecided \in [Bills -> Nat]
    /\ verdicts \in [Bills -> SUBSET Decisions]
    /\ reviewed \in [Bills -> 0..2]
    /\ mail \in [Jobs -> [at : JobsAt, of : Bills \cup {NoBill}, direct : BOOLEAN]]
    /\ act \in [Clerks -> Acts]
    /\ moves \in 0..MaxMoves
    /\ faults \in 0..MaxFaults
    /\ raced \subseteq Bills /\ hurried \subseteq Bills /\ stranded \subseteq Bills
    /\ overlapped \subseteq Series /\ clashed \subseteq Series

\* A bill waits for approval exactly while a request about it is PENDING; the
\* one way out of step is the mail worker, which makes a waiting bill SENT and
\* leaves its request in the queue
RequestMatches ==
    \A b \in Bills :
        /\ bill[b] = "PENDING_APPROVAL" => undecided[b] > 0
        /\ undecided[b] > 0 => bill[b] \in {"PENDING_APPROVAL", "SENT"}

\* As long as no two operations on a bill overlapped, a decided bill carries
\* the verdict of its only decided request and the amount the review had read
DecisionRecorded ==
    \A b \in Bills \ raced :
        bill[b] \in Decisions => verdicts[b] \subseteq {bill[b]} /\ amount[b] = reviewed[b]

\* A rejected bill stays rejected, except that the mail worker makes it SENT or
\* an operation that had read it before the rejection writes afterwards
RejectionStands ==
    \A b \in Bills : bill[b] = "REJECTED" /\ b \notin raced => bill'[b] \in {"REJECTED", "SENT"}

\* A bill, its approval requests and its verdicts agree, and stay so.
VerdictsKept == [][(RequestMatches /\ DecisionRecorded)' /\ RejectionStands]_billingVars

\* Two mail jobs of a bill are alive only after two operations on it overlapped
\* or the retry was used while a job was under way: the check of the e-mail
\* status protects from the rest
OneMailing ==
    \A b \in Bills \ (raced \cup hurried) : Cardinality(JobsFor(b)) <= 1

\* A bill that counts as being mailed has a job, or a request about to add it,
\* or lost it in a crash or a database error
MailingAlive ==
    \A b \in Bills : email[b] \in InFlight =>
        \/ JobsFor(b) # {}
        \/ \E u \in Clerks : act[u].do = "enqueue" /\ act[u].on = b
        \/ b \in stranded

\* A bill that is being mailed has one mail job.
OneMailJob == OneMailing /\ MailingAlive

\* As long as no two creations in a series overlapped, its numbers are 1..n
\* and none is met twice, except when they outgrow their four digits
Sequential ==
    \A s \in Series \ overlapped :
        /\ NumbersOf(s) = 1..(Before(s) + Cardinality({b \in BillsOf(s) : Exists(b)}))
        /\ s \in clashed => Width + 1 \in NumbersOf(s)
=============================================================================
