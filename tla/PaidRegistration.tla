-------------------------- MODULE PaidRegistration --------------------------
(***************************************************************************)
(* A student registers with a fee: the registration waits in Redis while   *)
(* the code is verified, an order is created at the payment gateway and    *)
(* paid there, and is finalised by the client's verification of the        *)
(* payment, by the gateway's webhook, or by both at once.                  *)
(*                                                                         *)
(* Every handler reads the registration, then works with the copy it has   *)
(* read, and writes the whole copy back.  A handler is one action for each *)
(* access to Redis, to the database or to the gateway.                     *)
(***************************************************************************)
EXTENDS Naturals, FiniteSets

CONSTANTS
    Registrations,  \* the ids of registrations, used once each
    Orders,         \* the orders of the gateway
    Mobiles,        \* mobile numbers
    Handlers,       \* requests the server handles at the same time
    MaxCrashes,     \* bound on the crashes
    NoOrder, NoRegistration, NoAccount

ASSUME RegistrationAssumption ==
    NoOrder \notin Orders /\ NoRegistration \notin Registrations /\ NoAccount \notin Orders
ASSUME CrashesAssumption == MaxCrashes \in Nat

VARIABLES
    mobile,     \* the mobile number a registration is for
    used,       \* registrations that have been begun
    pending,    \* status of registration:<id> in Redis, "none" without the key
    orderOf,    \* its razorpayOrderId
    madeFor,    \* the registration in the notes of a gateway order
    issued,     \* the orders a client has been told of
    paid,       \* the orders that are paid at the gateway
    tx,         \* PaymentTransaction.status of an order, "none" without a row
    student,    \* the orders whose PaymentTransaction has a student
    account,    \* the order a mobile's user was created with
    marked,     \* webhook_processed:<event>, for the event of an order
    answered,   \* orders whose event was answered with 200
    do,         \* the next step of a request
    reg,        \* the registration it has read
    order,      \* the order it is about
    hook,       \* it is a webhook
    lost,       \* history: orders whose event found no registration, failed or died
    crashes,    \* requests that have died
    disturbed,  \* history: registrations with overlapping order requests
    lent        \* history: orders verified for a registration without an order

gatewayVars == <<madeFor, issued, paid>>
databaseVars == <<tx, student, account>>
redisVars == <<pending, orderOf>>
webhookVars == <<marked, answered>>
handlerVars == <<do, reg, order, hook>>
registrationVars == <<mobile, used, redisVars, gatewayVars, databaseVars, webhookVars,
                      handlerVars, lost, crashes, disturbed, lent>>

PendingStatuses == {"none", "PENDING_OTP", "OTP_VERIFIED", "PAYMENT_PENDING"}
TxStatuses == {"none", "CREATED", "VERIFICATION_FAILED", "FAILED", "CAPTURED"}
\* The steps that end in a write of the copy to Redis
CopySteps == {"otp", "order", "upsert", "save"}
FinalizeSteps == {"check", "finalize", "cleanup"}
RegistrationSteps == {"idle", "verify", "mark", "load"} \cup CopySteps \cup FinalizeSteps

Open(g) == pending[g] # "none"
FreeOrders == {o \in Orders : madeFor[o] = NoRegistration}
HasAccount(g) == account[mobile[g]] # NoAccount

\* Requests about one registration that overlap, one of them writing its copy
\* back, disturb the registration; a client's verification and the webhook,
\* which are meant to meet, do not.
Disturbs(r, g, step) ==
    \E q \in Handlers \ {r} :
        /\ do[q] # "idle" /\ reg[q] = g
        /\ step \in CopySteps \/ do[q] \in CopySteps

Begin(r, g, o, step) ==
    /\ do[r] = "idle"
    /\ do' = [do EXCEPT ![r] = step]
    /\ reg' = [reg EXCEPT ![r] = g]
    /\ order' = [order EXCEPT ![r] = o]
    /\ hook' = [hook EXCEPT ![r] = step = "mark"]
    /\ disturbed' = IF Disturbs(r, g, step) THEN disturbed \cup {g} ELSE disturbed

Goto(r, step) == do' = [do EXCEPT ![r] = step] /\ UNCHANGED <<reg, order, hook>>

EndRequest(r) ==
    /\ do' = [do EXCEPT ![r] = "idle"]
    /\ reg' = [reg EXCEPT ![r] = NoRegistration]
    /\ order' = [order EXCEPT ![r] = NoOrder]
    /\ hook' = [hook EXCEPT ![r] = FALSE]

-----------------------------------------------------------------------------
\* registerStudent: no user has the mobile number yet
RegisterStudent(g) ==
    /\ g \notin used /\ ~HasAccount(g)
    /\ used' = used \cup {g}
    /\ pending' = [pending EXCEPT ![g] = "PENDING_OTP"]
    /\ UNCHANGED <<mobile, orderOf, gatewayVars, databaseVars, webhookVars, handlerVars, lost, crashes, disturbed, lent>>

\* verifyRegistrationOtp: the code is checked between the read and the write
VerifyOtpRead(r, g) ==
    /\ pending[g] = "PENDING_OTP"
    /\ Begin(r, g, orderOf[g], "otp")
    /\ UNCHANGED <<mobile, used, redisVars, gatewayVars, databaseVars, webhookVars, lost, crashes, lent>>

VerifyOtpWrite(r) ==
    /\ do[r] = "otp"
    /\ pending' = [pending EXCEPT ![reg[r]] = "OTP_VERIFIED"]
    /\ orderOf' = [orderOf EXCEPT ![reg[r]] = order[r]]
    /\ EndRequest(r)
    /\ UNCHANGED <<mobile, used, gatewayVars, databaseVars, webhookVars, lost, crashes, disturbed, lent>>

\* createRegistrationPaymentOrder
CreateOrderRead(r, g) ==
    /\ pending[g] \in {"OTP_VERIFIED", "PAYMENT_PENDING"}
    /\ Begin(r, g, orderOf[g], IF orderOf[g] = NoOrder THEN "order" ELSE "upsert")
    /\ UNCHANGED <<mobile, used, redisVars, gatewayVars, databaseVars, webhookVars, lost, crashes, lent>>

\* The gateway creates an order for a registration that has none, or fails
CreateOrderGateway(r) ==
    /\ do[r] = "order"
    /\ \/ \E o \in FreeOrders :
            /\ madeFor' = [madeFor EXCEPT ![o] = reg[r]]
            /\ order' = [order EXCEPT ![r] = o]
            /\ do' = [do EXCEPT ![r] = "upsert"]
            /\ UNCHANGED <<reg, hook>>
       \/ EndRequest(r) /\ UNCHANGED madeFor
    /\ UNCHANGED <<mobile, used, redisVars, issued, paid, databaseVars, webhookVars, lost, crashes, disturbed, lent>>

\* The transaction row is CREATED, whatever its status was
CreateOrderUpsert(r) ==
    /\ do[r] = "upsert"
    /\ tx' = [tx EXCEPT ![order[r]] = "CREATED"]
    /\ Goto(r, "save")
    /\ UNCHANGED <<mobile, used, redisVars, gatewayVars, student, account, webhookVars, lost, crashes, disturbed, lent>>

CreateOrderSave(r) ==
    /\ do[r] = "save"
    /\ pending' = [pending EXCEPT ![reg[r]] = "PAYMENT_PENDING"]
    /\ orderOf' = [orderOf EXCEPT ![reg[r]] = order[r]]
    /\ issued' = issued \cup {order[r]}
    /\ EndRequest(r)
    /\ UNCHANGED <<mobile, used, madeFor, paid, databaseVars, webhookVars, lost, crashes, disturbed, lent>>

\* Mutant: the order is not compared with the registration's
VerifyPaymentRead_Uncompared(r, g, o) ==
    /\ o \in issued
    /\ Open(g)
    /\ Begin(r, g, o, "verify")
    /\ lent' = IF orderOf[g] = NoOrder /\ madeFor[o] # g THEN lent \cup {o} ELSE lent
    /\ UNCHANGED <<mobile, used, redisVars, gatewayVars, databaseVars, webhookVars, lost, crashes>>

\* verifyRegistrationPayment, called with a registration and an order some client
\* was told of: without the key the handler only reports.  Another order than
\* the registration's is refused; a registration without one, its code verified
\* or not, takes any.
VerifyPaymentRead(r, g, o) ==
    /\ o \in issued
    /\ Open(g)
    /\ orderOf[g] \in {NoOrder, o}
    /\ Begin(r, g, o, "verify")
    /\ lent' = IF orderOf[g] = NoOrder /\ madeFor[o] # g THEN lent \cup {o} ELSE lent
    /\ UNCHANGED <<mobile, used, redisVars, gatewayVars, databaseVars, webhookVars, lost, crashes>>

\* The signature, which the gateway gives for a paid order only, and then the
\* status at the gateway, which may be another by now, a refund for example
VerifyPaymentCheck(r) ==
    /\ do[r] = "verify"
    /\ \/ /\ order[r] \in paid
          /\ Goto(r, "check")
          /\ UNCHANGED tx
       \/ /\ \/ tx' = [tx EXCEPT ![order[r]] = "VERIFICATION_FAILED"]
             \/ order[r] \in paid /\ tx' = [tx EXCEPT ![order[r]] = "FAILED"]
          /\ EndRequest(r)
    /\ UNCHANGED <<mobile, used, redisVars, gatewayVars, student, account, webhookVars, lost, crashes, disturbed, lent>>

\* finalizeStudentRegistration: a transaction with its student is done already
Answer(r) == answered' = IF hook[r] THEN answered \cup {order[r]} ELSE answered

FinalizeCheck(r) ==
    /\ do[r] = "check"
    /\ IF tx[order[r]] = "CAPTURED" /\ order[r] \in student
       THEN /\ EndRequest(r)
            /\ pending' = [pending EXCEPT ![reg[r]] = "none"]
            /\ orderOf' = [orderOf EXCEPT ![reg[r]] = NoOrder]
            /\ Answer(r)
       ELSE Goto(r, "finalize") /\ UNCHANGED <<redisVars, answered>>
    /\ UNCHANGED <<mobile, used, gatewayVars, databaseVars, marked, lost, crashes, disturbed, lent>>

\* The transaction of the finalisation is refused when a user has the mobile
\* number, and else creates the account and captures the payment
FinalizeCommit(r) ==
    /\ do[r] = "finalize"
    /\ ~HasAccount(reg[r])
    /\ account' = [account EXCEPT ![mobile[reg[r]]] = order[r]]
    /\ tx' = [tx EXCEPT ![order[r]] = "CAPTURED"]
    /\ student' = student \cup {order[r]}
    /\ Goto(r, "cleanup")
    /\ UNCHANGED <<mobile, used, redisVars, gatewayVars, webhookVars, lost, crashes, disturbed, lent>>

FinalizeRefused(r) ==
    /\ do[r] = "finalize"
    /\ HasAccount(reg[r])
    /\ Answer(r)
    /\ EndRequest(r)
    /\ UNCHANGED <<mobile, used, redisVars, gatewayVars, databaseVars, marked, lost, crashes, disturbed, lent>>

\* An error of the database, a student code that is already taken among them:
\* the client may try again, the webhook only logs it
FinalizeFails(r) ==
    /\ do[r] = "finalize"
    /\ Answer(r)
    /\ lost' = IF hook[r] THEN lost \cup {order[r]} ELSE lost
    /\ EndRequest(r)
    /\ UNCHANGED <<mobile, used, redisVars, gatewayVars, databaseVars, marked, crashes, disturbed, lent>>

FinalizeCleanup(r) ==
    /\ do[r] = "cleanup"
    /\ pending' = [pending EXCEPT ![reg[r]] = "none"]
    /\ orderOf' = [orderOf EXCEPT ![reg[r]] = NoOrder]
    /\ Answer(r)
    /\ EndRequest(r)
    /\ UNCHANGED <<mobile, used, gatewayVars, databaseVars, marked, lost, crashes, disturbed, lent>>

\* handleRazorpayWebhook: the event of a paid order is read as not processed,
\* marked as processed, and then processed; a marked one is answered at once
WebhookRead(r, o) ==
    /\ o \in paid \ answered
    /\ IF o \in marked
       THEN answered' = answered \cup {o} /\ UNCHANGED <<handlerVars, disturbed>>
       ELSE Begin(r, madeFor[o], o, "mark") /\ UNCHANGED answered
    /\ UNCHANGED <<mobile, used, redisVars, gatewayVars, databaseVars, marked, lost, crashes, lent>>

WebhookMark(r) ==
    /\ do[r] = "mark"
    /\ marked' = marked \cup {order[r]}
    /\ Goto(r, "load")
    /\ UNCHANGED <<mobile, used, redisVars, gatewayVars, databaseVars, answered, lost, crashes, disturbed, lent>>

WebhookLoad(r) ==
    /\ do[r] = "load"
    /\ IF Open(reg[r])
       THEN Goto(r, "check") /\ UNCHANGED <<answered, lost>>
       ELSE /\ EndRequest(r)
            /\ answered' = answered \cup {order[r]}
            /\ lost' = lost \cup {order[r]}
    /\ UNCHANGED <<mobile, used, redisVars, gatewayVars, databaseVars, marked, crashes, disturbed, lent>>

-----------------------------------------------------------------------------
(* The gateway, the expiry of the key and the process *)

Pay(o) ==
    /\ o \in issued \ paid
    /\ paid' = paid \cup {o}
    /\ UNCHANGED <<mobile, used, redisVars, madeFor, issued, databaseVars, webhookVars, handlerVars, lost, crashes, disturbed, lent>>

Expire(g) ==
    /\ Open(g)
    /\ pending' = [pending EXCEPT ![g] = "none"]
    /\ orderOf' = [orderOf EXCEPT ![g] = NoOrder]
    /\ UNCHANGED <<mobile, used, gatewayVars, databaseVars, webhookVars, handlerVars, lost, crashes, disturbed, lent>>

RequestDies(r) ==
    /\ do[r] # "idle" /\ crashes < MaxCrashes
    /\ crashes' = crashes + 1
    /\ EndRequest(r)
    /\ lost' = IF hook[r] THEN lost \cup {order[r]} ELSE lost
    /\ disturbed' = disturbed \cup {reg[r]}
    /\ UNCHANGED <<mobile, used, redisVars, gatewayVars, databaseVars, webhookVars, lent>>

RegistrationInit ==
    /\ mobile \in [Registrations -> Mobiles]
    /\ used = {}
    /\ pending = [g \in Registrations |-> "none"]
    /\ orderOf = [g \in Registrations |-> NoOrder]
    /\ madeFor = [o \in Orders |-> NoRegistration]
    /\ issued = {} /\ paid = {}
    /\ tx = [o \in Orders |-> "none"]
    /\ student = {}
    /\ account = [m \in Mobiles |-> NoAccount]
    /\ marked = {} /\ answered = {}
    /\ do = [r \in Handlers |-> "idle"]
    /\ reg = [r \in Handlers |-> NoRegistration]
    /\ order = [r \in Handlers |-> NoOrder]
    /\ hook = [r \in Handlers |-> FALSE]
    /\ lost = {}
    /\ crashes = 0
    /\ disturbed = {} /\ lent = {}

Receive(r) ==
    \/ \E g \in Registrations : VerifyOtpRead(r, g) \/ CreateOrderRead(r, g)
    \/ \E g \in Registrations, o \in Orders : VerifyPaymentRead(r, g, o)
    \/ \E o \in Orders : WebhookRead(r, o)

Handle(r) ==
    \/ VerifyOtpWrite(r) \/ CreateOrderGateway(r) \/ CreateOrderUpsert(r) \/ CreateOrderSave(r)
    \/ VerifyPaymentCheck(r)
    \/ FinalizeCheck(r) \/ FinalizeCommit(r) \/ FinalizeRefused(r) \/ FinalizeFails(r)
    \/ FinalizeCleanup(r)
    \/ WebhookMark(r) \/ WebhookLoad(r)

RegistrationNext ==
    \/ \E g \in Registrations : RegisterStudent(g) \/ Expire(g)
    \/ \E r \in Handlers : Receive(r) \/ Handle(r) \/ RequestDies(r)
    \/ \E o \in Orders : Pay(o)

RegistrationSpec == RegistrationInit /\ [][RegistrationNext]_registrationVars

-----------------------------------------------------------------------------
\* Every variable holds a value of its type
RegistrationTypeOK ==
    /\ mobile \in [Registrations -> Mobiles]
    /\ used \subseteq Registrations /\ disturbed \subseteq Registrations
    /\ pending \in [Registrations -> PendingStatuses]
    /\ orderOf \in [Registrations -> Orders \cup {NoOrder}]
    /\ madeFor \in [Orders -> Registrations \cup {NoRegistration}]
    /\ issued \subseteq Orders /\ paid \subseteq Orders
    /\ tx \in [Orders -> TxStatuses] /\ student \subseteq Orders
    /\ account \in [Mobiles -> Orders \cup {NoAccount}]
    /\ marked \subseteq Orders /\ answered \subseteq Orders
    /\ do \in [Handlers -> RegistrationSteps]
    /\ reg \in [Handlers -> Registrations \cup {NoRegistration}]
    /\ order \in [Handlers -> Orders \cup {NoOrder}]
    /\ hook \in [Handlers -> BOOLEAN]
    /\ lost \subseteq Orders /\ lent \subseteq Orders
    /\ crashes \in 0..MaxCrashes

\* An account exists only for a payment, made for a registration of its mobile
\* or verified for one that had no order to compare with
AccountIsPaid ==
    \A m \in Mobiles : account[m] # NoAccount =>
        /\ account[m] \in paid
        /\ mobile[madeFor[account[m]]] = m \/ account[m] \in lent

\* A registration has two orders at the gateway, and its student may pay twice,
\* only when an order request or a check of the code met another request
OneOrder ==
    \A o, p \in Orders :
        madeFor[o] # NoRegistration /\ madeFor[o] = madeFor[p] /\ o # p
            => madeFor[o] \in disturbed

\* The record of a payment that has led to an account goes back to CREATED only
\* when an order request met the finalisation, or the account is another's
RecordKept == \A o \in student \ lent : tx[o] = "CREATED" => madeFor[o] \in disturbed

\* The client's verification and the webhook may meet: once the account exists
\* the registration is gone from Redis, or about to go, unless an order request
\* wrote it back, the process died in between or the account is another's
Closed ==
    \A m \in Mobiles : account[m] \notin lent \cup {NoAccount} =>
        LET g == madeFor[account[m]] IN
        Open(g) => g \in disturbed \/ \E r \in Handlers : reg[r] = g /\ do[r] = "cleanup"

\* An event that was answered has led to an account, is being processed, or is
\* one whose registration had expired, whose finalisation failed, whose process
\* died or whose payment was lent to another registration: what the mark set
\* before the processing loses for good
EventAccounted ==
    \A o \in answered :
        \/ HasAccount(madeFor[o])
        \/ \E r \in Handlers : hook[r] /\ order[r] = o
        \/ o \in lost \cup lent

\* The payment at the gateway, its event, the record of it, the pending
\* registration and the account tell one story, whoever finishes the registration.
PaymentTrail == AccountIsPaid /\ OneOrder /\ RecordKept /\ Closed /\ EventAccounted
=============================================================================
