------------------------ MODULE Accounts_proofs ------------------------
(***************************************************************************)
(* Proofs about PaidRegistration, for any number of registrations, orders, *)
(* concurrent requests and crashes, and about the behaviours MCAccounts    *)
(* puts together: what is proved of each part alone holds of them all.     *)
(***************************************************************************)
EXTENDS MCAccounts, LoginSession_proofs, Billing_proofs, Question_proofs

-----------------------------------------------------------------------------
(* The inductive invariant *)

\* The steps of a request that has an order of its registration, and those of
\* one whose order is paid
OrderSteps == {"upsert", "save", "verify", "mark", "load"} \cup FinalizeSteps
PaidSteps == {"mark", "load"} \cup FinalizeSteps

\* What a request has read: a registration that was begun, and an order that was
\* made for it or is lent to it.  It cleans up after an account was created.
Remembered ==
    \A r \in Handlers :
        /\ do[r] = "idle" => reg[r] = NoRegistration /\ order[r] = NoOrder
        /\ do[r] # "idle" => reg[r] \in used
        /\ do[r] \in {"otp", "order"} => order[r] = NoOrder
        /\ do[r] \in OrderSteps => order[r] \in Orders /\ madeFor[order[r]] # NoRegistration
        /\ do[r] \in {"upsert", "save"} \/ hook[r] => madeFor[order[r]] = reg[r]
        /\ do[r] \in {"verify"} \cup FinalizeSteps => madeFor[order[r]] = reg[r] \/ order[r] \in lent
        /\ do[r] \in PaidSteps => order[r] \in paid
        /\ do[r] = "cleanup" => HasAccount(reg[r])
        /\ hook[r] => do[r] \in PaidSteps
        /\ do[r] \in {"mark", "load"} => hook[r]

\* Orders are made for registrations that were begun, told to clients and then paid;
\* an account has an order that is paid, and a payment with a student has led to an
\* account, of its registration unless it was lent to another.
Ledger ==
    /\ \A o \in Orders : madeFor[o] # NoRegistration => madeFor[o] \in used
    /\ \A o \in issued : madeFor[o] # NoRegistration
    /\ paid \subseteq issued /\ lent \subseteq issued
    /\ \A g \in Registrations :
          /\ orderOf[g] # NoOrder => madeFor[orderOf[g]] = g
          /\ Open(g) => g \in used
    /\ \A o \in student : madeFor[o] \in Registrations /\ (HasAccount(madeFor[o]) \/ o \in lent)
    /\ \A m \in Mobiles : account[m] # NoAccount =>
          /\ account[m] \in student \cap paid
          /\ mobile[madeFor[account[m]]] = m \/ account[m] \in lent
    /\ marked \cup answered \subseteq paid

\* Before its code is verified, a registration has no order of its own, and no
\* requests but those that verify its code or another's order.
Unverified ==
    \A g \in Registrations : pending[g] = "PENDING_OTP" =>
        /\ orderOf[g] = NoOrder
        /\ \A o \in Orders : madeFor[o] # g
        /\ \A r \in Handlers : reg[r] = g => do[r] \in {"otp", "verify"} \cup FinalizeSteps

\* A request that writes its copy back is the only one of its registration.
Apart ==
    \A r, q \in Handlers :
        r # q /\ do[r] \in CopySteps /\ do[q] # "idle" /\ reg[q] = reg[r] =>
            reg[r] \in disturbed

\* Such a request found no account, and no order if it is to make one.
Fresh ==
    \A r \in Handlers : do[r] \in CopySteps /\ reg[r] \notin disturbed =>
        /\ \A o \in student : madeFor[o] # reg[r] \/ o \in lent
        /\ do[r] \in {"otp", "order"} => \A o \in Orders : madeFor[o] # reg[r]

\* An open registration knows its order, or a request is about to tell it.
Linked ==
    \A o \in Orders : madeFor[o] # NoRegistration /\ Open(madeFor[o]) =>
        \/ madeFor[o] \in disturbed
        \/ orderOf[madeFor[o]] = o
        \/ \E r \in Handlers : do[r] \in {"upsert", "save"} /\ order[r] = o

\* A registration with an account is closed, or about to be.
Closing ==
    \A o \in student : Open(madeFor[o]) =>
        \/ madeFor[o] \in disturbed \/ o \in lent
        \/ \E r \in Handlers : reg[r] = madeFor[o] /\ do[r] = "cleanup"

\* An event that is marked or answered is accounted for.
Accounted ==
    \A o \in marked \cup answered :
        \/ HasAccount(madeFor[o])
        \/ \E r \in Handlers : hook[r] /\ order[r] = o
        \/ o \in lost \cup lent

RegistrationInv ==
    /\ RegistrationTypeOK /\ Remembered /\ Ledger /\ Unverified /\ Apart /\ Fresh
    /\ OneOrder /\ RecordKept /\ Linked /\ Closing /\ Accounted

-----------------------------------------------------------------------------
(* What happens to the requests *)

\* A request that begins, and those it meets
LEMMA Beginning ==
    ASSUME RegistrationTypeOK, NEW r \in Handlers, NEW g \in Registrations,
           NEW o \in Orders \cup {NoOrder}, NEW step \in RegistrationSteps, Begin(r, g, o, step)
    PROVE  /\ do[r] = "idle"
           /\ do' \in [Handlers -> RegistrationSteps]
           /\ reg' \in [Handlers -> Registrations \cup {NoRegistration}]
           /\ order' \in [Handlers -> Orders \cup {NoOrder}] /\ hook' \in [Handlers -> BOOLEAN]
           /\ do'[r] = step /\ reg'[r] = g /\ order'[r] = o /\ (hook'[r] <=> step = "mark")
           /\ \A q \in Handlers : q # r =>
                 do'[q] = do[q] /\ reg'[q] = reg[q] /\ order'[q] = order[q] /\ hook'[q] = hook[q]
           /\ disturbed \subseteq disturbed' /\ disturbed' \subseteq Registrations
           /\ \A q \in Handlers : q # r /\ do[q] # "idle" /\ reg[q] = g
                                  /\ (step \in CopySteps \/ do[q] \in CopySteps) => g \in disturbed'
<1>1. disturbed' = IF Disturbs(r, g, step) THEN disturbed \cup {g} ELSE disturbed
  BY DEF Begin
<1>2. \A q \in Handlers : q # r /\ do[q] # "idle" /\ reg[q] = g
                          /\ (step \in CopySteps \/ do[q] \in CopySteps) => Disturbs(r, g, step)
  BY DEF Disturbs
<1>3. disturbed \subseteq disturbed' /\ disturbed' \subseteq Registrations
  BY <1>1 DEF RegistrationTypeOK
<1> QED
  BY <1>1, <1>2, <1>3 DEF Begin, RegistrationTypeOK

\* A request that ends
LEMMA Ending ==
    ASSUME RegistrationTypeOK, NEW r \in Handlers, EndRequest(r)
    PROVE  /\ do' \in [Handlers -> RegistrationSteps]
           /\ reg' \in [Handlers -> Registrations \cup {NoRegistration}]
           /\ order' \in [Handlers -> Orders \cup {NoOrder}] /\ hook' \in [Handlers -> BOOLEAN]
           /\ do'[r] = "idle" /\ reg'[r] = NoRegistration /\ order'[r] = NoOrder /\ ~hook'[r]
           /\ \A q \in Handlers : q # r =>
                 do'[q] = do[q] /\ reg'[q] = reg[q] /\ order'[q] = order[q] /\ hook'[q] = hook[q]
BY DEF EndRequest, RegistrationTypeOK, RegistrationSteps

\* A request that goes on
LEMMA Going ==
    ASSUME RegistrationTypeOK, NEW r \in Handlers, NEW step \in RegistrationSteps, Goto(r, step)
    PROVE  /\ do' \in [Handlers -> RegistrationSteps]
           /\ do'[r] = step /\ \A q \in Handlers : q # r => do'[q] = do[q]
           /\ UNCHANGED <<reg, order, hook>>
BY DEF Goto, RegistrationTypeOK

\* What the rows say of a registration that has an order or a request
LEMMA Reading ==
    ASSUME RegistrationInv
    PROVE  /\ \A o \in Orders : madeFor[o] # NoRegistration =>
                 madeFor[o] \in Registrations /\ pending[madeFor[o]] # "PENDING_OTP"
           /\ \A r \in Handlers : do[r] # "idle" =>
                 /\ reg[r] \in Registrations /\ reg[r] # NoRegistration
                 /\ mobile[reg[r]] \in Mobiles
BY RegistrationAssumption
   DEF RegistrationInv, RegistrationTypeOK, Unverified, Remembered

-----------------------------------------------------------------------------
(* Requests that are received *)

\* What a request does not change when it begins
Outside == UNCHANGED <<mobile, used, redisVars, gatewayVars, databaseVars, marked, lost, crashes>>

\* A request begins with what it read of its registration.
LEMMA BeginKeeps ==
    ASSUME RegistrationInv, NEW r \in Handlers, NEW g \in Registrations,
           NEW o \in Orders \cup {NoOrder}, NEW step \in {"otp", "order", "upsert", "verify", "mark"},
           Begin(r, g, o, step), Outside, answered' = answered,
           lent \subseteq lent', lent' \subseteq issued,
           g \in used, step \in {"otp", "order", "upsert"} => Open(g),
           step = "otp" => pending[g] = "PENDING_OTP",
           step \in {"order", "upsert", "mark"} => pending[g] # "PENDING_OTP",
           step \in {"otp", "order"} => o = NoOrder /\ orderOf[g] = NoOrder,
           step \in {"upsert", "mark"} => o \in Orders /\ madeFor[o] = g,
           step = "verify" => o \in issued /\ (madeFor[o] = g \/ o \in lent'),
           step = "mark" => o \in paid
    PROVE  RegistrationInv'
<1> USE DEF Outside, redisVars, gatewayVars, databaseVars
<1>1. /\ do[r] = "idle"
      /\ do' \in [Handlers -> RegistrationSteps]
      /\ reg' \in [Handlers -> Registrations \cup {NoRegistration}]
      /\ order' \in [Handlers -> Orders \cup {NoOrder}] /\ hook' \in [Handlers -> BOOLEAN]
      /\ do'[r] = step /\ reg'[r] = g /\ order'[r] = o /\ (hook'[r] <=> step = "mark")
      /\ \A q \in Handlers : q # r =>
            do'[q] = do[q] /\ reg'[q] = reg[q] /\ order'[q] = order[q] /\ hook'[q] = hook[q]
      /\ disturbed \subseteq disturbed' /\ disturbed' \subseteq Registrations
      /\ \A q \in Handlers : q # r /\ do[q] # "idle" /\ reg[q] = g
                             /\ (step \in CopySteps \/ do[q] \in CopySteps) => g \in disturbed'
  <2>1. step \in RegistrationSteps
    BY DEF RegistrationSteps, CopySteps
  <2> QED
    BY <2>1, Beginning DEF RegistrationInv
<1>2. RegistrationTypeOK'
  BY <1>1 DEF RegistrationInv, RegistrationTypeOK
<1>3. Remembered'
  <2>1. g # NoRegistration
    BY RegistrationAssumption
  <2>2. step \in {"upsert", "verify", "mark"} => o \in Orders /\ madeFor[o] # NoRegistration
    BY <2>1 DEF RegistrationInv, RegistrationTypeOK, Ledger
  <2> QED
    BY <1>1, <2>2 DEF RegistrationInv, Remembered, HasAccount, OrderSteps, PaidSteps, FinalizeSteps
<1>4. Ledger'
  BY DEF RegistrationInv, Ledger, HasAccount, Open
<1>5. Unverified'
  BY <1>1 DEF RegistrationInv, Unverified
<1>6. Apart'
  <2>1. ASSUME NEW p \in Handlers, NEW q \in Handlers, p # q, do'[p] \in CopySteps,
               do'[q] # "idle", reg'[q] = reg'[p]
        PROVE  reg'[p] \in disturbed'
    <3>1. CASE p # r /\ q # r
      BY <1>1, <2>1, <3>1 DEF RegistrationInv, Apart
    <3>2. CASE p = r \/ q = r
      BY <1>1, <2>1, <3>2 DEF CopySteps
    <3> QED
      BY <3>1, <3>2
  <2> QED
    BY <2>1 DEF Apart
<1>7. Fresh'
  <2>1. ASSUME step \in CopySteps, g \notin disturbed'
        PROVE  /\ \A p \in student : madeFor[p] # g \/ p \in lent
               /\ step \in {"otp", "order"} => \A p \in Orders : madeFor[p] # g
    <3>1. Open(g) /\ \A q \in Handlers : q # r /\ do[q] # "idle" => reg[q] # g
      BY <1>1, <2>1 DEF CopySteps
    <3>2. \A p \in student : madeFor[p] # g \/ p \in lent
      BY <1>1, <2>1, <3>1 DEF RegistrationInv, RegistrationTypeOK, Closing
    <3>3. ASSUME step \in {"otp", "order"}, NEW p \in Orders, madeFor[p] = g PROVE FALSE
      <4>1. orderOf[g] # p /\ g # NoRegistration
        BY <3>3, RegistrationAssumption
      <4>2. \A q \in Handlers : do[q] \in {"upsert", "save"} /\ order[q] = p => reg[q] = g
        BY <3>3 DEF RegistrationInv, Remembered, OrderSteps
      <4> QED
        BY <1>1, <2>1, <3>1, <3>3, <4>1, <4>2 DEF RegistrationInv, Linked
    <3> QED
      BY <3>2, <3>3
  <2> QED
    BY <1>1, <2>1 DEF RegistrationInv, Fresh
<1>8. OneOrder' /\ RecordKept'
  BY <1>1 DEF RegistrationInv, OneOrder, RecordKept
<1>9. Linked' /\ Closing'
  BY <1>1 DEF RegistrationInv, Linked, Closing, Open
<1>10. Accounted'
  BY <1>1 DEF RegistrationInv, Accounted, HasAccount, Remembered, PaidSteps, FinalizeSteps
<1> QED
  BY <1>2, <1>3, <1>4, <1>5, <1>6, <1>7, <1>8, <1>9, <1>10 DEF RegistrationInv

\* So does every request of the client and the gateway.
LEMMA ReceiveKeeps ==
    ASSUME RegistrationInv, NEW r \in Handlers, Receive(r)
    PROVE  RegistrationInv'
<1> USE DEF Outside, webhookVars
<1>0. lent \subseteq issued
  BY DEF RegistrationInv, Ledger
<1>1. ASSUME NEW g \in Registrations, VerifyOtpRead(r, g) PROVE RegistrationInv'
  <2>1. orderOf[g] = NoOrder /\ Open(g) /\ g \in used
    BY <1>1 DEF VerifyOtpRead, RegistrationInv, Unverified, Ledger, Open
  <2>2. Begin(r, g, NoOrder, "otp")
    BY <1>1, <2>1 DEF VerifyOtpRead
  <2> QED
    BY <1>0, <1>1, <2>1, <2>2, BeginKeeps DEF VerifyOtpRead, gatewayVars
<1>2. ASSUME NEW g \in Registrations, CreateOrderRead(r, g) PROVE RegistrationInv'
  <2>1. Open(g) /\ pending[g] # "PENDING_OTP" /\ g \in used
    BY <1>2 DEF CreateOrderRead, RegistrationInv, Ledger, Open
  <2>2. CASE orderOf[g] = NoOrder
    <3>1. Begin(r, g, NoOrder, "order")
      BY <1>2, <2>2 DEF CreateOrderRead
    <3> QED
      BY <1>0, <1>2, <2>1, <2>2, <3>1, BeginKeeps DEF CreateOrderRead, gatewayVars
  <2>3. CASE orderOf[g] # NoOrder
    <3>1. PICK o \in Orders : o = orderOf[g] /\ madeFor[o] = g
      BY <2>3 DEF RegistrationInv, RegistrationTypeOK, Ledger
    <3>2. Begin(r, g, o, "upsert")
      BY <1>2, <2>3, <3>1 DEF CreateOrderRead
    <3> QED
      BY <1>0, <1>2, <2>1, <3>1, <3>2, BeginKeeps DEF CreateOrderRead, gatewayVars
  <2> QED
    BY <2>2, <2>3
<1>3. ASSUME NEW g \in Registrations, NEW o \in Orders, VerifyPaymentRead(r, g, o)
      PROVE  RegistrationInv'
  <2>1. o \in issued /\ Open(g) /\ g \in used /\ orderOf[g] \in {NoOrder, o}
    BY <1>3 DEF VerifyPaymentRead, RegistrationInv, Ledger
  <2>2. lent' = IF orderOf[g] = NoOrder /\ madeFor[o] # g THEN lent \cup {o} ELSE lent
    BY <1>3 DEF VerifyPaymentRead
  <2>3. lent \subseteq lent' /\ lent' \subseteq issued
    BY <2>1, <2>2 DEF RegistrationInv, Ledger
  <2>4. madeFor[o] = g \/ o \in lent'
    BY <2>1, <2>2, RegistrationAssumption DEF RegistrationInv, Ledger
  <2> QED
    BY <1>3, <2>1, <2>3, <2>4, BeginKeeps DEF VerifyPaymentRead
<1>4. ASSUME NEW o \in Orders, WebhookRead(r, o) PROVE RegistrationInv'
  <2>1. /\ o \in paid /\ madeFor[o] \in Registrations /\ madeFor[o] \in used
        /\ pending[madeFor[o]] # "PENDING_OTP"
    BY <1>4, Reading DEF WebhookRead, RegistrationInv, RegistrationTypeOK, Ledger
  <2>2. CASE o \notin marked
    <3>1. PICK g \in Registrations : g = madeFor[o]
      BY <2>1
    <3>2. Begin(r, g, o, "mark") /\ answered' = answered
      BY <1>4, <2>2, <3>1 DEF WebhookRead
    <3> QED
      BY <1>0, <1>4, <2>1, <3>1, <3>2, BeginKeeps DEF WebhookRead, gatewayVars
  <2>3. CASE o \in marked
    <3>1. /\ answered' = answered \cup {o}
          /\ UNCHANGED <<mobile, used, redisVars, gatewayVars, databaseVars, handlerVars, marked,
                         lost, crashes, disturbed, lent>>
      BY <1>4, <2>3 DEF WebhookRead
    <3> USE DEF redisVars, gatewayVars, databaseVars, handlerVars
    <3>2. RegistrationTypeOK' /\ Accounted'
      BY <2>3, <3>1 DEF RegistrationInv, RegistrationTypeOK, Accounted, HasAccount
    <3>3. Remembered' /\ Ledger' /\ Unverified' /\ Apart'
      BY <2>1, <3>1 DEF RegistrationInv, Remembered, Ledger, Unverified, Apart, HasAccount, Open
    <3>4. Fresh' /\ OneOrder' /\ RecordKept' /\ Linked' /\ Closing'
      BY <3>1 DEF RegistrationInv, Fresh, OneOrder, RecordKept, Linked, Closing, Open
    <3> QED
      BY <3>2, <3>3, <3>4 DEF RegistrationInv
  <2> QED
    BY <2>2, <2>3
<1> QED
  BY <1>1, <1>2, <1>3, <1>4 DEF Receive

-----------------------------------------------------------------------------
(* Requests that end *)

\* A request that takes no part in a step
Stays(q) == do'[q] = do[q] /\ reg'[q] = reg[q] /\ order'[q] = order[q] /\ hook'[q] = hook[q]

\* A request that ends or dies without having written its copy
LEMMA EndKeeps ==
    ASSUME RegistrationInv, NEW r \in Handlers, do[r] # "idle", EndRequest(r),
           UNCHANGED <<mobile, used, gatewayVars, account, student, marked, lent>>,
           disturbed \subseteq disturbed', disturbed' \subseteq Registrations,
           crashes' \in 0..MaxCrashes,
           tx' \in [Orders -> TxStatuses], \A o \in Orders : tx'[o] = "CREATED" => tx[o] = "CREATED",
           \/ UNCHANGED redisVars /\ (do[r] # "cleanup" \/ reg[r] \in disturbed')
           \/ /\ pending' = [pending EXCEPT ![reg[r]] = "none"]
              /\ orderOf' = [orderOf EXCEPT ![reg[r]] = NoOrder],
           answered \subseteq answered', answered' \subseteq answered \cup {order[r]},
           lost \subseteq lost', lost' \subseteq Orders,
           do[r] \notin {"upsert", "save"} \/ reg[r] \in disturbed',
           hook[r] => order[r] \in lost' \cup lent \/ HasAccount(reg[r]),
           answered' # answered => hook[r]
    PROVE  RegistrationInv'
<1> USE DEF gatewayVars, redisVars
<1>1. /\ do' \in [Handlers -> RegistrationSteps]
      /\ reg' \in [Handlers -> Registrations \cup {NoRegistration}]
      /\ order' \in [Handlers -> Orders \cup {NoOrder}] /\ hook' \in [Handlers -> BOOLEAN]
      /\ do'[r] = "idle" /\ reg'[r] = NoRegistration /\ order'[r] = NoOrder /\ ~hook'[r]
      /\ \A q \in Handlers : q # r => Stays(q)
  BY Ending DEF RegistrationInv, Stays
<1> USE DEF Stays
<1>2. reg[r] \in Registrations /\ reg[r] # NoRegistration /\ reg[r] \in used
  BY Reading DEF RegistrationInv, Remembered
<1>3. hook[r] => order[r] \in Orders \cap paid /\ madeFor[order[r]] = reg[r]
  BY DEF RegistrationInv, Remembered, OrderSteps, PaidSteps
<1>4. \A g \in Registrations :
         \/ pending'[g] = pending[g] /\ orderOf'[g] = orderOf[g]
         \/ g = reg[r] /\ pending'[g] = "none" /\ orderOf'[g] = NoOrder
  BY <1>2 DEF RegistrationInv, RegistrationTypeOK
<1>5. RegistrationTypeOK'
  <2>1. pending' \in [Registrations -> PendingStatuses]
    BY <1>2 DEF RegistrationInv, RegistrationTypeOK, PendingStatuses
  <2>2. orderOf' \in [Registrations -> Orders \cup {NoOrder}]
    BY <1>2 DEF RegistrationInv, RegistrationTypeOK
  <2>3. answered' \subseteq Orders
    BY <1>3 DEF RegistrationInv, RegistrationTypeOK
  <2> QED
    BY <1>1, <2>1, <2>2, <2>3 DEF RegistrationInv, RegistrationTypeOK
<1>6. Remembered'
  BY <1>1 DEF RegistrationInv, Remembered, HasAccount, OrderSteps, PaidSteps, FinalizeSteps
<1>7. Ledger'
  BY <1>3, <1>4 DEF RegistrationInv, RegistrationTypeOK, Ledger, HasAccount, Open
<1>8. Unverified'
  BY <1>1, <1>4, RegistrationAssumption DEF RegistrationInv, Unverified
<1>9. Apart' /\ Fresh'
  BY <1>1 DEF RegistrationInv, Apart, Fresh, CopySteps
<1>10. OneOrder' /\ RecordKept'
  BY DEF RegistrationInv, RegistrationTypeOK, OneOrder, RecordKept
<1>11. Linked'
  BY <1>1, <1>4 DEF RegistrationInv, RegistrationTypeOK, Linked, Open, Remembered, OrderSteps
<1>12. Closing'
  BY <1>1, <1>2, <1>4 DEF RegistrationInv, RegistrationTypeOK, Closing, Open, Ledger
<1>13. Accounted'
  <2>1. ASSUME NEW o \in marked' \cup answered'
        PROVE  HasAccount(madeFor[o]) \/ (\E q \in Handlers : hook'[q] /\ order'[q] = o) \/ o \in lost' \cup lent
    <3>1. CASE o \in marked \cup answered
      <4>1. \A q \in Handlers : hook[q] /\ order[q] = o =>
               HasAccount(madeFor[o]) \/ (hook'[q] /\ order'[q] = o) \/ o \in lost' \cup lent
        BY <1>1, <1>3
      <4> QED
        BY <3>1, <4>1 DEF RegistrationInv, Accounted
    <3>2. CASE o \notin marked \cup answered
      BY <1>3, <2>1, <3>2
    <3> QED
      BY <3>1, <3>2
  <2> QED
    BY <2>1 DEF Accounted, HasAccount
<1> QED
  BY <1>5, <1>6, <1>7, <1>8, <1>9, <1>10, <1>11, <1>12, <1>13 DEF RegistrationInv

\* A request that ends without a write, or dies, leaves the rest as it is.
LEMMA EndingsKeep ==
    ASSUME RegistrationInv, NEW r \in Handlers,
           \/ CreateOrderGateway(r) /\ UNCHANGED madeFor
           \/ VerifyPaymentCheck(r) /\ EndRequest(r)
           \/ FinalizeCheck(r) /\ tx[order[r]] = "CAPTURED" /\ order[r] \in student
           \/ FinalizeRefused(r) \/ FinalizeFails(r) \/ FinalizeCleanup(r)
           \/ WebhookLoad(r) /\ ~Open(reg[r])
           \/ RequestDies(r)
    PROVE  RegistrationInv'
<1> USE DEF gatewayVars, databaseVars, redisVars, webhookVars
<1>1. /\ crashes \in 0..MaxCrashes /\ lost \subseteq Orders /\ disturbed \subseteq Registrations
      /\ tx \in [Orders -> TxStatuses]
  BY DEF RegistrationInv, RegistrationTypeOK
<1>2. do[r] # "idle" => reg[r] \in Registrations
  BY Reading
<1>3. /\ do[r] \in OrderSteps => order[r] \in Orders
      /\ hook[r] => order[r] \in Orders /\ madeFor[order[r]] = reg[r]
      /\ do[r] \in {"mark", "load"} => hook[r]
  BY DEF RegistrationInv, Remembered, PaidSteps, OrderSteps
<1>4. CASE CreateOrderGateway(r) /\ UNCHANGED madeFor
  <2>1. /\ do[r] = "order" /\ ~hook[r]
        /\ UNCHANGED <<mobile, used, redisVars, issued, paid, databaseVars, webhookVars, lost,
                       crashes, disturbed, lent>>
    BY <1>4 DEF CreateOrderGateway, RegistrationInv, Remembered, PaidSteps, FinalizeSteps
  <2>2. EndRequest(r)
    <3>1. ASSUME NEW o \in FreeOrders, madeFor' = [madeFor EXCEPT ![o] = reg[r]] PROVE FALSE
      <4>1. madeFor'[o] = reg[r] /\ madeFor[o] = NoRegistration /\ reg[r] \in Registrations
        BY <3>1, <2>1, <1>2 DEF FreeOrders, RegistrationInv, RegistrationTypeOK
      <4> QED
        BY <4>1, <1>4, RegistrationAssumption
    <3> QED
      BY <1>4, <3>1 DEF CreateOrderGateway
  <2> QED
    BY <1>1, <2>1, <2>2, <1>4, EndKeeps
<1>5. CASE VerifyPaymentCheck(r) /\ EndRequest(r)
  <2>1. /\ do[r] = "verify" /\ ~hook[r] /\ order[r] \in Orders
        /\ UNCHANGED <<mobile, used, redisVars, gatewayVars, student, account, webhookVars, lost,
                       crashes, disturbed, lent>>
    BY <1>3, <1>5 DEF VerifyPaymentCheck, RegistrationInv, Remembered, OrderSteps, PaidSteps, FinalizeSteps
  <2>2. tx' = tx \/ tx' = [tx EXCEPT ![order[r]] = "VERIFICATION_FAILED"]
                 \/ tx' = [tx EXCEPT ![order[r]] = "FAILED"]
    BY <1>5 DEF VerifyPaymentCheck
  <2>3. tx' \in [Orders -> TxStatuses] /\ \A o \in Orders : tx'[o] = "CREATED" => tx[o] = "CREATED"
    BY <1>1, <2>2 DEF TxStatuses
  <2> QED
    BY <1>1, <1>5, <2>1, <2>3, EndKeeps
<1>6. CASE FinalizeCheck(r) /\ tx[order[r]] = "CAPTURED" /\ order[r] \in student
  <2>1. hook[r] => HasAccount(reg[r]) \/ order[r] \in lent
    BY <1>3, <1>6 DEF FinalizeCheck, RegistrationInv, Ledger
  <2> QED
    BY <1>1, <1>6, <2>1, EndKeeps DEF FinalizeCheck, Answer
<1>7. CASE FinalizeRefused(r)
  BY <1>1, <1>7, EndKeeps DEF FinalizeRefused, Answer
<1>8. CASE FinalizeFails(r)
  BY <1>1, <1>3, <1>8, EndKeeps DEF FinalizeFails, Answer
<1>9. CASE FinalizeCleanup(r)
  BY <1>1, <1>9, EndKeeps DEF FinalizeCleanup, Answer, RegistrationInv, Remembered
<1>10. CASE WebhookLoad(r) /\ ~Open(reg[r])
  BY <1>1, <1>3, <1>10, EndKeeps DEF WebhookLoad
<1>11. CASE RequestDies(r)
  <2>1. crashes' \in 0..MaxCrashes
    BY <1>1, <1>11, CrashesAssumption DEF RequestDies
  <2> QED
    BY <1>1, <1>2, <1>3, <1>11, <2>1, EndKeeps DEF RequestDies
<1> QED
  BY <1>4, <1>5, <1>6, <1>7, <1>8, <1>9, <1>10, <1>11

-----------------------------------------------------------------------------
(* Requests that go on *)

\* One that goes on towards the finalisation
LEMMA GoKeeps ==
    ASSUME RegistrationInv, NEW r \in Handlers, NEW step \in {"load", "check", "finalize"},
           do[r] \in {"verify", "mark", "load", "check"}, Goto(r, step), order[r] \in paid,
           UNCHANGED <<mobile, used, redisVars, gatewayVars, databaseVars, answered, lost, crashes,
                       disturbed, lent>>,
           UNCHANGED marked \/ (hook[r] /\ marked' = marked \cup {order[r]}),
           step = "load" => do[r] = "mark"
    PROVE  RegistrationInv'
<1> USE DEF redisVars, gatewayVars, databaseVars
<1>1. /\ do' \in [Handlers -> RegistrationSteps]
      /\ do'[r] = step /\ \A q \in Handlers : q # r => do'[q] = do[q]
      /\ UNCHANGED <<reg, order, hook>>
  BY Going DEF RegistrationInv, RegistrationSteps, FinalizeSteps
<1>2. /\ order[r] \in Orders /\ do[r] \in {"mark", "load"} => hook[r]
      /\ madeFor[order[r]] = reg[r] \/ order[r] \in lent
  BY DEF RegistrationInv, Remembered, OrderSteps, FinalizeSteps
<1>3. RegistrationTypeOK'
  BY <1>1, <1>2 DEF RegistrationInv, RegistrationTypeOK
<1>4. Remembered'
  BY <1>1, <1>2 DEF RegistrationInv, Remembered, HasAccount, OrderSteps, PaidSteps, FinalizeSteps
<1>5. Ledger' /\ OneOrder' /\ RecordKept'
  BY <1>1 DEF RegistrationInv, Ledger, HasAccount, Open, OneOrder, RecordKept
<1>6. Unverified' /\ Apart' /\ Fresh'
  BY <1>1 DEF RegistrationInv, Unverified, Apart, Fresh, CopySteps, FinalizeSteps
<1>7. Linked' /\ Closing'
  BY <1>1 DEF RegistrationInv, Linked, Closing, Open
<1>8. Accounted'
  BY <1>1 DEF RegistrationInv, Accounted, HasAccount
<1> QED
  BY <1>3, <1>4, <1>5, <1>6, <1>7, <1>8 DEF RegistrationInv

\* A request goes on to its next step with what it has checked.
LEMMA GoingsKeep ==
    ASSUME RegistrationInv, NEW r \in Handlers,
           \/ VerifyPaymentCheck(r) /\ Goto(r, "check") /\ order[r] \in paid /\ UNCHANGED tx
           \/ FinalizeCheck(r) /\ ~(tx[order[r]] = "CAPTURED" /\ order[r] \in student)
           \/ WebhookMark(r)
           \/ WebhookLoad(r) /\ Open(reg[r])
    PROVE  RegistrationInv'
<1> USE DEF gatewayVars, databaseVars, redisVars, webhookVars
<1>1. /\ do[r] \in PaidSteps => order[r] \in paid
      /\ do[r] \in {"mark", "load"} => hook[r]
  BY DEF RegistrationInv, Remembered
<1>2. CASE VerifyPaymentCheck(r) /\ Goto(r, "check") /\ order[r] \in paid /\ UNCHANGED tx
  <2>1. do[r] = "verify" /\ UNCHANGED <<mobile, used, redisVars, gatewayVars, databaseVars,
                                       webhookVars, lost, crashes, disturbed, lent>>
    BY <1>2 DEF VerifyPaymentCheck
  <2>2. /\ UNCHANGED marked \/ (hook[r] /\ marked' = marked \cup {order[r]})
        /\ UNCHANGED answered /\ "check" \in {"load", "check", "finalize"}
        /\ do[r] \in {"verify", "mark", "load", "check"}
        /\ "check" = "load" => do[r] = "mark"
    BY <2>1
  <2> QED
    BY <1>2, <2>1, <2>2, GoKeeps
<1>3. CASE FinalizeCheck(r) /\ ~(tx[order[r]] = "CAPTURED" /\ order[r] \in student)
  <2>1. /\ do[r] = "check" /\ Goto(r, "finalize") /\ order[r] \in paid
        /\ UNCHANGED <<mobile, used, redisVars, gatewayVars, databaseVars, webhookVars, lost,
                       crashes, disturbed, lent>>
    BY <1>1, <1>3 DEF FinalizeCheck, PaidSteps, FinalizeSteps
  <2>2. /\ UNCHANGED marked \/ (hook[r] /\ marked' = marked \cup {order[r]})
        /\ UNCHANGED answered /\ "finalize" \in {"load", "check", "finalize"}
        /\ do[r] \in {"verify", "mark", "load", "check"}
        /\ "finalize" = "load" => do[r] = "mark"
    BY <2>1
  <2> QED
    BY <2>1, <2>2, GoKeeps
<1>4. CASE WebhookMark(r)
  <2>1. /\ do[r] = "mark" /\ Goto(r, "load") /\ order[r] \in paid /\ hook[r]
        /\ marked' = marked \cup {order[r]}
        /\ UNCHANGED <<mobile, used, redisVars, gatewayVars, databaseVars, answered, lost,
                       crashes, disturbed, lent>>
    BY <1>1, <1>4 DEF WebhookMark, PaidSteps
  <2> QED
    BY <2>1, GoKeeps
<1>5. CASE WebhookLoad(r) /\ Open(reg[r])
  <2>1. /\ do[r] = "load" /\ Goto(r, "check") /\ order[r] \in paid
        /\ UNCHANGED <<mobile, used, redisVars, gatewayVars, databaseVars, webhookVars, lost,
                       crashes, disturbed, lent>>
    BY <1>1, <1>5 DEF WebhookLoad, PaidSteps
  <2>2. /\ UNCHANGED marked \/ (hook[r] /\ marked' = marked \cup {order[r]})
        /\ UNCHANGED answered /\ "check" \in {"load", "check", "finalize"}
        /\ do[r] \in {"verify", "mark", "load", "check"}
        /\ "check" = "load" => do[r] = "mark"
    BY <2>1
  <2> QED
    BY <2>1, <2>2, GoKeeps
<1> QED
  BY <1>2, <1>3, <1>4, <1>5

-----------------------------------------------------------------------------
(* Requests that write *)

\* The code of a registration is verified: nobody has made an order for it.
LEMMA OtpKeeps ==
    ASSUME RegistrationInv, NEW r \in Handlers, VerifyOtpWrite(r)
    PROVE  RegistrationInv'
<1> USE DEF gatewayVars, databaseVars, webhookVars
<1>1. /\ do' \in [Handlers -> RegistrationSteps]
      /\ reg' \in [Handlers -> Registrations \cup {NoRegistration}]
      /\ order' \in [Handlers -> Orders \cup {NoOrder}] /\ hook' \in [Handlers -> BOOLEAN]
      /\ do'[r] = "idle" /\ reg'[r] = NoRegistration /\ order'[r] = NoOrder /\ ~hook'[r]
      /\ \A q \in Handlers : q # r => Stays(q)
  BY Ending DEF VerifyOtpWrite, RegistrationInv, Stays
<1> USE DEF Stays
<1>2. /\ do[r] = "otp" /\ order[r] = NoOrder /\ ~hook[r]
      /\ UNCHANGED <<mobile, used, gatewayVars, databaseVars, webhookVars, lost, crashes, disturbed, lent>>
  BY DEF VerifyOtpWrite, RegistrationInv, Remembered, PaidSteps, FinalizeSteps
<1>3. PICK g \in Registrations : g = reg[r]
  BY <1>2, Reading
<1>4. /\ pending' = [pending EXCEPT ![g] = "OTP_VERIFIED"]
      /\ orderOf' = [orderOf EXCEPT ![g] = NoOrder] /\ g \in used
  BY <1>2, <1>3 DEF VerifyOtpWrite, RegistrationInv, Remembered
<1>5. \A h \in Registrations :
         IF h = g THEN pending'[h] = "OTP_VERIFIED" /\ orderOf'[h] = NoOrder
         ELSE pending'[h] = pending[h] /\ orderOf'[h] = orderOf[h]
  BY <1>4 DEF RegistrationInv, RegistrationTypeOK
<1>6. g \notin disturbed => \A o \in Orders : madeFor[o] # g
  BY <1>2, <1>3 DEF RegistrationInv, Fresh, CopySteps
<1>7. RegistrationTypeOK'
  BY <1>1, <1>2, <1>4 DEF RegistrationInv, RegistrationTypeOK, PendingStatuses
<1>8. Remembered'
  BY <1>1, <1>2 DEF RegistrationInv, Remembered, HasAccount, OrderSteps, PaidSteps, FinalizeSteps
<1>9. Ledger'
  BY <1>2, <1>4, <1>5 DEF RegistrationInv, RegistrationTypeOK, Ledger, HasAccount, Open
<1>10. Unverified'
  BY <1>1, <1>2, <1>5, RegistrationAssumption DEF RegistrationInv, Unverified
<1>11. Apart' /\ Fresh'
  BY <1>1, <1>2 DEF RegistrationInv, Apart, Fresh, CopySteps
<1>12. OneOrder' /\ RecordKept'
  BY <1>2 DEF RegistrationInv, OneOrder, RecordKept
<1>13. Linked' /\ Closing'
  <2>1. Linked'
    BY <1>1, <1>2, <1>5, <1>6 DEF RegistrationInv, RegistrationTypeOK, Linked, Open
  <2>2. student \subseteq Orders /\ \A o \in student : madeFor[o] \in Registrations
    BY DEF RegistrationInv, RegistrationTypeOK, Ledger
  <2>3. Closing'
    BY <1>1, <1>2, <1>5, <1>6, <2>2 DEF RegistrationInv, Closing, Open
  <2> QED
    BY <2>1, <2>3
<1>14. Accounted'
  BY <1>1, <1>2 DEF RegistrationInv, Accounted, HasAccount
<1> QED
  BY <1>7, <1>8, <1>9, <1>10, <1>11, <1>12, <1>13, <1>14 DEF RegistrationInv

\* A request that makes an order found none.
LEMMA GatewayKeeps ==
    ASSUME RegistrationInv, NEW r \in Handlers, NEW o \in FreeOrders, do[r] = "order",
           madeFor' = [madeFor EXCEPT ![o] = reg[r]], order' = [order EXCEPT ![r] = o],
           do' = [do EXCEPT ![r] = "upsert"], UNCHANGED <<reg, hook>>,
           UNCHANGED <<mobile, used, redisVars, issued, paid, databaseVars, webhookVars, lost,
                       crashes, disturbed, lent>>
    PROVE  RegistrationInv'
<1> USE DEF redisVars, databaseVars, webhookVars
<1>1. o \in Orders /\ madeFor[o] = NoRegistration
  BY DEF FreeOrders
<1>2. PICK g \in Registrations : g = reg[r] /\ g \in used /\ g # NoRegistration
  BY Reading DEF RegistrationInv, Remembered
<1>3. /\ do'[r] = "upsert" /\ order'[r] = o /\ madeFor'[o] = g
      /\ \A q \in Handlers : q # r => do'[q] = do[q] /\ order'[q] = order[q]
      /\ \A p \in Orders : p # o => madeFor'[p] = madeFor[p]
  BY <1>1, <1>2 DEF RegistrationInv, RegistrationTypeOK
<1>4. \A p \in Orders : madeFor[p] # NoRegistration => madeFor'[p] = madeFor[p]
  BY <1>1, <1>3
<1>5. o \notin issued /\ o \notin paid /\ o \notin student /\ ~hook[r]
  BY <1>1, RegistrationAssumption
  DEF RegistrationInv, Ledger, Remembered, PaidSteps, FinalizeSteps
<1>6. g \notin disturbed => \A p \in Orders : madeFor[p] # g
  BY <1>2 DEF RegistrationInv, Fresh, CopySteps
<1>7. \A q \in Handlers : do[q] \in OrderSteps => order[q] # o
  BY <1>1, Reading DEF RegistrationInv, Remembered, OrderSteps, FinalizeSteps
<1>8. RegistrationTypeOK'
  BY <1>1, <1>2 DEF RegistrationInv, RegistrationTypeOK, RegistrationSteps, CopySteps
<1>9. Remembered'
  BY <1>1, <1>2, <1>3, <1>5, <1>7
  DEF RegistrationInv, Remembered, HasAccount, OrderSteps, PaidSteps, FinalizeSteps
<1>10. Ledger'
  <2>1. \A h \in Registrations : orderOf[h] # NoOrder => orderOf[h] \in Orders /\ orderOf[h] # o
    BY <1>1, RegistrationAssumption DEF RegistrationInv, RegistrationTypeOK, Ledger
  <2>2. \A m \in Mobiles : account[m] # NoAccount => account[m] \in Orders /\ account[m] # o
    BY <1>5 DEF RegistrationInv, RegistrationTypeOK, Ledger
  <2>3. student \subseteq Orders /\ issued \subseteq Orders
    BY DEF RegistrationInv, RegistrationTypeOK
  <2> QED
    BY <1>2, <1>3, <1>4, <1>5, <2>1, <2>2, <2>3 DEF RegistrationInv, Ledger, HasAccount, Open
<1>11. Unverified'
  <2>1. pending[g] # "PENDING_OTP"
    BY <1>2 DEF RegistrationInv, Unverified, FinalizeSteps
  <2> QED
    BY <1>2, <1>3, <2>1 DEF RegistrationInv, Unverified
<1>12. Apart' /\ Fresh'
  <2>1. student \subseteq Orders
    BY DEF RegistrationInv, RegistrationTypeOK
  <2>2. Apart'
    BY <1>3 DEF RegistrationInv, Apart, CopySteps
  <2>3. Fresh'
    <3>1. ASSUME NEW q \in Handlers, do'[q] \in CopySteps, reg[q] \notin disturbed
          PROVE  /\ \A p \in student : madeFor'[p] # reg[q] \/ p \in lent
                 /\ do'[q] \in {"otp", "order"} => \A p \in Orders : madeFor'[p] # reg[q]
      <4>1. CASE q = r
        BY <1>2, <1>3, <1>5, <1>6, <2>1, <3>1, <4>1
      <4>2. CASE q # r
        <5>1. reg[q] # g
          BY <1>2, <1>3, <3>1, <4>2, Reading DEF RegistrationInv, Apart, CopySteps
        <5> QED
          BY <1>3, <1>5, <2>1, <3>1, <4>2, <5>1 DEF RegistrationInv, Fresh
      <4> QED
        BY <4>1, <4>2
    <3> QED
      BY <3>1 DEF Fresh
  <2> QED
    BY <2>2, <2>3
<1>13. OneOrder'
  BY <1>2, <1>3, <1>6 DEF RegistrationInv, OneOrder
<1>14. RecordKept' /\ Closing'
  <2>1. \A p \in student : madeFor'[p] = madeFor[p]
    BY <1>3, <1>5 DEF RegistrationInv, RegistrationTypeOK
  <2>2. \A q \in Handlers : do[q] = "cleanup" => do'[q] = "cleanup"
    BY <1>3
  <2> QED
    BY <2>1, <2>2 DEF RegistrationInv, RecordKept, Closing, Open
<1>15. Linked'
  <2>1. ASSUME NEW p \in Orders, madeFor'[p] # NoRegistration, Open(madeFor'[p])
        PROVE  \/ madeFor'[p] \in disturbed
               \/ orderOf[madeFor'[p]] = p
               \/ \E q \in Handlers : do'[q] \in {"upsert", "save"} /\ order'[q] = p
    <3>1. CASE p = o
      BY <1>3, <3>1
    <3>2. CASE p # o
      BY <1>3, <2>1, <3>2 DEF RegistrationInv, Linked
    <3> QED
      BY <3>1, <3>2
  <2> QED
    BY <2>1 DEF Linked, Open
<1>16. Accounted'
  <2>1. \A p \in marked \cup answered : madeFor'[p] = madeFor[p]
    BY <1>3, <1>5 DEF RegistrationInv, RegistrationTypeOK, Ledger
  <2> QED
    BY <1>3, <1>5, <2>1 DEF RegistrationInv, Accounted, HasAccount
<1> QED
  BY <1>8, <1>9, <1>10, <1>11, <1>12, <1>13, <1>14, <1>15, <1>16 DEF RegistrationInv

\* The record of an order that has no student yet is CREATED (again).
LEMMA UpsertKeeps ==
    ASSUME RegistrationInv, NEW r \in Handlers, CreateOrderUpsert(r)
    PROVE  RegistrationInv'
<1> USE DEF redisVars, gatewayVars, webhookVars
<1>1. /\ do[r] = "upsert" /\ tx' = [tx EXCEPT ![order[r]] = "CREATED"]
      /\ UNCHANGED <<mobile, used, redisVars, gatewayVars, student, account, webhookVars, lost,
                     crashes, disturbed, lent>>
  BY DEF CreateOrderUpsert
<1>2. /\ do' \in [Handlers -> RegistrationSteps]
      /\ do'[r] = "save" /\ \A q \in Handlers : q # r => do'[q] = do[q]
      /\ UNCHANGED <<reg, order, hook>>
  BY Going DEF RegistrationInv, RegistrationSteps, CopySteps, CreateOrderUpsert
<1>3. order[r] \in Orders /\ madeFor[order[r]] = reg[r] /\ ~hook[r]
  BY <1>1 DEF RegistrationInv, Remembered, OrderSteps, PaidSteps, FinalizeSteps
<1>4. RegistrationTypeOK'
  BY <1>1, <1>2, <1>3 DEF RegistrationInv, RegistrationTypeOK, TxStatuses
<1>5. Remembered' /\ Ledger'
  BY <1>1, <1>2, <1>3
  DEF RegistrationInv, Remembered, Ledger, HasAccount, Open, OrderSteps, PaidSteps, FinalizeSteps
<1>6. Unverified' /\ Apart' /\ Fresh'
  BY <1>1, <1>2 DEF RegistrationInv, Unverified, Apart, Fresh, CopySteps, FinalizeSteps
<1>7. OneOrder' /\ RecordKept'
  <2>1. reg[r] \notin disturbed => order[r] \notin student \ lent
    BY <1>1, <1>3 DEF RegistrationInv, Fresh, CopySteps
  <2>2. \A o \in student : o # order[r] => tx'[o] = tx[o]
    BY <1>1 DEF RegistrationInv, RegistrationTypeOK
  <2> QED
    BY <1>1, <1>3, <2>1, <2>2 DEF RegistrationInv, OneOrder, RecordKept
<1>8. Linked' /\ Closing'
  BY <1>1, <1>2 DEF RegistrationInv, Linked, Closing, Open
<1>9. Accounted'
  BY <1>1, <1>2 DEF RegistrationInv, Accounted, HasAccount
<1> QED
  BY <1>4, <1>5, <1>6, <1>7, <1>8, <1>9 DEF RegistrationInv

\* The registration learns its only order.
LEMMA SaveKeeps ==
    ASSUME RegistrationInv, NEW r \in Handlers, CreateOrderSave(r)
    PROVE  RegistrationInv'
<1> USE DEF databaseVars, webhookVars
<1>1. /\ do' \in [Handlers -> RegistrationSteps]
      /\ reg' \in [Handlers -> Registrations \cup {NoRegistration}]
      /\ order' \in [Handlers -> Orders \cup {NoOrder}] /\ hook' \in [Handlers -> BOOLEAN]
      /\ do'[r] = "idle" /\ reg'[r] = NoRegistration /\ order'[r] = NoOrder /\ ~hook'[r]
      /\ \A q \in Handlers : q # r => Stays(q)
  BY Ending DEF CreateOrderSave, RegistrationInv, Stays
<1> USE DEF Stays
<1>2. /\ do[r] = "save" /\ ~hook[r]
      /\ UNCHANGED <<mobile, used, madeFor, paid, databaseVars, webhookVars, lost, crashes, disturbed, lent>>
  BY DEF CreateOrderSave, RegistrationInv, Remembered, PaidSteps, FinalizeSteps
<1>3. PICK g \in Registrations, o \in Orders :
         g = reg[r] /\ o = order[r] /\ madeFor[o] = g /\ g \in used
  BY <1>2, Reading DEF RegistrationInv, Remembered, OrderSteps
<1>4. /\ pending' = [pending EXCEPT ![g] = "PAYMENT_PENDING"]
      /\ orderOf' = [orderOf EXCEPT ![g] = o] /\ issued' = issued \cup {o}
  BY <1>3 DEF CreateOrderSave
<1>5. \A h \in Registrations :
         IF h = g THEN pending'[h] = "PAYMENT_PENDING" /\ orderOf'[h] = o
         ELSE pending'[h] = pending[h] /\ orderOf'[h] = orderOf[h]
  BY <1>4 DEF RegistrationInv, RegistrationTypeOK
<1>6. RegistrationTypeOK'
  BY <1>1, <1>2, <1>4 DEF RegistrationInv, RegistrationTypeOK, PendingStatuses
<1>7. Remembered'
  BY <1>1, <1>2 DEF RegistrationInv, Remembered, HasAccount, OrderSteps, PaidSteps, FinalizeSteps
<1>8. Ledger'
  BY <1>2, <1>3, <1>4, <1>5, RegistrationAssumption
  DEF RegistrationInv, RegistrationTypeOK, Ledger, HasAccount, Open
<1>9. Unverified'
  BY <1>1, <1>2, <1>5, RegistrationAssumption DEF RegistrationInv, Unverified
<1>10. Apart' /\ Fresh'
  BY <1>1, <1>2 DEF RegistrationInv, Apart, Fresh, CopySteps
<1>11. OneOrder' /\ RecordKept'
  BY <1>2 DEF RegistrationInv, OneOrder, RecordKept
<1>12. Linked'
  <2>1. \A p \in Orders : madeFor[p] = g => p = o \/ g \in disturbed
    BY <1>3, RegistrationAssumption DEF RegistrationInv, OneOrder
  <2> QED
    BY <1>1, <1>2, <1>3, <1>5, <2>1 DEF RegistrationInv, RegistrationTypeOK, Linked, Open
<1>13. Closing'
  <2>1. student \subseteq Orders /\ \A p \in student : madeFor[p] \in Registrations
    BY DEF RegistrationInv, RegistrationTypeOK, Ledger
  <2>2. \A p \in student : madeFor[p] = g => g \in disturbed \/ p \in lent
    BY <1>2, <1>3 DEF RegistrationInv, Fresh, CopySteps
  <2> QED
    BY <1>1, <1>2, <1>5, <2>1, <2>2 DEF RegistrationInv, Closing, Open
<1>14. Accounted'
  BY <1>1, <1>2 DEF RegistrationInv, Accounted, HasAccount
<1> QED
  BY <1>6, <1>7, <1>8, <1>9, <1>10, <1>11, <1>12, <1>13, <1>14 DEF RegistrationInv

\* The account is created once, for a payment of its own registration.
LEMMA CommitKeeps ==
    ASSUME RegistrationInv, NEW r \in Handlers, FinalizeCommit(r)
    PROVE  RegistrationInv'
<1> USE DEF redisVars, gatewayVars, webhookVars
<1>1. /\ do[r] = "finalize" /\ ~HasAccount(reg[r])
      /\ UNCHANGED <<mobile, used, redisVars, gatewayVars, webhookVars, lost, crashes, disturbed, lent>>
  BY DEF FinalizeCommit
<1>2. /\ do' \in [Handlers -> RegistrationSteps]
      /\ do'[r] = "cleanup" /\ \A q \in Handlers : q # r => do'[q] = do[q]
      /\ UNCHANGED <<reg, order, hook>>
  BY Going DEF RegistrationInv, RegistrationSteps, FinalizeSteps, FinalizeCommit
<1>3. PICK g \in Registrations, o \in Orders :
         /\ g = reg[r] /\ o = order[r] /\ o \in paid /\ g \in used
         /\ madeFor[o] = g \/ o \in lent
         /\ madeFor[o] \in Registrations
  BY <1>1, Reading DEF RegistrationInv, Remembered, OrderSteps, PaidSteps, FinalizeSteps
<1>4. PICK m \in Mobiles : m = mobile[g] /\ account[m] = NoAccount
  BY <1>1, <1>3 DEF RegistrationInv, RegistrationTypeOK, HasAccount
<1>5. /\ account' = [account EXCEPT ![m] = o] /\ tx' = [tx EXCEPT ![o] = "CAPTURED"]
      /\ student' = student \cup {o}
  BY <1>3, <1>4 DEF FinalizeCommit
<1>6. /\ account'[m] = o /\ \A n \in Mobiles : n # m => account'[n] = account[n]
      /\ tx'[o] = "CAPTURED" /\ \A p \in Orders : p # o => tx'[p] = tx[p]
  BY <1>5 DEF RegistrationInv, RegistrationTypeOK
<1>7. o # NoAccount
  BY RegistrationAssumption
<1>8. \A h \in Registrations : HasAccount(h) => HasAccount(h)'
  BY <1>1, <1>4, <1>6 DEF RegistrationInv, RegistrationTypeOK, HasAccount
<1>9. HasAccount(g)'
  BY <1>1, <1>4, <1>6, <1>7 DEF HasAccount
<1>10. RegistrationTypeOK'
  BY <1>1, <1>2, <1>3, <1>5 DEF RegistrationInv, RegistrationTypeOK, TxStatuses
<1>11. Remembered'
  BY <1>1, <1>2, <1>3, <1>8, <1>9, Reading
  DEF RegistrationInv, Remembered, OrderSteps, PaidSteps, FinalizeSteps
<1>12. Ledger'
  BY <1>1, <1>3, <1>4, <1>5, <1>6, <1>8, <1>9 DEF RegistrationInv, Ledger, Open
<1>13. Unverified' /\ Apart'
  BY <1>1, <1>2 DEF RegistrationInv, Unverified, Apart, CopySteps, FinalizeSteps
<1>14. Fresh'
  <2>1. \A q \in Handlers : do[q] \in CopySteps /\ reg[q] = g => g \in disturbed
    BY <1>1, <1>3 DEF RegistrationInv, Apart, CopySteps
  <2> QED
    BY <1>1, <1>2, <1>3, <1>5, <2>1 DEF RegistrationInv, Fresh, CopySteps
<1>15. OneOrder' /\ RecordKept'
  BY <1>1, <1>3, <1>5, <1>6 DEF RegistrationInv, RegistrationTypeOK, OneOrder, RecordKept
<1>16. Linked' /\ Closing'
  BY <1>1, <1>2, <1>3, <1>5 DEF RegistrationInv, Linked, Closing, Open
<1>17. Accounted'
  <2>1. \A p \in marked \cup answered : madeFor[p] \in Registrations
    BY Reading DEF RegistrationInv, RegistrationTypeOK, Ledger
  <2> QED
    BY <1>1, <1>2, <1>8, <2>1 DEF RegistrationInv, Accounted
<1> QED
  BY <1>10, <1>11, <1>12, <1>13, <1>14, <1>15, <1>16, <1>17 DEF RegistrationInv

-----------------------------------------------------------------------------
(* The student, the gateway and the clock *)

\* A registration begins without an order, is paid, or expires.
LEMMA ElsewhereKeeps ==
    ASSUME RegistrationInv,
           \/ \E g \in Registrations : RegisterStudent(g) \/ Expire(g)
           \/ \E o \in Orders : Pay(o)
    PROVE  RegistrationInv'
<1> USE DEF redisVars, gatewayVars, databaseVars, webhookVars, handlerVars
<1>1. ASSUME NEW g \in Registrations, RegisterStudent(g) \/ Expire(g) PROVE RegistrationInv'
  <2>1. /\ UNCHANGED <<mobile, gatewayVars, databaseVars, webhookVars, handlerVars, lost, crashes,
                       disturbed, lent>>
        /\ used \subseteq used' /\ used' \subseteq used \cup {g}
    BY <1>1 DEF RegisterStudent, Expire
  <2>2. \/ /\ pending' = [pending EXCEPT ![g] = "PENDING_OTP"] /\ UNCHANGED orderOf
           /\ g \notin used /\ g \in used'
        \/ /\ pending' = [pending EXCEPT ![g] = "none"]
           /\ orderOf' = [orderOf EXCEPT ![g] = NoOrder]
    BY <1>1 DEF RegisterStudent, Expire
  <2>3. ASSUME g \notin used
        PROVE  /\ \A o \in Orders : madeFor[o] # g
               /\ \A r \in Handlers : reg[r] # g
               /\ orderOf[g] = NoOrder
    <3>1. \A o \in Orders : madeFor[o] # g
      BY <2>3, RegistrationAssumption DEF RegistrationInv, Ledger
    <3>2. \A r \in Handlers : reg[r] # g
      BY <2>3, RegistrationAssumption DEF RegistrationInv, Remembered
    <3>3. orderOf[g] = NoOrder
      BY <3>1 DEF RegistrationInv, RegistrationTypeOK, Ledger
    <3> QED
      BY <3>1, <3>2, <3>3
  <2>4. \A h \in Registrations : h # g => pending'[h] = pending[h] /\ orderOf'[h] = orderOf[h]
    BY <2>2 DEF RegistrationInv, RegistrationTypeOK
  <2>5. \/ pending'[g] = "none" /\ orderOf'[g] = NoOrder
        \/ pending'[g] = "PENDING_OTP" /\ orderOf'[g] = NoOrder /\ g \notin used /\ g \in used'
    BY <2>2, <2>3 DEF RegistrationInv, RegistrationTypeOK
  <2>6. RegistrationTypeOK'
    BY <2>1, <2>2 DEF RegistrationInv, RegistrationTypeOK, PendingStatuses
  <2>7. Remembered' /\ Apart' /\ Fresh' /\ OneOrder' /\ RecordKept' /\ Accounted'
    BY <2>1 DEF RegistrationInv, Remembered, Apart, Fresh, OneOrder, RecordKept, Accounted, HasAccount
  <2>8. Ledger'
    BY <2>1, <2>4, <2>5 DEF RegistrationInv, Ledger, HasAccount, Open
  <2>9. Unverified'
    BY <2>1, <2>3, <2>4, <2>5 DEF RegistrationInv, Unverified
  <2>10. Linked'
    BY <2>1, <2>3, <2>4, <2>5 DEF RegistrationInv, RegistrationTypeOK, Linked, Open
  <2>11. Closing'
    <3>1. student \subseteq Orders /\ \A o \in student : madeFor[o] \in Registrations
      BY DEF RegistrationInv, RegistrationTypeOK, Ledger
    <3> QED
      BY <2>1, <2>3, <2>4, <2>5, <3>1 DEF RegistrationInv, Closing, Open
  <2> QED
    BY <2>6, <2>7, <2>8, <2>9, <2>10, <2>11 DEF RegistrationInv
<1>2. ASSUME NEW o \in Orders, Pay(o) PROVE RegistrationInv'
  <2>1. /\ o \in issued /\ paid' = paid \cup {o}
        /\ UNCHANGED <<mobile, used, redisVars, madeFor, issued, databaseVars, webhookVars,
                       handlerVars, lost, crashes, disturbed, lent>>
    BY <1>2 DEF Pay
  <2>2. RegistrationTypeOK' /\ Remembered' /\ Ledger'
    BY <2>1 DEF RegistrationInv, RegistrationTypeOK, Remembered, Ledger, HasAccount, Open
  <2>3. Unverified' /\ Apart' /\ Fresh'
    BY <2>1 DEF RegistrationInv, Unverified, Apart, Fresh
  <2>4. OneOrder' /\ RecordKept' /\ Linked' /\ Closing' /\ Accounted'
    BY <2>1 DEF RegistrationInv, OneOrder, RecordKept, Linked, Closing, Accounted, HasAccount, Open
  <2> QED
    BY <2>2, <2>3, <2>4 DEF RegistrationInv
<1> QED
  BY <1>1, <1>2

-----------------------------------------------------------------------------
(* Every step *)

\* Every step of a request keeps the invariant.
LEMMA HandlingKeeps ==
    ASSUME RegistrationInv, NEW r \in Handlers, Handle(r)
    PROVE  RegistrationInv'
<1>1. CASE VerifyOtpWrite(r)
  BY <1>1, OtpKeeps
<1>2. CASE CreateOrderGateway(r)
  <2>1. CASE UNCHANGED madeFor
    BY <1>2, <2>1, EndingsKeep
  <2>2. CASE ~UNCHANGED madeFor
    <3>1. PICK o \in FreeOrders :
             /\ do[r] = "order"
             /\ madeFor' = [madeFor EXCEPT ![o] = reg[r]] /\ order' = [order EXCEPT ![r] = o]
             /\ do' = [do EXCEPT ![r] = "upsert"] /\ UNCHANGED <<reg, hook>>
             /\ UNCHANGED <<mobile, used, redisVars, issued, paid, databaseVars, webhookVars, lost,
                            crashes, disturbed, lent>>
      BY <1>2, <2>2 DEF CreateOrderGateway
    <3> QED
      BY <3>1, GatewayKeeps
  <2> QED
    BY <2>1, <2>2
<1>3. CASE CreateOrderUpsert(r)
  BY <1>3, UpsertKeeps
<1>4. CASE CreateOrderSave(r)
  BY <1>4, SaveKeeps
<1>5. CASE VerifyPaymentCheck(r)
  <2>1. \/ Goto(r, "check") /\ order[r] \in paid /\ UNCHANGED tx
        \/ EndRequest(r)
    BY <1>5 DEF VerifyPaymentCheck
  <2> QED
    BY <1>5, <2>1, GoingsKeep, EndingsKeep
<1>6. CASE FinalizeCheck(r)
  BY <1>6, GoingsKeep, EndingsKeep
<1>7. CASE FinalizeCommit(r)
  BY <1>7, CommitKeeps
<1>8. CASE FinalizeRefused(r) \/ FinalizeFails(r) \/ FinalizeCleanup(r)
  BY <1>8, EndingsKeep
<1>9. CASE WebhookMark(r)
  BY <1>9, GoingsKeep
<1>10. CASE WebhookLoad(r)
  BY <1>10, GoingsKeep, EndingsKeep
<1> QED
  BY <1>1, <1>2, <1>3, <1>4, <1>5, <1>6, <1>7, <1>8, <1>9, <1>10 DEF Handle

\* The system starts without registrations, orders and accounts.
LEMMA RegistrationInitInv == RegistrationInit => RegistrationInv
<1> SUFFICES ASSUME RegistrationInit PROVE RegistrationInv
  OBVIOUS
<1> USE RegistrationAssumption, CrashesAssumption DEF RegistrationInit
<1>1. RegistrationTypeOK
  BY DEF RegistrationTypeOK, PendingStatuses, TxStatuses, RegistrationSteps
<1>2. Remembered
  BY DEF Remembered, OrderSteps, PaidSteps, FinalizeSteps
<1>3. Ledger
  BY DEF Ledger, Open
<1>4. Unverified /\ Apart /\ Fresh
  BY DEF Unverified, Apart, Fresh, CopySteps
<1>5. OneOrder /\ RecordKept /\ Linked /\ Closing /\ Accounted
  BY DEF OneOrder, RecordKept, Linked, Closing, Accounted
<1> QED
  BY <1>1, <1>2, <1>3, <1>4, <1>5 DEF RegistrationInv

\* Every step keeps the invariant.
LEMMA RegistrationNextInv == RegistrationInv /\ [RegistrationNext]_registrationVars => RegistrationInv'
<1> SUFFICES ASSUME RegistrationInv, [RegistrationNext]_registrationVars PROVE RegistrationInv'
  OBVIOUS
<1>1. ASSUME NEW r \in Handlers, Receive(r) \/ Handle(r) \/ RequestDies(r) PROVE RegistrationInv'
  BY <1>1, ReceiveKeeps, HandlingKeeps, EndingsKeep
<1>2. CASE \/ \E g \in Registrations : RegisterStudent(g) \/ Expire(g)
           \/ \E o \in Orders : Pay(o)
  BY <1>2, ElsewhereKeeps
<1>3. CASE UNCHANGED registrationVars
  <2> USE <1>3 DEF registrationVars, redisVars, gatewayVars, databaseVars, webhookVars, handlerVars
  <2>1. RegistrationTypeOK' /\ Remembered' /\ Ledger' /\ Unverified'
    BY DEF RegistrationInv, RegistrationTypeOK, Remembered, Ledger, Unverified, HasAccount, Open
  <2>2. Apart' /\ Fresh' /\ OneOrder' /\ RecordKept' /\ Linked' /\ Closing' /\ Accounted'
    BY DEF RegistrationInv, Apart, Fresh, OneOrder, RecordKept, Linked, Closing, Accounted,
           HasAccount, Open
  <2> QED
    BY <2>1, <2>2 DEF RegistrationInv
<1> QED
  BY <1>1, <1>2, <1>3 DEF RegistrationNext

\* The invariant of the paid registration holds in every state.
LEMMA RegistrationInvariant == RegistrationSpec => []RegistrationInv
BY RegistrationInitInv, RegistrationNextInv, PTL DEF RegistrationSpec

\* What the invariant says of the payments, the accounts and the events
LEMMA TrailOfInv == RegistrationInv => PaymentTrail
<1> SUFFICES ASSUME RegistrationInv PROVE PaymentTrail
  OBVIOUS
<1>1. AccountIsPaid
  BY DEF RegistrationInv, Ledger, AccountIsPaid
<1>2. Closed
  BY DEF RegistrationInv, Ledger, Closing, Closed
<1>3. EventAccounted
  BY DEF RegistrationInv, Accounted, EventAccounted
<1> QED
  BY <1>1, <1>2, <1>3 DEF RegistrationInv, PaymentTrail

\* auth.service: whatever requests overlap, die or are repeated, an account was paid
\* for, with an order of a registration of its mobile number unless a registration
\* without an order took another's; a registration nobody disturbed has one order, and
\* if nobody took it, keeps its captured payment and is closed; and the answer to an
\* event is backed by an account, a request that still runs, an order that was taken, or
\* a loss that was logged.
THEOREM PaymentTrailHolds == RegistrationSpec => []PaymentTrail
BY RegistrationInvariant, TrailOfInv, PTL

\* auth.service: the registrations, orders, payments and requests have their types.
THEOREM RegistrationTypeCorrect == RegistrationSpec => []RegistrationTypeOK
<1>1. RegistrationInv => RegistrationTypeOK
  BY DEF RegistrationInv
<1> QED
  BY <1>1, RegistrationInvariant, PTL

-----------------------------------------------------------------------------
(* Beside each other *)

\* Sessions, registrations and bills, put beside the others, behave as they do alone.
LEMMA PartsAlone == AccountsSpec => Spec /\ RegistrationSpec /\ BillingSpec
<1>1. AccountsInit => Init /\ RegistrationInit /\ BillingInit
  BY DEF AccountsInit
<1>2. [AccountsNext]_<<part, vars, registrationVars, billingVars, importerVars>> =>
          [Next]_vars /\ [RegistrationNext]_registrationVars /\ [BillingNext]_billingVars
  BY DEF AccountsNext
<1> QED
  BY <1>1, <1>2, PTL DEF AccountsSpec, Spec, RegistrationSpec, BillingSpec

\* What happens to the bank and the import is a step of an import, which has the
\* staff beside it, or one of the staff alone.
LEMMA ImporterSteps ==
    ASSUME [AccountsNext]_<<part, vars, registrationVars, billingVars, importerVars>>
    PROVE  ImportNext \/ (BankNext /\ UNCHANGED importVars) \/ UNCHANGED importerVars
BY DEF AccountsNext

LEMMA ImporterBeside ==
    AccountsSpec => []ImporterInv /\ [][ApprovedAsRead' /\ TrailComplete' /\ ApprovalStands]_bankVars
<1>1. AccountsInit => ImporterInv
  BY ImporterInit DEF AccountsInit
<1>2. ImporterInv /\ [AccountsNext]_<<part, vars, registrationVars, billingVars, importerVars>> =>
          ImporterInv' /\ [ApprovedAsRead' /\ TrailComplete' /\ ApprovalStands]_bankVars
  BY ImporterSteps, ImporterKeeps, ImporterReviews
<1> QED
  BY <1>1, <1>2, PTL DEF AccountsSpec

\* The rows, the requests and the operations of every part have values of their types.
THEOREM AccountsTypeCorrect == AccountsSpec => []AccountsTypeOK
<1>1. TypeOK /\ RegistrationTypeOK /\ BillingTypeOK /\ ImportTypeOK => AccountsTypeOK
  BY DEF AccountsTypeOK
<1> QED
  BY <1>1, PartsAlone, TypeCorrect, RegistrationTypeCorrect, BillingTypeCorrect,
     ImporterBeside, ImporterTypes, PTL

\* What is proved of every part alone, of the staff and of the imports, holds of
\* them beside each other: tokens, payments, mails, numbers, versions and rows are
\* safe, sessions behave as the register says, and verdicts and reviews stand.
THEOREM AccountsAreSafe ==
    AccountsSpec =>
        /\ [](/\ TokensSafe /\ PaymentTrail /\ OneMailJob /\ Sequential
              /\ VersionsKept /\ RowsImported)
        /\ BehavesAsRegister /\ VerdictsKept /\ QuestionsReviewed
<1>1. ImporterInv => VersionsKept /\ RowsImported
  BY VersionsOfInv, RowsOfInv DEF ImporterInv
<1>2. AccountsSpec => [](VersionsKept /\ RowsImported)
  BY <1>1, ImporterBeside, PTL
<1>3. AccountsSpec => QuestionsReviewed
  BY ImporterBeside, PTL DEF QuestionsReviewed
<1>4. AccountsSpec => [](TokensSafe /\ PaymentTrail /\ OneMailJob /\ Sequential)
  BY PartsAlone, TokensAreSafe, PaymentTrailHolds, OneMailIsKept, NumbersAreSequential, PTL
<1>5. AccountsSpec => BehavesAsRegister /\ VerdictsKept
  BY PartsAlone, ImplementsRegister, VerdictsAreKept
<1> QED
  BY <1>2, <1>3, <1>4, <1>5, PTL
=============================================================================
