\* Every part stops when its budget is spent: no deadlock check
SPECIFICATION AccountsSpec
CONSTANTS
    a1 = a1
    a2 = a2
    j1 = j1
    j2 = j2
    i1 = i1
    i2 = i2
    Sessions = {i1, i2}
    Tokens = {1, 2, 3, 4}
    Requests = {a1, a2}
    None = None
    Registrations = {j1, j2}
    Orders = {i1, i2}
    Mobiles = {j1, j2}
    Handlers = {a1, a2}
    MaxCrashes = 1
    NoOrder = NoOrder
    NoRegistration = NoRegistration
    NoAccount = NoAccount
    Clerks = {a1, a2}
    Invoices = {i1, i2}
    ManualBills = {m1}
    Jobs = {j1, j2}
    Issued = 1
    Width = 1
    MaxMoves = 3
    MaxFaults = 1
    NoClerk = NoClerk
    NoBill = NoBill
    Editors = {a1, a2}
    Questions = {i1, i2}
    MaxTasks = 4
    MaxRows = 2
    MaxSlips = 1
    NoQuestion = NoQuestion
SYMMETRY AccountsSymmetry
INVARIANTS
    AccountsTypeOK TokensSafe PaymentTrail OneMailJob Sequential VersionsKept 
PROPERTIES BehavesAsRegister VerdictsKept QuestionsReviewed
CHECK_DEADLOCK FALSE
