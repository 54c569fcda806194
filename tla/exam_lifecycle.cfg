\* Every part stops when its budget is spent: no deadlock check
SPECIFICATION StaffSpec
CONSTANTS
    a = a
    b = b
    Staff = {a, b}
    MaxSlots = 2
    MaxRequests = 1
    Horizon = 2
    MaxOperations = 3
    m1 = m1
    m2 = m2
    Officers = {a, b}
    Lines = {1, 2, 3}
    Phones = {m1, m2}
    NoPhone = NoPhone
    Outside = Outside
    MaxForms = 2
    MaxBegun = 4
    Sittings = {m1, m2}
    Tasks = {a, b}
    MaxSeconds = 2
    MaxMoves = 2
    MaxFaults = 1
    NoNote = NoNote
    NoSlot = NoSlot
SYMMETRY StaffSymmetry
INVARIANTS StaffTypeOK  RemindersFollow
PROPERTIES ReviewsStand  UploadsStand
CHECK_DEADLOCK FALSE
