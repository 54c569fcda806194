SPECIFICATION Spec
CONSTANTS
    Attempts = {a1, a2}
    Admins = {p1}
    NoAttempt = NoAttempt
    Live = TRUE
    Late = FALSE
    Quiet = TRUE
    Operations = {"upload", "publish", "view"}
    MaxKeys = 1
    JobAttempts = 2
    MaxFailures = 0
SYMMETRY AttemptSymmetry
INVARIANTS
    RanksCurrent
CHECK_DEADLOCK FALSE
