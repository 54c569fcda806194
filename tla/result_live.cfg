SPECIFICATION Spec
CONSTANTS
    Attempts = {a1}
    Admins = {p1}
    NoAttempt = NoAttempt
    Live = TRUE
    Late = TRUE
    Quiet = FALSE
    Operations = {"upload", "retryOne", "retryFailed", "calculate", "terminate", "ranks", "publish", "queueDown"}
    MaxKeys = 1
    JobAttempts = 1
    MaxFailures = 1
INVARIANTS
    TypeOK
    EvaluatedAfterKey
CHECK_DEADLOCK FALSE
