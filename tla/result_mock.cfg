SPECIFICATION FairSpec
CONSTANTS
    Attempts = {a1}
    Admins = {p1}
    NoAttempt = NoAttempt
    Live = FALSE
    Late = FALSE
    Quiet = TRUE
    Operations = {"view", "retryOne", "retryFailed", "calculate", "terminate", "ranks"}
    MaxKeys = 0
    JobAttempts = 2
    MaxFailures = 3
INVARIANTS
    NoSilentStall
PROPERTIES
    MockIsPublished
CHECK_DEADLOCK FALSE
