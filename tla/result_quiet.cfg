SPECIFICATION FairSpec
CONSTANTS
    Attempts = {a1, a2}
    Admins = {p1}
    NoAttempt = NoAttempt
    Live = TRUE
    Late = FALSE
    Quiet = TRUE
    Operations = {"upload", "publish", "dashboard", "view", "review"}
    MaxKeys = 2
    JobAttempts = 2
    MaxFailures = 0
INVARIANT PublishedComplete
PROPERTIES
    PublicationStable
    ReleaseSpec
    KeyLeadsToResults
CHECK_DEADLOCK FALSE
