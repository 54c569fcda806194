\* Every part stops when its budget is spent: no deadlock check
SPECIFICATION CandidateSpec
CONSTANTS
    a1 = a1
    a2 = a2
    q1 = q1
    q2 = q2
    Attempts = {1, 2, 3}
    AnswerCount = 2
    TimesUsed = {60, 90}
    Papers <- AnsweredPapers
    StudentOf <- RankedStudent
    Uploaders = {a1, a2}
    Students = {s1}
    MaxUploads = 2
    MaxPapers = 3
    MaxErrors = 1
    MaxRequests = 4
    Questions = {q1, q2}
    Clients = {a1, a2}
    Deadline = 1
    MaxTime = 2
    MaxLogs = 3
    MaxTimings = 3
    MaxDeaths = 1
    NoInterval = NoInterval
    NoQuestion = NoQuestion
    Windows = {a1, a2}
    Reviewers = {r1}
    MaxSessions = 2
    MaxEvents = 2
    FlagAt = 2
    MaxUndertaken = 4
    MaxCuts = 1
    PaperQuestions = {q1, q2}
    QuestionRows <- MarkedQuestions
    AnswerRows <- SentAnswers
    MaxAnswers = 2
    DefaultMarks = 4
    DefaultPenalty = 1
    AverageTime = 30
    Benchmark = 40
    Default = Default
    NoOption = NoOption
    NoList = NoList
    NoNumber = NoNumber
    NoAnswer = NoAnswer
    NoRow = NoRow
SYMMETRY CandidateSymmetry
INVARIANTS
    CandidateTypeOK CompetitionRanks OtherRanks StoredWithRank PaperRead ImportsAccounted
    TimeAccounted AnalysisComplete AttemptWatched MarksAgree
CHECK_DEADLOCK FALSE
