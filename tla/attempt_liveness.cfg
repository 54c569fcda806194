SPECIFICATION FairSpec
CONSTANTS
    s1 = s1
    s2 = s2
    live = live
    mock = mock
    r1 = r1
    r2 = r2
    Students = {s1}
    Exams = {live, mock}
    LiveExams = {live}
    NoExam = NoExam
    Languages = {en}
    Questions = {}
    Verdicts = {"CLEARED"}
    Requests = {r1, r2}
    ClientOf <- ClientsOfOneStudent
    AdminSlots = {r2}
    WindowEnd <- Windows
    Duration = 1
    MaxAttempts = 1
    MaxTime = 2
    MaxCrashes = 0
PROPERTY EveryAttemptEnds
