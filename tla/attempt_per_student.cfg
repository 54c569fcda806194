SPECIFICATION Spec
CONSTANTS
    s1 = s1
    s2 = s2
    live = live
    mock = mock
    r1 = r1
    r2 = r2
    Students = {s1, s2}
    Exams = {live, mock}
    LiveExams = {live}
    NoExam = NoExam
    Languages = {en}
    Questions = {}
    Verdicts = {"CLEARED"}
    Requests = {r1, r2}
    ClientOf <- ClientPerStudent
    AdminSlots = {}
    WindowEnd <- Windows
    Duration = 1
    MaxAttempts = 2
    MaxTime = 1
    MaxCrashes = 0
INVARIANTS
    SingleLiveAttempt
    OneActiveAttempt
