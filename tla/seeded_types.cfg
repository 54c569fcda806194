\* A behaviour ends with the last row: no deadlock check
SPECIFICATION MarkingSpec
CONSTANTS
    PaperQuestions = {q1, q2}
    QuestionRows <- SeededQuestions
    AnswerRows <- SentAnswers
    MaxAnswers = 2
    DefaultMarks = 4
    DefaultPenalty = 1
    AverageTime = 30
    Benchmark = 40
    Default = Default
    NoOption = NoOption
    NoList = NoList
    NoNumber = NoNumber
    NoAnswer = NoAnswer
    NoRow = NoRow
INVARIANT CorrectOptionsCount
CHECK_DEADLOCK FALSE
