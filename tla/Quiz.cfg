SPECIFICATION Spec
CONSTANTS
    Clicks = {c1, c2}
    MaxStreams = 2
    MaxQuestions = 3
INVARIANTS
    QueueFollowsStreams
    VerdictIsOfTheQuestionShown
PROPERTIES
    QuizFinishes
CHECK_DEADLOCK FALSE
