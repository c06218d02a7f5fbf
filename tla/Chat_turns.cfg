SPECIFICATION FairSpec
CONSTANTS
    MaxRequests = 3
    MaxRetries = 1
    Threshold = 2
    MaxRestarts = 1
INVARIANTS
    OneAnswerPerMessage
    AnswersInOrder
    SummariesExtend
PROPERTIES
    SessionReopens
    QueueDrains
CHECK_DEADLOCK FALSE
