SPECIFICATION FairSpec
CONSTANTS
    MaxCalls = 3
    Permits = 2
    MaxRetries = 1
    MaxTokens = 2
INVARIANTS
    OneAttempt
    OneCandidate
PROPERTIES
    GeminiAnswersAreWhole
    WaitersServed
CHECK_DEADLOCK FALSE
