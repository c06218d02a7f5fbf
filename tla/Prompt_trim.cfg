SPECIFICATION Spec
CONSTANTS
    CharsPerToken = 2
    Heading <- MCHeading
    MinEntryBudget = 4
    EntryPercent = 15
    MinRetained = 2
    Capabilities <- MCCapabilities
    Configs <- MCConfigs
    Requests <- MCRequests
    CandidateSets <- MCCandidateSets
    MinCompletion = 3
    MinMemory = 4
    MemoryPercent = 40
    RetrieveK = 3
    ShortWindow = 2
    SystemText <- MCSystemText
    Sources <- MCSources
INVARIANTS
    OptionalBlocksNeverFail
