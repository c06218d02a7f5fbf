SPECIFICATION Spec
CONSTANTS
    NumChapters = 3
    MaxEdits = 2
    Offset = 10
    MaxEntries = 2
INVARIANTS
    StoryContextIsPrior
    EachChapterToldOnce
    EditsNeverFailContinuation
PROPERTIES
    ReorderObeyed
CHECK_DEADLOCK FALSE
