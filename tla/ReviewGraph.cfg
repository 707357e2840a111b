SPECIFICATION Spec
INVARIANTS
    TypeOK
    EditorHasWholePanel
    ReviewersHaveContext
    DeliveredDecisionIsEarned
    PathShowsAllWork
    DeliveredRunDidItsPath
    NextNodeIsCurrent
    NoNodeMissesAChannel
    DeliveredRunSpeaks
PROPERTIES
    StagesNeverReplaced
    PercentNeverFalls
    ImplementsProcess
    RunEnds
