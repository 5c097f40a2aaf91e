SPECIFICATION FairSpec
CONSTANT Backends = {"here", "there"}
INVARIANTS StagingOwned AnswerKept GroupGone DirectoryRemoved
PROPERTIES AttemptReturns WorkerStops
CHECK_DEADLOCK FALSE
