SPECIFICATION Spec
CONSTANTS
    Attempt = {a1, a2}
    Jobs <- MCJobs
    Diffs <- MCDiffs
    Outputs <- MCOutputs
    MaxCrashes = 1
CHECK_DEADLOCK FALSE
INVARIANTS TypeOK ReviewsAsReported CommentsShownOnce CommentsNearby LinesRefusedOnlyIfStale DiffNotOlder ReactionsFit
PROPERTIES AttemptEnds
