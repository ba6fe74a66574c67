SPECIFICATION Spec
\* the behaviour ends when all jobs are done
CHECK_DEADLOCK FALSE
CONSTANTS
    PlaneCnt = 2
    Cell = 3
    MaxPage = 12
    Parts <- AllParts
    Ranges <- RangesOfPart
    MaxJobs <- JobsOfPart
INVARIANTS ReadsInPlace WritesLand IdleAtReturn
PROPERTIES SameDataEachPass
