SPECIFICATION Spec
CHECK_DEADLOCK FALSE
CONSTANTS
    ChCnt = 2
    BlkCnt = 2
    PlaneCnt = 2
    PageCnt = 2
    Byte = {0, 1, 2, 12}
    Word = {0, 1}
    Ver = {1}
    MaxCycles = 5
INVARIANTS RegisterServesRead TargetIsOwn FirstPlaneOnly
PROPERTIES ProgramsAsOpened
