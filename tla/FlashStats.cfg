SPECIFICATION StatsSpec
CONSTANTS
    ChCnt = 1
    BlkCnt = 1
    PlaneCnt = 2
    PageCnt = 1
    EntryPerPage = 1
    PagePerBank = 2
    LbnBase = 1
    Ver = {1}
    EofAddr = {}
    CrLfAddr = {}
    EofVer = {}
    Opens = {TRUE, FALSE}
    MaxCount = 3
INVARIANTS ColdMissesOnly ErasuresCounted CellsDisjoint
PROPERTIES WritesLandHome
\* the handler may end in its endless loop when a file cannot be opened
CHECK_DEADLOCK FALSE
