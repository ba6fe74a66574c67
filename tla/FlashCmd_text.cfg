SPECIFICATION Spec
CONSTANTS
    ChCnt = 1
    BlkCnt = 2
    PlaneCnt = 1
    PageCnt = 2
    EntryPerPage = 2
    PagePerBank = 1
    LbnBase = 1
    Ver = {1, 2}
    EofAddr = {2}
    CrLfAddr = {3}
    EofVer = {2}
    Opens = {TRUE}
PROPERTY ReadsOwnAddress
