SPECIFICATION FairSpec
CONSTANTS
    ChCnt = 2
    BlkCnt = 1
    PlaneCnt = 1
    PageCnt = 2
    EntryPerPage = 2
    PagePerBank = 1
    LbnBase = 1
    Ver = {1}
    EofAddr = {}
    CrLfAddr = {}
    EofVer = {}
    Opens = {TRUE}
PROPERTIES ErasesReturn RefinesFlashDevice
