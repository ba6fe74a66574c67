SPECIFICATION Spec
CONSTANTS
    ChCnt = 1
    BlkCnt = 2
    PlaneCnt = 2
    PageCnt = 2
    EntryPerPage = 2
    PagePerBank = 2
    Lbn = {0, 1}
INVARIANTS TableInv
PROPERTIES WriteBackOnly RefinesLbnMap CallsAreMapCalls
