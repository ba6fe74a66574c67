SPECIFICATION Spec
CONSTANTS
    ChCnt = 1
    BlkCnt = 3
    PlaneCnt = 3
    PageCnt = 1
    LbnBase = 1
INVARIANTS Conserved Share OneOwner NoHang
PROPERTY RefinesLbnFifo
