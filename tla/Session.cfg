SPECIFICATION FairSpec
CONSTANTS
    MaxFaults = 3
    SectorNo = 3
    UbCount = 2
    JumpLoops = 3
    JumpRetries = 5
    SettleRetries = 17
    BurnerAnswersBootId = TRUE
INVARIANTS LoadedMeansBurner StartsWholeImage
PROPERTIES ProgramsInRom BurnerStays RetriesReachBurner
