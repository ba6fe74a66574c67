SPECIFICATION MCSpec
CONSTANTS
    FlhNumber = 2
    MaxPolls = 2
    Frame = {f1, f2, f3}
    MaxTries = 3
    MaxPages = 2
    Arg = {0, 1, 3, 6, 255}
    FlashTypes = {0, 4}
    BankTable <- DealtOut
INVARIANTS LevelsRestored WholeReadArrives RunsInItsBank
PROPERTIES FailureReported SettledAtReturn
SYMMETRY Symmetry
