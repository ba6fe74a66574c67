SPECIFICATION Spec
CONSTANTS
    Frame = {f1, f2}
    MaxTries = 2
    MaxPages = 1
INVARIANTS PassDataCopied
