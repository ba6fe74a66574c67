SPECIFICATION FairSpec
CONSTANTS
    Kinds = {"file", "checked file", "message", "empty message", "request", "echo", "exit"}
    Retry = 2
    MaxCalls = 3
CHECK_DEADLOCK FALSE
INVARIANTS InStep
PROPERTIES RefinesDelivery CallsReturn
