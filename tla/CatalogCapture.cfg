\* The listing is longer than what is captured.
SPECIFICATION Spec
CONSTANTS
    Nodes = 3
    Batch = 2
    Capture = 2
    MaxAsks = 1
    MaxLost = 2
INVARIANT ReadyComplete
CHECK_DEADLOCK FALSE
