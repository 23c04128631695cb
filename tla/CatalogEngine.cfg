\* The catalog: three entries in two batches, one command of the operator, two
\* requests given up; the listing fits in what is captured.  The engine: two
\* snapshots with one short id, a buffer of two chunks, a deadline.  Both parts come to an end.
SPECIFICATION BothSpec
CONSTANTS
    Nodes = 3
    Batch = 2
    Capture = 4
    MaxAsks = 1
    MaxLost = 2
    Requests <- AllRequests
    Snapshots <- TwoSnapshots
    Short <- SameShort
    Foreign <- OldOnes
    Cap = 2
    Stall = 0
    Deadline = 2
    MaxKiBps = 2
    Codes <- FewCodes
    MaxStatus = 1
INVARIANTS ReadyComplete ResultIsEvidence SummaryNotLost
PROPERTIES ReadyStays UploadEnds RunEnds ImplementsCall
CHECK_DEADLOCK FALSE
