\* The loop: a slot, a click and a panel restore, two faults.  The bounds of
\* the second instance are in the module.
SPECIFICATION BothSpec
CONSTANTS
    Jobs <- LoopJobs
    KindOf <- LoopKind
    ProcOf <- LoopProc
    MaxAttempts = 2
    MaxFaults = 2
INVARIANTS GreenIsClean JobMirrorsAttempt ReportsMatchJournal
PROPERTIES SlotStaysGreen MixedSettles
