\* Reconcile against a restore that runs.
SPECIFICATION Spec
CONSTANTS
    Jobs <- PageJobs
    KindOf <- PageKind
    ProcOf <- PageProc
    MaxAttempts = 1
    MaxFaults = 0
INVARIANT ReconcilesInterrupted
