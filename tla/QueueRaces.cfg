\* Two commands, two faults: races of claim, ack, expiry and crashes, and
\* under fairness what must come of them.
SPECIFICATION FairSpec
CONSTANTS
    MaxCommands = 2
    Kinds = {"RUN_BACKUP", "RESTORE_TO_STAGING"}
    MaxFaults = 2
INVARIANTS OneLiveBackup RunsOnlyOpen
PROPERTIES OneOutcome ResultsArrive CommandsSettle
CHECK_DEADLOCK FALSE
