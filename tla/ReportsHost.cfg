\* Reports: two attempts, a lost answer, a clock that is set back once, and a
\* snapshot whose catalog the server cannot hold.  The service: an upgrade
\* to any of four builds, two faults.
SPECIFICATION BothSpec
CONSTANTS
    Attempts = {a1, a2}
    TooLong = {a1}
    Batch = 2
    MaxClock = 6
    MaxBack = 1
    MaxLost = 1
    Builds = {"old", "new", "broken", "dead"}
    First = "old"
    Broken = {"broken"}
    Dead = {"dead"}
    MaxBoots = 1
    Keep = 1
    MaxNames = 5
    MaxPins = 3
    MaxRestores = 1
    MaxFaults = 2
INVARIANTS ReportsKept NewestShown CatalogServable RollbackKept
PROPERTIES OnlyLongPathsBlock ConfirmedStays BrokenReplaced PinReached
CHECK_DEADLOCK FALSE
