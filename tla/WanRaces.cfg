\* Two devices of one site, three attempts; the operator changes the limit,
\* pauses the site and sets it back to unmeasured.  The schedule runs for three
\* days of eight units and stops at the last instant.
SPECIFICATION PartsSpec
CONSTANTS
    Sites <- OneSite
    Devices <- TwoDevices
    Attempts <- ThreeAttempts
    Repeats = {}
    SiteOf <- OneSiteOf
    DeviceOf <- ThreeDeviceOf
    ClassOf <- ThreeClassOf
    SiteConfigs <- OperatorConfigs
    MaxSlot = 2
    TTL = 1
    CircuitTicks = 1
    FlakySites = {}
    LateDevices = {}
    DayLen = 8
    MaxNow = 23
    Period = 2
    Configs <- Revisions
    Default <- Pilot
    Delays <- NoDelays
    Runs <- NoRuns
    Hash <- Hashes
    BootHash <- BootHashes
    MaxKiBps = 2
    Wan = FALSE
    MaxMishaps = 2
INVARIANTS HoldsExclusive DayCovered
PROPERTY GivenBackForGood
CHECK_DEADLOCK FALSE
