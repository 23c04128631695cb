\* One slot, a seed whose request is repeated and a normal backup; the provider
\* fails and the other device falls behind.  Under fairness.  Posts come to an end.
SPECIFICATION PartsSpec
CONSTANTS
    Sites <- OneSite
    Devices <- TwoDevices
    Attempts <- TwoAttempts
    Repeats = {"a1"}
    SiteOf <- OneSiteOf
    DeviceOf <- TwoDeviceOf
    ClassOf <- SeedAndNormal
    SiteConfigs <- OneSlot
    MaxSlot = 2
    TTL = 1
    CircuitTicks = 1
    FlakySites = {"hq"}
    LateDevices = {"d2"}
    Names <- ThreeNames
    Locks <- OneLock
    Contents <- SomeContents
    MaxPosts = 3
    MaxStoreFaults = 1
    Rates <- TwoRates
    MaxPatches = 2
    MaxCapFaults = 2
INVARIANT ObjectsKept
PROPERTIES SlotComesBack CapRestored
CHECK_DEADLOCK FALSE
