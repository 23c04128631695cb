\* Two sites, each with a device that runs its first backup.
SPECIFICATION Spec
CONSTANTS
    Sites <- TwoSites
    Devices <- TwoDevices
    Attempts <- TwoAttempts
    Repeats = {}
    SiteOf <- TwoSiteOf
    DeviceOf <- TwoDeviceOf
    ClassOf <- TwoSeeds
    SiteConfigs <- OneSlot
    MaxSlot = 2
    TTL = 2
    CircuitTicks = 1
    FlakySites = {}
    LateDevices = {}
INVARIANT OneGlobalSeed
