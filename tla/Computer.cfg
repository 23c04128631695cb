\* Installation: one computer that is installed again, one use of the code.
\* The page: two restores, two copies, one end of the agent.  The folders: two
\* changes by the page, two by the administrator, two failures.
SPECIFICATION PartsSpec
CONSTANTS
    Computers = {pc}
    Codes = {code1}
    MaxUses = 1
    LabMode = FALSE
    MaxTokens = 2
    MaxRequests = 2
    MaxRevokes = 1
    MaxEdits = 1
    MaxFaults = 2
    Accounts <- TwoAccounts
    Profile <- TwoProfiles
    ProfilesDir <- UsersDir
    Public <- PublicDir
    Paths <- SomePaths
    Selections <- SomeSelections
    Key <- SomeKeys
    Picks <- SomePicks
    MaxListed = 1
    MaxStarts = 2
    Folders = {1, 2}
    MaxCopies = 2
    MaxEnds = 1
    MaxUnsaved = 1
    Owner <- FewOwners
    Clean <- Trimmed
    Sensitive = {"a.key"}
    PanelSensitive = {"a.key"}
    Malformed = {"relative"}
    Installed = {"v"}
    Remote <- TwoRemotes
    MaxPosts = 2
    MaxMisreads = 2
INVARIANTS OwnFilesOnly CancelHonoured NothingLost ReportedOnce BackupHasRoots
           SingleUse InstalledWorks RefusedForGood
PROPERTY CopiesKept
CHECK_DEADLOCK FALSE
