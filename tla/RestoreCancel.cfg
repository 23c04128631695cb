SPECIFICATION Spec
CONSTANTS
    Accounts <- TwoAccounts
    Profile <- TwoProfiles
    ProfilesDir <- UsersDir
    Public <- PublicDir
    Paths <- SomePaths
    Selections <- SomeSelections
    Key <- SomeKeys
    Picks <- SomePicks
    MaxListed = 1
    MaxStarts = 2
    Folders = {1, 2}
    MaxCopies = 2
    MaxFaults = 0
    MaxUnsaved = 0
INVARIANTS CancelledLeavesNothing
CHECK_DEADLOCK FALSE
