SPECIFICATION Spec
CONSTANTS
    Builds = {"old", "new", "broken", "dead"}
    First = "old"
    Broken = {"broken"}
    Dead = {"dead"}
    MaxBoots = 1
    Keep = 1
    MaxNames = 5
    MaxPins = 3
    MaxRestores = 1
    MaxFaults = 0
INVARIANTS RunsGuarded
CHECK_DEADLOCK FALSE
