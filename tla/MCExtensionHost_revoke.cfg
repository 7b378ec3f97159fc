CONSTANTS
    Order <- MCOrderTwo
    Reviewers = {"r"}
    Privileged = {"t", "r"}
    Project = {}
    Passive = {}
    Package <- MCPackage
    Source <- MCPackage
    Selectors = {"id"}
    MaxCommands = 2
    MaxOutside = 0
    MaxTurns = 0
SPECIFICATION Spec
INVARIANTS RevokeStopsHost
CHECK_DEADLOCK FALSE
