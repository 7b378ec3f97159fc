CONSTANTS
    Order <- MCOrder
    Reviewers = {"r"}
    Privileged = {"r"}
    Project = {"p"}
    Passive = {}
    Package <- MCPackage
    Source <- MCSource
    Selectors = {"id", "source"}
    MaxCommands = 3
    MaxOutside = 1
    MaxTurns = 1
SPECIFICATION Spec
INVARIANTS SnapshotAgrees StaysDown ReviewUndisturbed
CHECK_DEADLOCK FALSE
