SPECIFICATION Spec
CONSTANTS
    f1 = f1
    f2 = f2
    f3 = f3
    Files <- MCFiles
    Targets <- MCTargets
    Asked = {}
    Reserved <- MCReserved
    Executes = TRUE
    MaxTx = 2
    MaxOutside = 1
    MaxDecisions = 1
    MaxFaults = 1
INVARIANT AllOrNothing
INVARIANT WriteAhead
PROPERTY Authorised
PROPERTY NoBlindOverwrite
