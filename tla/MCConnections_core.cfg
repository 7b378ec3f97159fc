CONSTANTS
    Procs = {p1, p2}
    Ids = {i1, i2}
    Providers = {api, chat}
    Subscription = chat
    Keys = {k1}
    Accounts = {1, 2}
    MAX_CONNECTIONS = 2
    MAX_RETIRED_KEYS = 1
    MaxOps = 3
    MaxFaults = 1
    Conns = {c1, chatgpt}
    Chat = chatgpt
    MaxRequests = 2
    MaxMutations = 1
    MaxVersion = 2
    MaxOutside = 1
    MaxEvents = 3
SPECIFICATION ConnectionsSpec
INVARIANTS RowsAreSound CredentialKept AdoptIsWhatWasSeen RefreshIsHonest
PROPERTY RefreshCatchesUp
CHECK_DEADLOCK FALSE
