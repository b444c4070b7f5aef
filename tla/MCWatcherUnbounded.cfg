SPECIFICATION BoundedSpec
CONSTANTS
    Query = {q1}
    Name = {orders}
    Selected = {orders}
    live = live
    old = old
    sick = sick
    Instance <- MCInstance
    Healthy <- MCHealthy
    RegistryLists <- MCRegistryLists
    DiskLists <- MCDiskLists
    NoEntry = NoEntry
    Threshold = 2
    Backoff = 1
    SdkMayFail = FALSE
    MaxChanges = 1
PROPERTY EveryQueryAnswers
