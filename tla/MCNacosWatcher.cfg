SPECIFICATION Spec
CONSTANTS
    Query = {q1, q2}
    Name = {orders, hidden}
    Selected = {orders}
    live = live
    old = old
    sick = sick
    Instance <- MCInstance
    Healthy <- MCHealthy
    RegistryLists <- MCRegistryLists
    DiskLists <- MCDiskLists
    NoEntry = NoEntry
    Threshold = 2
    Backoff = 1
    SdkMayFail = TRUE
    MaxChanges = 1
SYMMETRY QuerySymmetry
INVARIANTS TypeOK UnconfirmedIsNeverUnknown WindowSparesTheServer LedgerIsTracked OneSubscribePerTask
