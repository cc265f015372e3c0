SPECIFICATION Spec
CONSTANTS
    k1 = k1  k2 = k2
    Keys = {k1, k2}
    Events = {x}
    Configs <- MCConfigs
    MaxEntries = 2
    RpcConnections = {r1}
    ControlConnections = {c1}
INVARIANTS
    CacheSound JournalFaultExplained NeverBehindCheckpoint
    AcknowledgedIsCheckpointed CleanStopIsPublished
PROPERTIES SessionEnds
