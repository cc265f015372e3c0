SPECIFICATION Spec
CONSTANTS
    wal = wal  key = key  a1 = a1  a2 = a2  b1 = b1  b2 = b2
    NoWorker = NoWorker
    MaxTime = 2
    MaxEpoch = 1
    MaxBatch = 2
    MCLastTick = 1
    MCRates <- MCNoRates
    Wallets = {wal}
    Keys = {key}
    Approvals = {a1, a2}
    Bindings = {b1, b2}
    Operations = {o1, o2}
    Attempts = {t1, t2}
    Workers = {w1}
    ApprovalWallet <- MCWallet
    ApprovalEpoch <- MCEpoch
    Terms <- MCTerms
    SignatureCount <- MCCount
    Admits <- MCAdmits
    AttemptWindows <- MCWindows
SYMMETRY Symmetry
INVARIANTS
    NoDoubleSigning RefusalsAreHonest LifetimeLimitsHold CountersExact
