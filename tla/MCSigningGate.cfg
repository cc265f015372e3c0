SPECIFICATION Spec
CONSTANTS
    wal = wal  key = key  a1 = a1  a2 = a2  b1 = b1  b2 = b2
    NoWorker = NoWorker
    MaxTime = 3
    MaxEpoch = 1
    MaxBatch = 1
    MCLastTick = 3
    MCRates <- MCOnePerTwoTicks
    Wallets = {wal}
    Keys = {key}
    Approvals = {a1}
    Bindings = {b1}
    Operations = {o1, o2}
    Attempts = {t1, t2}
    Workers = {w1, w2}
    ApprovalWallet <- MCWallet
    ApprovalEpoch <- MCEpoch
    Terms <- MCTerms
    SignatureCount <- MCCount
    Admits <- MCAdmits
    AttemptWindows <- MCWindows
SYMMETRY Symmetry
INVARIANTS
    RateWindowsHold AtMostOneLateOperation
