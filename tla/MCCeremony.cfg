SPECIFICATION Spec
CONSTANTS
    w1 = w1  a1 = a1  MCExpires = 2
    Wallets = {w1, w2}
    Approvals = {a1, a2}
    Operations = {o1, o2, o3}
    Credentials = {c1, c2, c3}
    ApprovalWallet <- MCWallet
    ApprovalEpoch <- MCEpoch
    ApprovalExpires <- MCApprovalExpires
    MaxEpoch = 1
    MaxTime = 2
    CeremonyTtl = 1
    MaxGeneration = 2
    ReadsMayFail = FALSE
SYMMETRY Symmetry
INVARIANTS
    MemoryIsDurable AFactorRemains RetiredStaysRetired
    OvertakenNeverSucceeds OutcomesAgree
