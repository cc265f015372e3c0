SPECIFICATION Spec
CONSTANTS
    a1 = a1  a2 = a2  wal = wal
    MaxTime = 2
    MaxEpoch = 2
    Wallets = {wal}
    Approvals = {a1, a2}
    RevocationIds = {i1, i2}
    Reasons = {compromised}
    ApprovalWallet <- MCWallet
    ApprovalEpoch <- MCEpoch
INVARIANTS
    AcknowledgedStaysRevoked
PROPERTIES
    ImplementsAuthority
