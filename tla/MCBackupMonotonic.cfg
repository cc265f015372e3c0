SPECIFICATION Spec
CONSTANTS
    a1 = a1  a2 = a2  o1 = o1  o2 = o2
    Hosts = {main, spare}
    Primary = main
    Wallets = {wa, wb}
    Approvals = {a1, a2}
    ApprovalEpoch <- MCEpoch
    Operations = {o1, o2}
    ApprovalOf <- MCApproval
    Revocations = {r1}
    Updates = {u1}
    StandingApprovals = {a1}
    StandingUpdates = {}
    MaxMutations = 2
    MaxBackups = 2
    MaxNumber = 0
CHECK_DEADLOCK FALSE
PROPERTY RestoreIsMonotonic
