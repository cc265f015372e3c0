SPECIFICATION Spec
CONSTANTS
    a1 = a1  a2 = a2  o1 = o1  o2 = o2
    Hosts = {main, spare}
    Primary = main
    Wallets = {wa}
    Approvals = {a1, a2}
    ApprovalEpoch <- MCEpoch
    Operations = {o1, o2}
    ApprovalOf <- MCApproval
    Revocations = {r1}
    Updates = {u1}
    StandingApprovals = {a1}
    StandingUpdates = {}
    MaxMutations = 2
    MaxBackups = 1
    MaxNumber = 1
CHECK_DEADLOCK FALSE
INVARIANT NextNumberIsBeyondEveryPath
