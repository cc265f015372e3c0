SPECIFICATION Spec
CONSTANTS
    a1 = a1  a2 = a2
    MaxForwardStep = 1
    MaxTime = 3
    MaxMono = 3
    MaxBoot = 2
    Approvals = {a1, a2}
    Expiry <- MCExpiry
INVARIANTS
    UndisturbedIsHealthy
PROPERTIES
    ImplementsTime BoundedAdvance RepairsAreInformed
