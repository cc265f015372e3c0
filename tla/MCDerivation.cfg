SPECIFICATION Spec
CONSTANTS
    both = both  evm = evm  sol = sol
    p = p  q = q
    Operations = {both, evm, sol}
    Roles = {p, q}
    FamiliesOf <- MCFamilies
    RoleOf <- MCRole
    InvalidChildren = {1}
    MaxNumber = 2
    NamespaceCap = 1
INVARIANTS
    TypeOK NumbersNotShared RestartSucceeds
    UsableIsCommitted RetirementHolds
