SPECIFICATION Spec
CONSTANTS
    w = w  l = l  r = r  n = n  p1 = p1  p2 = p2
    None = None
    Reports <- MCReports
    MaxRevision = 2
    Wallets = {w}
    Recoverable = {w}
    Credentials = {l, r, n}
    WalletOf <- MCWallet
    SurfaceOf <- MCSurface
    Pairings = {p1, p2}
    DestinationOf <- MCDestination
    MaxPairs = 2
    MaxUnlocked = 1
    MaxAttempts = 2
    MaxGeneration = 1
SYMMETRY Symmetry
INVARIANTS
    RemoteIsProven ConfirmedModeIsReal UnlockedIsBounded
PROPERTIES
    EnrolmentIsAuthorised
