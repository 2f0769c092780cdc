\* Fewer slots than wallets and smaller batches than wallets have rows.
SPECIFICATION HealthSpec
CONSTANTS
    a1 = a1
    a2 = a2
    a3 = a3
    w1 = w1
    w2 = w2
    Allowances = {a1, a2, a3}
    Wallets = {w1, w2}
    WalletOf <- TwoWallets
    FirstOrder <- QueryOrder
    MaxRunning = 1
    Batch = 1
    Minute = 1
    FallDue = {a1, a2, a3}
    None = None
SYMMETRY Twins
INVARIANTS
    TypeOK
    HealthInv
    SlotsBounded
    NoIdleSlot
    UnhealthyOnlyIfSilent
PROPERTIES
    TasksNeverDropped
    FailureReported
