\* Two wallets share the slot, two rows of a wallet share its turns.
SPECIFICATION FairSpec
CONSTANTS
    a1 = a1
    a2 = a2
    a3 = a3
    w1 = w1
    w2 = w2
    Allowances = {a1, a2, a3}
    Wallets = {w1, w2}
    WalletOf <- TwoWallets
    FirstOrder <- QueryOrder
    MaxRunning = 1
    Batch = 1
    Minute = 1
    FallDue = {}
    None = None
PROPERTIES
    EveryReadyRowProcessed
