\* No failure and no crash: a wallet that is already observed adds an address.
SPECIFICATION Spec
CONSTANTS
    a1 = a1
    a2 = a2
    t1 = t1
    t2 = t2
    Wallets = {w1}
    Addresses = {a1, a2}
    Txs = {t1, t2}
    Touched <- MCTouched
    Offered <- MCOffered
    MaxHeight = 1
    MaxChanges = 2
    MaxEdits = 3
    MaxFaults = 0
    MaxCrashes = 0
    None = None
PROPERTY
    NoOldNews
