\* A wallet and two transactions that move twice on the chain, four operations
\* on the stores (pair, register, revoke, pair again), one failure and one restart.
SPECIFICATION FairSpec
CONSTANTS
    a1 = a1
    a2 = a2
    t1 = t1
    t2 = t2
    Wallets = {w1}
    Addresses = {a1, a2}
    Txs = {t1, t2}
    Touched <- MCTouched
    Offered <- MCOffered
    MaxHeight = 1
    MaxChanges = 2
    MaxEdits = 4
    MaxFaults = 1
    MaxCrashes = 1
    None = None
INVARIANTS
    TypeOK
    NothingUntold
    NewsIsTrue
PROPERTIES
    ToldOnce
    FirstLookIsSilent
    CatchesUp
