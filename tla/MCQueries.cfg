\* Two addresses, in lists with and without repeats, two transactions, a limit that may cut one, and a chain of up to
\* 3 blocks that moves twice.  The handler returns, so the behaviour ends.
SPECIFICATION Spec
CONSTANTS
    a1 = a1
    a2 = a2
    Addresses = {a1, a2}
    Txs = {1, 2}
    Outputs <- MCOutputs
    Maker <- MCMaker
    Owner <- MCOwner
    Value <- MCValue
    Spender <- MCSpender
    Types = {"ping", "balance", "utxos", "history", "transactions", "fees", "broadcast"}
    AddressLists <- MCAddressLists
    TxLists <- MCTxLists
    Limits = {1, None}
    Rates <- MCRates
    MaxQueryAddresses = 2
    MaxTxids = 2
    DefaultHistoryLimit = 2
    MaxHistoryLimit = 2
    MaxHeight = 3
    MaxMoves = 2
    None = None
CHECK_DEADLOCK FALSE
INVARIANTS
    TypeOK
    NothingInvented
    AnchorsHold
    NothingOverlooked
    ExactAtRest
