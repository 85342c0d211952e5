\* Two wallets, two secrets and three requests, so both wallets can be paired
\* and a third request (unpair, watch, a second pair) meets failing writes of
\* the other; the clock stands still: expiry, refill and pruning are for
\* MCNomadServerLive.cfg.  A burst of 3 lets one wallet send all three requests.
SPECIFICATION Spec
CONSTANTS
    Wallets = {w1, w2}
    Addresses = {a1}
    MaxWatchAddresses = 1
    RequestTypes = {"pair", "unpair", "watch"}
    SecretTTL = 1
    MaxAttempts = 1
    Retention = 2
    Burst = 3
    TokensPerSec = 1
    MaxRequests = 3
    MaxSecrets = 2
    MaxTime = 0
    MaxFaults = 2
    MaxCrashes = 1
    None = None
SYMMETRY WalletSymmetry
VIEW ServerView
ACTION_CONSTRAINT PublishJustInTime
INVARIANTS
    OnlyProvenWallets
    StatusDurable
    WatchSetDurable
    UnpairedIsForgotten
