\* No fault and no crash; ids are forgotten after 1 tick, so a relay that keeps
\* a request longer has it handled again.
SPECIFICATION Spec
CONSTANTS
    Wallets = {w1}
    Addresses = {a1}
    MaxWatchAddresses = 1
    RequestTypes = {"pair", "unpair", "watch"}
    SecretTTL = 3
    MaxAttempts = 2
    Retention = 1
    Burst = 3
    TokensPerSec = 1
    MaxRequests = 3
    MaxSecrets = 1
    MaxTime = 1
    MaxFaults = 0
    MaxCrashes = 0
    None = None
PROPERTY
    ReplayHarmless
