\* All six request types, one wallet, two requests and a burst of one, so that
\* the second request is rate-limited unless the clock moved or the server
\* restarted; secrets expire and ids are forgotten after one tick.  No symmetry,
\* view or constraint, which liveness would not survive.
SPECIFICATION FairSpec
CONSTANTS
    Wallets = {w1}
    Addresses = {a1, a2}
    MaxWatchAddresses = 1
    RequestTypes = {"pair", "unpair", "watch", "read", "unknown", "malformed"}
    SecretTTL = 1
    MaxAttempts = 1
    Retention = 1
    Burst = 1
    TokensPerSec = 1
    MaxRequests = 2
    MaxSecrets = 1
    MaxTime = 1
    MaxFaults = 1
    MaxCrashes = 1
    None = None
INVARIANT
    TypeOK
PROPERTIES
    EveryRequestAnswered
    AtMostOnce
    PairingComponent
    KeepsContract
