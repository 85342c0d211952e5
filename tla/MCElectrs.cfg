\* The loop, the watcher and one probe, a spacing of 2, timeouts of 3 and 2,
\* a cooldown of 2, and up to 4 calls in line or abandoned.
SPECIFICATION FairSpec
CONSTANTS
    Callers = {transport, watcher, probe}
    Probes = {probe}
    CallSpacing = 2
    Cooldown = 2
    DefaultTimeout = 3
    ProbeTimeout = 2
    MaxCalls = 4
INVARIANT
    TypeOK
PROPERTIES
    TwoPerSpacing
    BreakerDrains
    EveryCallReturns
