\* Two senders, a burst of 3 refilled by 1 a second, a window of up to 4
\* seconds on a clock of 0..4 that can be set back, one restart.
SPECIFICATION Spec
CONSTANTS
    Keys = {k1, k2}
    Burst = 3
    TokensPerSec = 1
    NoBucket = NoBucket
    MaxTime = 4
    MaxElapsed = 4
    MaxRestarts = 1
INVARIANTS
    TypeOK
    WindowBound
