\* Two servers, two addresses, three taps, one failing connect, publish or server write,
\* and one killed process, revocation or server restart.  The user may stop tapping.
SPECIFICATION FairSpec
CONSTANTS
    Servers = {s1,s2}
    Addresses = {a1,a2}
    Attempts = 2
    MaxTaps = 3
    MaxFaults = 1
    MaxMishaps = 1
    None = None
ACTION_CONSTRAINT OneOfAlike
CHECK_DEADLOCK FALSE
INVARIANTS
    TypeOK
    TrustsOnlyGranted
    ScreenMatchesStore
    SnapshotIsWatched
PROPERTY ScreenComesBack
