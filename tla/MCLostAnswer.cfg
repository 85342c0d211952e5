SPECIFICATION Spec
CONSTANTS
    Servers = {s1}
    Addresses = {a1}
    Attempts = 2
    MaxTaps = 1
    MaxFaults = 0
    MaxMishaps = 0
    None = None
CHECK_DEADLOCK FALSE
INVARIANT AnswersAreHeard
