\* Two wallets, secrets that live 2 ticks of a 0..4 clock and die after 2
\* mismatches; 2 draws, so a
\* secret is replaced after use, expiry, burning and restart.
SPECIFICATION Spec
CONSTANTS
    Wallets = {w1, w2}
    SecretTTL = 2
    MaxAttempts = 2
    MaxTime = 4
    MaxSecrets = 2
    None = None
INVARIANTS
    TypeOK
    SingleUse
    BurnedNeverGrants
    GrantWithinShownExpiry
PROPERTY
    ImplementsOneTimeGrant
