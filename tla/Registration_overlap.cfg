\* Four calls for two addresses over three instants: codes, attempts, accounts.
SPECIFICATION Spec
CONSTANTS
    Emails = {m1, m2}
    Requests = {r1, r2, r3, r4}
    Ttl = 1
    ResendWait = 1
    MaxAttempts = 1
    MaxResends = 1
    MaxTries = 2
    MaxTime = 2
    None = None
SYMMETRY Symmetry
CHECK_DEADLOCK FALSE
INVARIANT AccountsAreRight
INVARIANT NewestCodeWorks
INVARIANT AttemptsBounded
