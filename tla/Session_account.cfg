\* Three sign-ins and two refreshes of one account, with restarts.
SPECIFICATION Spec
CONSTANTS
    Logins = {l1, l2, l3}
    Refreshes = {f1, f2}
    MaxFailures = 2
    Lockout = 1
    MaxTime = 2
    FailKey = FailKey
SYMMETRY Symmetry
CHECK_DEADLOCK FALSE
INVARIANT LockHolds
INVARIANT UsedOnce
INVARIANT SessionKept
