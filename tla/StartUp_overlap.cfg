\* Two processes, three stops, two requests of two types in flight.
CONSTANTS
    Processes = {p1, p2}
    Types = {wfh, late}
    Requests = {q1, q2}
    MaxStops = 3
    None = None
SPECIFICATION FairSpec
INVARIANTS ServedGuarded
PROPERTIES StartsAgain
