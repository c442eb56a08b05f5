\* Two taps and two syncs of one person, over two days.
SPECIFICATION QueueSpec
CONSTANTS
    Employees = {e1}
    Taps = {p1, p2}
    Syncs = {f1, f2}
    Keep = 1
    QueueMax = 2
    MaxTime = 2
    TicksPerDay = 1
    NoReply = NoReply
    DayOf <- MCDayOf
SYMMETRY Symmetry
CHECK_DEADLOCK FALSE
INVARIANT LossNeedsOverlap
INVARIANT TwiceNeedsCause
CONSTRAINT Apart
