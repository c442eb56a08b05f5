\* Three requests of one employee, all of them possibly in flight at once,
\* over two days.
CONSTANTS
    Employees = {e1}
    Requests = {r1, r2, r3}
    MaxTime = 3
    TicksPerDay = 2
    Cooldown = 1
    NoRow = NoRow
    ClientOf <- OwnDevice
    DayOf <- MCDayOf
SPECIFICATION Spec
SYMMETRY Symmetry
INVARIANTS DuplicateNeedsRace RowsHaveEmployees KioskDayPresent
PROPERTIES ClockInFrozen ImplementsPunchBook
CHECK_DEADLOCK FALSE
