CONSTANTS
    adm = adm
    hr = hr
    dev = dev
    Tokens = {adm, hr, dev}
    RoleOf <- MCRoleOf
    Confs = {srv, alt}
    Default = srv
    Requests = {q1}
    None = None
    MonthStart <- MCMonthStart
    YearOf <- MCYearOf
    Loads = {l1, l2}
    FirstDay = 6
    LastDay = 7
    People = {e1, e2}
    Poses = {p1, p2}
    Slots = {a1, a2}
    NoOne = NoOne
    Ids = {r1, r2}
    Mine = {r1}
    LastDate = 2
    Nothing = Nothing
SPECIFICATION Spec
SYMMETRY Symmetry
CONSTRAINTS RosterBounded EnrollBounded
INVARIANTS StorageAgrees RosterIsCurrent WaitsForSomething EnrollIsTrue DateFits RowsAreTrue
CHECK_DEADLOCK FALSE
