\* Two requests for either day and type, two decisions of any kind.
SPECIFICATION Spec
CONSTANTS
    Employees = {e1, e2}
    Creates = {c1, c2}
    Decisions = {d1, d2}
    Types = {"wfh", "mark_present"}
    MaxDay = 1
    NoOne = NoOne
SYMMETRY Symmetry
CHECK_DEADLOCK FALSE
INVARIANT OneActive
INVARIANT MixedNeedsRace
INVARIANT BypassBacked
PROPERTY FinalNeedsRace
