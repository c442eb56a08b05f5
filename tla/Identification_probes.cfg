\* Two employees, two codes and two poses; one probe, updates one at a time, and
\* every change an administrator can make between their steps.
CONSTANTS
    ann = ann
    bob = bob
    e1 = e1
    e2 = e2
    c1 = c1
    c2 = c2
    People = {ann, bob}
    Employees = {e1, e2}
    PersonOf <- MCPersonOf
    Codes = {c1, c2}
    Poses = {straight, left}
    Callers <- MCCallers
    Probes = {r1}
    Updates = {u1}
    None = None
SPECIFICATION IdentifySpec
SYMMETRY Symmetry
CONSTRAINT Bounded
INVARIANTS AcceptedIsTheFace AcceptedIsEnrolled VerdictsCounted EditsHold
CHECK_DEADLOCK FALSE
