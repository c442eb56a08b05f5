SPECIFICATION Spec
CONSTANTS
    Employees = {e1}
    Poses = {straight, left}
    Requests = {r1, r2}
    Looks = {l1, l2}
    TooSimilar <- SameLook
    UseCompreFace = FALSE
    RetentionDays = 1
    MaxDay = 2
    NoImage = NoImage
SYMMETRY Symmetry
CHECK_DEADLOCK FALSE
INVARIANT EnrolledImagesKept
