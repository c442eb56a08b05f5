\* Three requests on three poses of one employee, with CompreFace, over the
\* days the retention job needs.
SPECIFICATION Spec
CONSTANTS
    Employees = {e1}
    Poses = {straight, left, right}
    Requests = {r1, r2, r3}
    Looks = {l1, l2}
    TooSimilar <- SameLook
    UseCompreFace = TRUE
    RetentionDays = 1
    MaxDay = 2
    NoImage = NoImage
SYMMETRY Symmetry
CHECK_DEADLOCK FALSE
INVARIANT ImagesExist
INVARIANT NoOrphans
INVARIANT SubjectFollowsTemplates
INVARIANT SimilarNeedsRace
