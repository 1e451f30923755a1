SPECIFICATION Spec
CONSTANTS
    N = 3
    Values = {a}
    a = a
    Nil = Nil
    Absent = Absent
    MinSortSize = 2
INVARIANTS CacheCoherent LoopsAgree
PROPERTY RefinesBranch
