SPECIFICATION MapSpec
CONSTANTS
    PNs = {p1, p2, p3}
    LIDs = {l1, l2}
    Getters = {g1, g2}
    Empty = Empty
    Absent = Absent
    MaxBatch = 2
INVARIANTS CachesShowRows
SYMMETRY UserSymmetry
