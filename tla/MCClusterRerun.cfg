SPECIFICATION Spec
CONSTANTS
    Ingresses = {1}
    c1 = c1
    c2 = c2
    Confs = {c1, c2}
    NeedsPlugin = {c1}
    NeedsPolicy = {c1, c2}
    k1 = k1
    k2 = k2
    Keys = {k1, k2}
    Writes <- MCWrites
    Notes = {n1}
    Runs = {r1, r2}
    Absent = Absent
    MaxEdits = 2
    MaxFaults = 1
PROPERTIES
    KeepsUnlistedNotes
    RerunsConverge
CHECK_DEADLOCK FALSE
