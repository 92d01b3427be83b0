SPECIFICATION Spec
CONSTANTS
    Ingresses = {1}
    c1 = c1
    c2 = c2
    Confs = {c1, c2}
    NeedsPlugin = {c1}
    NeedsPolicy = {c2}
    k1 = k1
    k2 = k2
    Keys = {k1, k2}
    Writes <- MCWrites
    Notes = {}
    Runs = {r1}
    Absent = Absent
    MaxEdits = 0
    MaxFaults = 0
INVARIANT LegacyClassRemoved
