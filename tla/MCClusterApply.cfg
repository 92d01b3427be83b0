SPECIFICATION Spec
CONSTANTS
    Ingresses = {1, 2}
    c1 = c1
    c2 = c2
    Confs = {c1, c2}
    NeedsPlugin = {c1}
    NeedsPolicy = {c2}
    k1 = k1
    k2 = k2
    Keys = {k1, k2}
    Writes <- MCWrites
    Notes = {}
    Runs = {r1, r2}
    Absent = Absent
    MaxEdits = 1
    MaxFaults = 1
INVARIANTS
    TypeOK
    SuccessMeansMigrated
    DanglingLinkExplained
PROPERTIES
    RefinesLedger
