SPECIFICATION Spec
CONSTANTS
    Handlers = {h1, h2}
    Nobody = Nobody
    t1 = t1
    t2 = t2
    Texts = {t1, t2}
    Broken = Broken
    InitialFiles <- MCInitialFiles
    MaxChanges = 1
    MaxCrashes = 0
INVARIANT
    AdminListComplete
