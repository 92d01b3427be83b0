CONSTANTS
    Files = {1, 2}
    Bodies = {b1}
    Empty = empty
    Handlers = {h1, h2}
    Main = main
    Absent = absent
    CoarseClock = FALSE
    MaxChanges = 2
    MaxCrashes = 0
SPECIFICATION Spec
INVARIANT UploadIsListed
