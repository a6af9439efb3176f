\* Three overlapping runs of a source that changes, with one failure or crash: what is landed.
SPECIFICATION Spec
CONSTANTS
    r1 = r1  r2 = r2  r3 = r3  x = x  y = y
    NoTable = NoTable  Nobody = Nobody
    Runs <- ThreeRuns
    Columns <- TwoColumns
    MaxVersion = 2
    MaxFaults = 1
INVARIANTS
    ViewsStayValid
    SuccessIsACopy
PROPERTIES
    IsSnapshotCopy
SYMMETRY AnyRun
CHECK_DEADLOCK FALSE
