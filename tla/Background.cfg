\* Crashes and failed statements: what is due is handled; three runs waiting for one table end.
SPECIFICATION Spec
CONSTANTS
    s1 = s1  i1 = i1  c1 = c1  r1 = r1  r2 = r2  r3 = r3  x = x
    NoRow = NoRow  Idle = Idle  NoTable = NoTable  Nobody = Nobody
PROPERTIES
    DueIsHandled
    RunsEnd
CHECK_DEADLOCK FALSE
