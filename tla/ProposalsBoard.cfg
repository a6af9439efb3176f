\* A combination applied for a proposal that then fails to apply.
SPECIFICATION Spec
CONSTANTS
    p1 = p1  p2 = p2
    Idle = Idle
    Actors <- OneActor
    Kinds = {"link","combination"}
    MaxId = 2
    MaxMade = 1
    MaxFaults = 1
    MaxCrashes = 0
INVARIANTS
    BoardIsAnswered
CHECK_DEADLOCK FALSE
