\* Two people deciding on proposals that depend on each other, failures and a crash.
SPECIFICATION Spec
CONSTANTS
    p1 = p1  p2 = p2
    Idle = Idle
    Actors <- TwoActors
    Kinds = {"link","metric","combination"}
    MaxId = 2
    MaxMade = 2
    MaxFaults = 1
    MaxCrashes = 1
INVARIANTS
    AppliedIsBuilt
    DependenciesFirst
    NothingUnapproved
SYMMETRY AnyActor
CHECK_DEADLOCK FALSE
