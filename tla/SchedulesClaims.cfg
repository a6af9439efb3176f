\* Two instances, two people, one sync: who fires it, when it is due next, how many schedules it has.
SPECIFICATION Spec
CONSTANTS
    s1 = s1  s2 = s2  i1 = i1  i2 = i2  c1 = c1  c2 = c2
    NoRow = NoRow  Idle = Idle
    Syncs <- OneSync
    Instances <- TwoInstances
    Clients <- TwoClients
    Intervals = {2}
    Starts = {1}
    TickLimit = 1
    MaxId = 2
    MaxNow = 3
    MaxFaults = 1
    MaxClicks = 1
INVARIANTS
    OneFirePerMoment
    NeverBurst
    OnRhythm
    OneSchedulePerSync
    StatusIsRecorded
PROPERTIES
    ClaimIsTheFire
CONSTRAINT Few
SYMMETRY Anyone
