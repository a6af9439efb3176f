\* One request at a time, at either of two replicas; an account is deleted and
\* its name registered again.
SPECIFICATION Spec
CONSTANTS
    ann = ann  bob = bob  c1 = c1  c2 = c2  i1 = i1  i2 = i2
    NoOne = NoOne
    Names <- TwoNames
    Founders <- TwoNames
    Clients <- OneClient
    Instances <- TwoInstances
    Routes = {"view", "console"}
    Kinds = {"delete"}
    Ttl = 1
    MaxFailures = 1
    MaxPerHour = 1
    MaxUid = 3
    MaxNow = 0
    MaxRequests = 4
INVARIANTS
    OwnersOnly
CHECK_DEADLOCK FALSE
