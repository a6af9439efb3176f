\* Two administrators disable, demote or delete each other.
SPECIFICATION Spec
CONSTANTS
    ann = ann  bob = bob  c1 = c1  c2 = c2  i1 = i1  i2 = i2
    NoOne = NoOne
    Names <- TwoNames
    Founders <- TwoNames
    Clients <- TwoClients
    Instances <- OneInstance
    Routes = {"members", "console"}
    Kinds = {"demote", "disable", "reset", "delete", "create", "close", "addMember"}
    Ttl = 1
    MaxFailures = 1
    MaxPerHour = 1
    MaxUid = 3
    MaxNow = 1
    MaxRequests = 3
INVARIANTS
    LastAdminStays
SYMMETRY AnyClient
CHECK_DEADLOCK FALSE
