\* Two spaces, one of them new: races, failures and crashes, and what repairs them.
SPECIFICATION Spec
CONSTANTS
    w1 = w1  w2 = w2  types = types  links = links  a = a
    Main = Main  NoVersion = NoVersion  NoRegistry = NoRegistry
    Workers <- TwoWorkers
    Items <- OneItem
    LastSpace = 2
    Fresh = {1}
    Tables <- TwoTables
    MaxChanges = 2
    MaxFaults = 2
INVARIANTS
    OneFailureIsOneSpace
PROPERTIES
    SoloPublishRepairs
    BootRepairs
SYMMETRY AnyWorker
CHECK_DEADLOCK FALSE
