\* Requests of two people interleave at their statements, in each part.
SPECIFICATION EachInTurn
CONSTANTS
    f1 = f1  f2 = f2  c1 = c1  c2 = c2  order = order  customer = customer
    None = None  Root = Root  Absent = Absent
    Clients <- TwoPeople
    Folders <- TwoFolders
    Home = f1
    MaxConn = 2
    MaxRef = 2
    MaxSync = 1
    MaxRequests = 5
    Types = {t1, t2}
    Items = {l, m}
    Metrics = {m}
    Cols = {x, y}
    Key = x
    BuilderAsks = 3
    Titles = {x, y}
    MaxBoard = 3
    BoardAsks = 4
    Removers = {remover}
    Datasets = {order}
    Names = {t1, t2, m}
    RemovalAsks = 2
    RemovalFails = 1
    Tables = {order, customer}
    ForeignKeys <- OrderToCustomer
    Requests <- OneOrBoth
    MaxTypes = 2
    ImportAsks = 3
    ImportFails = 1
INVARIANTS
    PasswordsMatchConnections
    OntologyHangsTogether
    BoardsKeepTheirNames
    NothingOnNothing
    ImportsAreWhole
PROPERTIES
    DeletedStaysDeleted
    RemovalIsExact
SYMMETRY AnyClient
\* The people may stop.
CHECK_DEADLOCK FALSE
