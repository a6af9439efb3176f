\* Each part of what is answered, over three small tables.
SPECIFICATION Answering
CONSTANTS
    Null = Null  None = None  Pages = Pages  Failure = Failure
    clerk = clerk  c1 = c1  c2 = c2
    Roles = {clerk}
    ActionAsks = 2
    Declarable <- Seven
    Keys = {1, 2}
    Limit = 1
    Hits = 1
    Segments = {"board", "history"}
    Clients <- TwoPeople
    Names = {"monthly"}
    Texts = {"plain", "grouped"}
    MaxFn = 2
    MaxAsks = 5
INVARIANTS
    RunsAreWhatWasApproved
    FigureIsWhatWasAsked
    BoardsAreAsPromised
    AnswersAreWhole
    AddressesArrive
    ObjectsAgree
    FormulasMeanWhatTheySay
    TrailIsWhatWasSaid
SYMMETRY AnyClient
\* A request ends with its answer.
CHECK_DEADLOCK FALSE
