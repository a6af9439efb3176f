\* A conversation in two spaces; a screen of each kind.
SPECIFICATION EachInTurn
CONSTANTS
    s1 = s1
    s2 = s2
    Spaces <- TwoSpaces
    MaxSession = 2
    MaxMsg = 2
    MaxWaiting = 2
    MaxMoves = 3
INVARIANTS
    ConversationsApart
    OneWriteAtATime
PROPERTIES
    BoxOpensAgain
    ShowsWhatWasAsked
\* The person may stop.
CHECK_DEADLOCK FALSE
