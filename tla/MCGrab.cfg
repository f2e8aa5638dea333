SPECIFICATION FairSpec
CONSTANTS
    w1 = w1
    w2 = w2
    w3 = w3
    Windows <- MCWindows
    Nothing = Nothing
    MaxTrouble = 6
INVARIANTS
    BooksAreTrue
    MoveKeepsOthersOut
    NothingIsKept
PROPERTIES
    DialogCanHaveSeat
    CallsReturn
