SPECIFICATION Spec
CONSTANTS
    src = src
    other = other
    t1 = t1
    t2 = t2
    i1 = i1
    i2 = i2
    i3 = i3
    plain = plain
    old = old
    reading = reading
    shredding = shredding
    None = None
    MaxMoves = 4
    UserNames <- MCUserNames
    TempNames <- MCTempNames
    Inodes <- MCInodes
    UserData <- MCUserData
    Holders <- MCHolders
    Source = src
    Expected = reading
    Shredding = shredding
    MaxTries = 2
    MaxFaults = 2
SYMMETRY Symmetry
INVARIANTS
    TypeOK
    OnlySourceLost
    PutBack
PROPERTIES
    SoleNameOverwritten
