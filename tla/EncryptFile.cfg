SPECIFICATION Spec
CONSTANTS
    src = src
    dst = dst
    t1 = t1
    t2 = t2
    i1 = i1
    i2 = i2
    i3 = i3
    i4 = i4
    plain = plain
    old = old
    reading = reading
    observing = observing
    shredding = shredding
    None = None
    MaxMoves = 3
    UserNames <- MCUserNames
    TempNames <- MCTempNames
    Inodes <- MCInodes
    UserData <- MCUserData
    Holders <- MCHolders
    Source = src
    Dest = dst
    Reading = reading
    Observed = observing
    Shredding = shredding
    MaxTries = 1
    MaxFaults = 1
SYMMETRY Symmetry
INVARIANTS
    PlaintextOrCiphertext
    NoAliasShredded
    ShredComplete
