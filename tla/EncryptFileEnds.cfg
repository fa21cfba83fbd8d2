SPECIFICATION LiveSpec
CONSTANTS
    src = src
    dst = dst
    t1 = t1
    t2 = t2
    i1 = i1
    i2 = i2
    i3 = i3
    i4 = i4
    plain = plain
    old = old
    reading = reading
    observing = observing
    shredding = shredding
    None = None
    MaxMoves = 1
    UserNames <- MCUserNames
    TempNames <- MCTempNames
    Inodes <- FewInodes
    UserData <- FewData
    Holders <- MCHolders
    Source = src
    Dest = dst
    Reading = reading
    Observed = observing
    Shredding = shredding
    MaxTries = 1
    MaxFaults = 1
PROPERTIES
    Terminates
