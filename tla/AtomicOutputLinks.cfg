SPECIFICATION Spec
CONSTANTS
    dst = dst
    other = other
    t1 = t1
    t2 = t2
    i1 = i1
    i2 = i2
    i3 = i3
    i4 = i4
    old = old
    new = new
    observedHandle = observedHandle
    None = None
    MaxMoves = 3
    UserNames <- MCUserNames
    TempNames <- MCTempNames
    Inodes <- MCInodes
    UserData <- MCUserData
    Holders <- MCHolders
    Dest = dst
    Observed = observedHandle
    MaxTries = 2
    MaxFaults = 1
SYMMETRY Symmetry
PROPERTIES
    NoLinkRemoved
