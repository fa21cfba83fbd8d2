SPECIFICATION Spec
CONSTANTS
    top = top
    dirIn = dirIn
    dirSub = dirSub
    dirOut = dirOut
    new1 = new1
    new2 = new2
    new3 = new3
    plain1 = plain1
    plain2 = plain2
    plain3 = plain3
    outward = outward
    upward = upward
    shortcut = shortcut
    across = across
    pipe = pipe
    None = None
    Dirs = {top, dirIn, dirSub, dirOut, new1, new2, new3}
    Files = {plain1, plain2, plain3}
    Links = {outward, upward, shortcut, across}
    Specials = {pipe}
    Top = top
    Target <- MCTarget
    Names = {"in", "s", "a"}
    MaxDepth = 5
    Requests <- MCRequests
    Trees <- MCTrees
    MaxMoves = 1
INVARIANTS
    TypeOK
    NothingMissed
    NothingElse
    EnsuredInPlace
    OnlyObstructed
PROPERTY Ends
