SPECIFICATION Spec
CONSTANTS
    plain1 = plain1
    plain2 = plain2
    cipher1 = cipher1
    cipher2 = cipher2
    cipher3 = cipher3
    broken = broken
    odd = odd
    old = old
    link = link
    into = into
    new1 = new1
    new2 = new2
    new3 = new3
    None = None
    Names <- MCNames
    Dirs <- MCDirs
    Cwd <- in
    Encrypted <- MCEncrypted
    DefaultName <- MCDefaultName
    Spare <- MCSpare
    Files <- MCFiles
    Links <- MCLinks
    LinkTo <- MCLinkTo
    Product <- MCProduct
    Inside <- MCInside
    Rank <- MCRank
    Commands <- MCCommands
    Directories <- MCDirectories
    MaxMoves = 1
INVARIANTS
    TypeOK
    InputsKept
    OutputsStay
    NoAliasReplaced
    ExitTellsTruth
PROPERTY CommandEnds
