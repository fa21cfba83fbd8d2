SPECIFICATION LiveSpec
CONSTANTS
    ChunkSize = 2
    MaxWord = 5
    MaxSize = 6
    MaxDamage = 2
    Nonce <- MCNonce
INVARIANTS
    TypeOK
    PrefixOnly
    SuccessIsWhole
    RoundTrip
    NonceOnce
PROPERTIES
    Decides
