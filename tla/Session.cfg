SPECIFICATION FairSpec
CONSTANTS
    MAX_PAIRING_NAME = 4
    TOKEN_LENGTH = 3
    Uuid <- MCUuid
    Nil <- MCNil
    None = None
    PairingName <- MCPairingName
    StoredToken <- MCStoredToken
    Address <- MCAddress
    Piece = {6, 20}
    MaxAttempts = 2
INVARIANTS
    NameArrives
    RefusedForCause
    TokenComesBack
    HeardAsSaid
    
    SessionInv
PROPERTY
    SessionEnds
