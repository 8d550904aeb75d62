CONSTANTS
    k0 = k0  k1 = k1  k2 = k2
    None = None
    Keys = {k0, k1, k2}
    DefaultKey = k0
    MaxValidators = 2
    Peers <- MCPeers
    Seeds = {1}
    FirstSets <- MCFirstSets
    Rotations <- MCRotations
    Raises = {2}
    FirstCap = 1
    Ahead = {0, 1}
    MaxQueued = 2
    MaxSent = 2
    MaxChanges = 2
    MaxVaultChanges = 4
    FeeRate = 15
    Dust = 2
    MaxInputs = 2
    VaultKeys <- MCVaultKeys
    VaultThreshold = 2
    Ids = {1, 2, 3}
    Vaults <- MCVaults
    Deposit = 5
    Pays = {9, 11}
    Dests = {"cold"}
CONSTRAINT OneSubject
SPECIFICATION LiveSpec
INVARIANTS
    TypeOK
    BooksBalance
    SelectionIsSound
    SelectionFindsEnough
    SweepIsConsented
    QueuedIsConsented
PROPERTIES
    CancelHitsItsTarget
    AgreedIsQueued
    AgreedIsSwept
CHECK_DEADLOCK FALSE
