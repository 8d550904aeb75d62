CONSTANTS
    g = g
    a1 = a1
    a2 = a2
    a3 = a3
    b1 = b1
    b2 = b2
    b3 = b3
    b4 = b4
    d1 = d1
    d2 = d2
    d3 = d3
    d4 = d4
    d5 = d5
    d6 = d6
    Blocks <- DeepBlocks
    Genesis = g
    Path <- DeepPath
    Deposits = {d1, d2, d3, d4, d5, d6}
    Vault <- MixedVault
    Spends <- LastSpends
    Pushes <- MixedPushes
    MinDeposit = 1
    Amount <- MixedAmounts
    ConfirmationDepth = 2
    MaxReorgDepth = 2
    MaxDeposit = 2
    Window = 1
    WindowCap = 2
    Refused = {}
    Corruptible = {d1}
    ForeignMints = {d1}
    MaxEpoch = 1
    MaxClock = 1
    MaxFaults = 1
    None = None
CONSTRAINTS
    TwoTroubles
    NoReturn
SPECIFICATION FairSpec
INVARIANTS
    TypeOK
    IndexIsConsistent
    MintedIsClaimed
    OnlyReleasedDepositsAreSent
    ReleasedWithinWindow
    IndexIsOneChain
    ClaimableAtDepthUnlessShaken
PROPERTIES
    SettledStaysSettled
    DeepDepositsAreMinted
