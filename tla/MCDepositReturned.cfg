CONSTANTS
    g = g
    a1 = a1
    a2 = a2
    a3 = a3
    b1 = b1
    b2 = b2
    b3 = b3
    b4 = b4
    d1 = d1
    d2 = d2
    d3 = d3
    d4 = d4
    d5 = d5
    d6 = d6
    Blocks <- ReturnBlocks
    Genesis = g
    Path <- ReturnPath
    Deposits = {d1}
    Vault <- ReturnVault
    Spends <- NoSpends
    Pushes <- OnePush
    MinDeposit = 1
    Amount <- UnitAmounts
    ConfirmationDepth = 2
    MaxReorgDepth = 3
    MaxDeposit = 9
    Window = 1
    WindowCap = 9
    Refused = {}
    Corruptible = {}
    ForeignMints = {}
    MaxEpoch = 0
    MaxClock = 0
    MaxFaults = 0
    None = None
SPECIFICATION FairSpec
PROPERTIES
    DeepDepositsAreMinted
