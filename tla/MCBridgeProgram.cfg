CONSTANTS
    k1 = k1
    k2 = k2
    k3 = k3
    DefaultKey = DefaultKey
    alice = alice
    bob = bob
    d1 = d1
    t1 = t1
    t2 = t2
    o1 = o1
    o2 = o2
    ZeroTxId = ZeroTxId
    wGLC = wGLC
    other = other
    here = here
    there = there
    long = long
    Names = {wGLC, other, long}
    Uris = {here, there, long}
    CanonicalName = wGLC
    OverLong = {long}
    MaxWrites = 2
    Keys = {k1, k2, k3, DefaultKey}
    MaxValidators = 2
    U64Max = 3
    I64Max = 2
    Wallets = {alice, bob}
    Admins = {alice, bob}
    Authority = alice
    Outpoints = {o1, o2}
    Deposits <- ValueDeposits
    BurnAmounts = {1, 2}
    Dests = {d1}
    TxIds = {ZeroTxId, t1, t2}
    Heights = {1}
    ValidatorLists <- GovernanceLists
    Thresholds = {0, 2}
    Caps = {0, 2, 3}
    Minimums = {0}
    Timelocks = {0, 1}
    Coalitions <- GovernanceCoalitions
    MaxMessages = 3
    MaxWithdrawals = 2
CONSTRAINT OneSubject
SPECIFICATION MetadataSpec
INVARIANTS
    ConfigStaysUsable
    PendingStaysExecutable
    ChainOfTrust
    TypeOK
    ClaimsAreApproved
    CompletionsAreApproved
    NoDoubleClaim
    Backed
PROPERTIES
    CapRisesOnlyByGovernance
    RecordsArePermanent
    LedgerIsKept
    RenamesAreTheAdmins
