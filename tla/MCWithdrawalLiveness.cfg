CONSTANTS
    u1 = u1
    u2 = u2
    N = 2
    Threshold = 2
    Attesters = 1
    Withdrawals = {0, 1, 2}
    Decodable = {0, 1}
    Payable = {0}
    Utxos = {u1, u2}
    Funded = {}
    Selections <- OneInput
    Exact <- NoExact
    ConfirmationDepth = 2
    Failover = FALSE
    Expiry = FALSE
    Reassignments = {}
    MaxAttempts = 0
    MaxReorgs = 1
    MaxFaults = 0
SPECIFICATION FairSpec
INVARIANTS
    CompletedIsPaid
PROPERTIES
    PaidInTheEnd
    CompletedInTheEnd
