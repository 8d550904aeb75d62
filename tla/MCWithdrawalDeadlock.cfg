CONSTANTS
    u1 = u1
    u2 = u2
    N = 2
    Threshold = 2
    Attesters = 1
    Withdrawals = {0, 1}
    Decodable = {0, 1}
    Payable = {0, 1}
    Utxos = {u1, u2}
    Funded = {u1, u2}
    Selections <- OneInput
    Exact <- NoExact
    ConfirmationDepth = 1
    Failover = FALSE
    Expiry = FALSE
    Reassignments = {}
    MaxAttempts = 0
    MaxReorgs = 0
    MaxFaults = 0
SPECIFICATION FairSpec
PROPERTIES
    PaidInTheEnd
