CONSTANTS
    u1 = u1
    u2 = u2
    N = 2
    Threshold = 2
    Attesters = 2
    Withdrawals = {0}
    Decodable = {0}
    Payable = {0}
    Utxos = {u1, u2}
    Funded = {u1, u2}
    Selections <- OneInput
    Exact <- NoExact
    ConfirmationDepth = 1
    Failover = FALSE
    Expiry = FALSE
    Reassignments = {}
    MaxAttempts = 0
    MaxReorgs = 0
    MaxFaults = 0
SPECIFICATION FairSpec
PROPERTIES
    CompletedInTheEnd
