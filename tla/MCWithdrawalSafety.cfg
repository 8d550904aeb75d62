CONSTANTS
    u1 = u1
    u2 = u2
    N = 2
    Threshold = 2
    Attesters = 2
    Withdrawals = {0, 1}
    Decodable = {0, 1}
    Payable = {0, 1}
    Utxos = {u1, u2}
    Funded = {u1, u2}
    Selections <- OneInput
    Exact <- SecondExact
    ConfirmationDepth = 1
    Failover = TRUE
    Expiry = TRUE
    Reassignments = {{0, 1}}
    MaxAttempts = 1
    MaxReorgs = 0
    MaxFaults = 1
CONSTRAINT OneSubject
SPECIFICATION Spec
SYMMETRY UtxoSymmetry
INVARIANTS
    NoConflict
    NoDoublePay
    SentIsDurable
    SignedInputsStayHeld
