CONSTANTS
    None = None
    d1 = d1
    raise = raise
    a = a
    b = b
    admin = admin
    peer = peer
    Subjects = {d1}
    Actions = {raise}
    Commitments = {a, b}
    Operator = admin
    Others = {peer}
    Wanted = a
    Staleness = 2
    PollInterval = 1
    Latency = 1
    Burst = 1
    Refill = 1
    MaxEpoch = 1
    MaxChanges = 2
SPECIFICATION LiveSpec
PROPERTIES
    PassedUnderALiveEpoch
    PromiseIsKept
    ConsentIsSigned
