CONSTANTS
    m1 = m1
    Message = {m1}
    Meta = {m1}
    Voice = {}
    Photo = {}
    File = {}
    h1 = h1
    Hooks = {h1}
    w1 = w1
    w2 = w2
    Workers = {w1, w2}
    Nobody = Nobody
    Caller = Caller
    MaxSends = 2
    MaxConvs = 2
    MaxAttempts = 2
    Env = {"hook"}
    MaxFaults = 1
    MaxMoves = 1
SPECIFICATION Spec
SYMMETRY Symmetric
INVARIANT MetaKeepsAcked
CHECK_DEADLOCK FALSE
