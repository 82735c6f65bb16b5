CONSTANTS
    m1 = m1
    m2 = m2
    Message = {m1, m2}
    Meta = {m1}
    Voice = {m1}
    Photo = {m2}
    File = {}
    h1 = h1
    Hooks = {h1}
    w1 = w1
    w2 = w2
    Workers = {w1, w2}
    Nobody = Nobody
    Caller = Caller
    MaxSends = 2
    MaxConvs = 2
    MaxAttempts = 2
    Env = {"hook", "abort", "crash", "offline", "media", "swallow", "trim"}
    MaxFaults = 1
    MaxMoves = 1
SPECIFICATION SmallSpec
SYMMETRY Symmetric
INVARIANTS TypeOK OneRowPerMessage NamedShareConversation EvolutionKeepsAcked WorkFollowsRow DoneMeansRouted
CHECK_DEADLOCK FALSE
