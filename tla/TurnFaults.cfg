CONSTANTS
    N = 2
    Audio = {}
    Docs = {}
    Calls = {}
    w1 = w1
    w2 = w2
    Workers = {w1, w2}
    NoWorker = NoWorker
    Copies = 1
    MaxAttempts = 2
    MaxMessages = 2
    Bubbles = 1
    Env = {"crash", "lapse", "redis", "commit", "throw", "mark", "reject", "outbound", "staff"}
    MaxFaults = 1
SPECIFICATION FairSpec
INVARIANTS LeaseExclusion MarkMeansDone OneOpenEscalation PendingHasATurn
PROPERTY QueueDrains
CHECK_DEADLOCK FALSE
