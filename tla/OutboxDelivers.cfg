CONSTANTS
    E = 2
    d1 = d1
    d2 = d2
    Dispatchers = {d1, d2}
    w1 = w1
    w2 = w2
    Workers = {w1, w2}
    Handlers = {answer, notify}
    answer = answer
    notify = notify
    Limit = 2
    MaxAttempts = 2
    Env = {"stop", "crash", "throw", "later", "dead", "trim"}
    MaxFaults = 1
SPECIFICATION FairSpec
INVARIANTS TypeOK PublishedIsQueued CompletesOnce DoneMeansHandled
PROPERTY EventuallyHandled
CHECK_DEADLOCK FALSE
