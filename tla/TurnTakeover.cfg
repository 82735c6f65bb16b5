CONSTANTS
    N = 1
    Audio = {}
    Docs = {}
    Calls = {}
    w1 = w1
    w2 = w2
    Workers = {w1, w2}
    NoWorker = NoWorker
    Copies = 1
    MaxAttempts = 1
    MaxMessages = 1
    Bubbles = 1
    Env = {"staff"}
    MaxFaults = 1
SPECIFICATION Spec
PROPERTY TakeoverHolds
CHECK_DEADLOCK FALSE
