CONSTANTS
    N = 1
    Audio = {}
    Docs = {}
    Calls = {}
    w1 = w1
    w2 = w2
    Workers = {w1, w2}
    NoWorker = NoWorker
    Copies = 1
    MaxAttempts = 2
    MaxMessages = 1
    Bubbles = 2
    Env = {"reject"}
    MaxFaults = 1
SPECIFICATION Spec
INVARIANT OneAnswer
CHECK_DEADLOCK FALSE
