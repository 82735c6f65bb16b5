CONSTANTS
    N = 2
    Audio = {2}
    Docs = {}
    Calls = {}
    w1 = w1
    w2 = w2
    Workers = {w1, w2}
    NoWorker = NoWorker
    Copies = 1
    MaxAttempts = 2
    MaxMessages = 2
    Bubbles = 1
    Env = {"media"}
    MaxFaults = 1
SPECIFICATION Spec
INVARIANT NothingDropped
CHECK_DEADLOCK FALSE
