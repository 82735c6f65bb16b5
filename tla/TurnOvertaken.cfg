CONSTANTS
    N = 4
    Audio = {}
    Docs = {}
    Calls = {}
    w1 = w1
    Workers = {w1}
    NoWorker = NoWorker
    Copies = 1
    MaxAttempts = 2
    MaxMessages = 4
    Bubbles = 1
    Env = {}
    MaxFaults = 1
SPECIFICATION Spec
INVARIANT NothingDropped
CHECK_DEADLOCK FALSE
