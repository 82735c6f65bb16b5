CONSTANTS
    N = 2
    Audio = {1}
    Docs = {2}
    Calls = {2}
    w1 = w1
    w2 = w2
    Workers = {w1, w2}
    NoWorker = NoWorker
    Copies = 2
    MaxAttempts = 2
    MaxMessages = 2
    Bubbles = 1
    Env = {"reject", "media", "duplicate", "outbound"}
    MaxFaults = 2
SPECIFICATION Spec
SYMMETRY Symmetric
INVARIANTS TypeOK OneAnswer
PROPERTY ImplementsFrontDesk
CHECK_DEADLOCK FALSE
