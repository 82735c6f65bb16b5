CONSTANTS
    c1 = c1
    c2 = c2
    Callers = {c1, c2}
    Calls = {c1}
    i1 = i1
    i2 = i2
    Invites = {i1, i2}
    Matches <- OneMatches
    Deeds = {"INFO", "BOOKED", "ESCALATED"}
    Slots = 2
    MaxAttempts = 2
    Env = {"crash", "throw", "refuse"}
    MaxMoves = 2
SPECIFICATION FairSpec
INVARIANTS TypeOK OneEntryPerConnect RecordsAreTrue OneInvitePerCaller NoMatchWaits
PROPERTIES OutcomeIsFinal AnsweredCallsEnd
CHECK_DEADLOCK FALSE
