SPECIFICATION Spec
CONSTANTS
    Clients = {c1, c2}
    Appt = {a1, a2}
    Desk = {r1}
    NoClient = NoClient
    NoAppt = NoAppt
    Windows <- Thrice
    Holidays = {1}
    DayLength = 8
    HorizonDays = 3
    Limit = 2
    Lead = 1
    Instants = {3}
    Spans <- TwoSpans
    Diaries <- CalledOff
    MaxMoves = 3
    Pay = {p1, p2}
    NoPay = NoPay
    EventWorkers = {e1, e2}
    NoEvent = NoEvent
    MaxRepeats = 2
    MaxAttempts = 2
    FeeSet = TRUE
    PayKinds = {"rail"}
SYMMETRY Symmetric
CHECK_DEADLOCK FALSE
INVARIANTS TypeOK NoDoubleBooking EachJobChargesOnce ReceivedIsAnnounced ReceiptsAreHeard
PROPERTY OffersAreEarliest
