------------------------------ MODULE Calendar ------------------------------
(***************************************************************************)
(* One lawyer's diary: the slots the assistant offers, the choice a client *)
(* makes later, the bookings and changes of the dashboard, and the EXCLUDE *)
(* constraint that alone keeps two of them apart (slot-math.ts, slot-      *)
(* finder.service.ts, appointments.service.ts, the appointment intercept   *)
(* of ai-orchestrator.service.ts, migration 0002).                         *)
(*                                                                         *)
(* Time is a number of ticks; a day has DayLength of them.  Abstracted:    *)
(* the choice of the lawyer (resolveLawyer), case, notes and location, the *)
(* Google event and the confirmation text, which appear as what can make a *)
(* transaction fail after its row is written.                              *)
(***************************************************************************)
EXTENDS Integers, Sequences, FiniteSets

CONSTANTS
    Clients,       \* clients of the firm
    Appt,          \* ids of appointments
    Desk,          \* dashboard requests that may be open at once
    NoClient, NoAppt,
    Windows,       \* lawyer_availability, ordered by weekday and start time
    Holidays,      \* days of PK_HOLIDAY_DATES
    DayLength, HorizonDays, Limit, Lead,
    Instants,      \* moments at which something happens
    Spans,         \* intervals staff type in
    Diaries,       \* what the appointments table may hold at the start
    MaxMoves       \* bound on what clients, staff, the rail, time and failures do

Window == [weekday : 0..6, from : Nat, to : Nat, dur : Nat]
Interval == [from : Nat, to : Nat]

VARIABLES
    now,     \* the clock
    appt,    \* the appointments table, uncommitted rows included
    open,    \* the appointments whose booking has not committed
    offer,   \* pendingAppointment of each client's conversation
    found,   \* the slots that the turn of a client has listed
    turn,    \* what the AI turn of each client is doing
    edit,    \* the PATCH each dashboard request is carrying out
    moves    \* moves so far

calendarVars == <<now, appt, open, offer, found, turn, edit, moves>>

Status == {"PENDING", "CONFIRMED", "CANCELLED", "COMPLETED", "NO_SHOW"}
Live == {"PENDING", "CONFIRMED"}
Row == [st : Status \cup {"none"}, client : Clients \cup {NoClient},
        from : Nat, to : Nat]
NoRow == [st |-> "none", client |-> NoClient, from |-> 0, to |-> 0]
Turn == [step : {"idle", "list", "offer", "book", "clear", "charge"}, appt : Appt \cup {NoAppt}]
Idle == [step |-> "idle", appt |-> NoAppt]
Edit == [appt : Appt \cup {NoAppt}, was : Status \cup {"none"}, st : Status \cup {"none"}]
NoEdit == [appt |-> NoAppt, was |-> "none", st |-> "none"]

(* Half-open intervals, in the code and in the constraint.                 *)
Overlap(i, j) == i.from < j.to /\ j.from < i.to

(* startTime and endTime are HH:MM, so a window ends within its day.       *)
ASSUME CalendarParameters ==
    /\ NoAppt \notin Appt /\ NoClient \notin Clients
    /\ Windows \in Seq(Window)
    /\ Holidays \subseteq Nat /\ Instants \subseteq Nat
    /\ DayLength \in Nat \ {0} /\ HorizonDays \in Nat /\ Limit \in Nat \ {0} /\ Lead \in Nat
    /\ \A i \in DOMAIN Windows : Windows[i].to <= DayLength
    /\ Spans \subseteq Interval /\ \A s \in Spans : s.from < s.to
    /\ MaxMoves \in Nat
    /\ \A d \in Diaries :
          /\ d \in [Appt -> Row]
          /\ \A a, b \in Appt : a # b /\ d[a].st \in Live /\ d[b].st \in Live
                                => ~Overlap(d[a], d[b])

Moves == moves < MaxMoves /\ moves' = moves + 1

-----------------------------------------------------------------------------
(* slot-math.ts                                                            *)

(* Round j of the while loop: the cursor has moved j - 1 durations.        *)
Cell(w, day, j) == LET start == day * DayLength + w.from + (j - 1) * w.dur
                   IN  [from |-> start, to |-> start + w.dur]
Fits(w, j) == w.from + j * w.dur <= w.to

(* Seeded bug: a slot may start within the lead time.                      *)
KeepTooSoon(slots, c, busy, t) ==
    IF Len(slots) < Limit /\ c.from >= t + Lead /\ \A b \in busy : ~Overlap(c, b)
    THEN Append(slots, c) ELSE slots

(* A cell far enough ahead and free is pushed, while there is room.        *)
Keep(slots, c, busy, t) ==
    IF Len(slots) < Limit /\ c.from > t + Lead /\ \A b \in busy : ~Overlap(c, b)
    THEN Append(slots, c) ELSE slots

(* The three loops: the cells of a window, the windows of a weekday, which *)
(* a holiday skips, and the days of the horizon.                           *)
ScanWindow(w, day, slots, busy, t) ==
    LET after[j \in 0..w.to] ==
            IF j = 0 THEN slots
            ELSE IF w.dur > 0 /\ Fits(w, j) THEN Keep(after[j - 1], Cell(w, day, j), busy, t)
            ELSE after[j - 1]
    IN  after[w.to]

ScanDay(day, slots, busy, t) ==
    LET after[i \in 0..Len(Windows)] ==
            IF i = 0 THEN slots
            ELSE IF Windows[i].weekday = day % 7 /\ day \notin Holidays
            THEN ScanWindow(Windows[i], day, after[i - 1], busy, t)
            ELSE after[i - 1]
    IN  after[Len(Windows)]

ComputeOpenSlots(busy, t) ==
    LET after[k \in 0..HorizonDays] ==
            IF k = 0 THEN <<>>
            ELSE ScanDay(t \div DayLength + k - 1, after[k - 1], busy, t)
    IN  after[HorizonDays]

-----------------------------------------------------------------------------
(* The table and its constraint                                            *)

Held == {a \in Appt : appt[a].st \in Live}
Free(span, a) == \A b \in Held \ {a} : ~Overlap(span, appt[b])

(* An INSERT or UPDATE meets a committed row: exclusion violation.         *)
Refused(span, a) == \E b \in Held \ ({a} \cup open) : Overlap(span, appt[b])

(* SlotFinderService.listOpenSlots: committed rows of the coming days.     *)
ListOpenSlots ==
    ComputeOpenSlots({appt[a] : a \in {b \in Held \ open :
        appt[b].from < now + HorizonDays * DayLength /\ appt[b].to > now}}, now)

(* Seeded bug: the check of the application instead of the constraint.     *)
InsertUnchecked(a, c, span) ==
    /\ appt[a] = NoRow /\ ~Refused(span, a)
    /\ appt' = [appt EXCEPT ![a] = [st |-> "CONFIRMED", client |-> c,
                                    from |-> span.from, to |-> span.to]]
    /\ open' = open \cup {a}

(* AppointmentsService.book, up to the row; it commits in CommitBooking.   *)
InsertRow(a, c, span) ==
    /\ appt[a] = NoRow /\ Free(span, a)
    /\ appt' = [appt EXCEPT ![a] = [st |-> "CONFIRMED", client |-> c,
                                    from |-> span.from, to |-> span.to]]
    /\ open' = open \cup {a}

-----------------------------------------------------------------------------
(* The AI turn: tryAppointmentIntercept, offerAppointmentSlots             *)

(* offerAppointmentSlots: the slots are listed in a transaction ...        *)
ListSlots(c) ==
    /\ \/ turn[c] = Idle /\ Moves
       \/ turn[c].step = "list" /\ UNCHANGED moves
    /\ found' = [found EXCEPT ![c] = ListOpenSlots]
    /\ turn' = [turn EXCEPT ![c].step = "offer"]
    /\ UNCHANGED <<now, appt, open, offer, edit>>

(* ... and stored in the next, whatever became of them; the message goes   *)
(* out after that.  Without slots the old offer is removed.                *)
StoreOffer(c) ==
    /\ turn[c].step = "offer"
    /\ offer' = [offer EXCEPT ![c] = found[c]]
    /\ found' = [found EXCEPT ![c] = <<>>]
    /\ turn' = [turn EXCEPT ![c] = Idle]
    /\ UNCHANGED <<now, appt, open, edit, moves>>

(* The client answers "2", perhaps days after the offer.                   *)
ChooseSlot(c, i, a) ==
    /\ turn[c] = Idle /\ Moves /\ i \in DOMAIN offer[c]
    /\ InsertRow(a, c, offer[c][i])
    /\ turn' = [turn EXCEPT ![c] = [step |-> "book", appt |-> a]]
    /\ UNCHANGED <<now, offer, found, edit>>

(* isBookingConflict: new slots will be listed in place of the old ones.   *)
ChoiceTaken(c, i) ==
    /\ turn[c] = Idle /\ Moves /\ i \in DOMAIN offer[c]
    /\ Refused(offer[c][i], NoAppt)
    /\ turn' = [turn EXCEPT ![c].step = "list"]
    /\ UNCHANGED <<now, appt, open, offer, found, edit>>

(* A transaction of its own removes the offer after the booking's.         *)
ClearOffer(c) ==
    /\ turn[c].step = "clear"
    /\ offer' = [offer EXCEPT ![c] = <<>>]
    /\ turn' = [turn EXCEPT ![c] = Idle]
    /\ UNCHANGED <<now, appt, open, found, edit, moves>>

(* The worker dies in between: the turn is retried with the old offer.     *)
LoseTurn(c) ==
    /\ Moves /\ turn[c].step \in {"list", "offer", "clear"}
    /\ found' = [found EXCEPT ![c] = <<>>]
    /\ turn' = [turn EXCEPT ![c] = Idle]
    /\ UNCHANGED <<now, appt, open, offer, edit>>

-----------------------------------------------------------------------------
(* The dashboard                                                           *)

StaffBook(a, c, span) ==
    /\ Moves /\ InsertRow(a, c, span)
    /\ UNCHANGED <<now, offer, found, turn, edit>>

(* Of a booking: its commit, and the turn that goes on.                    *)
CommitBooking(a) ==
    /\ a \in open /\ open' = open \ {a}
    /\ turn' = [c \in Clients |-> IF turn[c] = [step |-> "book", appt |-> a]
                                  THEN [step |-> "clear", appt |-> a] ELSE turn[c]]
    /\ UNCHANGED <<now, appt, offer, found, edit, moves>>

(* Google refuses the token, or the confirmation fails: the row is gone.   *)
AbortBooking(a) ==
    /\ Moves /\ a \in open
    /\ open' = open \ {a} /\ appt' = [appt EXCEPT ![a] = NoRow]
    /\ turn' = [c \in Clients |-> IF turn[c] = [step |-> "book", appt |-> a]
                                  THEN Idle ELSE turn[c]]
    /\ UNCHANGED <<now, offer, found, edit>>

(* AppointmentsService.update reads the row; st is "none" when only the    *)
(* times change ...                                                        *)
ReadAppointment(r, a, st) ==
    /\ Moves /\ edit[r] = NoEdit
    /\ appt[a] # NoRow /\ a \notin open
    /\ edit' = [edit EXCEPT ![r] = [appt |-> a, was |-> appt[a].st, st |-> st]]
    /\ UNCHANGED <<now, appt, open, offer, found, turn>>

(* ... and writes status and times by id, under the constraint; Google and *)
(* the client hear of it before the commit, which this step is.            *)
WriteAppointment(r, span) ==
    LET a == edit[r].appt
        st == IF edit[r].st = "none" THEN appt[a].st ELSE edit[r].st
    IN  /\ a # NoAppt
        /\ span \in Spans \cup {[from |-> appt[a].from, to |-> appt[a].to]}
        /\ st \in Live => Free(span, a)
        /\ appt' = [appt EXCEPT ![a] = [st |-> st, client |-> appt[a].client,
                                        from |-> span.from, to |-> span.to]]
        /\ edit' = [edit EXCEPT ![r] = NoEdit]
        /\ UNCHANGED <<now, open, offer, found, turn, moves>>

(* The constraint, Google or the client's message refuses: rolled back.    *)
FailUpdate(r) ==
    /\ Moves /\ edit[r] # NoEdit
    /\ edit' = [edit EXCEPT ![r] = NoEdit]
    /\ UNCHANGED <<now, appt, open, offer, found, turn>>

Later(t) ==
    /\ Moves /\ t \in Instants /\ t > now /\ now' = t
    /\ UNCHANGED <<appt, open, offer, found, turn, edit>>

-----------------------------------------------------------------------------
CalendarInit ==
    /\ now = 0
    /\ appt \in Diaries /\ open = {}
    /\ offer = [c \in Clients |-> <<>>] /\ found = offer
    /\ turn = [c \in Clients |-> Idle]
    /\ edit = [r \in Desk |-> NoEdit]
    /\ moves = 0

CalendarTypeOK ==
    /\ now \in Nat
    /\ appt \in [Appt -> Row] /\ open \subseteq Appt
    /\ offer \in [Clients -> Seq(Interval)]
    /\ found \in [Clients -> Seq(Interval)]
    /\ turn \in [Clients -> Turn]
    /\ edit \in [Desk -> Edit]
    /\ moves \in 0..MaxMoves

-----------------------------------------------------------------------------
(* Properties                                                              *)

(* FR-APT-04: whatever was offered to whom and when, and however staff     *)
(* move, revive and complete appointments, two that are pending or         *)
(* confirmed never overlap.                                                *)
NoDoubleBooking ==
    \A a \in Held : \A b \in Held \ {a} : ~Overlap(appt[a], appt[b])

(* What a client may be offered at this moment, from the doc comment of    *)
(* computeOpenSlots: a cell of a window of one of the next days, no        *)
(* holiday, far enough ahead, clear of every committed appointment.        *)
Bookable(c) ==
    /\ c.from > now + Lead
    /\ \A a \in Held \ open : ~Overlap(c, appt[a])
    /\ \E day \in now \div DayLength .. now \div DayLength + HorizonDays - 1 :
           /\ day \notin Holidays
           /\ \E i \in DOMAIN Windows :
                  LET w == Windows[i]
                      start == day * DayLength + w.from
                  IN  /\ w.weekday = day % 7 /\ w.dur > 0
                      /\ \E n \in 0..w.to : c.from = start + n * w.dur
                      /\ c.to = c.from + w.dur /\ c.to <= day * DayLength + w.to

Horizon == now .. now + (HorizonDays + 1) * DayLength

(* Every list of slots made for a client is the earliest bookable ones of  *)
(* its moment, in order, and short of Limit only when there are no more.   *)
OffersAreEarliest ==
    [][\A c \in Clients : turn'[c].step = "offer" /\ turn[c].step # "offer" =>
          LET s == found'[c]
          IN  /\ Len(s) <= Limit
              /\ \A i \in DOMAIN s : Bookable(s[i]) /\ (i > 1 => s[i - 1].from < s[i].from)
              /\ \A f \in Horizon, d \in {Windows[i].dur : i \in DOMAIN Windows} :
                     Bookable([from |-> f, to |-> f + d])
                     => \/ \E i \in DOMAIN s : s[i] = [from |-> f, to |-> f + d]
                        \/ Len(s) = Limit /\ s[Len(s)].from < f
      ]_calendarVars
=============================================================================
