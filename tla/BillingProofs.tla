--------------------------- MODULE BillingProofs ---------------------------
(***************************************************************************)
(* What diaries, payments and the jobs around them never do, for every     *)
(* number of clients, appointments, payments, workers and attempts.        *)
(***************************************************************************)
EXTENDS Billing, WellFoundedInduction, TLAPS

-----------------------------------------------------------------------------
(* The diary                                                               *)

(* The table is one, and its rows belong to clients or to nobody.          *)
DiaryKept ==
    /\ appt = [a \in Appt |-> appt[a]]
    /\ \A a \in Appt : appt[a].client \in Clients \cup {NoClient}

(* What a step may make of the rows: one of them is replaced by a row that *)
(* is not live or overlaps no live row.                                    *)
Rewritten(a, r) ==
    /\ appt' = [appt EXCEPT ![a] = r]
    /\ r.client \in Clients \cup {NoClient}
    /\ r.st \in Live => Free(r, a)

LEMMA RewrittenIsFree ==
  ASSUME DiaryKept, NoDoubleBooking, NEW a, NEW r, Rewritten(a, r)
  PROVE  (DiaryKept /\ NoDoubleBooking)'
<1>1. CASE a \notin Appt
  <2>1. appt' = appt
    BY <1>1 DEF Rewritten, DiaryKept
  <2>2. QED
    BY <2>1 DEF DiaryKept, NoDoubleBooking, Held
<1>2. CASE a \in Appt
  <2>1. appt'[a] = r /\ \A b \in Appt : b # a => appt'[b] = appt[b]
    BY <1>2 DEF Rewritten, DiaryKept
  <2>2. appt' = [b \in Appt |-> appt'[b]]
    BY <1>2 DEF Rewritten, DiaryKept
  <2>3. DiaryKept'
    BY <2>1, <2>2 DEF Rewritten, DiaryKept
  <2>4. ASSUME NEW b \in Held', NEW c \in Held', b # c
        PROVE  ~Overlap(appt'[b], appt'[c])
    <3>1. b \in Appt /\ c \in Appt /\ appt'[b].st \in Live /\ appt'[c].st \in Live
      BY <2>4 DEF Held
    <3>2. CASE b # a /\ c # a
      BY <2>1, <3>1, <3>2, <2>4 DEF NoDoubleBooking, Held
    <3>3. CASE b = a
      <4>1. ~Overlap(r, appt[c])
        BY <2>1, <2>4, <3>1, <3>3 DEF Rewritten, Free, Held
      <4>2. QED
        BY <2>1, <2>4, <3>1, <3>3, <4>1
    <3>4. CASE c = a
      <4>1. ~Overlap(r, appt[b])
        BY <2>1, <2>4, <3>1, <3>4 DEF Rewritten, Free, Held
      <4>2. QED
        BY <2>1, <2>4, <3>1, <3>4, <4>1 DEF Overlap
    <3>5. QED
      BY <3>2, <3>3, <3>4
  <2>5. QED
    BY <2>3, <2>4 DEF NoDoubleBooking
<1>3. QED
  BY <1>1, <1>2

LEMMA InsertRewrites ==
  ASSUME NEW a \in Appt, NEW c \in Clients, NEW span, InsertRow(a, c, span)
  PROVE  \E r : Rewritten(a, r)
<1> DEFINE r == [st |-> "CONFIRMED", client |-> c, from |-> span.from, to |-> span.to]
<1>1. appt' = [appt EXCEPT ![a] = r] /\ r.client \in Clients \cup {NoClient}
  BY DEF InsertRow
<1>2. \A b \in Held \ {a} : ~Overlap(r, appt[b])
  BY DEF InsertRow, Free, Overlap
<1> HIDE DEF r
<1>3. Rewritten(a, r)
  BY <1>1, <1>2 DEF Rewritten, Free
<1>4. QED
  BY <1>3

LEMMA ChangeRewrites ==
  ASSUME DiaryKept, NEW r \in Desk, NEW span, WriteAppointment(r, span)
  PROVE  \E a : \E x : Rewritten(a, x)
<1> DEFINE a == edit[r].appt
           st == IF edit[r].st = "none" THEN appt[a].st ELSE edit[r].st
           x == [st |-> st, client |-> appt[a].client, from |-> span.from, to |-> span.to]
           y == [st |-> "none", client |-> NoClient, from |-> 0, to |-> 0]
<1>1. CASE a \in Appt
  <2>1. appt' = [appt EXCEPT ![a] = x] /\ x.client \in Clients \cup {NoClient}
    BY <1>1 DEF WriteAppointment, DiaryKept
  <2>2. x.st \in Live => \A b \in Held \ {a} : ~Overlap(x, appt[b])
    BY DEF WriteAppointment, Free, Overlap
  <2> HIDE DEF x, a
  <2>3. Rewritten(a, x)
    BY <2>1, <2>2 DEF Rewritten, Free
  <2>4. QED
    BY <2>3
<1>2. CASE a \notin Appt
  <2>1. appt' = [appt EXCEPT ![a] = x]
    BY DEF WriteAppointment
  <2>2. appt' = [appt EXCEPT ![a] = y]
    BY <1>2, <2>1 DEF DiaryKept
  <2>3. y.client \in Clients \cup {NoClient} /\ y.st \notin Live
    BY DEF Live
  <2> HIDE DEF y, a
  <2>4. Rewritten(a, y)
    BY <2>2, <2>3 DEF Rewritten
  <2>5. QED
    BY <2>4
<1>3. QED
  BY <1>1, <1>2

LEMMA DiaryInit == Init => DiaryKept /\ NoDoubleBooking
<1> SUFFICES ASSUME Init PROVE DiaryKept /\ NoDoubleBooking
  OBVIOUS
<1>1. PICK d \in Diaries : appt = d
  BY DEF Init, CalendarInit
<1>2. d \in [Appt -> Row]
  BY CalendarParameters
<1>3. DiaryKept
  BY <1>1, <1>2 DEF DiaryKept, Row
<1>4. \A a, b \in Appt : a # b /\ appt[a].st \in Live /\ appt[b].st \in Live
                        => ~Overlap(appt[a], appt[b])
  BY <1>1, CalendarParameters
<1>5. QED
  BY <1>3, <1>4 DEF NoDoubleBooking, Held

(* A step of the system leaves the rows alone or rewrites one of them.     *)
LEMMA DiarySteps ==
  ASSUME DiaryKept, [Next]_vars
  PROVE  UNCHANGED appt \/ \E a : \E r : Rewritten(a, r)
<1>1. CASE UNCHANGED vars
  BY <1>1 DEF vars, calendarVars
<1>2. CASE Diary
  <2>1. ASSUME NEW c \in Clients, NEW i \in 1..Limit, NEW a \in Appt, ChooseSlot(c, i, a)
        PROVE  \E r : Rewritten(a, r)
    BY <2>1, InsertRewrites DEF ChooseSlot
  <2>2. ASSUME NEW a \in Appt, NEW c \in Clients, NEW span \in Spans, StaffBook(a, c, span)
        PROVE  \E r : Rewritten(a, r)
    BY <2>2, InsertRewrites DEF StaffBook
  <2>3. ASSUME NEW a \in Appt, AbortBooking(a)
        PROVE  \E r : Rewritten(a, r)
    <3>1. appt' = [appt EXCEPT ![a] = NoRow]
      BY <2>3 DEF AbortBooking
    <3>2. NoRow.client \in Clients \cup {NoClient} /\ NoRow.st \notin Live
      BY DEF NoRow, Live
    <3>3. Rewritten(a, NoRow)
      BY <3>1, <3>2 DEF Rewritten
    <3>4. QED
      BY <3>3
  <2>4. QED
    BY <1>2, <2>1, <2>2, <2>3
       DEF Diary, ListSlots, StoreOffer, ClearOffer, LoseTurn, ChoiceTaken, ReadAppointment, FailUpdate, Later
<1>3. CASE DiaryEvents
  <2>1. ASSUME NEW a \in Appt, BookingCommits(a) PROVE UNCHANGED appt
    BY <2>1 DEF BookingCommits, CommitBooking
  <2>2. ASSUME NEW r \in Desk, NEW span, AppointmentChanges(r, span)
        PROVE  \E a : \E x : Rewritten(a, x)
    BY <2>2, ChangeRewrites DEF AppointmentChanges
  <2>3. QED
    BY <1>3, <2>1, <2>2 DEF DiaryEvents
<1>4. CASE Money
  BY <1>4 DEF Money, RequestPayment, RecordManualPayment, ChargeForDetails, AttachProof,
     ProcessWebhook, ReadPayment, ConfirmReceived, Refund, AskDetails, calendarVars
<1>5. CASE \E w \in EventWorkers : Handlers(w)
  BY <1>5 DEF Handlers, StartEvent, FindFee, ChargeFee, SendInstructions, LoadReceipt,
     SendReceipt, SendConfirmations, FinishEvent, EventFails, CrashEvent, Gone, Handling,
     calendarVars
<1>6. QED
  BY <1>1, <1>2, <1>3, <1>4, <1>5 DEF Next

-----------------------------------------------------------------------------
(* Payments, jobs and slots, one at a time                                 *)

(* A slot at work has an active job of its own; look-ups and charges are   *)
(* for appointments; a job that may still run has an attempt left.         *)
SlotsOwnJobs ==
    /\ \A w \in EventWorkers : run[w].step # "idle" =>
           run[w].ev \in Event /\ job[run[w].ev].st = "active"
    /\ \A v, w \in EventWorkers :
           run[v].step # "idle" /\ run[w].step # "idle" /\ run[v].ev = run[w].ev => v = w
    /\ \A w \in EventWorkers :
           run[w].step \in {"find", "charge"} => run[w].ev[1] \in {"booked", "completed"}

AttemptsLeft ==
    \A e \in Event : job[e].st \in {"waiting", "active"} => job[e].made < MaxAttempts

Tables ==
    /\ pay \in [Pay -> PayRow]
    /\ job \in [Event -> Job]
    /\ run \in [EventWorkers -> Slot]
    /\ heard \in [Event -> {"nothing", "sent", "silent"}]
    /\ till \in [Desk -> Till]

Typed == Tables /\ AttemptsLeft /\ SlotsOwnJobs

LEMMA Events ==
  /\ \A e \in Event :
        /\ e[1] \in {"booked", "completed"} => e[2] \in Appt
        /\ e[1] \in {"requested", "succeeded"} => e[2] \in Pay
        /\ e[1] \in {"booked", "completed", "requested", "succeeded"}
        /\ e # NoEvent
  /\ \A n \in 1..MaxRepeats :
        /\ \A a \in Appt : <<"booked", a, n>> \in Event /\ <<"completed", a, n>> \in Event
        /\ \A p \in Pay : <<"requested", p, n>> \in Event /\ <<"succeeded", p, n>> \in Event
  /\ 1 \in 1..MaxRepeats
BY BillingParameters DEF Event

LEMMA Blank ==
  /\ NoPayment \in PayRow /\ NoPayment.st = "none" /\ NoPayment.by = NoEvent
  /\ NoJob \in Job /\ NoJob.st = "none" /\ NoJob.made = 0
  /\ FreeSlot \in Slot /\ FreeSlot.step = "idle" /\ FreeSlot.ev = NoEvent
  /\ NoTill \in Till /\ NoTill.op = "none"
BY BillingParameters DEF NoPayment, PayRow, NoJob, Job, FreeSlot, Slot, Step, NoTill, Till

(* Another status: the rest of the payment stays.                          *)
PayKept ==
    \A p \in Pay : /\ pay'[p].by = pay[p].by /\ pay'[p].appt = pay[p].appt
                   /\ pay'[p].kind = pay[p].kind

LEMMA PayMoved ==
  ASSUME NEW p \in Pay, NEW s \in {"PENDING", "FAILED", "REFUNDED"} \cup Paid,
         pay \in [Pay -> PayRow], pay' = [pay EXCEPT ![p].st = s]
  PROVE  /\ pay' \in [Pay -> PayRow] /\ PayKept
         /\ pay'[p].st = s /\ \A q \in Pay : q # p => pay'[q] = pay[q]
<1> DEFINE r == [pay[p] EXCEPT !.st = s]
<1>1. pay[p] \in PayRow
  OBVIOUS
<1>2. /\ r \in PayRow /\ r.st = s /\ r.by = pay[p].by /\ r.appt = pay[p].appt
      /\ r.kind = pay[p].kind
  BY <1>1 DEF PayRow
<1>3. pay' = [pay EXCEPT ![p] = r]
  OBVIOUS
<1> HIDE DEF r
<1>4. QED
  BY <1>2, <1>3 DEF PayKept

LEMMA ProofMoved ==
  ASSUME NEW p \in Pay, pay \in [Pay -> PayRow], pay' = [pay EXCEPT ![p].proof = TRUE]
  PROVE  /\ pay' \in [Pay -> PayRow] /\ PayKept
         /\ \A q \in Pay : pay'[q].st = pay[q].st
<1> DEFINE r == [pay[p] EXCEPT !.proof = TRUE]
<1>1. pay[p] \in PayRow
  OBVIOUS
<1>2. /\ r \in PayRow /\ r.st = pay[p].st /\ r.by = pay[p].by /\ r.appt = pay[p].appt
      /\ r.kind = pay[p].kind
  BY <1>1 DEF PayRow
<1>3. pay' = [pay EXCEPT ![p] = r]
  OBVIOUS
<1> HIDE DEF r
<1>4. QED
  BY <1>2, <1>3 DEF PayKept

LEMMA PayMade ==
  ASSUME NEW p \in Pay, NEW c \in Clients \cup {NoClient},
         NEW kind \in {"manual", "instruction", "rail"},
         NEW s \in {"PENDING"} \cup Paid, NEW a \in Appt \cup {NoAppt},
         NEW ev \in Event \cup {NoEvent},
         pay \in [Pay -> PayRow], NewPayment(p, c, kind, s, a, ev)
  PROVE  /\ pay' \in [Pay -> PayRow] /\ pay[p] = NoPayment
         /\ pay'[p].st = s /\ pay'[p].kind = kind /\ pay'[p].appt = a /\ pay'[p].by = ev
         /\ \A q \in Pay : q # p => pay'[q] = pay[q]
<1> DEFINE r == [st |-> s, kind |-> kind, client |-> c, appt |-> a, by |-> ev, proof |-> FALSE]
<1>1. r \in PayRow /\ r.st = s /\ r.kind = kind /\ r.appt = a /\ r.by = ev
  BY DEF PayRow
<1>2. pay' = [pay EXCEPT ![p] = r] /\ pay[p] = NoPayment
  BY DEF NewPayment
<1> HIDE DEF r
<1>3. QED
  BY <1>1, <1>2

(* Jobs that exist are untouched; others may appear, waiting.              *)
JobsGrow ==
    /\ job' \in [Event -> Job]
    /\ \A e \in Event : \/ job'[e] = job[e]
                        \/ job[e] = NoJob /\ job'[e].st = "waiting" /\ job'[e].made = 0

(* Job e is given another state; none disappears.                          *)
JobMoves(e, s) ==
    /\ job' \in [Event -> Job]
    /\ job'[e].st = s
    /\ \A f \in Event : f # e => job'[f] = job[f]

LEMMA JobMoved ==
  ASSUME NEW e \in Event, NEW s \in {"waiting", "active", "done", "failed"},
         job \in [Event -> Job], job' = [job EXCEPT ![e].st = s]
  PROVE  JobMoves(e, s) /\ job'[e].made = job[e].made
<1> DEFINE j == [job[e] EXCEPT !.st = s]
<1>1. job[e] \in Job
  OBVIOUS
<1>2. j \in Job /\ j.st = s /\ j.made = job[e].made
  BY <1>1 DEF Job
<1>3. job' = [job EXCEPT ![e] = j]
  OBVIOUS
<1> HIDE DEF j
<1>4. QED
  BY <1>2, <1>3 DEF JobMoves

LEMMA Raised ==
  ASSUME NEW kind, NEW x, job \in [Event -> Job], Raise(kind, x),
         \A n \in 1..MaxRepeats : <<kind, x, n>> \in Event
  PROVE  JobsGrow /\ job'[<<kind, x, 1>>] # NoJob
<1>1. PICK n \in NextEvent(kind, x) : job' = [job EXCEPT ![<<kind, x, n>>].st = "waiting"]
  BY DEF Raise
<1> DEFINE e == <<kind, x, n>>
           f == <<kind, x, 1>>
<1>2. /\ n \in 1..MaxRepeats /\ e \in Event /\ job[e] = NoJob
      /\ n # 1 => job[f] # NoJob
  BY <1>1 DEF NextEvent
<1>3. f \in Event
  BY Events
<1>4. e = f \/ job[f] # NoJob
  BY <1>2
<1>5. job' = [job EXCEPT ![e].st = "waiting"]
  BY <1>1
<1> HIDE DEF e, f
<1>6. JobMoves(e, "waiting") /\ job'[e].made = job[e].made
  BY <1>2, <1>5, JobMoved
<1>7. JobsGrow
  BY <1>2, <1>6, Blank DEF JobsGrow, JobMoves
<1>8. job'[f] # NoJob
  BY <1>3, <1>4, <1>6, Blank DEF JobMoves
<1>9. QED
  BY <1>7, <1>8 DEF f

(* A slot goes on with its event, is given one, or is set free.            *)
SlotIs(w, step, ev) ==
    /\ run' \in [EventWorkers -> Slot]
    /\ run'[w].step = step /\ run'[w].ev = ev
    /\ \A v \in EventWorkers : v # w => run'[v] = run[v]

LEMMA SlotGoes ==
  ASSUME NEW w \in EventWorkers, NEW s \in Step, run \in [EventWorkers -> Slot], Goes(w, s)
  PROVE  SlotIs(w, s, run[w].ev)
<1> DEFINE r == [run[w] EXCEPT !.step = s]
<1>1. run[w] \in Slot
  OBVIOUS
<1>2. r \in Slot /\ r.step = s /\ r.ev = run[w].ev
  BY <1>1 DEF Slot
<1>3. run' = [run EXCEPT ![w] = r]
  BY DEF Goes
<1> HIDE DEF r
<1>4. QED
  BY <1>2, <1>3 DEF SlotIs

LEMMA SlotTurns ==
  ASSUME NEW w \in EventWorkers, NEW s \in Step, NEW p \in Pay \cup {NoPay},
         run \in [EventWorkers -> Slot], Turns(w, s, p)
  PROVE  SlotIs(w, s, run[w].ev)
<1> DEFINE r == [step |-> s, ev |-> run[w].ev, pay |-> p]
<1>1. run[w] \in Slot
  OBVIOUS
<1>2. r \in Slot /\ r.step = s /\ r.ev = run[w].ev
  BY <1>1 DEF Slot
<1>3. run' = [run EXCEPT ![w] = r]
  BY DEF Turns
<1> HIDE DEF r
<1>4. QED
  BY <1>2, <1>3 DEF SlotIs

LEMMA SlotFreed ==
  ASSUME NEW w \in EventWorkers, run \in [EventWorkers -> Slot],
         run' = [run EXCEPT ![w] = FreeSlot]
  PROVE  SlotIs(w, "idle", NoEvent)
BY Blank DEF SlotIs

LEMMA ThrownJob ==
  ASSUME NEW j \in Job, j.made < MaxAttempts
  PROVE  /\ Thrown(j) \in Job /\ Thrown(j).st \in {"waiting", "failed"}
         /\ Thrown(j).st = "waiting" => Thrown(j).made < MaxAttempts
<1> DEFINE s == IF j.made + 1 < MaxAttempts THEN "waiting" ELSE "failed"
           t == [st |-> s, made |-> j.made + 1, stalls |-> j.stalls]
<1>1. j.made \in 0..MaxAttempts /\ j.stalls \in 0..1
  BY DEF Job
<1>2. j.made + 1 \in 0..MaxAttempts /\ (j.made + 1 < MaxAttempts \/ s = "failed")
  BY <1>1, BillingParameters
<1>3. s \in {"waiting", "failed"}
  OBVIOUS
<1>4. Thrown(j) = t
  BY DEF Thrown
<1> HIDE DEF s
<1>5. t \in Job /\ t.st = s /\ t.made = j.made + 1
  BY <1>1, <1>2, <1>3 DEF Job
<1> HIDE DEF t
<1>6. QED
  BY <1>2, <1>3, <1>4, <1>5

LEMMA StalledJob ==
  ASSUME NEW j \in Job
  PROVE  /\ Stalled(j) \in Job /\ Stalled(j).st \in {"waiting", "failed"}
         /\ Stalled(j).made = j.made
<1> DEFINE s == IF j.stalls = 0 THEN "waiting" ELSE "failed"
           t == [st |-> s, made |-> j.made, stalls |-> 1]
<1>1. j.made \in 0..MaxAttempts /\ s \in {"waiting", "failed"}
  BY DEF Job
<1>2. Stalled(j) = t
  BY DEF Stalled
<1> HIDE DEF s
<1>3. t \in Job /\ t.st = s /\ t.made = j.made
  BY <1>1 DEF Job
<1> HIDE DEF t
<1>4. QED
  BY <1>1, <1>2, <1>3

-----------------------------------------------------------------------------
(* The queue                                                               *)

LEMMA JobsUntouched ==
  ASSUME Tables, UNCHANGED job
  PROVE  JobsGrow
BY DEF JobsGrow, Tables

LEMMA QueueRests ==
  ASSUME AttemptsLeft, SlotsOwnJobs, JobsGrow, UNCHANGED run
  PROVE  AttemptsLeft' /\ SlotsOwnJobs'
<1>1. AttemptsLeft'
  BY BillingParameters DEF AttemptsLeft, JobsGrow
<1>2. SlotsOwnJobs'
  BY Blank DEF SlotsOwnJobs, JobsGrow
<1>3. QED
  BY <1>1, <1>2

LEMMA SlotWorks ==
  ASSUME NEW w \in EventWorkers, NEW s \in Step, AttemptsLeft, SlotsOwnJobs, JobsGrow,
         run[w].step # "idle", SlotIs(w, s, run[w].ev),
         s \in {"find", "charge"} => run[w].step \in {"find", "charge"}
  PROVE  AttemptsLeft' /\ SlotsOwnJobs'
<1>1. AttemptsLeft'
  BY BillingParameters DEF AttemptsLeft, JobsGrow
<1>2. \A v \in EventWorkers :
         /\ run'[v].ev = run[v].ev
         /\ run'[v].step # "idle" => run[v].step # "idle"
         /\ run'[v].step \in {"find", "charge"} => run[v].step \in {"find", "charge"}
  BY DEF SlotIs
<1>3. \A e \in Event : job[e].st = "active" => job'[e].st = "active"
  BY Blank DEF JobsGrow
<1>4. SlotsOwnJobs'
  BY <1>2, <1>3 DEF SlotsOwnJobs
<1>5. QED
  BY <1>1, <1>4

LEMMA SlotLeaves ==
  ASSUME NEW w \in EventWorkers, NEW s \in {"waiting", "done", "failed"},
         AttemptsLeft, SlotsOwnJobs, run[w].step # "idle", SlotIs(w, "idle", NoEvent),
         JobMoves(run[w].ev, s), s = "waiting" => job'[run[w].ev].made < MaxAttempts
  PROVE  AttemptsLeft' /\ SlotsOwnJobs'
<1>1. AttemptsLeft'
  BY DEF AttemptsLeft, JobMoves
<1>2. SlotsOwnJobs'
  BY DEF SlotsOwnJobs, JobMoves, SlotIs
<1>3. QED
  BY <1>1, <1>2

LEMMA SlotStarts ==
  ASSUME NEW w \in EventWorkers, NEW ev \in Event, NEW s \in Step,
         AttemptsLeft, SlotsOwnJobs, job[ev].st = "waiting", run[w].step = "idle",
         JobMoves(ev, "active"), job'[ev].made = job[ev].made, SlotIs(w, s, ev),
         s \in {"find", "charge"} => ev[1] \in {"booked", "completed"}
  PROVE  AttemptsLeft' /\ SlotsOwnJobs'
<1>1. AttemptsLeft'
  BY DEF AttemptsLeft, JobMoves
<1>2. \A v \in EventWorkers : v # w => run'[v] = run[v] /\ (run[v].step # "idle" => run[v].ev # ev)
  BY DEF SlotsOwnJobs, SlotIs
<1>3. SlotsOwnJobs'
  BY <1>2 DEF SlotsOwnJobs, JobMoves, SlotIs
<1>4. QED
  BY <1>1, <1>3

-----------------------------------------------------------------------------
(* What makes the properties inductive, and what leaves it alone           *)

(* The fee a job has charged is linked to its appointment, and a slot      *)
(* charges for a job that has not charged yet.                             *)
Charged ==
    /\ \A p \in Pay : pay[p].by # NoEvent =>
           pay[p].st # "none" /\ pay[p].appt = pay[p].by[2]
    /\ \A w \in EventWorkers, p \in Pay :
           run[w].step = "charge" => pay[p].by # run[w].ev
    /\ EachJobChargesOnce

Announcement(p) == job[<<"succeeded", p, 1>>] # NoJob

(* Whoever is about to refund has read a payment that was announced, or    *)
(* cash; and announcements stay.                                           *)
Announced ==
    /\ \A r \in Desk : till[r].op # "none" => till[r].pay \in Pay
    /\ \A r \in Desk : till[r].op = "refund" =>
           /\ pay[till[r].pay].st # "none"
           /\ pay[till[r].pay].kind = "manual" \/ Announcement(till[r].pay)
    /\ ReceivedIsAnnounced

(* A receipt job whose handler is through has reached the client or found  *)
(* its reason not to.                                                      *)
Heard ==
    /\ \A w \in EventWorkers :
           run[w].step \in {"confirm", "finish"} /\ run[w].ev[1] = "succeeded"
           => heard[run[w].ev] # "nothing"
    /\ ReceiptsAreHeard

JobsStay == \A e \in Event : job[e] # NoJob => job'[e] # NoJob

LEMMA GrowingJobsStay ==
  JobsGrow => JobsStay /\ \A e \in Event : job'[e].st = "done" => job[e].st = "done"
BY DEF JobsGrow, JobsStay

LEMMA MovingJobsStay ==
  ASSUME NEW e \in Event, NEW s \in {"waiting", "active", "done", "failed"}, JobMoves(e, s)
  PROVE  JobsStay
BY Blank DEF JobMoves, JobsStay

LEMMA ChargedStays ==
  ASSUME Typed, Charged,
         \A p \in Pay : \/ /\ pay'[p].by = pay[p].by /\ pay'[p].appt = pay[p].appt
                           /\ pay[p].st # "none" => pay'[p].st # "none"
                        \/ pay'[p].by = NoEvent,
         \A w \in EventWorkers : run'[w].step = "charge" =>
             run[w].step = "charge" /\ run'[w].ev = run[w].ev
  PROVE  Charged'
<1>1. \A p \in Pay : pay'[p].by # NoEvent =>
         /\ pay'[p].by = pay[p].by /\ pay'[p].appt = pay[p].appt
         /\ pay[p].st # "none" => pay'[p].st # "none"
  OBVIOUS
<1>2. \A p \in Pay : pay'[p].by # NoEvent =>
         pay'[p].st # "none" /\ pay'[p].appt = pay'[p].by[2]
  BY <1>1 DEF Charged
<1>3. ASSUME NEW w \in EventWorkers, NEW p \in Pay, run'[w].step = "charge"
      PROVE  pay'[p].by # run'[w].ev
  <2>1. run[w].step = "charge" /\ run'[w].ev = run[w].ev /\ run[w].ev # NoEvent
    BY <1>3, Events DEF Typed, SlotsOwnJobs
  <2>2. QED
    BY <1>1, <2>1 DEF Charged
<1>4. EachJobChargesOnce'
  BY <1>1 DEF Charged, EachJobChargesOnce
<1>5. QED
  BY <1>2, <1>3, <1>4 DEF Charged

LEMMA AnnouncedStays ==
  ASSUME Announced, JobsStay,
         \A r \in Desk : till'[r] = till[r] \/ till'[r] = NoTill,
         \A p \in Pay : /\ pay[p].st # "none" =>
                               pay'[p].st # "none" /\ pay'[p].kind = pay[p].kind
                        /\ pay'[p].st \in Paid \cup {"REFUNDED"} /\ pay'[p].kind # "manual" =>
                               \/ pay[p].st \in Paid \cup {"REFUNDED"} /\ pay[p].kind # "manual"
                               \/ Announcement(p)'
  PROVE  Announced'
<1>1. \A p \in Pay : Announcement(p) => Announcement(p)'
  BY Events DEF Announcement, JobsStay
<1>2. ReceivedIsAnnounced'
  BY <1>1 DEF Announced, ReceivedIsAnnounced, Announcement
<1>3. \A r \in Desk : till'[r].op # "none" => till'[r] = till[r]
  BY Blank
<1>4. QED
  BY <1>1, <1>2, <1>3 DEF Announced

LEMMA HeardStays ==
  ASSUME Heard,
         \A e \in Event : /\ heard[e] # "nothing" => heard'[e] # "nothing"
                          /\ job'[e].st = "done" => job[e].st = "done",
         \A w \in EventWorkers :
             run'[w].step \in {"confirm", "finish"} /\ run'[w].ev[1] = "succeeded" =>
                 /\ run'[w].ev \in Event
                 /\ \/ run[w].step \in {"confirm", "finish"} /\ run'[w].ev = run[w].ev
                    \/ heard'[run'[w].ev] # "nothing"
  PROVE  Heard'
<1>1. ReceiptsAreHeard'
  BY Events DEF Heard, ReceiptsAreHeard
<1>2. QED
  BY <1>1 DEF Heard

Billed == Typed /\ Charged /\ Announced /\ Heard

LEMMA BilledInit == Init => Billed
<1> SUFFICES ASSUME Init PROVE Billed
  OBVIOUS
<1>1. Tables
  BY Blank DEF Init, Tables
<1>2. AttemptsLeft /\ SlotsOwnJobs
  BY Blank DEF Init, AttemptsLeft, SlotsOwnJobs
<1>3. Charged
  BY Blank DEF Init, Charged, EachJobChargesOnce
<1>4. Announced
  BY Blank, Events DEF Init, Announced, ReceivedIsAnnounced, Paid
<1>5. Heard
  BY Blank, Events DEF Init, Heard, ReceiptsAreHeard
<1>6. QED
  BY <1>1, <1>2, <1>3, <1>4, <1>5 DEF Billed, Typed

LEMMA BilledRests ==
  ASSUME Billed, UNCHANGED billingVars
  PROVE  Billed'
<1>1. Typed'
  BY DEF Billed, Typed, Tables, AttemptsLeft, SlotsOwnJobs, billingVars
<1>2. Charged'
  BY DEF Billed, Charged, EachJobChargesOnce, billingVars
<1>3. Announced'
  BY DEF Billed, Announced, Announcement, ReceivedIsAnnounced, billingVars
<1>4. Heard'
  BY DEF Billed, Heard, ReceiptsAreHeard, billingVars
<1>5. QED
  BY <1>1, <1>2, <1>3, <1>4 DEF Billed

(* No slot moves; jobs may appear.                                         *)
LEMMA SlotsRest ==
  ASSUME Billed, JobsGrow, UNCHANGED <<run, heard>>, pay' \in [Pay -> PayRow],
         till' \in [Desk -> Till]
  PROVE  Typed' /\ Heard' /\ JobsStay
<1>1. AttemptsLeft' /\ SlotsOwnJobs'
  BY QueueRests DEF Billed, Typed
<1>2. Typed'
  BY <1>1 DEF Billed, Typed, Tables, JobsGrow
<1>3. JobsStay /\ \A e \in Event : job'[e].st = "done" => job[e].st = "done"
  BY GrowingJobsStay
<1>4. Heard'
  <2>1. Heard
    BY DEF Billed
  <2>2. \A w \in EventWorkers : run[w].step # "idle" => run[w].ev \in Event
    BY DEF Billed, Typed, SlotsOwnJobs
  <2>3. QED
    BY <1>3, <2>1, <2>2, HeardStays
<1>5. QED
  BY <1>2, <1>3, <1>4

LEMMA BilledByDiary ==
  ASSUME Billed, Diary \/ DiaryEvents
  PROVE  Billed'
<1>1. CASE Diary
  BY <1>1, BilledRests DEF Diary
<1>2. ASSUME JobsGrow, UNCHANGED <<pay, run, heard, till>> PROVE Billed'
  <2>1. Typed' /\ Heard' /\ JobsStay
    BY <1>2, SlotsRest DEF Billed, Typed, Tables
  <2>2. Charged'
    BY <1>2, ChargedStays DEF Billed
  <2>3. Announced'
    BY <1>2, <2>1, AnnouncedStays DEF Billed
  <2>4. QED
    BY <2>1, <2>2, <2>3 DEF Billed
<1>3. job \in [Event -> Job]
  BY DEF Billed, Typed, Tables
<1>4. ASSUME NEW a \in Appt, BookingCommits(a) PROVE Billed'
  <2>1. JobsGrow
    BY <1>3, <1>4, Raised, Events DEF BookingCommits
  <2>2. QED
    BY <1>2, <1>4, <2>1 DEF BookingCommits
<1>5. ASSUME NEW r \in Desk, NEW span, AppointmentChanges(r, span) PROVE Billed'
  <2>1. JobsGrow
    <3>1. CASE UNCHANGED job
      BY <3>1, JobsUntouched DEF Billed, Typed
    <3>2. CASE Raise("completed", edit[r].appt)
      <4> DEFINE a == edit[r].appt
      <4>1. CASE a \in Appt
        BY <1>3, <3>2, <4>1, Raised, Events
      <4>2. CASE a \notin Appt
        <5>1. PICK n \in NextEvent("completed", a) :
                 job' = [job EXCEPT ![<<"completed", a, n>>].st = "waiting"]
          BY <3>2 DEF Raise
        <5>2. <<"completed", a, n>> \notin Event
          BY <4>2 DEF Event
        <5>3. UNCHANGED job
          BY <1>3, <5>1, <5>2
        <5>4. QED
          BY <5>3, JobsUntouched DEF Billed, Typed
      <4>3. QED
        BY <4>1, <4>2
    <3>3. QED
      BY <1>5, <3>1, <3>2 DEF AppointmentChanges
  <2>2. QED
    BY <1>2, <1>5, <2>1 DEF AppointmentChanges
<1>6. QED
  BY <1>1, <1>4, <1>5 DEF DiaryEvents

(* A payment is made, for nobody's event.                                  *)
LEMMA BilledByNewPayment ==
  ASSUME Billed, NEW p \in Pay, NEW c \in Clients,
         NEW kind \in {"manual", "instruction", "rail"}, NEW s \in {"PENDING"} \cup Paid,
         NewPayment(p, c, kind, s, NoAppt, NoEvent), JobsGrow, UNCHANGED <<run, heard, till>>,
         s \in Paid /\ kind # "manual" => Announcement(p)'
  PROVE  Billed'
<1>1. /\ pay' \in [Pay -> PayRow] /\ pay[p] = NoPayment
      /\ pay'[p].st = s /\ pay'[p].kind = kind /\ pay'[p].by = NoEvent
      /\ \A q \in Pay : q # p => pay'[q] = pay[q]
  <2>1. pay \in [Pay -> PayRow]
    BY DEF Billed, Typed, Tables
  <2>2. QED
    BY <2>1, PayMade
<1>2. Typed' /\ Heard' /\ JobsStay
  BY <1>1, SlotsRest DEF Billed, Typed, Tables
<1>3. Charged'
  <2>1. \A q \in Pay : pay'[q] = pay[q] \/ pay'[q].by = NoEvent
    BY <1>1
  <2>2. QED
    BY <2>1, ChargedStays DEF Billed
<1>4. Announced'
  <2>1. \A q \in Pay : q # p => pay'[q] = pay[q]
    BY <1>1
  <2>2. pay[p].st = "none"
    BY <1>1, Blank
  <2>3. s \notin {"REFUNDED", "none"}
    BY DEF Paid
  <2>4. \A q \in Pay : /\ pay[q].st # "none" =>
                               pay'[q].st # "none" /\ pay'[q].kind = pay[q].kind
                       /\ pay'[q].st \in Paid \cup {"REFUNDED"} /\ pay'[q].kind # "manual" =>
                               \/ pay[q].st \in Paid \cup {"REFUNDED"} /\ pay[q].kind # "manual"
                               \/ Announcement(q)'
    BY <1>1, <2>2, <2>3
  <2>5. QED
    BY <1>2, <2>4, AnnouncedStays DEF Billed
<1>5. QED
  BY <1>2, <1>3, <1>4 DEF Billed

(* A payment is given another status.                                      *)
LEMMA BilledByStatus ==
  ASSUME Billed, NEW p \in Pay, NEW s \in {"FAILED", "REFUNDED"} \cup Paid,
         pay' = [pay EXCEPT ![p].st = s], JobsGrow, UNCHANGED <<run, heard>>,
         till' \in [Desk -> Till],
         \A r \in Desk : till'[r] = till[r] \/ till'[r] = NoTill,
         s # "FAILED" => Announcement(p)' \/ pay[p].kind = "manual"
  PROVE  Billed'
<1>1. /\ pay' \in [Pay -> PayRow] /\ PayKept
      /\ pay'[p].st = s /\ \A q \in Pay : q # p => pay'[q] = pay[q]
  BY PayMoved DEF Billed, Typed, Tables
<1>2. Typed' /\ Heard' /\ JobsStay
  BY <1>1, SlotsRest
<1>3. s # "none" /\ (s = "FAILED" => s \notin Paid \cup {"REFUNDED"})
  BY DEF Paid
<1>4. Charged'
  BY <1>1, <1>3, ChargedStays DEF Billed, PayKept
<1>5. \A q \in Pay : /\ pay[q].st # "none" =>
                             pay'[q].st # "none" /\ pay'[q].kind = pay[q].kind
                     /\ pay'[q].st \in Paid \cup {"REFUNDED"} /\ pay'[q].kind # "manual" =>
                             \/ pay[q].st \in Paid \cup {"REFUNDED"} /\ pay[q].kind # "manual"
                             \/ Announcement(q)'
  BY <1>1, <1>3 DEF PayKept
<1>6. Announced'
  BY <1>2, <1>5, AnnouncedStays DEF Billed
<1>7. QED
  BY <1>2, <1>4, <1>6 DEF Billed

LEMMA BilledByMoney ==
  ASSUME Billed, Money
  PROVE  Billed'
<1>1. Tables
  BY DEF Billed, Typed
<1>2. job \in [Event -> Job] /\ till \in [Desk -> Till] /\ pay \in [Pay -> PayRow]
  BY <1>1 DEF Tables
<1>3. ASSUME NEW p \in Pay, NEW c \in Clients, NEW kind \in PayKinds, RequestPayment(p, c, kind)
      PROVE  Billed'
  <2> DEFINE s == IF kind = "manual" THEN "RECORDED_MANUAL" ELSE "PENDING"
  <2>1. JobsGrow
    BY <1>2, <1>3, Raised, Events DEF RequestPayment
  <2>2. /\ s \in {"PENDING"} \cup Paid /\ (s \in Paid => kind = "manual")
        /\ kind \in {"manual", "instruction", "rail"}
    BY BillingParameters DEF Paid
  <2>3. NewPayment(p, c, kind, s, NoAppt, NoEvent) /\ UNCHANGED <<run, heard, till>>
    BY <1>3 DEF RequestPayment
  <2> HIDE DEF s
  <2>4. QED
    BY <2>1, <2>2, <2>3, BilledByNewPayment
<1>4. ASSUME NEW p \in Pay, NEW c \in Clients, RecordManualPayment(p, c) PROVE Billed'
  <2>1. JobsGrow /\ Announcement(p)'
    BY <1>2, <1>4, Raised, Events DEF RecordManualPayment, Announcement
  <2>2. /\ NewPayment(p, c, "instruction", "RECORDED_MANUAL", NoAppt, NoEvent)
        /\ UNCHANGED <<run, heard, till>>
    BY <1>4 DEF RecordManualPayment
  <2>3. "RECORDED_MANUAL" \in {"PENDING"} \cup Paid
    BY DEF Paid
  <2>4. QED
    BY <2>1, <2>2, <2>3, BilledByNewPayment
<1>5. ASSUME NEW p \in Pay, NEW c \in Clients, ChargeForDetails(c, p) PROVE Billed'
  <2>1. JobsGrow
    BY <1>2, <1>5, Raised, Events DEF ChargeForDetails
  <2>2. /\ NewPayment(p, c, "instruction", "PENDING", NoAppt, NoEvent)
        /\ UNCHANGED <<run, heard, till>>
    BY <1>5 DEF ChargeForDetails
  <2>3. "PENDING" \notin Paid
    BY DEF Paid
  <2>4. QED
    BY <2>1, <2>2, <2>3, BilledByNewPayment
<1>6. ASSUME NEW p \in Pay, AttachProof(p) PROVE Billed'
  <2>1. /\ pay' \in [Pay -> PayRow] /\ PayKept /\ \A q \in Pay : pay'[q].st = pay[q].st
        /\ JobsGrow /\ UNCHANGED <<run, heard, till>>
    BY <1>1, <1>2, <1>6, ProofMoved, JobsUntouched DEF AttachProof
  <2>2. Typed' /\ Heard' /\ JobsStay
    BY <1>2, <2>1, SlotsRest
  <2>3. Charged'
    BY <2>1, ChargedStays DEF Billed, PayKept
  <2>4. Announced'
    BY <2>1, <2>2, AnnouncedStays DEF Billed, PayKept
  <2>5. QED
    BY <2>2, <2>3, <2>4 DEF Billed
<1>7. ASSUME NEW p \in Pay, NEW success \in BOOLEAN, ProcessWebhook(p, success) PROVE Billed'
  <2> DEFINE s == IF success THEN "SUCCEEDED" ELSE "FAILED"
  <2>1. pay' = [pay EXCEPT ![p].st = s] /\ UNCHANGED <<run, heard, till>>
    BY <1>7 DEF ProcessWebhook
  <2>2. s \in {"FAILED", "REFUNDED"} \cup Paid
    BY DEF Paid
  <2>3. JobsGrow /\ (s # "FAILED" => Announcement(p)')
    BY <1>1, <1>2, <1>7, Raised, Events, JobsUntouched DEF ProcessWebhook, Announcement
  <2> HIDE DEF s
  <2>4. QED
    BY <1>2, <2>1, <2>2, <2>3, BilledByStatus
<1>8. ASSUME NEW r \in Desk, NEW p \in Pay, NEW op \in {"refund", "confirm"}, ReadPayment(r, op, p)
      PROVE  Billed'
  <2> DEFINE t == [op |-> op, pay |-> p]
  <2>1. t \in Till /\ t.op = op /\ t.pay = p
    BY DEF Till
  <2>2. till' = [till EXCEPT ![r] = t] /\ UNCHANGED <<pay, job, run, heard>>
    BY <1>8 DEF ReadPayment
  <2>3. op = "refund" => pay[p].st \in Paid
    BY <1>8 DEF ReadPayment
  <2> HIDE DEF t
  <2>4. /\ till' \in [Desk -> Till] /\ till'[r] = t
        /\ \A q \in Desk : q # r => till'[q] = till[q]
    BY <1>2, <2>1, <2>2
  <2>5. Typed' /\ Heard'
    BY <1>1, <1>2, <2>2, <2>4, JobsUntouched, SlotsRest
  <2>6. Charged'
    BY <2>2 DEF Billed, Charged, EachJobChargesOnce
  <2>7. op = "refund" => pay[p].st # "none" /\ (pay[p].kind = "manual" \/ Announcement(p))
    BY <2>3 DEF Billed, Announced, ReceivedIsAnnounced, Announcement, Paid
  <2>8. Announced'
    BY <2>1, <2>2, <2>4, <2>7 DEF Billed, Announced, ReceivedIsAnnounced, Announcement
  <2>9. QED
    BY <2>5, <2>6, <2>8 DEF Billed
<1>9. ASSUME NEW r \in Desk, till' = [till EXCEPT ![r] = NoTill]
      PROVE  till' \in [Desk -> Till] /\ \A q \in Desk : till'[q] = till[q] \/ till'[q] = NoTill
  BY <1>2, <1>9, Blank
<1>10. ASSUME NEW r \in Desk, ConfirmReceived(r) PROVE Billed'
  <2>1. PICK p \in Pay : p = till[r].pay
    BY <1>10 DEF ConfirmReceived, Billed, Announced
  <2>2. /\ pay' = [pay EXCEPT ![p].st = "RECORDED_MANUAL"] /\ Raise("succeeded", p)
        /\ till' = [till EXCEPT ![r] = NoTill] /\ UNCHANGED <<run, heard>>
    BY <1>10, <2>1 DEF ConfirmReceived
  <2>3. JobsGrow /\ Announcement(p)'
    BY <1>2, <2>2, Raised, Events DEF Announcement
  <2>4. "RECORDED_MANUAL" \in {"FAILED", "REFUNDED"} \cup Paid
    BY DEF Paid
  <2>5. QED
    BY <1>9, <2>2, <2>3, <2>4, BilledByStatus
<1>11. ASSUME NEW r \in Desk, Refund(r) PROVE Billed'
  <2>1. PICK p \in Pay : p = till[r].pay
    BY <1>11 DEF Refund, Billed, Announced
  <2>2. /\ pay' = [pay EXCEPT ![p].st = "REFUNDED"]
        /\ till' = [till EXCEPT ![r] = NoTill] /\ UNCHANGED <<job, run, heard>>
    BY <1>11, <2>1 DEF Refund
  <2>3. pay[p].kind = "manual" \/ Announcement(p)
    BY <1>11, <2>1 DEF Refund, Billed, Announced
  <2>4. JobsGrow /\ (Announcement(p) => Announcement(p)')
    BY <1>1, <2>2, JobsUntouched DEF Announcement
  <2>5. QED
    BY <1>9, <2>2, <2>3, <2>4, BilledByStatus
<1>12. ASSUME NEW c \in Clients, AskDetails(c) PROVE Billed'
  BY <1>12, BilledRests DEF AskDetails
<1>13. QED
  BY <1>3, <1>4, <1>5, <1>6, <1>7, <1>8, <1>10, <1>11, <1>12 DEF Money

-----------------------------------------------------------------------------
(* The handlers                                                            *)

LEMMA HeardSet ==
  ASSUME NEW e \in Event, NEW what \in {"sent", "silent"},
         heard \in [Event -> {"nothing", "sent", "silent"}],
         heard' = [heard EXCEPT ![e] = what]
  PROVE  /\ heard' \in [Event -> {"nothing", "sent", "silent"}]
         /\ heard'[e] # "nothing"
         /\ \A f \in Event : heard[f] # "nothing" => heard'[f] # "nothing"
OBVIOUS

(* A handler takes a step that leaves payments and jobs alone.             *)
LEMMA BilledByWork ==
  ASSUME Billed, NEW w \in EventWorkers, NEW s \in Step \ {"idle"},
         run[w].step # "idle", SlotIs(w, s, run[w].ev), UNCHANGED <<pay, job, till>>,
         heard' \in [Event -> {"nothing", "sent", "silent"}],
         \A f \in Event : heard[f] # "nothing" => heard'[f] # "nothing",
         s # "find",
         s = "charge" => run[w].step = "find" /\ \A p \in Pay : pay[p].by # run[w].ev,
         s \in {"confirm", "finish"} /\ run[w].ev[1] = "succeeded" =>
             heard'[run[w].ev] # "nothing"
  PROVE  Billed'
<1>1. JobsGrow /\ JobsStay
  BY JobsUntouched, GrowingJobsStay DEF Billed, Typed
<1>2. Typed'
  <2>1. AttemptsLeft' /\ SlotsOwnJobs'
    BY <1>1, SlotWorks DEF Billed, Typed
  <2>2. QED
    BY <1>1, <2>1 DEF Billed, Typed, Tables, JobsGrow, SlotIs
<1>3. Charged'
  <2>1. \A v \in EventWorkers, p \in Pay : run'[v].step = "charge" => pay[p].by # run'[v].ev
    BY DEF SlotIs, Billed, Charged
  <2>2. QED
    BY <2>1 DEF Billed, Charged, EachJobChargesOnce
<1>4. Announced'
  BY DEF Billed, Announced, Announcement, ReceivedIsAnnounced
<1>5. Heard'
  <2>1. \A v \in EventWorkers : run[v].step # "idle" => run[v].ev \in Event
    BY DEF Billed, Typed, SlotsOwnJobs
  <2>2. ASSUME NEW v \in EventWorkers, run'[v].step \in {"confirm", "finish"},
               run'[v].ev[1] = "succeeded"
        PROVE  heard'[run'[v].ev] # "nothing"
    BY <2>1, <2>2 DEF SlotIs, Billed, Heard
  <2>3. ReceiptsAreHeard'
    BY Events DEF Billed, Heard, ReceiptsAreHeard
  <2>4. QED
    BY <2>2, <2>3 DEF Heard
<1>6. QED
  BY <1>2, <1>3, <1>4, <1>5 DEF Billed

(* A slot gives up its job, which waits again or is over.                  *)
LEMMA BilledByLeaving ==
  ASSUME Billed, NEW w \in EventWorkers, NEW s \in {"waiting", "done", "failed"},
         run[w].step # "idle", run' = [run EXCEPT ![w] = FreeSlot],
         JobMoves(run[w].ev, s), s = "waiting" => job'[run[w].ev].made < MaxAttempts,
         UNCHANGED <<pay, heard, till>>,
         s = "done" /\ run[w].ev[1] = "succeeded" => heard[run[w].ev] # "nothing"
  PROVE  Billed'
<1>1. Tables /\ run[w].ev \in Event
  BY DEF Billed, Typed, SlotsOwnJobs
<1>2. SlotIs(w, "idle", NoEvent)
  BY <1>1, SlotFreed DEF Tables
<1>3. JobsStay
  BY <1>1, MovingJobsStay
<1>4. Typed'
  <2>1. AttemptsLeft' /\ SlotsOwnJobs'
    BY <1>2, SlotLeaves DEF Billed, Typed
  <2>2. QED
    BY <1>1, <1>2, <2>1 DEF Typed, Tables, JobMoves, SlotIs
<1>5. Charged'
  BY <1>2 DEF SlotIs, Billed, Charged, EachJobChargesOnce
<1>6. Announced'
  BY <1>3, AnnouncedStays DEF Billed
<1>7. Heard'
  <2>1. \A v \in EventWorkers : run'[v].step \in {"confirm", "finish"} => run'[v] = run[v]
    BY <1>2 DEF SlotIs
  <2>2. ASSUME NEW p \in Pay, NEW n \in 1..MaxRepeats,
               job'[<<"succeeded", p, n>>].st = "done"
        PROVE  heard[<<"succeeded", p, n>>] # "nothing"
    <3> DEFINE e == <<"succeeded", p, n>>
    <3>1. e \in Event /\ e[1] = "succeeded" /\ job'[e].st = "done"
      BY <2>2, Events
    <3>2. job[e].st = "done" => heard[e] # "nothing"
      BY DEF Billed, Heard, ReceiptsAreHeard
    <3> HIDE DEF e
    <3>3. heard[e] # "nothing"
      BY <3>1, <3>2 DEF JobMoves
    <3>4. QED
      BY <3>3 DEF e
  <2>3. QED
    BY <2>1, <2>2 DEF Billed, Heard, ReceiptsAreHeard
<1>8. QED
  BY <1>4, <1>5, <1>6, <1>7 DEF Billed

LEMMA BilledByHandlers ==
  ASSUME Billed, DiaryKept, NEW w \in EventWorkers, Handlers(w)
  PROVE  Billed'
<1>1. Tables /\ (run[w].step # "idle" => run[w].ev \in Event /\ run[w].ev # NoEvent)
  BY Events DEF Billed, Typed, SlotsOwnJobs
<1>2. /\ pay \in [Pay -> PayRow] /\ job \in [Event -> Job] /\ run \in [EventWorkers -> Slot]
      /\ heard \in [Event -> {"nothing", "sent", "silent"}]
  BY <1>1 DEF Tables
<1>3. run[w].step \in {"find", "charge"} =>
         run[w].ev[1] \in {"booked", "completed"} /\ run[w].ev[2] \in Appt
  BY <1>1, Events DEF Billed, Typed, SlotsOwnJobs
<1>4. ASSUME NEW ev \in Event, StartEvent(w, ev) PROVE Billed'
  <2> DEFINE s == CASE ev[1] \in {"booked", "completed"} -> "find"
                    [] ev[1] = "requested" -> "instruct"
                    [] OTHER -> "load"
             q == IF ev[1] \in {"requested", "succeeded"} THEN ev[2] ELSE NoPay
             r == [ev |-> ev, step |-> s, pay |-> q]
  <2>1. /\ run[w].step = "idle" /\ job[ev].st = "waiting" /\ UNCHANGED <<pay, heard, till>>
        /\ job' = [job EXCEPT ![ev].st = "active"] /\ run' = [run EXCEPT ![w] = r]
    BY <1>4, Blank DEF StartEvent, Handling
  <2>2. q \in Pay \cup {NoPay}
    BY Events
  <2>3. /\ s \in {"find", "instruct", "load"}
        /\ s = "find" => ev[1] \in {"booked", "completed"}
    OBVIOUS
  <2> HIDE DEF s, q
  <2>4. r \in Slot /\ r.ev = ev /\ r.step = s
    BY <2>2, <2>3 DEF Slot, Step
  <2> HIDE DEF r
  <2>5. SlotIs(w, s, ev)
    BY <1>2, <2>1, <2>4 DEF SlotIs
  <2>6. JobMoves(ev, "active") /\ job'[ev].made = job[ev].made
    BY <1>2, <2>1, JobMoved
  <2>7. AttemptsLeft' /\ SlotsOwnJobs'
    BY <2>1, <2>3, <2>5, <2>6, SlotStarts DEF Billed, Typed, Step
  <2>8. Typed'
    BY <1>1, <2>1, <2>5, <2>6, <2>7 DEF Typed, Tables, SlotIs, JobMoves
  <2>9. Charged'
    BY <2>1, <2>3, <2>5 DEF Billed, Charged, EachJobChargesOnce, SlotIs
  <2>10. JobsStay
    BY <2>6, MovingJobsStay
  <2>11. Announced'
    BY <2>1, <2>10, AnnouncedStays DEF Billed
  <2>12. Heard'
    <3>1. \A e \in Event : job'[e].st = "done" => job[e].st = "done"
      BY <2>6 DEF JobMoves
    <3>2. \A v \in EventWorkers : run'[v].step \in {"confirm", "finish"} => run'[v] = run[v]
      BY <2>3, <2>5 DEF SlotIs
    <3>3. QED
      BY <2>1, <3>1, <3>2, Events DEF Billed, Heard, ReceiptsAreHeard
  <2>13. QED
    BY <2>8, <2>9, <2>11, <2>12 DEF Billed
<1>5. ASSUME FindFee(w) PROVE Billed'
  <2> DEFINE mine == {p \in Pay : pay[p].st # "none" /\ pay[p].appt = run[w].ev[2]}
  <2>1. run[w].step = "find" /\ UNCHANGED <<pay, job, heard, till>>
    BY <1>5 DEF FindFee, Handling
  <2>2. PICK s \in {"charge", "finish", "instruct"} :
           SlotIs(w, s, run[w].ev) /\ (s = "charge" => mine = {})
    <3>1. CASE mine = {}
      <4>1. Goes(w, IF FeeSet THEN "charge" ELSE "finish")
        BY <1>5, <3>1 DEF FindFee
      <4>2. QED
        BY <1>2, <3>1, <4>1, SlotGoes DEF Step
    <3>2. CASE mine # {}
      <4>1. PICK p \in mine : Turns(w, IF pay[p].st = "PENDING" THEN "instruct" ELSE "finish", p)
        BY <1>5, <3>2 DEF FindFee
      <4>2. QED
        BY <1>2, <4>1, SlotTurns DEF Step
    <3>3. QED
      BY <3>1, <3>2
  <2>3. s = "charge" => \A p \in Pay : pay[p].by # run[w].ev
    BY <1>1, <2>1, <2>2 DEF Billed, Charged
  <2>4. run[w].ev[1] # "succeeded"
    BY <1>3, <2>1
  <2>5. QED
    BY <1>2, <2>1, <2>2, <2>3, <2>4, BilledByWork DEF Step
<1>6. ASSUME NEW p \in Pay, ChargeFee(w, p) PROVE Billed'
  <2> DEFINE a == run[w].ev[2]
             c == appt[a].client
  <2>1. /\ run[w].step = "charge" /\ UNCHANGED <<heard, till>>
        /\ NewPayment(p, c, "instruction", "PENDING", a, run[w].ev)
        /\ Raise("requested", p) /\ Goes(w, "finish")
    BY <1>6 DEF ChargeFee, Handling
  <2>2. a \in Appt /\ c \in Clients \cup {NoClient} /\ run[w].ev \in Event
    BY <1>1, <1>3, <2>1 DEF DiaryKept
  <2> HIDE DEF c
  <2>3. /\ pay' \in [Pay -> PayRow] /\ pay[p] = NoPayment
        /\ pay'[p].st = "PENDING" /\ pay'[p].appt = a /\ pay'[p].by = run[w].ev
        /\ \A q \in Pay : q # p => pay'[q] = pay[q]
    <3>1. a \in Appt \cup {NoAppt} /\ run[w].ev \in Event \cup {NoEvent}
      BY <2>2
    <3>2. "PENDING" \in {"PENDING"} \cup Paid /\ "instruction" \in {"manual", "instruction", "rail"}
      OBVIOUS
    <3>3. pay \in [Pay -> PayRow] /\ NewPayment(p, c, "instruction", "PENDING", a, run[w].ev)
      BY <1>2, <2>1
    <3> HIDE DEF a
    <3>4. QED
      BY <2>2, <3>1, <3>2, <3>3, PayMade
  <2>4. JobsGrow
    BY <1>2, <2>1, Raised, Events
  <2>5. SlotIs(w, "finish", run[w].ev)
    BY <1>2, <2>1, SlotGoes DEF Step
  <2>6. Typed'
    <3>1. AttemptsLeft' /\ SlotsOwnJobs'
      BY <2>1, <2>4, <2>5, SlotWorks DEF Billed, Typed, Step
    <3>2. QED
      BY <1>1, <2>1, <2>3, <2>4, <2>5, <3>1 DEF Typed, Tables, JobsGrow, SlotIs
  <2>7. \A q \in Pay : pay[q].by # run[w].ev
    BY <2>1 DEF Billed, Charged
  <2>8. Charged'
    <3>1. \A q \in Pay : pay'[q].by # NoEvent =>
             pay'[q].st # "none" /\ pay'[q].appt = pay'[q].by[2]
      BY <2>3 DEF Billed, Charged
    <3>2. ASSUME NEW v \in EventWorkers, NEW q \in Pay, run'[v].step = "charge"
          PROVE  pay'[q].by # run'[v].ev
      <4>1. v # w /\ run'[v] = run[v]
        BY <2>5, <3>2 DEF SlotIs
      <4>2. run[v].ev # run[w].ev
        BY <2>1, <3>2, <4>1 DEF Billed, Typed, SlotsOwnJobs
      <4>3. QED
        BY <2>3, <3>2, <4>1, <4>2 DEF Billed, Charged
    <3>3. EachJobChargesOnce'
      BY <2>3, <2>7 DEF Billed, Charged, EachJobChargesOnce
    <3>4. QED
      BY <3>1, <3>2, <3>3 DEF Charged
  <2>9. Announced'
    <3>1. pay[p].st = "none" /\ "PENDING" \notin Paid \cup {"REFUNDED", "none"}
      BY <2>3, Blank DEF Paid
    <3>2. \A q \in Pay : /\ pay[q].st # "none" =>
                               pay'[q].st # "none" /\ pay'[q].kind = pay[q].kind
                         /\ pay'[q].st \in Paid \cup {"REFUNDED"} /\ pay'[q].kind # "manual" =>
                               pay[q].st \in Paid \cup {"REFUNDED"} /\ pay[q].kind # "manual"
      BY <2>3, <3>1
    <3>3. QED
      BY <2>1, <2>4, <3>2, GrowingJobsStay, AnnouncedStays DEF Billed
  <2>10. Heard'
    <3>1. \A e \in Event : job'[e].st = "done" => job[e].st = "done"
      BY <2>4, GrowingJobsStay
    <3>2. run[w].ev[1] # "succeeded"
      BY <1>3, <2>1
    <3>3. \A v \in EventWorkers :
             run'[v].step \in {"confirm", "finish"} /\ run'[v].ev[1] = "succeeded" =>
                 run'[v] = run[v]
      BY <2>5, <3>2 DEF SlotIs
    <3>4. QED
      BY <2>1, <3>1, <3>3, Events DEF Billed, Heard, ReceiptsAreHeard
  <2>11. QED
    BY <2>6, <2>8, <2>9, <2>10 DEF Billed
<1>7. ASSUME NEW what \in {"sent", "silent"}, SendInstructions(w, what) PROVE Billed'
  <2>1. /\ run[w].step = "instruct" /\ UNCHANGED <<pay, job, till>> /\ Goes(w, "finish")
        /\ heard' = [heard EXCEPT ![run[w].ev] = what]
    BY <1>7 DEF SendInstructions, Handling, Hears
  <2>2. SlotIs(w, "finish", run[w].ev)
    BY <1>2, <2>1, SlotGoes DEF Step
  <2>3. /\ heard' \in [Event -> {"nothing", "sent", "silent"}]
        /\ heard'[run[w].ev] # "nothing"
        /\ \A f \in Event : heard[f] # "nothing" => heard'[f] # "nothing"
    BY <1>1, <1>2, <2>1, HeardSet
  <2>4. QED
    BY <2>1, <2>2, <2>3, BilledByWork DEF Step
<1>8. ASSUME NEW talks \in BOOLEAN, LoadReceipt(w, talks) PROVE Billed'
  <2>1. run[w].step = "load" /\ UNCHANGED <<pay, job, till>>
    BY <1>8 DEF LoadReceipt, Handling
  <2>2. CASE talks
    <3>1. PICK s \in {"receipt", "both"} : SlotIs(w, s, run[w].ev) /\ UNCHANGED heard
      BY <1>2, <1>8, <2>2, SlotGoes DEF LoadReceipt, Step
    <3>2. QED
      BY <1>2, <2>1, <3>1, BilledByWork DEF Step
  <2>3. CASE ~talks
    <3>1. SlotIs(w, "finish", run[w].ev) /\ heard' = [heard EXCEPT ![run[w].ev] = "silent"]
      BY <1>2, <1>8, <2>3, SlotGoes DEF LoadReceipt, Step, Hears
    <3>2. /\ heard' \in [Event -> {"nothing", "sent", "silent"}]
          /\ heard'[run[w].ev] # "nothing"
          /\ \A f \in Event : heard[f] # "nothing" => heard'[f] # "nothing"
      BY <1>1, <1>2, <2>1, <3>1, HeardSet
    <3>3. QED
      BY <2>1, <3>1, <3>2, BilledByWork DEF Step
  <2>4. QED
    BY <2>2, <2>3
<1>9. ASSUME NEW reached \in BOOLEAN, SendReceipt(w, reached) PROVE Billed'
  <2>1. /\ run[w].step \in {"receipt", "both"} /\ UNCHANGED <<pay, job, till>>
        /\ heard' = [heard EXCEPT ![run[w].ev] = IF reached THEN "sent" ELSE "silent"]
    BY <1>9 DEF SendReceipt, Handling, Hears
  <2>2. PICK s \in {"confirm", "finish"} : SlotIs(w, s, run[w].ev)
    BY <1>2, <1>9, SlotGoes DEF SendReceipt, Step
  <2>3. /\ heard' \in [Event -> {"nothing", "sent", "silent"}]
        /\ heard'[run[w].ev] # "nothing"
        /\ \A f \in Event : heard[f] # "nothing" => heard'[f] # "nothing"
    BY <1>1, <1>2, <2>1, HeardSet
  <2>4. QED
    BY <2>1, <2>2, <2>3, BilledByWork DEF Step
<1>10. ASSUME SendConfirmations(w) PROVE Billed'
  <2>1. run[w].step = "confirm" /\ UNCHANGED <<pay, job, heard, till>> /\ Goes(w, "finish")
    BY <1>10 DEF SendConfirmations, Handling
  <2>2. SlotIs(w, "finish", run[w].ev)
    BY <1>2, <2>1, SlotGoes DEF Step
  <2>3. run[w].ev[1] = "succeeded" => heard[run[w].ev] # "nothing"
    BY <2>1 DEF Billed, Heard
  <2>4. QED
    BY <1>2, <2>1, <2>2, <2>3, BilledByWork DEF Step
<1>11. ASSUME FinishEvent(w) PROVE Billed'
  <2>1. /\ run[w].step = "finish" /\ UNCHANGED <<pay, heard, till>>
        /\ job' = [job EXCEPT ![run[w].ev].st = "done"] /\ run' = [run EXCEPT ![w] = FreeSlot]
    BY <1>11 DEF FinishEvent, Handling
  <2>2. JobMoves(run[w].ev, "done")
    BY <1>1, <1>2, <2>1, JobMoved
  <2>3. run[w].ev[1] = "succeeded" => heard[run[w].ev] # "nothing"
    BY <2>1 DEF Billed, Heard
  <2>4. QED
    BY <2>1, <2>2, <2>3, BilledByLeaving
<1>12. ASSUME run[w].step # "idle", NEW j \in Job, j.st \in {"waiting", "failed"},
              j.st = "waiting" => j.made < MaxAttempts,
              job' = [job EXCEPT ![run[w].ev] = j], Gone(w)
       PROVE  Billed'
  <2>1. JobMoves(run[w].ev, j.st) /\ job'[run[w].ev] = j
    BY <1>1, <1>2, <1>12 DEF JobMoves
  <2>2. run' = [run EXCEPT ![w] = FreeSlot] /\ UNCHANGED <<pay, heard, till>>
    BY <1>12 DEF Gone
  <2>3. QED
    BY <1>12, <2>1, <2>2, BilledByLeaving
<1>13. run[w].step # "idle" => job[run[w].ev] \in Job /\ job[run[w].ev].made < MaxAttempts
  BY <1>1, <1>2 DEF Billed, Typed, SlotsOwnJobs, AttemptsLeft
<1>14. ASSUME EventFails(w) PROVE Billed'
  <2> DEFINE j == Thrown(job[run[w].ev])
  <2>1. run[w].step # "idle" /\ job' = [job EXCEPT ![run[w].ev] = j] /\ Gone(w)
    BY <1>14 DEF EventFails
  <2>2. j \in Job /\ j.st \in {"waiting", "failed"} /\ (j.st = "waiting" => j.made < MaxAttempts)
    BY <1>13, <2>1, ThrownJob
  <2> HIDE DEF j
  <2>3. QED
    BY <1>12, <2>1, <2>2
<1>15. ASSUME CrashEvent(w) PROVE Billed'
  <2> DEFINE j == Stalled(job[run[w].ev])
  <2>1. run[w].step # "idle" /\ job' = [job EXCEPT ![run[w].ev] = j] /\ Gone(w)
    BY <1>15 DEF CrashEvent
  <2>2. j \in Job /\ j.st \in {"waiting", "failed"} /\ (j.st = "waiting" => j.made < MaxAttempts)
    BY <1>13, <2>1, StalledJob
  <2> HIDE DEF j
  <2>3. QED
    BY <1>12, <2>1, <2>2
<1>16. QED
  BY <1>4, <1>5, <1>6, <1>7, <1>8, <1>9, <1>10, <1>11, <1>14, <1>15 DEF Handlers

-----------------------------------------------------------------------------
(* Loops                                                                   *)

(* Induction over the naturals, for a set.                                 *)
LEMMA Induct ==
  ASSUME NEW G \in SUBSET Nat, 0 \in G, \A n \in G : n + 1 \in G
  PROVE  G = Nat
<1> DEFINE R == {ss \in Nat \X Nat : ss[1] < ss[2]}
<1>1. IsWellFoundedOn(OpToRel(<, Nat), Nat)
  BY NatLessThanWellFounded
<1>2. IsWellFoundedOn(R, Nat)
  BY <1>1 DEF OpToRel
<1>3. SUFFICES ASSUME Nat \ G # {} PROVE FALSE
  OBVIOUS
<1>4. PICK x \in Nat \ G : \A y \in Nat \ G : ~ (<<y, x>> \in R)
  <2> HIDE DEF R
  <2> DEFINE T == Nat \ G
  <2>1. T # {} /\ T \subseteq Nat
    BY <1>3
  <2>2. \E x \in T : \A y \in T : ~ (<<y, x>> \in R)
    <3> HIDE DEF T
    <3>1. QED
      BY <1>2, <2>1, WFMin
  <2>3. QED
    BY <2>2
<1>5. x # 0 /\ x - 1 \in Nat
  BY <1>4
<1>6. <<x - 1, x>> \in R
  BY <1>5
<1>7. x - 1 \in G
  BY <1>4, <1>5, <1>6
<1>8. (x - 1) + 1 \in G
  BY <1>7
<1>9. QED
  BY <1>4, <1>5, <1>8

(* The runs of a loop of K rounds from s: round n makes F[<<n, x>>] of x.  *)
Runs(K, S, s, F) ==
    {g \in [0..K -> S] : g[0] = s /\ \A n \in 1..K : g[n] = F[<<n, g[n - 1]>>]}

(* Such a loop has a run, so that the functions which Calendar writes for the*)
(* loops of slot-math.ts are what their bodies say.                        *)
LEMMA Iterates ==
  ASSUME NEW K \in Nat, NEW S, NEW s \in S,
         NEW F \in [(1..K) \X S -> S]
  PROVE  Runs(K, S, s, F) # {}
<1> DEFINE Good(n, g) == g[0] = s /\ \A m \in 1..n : g[m] = F[<<m, g[m - 1]>>]
           G == {n \in Nat : n <= K => \E g \in [0..n -> S] : Good(n, g)}
<1>1. 0 \in G
  <2>1. [m \in 0..0 |-> s] \in [0..0 -> S] /\ Good(0, [m \in 0..0 |-> s])
    OBVIOUS
  <2>2. QED
    BY <2>1
<1>2. ASSUME NEW n \in G PROVE n + 1 \in G
  <2>1. n \in Nat
    OBVIOUS
  <2>2. ASSUME n + 1 <= K PROVE \E h \in [0..(n + 1) -> S] : Good(n + 1, h)
    <3>1. PICK g \in [0..n -> S] : Good(n, g)
      BY <1>2, <2>2
    <3> DEFINE h == [m \in 0..(n + 1) |-> IF m = n + 1 THEN F[<<n + 1, g[n]>>] ELSE g[m]]
    <3>2. F[<<n + 1, g[n]>>] \in S
      BY <2>1, <2>2, <3>1
    <3>3. ASSUME NEW m \in 0..(n + 1) PROVE h[m] \in S
      BY <2>1, <3>1, <3>2
    <3>4. h \in [0..(n + 1) -> S]
      BY <3>3
    <3>5. h[0] = s
      BY <2>1, <3>1
    <3>6. ASSUME NEW m \in 1..(n + 1) PROVE h[m] = F[<<m, h[m - 1]>>]
      <4>1. CASE m = n + 1
        <5>1. m \in 0..(n + 1) /\ m - 1 \in 0..(n + 1) /\ m - 1 = n /\ n # n + 1
          BY <2>1, <4>1
        <5>2. h[m] = F[<<n + 1, g[n]>>] /\ h[m - 1] = g[n]
          BY <4>1, <5>1
        <5>3. QED
          BY <4>1, <5>2
      <4>2. CASE m \in 1..n
        <5>1. g[m] = F[<<m, g[m - 1]>>] /\ h[m] = g[m] /\ h[m - 1] = g[m - 1]
          BY <2>1, <3>1, <4>2
        <5>2. QED
          BY <5>1
      <4>3. QED
        BY <2>1, <4>1, <4>2
    <3>7. QED
      BY <3>4, <3>5, <3>6
  <2>3. QED
    BY <2>1, <2>2
<1>3. G = Nat
  <2> HIDE DEF G
  <2>1. G \in SUBSET Nat
    BY DEF G
  <2>2. QED
    BY <1>1, <1>2, <2>1, Induct
<1>4. K \in G
  BY <1>3
<1>5. QED
  BY <1>4 DEF Runs

(* Two runs that agree on the first state and on every round agree.        *)
SameTo(K, f, g) == \A n \in 0..K : f[n] = g[n]

LEMMA Agree ==
  ASSUME NEW K \in Nat, NEW f, NEW g, f[0] = g[0],
         \A n \in 1..K : f[n - 1] = g[n - 1] => f[n] = g[n]
  PROVE  SameTo(K, f, g)
<1> DEFINE G == {n \in Nat : n <= K => f[n] = g[n]}
<1>1. 0 \in G
  OBVIOUS
<1>2. ASSUME NEW n \in G PROVE n + 1 \in G
  <2>1. SUFFICES ASSUME n + 1 <= K PROVE f[n + 1] = g[n + 1]
    OBVIOUS
  <2>2. n + 1 \in 1..K /\ (n + 1) - 1 = n /\ f[n] = g[n]
    BY <2>1
  <2>3. QED
    BY <2>2
<1>3. G = Nat
  <2> HIDE DEF G
  <2>1. G \in SUBSET Nat
    BY DEF G
  <2>2. QED
    BY <1>1, <1>2, <2>1, Induct
<1>4. QED
  BY <1>3 DEF SameTo

-----------------------------------------------------------------------------
(* The loops of computeOpenSlots                                           *)

LEMMA CellIs ==
  ASSUME NEW w \in Window, NEW day \in Nat, NEW j \in Nat \ {0}
  PROVE  /\ Cell(w, day, j) \in Interval
         /\ Cell(w, day, j).from = day * DayLength + w.from + (j - 1) * w.dur
         /\ Cell(w, day, j).to = day * DayLength + w.from + j * w.dur
<1> DEFINE start == day * DayLength + w.from + (j - 1) * w.dur
<1>1. /\ w.from \in Nat /\ w.dur \in Nat /\ DayLength \in Nat /\ j - 1 \in Nat
  BY CalendarParameters DEF Window
<1>2. day * DayLength \in Nat /\ (j - 1) * w.dur \in Nat
  BY <1>1
<1>3. start \in Nat /\ start + w.dur \in Nat
  BY <1>1, <1>2
<1>4. (j - 1) * w.dur + w.dur = j * w.dur
  BY <1>1
<1>5. start + w.dur = day * DayLength + w.from + j * w.dur
  BY <1>1, <1>2, <1>4
<1>6. QED
  BY <1>3, <1>5 DEF Cell, Interval

LEMMA KeepTypes ==
  ASSUME NEW s \in Seq(Interval), NEW c \in Interval, NEW busy, NEW t
  PROVE  Keep(s, c, busy, t) \in Seq(Interval)
  BY DEF Keep

(* What each loop computes, round by round.                                *)
LEMMA WindowRounds ==
  ASSUME NEW w \in Window, NEW day \in Nat, NEW s \in Seq(Interval), NEW busy, NEW t
  PROVE  \E f \in [0..w.to -> Seq(Interval)] :
            /\ f[0] = s /\ ScanWindow(w, day, s, busy, t) = f[w.to]
            /\ \A j \in 1..w.to :
                  f[j] = IF w.dur > 0 /\ Fits(w, j) THEN Keep(f[j - 1], Cell(w, day, j), busy, t)
                         ELSE f[j - 1]
<1> DEFINE Round(j, x) == IF w.dur > 0 /\ Fits(w, j) THEN Keep(x, Cell(w, day, j), busy, t)
                          ELSE x
           F == [p \in (1..w.to) \X Seq(Interval) |-> Round(p[1], p[2])]
           After(g) == g = [j \in 0..w.to |->
                IF j = 0 THEN s
                ELSE IF w.dur > 0 /\ Fits(w, j) THEN Keep(g[j - 1], Cell(w, day, j), busy, t)
                ELSE g[j - 1]]
           f == CHOOSE g : After(g)
<1>0. w.to \in Nat
  BY DEF Window
<1>1. \A j \in 1..w.to, x \in Seq(Interval) : Round(j, x) \in Seq(Interval)
  BY <1>0, CellIs, KeepTypes
<1>2. \A j \in 1..w.to, x \in Seq(Interval) : F[<<j, x>>] = Round(j, x)
  <2> HIDE DEF Round
  <2>1. QED
    OBVIOUS
<1>3. PICK g \in [0..w.to -> Seq(Interval)] :
            g[0] = s /\ \A j \in 1..w.to : g[j] = F[<<j, g[j - 1]>>]
  <2> HIDE DEF F, Round
  <2>1. F \in [(1..w.to) \X Seq(Interval) -> Seq(Interval)]
    <3> HIDE DEF Round
    <3>1. QED
      BY <1>1 DEF F
  <2>2. QED
    <3> DEFINE Lists == Seq(Interval)
    <3>1. s \in Lists /\ F \in [(1..w.to) \X Lists -> Lists]
      BY <2>1
    <3>2. Runs(w.to, Lists, s, F) # {}
      <4> HIDE DEF Lists
      <4>1. QED
        BY <1>0, <3>1, Iterates
    <3>3. QED
      BY <3>2 DEF Runs
<1>4. After(g)
  <2> HIDE DEF F
  <2>1. ASSUME NEW j \in 0..w.to PROVE g[j] = IF j = 0 THEN s ELSE Round(j, g[j - 1])
    <3> HIDE DEF Round
    <3>1. CASE j = 0
      BY <1>3, <3>1
    <3>2. CASE j \in 1..w.to
      <4>1. g[j - 1] \in Seq(Interval)
        BY <1>0, <1>3, <3>2
      <4>2. g[j] = F[<<j, g[j - 1]>>] /\ j # 0
        BY <1>3, <3>2
      <4>3. F[<<j, g[j - 1]>>] = Round(j, g[j - 1])
        BY <1>2, <3>2, <4>1
      <4>4. QED
        BY <4>2, <4>3
    <3>3. QED
      BY <1>0, <3>1, <3>2
  <2>2. g = [j \in 0..w.to |-> IF j = 0 THEN s ELSE Round(j, g[j - 1])]
    <3> HIDE DEF Round
    <3>1. QED
      BY <2>1
  <2>3. QED
    BY <2>2
<1>5. After(f)
  BY <1>4
<1>6. ScanWindow(w, day, s, busy, t) = f[w.to]
  BY DEF ScanWindow
<1>7. f[w.to] = g[w.to]
  <2> HIDE DEF F, f
  <2>1. ASSUME NEW j \in 1..w.to, f[j - 1] = g[j - 1] PROVE f[j] = g[j]
    <3> HIDE DEF Round
    <3>1. f[j] = Round(j, f[j - 1]) /\ g[j] = Round(j, g[j - 1])
      <4>1. j \in 0..w.to /\ j # 0
        BY <1>0
      <4>2. QED
        BY <1>4, <1>5, <4>1 DEF Round
    <3>2. QED
      BY <2>1, <3>1
  <2>2. f[0] = g[0]
    <3> HIDE DEF Round
    <3>1. 0 \in 0..w.to
      BY <1>0
    <3>2. QED
      BY <1>4, <1>5, <3>1
  <2>3. SameTo(w.to, f, g)
    <3> HIDE DEF After, Round
    <3>1. QED
      BY <1>0, <2>1, <2>2, Agree
  <2>4. QED
    BY <1>0, <2>3 DEF SameTo
<1>8. \A j \in 1..w.to : g[j] = Round(j, g[j - 1])
  <2> HIDE DEF F, Round
  <2>1. ASSUME NEW j \in 1..w.to PROVE g[j] = Round(j, g[j - 1])
    <3>1. j \in 0..w.to /\ j # 0
      BY <1>0
    <3>2. QED
      BY <1>4, <3>1 DEF Round
  <2>2. QED
    BY <2>1
<1>9. QED
  <2> HIDE DEF F, f, After
  <2>1. QED
    BY <1>3, <1>6, <1>7, <1>8

(* f holds what the day's list is after each window.                       *)
DayRun(day, s, busy, t, f) ==
    /\ f[0] = s /\ ScanDay(day, s, busy, t) = f[Len(Windows)]
    /\ \A i \in 1..Len(Windows) :
          f[i] = IF Windows[i].weekday = day % 7 /\ day \notin Holidays
                 THEN ScanWindow(Windows[i], day, f[i - 1], busy, t) ELSE f[i - 1]

LEMMA DayRounds ==
  ASSUME NEW day \in Nat, NEW s \in Seq(Interval), NEW busy, NEW t
  PROVE  \E f \in [0..Len(Windows) -> Seq(Interval)] : DayRun(day, s, busy, t, f)
<1> DEFINE Round(i, x) == IF Windows[i].weekday = day % 7 /\ day \notin Holidays
                   THEN ScanWindow(Windows[i], day, x, busy, t) ELSE x
           F == [p \in (1..Len(Windows)) \X Seq(Interval) |-> Round(p[1], p[2])]
           After(g) == g = [i \in 0..Len(Windows) |-> IF i = 0 THEN s ELSE IF Windows[i].weekday = day % 7 /\ day \notin Holidays
                   THEN ScanWindow(Windows[i], day, g[i - 1], busy, t) ELSE g[i - 1]]
           f == CHOOSE g : After(g)
<1>0. Len(Windows) \in Nat
  BY CalendarParameters
<1>1. \A i \in 1..Len(Windows), x \in Seq(Interval) : Round(i, x) \in Seq(Interval)
  <2>1. ASSUME NEW i \in 1..Len(Windows), NEW x \in Seq(Interval)
        PROVE  ScanWindow(Windows[i], day, x, busy, t) \in Seq(Interval)
    <3>1. Windows[i] \in Window
      BY CalendarParameters
    <3>2. Windows[i].to \in Nat
      BY <3>1 DEF Window
    <3>3. QED
      BY <3>1, <3>2, WindowRounds
  <2>2. QED
    BY <2>1
<1>2. \A i \in 1..Len(Windows), x \in Seq(Interval) : F[<<i, x>>] = Round(i, x)
  <2> HIDE DEF Round
  <2>1. QED
    OBVIOUS
<1>3. PICK g \in [0..Len(Windows) -> Seq(Interval)] :
            g[0] = s /\ \A i \in 1..Len(Windows) : g[i] = F[<<i, g[i - 1]>>]
  <2> HIDE DEF F, Round
  <2> DEFINE Lists == Seq(Interval)
  <2>1. s \in Lists /\ F \in [(1..Len(Windows)) \X Lists -> Lists]
    <3> HIDE DEF Round
    <3>1. QED
      BY <1>1 DEF F
  <2>2. Runs(Len(Windows), Lists, s, F) # {}
    <3> HIDE DEF Lists
    <3>1. QED
      BY <1>0, <2>1, Iterates
  <2>3. QED
    BY <2>2 DEF Runs
<1>4. After(g)
  <2> HIDE DEF F
  <2>1. ASSUME NEW i \in 0..Len(Windows) PROVE g[i] = IF i = 0 THEN s ELSE Round(i, g[i - 1])
    <3> HIDE DEF Round
    <3>1. CASE i = 0
      BY <1>3, <3>1
    <3>2. CASE i \in 1..Len(Windows)
      <4>1. g[i - 1] \in Seq(Interval)
        BY <1>0, <1>3, <3>2
      <4>2. g[i] = F[<<i, g[i - 1]>>] /\ i # 0
        BY <1>3, <3>2
      <4>3. F[<<i, g[i - 1]>>] = Round(i, g[i - 1])
        BY <1>2, <3>2, <4>1
      <4>4. QED
        BY <4>2, <4>3
    <3>3. QED
      BY <1>0, <3>1, <3>2
  <2>2. g = [i \in 0..Len(Windows) |-> IF i = 0 THEN s ELSE Round(i, g[i - 1])]
    <3> HIDE DEF Round
    <3>1. QED
      BY <2>1
  <2>3. QED
    BY <2>2
<1>5. After(f)
  BY <1>4
<1>6. ScanDay(day, s, busy, t) = f[Len(Windows)]
  BY DEF ScanDay
<1>7. f[Len(Windows)] = g[Len(Windows)]
  <2> HIDE DEF F, f
  <2>1. ASSUME NEW i \in 1..Len(Windows), f[i - 1] = g[i - 1] PROVE f[i] = g[i]
    <3> HIDE DEF Round
    <3>1. f[i] = Round(i, f[i - 1]) /\ g[i] = Round(i, g[i - 1])
      <4>1. i \in 0..Len(Windows) /\ i # 0
        BY <1>0
      <4>2. QED
        BY <1>4, <1>5, <4>1 DEF Round
    <3>2. QED
      BY <2>1, <3>1
  <2>2. f[0] = g[0]
    <3> HIDE DEF Round
    <3>1. 0 \in 0..Len(Windows)
      BY <1>0
    <3>2. QED
      BY <1>4, <1>5, <3>1
  <2>3. SameTo(Len(Windows), f, g)
    <3> HIDE DEF After, Round
    <3>1. QED
      BY <1>0, <2>1, <2>2, Agree
  <2>4. QED
    BY <1>0, <2>3 DEF SameTo
<1>8. \A i \in 1..Len(Windows) : g[i] = Round(i, g[i - 1])
  <2> HIDE DEF F, Round
  <2>1. ASSUME NEW i \in 1..Len(Windows) PROVE g[i] = Round(i, g[i - 1])
    <3>1. i \in 0..Len(Windows) /\ i # 0
      BY <1>0
    <3>2. QED
      BY <1>4, <3>1 DEF Round
  <2>2. QED
    BY <2>1
<1>9. QED
  <2> HIDE DEF F, f, After
  <2>1. QED
    BY <1>3, <1>6, <1>7, <1>8 DEF DayRun

LEMMA DayType ==
  ASSUME NEW day \in Nat, NEW s \in Seq(Interval), NEW busy, NEW t
  PROVE  ScanDay(day, s, busy, t) \in Seq(Interval)
<1>1. PICK f \in [0..Len(Windows) -> Seq(Interval)] : DayRun(day, s, busy, t, f)
  BY DayRounds
<1>2. Len(Windows) \in Nat /\ ScanDay(day, s, busy, t) = f[Len(Windows)]
  BY <1>1, CalendarParameters DEF DayRun
<1>3. QED
  BY <1>2

(* The day of a moment.                                                    *)
LEMMA Today ==
  ASSUME NEW t \in Nat
  PROVE  (t \div DayLength) \in Nat /\ (t \div DayLength) * DayLength <= t
<1>1. DayLength \in Nat \ {0}
  BY CalendarParameters
<1>2. QED
  BY <1>1

LEMMA HorizonRounds ==
  ASSUME NEW t \in Nat, NEW busy
  PROVE  \E f \in [0..HorizonDays -> Seq(Interval)] :
            /\ f[0] = <<>> /\ ComputeOpenSlots(busy, t) = f[HorizonDays]
            /\ \A k \in 1..HorizonDays : f[k] = ScanDay(t \div DayLength + k - 1, f[k - 1], busy, t)
<1> DEFINE Round(k, x) == ScanDay(t \div DayLength + k - 1, x, busy, t)
           F == [p \in (1..HorizonDays) \X Seq(Interval) |-> Round(p[1], p[2])]
           After(g) == g = [k \in 0..HorizonDays |-> IF k = 0 THEN <<>> ELSE ScanDay(t \div DayLength + k - 1, g[k - 1], busy, t)]
           f == CHOOSE g : After(g)
<1>0. HorizonDays \in Nat
  BY CalendarParameters
<1>1. \A k \in 1..HorizonDays, x \in Seq(Interval) : Round(k, x) \in Seq(Interval)
  <2>1. ASSUME NEW k \in 1..HorizonDays, NEW x \in Seq(Interval)
        PROVE  Round(k, x) \in Seq(Interval)
    <3>1. (t \div DayLength) \in Nat
      BY Today
    <3>2. t \div DayLength + k - 1 \in Nat
      BY <1>0, <3>1
    <3>3. QED
      BY <3>2, DayType
  <2>2. QED
    BY <2>1
<1>2. \A k \in 1..HorizonDays, x \in Seq(Interval) : F[<<k, x>>] = Round(k, x)
  <2> HIDE DEF Round
  <2>1. QED
    OBVIOUS
<1>3. PICK g \in [0..HorizonDays -> Seq(Interval)] :
            g[0] = <<>> /\ \A k \in 1..HorizonDays : g[k] = F[<<k, g[k - 1]>>]
  <2> HIDE DEF F, Round
  <2> DEFINE Lists == Seq(Interval)
  <2>1. <<>> \in Lists /\ F \in [(1..HorizonDays) \X Lists -> Lists]
    <3> HIDE DEF Round
    <3>1. QED
      BY <1>1 DEF F
  <2>2. Runs(HorizonDays, Lists, <<>>, F) # {}
    <3> HIDE DEF Lists
    <3>1. QED
      BY <1>0, <2>1, Iterates
  <2>3. QED
    BY <2>2 DEF Runs
<1>4. After(g)
  <2> HIDE DEF F
  <2>1. ASSUME NEW k \in 0..HorizonDays PROVE g[k] = IF k = 0 THEN <<>> ELSE Round(k, g[k - 1])
    <3> HIDE DEF Round
    <3>1. CASE k = 0
      BY <1>3, <3>1
    <3>2. CASE k \in 1..HorizonDays
      <4>1. g[k - 1] \in Seq(Interval)
        BY <1>0, <1>3, <3>2
      <4>2. g[k] = F[<<k, g[k - 1]>>] /\ k # 0
        BY <1>3, <3>2
      <4>3. F[<<k, g[k - 1]>>] = Round(k, g[k - 1])
        BY <1>2, <3>2, <4>1
      <4>4. QED
        BY <4>2, <4>3
    <3>3. QED
      BY <1>0, <3>1, <3>2
  <2>2. g = [k \in 0..HorizonDays |-> IF k = 0 THEN <<>> ELSE Round(k, g[k - 1])]
    <3> HIDE DEF Round
    <3>1. QED
      BY <2>1
  <2>3. QED
    BY <2>2
<1>5. After(f)
  BY <1>4
<1>6. ComputeOpenSlots(busy, t) = f[HorizonDays]
  BY DEF ComputeOpenSlots
<1>7. f[HorizonDays] = g[HorizonDays]
  <2> HIDE DEF F, f
  <2>1. ASSUME NEW k \in 1..HorizonDays, f[k - 1] = g[k - 1] PROVE f[k] = g[k]
    <3> HIDE DEF Round
    <3>1. f[k] = Round(k, f[k - 1]) /\ g[k] = Round(k, g[k - 1])
      <4>1. k \in 0..HorizonDays /\ k # 0
        BY <1>0
      <4>2. QED
        BY <1>4, <1>5, <4>1 DEF Round
    <3>2. QED
      BY <2>1, <3>1
  <2>2. f[0] = g[0]
    <3> HIDE DEF Round
    <3>1. 0 \in 0..HorizonDays
      BY <1>0
    <3>2. QED
      BY <1>4, <1>5, <3>1
  <2>3. SameTo(HorizonDays, f, g)
    <3> HIDE DEF After, Round
    <3>1. QED
      BY <1>0, <2>1, <2>2, Agree
  <2>4. QED
    BY <1>0, <2>3 DEF SameTo
<1>8. \A k \in 1..HorizonDays : g[k] = Round(k, g[k - 1])
  <2> HIDE DEF F, Round
  <2>1. ASSUME NEW k \in 1..HorizonDays PROVE g[k] = Round(k, g[k - 1])
    <3>1. k \in 0..HorizonDays /\ k # 0
      BY <1>0
    <3>2. QED
      BY <1>4, <3>1 DEF Round
  <2>2. QED
    BY <2>1
<1>9. QED
  <2> HIDE DEF F, f, After
  <2>1. QED
    BY <1>3, <1>6, <1>7, <1>8

(* Whatever the table holds, computeOpenSlots returns a list of intervals. *)
LEMMA OpenSlotsType ==
  ASSUME NEW t \in Nat, NEW busy
  PROVE  ComputeOpenSlots(busy, t) \in Seq(Interval)
<1>1. HorizonDays \in Nat
  BY CalendarParameters
<1>2. QED
  BY <1>1, HorizonRounds
-----------------------------------------------------------------------------
(* What a slot must be besides a cell of the diary.                        *)
OpenAt(c, busy, t) == c.from > t + Lead /\ \A b \in busy : ~Overlap(c, b)

(* s lists the open ones among the cells visited so far, in order, and     *)
(* leaves out only what comes after Limit of them.                         *)
Lists(s, V, busy, t) ==
    /\ s \in Seq(Interval) /\ Len(s) <= Limit
    /\ \A i \in 1..Len(s) : s[i] \in V /\ OpenAt(s[i], busy, t)
    /\ \A i \in 2..Len(s) : s[i - 1].from < s[i].from
    /\ \A c \in V : OpenAt(c, busy, t) =>
          \/ \E i \in 1..Len(s) : s[i] = c
          \/ Len(s) = Limit /\ s[Len(s)].from < c.from

(* One cell more, later than all so far: pushed, refused or past the limit.*)
LEMMA KeepLists ==
  ASSUME NEW V \in SUBSET Interval, NEW c \in Interval, NEW s, NEW busy, NEW t,
         Lists(s, V, busy, t), \A v \in V : v.from < c.from
  PROVE  Lists(Keep(s, c, busy, t), V \cup {c}, busy, t)
<1> DEFINE r == Keep(s, c, busy, t)
<1>0. /\ s \in Seq(Interval) /\ Len(s) \in Nat /\ Len(s) <= Limit /\ Limit \in Nat \ {0}
      /\ \A i \in 1..Len(s) : s[i] \in V /\ s[i] \in Interval
      /\ c.from \in Nat /\ \A v \in V : v.from \in Nat
  BY CalendarParameters DEF Lists, Interval
<1>1. CASE Len(s) < Limit /\ OpenAt(c, busy, t)
  <2>1. r = Append(s, c)
    BY <1>1 DEF Keep, OpenAt
  <2>2. /\ r \in Seq(Interval) /\ Len(r) = Len(s) + 1 /\ r[Len(s) + 1] = c
        /\ \A i \in 1..Len(s) : r[i] = s[i]
    BY <1>0, <2>1
  <2> HIDE DEF r
  <2>3. \A i \in 1..Len(r) : r[i] \in V \cup {c} /\ OpenAt(r[i], busy, t)
    BY <1>0, <1>1, <2>2 DEF Lists
  <2>4. ASSUME NEW i \in 2..Len(r) PROVE r[i - 1].from < r[i].from
    <3>1. CASE i = Len(s) + 1
      <4>1. i - 1 \in 1..Len(s) /\ r[i - 1] = s[i - 1] /\ s[i - 1] \in V
        BY <1>0, <2>2, <3>1
      <4>2. QED
        BY <2>2, <3>1, <4>1
    <3>2. CASE i \in 2..Len(s)
      <4>1. i - 1 \in 1..Len(s) /\ i \in 1..Len(s)
        BY <1>0, <3>2
      <4>2. QED
        BY <2>2, <3>2, <4>1 DEF Lists
    <3>3. QED
      BY <1>0, <2>2, <3>1, <3>2
  <2>5. ASSUME NEW v \in V \cup {c}, OpenAt(v, busy, t)
        PROVE  \E i \in 1..Len(r) : r[i] = v
    <3>1. CASE v = c
      BY <1>0, <2>2, <3>1
    <3>2. CASE v \in V
      <4>1. PICK i \in 1..Len(s) : s[i] = v
        BY <1>0, <1>1, <2>5, <3>2 DEF Lists
      <4>2. i \in 1..Len(r) /\ r[i] = v
        BY <1>0, <2>2, <4>1
      <4>3. QED
        BY <4>2
    <3>3. QED
      BY <3>1, <3>2
  <2>6. QED
    <3>1. Lists(r, V \cup {c}, busy, t)
      BY <1>0, <1>1, <2>2, <2>3, <2>4, <2>5 DEF Lists
    <3>2. QED
      BY <3>1 DEF r
<1>2. CASE ~(Len(s) < Limit /\ OpenAt(c, busy, t))
  <2>1. r = s
    BY <1>2 DEF Keep, OpenAt
  <2>2. OpenAt(c, busy, t) => Len(s) = Limit /\ s[Len(s)] \in V /\ s[Len(s)].from < c.from
    BY <1>0, <1>2
  <2>3. Lists(s, V \cup {c}, busy, t)
    BY <2>2 DEF Lists
  <2>4. QED
    BY <2>1, <2>3
<1>3. QED
  BY <1>1, <1>2

(* The cells of the first n rounds of a window, of a window, of the first n*)
(* windows of a day, and of n days from a day on.                          *)
Rounds(w, day, n) == {Cell(w, day, j) : j \in {x \in 1..n : w.dur > 0 /\ Fits(w, x)}}
CellsOf(w, day) == Rounds(w, day, w.to)
OfDay(day, n) ==
    UNION {CellsOf(Windows[i], day) :
              i \in {x \in 1..n : Windows[x].weekday = day % 7 /\ day \notin Holidays}}
OfDays(first, n) == UNION {OfDay(first + k - 1, Len(Windows)) : k \in 1..n}

LEMMA Multiples ==
  ASSUME NEW a \in Nat, NEW b \in Nat, NEW d \in Nat, a < b, d > 0
  PROVE  a * d < b * d
<1>1. PICK e \in Nat : b = a + 1 + e
  <2>1. b - a - 1 \in Nat /\ b = a + 1 + (b - a - 1)
    OBVIOUS
  <2>2. QED
    BY <2>1
<1>2. (a + 1 + e) * d = a * d + d + e * d
  OBVIOUS
<1>3. a * d \in Nat /\ e * d \in Nat
  OBVIOUS
<1>4. QED
  BY <1>1, <1>2, <1>3

(* A cell lies in its window, and its window in its day.                   *)
LEMMA CellBounds ==
  ASSUME NEW w \in Window, NEW day \in Nat, NEW c \in CellsOf(w, day)
  PROVE  /\ c \in Interval /\ w.dur > 0 /\ c.to = c.from + w.dur
         /\ day * DayLength + w.from <= c.from /\ c.from < c.to
         /\ c.to <= day * DayLength + w.to
<1>0. w.from \in Nat /\ w.to \in Nat /\ w.dur \in Nat /\ DayLength \in Nat
  BY CalendarParameters DEF Window
<1>1. PICK j \in 1..w.to : w.dur > 0 /\ Fits(w, j) /\ c = Cell(w, day, j)
  BY DEF CellsOf, Rounds
<1>2. j \in Nat \ {0} /\ j - 1 \in Nat
  BY <1>0
<1>3. /\ c \in Interval /\ c.from = day * DayLength + w.from + (j - 1) * w.dur
      /\ c.to = day * DayLength + w.from + j * w.dur
  BY <1>1, <1>2, CellIs
<1>4. /\ day * DayLength \in Nat /\ (j - 1) * w.dur \in Nat /\ j * w.dur \in Nat
      /\ j * w.dur = (j - 1) * w.dur + w.dur
  BY <1>0, <1>2
<1>5. w.from + j * w.dur <= w.to
  BY <1>1 DEF Fits
<1>6. QED
  BY <1>0, <1>1, <1>3, <1>4, <1>5

(* The while loop over a window that opens after all that came before.     *)
LEMMA WindowLists ==
  ASSUME NEW w \in Window, NEW day \in Nat, NEW V \in SUBSET Interval, NEW s, NEW busy, NEW t,
         Lists(s, V, busy, t), \A v \in V : v.from < day * DayLength + w.from
  PROVE  Lists(ScanWindow(w, day, s, busy, t), V \cup CellsOf(w, day), busy, t)
<1>0. w.from \in Nat /\ w.to \in Nat /\ w.dur \in Nat /\ DayLength \in Nat
      /\ day * DayLength \in Nat /\ s \in Seq(Interval)
  BY CalendarParameters DEF Window, Lists
<1>1. PICK f \in [0..w.to -> Seq(Interval)] :
            /\ f[0] = s /\ ScanWindow(w, day, s, busy, t) = f[w.to]
            /\ \A j \in 1..w.to :
                  f[j] = IF w.dur > 0 /\ Fits(w, j) THEN Keep(f[j - 1], Cell(w, day, j), busy, t)
                         ELSE f[j - 1]
  BY <1>0, WindowRounds
<1> DEFINE Seen(n) == V \cup Rounds(w, day, n)
           G == {n \in Nat : n <= w.to => Lists(f[n], Seen(n), busy, t)}
<1>2. 0 \in G
  <2>1. Rounds(w, day, 0) = {}
    BY DEF Rounds
  <2>2. Seen(0) = V
    BY <2>1
  <2>3. QED
    BY <1>1, <2>2
<1>3. ASSUME NEW n \in G PROVE n + 1 \in G
  <2>1. SUFFICES ASSUME n + 1 <= w.to PROVE Lists(f[n + 1], Seen(n + 1), busy, t)
    OBVIOUS
  <2>2. /\ n \in Nat /\ n + 1 \in 1..w.to /\ (n + 1) - 1 = n
        /\ Lists(f[n], Seen(n), busy, t)
    BY <1>0, <2>1
  <2>3. f[n + 1] = IF w.dur > 0 /\ Fits(w, n + 1) THEN Keep(f[n], Cell(w, day, n + 1), busy, t)
                   ELSE f[n]
    BY <1>1, <2>2
  <2>4. CASE w.dur > 0 /\ Fits(w, n + 1)
    <3> DEFINE c == Cell(w, day, n + 1)
    <3>1. n + 1 \in Nat \ {0} /\ n * w.dur \in Nat
      BY <1>0, <2>2
    <3>2. c \in Interval /\ c.from = day * DayLength + w.from + n * w.dur
      BY <2>2, <3>1, CellIs
    <3>3. ASSUME NEW x \in 1..n
          PROVE  Cell(w, day, x) \in Interval /\ Cell(w, day, x).from < c.from
      <4>1. x \in Nat \ {0} /\ x - 1 \in Nat /\ x - 1 < n
        BY <2>2
      <4>2. (x - 1) * w.dur < n * w.dur
        BY <1>0, <2>2, <2>4, <4>1, Multiples
      <4>3. /\ Cell(w, day, x) \in Interval
            /\ Cell(w, day, x).from = day * DayLength + w.from + (x - 1) * w.dur
        BY <4>1, CellIs
      <4>4. (x - 1) * w.dur \in Nat
        BY <1>0, <4>1
      <4>5. QED
        BY <1>0, <3>1, <3>2, <4>2, <4>3, <4>4
    <3>4. Seen(n) \in SUBSET Interval /\ \A v \in Seen(n) : v.from < c.from
      <4>1. ASSUME NEW v \in V PROVE v \in Interval /\ v.from < c.from
        <5>1. v.from \in Nat /\ v.from < day * DayLength + w.from
          BY DEF Interval
        <5>2. QED
          BY <1>0, <3>1, <3>2, <5>1
      <4>2. ASSUME NEW v \in Rounds(w, day, n) PROVE v \in Interval /\ v.from < c.from
        BY <3>3 DEF Rounds
      <4>3. QED
        BY <4>1, <4>2
    <3>5. Lists(Keep(f[n], c, busy, t), Seen(n) \cup {c}, busy, t)
      <4> HIDE DEF c, Seen
      <4>1. QED
        BY <2>2, <3>2, <3>4, KeepLists
    <3>6. Rounds(w, day, n + 1) = Rounds(w, day, n) \cup {c}
      <4>1. {x \in 1..(n + 1) : w.dur > 0 /\ Fits(w, x)}
            = {x \in 1..n : w.dur > 0 /\ Fits(w, x)} \cup {n + 1}
        BY <2>2, <2>4
      <4>2. QED
        BY <4>1 DEF Rounds
    <3>7. Seen(n + 1) = Seen(n) \cup {c}
      BY <3>6
    <3>8. QED
      <4> HIDE DEF c, Seen
      <4>1. f[n + 1] = Keep(f[n], c, busy, t)
        BY <2>3, <2>4 DEF c
      <4>2. QED
        BY <3>5, <3>7, <4>1
  <2>5. CASE ~(w.dur > 0 /\ Fits(w, n + 1))
    <3>1. {x \in 1..(n + 1) : w.dur > 0 /\ Fits(w, x)} = {x \in 1..n : w.dur > 0 /\ Fits(w, x)}
      BY <2>2, <2>5
    <3>2. Rounds(w, day, n + 1) = Rounds(w, day, n)
      BY <3>1 DEF Rounds
    <3>3. Seen(n + 1) = Seen(n) /\ f[n + 1] = f[n]
      BY <2>3, <2>5, <3>2
    <3>4. QED
      <4> HIDE DEF Seen
      <4>1. QED
        BY <2>2, <3>3
  <2>6. QED
    BY <2>4, <2>5
<1>4. G = Nat
  <2> HIDE DEF G
  <2>1. G \in SUBSET Nat
    BY DEF G
  <2>2. QED
    BY <1>2, <1>3, <2>1, Induct
<1>5. Lists(f[w.to], Seen(w.to), busy, t)
  BY <1>0, <1>4
<1>6. ScanWindow(w, day, s, busy, t) = f[w.to] /\ Seen(w.to) = V \cup CellsOf(w, day)
  BY <1>1 DEF CellsOf
<1>7. QED
  <2> HIDE DEF Seen
  <2>1. QED
    BY <1>5, <1>6

LEMMA DayBounds ==
  ASSUME NEW day \in Nat, NEW n \in 0..Len(Windows), NEW c \in OfDay(day, n)
  PROVE  /\ c \in Interval /\ c.from < c.to
         /\ day * DayLength <= c.from /\ c.to <= (day + 1) * DayLength
         /\ \E i \in 1..n : /\ Windows[i].weekday = day % 7 /\ day \notin Holidays
                            /\ c \in CellsOf(Windows[i], day)
<1>0. DayLength \in Nat /\ Windows \in Seq(Window) /\ Len(Windows) \in Nat
  BY CalendarParameters
<1>1. PICK i \in 1..n : /\ Windows[i].weekday = day % 7 /\ day \notin Holidays
                        /\ c \in CellsOf(Windows[i], day)
  BY DEF OfDay
<1>2. i \in 1..Len(Windows)
  BY <1>0
<1>3. Windows[i] \in Window /\ Windows[i].to <= DayLength
  BY <1>0, <1>2, CalendarParameters
<1>4. Windows[i].from \in Nat /\ Windows[i].to \in Nat
  BY <1>3 DEF Window
<1>5. /\ c \in Interval /\ day * DayLength + Windows[i].from <= c.from /\ c.from < c.to
      /\ c.to <= day * DayLength + Windows[i].to
  BY <1>1, <1>3, CellBounds
<1>6. /\ day * DayLength \in Nat /\ (day + 1) * DayLength = day * DayLength + DayLength
      /\ c.from \in Nat /\ c.to \in Nat
  BY <1>0, <1>5 DEF Interval
<1>7. day * DayLength <= c.from /\ c.to <= (day + 1) * DayLength
  BY <1>0, <1>3, <1>4, <1>5, <1>6
<1>8. QED
  BY <1>1, <1>5, <1>7

(* No window of a weekday starts before an earlier one ends: the team page *)
(* has one window for each weekday.                                        *)
WindowsApart ==
    \A i, k \in DOMAIN Windows :
        i < k /\ Windows[i].weekday = Windows[k].weekday => Windows[i].to <= Windows[k].from

(* The loop over the windows of a day, and the one over the days.          *)
LEMMA DayLists ==
  ASSUME WindowsApart, NEW day \in Nat, NEW V \in SUBSET Interval, NEW s, NEW busy, NEW t,
         Lists(s, V, busy, t), \A v \in V : v.from < v.to /\ v.to <= day * DayLength
  PROVE  Lists(ScanDay(day, s, busy, t), V \cup OfDay(day, Len(Windows)), busy, t)
<1>0. DayLength \in Nat /\ day * DayLength \in Nat /\ Len(Windows) \in Nat /\ s \in Seq(Interval)
      /\ DOMAIN Windows = 1..Len(Windows) /\ \A i \in 1..Len(Windows) : Windows[i] \in Window
  BY CalendarParameters DEF Lists
<1>1. PICK f \in [0..Len(Windows) -> Seq(Interval)] : DayRun(day, s, busy, t, f)
  BY <1>0, DayRounds
<1> DEFINE Seen(n) == V \cup OfDay(day, n)
           G == {n \in Nat : n <= Len(Windows) => Lists(f[n], Seen(n), busy, t)}
<1>2. 0 \in G
  <2>1. OfDay(day, 0) = {}
    BY DEF OfDay
  <2>2. Seen(0) = V
    BY <2>1
  <2>3. QED
    BY <1>1, <2>2 DEF DayRun
<1>3. ASSUME NEW n \in G PROVE n + 1 \in G
  <2>1. SUFFICES ASSUME n + 1 <= Len(Windows) PROVE Lists(f[n + 1], Seen(n + 1), busy, t)
    OBVIOUS
  <2>2. /\ n \in Nat /\ n \in 0..Len(Windows) /\ n + 1 \in 1..Len(Windows) /\ (n + 1) - 1 = n
        /\ Lists(f[n], Seen(n), busy, t)
    BY <1>0, <2>1
  <2>w. PICK w \in Window : w = Windows[n + 1]
    BY <1>0, <2>2
  <2>3. f[n + 1] = IF w.weekday = day % 7 /\ day \notin Holidays
                   THEN ScanWindow(w, day, f[n], busy, t) ELSE f[n]
    BY <1>1, <2>2, <2>w DEF DayRun
  <2>4. CASE w.weekday = day % 7 /\ day \notin Holidays
    <3>1. w.from \in Nat
      BY DEF Window
    <3>2. ASSUME NEW v \in V PROVE v \in Interval /\ v.from < day * DayLength + w.from
      <4>1. v.from \in Nat /\ v.to \in Nat /\ v.from < v.to /\ v.to <= day * DayLength
        BY DEF Interval
      <4>2. QED
        BY <1>0, <3>1, <4>1
    <3>3. ASSUME NEW v \in OfDay(day, n)
          PROVE  v \in Interval /\ v.from < day * DayLength + w.from
      <4>1. PICK i \in 1..n : Windows[i].weekday = day % 7 /\ v \in CellsOf(Windows[i], day)
        BY <2>2, DayBounds
      <4>2. i \in 1..Len(Windows) /\ i < n + 1
        BY <1>0, <2>2
      <4>3. Windows[i].to <= w.from
        BY <1>0, <2>2, <2>w, <2>4, <4>1, <4>2 DEF WindowsApart
      <4>4. /\ v \in Interval /\ v.from < v.to
            /\ v.to <= day * DayLength + Windows[i].to
        BY <1>0, <4>1, <4>2, CellBounds
      <4>5. v.from \in Nat /\ v.to \in Nat /\ Windows[i].to \in Nat
        BY <1>0, <4>2, <4>4 DEF Interval, Window
      <4>6. QED
        BY <1>0, <3>1, <4>3, <4>4, <4>5
    <3>4. Seen(n) \in SUBSET Interval /\ \A v \in Seen(n) : v.from < day * DayLength + w.from
      BY <3>2, <3>3
    <3>5. Lists(ScanWindow(w, day, f[n], busy, t), Seen(n) \cup CellsOf(w, day), busy, t)
      <4> HIDE DEF Seen
      <4>1. QED
        BY <2>2, <3>4, WindowLists
    <3>6. Seen(n + 1) = Seen(n) \cup CellsOf(w, day)
      <4>1. {x \in 1..(n + 1) : Windows[x].weekday = day % 7 /\ day \notin Holidays}
            = {x \in 1..n : Windows[x].weekday = day % 7 /\ day \notin Holidays} \cup {n + 1}
        BY <2>2, <2>w, <2>4
      <4>2. OfDay(day, n + 1) = OfDay(day, n) \cup CellsOf(w, day)
        BY <2>w, <4>1 DEF OfDay
      <4>3. QED
        BY <4>2
    <3>7. QED
      <4> HIDE DEF Seen
      <4>1. f[n + 1] = ScanWindow(w, day, f[n], busy, t)
        BY <2>3, <2>4
      <4>2. QED
        BY <3>5, <3>6, <4>1
  <2>5. CASE ~(w.weekday = day % 7 /\ day \notin Holidays)
    <3>1. {x \in 1..(n + 1) : Windows[x].weekday = day % 7 /\ day \notin Holidays}
          = {x \in 1..n : Windows[x].weekday = day % 7 /\ day \notin Holidays}
      BY <2>2, <2>w, <2>5
    <3>2. OfDay(day, n + 1) = OfDay(day, n)
      BY <3>1 DEF OfDay
    <3>3. Seen(n + 1) = Seen(n) /\ f[n + 1] = f[n]
      BY <2>3, <2>5, <3>2
    <3>4. QED
      <4> HIDE DEF Seen
      <4>1. QED
        BY <2>2, <3>3
  <2>6. QED
    BY <2>4, <2>5
<1>4. G = Nat
  <2> HIDE DEF G
  <2>1. G \in SUBSET Nat
    BY DEF G
  <2>2. QED
    BY <1>2, <1>3, <2>1, Induct
<1>5. Lists(f[Len(Windows)], Seen(Len(Windows)), busy, t)
  <2> HIDE DEF Seen
  <2>1. Len(Windows) \in G
    <3> HIDE DEF G
    <3>1. QED
      BY <1>0, <1>4
  <2>2. QED
    BY <1>0, <2>1
<1>6. ScanDay(day, s, busy, t) = f[Len(Windows)]
      /\ Seen(Len(Windows)) = V \cup OfDay(day, Len(Windows))
  BY <1>1 DEF DayRun
<1>7. QED
  <2> HIDE DEF Seen
  <2>1. QED
    BY <1>5, <1>6

LEMMA HorizonLists ==
  ASSUME WindowsApart, NEW t \in Nat, NEW busy
  PROVE  Lists(ComputeOpenSlots(busy, t), OfDays(t \div DayLength, HorizonDays), busy, t)
<1> DEFINE first == t \div DayLength
           Seen(n) == OfDays(first, n)
<1>0. /\ DayLength \in Nat \ {0} /\ HorizonDays \in Nat /\ Len(Windows) \in Nat
      /\ Limit \in Nat /\ first \in Nat
  BY CalendarParameters, Today
<1>1. PICK f \in [0..HorizonDays -> Seq(Interval)] :
            /\ f[0] = <<>> /\ ComputeOpenSlots(busy, t) = f[HorizonDays]
            /\ \A k \in 1..HorizonDays : f[k] = ScanDay(first + k - 1, f[k - 1], busy, t)
  BY HorizonRounds
<1> HIDE DEF first
<1> DEFINE G == {n \in Nat : n <= HorizonDays => Lists(f[n], Seen(n), busy, t)}
<1>2. 0 \in G
  <2>1. Seen(0) = {}
    BY DEF OfDays
  <2>2. Lists(<<>>, {}, busy, t)
    BY <1>0 DEF Lists
  <2>3. QED
    BY <1>1, <2>1, <2>2
<1>3. ASSUME NEW n \in G PROVE n + 1 \in G
  <2>1. SUFFICES ASSUME n + 1 <= HorizonDays PROVE Lists(f[n + 1], Seen(n + 1), busy, t)
    OBVIOUS
  <2>2. /\ n \in Nat /\ n + 1 \in 1..HorizonDays /\ (n + 1) - 1 = n
        /\ Lists(f[n], Seen(n), busy, t)
    BY <1>0, <2>1
  <2> DEFINE day == first + n
  <2>3. day \in Nat /\ first + (n + 1) - 1 = day
    BY <1>0, <2>2
  <2>4. f[n + 1] = ScanDay(day, f[n], busy, t)
    BY <1>1, <2>2, <2>3
  <2>5. ASSUME NEW v \in Seen(n)
        PROVE  v \in Interval /\ v.from < v.to /\ v.to <= day * DayLength
    <3>1. PICK k \in 1..n : v \in OfDay(first + k - 1, Len(Windows))
      BY DEF OfDays
    <3> DEFINE e == first + k - 1
    <3>2. e \in Nat /\ e + 1 \in Nat /\ e + 1 <= day /\ Len(Windows) \in 0..Len(Windows)
      BY <1>0, <2>2
    <3>3. v \in Interval /\ v.from < v.to /\ v.to <= (e + 1) * DayLength
      BY <3>1, <3>2, DayBounds
    <3>4. (e + 1) * DayLength <= day * DayLength
      <4> HIDE DEF e, day
      <4>1. CASE e + 1 = day
        BY <1>0, <2>3, <4>1
      <4>2. CASE e + 1 < day
        <5>1. (e + 1) * DayLength < day * DayLength
          BY <1>0, <2>3, <3>2, <4>2, Multiples
        <5>2. (e + 1) * DayLength \in Nat /\ day * DayLength \in Nat
          BY <1>0, <2>3, <3>2
        <5>3. QED
          BY <5>1, <5>2
      <4>3. QED
        BY <2>3, <3>2, <4>1, <4>2
    <3>5. (e + 1) * DayLength \in Nat /\ day * DayLength \in Nat /\ v.to \in Nat
      BY <1>0, <2>3, <3>2, <3>3 DEF Interval
    <3>6. QED
      <4> HIDE DEF e, day
      <4>1. QED
        BY <3>3, <3>4, <3>5
  <2>6. Lists(ScanDay(day, f[n], busy, t), Seen(n) \cup OfDay(day, Len(Windows)), busy, t)
    <3> HIDE DEF Seen, day
    <3>1. Seen(n) \in SUBSET Interval
      BY <2>5
    <3>2. QED
      BY <2>2, <2>3, <2>5, <3>1, DayLists
  <2>7. Seen(n + 1) = Seen(n) \cup OfDay(day, Len(Windows))
    <3> DEFINE Part(k) == OfDay(first + k - 1, Len(Windows))
    <3>1. 1..(n + 1) = (1..n) \cup {n + 1} /\ Part(n + 1) = OfDay(day, Len(Windows))
      BY <2>2, <2>3
    <3>2. UNION {Part(k) : k \in (1..n) \cup {n + 1}}
          = (UNION {Part(k) : k \in 1..n}) \cup Part(n + 1)
      <4> HIDE DEF Part
      <4>1. QED
        OBVIOUS
    <3>3. QED
      BY <3>1, <3>2 DEF OfDays
  <2>8. QED
    <3> HIDE DEF Seen, day
    <3>1. QED
      BY <2>4, <2>6, <2>7
<1>4. G = Nat
  <2> HIDE DEF G
  <2>1. G \in SUBSET Nat
    BY DEF G
  <2>2. QED
    BY <1>2, <1>3, <2>1, Induct
<1>5. Lists(f[HorizonDays], Seen(HorizonDays), busy, t)
  <2> HIDE DEF Seen
  <2>1. HorizonDays \in G
    <3> HIDE DEF G
    <3>1. QED
      BY <1>0, <1>4
  <2>2. QED
    BY <1>0, <2>1
<1>6. QED
  BY <1>1, <1>5 DEF first

-----------------------------------------------------------------------------
(* What listOpenSlots tells computeOpenSlots of the table.                 *)
Busy == {appt[a] : a \in {b \in Held \ open :
            appt[b].from < now + HorizonDays * DayLength /\ appt[b].to > now}}

(* The cells again, as Bookable describes them.                            *)
LEMMA HorizonCells ==
  ASSUME NEW first \in Nat, NEW c \in Interval
  PROVE  c \in OfDays(first, HorizonDays)
         <=> \E day \in first..(first + HorizonDays - 1) :
                c \in OfDay(day, Len(Windows))
<1>0. HorizonDays \in Nat
  BY CalendarParameters
<1>1. ASSUME NEW k \in 1..HorizonDays
      PROVE  first + k - 1 \in first..(first + HorizonDays - 1)
  BY <1>0
<1>2. ASSUME NEW day \in first..(first + HorizonDays - 1)
      PROVE  day - first + 1 \in 1..HorizonDays /\ first + (day - first + 1) - 1 = day
  BY <1>0
<1>3. QED
  BY <1>1, <1>2 DEF OfDays

LEMMA CellOf ==
  ASSUME NEW w \in Window, NEW day \in Nat, NEW c \in Interval
  PROVE  c \in CellsOf(w, day)
         <=> /\ w.dur > 0
             /\ \E n \in 0..w.to : c.from = day * DayLength + w.from + n * w.dur
             /\ c.to = c.from + w.dur /\ c.to <= day * DayLength + w.to
<1>0. w.from \in Nat /\ w.to \in Nat /\ w.dur \in Nat /\ DayLength \in Nat
      /\ day * DayLength \in Nat /\ c.from \in Nat /\ c.to \in Nat
  BY CalendarParameters DEF Window, Interval
<1>1. ASSUME c \in CellsOf(w, day)
      PROVE  /\ w.dur > 0
             /\ \E n \in 0..w.to : c.from = day * DayLength + w.from + n * w.dur
             /\ c.to = c.from + w.dur /\ c.to <= day * DayLength + w.to
  <2>1. w.dur > 0 /\ c.to = c.from + w.dur /\ c.to <= day * DayLength + w.to
    BY <1>1, CellBounds
  <2>2. PICK j \in 1..w.to : c = Cell(w, day, j)
    BY <1>1 DEF CellsOf, Rounds
  <2>3. j \in Nat \ {0} /\ j - 1 \in 0..w.to
    BY <1>0
  <2>4. c.from = day * DayLength + w.from + (j - 1) * w.dur
    BY <2>2, <2>3, CellIs
  <2>5. QED
    BY <2>1, <2>3, <2>4
<1>2. ASSUME w.dur > 0, NEW n \in 0..w.to, c.from = day * DayLength + w.from + n * w.dur,
             c.to = c.from + w.dur, c.to <= day * DayLength + w.to
      PROVE  c \in CellsOf(w, day)
  <2> DEFINE j == n + 1
  <2>1. /\ n \in Nat /\ j \in Nat \ {0} /\ j - 1 = n /\ n * w.dur \in Nat
        /\ j * w.dur = n * w.dur + w.dur
    BY <1>0
  <2>2. Fits(w, j)
    BY <1>0, <1>2, <2>1 DEF Fits
  <2>3. n <= n * w.dur
    <3>1. CASE w.dur = 1
      BY <2>1, <3>1
    <3>2. CASE w.dur > 1 /\ n > 0
      <4>1. 1 * n < w.dur * n
        BY <1>0, <2>1, <3>2, Multiples
      <4>2. 1 * n = n /\ w.dur * n = n * w.dur
        BY <1>0, <2>1
      <4>3. QED
        BY <2>1, <4>1, <4>2
    <3>3. CASE n = 0
      BY <2>1, <3>3
    <3>4. QED
      BY <1>0, <1>2, <2>1, <3>1, <3>2, <3>3
  <2>4. j \in 1..w.to
    BY <1>0, <1>2, <2>1, <2>2, <2>3 DEF Fits
  <2>5. /\ Cell(w, day, j) \in Interval
        /\ Cell(w, day, j).from = day * DayLength + w.from + n * w.dur
        /\ Cell(w, day, j).to = day * DayLength + w.from + j * w.dur
    <3> HIDE DEF j
    <3>1. QED
      BY <2>1, CellIs
  <2>6. c = Cell(w, day, j)
    <3> HIDE DEF j
    <3>1. c.from = Cell(w, day, j).from /\ c.to = Cell(w, day, j).to
      BY <1>0, <1>2, <2>1, <2>5
    <3>2. QED
      BY <2>5, <3>1 DEF Interval
  <2>7. QED
    <3> HIDE DEF j
    <3>1. QED
      BY <1>2, <2>2, <2>4, <2>6 DEF CellsOf, Rounds
<1>3. QED
  BY <1>1, <1>2

(* A slot is bookable when it is one of the horizon's cells and open.      *)
LEMMA BookableIs ==
  ASSUME CalendarTypeOK, NEW c \in Interval
  PROVE  Bookable(c) <=> /\ c \in OfDays(now \div DayLength, HorizonDays)
                         /\ OpenAt(c, Busy, now)
<1> DEFINE first == now \div DayLength
<1>0. /\ now \in Nat /\ first \in Nat /\ first * DayLength <= now
      /\ DayLength \in Nat \ {0} /\ HorizonDays \in Nat /\ Lead \in Nat
      /\ Windows \in Seq(Window) /\ Len(Windows) \in Nat /\ DOMAIN Windows = 1..Len(Windows)
      /\ c.from \in Nat /\ c.to \in Nat
  <2>1. now \in Nat
    BY DEF CalendarTypeOK
  <2>2. first \in Nat /\ first * DayLength <= now
    BY <2>1, Today
  <2>3. /\ DayLength \in Nat \ {0} /\ HorizonDays \in Nat /\ Lead \in Nat
        /\ Windows \in Seq(Window)
    BY CalendarParameters
  <2>4. Len(Windows) \in Nat /\ DOMAIN Windows = 1..Len(Windows)
    BY <2>3
  <2>5. c.from \in Nat /\ c.to \in Nat
    BY DEF Interval
  <2> HIDE DEF first
  <2>6. QED
    BY <2>1, <2>2, <2>3, <2>4, <2>5
<1> DEFINE Days == first..(first + HorizonDays - 1)
           Cells == \E day \in Days :
                       /\ day \notin Holidays
                       /\ \E i \in DOMAIN Windows :
                             Windows[i].weekday = day % 7 /\ c \in CellsOf(Windows[i], day)
<1>1. Cells <=> c \in OfDays(first, HorizonDays)
  <2> HIDE DEF first
  <2>1. ASSUME NEW day \in Days
        PROVE  c \in OfDay(day, Len(Windows))
               <=> /\ day \notin Holidays
                   /\ \E i \in DOMAIN Windows :
                         Windows[i].weekday = day % 7 /\ c \in CellsOf(Windows[i], day)
    BY <1>0 DEF OfDay
  <2>2. QED
    BY <1>0, <2>1, HorizonCells
<1>2. Bookable(c) <=> /\ c.from > now + Lead
                      /\ \A a \in Held \ open : ~Overlap(c, appt[a])
                      /\ Cells
  <2>1. ASSUME NEW day \in Days, NEW i \in DOMAIN Windows
        PROVE  c \in CellsOf(Windows[i], day)
               <=> /\ Windows[i].dur > 0
                   /\ \E n \in 0..Windows[i].to :
                         c.from = day * DayLength + Windows[i].from + n * Windows[i].dur
                   /\ c.to = c.from + Windows[i].dur
                   /\ c.to <= day * DayLength + Windows[i].to
    <3>1. Windows[i] \in Window /\ day \in Nat
      BY <1>0
    <3>2. QED
      BY <3>1, CellOf
  <2>2. QED
    <3> HIDE DEF Days, first
    <3>1. Bookable(c)
          <=> /\ c.from > now + Lead
              /\ \A a \in Held \ open : ~Overlap(c, appt[a])
              /\ \E day \in Days :
                    /\ day \notin Holidays
                    /\ \E i \in DOMAIN Windows :
                          /\ Windows[i].weekday = day % 7 /\ Windows[i].dur > 0
                          /\ \E n \in 0..Windows[i].to :
                                c.from = day * DayLength + Windows[i].from + n * Windows[i].dur
                          /\ c.to = c.from + Windows[i].dur
                          /\ c.to <= day * DayLength + Windows[i].to
      BY DEF Bookable, Days, first
    <3>2. QED
      BY <2>1, <3>1, Zenon
<1>3. ASSUME c.from > now + Lead, c \in OfDays(first, HorizonDays)
      PROVE  (\A a \in Held \ open : ~Overlap(c, appt[a])) <=> \A b \in Busy : ~Overlap(c, b)
  <2>1. PICK day \in Days : c \in OfDay(day, Len(Windows))
    <3> HIDE DEF first
    <3>1. QED
      BY <1>0, <1>3, HorizonCells
  <2>2. day \in Nat /\ day + 1 \in Nat /\ day + 1 <= first + HorizonDays
        /\ Len(Windows) \in 0..Len(Windows)
    BY <1>0
  <2>3. c.to <= (day + 1) * DayLength
    BY <2>1, <2>2, DayBounds
  <2>4. (day + 1) * DayLength <= (first + HorizonDays) * DayLength
    <3> DEFINE x == day + 1
               y == first + HorizonDays
    <3>1. x \in Nat /\ y \in Nat /\ x <= y
      BY <1>0, <2>2
    <3> HIDE DEF x, y
    <3>2. x * DayLength <= y * DayLength
      <4>1. x * DayLength \in Nat /\ y * DayLength \in Nat
        BY <1>0, <3>1
      <4>2. CASE x = y
        BY <4>1, <4>2
      <4>3. CASE x < y
        <5>1. x * DayLength < y * DayLength
          BY <1>0, <3>1, <4>3, Multiples
        <5>2. QED
          BY <4>1, <5>1
      <4>4. QED
        BY <3>1, <4>2, <4>3
    <3>3. QED
      BY <3>2 DEF x, y
  <2>5. (first + HorizonDays) * DayLength = first * DayLength + HorizonDays * DayLength
    <3> HIDE DEF first
    <3>1. QED
      BY <1>0
  <2>6. /\ (day + 1) * DayLength \in Nat /\ first * DayLength \in Nat
        /\ HorizonDays * DayLength \in Nat
    BY <1>0, <2>2
  <2>7. c.to <= now + HorizonDays * DayLength
    <3> HIDE DEF first
    <3>1. QED
      BY <1>0, <2>3, <2>4, <2>5, <2>6
  <2>8. ASSUME NEW a \in Held \ open, Overlap(c, appt[a]) PROVE appt[a] \in Busy
    <3>1. a \in Appt /\ appt[a].from \in Nat /\ appt[a].to \in Nat
      BY DEF Held, CalendarTypeOK, Row
    <3>2. appt[a].from < now + HorizonDays * DayLength /\ appt[a].to > now
      BY <1>0, <1>3, <2>6, <2>7, <2>8, <3>1 DEF Overlap
    <3>3. QED
      BY <3>2 DEF Busy
  <2>9. \A b \in Busy : \E a \in Held \ open : b = appt[a]
    BY DEF Busy
  <2>10. QED
    BY <2>8, <2>9
<1>4. QED
  BY <1>1, <1>2, <1>3 DEF OpenAt

-----------------------------------------------------------------------------
(* The diary's types                                                       *)

(* ListOpenSlots is computeOpenSlots over the table's busy rows.           *)
LEMMA Listed ==
  ASSUME CalendarTypeOK
  PROVE  ListOpenSlots = ComputeOpenSlots(Busy, now) /\ ListOpenSlots \in Seq(Interval)
<1>1. now \in Nat /\ ListOpenSlots = ComputeOpenSlots(Busy, now)
  BY DEF CalendarTypeOK, ListOpenSlots, Busy
<1>2. QED
  BY <1>1, OpenSlotsType

(* What the actions write has its type.                                    *)
LEMMA MovesType ==
  ASSUME CalendarTypeOK, Moves \/ UNCHANGED moves
  PROVE  moves' \in 0..MaxMoves
BY CalendarParameters DEF CalendarTypeOK, Moves

LEMMA RowType ==
  ASSUME NEW a, NEW st \in Status \cup {"none"}, NEW c \in Clients \cup {NoClient},
         NEW span \in Interval, appt \in [Appt -> Row],
         appt' = [appt EXCEPT ![a] = [st |-> st, client |-> c, from |-> span.from, to |-> span.to]]
  PROVE  appt' \in [Appt -> Row]
<1> DEFINE r == [st |-> st, client |-> c, from |-> span.from, to |-> span.to]
<1>1. r \in Row
  BY DEF Row, Interval
<1>2. appt' = [appt EXCEPT ![a] = r]
  OBVIOUS
<1> HIDE DEF r
<1>3. QED
  BY <1>1, <1>2

LEMMA InsertType ==
  ASSUME CalendarTypeOK, NEW a \in Appt, NEW c \in Clients, NEW span \in Interval,
         InsertRow(a, c, span)
  PROVE  appt' \in [Appt -> Row] /\ open' \subseteq Appt
<1>1. open' \subseteq Appt
  BY DEF CalendarTypeOK, InsertRow
<1>2. /\ appt \in [Appt -> Row]
      /\ appt' = [appt EXCEPT ![a] = [st |-> "CONFIRMED", client |-> c,
                                      from |-> span.from, to |-> span.to]]
  BY DEF CalendarTypeOK, InsertRow
<1>3. "CONFIRMED" \in Status \cup {"none"} /\ c \in Clients \cup {NoClient}
  BY DEF Status
<1>4. appt' \in [Appt -> Row]
  BY <1>2, <1>3, RowType
<1>5. QED
  BY <1>1, <1>4

(* The turns of the AI are at a step, with an appointment or without.      *)
LEMMA TurnType ==
  ASSUME NEW c, NEW s \in {"idle", "list", "offer", "book", "clear", "charge"},
         NEW a \in Appt \cup {NoAppt},
         turn \in [Clients -> Turn], turn' = [turn EXCEPT ![c] = [step |-> s, appt |-> a]]
  PROVE  turn' \in [Clients -> Turn]
<1> DEFINE t == [step |-> s, appt |-> a]
<1>1. t \in Turn
  BY DEF Turn
<1>2. turn' = [turn EXCEPT ![c] = t]
  OBVIOUS
<1> HIDE DEF t
<1>3. QED
  BY <1>1, <1>2

LEMMA TurnMoves ==
  ASSUME NEW c \in Clients, NEW s \in {"idle", "list", "offer", "book", "clear", "charge"},
         turn \in [Clients -> Turn], turn' = [turn EXCEPT ![c].step = s]
  PROVE  turn' \in [Clients -> Turn]
<1> DEFINE t == [turn[c] EXCEPT !.step = s]
<1>1. turn[c] \in Turn
  OBVIOUS
<1>2. t \in Turn
  BY <1>1 DEF Turn
<1>3. turn' = [turn EXCEPT ![c] = t]
  OBVIOUS
<1> HIDE DEF t
<1>4. QED
  BY <1>2, <1>3

LEMMA IdleType == Idle \in Turn /\ NoEdit \in Edit /\ NoRow \in Row
BY DEF Idle, Turn, NoEdit, Edit, NoRow, Row

(* So each action keeps the diary's types.                                 *)
LEMMA CalendarInitType == CalendarInit => CalendarTypeOK
<1> SUFFICES ASSUME CalendarInit PROVE CalendarTypeOK
  OBVIOUS
<1>1. appt \in [Appt -> Row]
  BY CalendarParameters DEF CalendarInit
<1>2. <<>> \in Seq(Interval)
  OBVIOUS
<1>3. QED
  BY <1>1, <1>2, IdleType, CalendarParameters DEF CalendarInit, CalendarTypeOK

LEMMA CalendarTypeByDiary ==
  ASSUME CalendarTypeOK, Diary
  PROVE  CalendarTypeOK'
<1>0. ASSUME NEW c \in Clients, NEW s \in {"idle", "list", "offer", "book", "clear", "charge"},
             turn' = [turn EXCEPT ![c].step = s]
      PROVE  turn' \in [Clients -> Turn]
  BY <1>0, TurnMoves DEF CalendarTypeOK
<1>1. ASSUME NEW c \in Clients, ListSlots(c) PROVE CalendarTypeOK'
  <2>1. moves' \in 0..MaxMoves
    BY <1>1, MovesType DEF ListSlots
  <2>2. found' \in [Clients -> Seq(Interval)]
    <3>1. found' = [found EXCEPT ![c] = ListOpenSlots] /\ found \in [Clients -> Seq(Interval)]
      BY <1>1 DEF ListSlots, CalendarTypeOK
    <3>2. QED
      BY <3>1, Listed
  <2>3. turn' = [turn EXCEPT ![c].step = "offer"] /\ UNCHANGED <<now, appt, open, offer, edit>>
    BY <1>1 DEF ListSlots
  <2>4. turn' \in [Clients -> Turn]
    BY <1>0, <2>3
  <2>5. QED
    BY <2>1, <2>2, <2>3, <2>4 DEF CalendarTypeOK
<1>11. ASSUME NEW c \in Clients, StoreOffer(c) PROVE CalendarTypeOK'
  <2>1. <<>> \in Seq(Interval)
    OBVIOUS
  <2>2. /\ offer' = [offer EXCEPT ![c] = found[c]] /\ found' = [found EXCEPT ![c] = <<>>]
        /\ turn' = [turn EXCEPT ![c] = Idle] /\ UNCHANGED <<now, appt, open, edit, moves>>
    BY <1>11 DEF StoreOffer
  <2>3. offer' \in [Clients -> Seq(Interval)] /\ found' \in [Clients -> Seq(Interval)]
    BY <2>1, <2>2 DEF CalendarTypeOK
  <2>4. QED
    BY <2>2, <2>3, IdleType DEF CalendarTypeOK
<1>2. ASSUME NEW c \in Clients, ClearOffer(c) PROVE CalendarTypeOK'
  <2>1. <<>> \in Seq(Interval)
    OBVIOUS
  <2>2. /\ offer' = [offer EXCEPT ![c] = <<>>] /\ turn' = [turn EXCEPT ![c] = Idle]
        /\ UNCHANGED <<now, appt, open, found, edit, moves>>
    BY <1>2 DEF ClearOffer
  <2>3. QED
    BY <2>1, <2>2, IdleType DEF CalendarTypeOK
<1>3. ASSUME NEW c \in Clients, LoseTurn(c) PROVE CalendarTypeOK'
  <2>1. moves' \in 0..MaxMoves
    BY <1>3, MovesType DEF LoseTurn
  <2>2. /\ turn' = [turn EXCEPT ![c] = Idle] /\ found' = [found EXCEPT ![c] = <<>>]
        /\ UNCHANGED <<now, appt, open, offer, edit>>
    BY <1>3 DEF LoseTurn
  <2>3. <<>> \in Seq(Interval)
    OBVIOUS
  <2>4. found' \in [Clients -> Seq(Interval)]
    BY <2>2, <2>3 DEF CalendarTypeOK
  <2>5. QED
    BY <2>1, <2>2, <2>4, IdleType DEF CalendarTypeOK
<1>4. ASSUME NEW c \in Clients, NEW i, NEW a \in Appt, ChooseSlot(c, i, a)
      PROVE  CalendarTypeOK'
  <2>1. moves' \in 0..MaxMoves
    BY <1>4, MovesType DEF ChooseSlot
  <2>2. offer[c] \in Seq(Interval) /\ i \in DOMAIN offer[c]
    BY <1>4 DEF ChooseSlot, CalendarTypeOK
  <2>3. offer[c][i] \in Interval
    BY <2>2
  <2>4. appt' \in [Appt -> Row] /\ open' \subseteq Appt
    BY <1>4, <2>3, InsertType DEF ChooseSlot
  <2>5. turn' \in [Clients -> Turn]
    <3>1. /\ turn' = [turn EXCEPT ![c] = [step |-> "book", appt |-> a]]
          /\ turn \in [Clients -> Turn]
      BY <1>4 DEF ChooseSlot, CalendarTypeOK
    <3>2. a \in Appt \cup {NoAppt} /\ "book" \in {"idle", "list", "offer", "book", "clear", "charge"}
      OBVIOUS
    <3>3. QED
      BY <3>1, <3>2, TurnType
  <2>6. UNCHANGED <<now, offer, found, edit>>
    BY <1>4 DEF ChooseSlot
  <2>7. QED
    BY <2>1, <2>4, <2>5, <2>6 DEF CalendarTypeOK
<1>5. ASSUME NEW c \in Clients, NEW i, ChoiceTaken(c, i) PROVE CalendarTypeOK'
  <2>1. moves' \in 0..MaxMoves
    BY <1>5, MovesType DEF ChoiceTaken
  <2>2. turn' \in [Clients -> Turn] /\ UNCHANGED <<now, appt, open, offer, found, edit>>
    BY <1>0, <1>5 DEF ChoiceTaken
  <2>3. QED
    BY <2>1, <2>2 DEF CalendarTypeOK
<1>6. ASSUME NEW a \in Appt, NEW c \in Clients, NEW span \in Spans, StaffBook(a, c, span)
      PROVE  CalendarTypeOK'
  <2>1. moves' \in 0..MaxMoves
    BY <1>6, MovesType DEF StaffBook
  <2>2. span \in Interval
    BY CalendarParameters
  <2>3. appt' \in [Appt -> Row] /\ open' \subseteq Appt
    BY <1>6, <2>2, InsertType DEF StaffBook
  <2>4. UNCHANGED <<now, offer, found, turn, edit>>
    BY <1>6 DEF StaffBook
  <2>5. QED
    BY <2>1, <2>3, <2>4 DEF CalendarTypeOK
<1>7. ASSUME NEW a \in Appt, AbortBooking(a) PROVE CalendarTypeOK'
  <2>1. moves' \in 0..MaxMoves
    BY <1>7, MovesType DEF AbortBooking
  <2>2. /\ open' = open \ {a} /\ appt' = [appt EXCEPT ![a] = NoRow]
        /\ turn' = [c \in Clients |-> IF turn[c] = [step |-> "book", appt |-> a]
                                       THEN Idle ELSE turn[c]]
        /\ UNCHANGED <<now, offer, found, edit>>
    BY <1>7 DEF AbortBooking
  <2>3. QED
    BY <2>1, <2>2, IdleType DEF CalendarTypeOK
<1>8. ASSUME NEW r \in Desk, NEW a \in Appt, NEW st \in Status \cup {"none"},
             ReadAppointment(r, a, st)
      PROVE  CalendarTypeOK'
  <2> DEFINE e == [appt |-> a, was |-> appt[a].st, st |-> st]
  <2>1. moves' \in 0..MaxMoves
    BY <1>8, MovesType DEF ReadAppointment
  <2>2. edit' = [edit EXCEPT ![r] = e] /\ UNCHANGED <<now, appt, open, offer, found, turn>>
    BY <1>8 DEF ReadAppointment
  <2>3. e \in Edit
    <3>1. appt[a].st \in Status \cup {"none"}
      BY DEF CalendarTypeOK, Row
    <3>2. QED
      BY <3>1 DEF Edit
  <2> HIDE DEF e
  <2>4. QED
    BY <2>1, <2>2, <2>3 DEF CalendarTypeOK
<1>9. ASSUME NEW r \in Desk, FailUpdate(r) PROVE CalendarTypeOK'
  <2>1. moves' \in 0..MaxMoves
    BY <1>9, MovesType DEF FailUpdate
  <2>2. edit' = [edit EXCEPT ![r] = NoEdit] /\ UNCHANGED <<now, appt, open, offer, found, turn>>
    BY <1>9 DEF FailUpdate
  <2>3. QED
    BY <2>1, <2>2, IdleType DEF CalendarTypeOK
<1>10. ASSUME NEW t \in Instants, Later(t) PROVE CalendarTypeOK'
  <2>1. moves' \in 0..MaxMoves
    BY <1>10, MovesType DEF Later
  <2>2. now' = t /\ UNCHANGED <<appt, open, offer, found, turn, edit>>
    BY <1>10 DEF Later
  <2>3. t \in Nat
    BY CalendarParameters
  <2>4. QED
    BY <2>1, <2>2, <2>3 DEF CalendarTypeOK
<1>12. QED
  BY <1>1, <1>2, <1>3, <1>4, <1>5, <1>6, <1>7, <1>8, <1>9, <1>10, <1>11 DEF Diary

LEMMA CalendarTypeByEvents ==
  ASSUME CalendarTypeOK, DiaryEvents
  PROVE  CalendarTypeOK'
<1>1. ASSUME NEW a \in Appt, BookingCommits(a) PROVE CalendarTypeOK'
  <2> DEFINE t == [step |-> "clear", appt |-> a]
  <2>1. /\ open' = open \ {a}
        /\ turn' = [c \in Clients |-> IF turn[c] = [step |-> "book", appt |-> a]
                                       THEN t ELSE turn[c]]
        /\ UNCHANGED <<now, appt, offer, found, edit, moves>>
    BY <1>1 DEF BookingCommits, CommitBooking
  <2>2. t \in Turn
    BY DEF Turn
  <2> HIDE DEF t
  <2>3. QED
    BY <2>1, <2>2 DEF CalendarTypeOK
<1>2. ASSUME NEW r \in Desk, NEW span \in Interval, AppointmentChanges(r, span)
      PROVE  CalendarTypeOK'
  <2> DEFINE a == edit[r].appt
             st == IF edit[r].st = "none" THEN appt[a].st ELSE edit[r].st
  <2>1. edit[r] \in Edit /\ appt \in [Appt -> Row] /\ edit \in [Desk -> Edit]
    BY DEF CalendarTypeOK
  <2>2. /\ a # NoAppt
        /\ appt' = [appt EXCEPT ![a] = [st |-> st, client |-> appt[a].client,
                                        from |-> span.from, to |-> span.to]]
        /\ edit' = [edit EXCEPT ![r] = NoEdit]
        /\ UNCHANGED <<now, open, offer, found, turn, moves>>
    BY <1>2 DEF AppointmentChanges, WriteAppointment
  <2>3. a \in Appt /\ edit[r].st \in Status \cup {"none"}
    BY <2>1, <2>2 DEF Edit
  <2>4. st \in Status \cup {"none"} /\ appt[a].client \in Clients \cup {NoClient}
    BY <2>1, <2>3 DEF Row
  <2> HIDE DEF a, st
  <2>5. appt' \in [Appt -> Row]
    BY <2>1, <2>2, <2>4, RowType
  <2>6. QED
    BY <2>1, <2>2, <2>5, IdleType DEF CalendarTypeOK
<1>3. QED
  BY <1>1, <1>2 DEF DiaryEvents

LEMMA CalendarTypeByMoney ==
  ASSUME CalendarTypeOK, Money
  PROVE  CalendarTypeOK'
<1>1. ASSUME NEW c \in Clients, turn' = [turn EXCEPT ![c].step = "charge"]
      PROVE  turn' \in [Clients -> Turn]
  BY <1>1, TurnMoves DEF CalendarTypeOK
<1>2. ASSUME NEW c \in Clients, AskDetails(c) PROVE CalendarTypeOK'
  <2>1. moves' \in 0..MaxMoves
    BY <1>2, MovesType DEF AskDetails
  <2>2. turn' \in [Clients -> Turn] /\ UNCHANGED <<now, appt, open, offer, found, edit>>
    BY <1>1, <1>2 DEF AskDetails
  <2>3. QED
    BY <2>1, <2>2 DEF CalendarTypeOK
<1>3. ASSUME NEW c \in Clients, NEW p \in Pay, ChargeForDetails(c, p) PROVE CalendarTypeOK'
  <2>1. turn' = [turn EXCEPT ![c] = Idle] /\ UNCHANGED <<now, appt, open, offer, found, edit, moves>>
    BY <1>3 DEF ChargeForDetails
  <2>2. QED
    BY <2>1, IdleType DEF CalendarTypeOK
<1>4. ASSUME Moves \/ UNCHANGED moves, UNCHANGED <<now, appt, open, offer, found, turn, edit>>
      PROVE  CalendarTypeOK'
  BY <1>4, MovesType DEF CalendarTypeOK
<1>5. QED
  BY <1>2, <1>3, <1>4 DEF Money, RequestPayment, RecordManualPayment, AttachProof,
     ProcessWebhook, ReadPayment, ConfirmReceived, Refund, calendarVars

LEMMA CalendarTypeStep ==
  ASSUME CalendarTypeOK, [Next]_vars
  PROVE  CalendarTypeOK'
<1>1. ASSUME Moves \/ UNCHANGED moves, UNCHANGED <<now, appt, open, offer, found, turn, edit>>
      PROVE  CalendarTypeOK'
  BY <1>1, MovesType DEF CalendarTypeOK
<1>2. CASE UNCHANGED vars
  BY <1>1, <1>2 DEF vars, calendarVars
<1>3. CASE \E w \in EventWorkers : Handlers(w)
  BY <1>1, <1>3 DEF Handlers, StartEvent, FindFee, ChargeFee, SendInstructions, LoadReceipt,
     SendReceipt, SendConfirmations, FinishEvent, EventFails, CrashEvent, Gone, Handling,
     calendarVars
<1>4. QED
  BY <1>2, <1>3, CalendarTypeByDiary, CalendarTypeByEvents, CalendarTypeByMoney DEF Next

LEMMA CalendarTyped == Spec => []CalendarTypeOK
<1>1. Init => CalendarTypeOK
  BY CalendarInitType DEF Init
<1>2. CalendarTypeOK /\ [Next]_vars => CalendarTypeOK'
  BY CalendarTypeStep
<1>3. QED
  BY <1>1, <1>2, PTL DEF Spec

(* Only ListSlots takes a turn to the step at which it has slots to offer, *)
(* and the slots are those of the moment.                                  *)
LEMMA OfferIsListed ==
  ASSUME CalendarTypeOK, [Next]_vars, NEW c \in Clients,
         turn'[c].step = "offer", turn[c].step # "offer"
  PROVE  found'[c] = ListOpenSlots
<1>1. found \in [Clients -> Seq(Interval)] /\ turn \in [Clients -> Turn]
  BY DEF CalendarTypeOK
<1>2. ~UNCHANGED turn
  OBVIOUS
<1>3. \A d \in Clients : \A t : t.step # "offer" => turn' # [turn EXCEPT ![d] = t]
  BY <1>1
<1>4. \A d \in Clients : \A s : turn' = [turn EXCEPT ![d].step = s] => d = c /\ s = "offer"
  BY <1>1 DEF Turn
<1>5. Idle.step # "offer"
  BY DEF Idle
<1>6. ~DiaryEvents
  <2>1. \A a \in Appt : ~BookingCommits(a)
    BY DEF BookingCommits, CommitBooking
  <2>2. QED
    BY <1>2, <2>1 DEF DiaryEvents, AppointmentChanges, WriteAppointment
<1>7. ~Money
  <2>1. \A d \in Clients : ~AskDetails(d)
    BY <1>4 DEF AskDetails
  <2>2. \A d \in Clients, p \in Pay : ~ChargeForDetails(d, p)
    BY <1>3, <1>5 DEF ChargeForDetails
  <2>3. QED
    BY <1>2, <2>1, <2>2 DEF Money, RequestPayment, RecordManualPayment,
       AttachProof, ProcessWebhook, ReadPayment, ConfirmReceived, Refund, calendarVars
<1>8. \A w \in EventWorkers : ~Handlers(w)
  BY <1>2 DEF Handlers, StartEvent, FindFee, ChargeFee, SendInstructions, LoadReceipt,
     SendReceipt, SendConfirmations, FinishEvent, EventFails, CrashEvent, Gone, Handling,
     calendarVars
<1>9. Diary
  BY <1>2, <1>6, <1>7, <1>8 DEF Next, vars, calendarVars
<1>10. \A a \in Appt : ~AbortBooking(a)
  BY <1>5 DEF AbortBooking
<1>11. \E d \in Clients : ListSlots(d)
  <2>1. \A d \in Clients : ~StoreOffer(d) /\ ~ClearOffer(d) /\ ~LoseTurn(d)
    BY <1>3, <1>5 DEF StoreOffer, ClearOffer, LoseTurn
  <2>2. \A d \in Clients, i \in 1..Limit : ~ChoiceTaken(d, i)
    BY <1>4 DEF ChoiceTaken
  <2>3. \A d \in Clients, i \in 1..Limit, a \in Appt : ~ChooseSlot(d, i, a)
    BY <1>3 DEF ChooseSlot
  <2>4. QED
    BY <1>2, <1>9, <1>10, <2>1, <2>2, <2>3
    DEF Diary, StaffBook, ReadAppointment, FailUpdate, Later
<1>12. PICK d \in Clients : ListSlots(d)
  BY <1>11
<1>13. d = c
  BY <1>4, <1>12 DEF ListSlots
<1>14. QED
  BY <1>1, <1>12, <1>13 DEF ListSlots

(* What OffersAreEarliest asks of the slots s listed at this moment.       *)
Earliest(s) ==
    /\ Len(s) <= Limit
    /\ \A i \in DOMAIN s : Bookable(s[i]) /\ (i > 1 => s[i - 1].from < s[i].from)
    /\ \A f \in Horizon, d \in {Windows[i].dur : i \in DOMAIN Windows} :
           Bookable([from |-> f, to |-> f + d])
           => \/ \E i \in DOMAIN s : s[i] = [from |-> f, to |-> f + d]
              \/ Len(s) = Limit /\ s[Len(s)].from < f

(* The scan's list and the description of Bookable agree.                  *)
LEMMA ListedIsEarliest ==
  ASSUME WindowsApart, CalendarTypeOK
  PROVE  Earliest(ListOpenSlots)
<1> DEFINE s == ListOpenSlots
           V == OfDays(now \div DayLength, HorizonDays)
<1>1. now \in Nat
  BY DEF CalendarTypeOK
<1>2. s \in Seq(Interval) /\ s = ComputeOpenSlots(Busy, now)
  BY Listed
<1>3. Lists(s, V, Busy, now)
  BY <1>1, <1>2, HorizonLists
<1> HIDE DEF s, V
<1>4. Len(s) \in Nat /\ DOMAIN s = 1..Len(s)
  BY <1>2
<1>5. Len(s) <= Limit
  BY <1>3 DEF Lists
<1>6. ASSUME NEW i \in DOMAIN s
      PROVE  Bookable(s[i]) /\ (i > 1 => s[i - 1].from < s[i].from)
  <2>1. s[i] \in Interval /\ s[i] \in V /\ OpenAt(s[i], Busy, now)
    BY <1>2, <1>3, <1>4 DEF Lists
  <2>2. Bookable(s[i])
    BY <2>1, BookableIs DEF V
  <2>3. i > 1 => i \in 2..Len(s)
    BY <1>4
  <2>4. QED
    BY <1>3, <2>2, <2>3 DEF Lists
<1>7. ASSUME NEW f \in Horizon, NEW d \in {Windows[i].dur : i \in DOMAIN Windows},
             Bookable([from |-> f, to |-> f + d])
      PROVE  \/ \E i \in DOMAIN s : s[i] = [from |-> f, to |-> f + d]
             \/ Len(s) = Limit /\ s[Len(s)].from < f
  <2> DEFINE c == [from |-> f, to |-> f + d]
  <2>1. f \in Nat
    <3>1. DayLength \in Nat \ {0} /\ HorizonDays \in Nat
      BY CalendarParameters
    <3>2. (HorizonDays + 1) * DayLength \in Nat
      BY <3>1
    <3>3. QED
      BY <1>1, <3>2 DEF Horizon
  <2>2. d \in Nat
    <3>1. \A i \in DOMAIN Windows : Windows[i] \in Window
      BY CalendarParameters
    <3>2. QED
      BY <3>1 DEF Window
  <2>3. c \in Interval /\ c.from = f
    BY <2>1, <2>2 DEF Interval
  <2>4. Bookable(c)
    BY <1>7
  <2> HIDE DEF c
  <2>5. c \in V /\ OpenAt(c, Busy, now)
    BY <2>3, <2>4, BookableIs DEF V
  <2>6. \/ \E i \in 1..Len(s) : s[i] = c
        \/ Len(s) = Limit /\ s[Len(s)].from < c.from
    BY <1>3, <2>5 DEF Lists
  <2>7. QED
    BY <1>4, <2>3, <2>6 DEF c
<1>8. QED
  BY <1>5, <1>6, <1>7 DEF Earliest, s

-----------------------------------------------------------------------------
(* Results                                                                 *)

Inv == Billed /\ DiaryKept /\ NoDoubleBooking

LEMMA InvStep ==
  ASSUME Inv, [Next]_vars
  PROVE  Inv'
<1>1. (DiaryKept /\ NoDoubleBooking)'
  <2>1. CASE UNCHANGED appt
    BY <2>1 DEF Inv, DiaryKept, NoDoubleBooking, Held
  <2>2. CASE \E a : \E r : Rewritten(a, r)
    BY <2>2, RewrittenIsFree DEF Inv
  <2>3. QED
    BY <2>1, <2>2, DiarySteps DEF Inv
<1>2. Billed'
  <2>1. CASE UNCHANGED vars
    BY <2>1, BilledRests DEF Inv, vars
  <2>2. CASE Diary \/ DiaryEvents
    BY <2>2, BilledByDiary DEF Inv
  <2>3. CASE Money
    BY <2>3, BilledByMoney DEF Inv
  <2>4. CASE \E w \in EventWorkers : Handlers(w)
    BY <2>4, BilledByHandlers DEF Inv
  <2>5. QED
    BY <2>1, <2>2, <2>3, <2>4 DEF Next
<1>3. QED
  BY <1>1, <1>2 DEF Inv

LEMMA Invariance == Spec => []Inv
<1>1. Init => Inv
  BY DiaryInit, BilledInit DEF Inv
<1>2. Inv /\ [Next]_vars => Inv'
  BY InvStep
<1>3. QED
  BY <1>1, <1>2, PTL DEF Spec

(* NoDoubleBooking: whatever was offered to whom and however staff move    *)
(* and revive appointments, two live ones never overlap: every write of a  *)
(* row passes the EXCLUDE constraint, also against rows not yet committed. *)
THEOREM BookedOnce == Spec => []NoDoubleBooking
<1>1. Inv => NoDoubleBooking
  BY DEF Inv
<1>2. QED
  BY <1>1, Invariance, PTL

(* EachJobChargesOnce: a job that finds no payment of its appointment has  *)
(* not charged, and nobody else charges for it before it does.             *)
THEOREM ChargedOnce == Spec => []EachJobChargesOnce
<1>1. Inv => EachJobChargesOnce
  BY DEF Inv, Billed, Charged
<1>2. QED
  BY <1>1, Invariance, PTL

(* ReceivedIsAnnounced: each way to the money's arrival appends an event,  *)
(* and a refund starts from a payment that had arrived.                    *)
THEOREM MoneyIsAnnounced == Spec => []ReceivedIsAnnounced
<1>1. Inv => ReceivedIsAnnounced
  BY DEF Inv, Billed, Announced
<1>2. QED
  BY <1>1, Invariance, PTL

(* ReceiptsAreHeard: the handler reaches its end only past a send or a     *)
(* reason not to send.                                                     *)
THEOREM ReceiptsArrive == Spec => []ReceiptsAreHeard
<1>1. Inv => ReceiptsAreHeard
  BY DEF Inv, Billed, Heard
<1>2. QED
  BY <1>1, Invariance, PTL

(* Every variable holds what the code could store in it.                   *)
THEOREM Typing == Spec => []TypeOK
<1>1. Inv /\ CalendarTypeOK => TypeOK
  BY DEF Inv, Billed, Typed, Tables, TypeOK
<1>2. QED
  BY <1>1, Invariance, CalendarTyped, PTL

(* OffersAreEarliest: every list made for a client is the earliest bookable*)
(* slots in order, short of Limit only when there are no more; the window  *)
(* loop scans a day in time order only if no window of a weekday reaches   *)
(* into the next one.                                                      *)
THEOREM OffersEarliest == ASSUME WindowsApart PROVE Spec => OffersAreEarliest
<1>1. ASSUME CalendarTypeOK, [Next]_vars
      PROVE  [\A c \in Clients : turn'[c].step = "offer" /\ turn[c].step # "offer" =>
                Earliest(found'[c])]_calendarVars
  BY <1>1, OfferIsListed, ListedIsEarliest
<1>2. QED
  BY <1>1, CalendarTyped, PTL DEF Spec, OffersAreEarliest, Earliest
=============================================================================
