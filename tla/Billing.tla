------------------------------ MODULE Billing ------------------------------
(***************************************************************************)
(* Payments around the diary: a booked or completed appointment asks for   *)
(* the consultation fee, the client sees instructions, staff or the rail   *)
(* settle, and a receipt follows (payments.service.ts, payment-fee-        *)
(* message.handler.ts, payment-receipt.handler.ts, payment-instruction.    *)
(* service.ts).                                                            *)
(*                                                                         *)
(* Domain events reach their handler as jobs that may be retried and whose *)
(* worker may die (module Outbox has the way there).  Abstracted: amounts, *)
(* cases, PDF contents, analytics; the firm has receiving details.         *)
(***************************************************************************)
EXTENDS Calendar

CONSTANTS
    Pay,           \* ids of payments
    NoPay,
    EventWorkers,  \* slots of the domain-events worker (10 in the code)
    NoEvent,
    MaxRepeats,    \* bound on the events of one kind about one thing
    MaxAttempts,   \* BullMQ `attempts` of the domain-events queue
    FeeSet,        \* is consultationFeePkr positive?
    PayKinds       \* methods staff use: "manual", "instruction", "rail"

Event == ({"booked", "completed"} \X Appt \X (1..MaxRepeats))
         \cup ({"requested", "succeeded"} \X Pay \X (1..MaxRepeats))

ASSUME BillingParameters ==
    /\ NoPay \notin Pay /\ NoEvent \notin Event
    /\ IsFiniteSet(Pay) /\ Cardinality(Pay) <= 100   \* what findForAppointment reads
    /\ MaxRepeats \in Nat \ {0} /\ MaxAttempts \in Nat \ {0}
    /\ FeeSet \in BOOLEAN
    /\ PayKinds \subseteq {"manual", "instruction", "rail"}

VARIABLES
    pay,    \* the payments table
    job,    \* the job of each domain event
    run,    \* what each slot of the worker is doing
    heard,  \* what the client got from each job: "silent" is a closed window
            \* or a client without a conversation
    till    \* the payment each dashboard request has read

billingVars == <<pay, job, run, heard, till>>
vars == <<calendarVars, billingVars>>

Paid == {"SUCCEEDED", "RECORDED_MANUAL"}
PayRow == [st : {"none", "PENDING", "FAILED", "REFUNDED"} \cup Paid,
           kind : {"manual", "instruction", "rail"}, client : Clients \cup {NoClient},
           appt : Appt \cup {NoAppt}, by : Event \cup {NoEvent}, proof : BOOLEAN]
NoPayment == [st |-> "none", kind |-> "manual", client |-> NoClient, appt |-> NoAppt,
              by |-> NoEvent, proof |-> FALSE]
Job == [st : {"none", "waiting", "active", "done", "failed"},
        made : 0..MaxAttempts, stalls : 0..1]
NoJob == [st |-> "none", made |-> 0, stalls |-> 0]
(* "both": a receipt that a confirmation of the appointment follows.       *)
Step == {"idle", "find", "charge", "instruct", "load", "receipt", "both", "confirm", "finish"}
Slot == [step : Step, ev : Event \cup {NoEvent}, pay : Pay \cup {NoPay}]
FreeSlot == [step |-> "idle", ev |-> NoEvent, pay |-> NoPay]
Till == [op : {"none", "refund", "confirm"}, pay : Pay \cup {NoPay}]
NoTill == [op |-> "none", pay |-> NoPay]

-----------------------------------------------------------------------------
(* Events                                                                  *)

(* outbox.append in the transaction; Raised(j, ...) is job with the event. *)
NextEvent(kind, x) ==
    {n \in 1..MaxRepeats : job[<<kind, x, n>>] = NoJob
                           /\ \A k \in 1..(n - 1) : job[<<kind, x, k>>] # NoJob}
Raise(kind, x) ==
    \E n \in NextEvent(kind, x) : job' = [job EXCEPT ![<<kind, x, n>>].st = "waiting"]

NewPayment(p, c, kind, st, a, ev) ==
    /\ pay[p] = NoPayment
    /\ pay' = [pay EXCEPT ![p] = [st |-> st, kind |-> kind, client |-> c, appt |-> a,
                                  by |-> ev, proof |-> FALSE]]

-----------------------------------------------------------------------------
(* PaymentsService, for the dashboard and the rail                         *)

(* requestPayment: cash is recorded at once, without a PaymentSucceeded.   *)
(* The one rail the code has never completes a payment before its callback.*)
RequestPayment(p, c, kind) ==
    /\ Moves
    /\ NewPayment(p, c, kind, IF kind = "manual" THEN "RECORDED_MANUAL" ELSE "PENDING",
                  NoAppt, NoEvent)
    /\ Raise("requested", p)
    /\ UNCHANGED <<now, appt, open, offer, found, turn, edit, run, heard, till>>

RecordManualPayment(p, c) ==
    /\ Moves
    /\ NewPayment(p, c, "instruction", "RECORDED_MANUAL", NoAppt, NoEvent)
    /\ Raise("succeeded", p)
    /\ UNCHANGED <<now, appt, open, offer, found, turn, edit, run, heard, till>>

(* processWebhook finds the payment by provider transaction and writes the *)
(* status, whatever it was.                                                *)
ProcessWebhook(p, success) ==
    /\ Moves
    /\ pay[p].st # "none" /\ pay[p].kind = "rail"
    /\ pay' = [pay EXCEPT ![p].st = IF success THEN "SUCCEEDED" ELSE "FAILED"]
    /\ IF success THEN Raise("succeeded", p) ELSE UNCHANGED job
    /\ UNCHANGED <<now, appt, open, offer, found, turn, edit, run, heard, till>>

(* refund and confirmReceived check the status they read ...               *)
ReadPayment(r, op, p) ==
    /\ Moves
    /\ till[r] = NoTill
    /\ \/ op = "refund" /\ pay[p].st \in Paid
       \/ op = "confirm" /\ pay[p].st = "PENDING"
    /\ till' = [till EXCEPT ![r] = [op |-> op, pay |-> p]]
    /\ UNCHANGED <<now, appt, open, offer, found, turn, edit, pay, job, run, heard>>

(* Seeded bug: the receipt is left to the client's next question.          *)
ConfirmQuietly(r) ==
    LET p == till[r].pay
    IN  /\ till[r].op = "confirm"
        /\ pay' = [pay EXCEPT ![p].st = "RECORDED_MANUAL"]
        /\ till' = [till EXCEPT ![r] = NoTill]
        /\ UNCHANGED <<calendarVars, job, run, heard>>

(* ... and write by id.                                                    *)
ConfirmReceived(r) ==
    LET p == till[r].pay
    IN  /\ till[r].op = "confirm"
        /\ pay' = [pay EXCEPT ![p].st = "RECORDED_MANUAL"]
        /\ Raise("succeeded", p)
        /\ till' = [till EXCEPT ![r] = NoTill]
        /\ UNCHANGED <<calendarVars, run, heard>>

Refund(r) ==
    /\ till[r].op = "refund"
    /\ pay' = [pay EXCEPT ![till[r].pay].st = "REFUNDED"]
    /\ till' = [till EXCEPT ![r] = NoTill]
    /\ UNCHANGED <<calendarVars, job, run, heard>>

(* attachProof of a screenshot (module Inbound).                           *)
AttachProof(p) ==
    /\ Moves /\ pay[p].st = "PENDING" /\ ~pay[p].proof
    /\ pay' = [pay EXCEPT ![p].proof = TRUE]
    /\ UNCHANGED <<now, appt, open, offer, found, turn, edit, job, run, heard, till>>

(* handleClientRequest: no open payment was found, so one is made from the *)
(* fee, in another transaction.                                            *)
AskDetails(c) ==
    /\ turn[c] = Idle /\ Moves /\ FeeSet
    /\ \A p \in Pay : ~(pay[p].client = c /\ pay[p].st = "PENDING")
    /\ turn' = [turn EXCEPT ![c].step = "charge"]
    /\ UNCHANGED <<now, appt, open, offer, found, edit, billingVars>>

ChargeForDetails(c, p) ==
    /\ turn[c].step = "charge"
    /\ NewPayment(p, c, "instruction", "PENDING", NoAppt, NoEvent)
    /\ Raise("requested", p)
    /\ turn' = [turn EXCEPT ![c] = Idle]
    /\ UNCHANGED <<now, appt, open, offer, found, edit, moves, run, heard, till>>

-----------------------------------------------------------------------------
(* The diary's events                                                      *)

BookingCommits(a) ==
    /\ CommitBooking(a) /\ Raise("booked", a)
    /\ UNCHANGED <<pay, run, heard, till>>

AppointmentChanges(r, span) ==
    /\ WriteAppointment(r, span)
    /\ IF edit[r].st = "COMPLETED" /\ edit[r].was # "COMPLETED"
       THEN Raise("completed", edit[r].appt) ELSE UNCHANGED job
    /\ UNCHANGED <<pay, run, heard, till>>

-----------------------------------------------------------------------------
(* The handlers                                                            *)

Goes(w, step) == run' = [run EXCEPT ![w].step = step]
Turns(w, step, p) == run' = [run EXCEPT ![w] = [step |-> step, ev |-> run[w].ev, pay |-> p]]
Hears(w, what) == heard' = [heard EXCEPT ![run[w].ev] = what]
Handling == UNCHANGED <<calendarVars, till>>

(* A slot takes a job of the queue.                                        *)
StartEvent(w, ev) ==
    /\ run[w] = FreeSlot /\ job[ev].st = "waiting"
    /\ job' = [job EXCEPT ![ev].st = "active"]
    /\ run' = [run EXCEPT ![w] =
         [ev |-> ev,
          step |-> CASE ev[1] \in {"booked", "completed"} -> "find"
                     [] ev[1] = "requested" -> "instruct"
                     [] OTHER -> "load",
          pay |-> IF ev[1] \in {"requested", "succeeded"} THEN ev[2] ELSE NoPay]]
    /\ UNCHANGED <<pay, heard>> /\ Handling

(* Seeded bug: only an open payment counts as the appointment's.           *)
FindOpenFee(w) ==
    LET mine == {p \in Pay : pay[p].st = "PENDING" /\ pay[p].appt = run[w].ev[2]}
    IN  /\ run[w].step = "find"
        /\ IF mine = {} THEN Goes(w, IF FeeSet THEN "charge" ELSE "finish")
           ELSE \E p \in mine : Turns(w, "instruct", p)
        /\ UNCHANGED <<pay, job, heard>> /\ Handling

(* requestFeeIfNeeded: a payment of the appointment, of any status, stops  *)
(* the handler; an open one is asked for again.                            *)
FindFee(w) ==
    LET mine == {p \in Pay : pay[p].st # "none" /\ pay[p].appt = run[w].ev[2]}
    IN  /\ run[w].step = "find"
        /\ IF mine = {} THEN Goes(w, IF FeeSet THEN "charge" ELSE "finish")
           ELSE \E p \in mine :
                  Turns(w, IF pay[p].st = "PENDING" THEN "instruct" ELSE "finish", p)
        /\ UNCHANGED <<pay, job, heard>> /\ Handling

ChargeFee(w, p) ==
    LET a == run[w].ev[2]
    IN  /\ run[w].step = "charge"
        /\ NewPayment(p, appt[a].client, "instruction", "PENDING", a, run[w].ev)
        /\ Raise("requested", p)
        /\ Goes(w, "finish")
        /\ UNCHANGED <<heard>> /\ Handling

(* sendFeeMessage: no conversation and a closed window are no errors.      *)
SendInstructions(w, what) ==
    /\ run[w].step = "instruct" /\ what \in {"sent", "silent"}
    /\ Hears(w, what) /\ Goes(w, "finish")
    /\ UNCHANGED <<pay, job>> /\ Handling

(* resolveAppointmentForPayment: the linked one, else the client's next.   *)
Appointments(p) ==
    IF pay[p].appt # NoAppt THEN {pay[p].appt}
    ELSE {a \in Held \ open : appt[a].client = pay[p].client /\ appt[a].from >= now}

(* PaymentReceiptHandler.loadContext, then the PDF and its upload.         *)
LoadReceipt(w, talks) ==
    /\ run[w].step = "load"
    /\ IF talks THEN /\ Goes(w, IF Appointments(run[w].pay) # {} THEN "both" ELSE "receipt")
                     /\ UNCHANGED heard
       ELSE Goes(w, "finish") /\ Hears(w, "silent")
    /\ UNCHANGED <<pay, job>> /\ Handling

SendReceipt(w, reached) ==
    /\ run[w].step \in {"receipt", "both"}
    /\ Hears(w, IF reached THEN "sent" ELSE "silent")
    /\ Goes(w, IF reached /\ run[w].step = "both" THEN "confirm" ELSE "finish")
    /\ UNCHANGED <<pay, job>> /\ Handling

(* sendAppointmentConfirmations: PDF, document and text.                   *)
SendConfirmations(w) ==
    /\ run[w].step = "confirm" /\ Goes(w, "finish")
    /\ UNCHANGED <<pay, job, heard>> /\ Handling

FinishEvent(w) ==
    /\ run[w].step = "finish"
    /\ job' = [job EXCEPT ![run[w].ev].st = "done"]
    /\ run' = [run EXCEPT ![w] = FreeSlot]
    /\ UNCHANGED <<pay, heard>> /\ Handling

(* BullMQ after a job threw, and after its worker died (one recovery).     *)
Thrown(j) ==
    [st |-> IF j.made + 1 < MaxAttempts THEN "waiting" ELSE "failed",
     made |-> j.made + 1, stalls |-> j.stalls]
Stalled(j) ==
    [st |-> IF j.stalls = 0 THEN "waiting" ELSE "failed", made |-> j.made, stalls |-> 1]

Gone(w) ==
    /\ run' = [run EXCEPT ![w] = FreeSlot]
    /\ UNCHANGED <<pay, heard, now, appt, open, offer, found, turn, edit, till>>

(* Seeded bug: a refused message is logged like a closed window.           *)
EventFailsQuietly(w) ==
    /\ Moves /\ run[w].step \notin {"idle", "finish"}
    /\ job' = [job EXCEPT ![run[w].ev].st = "done"]
    /\ Gone(w)

(* Anything else throws: the job runs again from the start.                *)
EventFails(w) ==
    /\ Moves /\ run[w].step \notin {"idle", "finish"}
    /\ job' = [job EXCEPT ![run[w].ev] = Thrown(@)]
    /\ Gone(w)

(* Seeded bug: a job is recovered as often as its worker dies.             *)
CrashEventAgain(w) ==
    /\ Moves /\ run[w].step # "idle"
    /\ job' = [job EXCEPT ![run[w].ev] =
                 [st |-> "waiting", made |-> @.made, stalls |-> @.stalls + 1]]
    /\ Gone(w)

(* The worker dies, also between its last write and the end of the job.    *)
CrashEvent(w) ==
    /\ Moves /\ run[w].step # "idle"
    /\ job' = [job EXCEPT ![run[w].ev] = Stalled(@)]
    /\ Gone(w)

-----------------------------------------------------------------------------
Init ==
    /\ CalendarInit
    /\ pay = [p \in Pay |-> NoPayment]
    /\ job = [e \in Event |-> NoJob]
    /\ run = [w \in EventWorkers |-> FreeSlot]
    /\ heard = [e \in Event |-> "nothing"]
    /\ till = [r \in Desk |-> NoTill]

Diary ==
    /\ \/ \E c \in Clients : ListSlots(c) \/ StoreOffer(c) \/ ClearOffer(c) \/ LoseTurn(c)
       \/ \E c \in Clients, i \in 1..Limit, a \in Appt : ChooseSlot(c, i, a)
       \/ \E c \in Clients, i \in 1..Limit : ChoiceTaken(c, i)
       \/ \E a \in Appt, c \in Clients, span \in Spans : StaffBook(a, c, span)
       \/ \E a \in Appt : AbortBooking(a)
       \/ \E r \in Desk, a \in Appt, st \in Status \cup {"none"} : ReadAppointment(r, a, st)
       \/ \E r \in Desk : FailUpdate(r)
       \/ \E t \in Instants : Later(t)
    /\ UNCHANGED billingVars

DiaryEvents ==
    \/ \E a \in Appt : BookingCommits(a)
    \/ \E r \in Desk, span \in Interval \cap
           (Spans \cup {[from |-> appt[a].from, to |-> appt[a].to] : a \in Appt}) :
           AppointmentChanges(r, span)

Money ==
    \/ \E p \in Pay, c \in Clients : \E kind \in PayKinds : RequestPayment(p, c, kind)
    \/ \E p \in Pay, c \in Clients : RecordManualPayment(p, c) \/ ChargeForDetails(c, p)
    \/ \E p \in Pay : AttachProof(p) \/ \E success \in BOOLEAN : ProcessWebhook(p, success)
    \/ \E r \in Desk, p \in Pay, op \in {"refund", "confirm"} : ReadPayment(r, op, p)
    \/ \E r \in Desk : ConfirmReceived(r) \/ Refund(r)
    \/ \E c \in Clients : AskDetails(c)

Handlers(w) ==
    \/ \E ev \in Event : StartEvent(w, ev)
    \/ FindFee(w) \/ \E p \in Pay : ChargeFee(w, p)
    \/ \E what \in {"sent", "silent"} : SendInstructions(w, what)
    \/ \E yes \in BOOLEAN : LoadReceipt(w, yes) \/ SendReceipt(w, yes)
    \/ SendConfirmations(w) \/ FinishEvent(w) \/ EventFails(w) \/ CrashEvent(w)

Next == Diary \/ DiaryEvents \/ Money \/ \E w \in EventWorkers : Handlers(w)

Spec == Init /\ [][Next]_vars

-----------------------------------------------------------------------------
(* Properties                                                              *)

(* Every variable holds what the code could store in it.                   *)
TypeOK ==
    /\ CalendarTypeOK
    /\ pay \in [Pay -> PayRow]
    /\ job \in [Event -> Job]
    /\ run \in [EventWorkers -> Slot]
    /\ heard \in [Event -> {"nothing", "sent", "silent"}]
    /\ till \in [Desk -> Till]

(* requestFeeIfNeeded commits its payment before its job ends: a retry     *)
(* after a crash or an error, in any order with other jobs, finds what the *)
(* first attempt made and no job charges twice.                            *)
EachJobChargesOnce ==
    \A p, q \in Pay : pay[p].by # NoEvent /\ pay[p].by = pay[q].by => p = q

(* Money that counts as received, or was given back, has been announced,   *)
(* so that a receipt is due: through confirmations, callbacks and refunds  *)
(* that raced each other.  Cash requested over the counter is the exception*)
(* the code makes.                                                         *)
ReceivedIsAnnounced ==
    \A p \in Pay :
        /\ pay[p].st \in Paid \cup {"REFUNDED"} /\ pay[p].kind # "manual"
        => job[<<"succeeded", p, 1>>] # NoJob

(* A receipt job that ends as done has reached the client, unless the      *)
(* 24-hour window was closed or there is no conversation to write to.      *)
ReceiptsAreHeard ==
    \A p \in Pay, n \in 1..MaxRepeats :
        job[<<"succeeded", p, n>>].st = "done" => heard[<<"succeeded", p, n>>] # "nothing"
=============================================================================
