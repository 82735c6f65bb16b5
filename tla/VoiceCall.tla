----------------------------- MODULE VoiceCall ------------------------------
(***************************************************************************)
(* Live calls in the voice process: connect and terminate jobs, the claim  *)
(* of a SIP INVITE (module InvitePark), the media loop that talks to the   *)
(* caller, and the record and inbox entry a call leaves (voice-session.    *)
(* runner.ts, voice-call.service.ts, call-media.loop.ts, wavoip-sip-ua.ts, *)
(* voice-receptionist.service.ts).                                         *)
(*                                                                         *)
(* Sessions, loops and the park live in the memory of the process and die  *)
(* with it.  A transaction that reads, stores a file and writes is two     *)
(* steps.  Abstracted: audio, prompts, languages and messages to the       *)
(* caller, whose errors are logged; why a call is rejected; the            *)
(* conversation of the call; everything but the claim of calls that are    *)
(* not in Calls.                                                           *)
(***************************************************************************)
EXTENDS InvitePark

CONSTANTS
    Calls,        \* calls, by providerCallId
    Deeds,        \* what callers ask for in this instance
    Slots,        \* concurrency of VoiceCallProcessor (4 in the code)
    MaxAttempts,  \* `attempts` of its jobs (3 in the code)
    Env,          \* what may go wrong in this instance
    MaxMoves      \* bound on what callers, Wavoip and failures do in one behaviour

EnvKinds == {"crash",   \* the voice process dies
             "throw",   \* a transaction or a storage call throws
             "refuse"}  \* WhatsApp or the dialog refuses to be accepted

ASSUME VoiceParameters ==
    /\ Calls \subseteq Callers
    /\ Deeds \subseteq {"INFO", "BOOKED", "ESCALATED"}
    /\ Slots \in Nat \ {0} /\ MaxAttempts \in Nat \ {0}
    /\ Env \subseteq EnvKinds /\ MaxMoves \in Nat

VARIABLES
    cloud,    \* calls of firms on the Cloud API; the others are on Baileys
    silent,   \* Cloud calls whose media session is a no-op: no audio passes
    call,     \* status of each row of voice_calls
    record,   \* its disposition
    entries,  \* CALL rows in the inbox, by call
    jobs,     \* connect and terminate job of each call
    at,       \* where the three threads of each call are
    session,  \* calls in the `sessions` map
    mood,     \* session.disposition
    deeds,    \* what the receptionist has done for the caller
    gone,     \* calls whose line is closed
    lost,     \* calls whose outcome went down with a failure
    moves     \* what callers, Wavoip and failures have done

lineVars == <<cloud, silent>>
rowVars == <<call, record, entries>>
talkVars == <<session, mood, deeds>>
vars == <<lineVars, rowVars, jobs, at, talkVars, gone, parkVars, lost, moves>>

Kinds == {"connect", "terminate"}
Threads == Kinds \cup {"loop"}
Ended == {"COMPLETED", "REJECTED", "FAILED"}
Disposition == {"none", "ABANDONED", "INFO", "BOOKED", "ESCALATED"}
Step == {"idle", "ring", "decide", "accept", "claim", "wait", "answer",
         "greet", "take", "talking", "acting", "end", "write", "finish"}
Job == [st : {"none", "waiting", "active", "done", "failed"},
        made : 0..MaxAttempts, stalls : 0..1]
NoJob == [st |-> "none", made |-> 0, stalls |-> 0]
Thread == [step : Step, how : Ended \cup {"none"}, says : Disposition]
Idle == [step |-> "idle", how |-> "none", says |-> "none"]

-----------------------------------------------------------------------------
(* Helpers                                                                 *)

Moves == moves < MaxMoves /\ moves' = moves + 1
Fault(kind) == kind \in Env /\ Moves

Goes(k, th, step) == at' = [at EXCEPT ![k][th].step = step]

(* Towards VoiceCallService.complete with a status and a disposition.      *)
Ends(k, th, how, says) ==
    at' = [at EXCEPT ![k][th] = [step |-> "end", how |-> how, says |-> says]]

Thrown(j) ==
    [st |-> IF j.made + 1 < MaxAttempts THEN "waiting" ELSE "failed",
     made |-> j.made + 1, stalls |-> j.stalls]
(* Seeded bug: a job is recovered as often as the process dies.            *)
StalledAgain(j) ==
    IF j.st # "active" THEN j ELSE [j EXCEPT !.stalls = @ + 1, !.st = "waiting"]
(* The process died with the job; BullMQ recovers a job once.              *)
Stalled(j) ==
    IF j.st # "active" THEN j
    ELSE [j EXCEPT !.stalls = 1, !.st = IF j.stalls = 0 THEN "waiting" ELSE "failed"]

-----------------------------------------------------------------------------
(* Webhooks and queue                                                      *)

(* EvolutionWebhookIngestService.handleCall: one job per call and kind; a  *)
(* terminate event comes when the line is closed, by whomever.             *)
CallWebhook(k, kind) ==
    /\ jobs[k][kind] = NoJob
    /\ kind = "terminate" => k \in gone
    /\ jobs' = [jobs EXCEPT ![k][kind].st = "waiting"]
    /\ UNCHANGED <<lineVars, rowVars, at, talkVars, gone, parkVars, lost, moves>>

CallerHangsUp(k) ==
    /\ Moves
    /\ jobs[k]["connect"] # NoJob /\ k \notin gone
    /\ gone' = gone \cup {k}
    /\ UNCHANGED <<lineVars, rowVars, jobs, at, talkVars, parkVars, lost>>

StartJob(k, kind) ==
    /\ jobs[k][kind].st = "waiting"
    /\ Cardinality({x \in Calls \X Kinds : jobs[x[1]][x[2]].st = "active"}) < Slots
    /\ jobs' = [jobs EXCEPT ![k][kind].st = "active"]
    /\ Goes(k, kind, IF kind = "connect" THEN "ring" ELSE "take")
    /\ UNCHANGED <<lineVars, rowVars, talkVars, gone, parkVars, lost, moves>>

FinishJob(k, kind) ==
    /\ at[k][kind].step = "finish"
    /\ jobs' = [jobs EXCEPT ![k][kind].st = "done"]
    /\ at' = [at EXCEPT ![k][kind] = Idle]
    /\ UNCHANGED <<lineVars, rowVars, talkVars, gone, parkVars, lost, moves>>

(* A transaction throws: BullMQ counts an attempt.  A session that was     *)
(* taken for it is not put back.                                           *)
JobThrows(k, kind) ==
    /\ Fault("throw")
    /\ at[k][kind].step \in {"ring", "decide", "answer", "end", "write"}
    /\ jobs' = [jobs EXCEPT ![k][kind] = Thrown(@)]
    /\ at' = [at EXCEPT ![k][kind] = Idle]
    /\ lost' = IF kind = "terminate" THEN lost \cup {k} ELSE lost
    /\ IF kind = "connect" THEN DropDialogs(k) ELSE UNCHANGED invite
    /\ UNCHANGED <<lineVars, rowVars, talkVars, gone, waiters>>

Crash ==
    /\ Fault("crash")
    /\ jobs' = [k \in Calls |-> [kind \in Kinds |-> Stalled(jobs[k][kind])]]
    /\ at' = [k \in Calls |-> [th \in Threads |-> Idle]]
    /\ session' = {}
    /\ lost' = lost \cup session
                    \cup {k \in Calls : \E th \in {"terminate", "loop"} :
                                                     at[k][th].step \in {"end", "write"}}
    /\ ParkLost
    /\ UNCHANGED <<lineVars, rowVars, mood, deeds, gone>>

-----------------------------------------------------------------------------
(* VoiceSessionRunner.connect                                              *)

(* startRinging: the row, or the one of an earlier attempt in whatever     *)
(* status.                                                                 *)
StartRinging(k) ==
    /\ at[k]["connect"].step = "ring"
    /\ call' = [call EXCEPT ![k] = IF @ = "none" THEN "RINGING" ELSE @]
    /\ Goes(k, "connect", "decide")
    /\ UNCHANGED <<lineVars, record, entries, jobs, talkVars, gone, parkVars, lost, moves>>

(* Settings, hours and the kind of connection, as they are now.            *)
Decide(k, answers) ==
    /\ at[k]["connect"].step = "decide"
    /\ IF answers THEN Goes(k, "connect", IF k \in cloud THEN "accept" ELSE "claim")
       ELSE Ends(k, "connect", "REJECTED", "none")
    /\ UNCHANGED <<lineVars, rowVars, jobs, talkVars, gone, parkVars, lost, moves>>

(* connectCloud: pre_accept and accept, with the WebRTC session that was   *)
(* built, or with a no-op one when the offer has no SDP or werift cannot   *)
(* answer it.                                                              *)
AcceptCloud(k, live) ==
    /\ at[k]["connect"].step = "accept"
    /\ silent' = IF live THEN silent \ {k} ELSE silent \cup {k}
    /\ Goes(k, "connect", "answer")
    /\ UNCHANGED <<cloud, rowVars, jobs, talkVars, gone, parkVars, lost, moves>>

AcceptRefused(k) ==
    /\ Fault("refuse")
    /\ at[k]["connect"].step = "accept"
    /\ Ends(k, "connect", "FAILED", "ABANDONED")
    /\ UNCHANGED <<lineVars, rowVars, jobs, talkVars, gone, parkVars, lost>>

(* connectBaileys without a dialog: missedCallFollowUp, complete.          *)
FollowUp(k) == Ends(k, "connect", "COMPLETED", "INFO")

(* InvitePark.claim, and what the others claim meanwhile.                  *)
ClaimInvite(k) ==
    /\ at[k]["connect"].step = "claim"
    /\ Claim(k) /\ Goes(k, "connect", "wait")
    /\ UNCHANGED <<lineVars, rowVars, jobs, talkVars, gone, lost, moves>>

InviteSteps ==
    /\ \/ \E i \in Invites : Park(i) \/ LeavePark(i)
       \/ \E k \in Callers : ClaimTimesOut(k)
       \/ \E k \in Callers \ Calls : Claim(k)
    /\ UNCHANGED <<lineVars, rowVars, jobs, at, talkVars, gone, lost, moves>>

(* Wavoip is not configured, its agent is down, or the claim is null.      *)
NoInvite(k) ==
    /\ \/ at[k]["connect"].step = "claim"
       \/ at[k]["connect"].step = "wait" /\ k \notin waiters /\ DialogsOf(k) = {}
    /\ FollowUp(k)
    /\ UNCHANGED <<lineVars, rowVars, jobs, talkVars, gone, parkVars, lost, moves>>

(* claimSession: the dialog is accepted, or nobody hears of it any more.   *)
PickUp(k) ==
    /\ at[k]["connect"].step = "wait" /\ DialogsOf(k) # {}
    /\ Goes(k, "connect", "answer")
    /\ UNCHANGED <<lineVars, rowVars, jobs, talkVars, gone, parkVars, lost, moves>>

PickUpFails(k) ==
    /\ Fault("refuse")
    /\ at[k]["connect"].step = "wait" /\ DialogsOf(k) # {}
    /\ DropDialogs(k)
    /\ FollowUp(k)
    /\ UNCHANGED <<lineVars, rowVars, jobs, talkVars, gone, waiters, lost>>

(* Seeded bug: the session is there before the row says ANSWERED.          *)
MarkAnsweredLate(k) ==
    /\ at[k]["connect"].step \in {"answer", "finish"} /\ jobs[k]["connect"].st = "active"
    /\ call[k] # "ANSWERED"
    /\ call' = [call EXCEPT ![k] = "ANSWERED"]
    /\ session' = session \cup {k}
    /\ at' = [at EXCEPT ![k]["connect"].step = "finish", ![k]["loop"].step = "talking"]
    /\ UNCHANGED <<lineVars, record, entries, jobs, mood, deeds, gone, parkVars, lost, moves>>

(* markAnswered, whatever the row says.                                    *)
MarkAnswered(k) ==
    /\ at[k]["connect"].step = "answer"
    /\ call' = [call EXCEPT ![k] = "ANSWERED"]
    /\ Goes(k, "connect", "greet")
    /\ UNCHANGED <<lineVars, record, entries, jobs, talkVars, gone, parkVars, lost, moves>>

(* beginTalk: the session is in the map and the loop runs on its own.      *)
BeginTalk(k) ==
    /\ at[k]["connect"].step = "greet"
    /\ session' = session \cup {k}
    /\ mood' = [mood EXCEPT ![k] = "ABANDONED"]
    /\ at' = [at EXCEPT ![k]["connect"].step = "finish", ![k]["loop"].step = "talking"]
    /\ UNCHANGED <<lineVars, rowVars, jobs, deeds, gone, parkVars, lost, moves>>

-----------------------------------------------------------------------------
(* CallMediaLoop.run and VoiceReceptionistService.processUtterance         *)

(* rtc.isClosed(): a dialog ends with the line; a WebRTC session is closed *)
(* by terminate alone; a no-op one always says so.                         *)
Closed(k) == k \in silent \/ IF k \in cloud THEN k \notin session ELSE k \in gone

(* The caller says something that makes the receptionist do `deed`.        *)
Utterance(k, deed) ==
    /\ Moves
    /\ at[k]["loop"].step = "talking" /\ k \notin gone /\ ~Closed(k)
    /\ at' = [at EXCEPT ![k]["loop"] = [step |-> "acting", how |-> "none", says |-> deed]]
    /\ UNCHANGED <<lineVars, rowVars, jobs, talkVars, gone, parkVars, lost>>

(* Seeded bug: the disposition is set although nothing was booked.         *)
ActAnyway(k, next) ==
    LET deed == at[k]["loop"].says
    IN  /\ at[k]["loop"].step = "acting" /\ next \in {"talking", "take"}
        /\ mood' = [mood EXCEPT ![k] = deed]
        /\ deeds' \in {deeds, [deeds EXCEPT ![k] = @ \cup {deed}]}
        /\ Goes(k, "loop", next)
        /\ UNCHANGED <<lineVars, rowVars, jobs, session, gone, parkVars, lost, moves>>

(* Intake, booking or escalation commits; then the disposition is set.     *)
(* The loop hangs up, unless the answer could not be spoken or the call    *)
(* goes on.                                                                *)
Act(k, next) ==
    LET deed == at[k]["loop"].says
    IN  /\ at[k]["loop"].step = "acting" /\ next \in {"talking", "take"}
        /\ deeds' = [deeds EXCEPT ![k] = @ \cup {deed}]
        /\ mood' = [mood EXCEPT ![k] = IF deed # "INFO" \/ @ = "ABANDONED" THEN deed ELSE @]
        /\ Goes(k, "loop", next)
        /\ UNCHANGED <<lineVars, rowVars, jobs, session, gone, parkVars, lost, moves>>

(* The slot is taken, or the transaction throws: "call turn failed".       *)
ActFails(k) ==
    /\ at[k]["loop"].step = "acting"
    /\ Goes(k, "loop", "talking")
    /\ UNCHANGED <<lineVars, rowVars, jobs, talkVars, gone, parkVars, lost, moves>>

(* CALL_LIMIT_MS with the session still open: onHangUp.                    *)
CallLimit(k) ==
    /\ at[k]["loop"].step = "talking" /\ ~Closed(k)
    /\ Goes(k, "loop", "take")
    /\ UNCHANGED <<lineVars, rowVars, jobs, talkVars, gone, parkVars, lost, moves>>

(* The loop ends, without onHangUp, and leaves the session in the map.     *)
LineCloses(k) ==
    /\ at[k]["loop"].step = "talking" /\ Closed(k)
    /\ at' = [at EXCEPT ![k]["loop"] = Idle]
    /\ UNCHANGED <<lineVars, rowVars, jobs, talkVars, gone, parkVars, lost, moves>>

-----------------------------------------------------------------------------
(* terminate and VoiceCallService.complete                                 *)

(* Seeded bug: the session stays in the map until the call is completed.   *)
PeekSession(k, th) ==
    /\ at[k][th].step = "take" /\ k \in session
    /\ gone' = gone \cup {k}
    /\ Ends(k, th, "COMPLETED", mood[k])
    /\ UNCHANGED <<lineVars, rowVars, jobs, talkVars, parkVars, lost, moves>>

(* Seeded bug: only the job of the caller's hang-up completes the call.    *)
TakeInJob(k, th) ==
    /\ at[k][th].step = "take"
    /\ IF th = "loop" THEN at' = [at EXCEPT ![k][th] = Idle] /\ UNCHANGED session
       ELSE /\ session' = session \ {k}
            /\ IF k \in session THEN Ends(k, th, "COMPLETED", mood[k])
               ELSE Goes(k, th, "finish")
    /\ UNCHANGED <<lineVars, rowVars, jobs, gone, mood, deeds, parkVars, lost, moves>>

(* Take the session out of the map and close the line; whoever finds none  *)
(* has nothing to do.                                                      *)
TakeSession(k, th) ==
    /\ at[k][th].step = "take"
    /\ session' = session \ {k}
    /\ gone' = gone \cup {k}
    /\ IF k \in session THEN Ends(k, th, "COMPLETED", mood[k])
       ELSE IF th = "loop" THEN at' = [at EXCEPT ![k][th] = Idle] ELSE Goes(k, th, "finish")
    /\ UNCHANGED <<lineVars, rowVars, jobs, mood, deeds, parkVars, lost, moves>>

After(k, th) == IF th = "loop" THEN Idle ELSE [Idle EXCEPT !.step = "finish"]

(* complete reads the row and stores the transcript ...                    *)
ReadCall(k, th) ==
    /\ at[k][th].step = "end"
    /\ at' = [at EXCEPT ![k][th] = IF call[k] \in {"COMPLETED", "REJECTED"} THEN After(k, th)
                                   ELSE [@ EXCEPT !.step = "write"]]
    /\ UNCHANGED <<lineVars, rowVars, jobs, talkVars, gone, parkVars, lost, moves>>

(* ... and writes the inbox entry and the outcome.                         *)
WriteOutcome(k, th) ==
    /\ at[k][th].step = "write"
    /\ call' = [call EXCEPT ![k] = at[k][th].how]
    /\ record' = [record EXCEPT ![k] = at[k][th].says]
    /\ entries' = [entries EXCEPT ![k] = @ + 1]
    /\ at' = [at EXCEPT ![k][th] = After(k, th)]
    /\ UNCHANGED <<lineVars, jobs, talkVars, gone, parkVars, lost, moves>>

(* In the loop the error of complete is logged.                            *)
LoopThrows(k) ==
    /\ Fault("throw")
    /\ at[k]["loop"].step \in {"end", "write"}
    /\ at' = [at EXCEPT ![k]["loop"] = Idle]
    /\ lost' = lost \cup {k}
    /\ UNCHANGED <<lineVars, rowVars, jobs, talkVars, gone, parkVars>>

-----------------------------------------------------------------------------
Init ==
    /\ cloud \in SUBSET Calls /\ silent = {}
    /\ call = [k \in Calls |-> "none"]
    /\ record = [k \in Calls |-> "none"]
    /\ entries = [k \in Calls |-> 0]
    /\ jobs = [k \in Calls |-> [kind \in Kinds |-> NoJob]]
    /\ at = [k \in Calls |-> [th \in Threads |-> Idle]]
    /\ session = {}
    /\ mood = [k \in Calls |-> "none"]
    /\ deeds = [k \in Calls |-> {}]
    /\ gone = {}
    /\ ParkInit
    /\ lost = {}
    /\ moves = 0

Connecting(k) ==
    \/ StartRinging(k) \/ (\E answers \in BOOLEAN : Decide(k, answers))
    \/ (\E live \in BOOLEAN : AcceptCloud(k, live)) \/ ClaimInvite(k) \/ NoInvite(k) \/ PickUp(k)
    \/ MarkAnswered(k) \/ BeginTalk(k)

Talking(k) == (\E next \in {"talking", "take"} : Act(k, next)) \/ ActFails(k) \/ LineCloses(k)

Completing(k, th) == TakeSession(k, th) \/ ReadCall(k, th) \/ WriteOutcome(k, th)

CallNext(k) ==
    \/ \E kind \in Kinds : CallWebhook(k, kind) \/ StartJob(k, kind) \/ FinishJob(k, kind)
                           \/ JobThrows(k, kind)
    \/ CallerHangsUp(k) \/ Connecting(k) \/ AcceptRefused(k) \/ PickUpFails(k)
    \/ \E deed \in Deeds : Utterance(k, deed)
    \/ Talking(k) \/ CallLimit(k) \/ LoopThrows(k)
    \/ \E th \in Threads : Completing(k, th)

Next ==
    \/ \E k \in Calls : CallNext(k)
    \/ InviteSteps
    \/ Crash

Spec == Init /\ [][Next]_vars

(* The process runs its threads, WhatsApp reports a closed line, BullMQ    *)
(* hands out waiting jobs; callers, INVITEs and failures owe nothing.  The *)
(* limit of a call whose loop runs passes although the caller goes on      *)
(* talking.                                                                *)
Fairness ==
    \A k \in Calls :
        /\ WF_vars(Connecting(k)) /\ WF_vars(Talking(k))
        /\ WF_vars(ClaimTimesOut(k) /\ InviteSteps)
        /\ SF_vars(CallLimit(k))
        /\ WF_vars(CallWebhook(k, "terminate"))
        /\ \A kind \in Kinds : SF_vars(StartJob(k, kind)) /\ WF_vars(FinishJob(k, kind))
        /\ \A th \in Threads : WF_vars(Completing(k, th))

FairSpec == Spec /\ Fairness

-----------------------------------------------------------------------------
(* Properties                                                              *)

(* Every variable holds what the code could store in it.                   *)
TypeOK ==
    /\ cloud \subseteq Calls /\ silent \subseteq Calls
    /\ call \in [Calls -> {"none", "RINGING", "ANSWERED"} \cup Ended]
    /\ record \in [Calls -> Disposition]
    /\ entries \in [Calls -> Nat]
    /\ jobs \in [Calls -> [Kinds -> Job]]
    /\ at \in [Calls -> [Threads -> Thread]]
    /\ session \subseteq Calls
    /\ mood \in [Calls -> Disposition]
    /\ deeds \in [Calls -> SUBSET Disposition]
    /\ gone \subseteq Calls
    /\ ParkTypeOK
    /\ lost \subseteq Calls
    /\ moves \in 0..MaxMoves

(* The terminate job, the loop's own hang-up and repeated connect attempts *)
(* race to complete a call; it leaves one entry in the inbox, and one more *)
(* only where a dead process had its connect job recovered.                *)
OneEntryPerConnect == \A k \in Calls : entries[k] <= 1 + jobs[k]["connect"].stalls

(* What the row says about the end of a call stays: neither markAnswered   *)
(* nor another thread's complete overwrites it, crashes of the process     *)
(* aside.                                                                  *)
OutcomeIsFinal ==
    [][\A k \in Calls : call[k] \in Ended /\ jobs[k]["connect"].stalls = 0
                        => call'[k] = call[k] /\ record'[k] = record[k]]_vars

(* A call is on record as booked or escalated only if the receptionist had *)
(* done that by the time somebody hung up.                                 *)
RecordsAreTrue == \A k \in Calls : record[k] \in {"BOOKED", "ESCALATED"} => record[k] \in deeds[k]

(* A caller whose voice reaches the assistant has the call completed in    *)
(* the end, whoever hangs up, unless a failure took its session away.  (A  *)
(* call without audio waits for the caller: its loop has ended and nobody  *)
(* counts its time.)                                                       *)
AnsweredCallsEnd ==
    \A k \in Calls :
        k \in session \ silent /\ k \notin gone ~> call[k] = "COMPLETED" \/ k \in lost
=============================================================================
