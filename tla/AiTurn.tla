------------------------------- MODULE AiTurn -------------------------------
(***************************************************************************)
(* One WhatsApp conversation of the Wakeel front desk: the messages its    *)
(* client sends, the AI turns that answer them, the staff who may take the *)
(* conversation over, and everything that can go wrong between the two.    *)
(*                                                                         *)
(* A client message becomes a row and a `message.inbound.received` job     *)
(* (messages.service.ts, whatsapp-media.processor.ts).  A worker that takes*)
(* the job (domain-events-dispatcher.processor.ts) enters the AI handler   *)
(* (ai-event.handler.ts), which guards the turn with a Redis lease         *)
(* (resource-lock.service.ts) and runs the orchestrator                    *)
(* (ai-orchestrator.service.ts).  Every point where the orchestrator awaits*)
(* a transaction, a model or WhatsApp is a program-counter value here, so  *)
(* other workers, staff and failures interleave at exactly those points.   *)
(*                                                                         *)
(* Abstracted: what the models say (every intent, escalation verdict and   *)
(* text is a nondeterministic choice), the intake and case data a turn     *)
(* writes, and milliseconds (a message is fresh, settled or overdue).      *)
(***************************************************************************)
EXTENDS Integers, FiniteSets

CONSTANTS
    N,            \* messages the client sends; message m is older than m + 1
    Audio,        \* the voice notes among them: transcribed before the AI runs
    Docs,         \* photos and files: filed before the AI runs
    Calls,        \* voice calls: an inbound row when they end, but no AI
                  \* event (one in Docs too may be either)
    Workers,      \* slots of the domain-events worker, over all replicas
    NoWorker,     \* the value of an absent lease
    Copies,       \* how often one message's event may be enqueued
    MaxAttempts,  \* BullMQ `attempts` of a domain event (5 in the code)
    MaxMessages,  \* burst-turn.ts maxMessages (12 in the code)
    Bubbles,      \* WhatsApp messages one text reply is split into
    Env,          \* what the environment does in this instance
    MaxFaults     \* bound on how often it does so in one behaviour

Msg == 1..N
Job == Msg \X (1..Copies)

EnvKinds == {"crash",      \* a worker process dies
             "lapse",      \* a turn outlives its 90 s lease
             "redis",      \* Redis is unreachable when the lease is set or freed
             "reject",     \* the provider refuses a send
             "commit",     \* a transaction fails after WhatsApp took the message
             "mark",       \* the completion marker cannot be written
             "throw",      \* any earlier transaction or call fails
             "media",      \* a media job ends without a result
             "duplicate",  \* the same event is enqueued again
             "outbound",   \* staff, reminders, receipts write to the client
             "staff"}      \* staff move the conversation or its escalations

(* The failures a conversation remembers: a turn without its lease, a turn *)
(* whose messages went unmarked.                                           *)
Lasting == {"lapse", "redis", "mark"}

ASSUME Parameters ==
    /\ N \in Nat \ {0}
    /\ Audio \subseteq Msg /\ Docs \subseteq Msg /\ Calls \subseteq Msg
    /\ NoWorker \notin Workers
    /\ Copies \in Nat \ {0}
    /\ MaxAttempts \in Nat \ {0}
    /\ MaxMessages \in Nat \ {0}
    /\ Bubbles \in Nat \ {0}
    /\ Env \subseteq EnvKinds
    /\ MaxFaults \in Nat

VARIABLES
    stored,    \* client messages with a row in `messages`
    media,     \* processing state of each message's attachment
    age,       \* 0 within settleMs, 1 settled, 2 past maxWaitMs
    marked,    \* messages whose payload carries aiTurnCompletedAt
    answered,  \* replies and drafts that answer the message's content
    silenced,  \* messages a turn decided to leave without a reply
    conv,      \* conversations.state
    openEsc,   \* escalations of the conversation with status OPEN
    lastOut,   \* newest message older than the last OUTBOUND row, 0 if none
    jobs,      \* BullMQ state of each message event
    attempts,  \* attemptsMade of each job
    stalls,    \* times BullMQ found the job stalled
    lock,      \* the worker whose token the lease key holds
    pc,        \* where each worker slot is
    turn,      \* the local variables of each worker's turn
    faults     \* what the environment did: how often, what of it lasts

queueVars == <<jobs, attempts, stalls>>
inboxVars == <<stored, media, age, marked, answered, silenced, conv, openEsc, lastOut>>
vars == <<inboxVars, queueVars, lock, pc, turn, faults>>

ConvState == {"AI_ACTIVE", "HUMAN_REQUIRED", "HUMAN_ACTIVE", "CLOSED"}
(* "captioned": in the media queue too, but with a body from the start.    *)
MediaState == {"none", "processing", "captioned", "failed", "filed", "ready"}
JobState == {"none", "waiting", "active", "stalled", "done", "failed"}
Pc == {"idle",     \* no job
       "lock",     \* withLock: SET NX
       "load",     \* loadInboundTurn and isTurnCompleted
       "burst",    \* resolveBurst
       "route",    \* the three intercepts
       "read",     \* Phase 1
       "fresh",    \* Phase 2 is over; Phase 3 reads fresh state
       "write",    \* Phase 3 writes and commits
       "tag",      \* an intercept writes aiIntent
       "send",     \* SendService.send up to postMessage
       "row",      \* ... and its message row
       "event",    \* the AiReplySent outbox append
       "mark",     \* markTurnCompleted
       "release",  \* the lease's finally block
       "settle"}   \* the dispatcher hands the job back to BullMQ
Plan == {"none", "reply", "handoff", "payment", "booking", "offer"}
Lease == {"none", "held", "lapsed", "unlocked"}
Result == {"none", "done", "later", "retry", "dead"}

Turn == [job : Job \cup {<<0, 0>>}, lease : Lease, ans : SUBSET Msg,
         said : SUBSET Msg, plan : Plan, medium : {"text", "voice"},
         left : 0..Bubbles, fresh : ConvState, seen : BOOLEAN, esc : BOOLEAN,
         at : SUBSET Msg, result : Result]

IdleTurn == [job |-> <<0, 0>>, lease |-> "none", ans |-> {}, said |-> {},
             plan |-> "none", medium |-> "text", left |-> 0,
             fresh |-> "AI_ACTIVE", seen |-> FALSE, esc |-> FALSE, at |-> {},
             result |-> "none"]

-----------------------------------------------------------------------------
(* Helpers                                                                 *)

(* The environment does something: it may, and the bound is not reached.   *)
Happens(kind) ==
    /\ kind \in Env /\ faults.count < MaxFaults
    /\ faults' = [count |-> faults.count + 1,
                  lasting |-> faults.lasting \cup ({kind} \cap Lasting)]

(* No failure of these kinds has happened.                                 *)
Never(kinds) == faults.lasting \cap kinds = {}

(* The message whose event worker w is handling.                           *)
Trigger(w) == turn[w].job[1]

Text == Msg \ (Audio \cup Docs \cup Calls)

(* Intercepts that send before they tag.                                   *)
SendsFirst == {"payment", "booking"}

(* Bound: a call escalates while fewer than this many escalations are OPEN.*)
MostEscalations == 2

(* isMediaStillProcessing: an attachment with neither a body nor a path.   *)
Processing(m) == media[m] \in {"processing", "failed"}

(* The k greatest elements of S.                                           *)
Newest(S, k) == {m \in S : Cardinality({x \in S : x > m}) < k}

(* Where an OUTBOUND row may stand that is written after the rows of S: it *)
(* is newer than they are, and perhaps than messages that have no row yet. *)
NewerThan(S) == {x \in lastOut..N : \A m \in S : m <= x}

(* The unanswered inbound rows since the last OUTBOUND one, as resolveBurst*)
(* queries them, cut to the window planBurstTurn looks at.                 *)
Window(w) ==
    LET rows == Newest({m \in stored : m > lastOut}, 2 * MaxMessages)
        pending == {m \in rows : m = Trigger(w) \/ m \notin marked}
    IN  Newest(pending, MaxMessages)

Enqueue(m) == jobs' = [jobs EXCEPT ![<<m, 1>>] = "waiting"]

(* A turn ends with a result: its locals are gone, the lease is released on*)
(* the way out.                                                            *)
End(w, result) ==
    /\ pc' = [pc EXCEPT ![w] = "release"]
    /\ turn' = [turn EXCEPT ![w] = [IdleTurn EXCEPT !.job = turn[w].job,
                                                   !.lease = turn[w].lease,
                                                   !.result = result]]

Goto(w, where) == pc' = [pc EXCEPT ![w] = where] /\ UNCHANGED turn

(* An exception inside the turn: the lease is released and BullMQ retries. *)
Throw(w) == End(w, "retry")

-----------------------------------------------------------------------------
(* The client and the media pipeline                                       *)

(* recordInbound.  A client message for a CLOSED conversation opens a new  *)
(* one, so it is not a message of this one.  Rows may be created out of    *)
(* order: an older message has at least the age of a newer one.            *)
RowStored(m, a) ==
    /\ m \notin stored
    /\ \A x \in stored : IF x < m THEN age[x] >= a ELSE age[x] <= a
    /\ stored' = stored \cup {m}
    /\ age' = [age EXCEPT ![m] = a]
    /\ UNCHANGED <<marked, answered, silenced, conv, openEsc, lastOut,
                   attempts, stalls, lock, pc, turn, faults>>

RecordText(m) ==
    /\ m \in Text /\ conv # "CLOSED"
    /\ \E a \in 0..2 : RowStored(m, a)
    /\ Enqueue(m)
    /\ UNCHANGED media

RecordMedia(m) ==
    /\ m \in Audio \cup Docs /\ conv # "CLOSED"
    /\ \E a \in 0..2 : RowStored(m, a)
    /\ \E state \in {"processing", "captioned"} :
         /\ m \in Audio => state = "processing"
         /\ media' = [media EXCEPT ![m] = state]
    /\ UNCHANGED jobs

(* VoiceReceptionist.createEscalation, during a call: an escalation on top *)
(* of whatever is open, and the conversation is HUMAN_REQUIRED whatever it *)
(* was.                                                                    *)
CallEscalates(m) ==
    /\ m \in Calls \ stored
    /\ openEsc < MostEscalations
    /\ openEsc' = openEsc + 1
    /\ conv' = "HUMAN_REQUIRED"
    /\ UNCHANGED <<stored, media, age, marked, answered, silenced, lastOut,
                   queueVars, lock, pc, turn, faults>>

(* VoiceCallService.complete writes an INBOUND row for the call: no event. *)
RecordCall(m) ==
    /\ m \in Calls
    /\ \E a \in 0..2 : RowStored(m, a)
    /\ UNCHANGED <<media, jobs>>

(* Time passes; the order of creation is the order of age.                 *)
GrowOlder(m) ==
    /\ m \in stored /\ age[m] < 2
    /\ \A x \in stored : x < m => age[x] > age[m]
    /\ age' = [age EXCEPT ![m] = @ + 1]
    /\ UNCHANGED <<stored, media, marked, answered, silenced, conv, openEsc,
                   lastOut, queueVars, lock, pc, turn, faults>>

(* WhatsappMediaProcessor.process on a voice note: the transcript and the  *)
(* event commit together.  The payload is the copy read when the job       *)
(* started, so a completion marker written meanwhile is overwritten.       *)
Transcribe(m) ==
    /\ m \in Audio /\ media[m] = "processing"
    /\ media' = [media EXCEPT ![m] = "ready"]
    /\ marked' = marked \ {m}
    /\ Enqueue(m)
    /\ UNCHANGED <<stored, age, answered, silenced, conv, openEsc, lastOut,
                   attempts, stalls, lock, pc, turn, faults>>

(* storeAsDocument, first transaction: the row gets its path.              *)
FileDocument(m) ==
    /\ m \in Docs /\ media[m] \in {"processing", "captioned"}
    /\ media' = [media EXCEPT ![m] = "filed"]
    /\ UNCHANGED <<stored, age, marked, answered, silenced, conv, openEsc,
                   lastOut, queueVars, lock, pc, turn, faults>>

(* ... then either the AI event in a transaction of its own ...            *)
DocumentToAi(m) ==
    /\ media[m] = "filed"
    /\ media' = [media EXCEPT ![m] = "ready"]
    /\ Enqueue(m)
    /\ UNCHANGED <<stored, age, marked, answered, silenced, conv, openEsc,
                   lastOut, attempts, stalls, lock, pc, turn, faults>>

(* ... or, when it is a payment proof or fulfils a document request, no    *)
(* event at all; a fulfilled request is acknowledged with "Received, thank *)
(* you." (an OUTBOUND row), unless that send fails, which is logged.       *)
DocumentIsExpected(m) ==
    /\ media[m] = "filed"
    /\ media' = [media EXCEPT ![m] = "ready"]
    /\ silenced' = silenced \cup {m}
    /\ lastOut' \in {lastOut} \cup NewerThan(stored)
    /\ UNCHANGED <<stored, age, marked, answered, conv, openEsc, queueVars,
                   lock, pc, turn, faults>>

(* The media job used up its attempts, or found no WhatsApp connection: the*)
(* row stays without a path, and without a body unless it had a caption.   *)
MediaFails(m) ==
    /\ Happens("media")
    /\ media[m] \in {"processing", "captioned"}
    /\ media' = [media EXCEPT ![m] = IF @ = "processing" THEN "failed" ELSE "none"]
    /\ UNCHANGED <<stored, age, marked, answered, silenced, conv, openEsc,
                   lastOut, queueVars, lock, pc, turn>>

(* The same event enqueued again: a media job retried after its commit, or *)
(* an outbox row dispatched twice once BullMQ forgot the first job.        *)
DuplicateEvent(j) ==
    /\ Happens("duplicate")
    /\ j[2] > 1 /\ jobs[j] = "none" /\ jobs[<<j[1], 1>>] # "none"
    /\ jobs' = [jobs EXCEPT ![j] = "waiting"]
    /\ UNCHANGED <<inboxVars, attempts, stalls, lock, pc, turn>>

-----------------------------------------------------------------------------
(* The queue and the lease                                                 *)

(* BullMQ hands a waiting (or due delayed) job to a free worker slot.      *)
Claim(w, j) ==
    /\ pc[w] = "idle" /\ jobs[j] = "waiting"
    /\ jobs' = [jobs EXCEPT ![j] = "active"]
    /\ pc' = [pc EXCEPT ![w] = "lock"]
    /\ turn' = [turn EXCEPT ![w] = [IdleTurn EXCEPT !.job = j]]
    /\ UNCHANGED <<inboxVars, attempts, stalls, lock, faults>>

(* withLock: SET NX PX answered OK.                                        *)
Acquire(w) ==
    /\ pc[w] = "lock" /\ lock = NoWorker
    /\ lock' = w
    /\ pc' = [pc EXCEPT ![w] = "load"]
    /\ turn' = [turn EXCEPT ![w].lease = "held"]
    /\ UNCHANGED <<inboxVars, queueVars, faults>>

(* withLock: another turn holds the key; AiEventHandler throws RetryLater. *)
Busy(w) ==
    /\ pc[w] = "lock" /\ lock # NoWorker
    /\ pc' = [pc EXCEPT ![w] = "settle"]
    /\ turn' = [turn EXCEPT ![w].result = "later"]
    /\ UNCHANGED <<inboxVars, queueVars, lock, faults>>

(* withLock: Redis is unreachable, the turn runs without a lease.          *)
RunUnlocked(w) ==
    /\ Happens("redis")
    /\ pc[w] = "lock"
    /\ pc' = [pc EXCEPT ![w] = "load"]
    /\ turn' = [turn EXCEPT ![w].lease = "unlocked"]
    /\ UNCHANGED <<inboxVars, queueVars, lock>>

(* The turn that owns the lease is still running: it has lapsed under it.  *)
InTurn(w) == pc[w] \notin {"idle", "lock", "settle"}

LeaseLapses(w) ==
    /\ Happens("lapse")
    /\ lock = w /\ InTurn(w) /\ turn[w].lease = "held"
    /\ lock' = NoWorker
    /\ turn' = [turn EXCEPT ![w].lease = "lapsed"]
    /\ UNCHANGED <<inboxVars, queueVars, pc>>

(* Seeded bug: the key is set without PX, only an absent lease is gone.    *)
LeaseWithoutTtl == lock = NoWorker /\ UNCHANGED vars

(* A lease nobody is behind any more (crash, failed release) expires.      *)
LeaseExpires ==
    /\ lock # NoWorker
    /\ ~(InTurn(lock) /\ turn[lock].lease = "held")
    /\ lock' = NoWorker
    /\ UNCHANGED <<inboxVars, queueVars, pc, turn, faults>>

(* Seeded bug: the key is deleted without comparing the token.             *)
ReleaseAlways(w) == IF turn[w].lease # "unlocked" THEN NoWorker ELSE lock

(* Compare-and-delete: only the holder of the token deletes the key.  A    *)
(* turn that ran unlocked has nothing to release.                          *)
ReleasedLock(w) ==
    IF turn[w].lease # "unlocked" /\ lock = w THEN NoWorker ELSE lock

Release(w) ==
    /\ pc[w] = "release"
    /\ lock' = ReleasedLock(w)
    /\ pc' = [pc EXCEPT ![w] = "settle"]
    /\ turn' = [turn EXCEPT ![w].lease = "none"]
    /\ UNCHANGED <<inboxVars, queueVars, faults>>

(* The release itself fails: it is logged and the lease is left to expire. *)
ReleaseFails(w) ==
    /\ Happens("redis")
    /\ pc[w] = "release"
    /\ pc' = [pc EXCEPT ![w] = "settle"]
    /\ turn' = [turn EXCEPT ![w].lease = "none"]
    /\ UNCHANGED <<inboxVars, queueVars, lock>>

(* Seeded bug: a RetryLater counts as success.                             *)
JobAfterSwallowing(j, result) ==
    IF result \in {"done", "later"} THEN "done"
    ELSE IF result = "retry" /\ attempts[j] + 1 < MaxAttempts THEN "waiting"
    ELSE "failed"

(* DomainEventsDispatcher.process: RetryLater is moved to delayed and burns*)
(* no attempt; a nonRetryable error is terminal; others retry until the    *)
(* attempts are used up and the job stays in the failed set.               *)
JobAfter(j, result) ==
    CASE result = "done"  -> "done"
      [] result = "later" -> "waiting"
      [] result = "dead"  -> "failed"
      [] OTHER -> IF attempts[j] + 1 < MaxAttempts THEN "waiting" ELSE "failed"

Settle(w) ==
    LET j == turn[w].job
        result == turn[w].result
    IN  /\ pc[w] = "settle"
        /\ jobs' = [jobs EXCEPT ![j] = JobAfter(j, result)]
        /\ attempts' = [attempts EXCEPT ![j] =
                           CASE result = "retry" -> @ + 1
                             [] result = "dead"  -> MaxAttempts
                             [] OTHER -> @]
        /\ pc' = [pc EXCEPT ![w] = "idle"]
        /\ turn' = [turn EXCEPT ![w] = IdleTurn]
        /\ UNCHANGED <<inboxVars, stalls, lock, faults>>

(* The worker process dies: its job is left active in Redis, its lease is  *)
(* left to expire and its open transaction, if any, is rolled back.        *)
Crash(w) ==
    /\ Happens("crash")
    /\ pc[w] # "idle"
    /\ jobs' = [jobs EXCEPT ![turn[w].job] = "stalled"]
    /\ pc' = [pc EXCEPT ![w] = "idle"]
    /\ turn' = [turn EXCEPT ![w] = IdleTurn]
    /\ UNCHANGED <<inboxVars, attempts, stalls, lock>>

(* BullMQ's stalled check: one recovery, then the job fails                *)
(* (maxStalledCount is left at its default of 1).                          *)
RecoverStalled(j) ==
    /\ jobs[j] = "stalled"
    /\ stalls' = [stalls EXCEPT ![j] = 1]
    /\ jobs' = [jobs EXCEPT ![j] = IF stalls[j] = 0 THEN "waiting" ELSE "failed"]
    /\ UNCHANGED <<inboxVars, attempts, lock, pc, turn, faults>>

-----------------------------------------------------------------------------
(* The turn, up to the decision                                            *)

(* Seeded bug: the completion marker is not looked at.                     *)
LoadIgnoringMarker(w) ==
    /\ pc[w] = "load"
    /\ Goto(w, "burst")
    /\ UNCHANGED <<inboxVars, queueVars, lock, faults>>

(* loadInboundTurn, then isTurnCompleted: a retried or duplicated event of *)
(* a message that has its answer ends here.                                *)
Load(w) ==
    /\ pc[w] = "load"
    /\ IF Trigger(w) \in marked THEN End(w, "done") ELSE Goto(w, "burst")
    /\ UNCHANGED <<inboxVars, queueVars, lock, faults>>

IsNewest(w) == \A m \in Window(w) : m <= Trigger(w)

(* planBurstTurn: something newer is pending, it will answer this one too. *)
BurstSkip(w) ==
    /\ pc[w] = "burst"
    /\ Trigger(w) \in Window(w) /\ ~IsNewest(w)
    /\ End(w, "done")
    /\ UNCHANGED <<inboxVars, queueVars, lock, faults>>

(* planBurstTurn: within maxWaitMs of the oldest pending message the newest*)
(* one waits for silence and for earlier attachments.                      *)
MustWait(w) ==
    /\ Trigger(w) \in Window(w) /\ IsNewest(w)
    /\ \A m \in Window(w) : age[m] < 2
    /\ \/ age[Trigger(w)] = 0
       \/ \E m \in Window(w) : Processing(m) /\ m # Trigger(w)

BurstWait(w) ==
    /\ pc[w] = "burst"
    /\ MustWait(w)
    /\ End(w, "later")
    /\ UNCHANGED <<inboxVars, queueVars, lock, faults>>

(* planBurstTurn: a trigger outside the window is answered alone, else the *)
(* whole window.  An attachment still processing adds no text: the turn    *)
(* marks it, but says nothing about it.                                    *)
BurstAnswer(w) ==
    /\ pc[w] = "burst"
    /\ Trigger(w) \in Window(w) => IsNewest(w) /\ ~MustWait(w)
    /\ LET ans == IF Trigger(w) \in Window(w) THEN Window(w) ELSE {Trigger(w)}
       IN  turn' = [turn EXCEPT ![w].ans = ans,
                                ![w].said = {m \in ans : ~Processing(m)}]
    /\ pc' = [pc EXCEPT ![w] = "route"]
    /\ UNCHANGED <<inboxVars, queueVars, lock, faults>>

(* The intercepts answer a payment-details, appointment or document ask    *)
(* with a message of their own, whatever the conversation's state.  Payment*)
(* details and a booking's confirmation go out first and the inbound row is*)
(* tagged after; a slot offer, a document ask and the apologies are tagged *)
(* first and sent after ("offer").                                         *)
Intercept(w, plan) ==
    /\ pc[w] = "route"
    /\ plan \in SendsFirst \cup {"offer"}
    /\ turn' = [turn EXCEPT ![w].plan = plan, ![w].left = 1, ![w].medium = "text"]
    /\ pc' = [pc EXCEPT ![w] = IF plan \in SendsFirst THEN "send" ELSE "tag"]
    /\ UNCHANGED <<inboxVars, queueVars, lock, faults>>

NoIntercept(w) ==
    /\ pc[w] = "route"
    /\ Goto(w, "read")
    /\ UNCHANGED <<inboxVars, queueVars, lock, faults>>

(* tagInboundIntent and its kin rewrite the payload from the copy taken by *)
(* loadInboundTurn, which carried no completion marker.                    *)
Tag(w) ==
    /\ pc[w] = "tag"
    /\ marked' = marked \ {Trigger(w)}
    /\ Goto(w, IF turn[w].plan \in SendsFirst THEN "mark" ELSE "send")
    /\ UNCHANGED <<stored, media, age, answered, silenced, conv, openEsc,
                   lastOut, queueVars, lock, faults>>

(* Phase 1: the message row is read again, with its payload.               *)
Read(w) ==
    /\ pc[w] = "read"
    /\ turn' = [turn EXCEPT ![w].seen = Trigger(w) \in marked]
    /\ pc' = [pc EXCEPT ![w] = "fresh"]
    /\ UNCHANGED <<inboxVars, queueVars, lock, faults>>

(* Phase 1 finds AI_MAX_REPLIES_PER_HOUR used up: staff take over.         *)
CeilingReached(w) ==
    /\ pc[w] = "read"
    /\ silenced' = silenced \cup turn[w].said
    /\ Goto(w, "mark")
    /\ UNCHANGED <<stored, media, age, marked, answered, conv, openEsc,
                   lastOut, queueVars, lock, faults>>

(* Phase 3 opens after the models have answered: the reads of its          *)
(* transaction, conversation state and open escalation.                    *)
ReadFresh(w) ==
    /\ pc[w] = "fresh"
    /\ turn' = [turn EXCEPT ![w].fresh = conv, ![w].esc = openEsc > 0]
    /\ pc' = [pc EXCEPT ![w] = "write"]
    /\ UNCHANGED <<inboxVars, queueVars, lock, faults>>

(* Phase 3 rewrites the trigger's payload from the copy of Phase 1.        *)
PayloadWritten(w) ==
    marked' = IF turn[w].seen THEN marked \cup {Trigger(w)} ELSE marked \ {Trigger(w)}

(* shouldSendAiReply: silent without text, when closed, under a takeover.  *)
MaySend(w, hasText) == hasText /\ turn[w].fresh \notin {"CLOSED", "HUMAN_ACTIVE"}

(* Seeded bug: the open escalation is not looked at.                       *)
RaisesAlways(w, escalation) == escalation # "none"

(* Phase 3 opens an escalation unless one is open.                         *)
Raises(w, escalation) == escalation # "none" /\ ~turn[w].esc

(* Messages a turn sends: one voice note, one intercept, or the bubbles of *)
(* a written reply.                                                        *)
Parts(plan, medium) ==
    IF medium = "voice" \/ plan \in SendsFirst \cup {"offer"} THEN 1 ELSE Bubbles

(* The turn goes on with only what it was made for: messages and a plan.   *)
Proceed(w, where, plan, medium, left) ==
    /\ pc' = [pc EXCEPT ![w] = where]
    /\ turn' = [turn EXCEPT ![w] = [IdleTurn EXCEPT
                   !.job = turn[w].job, !.lease = turn[w].lease,
                   !.ans = turn[w].ans, !.said = turn[w].said,
                   !.plan = plan, !.medium = medium, !.left = left]]

(* sendAiReply starts: spoken or written, as settings and message ask.     *)
Deliver(w, plan, medium) == Proceed(w, "send", plan, medium, Parts(plan, medium))

(* Nothing to send: the turn completes.                                    *)
Complete(w) == Proceed(w, "mark", "none", "text", 0)

(* The writes every outcome of Phase 3 makes: payload and escalation.      *)
Phase3(w, escalation) ==
    /\ pc[w] = "write"
    /\ PayloadWritten(w)
    /\ openEsc' = IF Raises(w, escalation) THEN openEsc + 1 ELSE openEsc
    /\ UNCHANGED <<stored, media, age, queueVars, lock, faults>>

(* A hard handoff is announced to the client whatever the fresh state says.*)
HardHandoff(w) ==
    /\ Raises(w, "hard")
    /\ Phase3(w, "hard")
    /\ conv' = "HUMAN_REQUIRED"
    /\ \E medium \in {"text", "voice"} : Deliver(w, "handoff", medium)
    /\ UNCHANGED <<answered, silenced, lastOut>>

(* kind 'none': the send policy says no, the turn is over without a reply. *)
StaySilent(w) ==
    /\ \E escalation \in {"none", "soft"} : Phase3(w, escalation)
    /\ \E hasText \in BOOLEAN : ~MaySend(w, hasText)
    /\ silenced' = silenced \cup turn[w].said
    /\ Complete(w)
    /\ UNCHANGED <<answered, conv, lastOut>>

(* Approval is on: the answer waits as a draft, which is an OUTBOUND row.  *)
QueueDraft(w) ==
    /\ \E escalation \in {"none", "soft"} : Phase3(w, escalation)
    /\ MaySend(w, TRUE)
    /\ answered' = [m \in Msg |-> IF m \in turn[w].said THEN answered[m] + 1
                                                        ELSE answered[m]]
    /\ lastOut' \in NewerThan(stored)
    /\ Complete(w)
    /\ UNCHANGED <<silenced, conv>>

(* The reply goes out after the commit; an AI reply takes a conversation   *)
(* that was waiting for a person back to the AI.                           *)
Reply(w) ==
    /\ \E escalation \in {"none", "soft"} : Phase3(w, escalation)
    /\ MaySend(w, TRUE)
    /\ conv' = IF turn[w].fresh = "HUMAN_REQUIRED" THEN "AI_ACTIVE" ELSE conv
    /\ \E medium \in {"text", "voice"} : Deliver(w, "reply", medium)
    /\ UNCHANGED <<answered, silenced, lastOut>>

-----------------------------------------------------------------------------
(* The turn, from the first send to the completion marker                  *)

(* postMessage returned: the client has this part of the answer.           *)
SendAccepted(w) ==
    /\ pc[w] = "send"
    /\ answered' = IF turn[w].left = Parts(turn[w].plan, turn[w].medium)
                     THEN [m \in Msg |-> IF m \in turn[w].said THEN answered[m] + 1
                                                               ELSE answered[m]]
                     ELSE answered
    /\ turn' = [turn EXCEPT ![w].at = stored]
    /\ pc' = [pc EXCEPT ![w] = "row"]
    /\ UNCHANGED <<stored, media, age, marked, silenced, conv, openEsc, lastOut,
                   queueVars, lock, faults>>

(* A failing voice note falls back to text in the same turn.               *)
FallBackToText(w) ==
    /\ turn[w].medium = "voice"
    /\ Deliver(w, turn[w].plan, "text")

(* tryAppointmentIntercept catches whatever book throws, its confirmation  *)
(* included: the row is tagged and an apology or an offer goes out instead.*)
Apologise(w) ==
    /\ turn[w].plan = "booking"
    /\ Proceed(w, "tag", "offer", "text", 1)

(* Nobody catches what happens to a text that is not a confirmation.       *)
Uncaught(w) == turn[w].medium = "text" /\ turn[w].plan # "booking"

(* Seeded bug: a refused text is logged and the turn completes anyway.     *)
SendRefusalSwallowed(w) ==
    /\ Happens("reject")
    /\ pc[w] = "send"
    /\ \/ FallBackToText(w)
       \/ Apologise(w)
       \/ Uncaught(w) /\ Goto(w, "mark")
    /\ UNCHANGED <<inboxVars, queueVars, lock>>

(* The provider refuses, the session window is closed, or the connection is*)
(* gone: voice falls back, a booking is apologised for, any other text     *)
(* throws (a permanent refusal kills the job).                             *)
SendRejected(w) ==
    /\ Happens("reject")
    /\ pc[w] = "send"
    /\ \/ FallBackToText(w)
       \/ Apologise(w)
       \/ Uncaught(w) /\ (Throw(w) \/ End(w, "dead"))
    /\ UNCHANGED <<inboxVars, queueVars, lock>>

(* Seeded bug: the bubble loop runs once too often.                        *)
AfterRowOffByOne(w) ==
    CASE turn[w].left > 0 -> "send"
      [] turn[w].plan \in SendsFirst -> "tag"
      [] turn[w].plan = "offer" -> "mark"
      [] OTHER -> "event"

(* The next bubble, or what follows the last one.                          *)
AfterRow(w) ==
    CASE turn[w].left > 1 -> "send"
      [] turn[w].left <= 1 /\ turn[w].plan \in SendsFirst -> "tag"
      [] turn[w].left <= 1 /\ turn[w].plan = "offer" -> "mark"
      [] OTHER -> "event"

(* SendService commits the OUTBOUND row, stamped when WhatsApp answered.   *)
RecordSent(w) ==
    /\ pc[w] = "row"
    /\ lastOut' \in NewerThan(turn[w].at)
    /\ turn' = [turn EXCEPT ![w].left = @ - 1, ![w].at = {}]
    /\ pc' = [pc EXCEPT ![w] = AfterRow(w)]
    /\ UNCHANGED <<stored, media, age, marked, answered, silenced, conv, openEsc,
                   queueVars, lock, faults>>

(* sendAiReply appends AiReplySent in a transaction of its own.            *)
AppendReplySent(w) ==
    /\ pc[w] = "event"
    /\ Goto(w, "mark")
    /\ UNCHANGED <<inboxVars, queueVars, lock, faults>>

(* A transaction fails after WhatsApp took the message: the row's, the     *)
(* event's, the booking's, or the tag of an intercept that sent first.     *)
FailsAfterSend(w) ==
    /\ Happens("commit")
    /\ pc[w] \in {"row", "event"} \/ (pc[w] = "tag" /\ turn[w].plan \in SendsFirst)
    /\ \/ FallBackToText(w)
       \/ Apologise(w)
       \/ (Uncaught(w) \/ pc[w] = "tag") /\ Throw(w)
    /\ UNCHANGED <<inboxVars, queueVars, lock>>

(* Seeded bug: only the message of the event gets the marker.              *)
MarkTriggerOnly(w) ==
    /\ pc[w] = "mark"
    /\ marked' = marked \cup {Trigger(w)}
    /\ End(w, "done")
    /\ UNCHANGED <<stored, media, age, answered, silenced, conv, openEsc,
                   lastOut, queueVars, lock, faults>>

(* markTurnCompleted: every message the turn answered, in one transaction. *)
Mark(w) ==
    /\ pc[w] = "mark"
    /\ marked' = marked \cup turn[w].ans
    /\ End(w, "done")
    /\ UNCHANGED <<stored, media, age, answered, silenced, conv, openEsc,
                   lastOut, queueVars, lock, faults>>

(* ... whose failure is logged and swallowed.                              *)
MarkFails(w) ==
    /\ Happens("mark")
    /\ pc[w] = "mark"
    /\ End(w, "done")
    /\ UNCHANGED <<inboxVars, queueVars, lock>>

(* A transaction, retrieval or the escalation detector throws before       *)
(* anything was sent; a transaction of the turn is rolled back.            *)
TurnThrows(w) ==
    /\ Happens("throw")
    /\ \/ pc[w] \in {"load", "burst", "route", "read", "fresh", "write"}
       \/ pc[w] = "tag" /\ turn[w].plan = "offer"
    /\ Throw(w)
    /\ UNCHANGED <<inboxVars, queueVars, lock>>

-----------------------------------------------------------------------------
(* Staff, and everything else that writes to the client                    *)

(* InboxService.transitionState: any state to any other.                   *)
StaffTransition(state) ==
    /\ Happens("staff")
    /\ conv # state
    /\ conv' = state
    /\ UNCHANGED <<stored, media, age, marked, answered, silenced, openEsc,
                   lastOut, queueVars, lock, pc, turn>>

(* EscalationsService.acknowledge or resolve: an OPEN row leaves OPEN.     *)
StaffClearsEscalation ==
    /\ Happens("staff")
    /\ openEsc > 0
    /\ openEsc' = openEsc - 1
    /\ UNCHANGED <<stored, media, age, marked, answered, silenced, conv,
                   lastOut, queueVars, lock, pc, turn>>

(* Inbox replies, reminders, receipts, fee messages: an OUTBOUND row that  *)
(* no AI turn wrote.                                                       *)
OutboundElsewhere ==
    /\ Happens("outbound")
    /\ lastOut' \in NewerThan(stored)
    /\ lastOut' # lastOut
    /\ UNCHANGED <<stored, media, age, marked, answered, silenced, conv,
                   openEsc, queueVars, lock, pc, turn>>

-----------------------------------------------------------------------------
Init ==
    /\ stored = {} /\ marked = {} /\ silenced = {}
    /\ media = [m \in Msg |-> "none"]
    /\ age = [m \in Msg |-> 0]
    /\ answered = [m \in Msg |-> 0]
    /\ conv = "AI_ACTIVE"
    /\ openEsc = 0 /\ lastOut = 0
    /\ jobs = [j \in Job |-> "none"]
    /\ attempts = [j \in Job |-> 0]
    /\ stalls = [j \in Job |-> 0]
    /\ lock = NoWorker
    /\ pc = [w \in Workers |-> "idle"]
    /\ turn = [w \in Workers |-> IdleTurn]
    /\ faults = [count |-> 0, lasting |-> {}]

Client(m) == RecordText(m) \/ RecordMedia(m) \/ CallEscalates(m) \/ RecordCall(m)

MediaPipeline(m) ==
    Transcribe(m) \/ FileDocument(m) \/ DocumentToAi(m) \/ DocumentIsExpected(m)

(* What a live worker does next with its job.                              *)
TurnStep(w) ==
    \/ Acquire(w) \/ Busy(w) \/ Load(w)
    \/ BurstSkip(w) \/ BurstWait(w) \/ BurstAnswer(w)
    \/ (\E plan \in SendsFirst \cup {"offer"} : Intercept(w, plan))
    \/ NoIntercept(w) \/ Tag(w)
    \/ Read(w) \/ CeilingReached(w) \/ ReadFresh(w)
    \/ HardHandoff(w) \/ StaySilent(w) \/ QueueDraft(w) \/ Reply(w)
    \/ SendAccepted(w) \/ RecordSent(w) \/ AppendReplySent(w) \/ Mark(w)
    \/ Release(w) \/ Settle(w)

(* What may go wrong with it instead.                                      *)
TurnFault(w) ==
    \/ RunUnlocked(w) \/ LeaseLapses(w) \/ TurnThrows(w) \/ SendRejected(w)
    \/ FailsAfterSend(w) \/ MarkFails(w) \/ ReleaseFails(w) \/ Crash(w)

Staff ==
    \/ \E state \in ConvState : StaffTransition(state)
    \/ StaffClearsEscalation

Next ==
    \/ \E m \in Msg : Client(m) \/ GrowOlder(m) \/ MediaPipeline(m) \/ MediaFails(m)
    \/ \E j \in Job : DuplicateEvent(j) \/ RecoverStalled(j)
    \/ \E w \in Workers, j \in Job : Claim(w, j)
    \/ \E w \in Workers : TurnStep(w) \/ TurnFault(w)
    \/ LeaseExpires \/ Staff \/ OutboundElsewhere

Spec == Init /\ [][Next]_vars

(* What goes on by itself around the workers: time passes, media jobs run, *)
(* BullMQ finds stalled jobs, Redis expires keys.                          *)
Background ==
    \/ \E m \in Msg : GrowOlder(m) \/ MediaPipeline(m)
    \/ \E j \in Job : RecoverStalled(j)
    \/ LeaseExpires

(* The background never stops for good (each of its parts has only so much *)
(* to do), a live process takes its next step, and BullMQ hands out a job  *)
(* that is waiting again and again.  The client, the staff and every       *)
(* failure stay free to do nothing.                                        *)
Fairness ==
    /\ WF_vars(Background)
    /\ \A j \in Job : SF_vars(\E w \in Workers : Claim(w, j))
    /\ \A w \in Workers : WF_vars(TurnStep(w))

FairSpec == Spec /\ Fairness

-----------------------------------------------------------------------------
(* Properties                                                              *)

(* Every variable holds what the code could store in it.                   *)
TypeOK ==
    /\ stored \subseteq Msg /\ marked \subseteq Msg /\ silenced \subseteq Msg
    /\ media \in [Msg -> MediaState]
    /\ age \in [Msg -> 0..2]
    /\ answered \in [Msg -> Nat]
    /\ conv \in ConvState /\ openEsc \in Nat /\ lastOut \in 0..N
    /\ jobs \in [Job -> JobState]
    /\ attempts \in [Job -> Nat]
    /\ stalls \in [Job -> 0..1]
    /\ lock \in Workers \cup {NoWorker}
    /\ pc \in [Workers -> Pc]
    /\ turn \in [Workers -> Turn]
    /\ faults \in [count : 0..MaxFaults, lasting : SUBSET Lasting]

(* resource-lock.service.ts: as long as its lease has not expired, a turn  *)
(* owns the key, however many late releases of earlier turns come in; two  *)
(* turns of one conversation overlap only when a lease expired under one or*)
(* Redis was unreachable.                                                  *)
LeaseExclusion ==
    \A w \in Workers : InTurn(w) /\ turn[w].lease = "held" => lock = w

(* ai-orchestrator.service.ts: a message's content is answered at most     *)
(* once, over every burst that contains it, every retry of its event and   *)
(* every event of the messages around it.                                  *)
OneAnswer == \A m \in Msg : answered[m] <= 1

(* resource-lock.service.ts names the race to create the same escalation:  *)
(* as long as no lease has run out and none was skipped, the turns of a    *)
(* conversation without voice calls leave at most one OPEN, whatever staff *)
(* do meanwhile.  The receptionist of a call does not look for one.        *)
OneOpenEscalation ==
    Calls = {} /\ Never({"lapse", "redis"}) => openEsc <= 1

(* markTurnCompleted: the marker, which makes every later event of the     *)
(* message a no-op, is only on messages whose answer WhatsApp (or the draft*)
(* queue) has, or that a turn chose to leave unanswered.                   *)
MarkMeansDone ==
    \A m \in marked : answered[m] > 0 \/ m \in silenced \/ Processing(m)

(* Nothing more will happen to message m by itself.                        *)
Settled(m) == answered[m] > 0 \/ m \in silenced

Live(j) == jobs[j] \in {"waiting", "active", "stalled"}

(* planBurstTurn skips a message because a newer one will answer it: when  *)
(* the queue is empty and no media is in flight, no message with a row was *)
(* left over, unless its own or a newer message's job failed.              *)
NothingDropped ==
    (\A j \in Job : ~Live(j)) /\ (\A m \in Msg : media[m] \notin {"processing", "captioned", "filed"})
       => \A m \in stored \cap Text :
            Settled(m) \/ \E j \in Job : j[1] >= m /\ jobs[j] = "failed"

(* No OUTBOUND row is newer, no turn has completed it: resolveBurst finds it*)
(* whenever a turn of a newer message, or its own, asks.                   *)
Pending(m) == m \in stored \ marked /\ m > lastOut

(* planBurstTurn: "a newer message in this burst will answer it".  At every*)
(* moment, whatever staff write, turns throw and processes die, a pending  *)
(* message has a job, its own or a newer one's, that is still to come or   *)
(* has failed for good.  Of conversations of texts that fit one burst, as  *)
(* long as leases and markers hold; a media row has no event to rely on.   *)
PendingHasATurn ==
    Text = Msg /\ N <= MaxMessages /\ Never({"lapse", "redis", "mark"}) =>
      \A m \in Msg : Pending(m) => \E j \in Job : j[1] >= m /\ (Live(j) \/ jobs[j] = "failed")

(* The event of every message comes to an end, answered, skipped or failed:*)
(* no crash, lapsed or orphaned lease, deferral or retry leaves it going   *)
(* round for ever, so the conversation's queue is empty again and again.   *)
QueueDrains == []<>(\A j \in Job : ~Live(j))

(* ai-orchestrator.service.ts Phase 3: only staff take a conversation out  *)
(* of a takeover.                                                          *)
TakeoverHolds ==
    [][conv = "HUMAN_ACTIVE" /\ conv' # conv =>
          \E state \in ConvState : StaffTransition(state)]_vars

-----------------------------------------------------------------------------
(* What the client sees of all this: each message answered at most once.   *)
Desk == INSTANCE FrontDesk WITH
            Msg <- Msg,
            received <- stored,
            replies <- answered,
            left <- silenced

ImplementsFrontDesk == Desk!Spec
=============================================================================
