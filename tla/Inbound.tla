------------------------------ MODULE Inbound -------------------------------
(***************************************************************************)
(* From the webhook to the inbox: how the messages of one client become    *)
(* rows, conversations, filed documents and AI events.                     *)
(*                                                                         *)
(* An API replica takes a delivery of Meta (webhook-ingest.service.ts: raw *)
(* event first, then the queue) or of Evolution (evolution-webhook-        *)
(* ingest.service.ts: the queue alone).  A worker records the message in   *)
(* one transaction (messages.service.ts) that also adds the media job, in  *)
(* Redis, before it commits.  The media worker (whatsapp-media.processor.ts*)
(* with documents, document-requests and payment-instruction services)     *)
(* transcribes or files and decides who hears of it.                       *)
(*                                                                         *)
(* Every await between two transactions, queues or services is a step.     *)
(* A call of the client, too, opens a conversation (voice-call.service.ts).*)
(* Abstracted: contents, signatures, routes and phone numbers (they are    *)
(* valid), tenant settings other than auto-reply, and the order in which   *)
(* several requests or payments of a client are looked at (there is one).  *)
(* Two first messages without a name, at once, where the second's INSERT   *)
(* of the client fails on the unique phone number: that is an `abort`.     *)
(***************************************************************************)
EXTENDS Integers, FiniteSets

CONSTANTS
    Message,      \* messages the client sends
    Meta,         \* those delivered by Meta; Evolution delivers the others
    Voice,        \* the voice notes among them
    Photo, File,  \* images and other documents
    Caller,       \* owner of the lock a call's transaction holds
    Hooks,        \* webhook requests that may be open at once
    Workers,      \* slots of the inbound worker, over all replicas
    Nobody,       \* no message, and the owner of a lock nobody holds
    MaxSends,     \* bound on the deliveries of one message
    MaxConvs,     \* bound on the conversations of the client
    MaxAttempts,  \* BullMQ `attempts` of both queues (5 in the code)
    Env,          \* what may go wrong in this instance
    MaxFaults,    \* bound on the failures of one behaviour
    MaxMoves      \* bound on what staff do in one behaviour

Media == Voice \cup Photo \cup File
Conv == 1..MaxConvs
EnvKinds == {"hook",   \* a webhook dies, or Redis refuses its add
             "abort",  \* the transaction of recordInbound fails
             "crash",  \* a worker process dies with its job
             "offline",\* the firm has no WhatsApp connection for a moment
             "media",  \* a download, upload or transaction of a media job fails
             "swallow",\* an error the media job logs and ignores
             "trim"}   \* removeOnComplete forgets an inbound job

ASSUME InboundParameters ==
    /\ Meta \subseteq Message /\ Media \subseteq Message
    /\ Voice \cap (Photo \cup File) = {} /\ Photo \cap File = {}
    /\ Nobody \notin Workers \cup Message /\ Caller \notin Workers \cup {Nobody}
    /\ MaxSends \in Nat /\ MaxConvs \in Nat \ {0} /\ MaxAttempts \in Nat \ {0}
    /\ Env \subseteq EnvKinds /\ MaxFaults \in Nat /\ MaxMoves \in Nat

VARIABLES
    sends,     \* deliveries of each message so far
    hook,      \* the message each open webhook request is about to enqueue
    acked,     \* messages a webhook answered 200 for
    raw,       \* platform.webhook_events, by message
    inbox,     \* the inbound job of each message
    at,        \* where each inbound worker is
    named,     \* messages that carry the client's display name
    known,     \* is there a row of the client?
    lock,      \* whose transaction wrote the client row
    rows,      \* rows of each message in `messages`
    conv,      \* state of the client's conversations
    own,       \* history: those a named message opened and nobody closed since
    ring,      \* a call's transaction that found no open conversation
    autoReply, \* tenants.settings.aiAutoReplyEnabled
    media,     \* the media job of each message
    work,      \* where that job is
    stray,     \* messages whose media job names a row that was rolled back
    docs,      \* documents filed for each message
    outcome,   \* what became of each media message
    event,     \* messages with a message.inbound.received event
    request,   \* the document request the firm made of the client
    payment,   \* the client's open payment
    moves,     \* what staff have done so far
    faults     \* failures so far

hookVars == <<sends, hook, acked, raw>>
clientVars == <<named, known, own, ring>>
recordVars == <<inbox, at, lock, rows, conv, clientVars>>
mediaVars == <<media, work, stray, docs, outcome>>
deskVars == <<request, payment, moves>>
vars == <<hookVars, recordVars, mediaVars, deskVars, event, autoReply, faults>>

JobState == {"none", "waiting", "active", "done", "failed"}
RecordStep == {"idle", "upsert", "add", "commit", "finish"}
MediaStep == {"idle", "transcribe", "search", "upload", "fulfil",
              "mark", "file", "attach", "thank", "route"}
ConvState == {"none", "OPEN", "CLOSED"}  \* OPEN: one of the three open states
Outcome == {"missed",  \* the job found no message row of its id
            "offline", \* the job found no WhatsApp connection of the firm
            "event",   \* the AI hears of it
            "proof",   \* attached to the open payment
            "ack"}     \* fulfilled a request; the client was thanked
RequestState == {"none", "PENDING", "FULFILLED", "CANCELLED"}
PaymentState == {"none", "open", "settled"}

Queued == [st |-> "waiting", made |-> 0, stalls |-> 0]
NoJob == [st |-> "none", made |-> 0, stalls |-> 0]
Job == [st : JobState, made : 0..MaxAttempts, stalls : 0..1]
Work == [step : MediaStep, paying : BOOLEAN, filled : BOOLEAN]
NoWork == [step |-> "idle", paying |-> FALSE, filled |-> FALSE]
Slot == [step : RecordStep, msg : Message \cup {Nobody}, conv : 0..MaxConvs]
FreeSlot == [step |-> "idle", msg |-> Nobody, conv |-> 0]

-----------------------------------------------------------------------------
(* Helpers                                                                 *)

Fault(kind) == kind \in Env /\ faults < MaxFaults /\ faults' = faults + 1

Moves == moves < MaxMoves /\ moves' = moves + 1

(* queue.add with a jobId: nothing happens while a job of that id exists.  *)
Added(j, new) == IF j.st = "none" THEN new ELSE j

(* Seeded bug: an attempt on top of all of them ends the job.             *)
ThrownForGood(j) == [st |-> "failed", made |-> MaxAttempts + 1, stalls |-> j.stalls]

(* BullMQ after a job threw, and after its worker died (one recovery).     *)
Thrown(j) ==
    [st |-> IF j.made + 1 < MaxAttempts THEN "waiting" ELSE "failed",
     made |-> j.made + 1, stalls |-> j.stalls]
Stalled(j) ==
    [st |-> IF j.stalls = 0 THEN "waiting" ELSE "failed", made |-> j.made, stalls |-> 1]

OpenConvs == {c \in Conv : conv[c] = "OPEN"}
Unused == {c \in Conv : conv[c] = "none"}
NewConv == CHOOSE c \in Unused : TRUE

-----------------------------------------------------------------------------
(* The webhook                                                             *)

(* Evolution's messages.upsert goes straight to the queue.                 *)
DeliverEvolution(h, m) ==
    /\ m \notin Meta
    /\ hook[h] = Nobody /\ sends[m] < MaxSends
    /\ sends' = [sends EXCEPT ![m] = @ + 1]
    /\ hook' = [hook EXCEPT ![h] = m]
    /\ UNCHANGED <<acked, raw, recordVars, mediaVars, deskVars, event, autoReply, faults>>

(* Meta's message is persisted first (persistRawEvent: ON CONFLICT DO      *)
(* NOTHING, in a transaction of its own); a known event is acknowledged.   *)
DeliverMeta(h, m) ==
    /\ m \in Meta
    /\ hook[h] = Nobody /\ sends[m] < MaxSends
    /\ sends' = [sends EXCEPT ![m] = @ + 1]
    /\ raw' = raw \cup {m}
    /\ IF m \in raw
       THEN acked' = acked \cup {m} /\ UNCHANGED hook
       ELSE hook' = [hook EXCEPT ![h] = m] /\ UNCHANGED acked
    /\ UNCHANGED <<recordVars, mediaVars, deskVars, event, autoReply, faults>>

(* Seeded bug: the webhook answers before the job is in Redis.             *)
EnqueueLater(h) ==
    /\ hook[h] # Nobody
    /\ acked' = acked \cup {hook[h]}
    /\ inbox' \in {inbox, [inbox EXCEPT ![hook[h]] = Added(@, Queued)]}
    /\ hook' = [hook EXCEPT ![h] = Nobody]
    /\ UNCHANGED <<sends, raw, at, lock, rows, conv, clientVars, mediaVars, deskVars,
                   event, autoReply, faults>>

(* inboundQueue.add, and the 200.                                          *)
EnqueueInbound(h) ==
    /\ hook[h] # Nobody
    /\ acked' = acked \cup {hook[h]}
    /\ inbox' = [inbox EXCEPT ![hook[h]] = Added(@, Queued)]
    /\ hook' = [hook EXCEPT ![h] = Nobody]
    /\ UNCHANGED <<sends, raw, at, lock, rows, conv, clientVars, mediaVars, deskVars,
                   event, autoReply, faults>>

(* Postgres or Redis refuses, or the process dies: no 200.                 *)
HookFails(h) ==
    /\ Fault("hook")
    /\ hook[h] # Nobody
    /\ hook' = [hook EXCEPT ![h] = Nobody]
    /\ UNCHANGED <<sends, acked, raw, recordVars, mediaVars, deskVars, event, autoReply>>

(* removeOnComplete of the inbound queue.                                  *)
TrimInbound(m) ==
    /\ Fault("trim")
    /\ inbox[m].st = "done"
    /\ inbox' = [inbox EXCEPT ![m] = NoJob]
    /\ UNCHANGED <<hookVars, at, lock, rows, conv, clientVars, mediaVars, deskVars, event,
                   autoReply>>

-----------------------------------------------------------------------------
(* InboundMessageProcessor and MessagesService.recordInbound               *)

SlotGoes(w, step, m) ==
    at' = [at EXCEPT ![w] = [step |-> step, msg |-> m, conv |-> 0]]

(* Seeded bug: the row of an earlier attempt is not looked for.            *)
StartBlindly(w, m) ==
    /\ at[w].step = "idle" /\ inbox[m].st = "waiting"
    /\ SlotGoes(w, "upsert", m)
    /\ inbox' = [inbox EXCEPT ![m].st = "active"]
    /\ UNCHANGED <<hookVars, lock, rows, conv, clientVars, mediaVars, deskVars, event,
                   autoReply, faults>>

(* A slot takes a job and looks for the row by wamid: a duplicate is done. *)
StartInbound(w, m) ==
    /\ at[w].step = "idle" /\ inbox[m].st = "waiting"
    /\ SlotGoes(w, IF rows[m] > 0 THEN "finish" ELSE "upsert", m)
    /\ inbox' = [inbox EXCEPT ![m].st = "active"]
    /\ UNCHANGED <<hookVars, lock, rows, conv, clientVars, mediaVars, deskVars, event,
                   autoReply, faults>>

(* The open conversation, as this transaction reads it; of several, the    *)
(* one that heard from the client last.                                    *)
FindConversation(w) ==
    \E c \in OpenConvs \cup {0} :
        /\ c = 0 => OpenConvs = {}
        /\ at' = [at EXCEPT ![w] =
                    [step |-> IF at[w].msg \in Media THEN "add" ELSE "commit",
                     msg |-> at[w].msg, conv |-> c]]

(* Seeded bug: the client is looked up without writing its row.            *)
FindClient(w) ==
    /\ at[w].step = "upsert"
    /\ FindConversation(w)
    /\ UNCHANGED <<hookVars, inbox, lock, rows, conv, clientVars, mediaVars, deskVars,
                   event, autoReply, faults>>

(* client.upsert holds the client's row until the transaction ends if it   *)
(* writes it: a new client, or one whose message carries a name.  For a    *)
(* known client without one `update: {}` writes and so locks nothing.  The *)
(* conversation is looked up after it.                                     *)
UpsertClient(w) ==
    /\ at[w].step = "upsert"
    /\ IF at[w].msg \in named \/ ~known THEN lock = Nobody /\ lock' = w
                                         ELSE UNCHANGED lock
    /\ FindConversation(w)
    /\ UNCHANGED <<hookVars, inbox, rows, conv, clientVars, mediaVars, deskVars, event,
                   autoReply, faults>>

(* mediaQueue.add, inside the transaction but not part of it.              *)
AddMediaJob(w) ==
    LET m == at[w].msg
    IN  /\ at[w].step = "add"
        /\ media' = [media EXCEPT ![m] = Added(@, Queued)]
        /\ at' = [at EXCEPT ![w].step = "commit"]
        /\ UNCHANGED <<hookVars, inbox, lock, rows, conv, clientVars, work, stray, docs,
                       outcome, deskVars, event, autoReply, faults>>

(* The writes of the transaction, visible at its commit.  An existing      *)
(* conversation gets the state read with it, which was an open one,        *)
(* whatever staff did since.                                               *)
CommitRecord(w) ==
    LET m == at[w].msg
        c == IF at[w].conv # 0 THEN at[w].conv ELSE NewConv
    IN  /\ at[w].step = "commit"
        /\ at[w].conv # 0 \/ Unused # {}
        /\ conv' = [conv EXCEPT ![c] = "OPEN"]
        /\ own' = IF at[w].conv = 0 /\ m \in named THEN own \cup {c} ELSE own
        /\ known' = TRUE
        /\ rows' = [rows EXCEPT ![m] = @ + 1]
        /\ event' = IF autoReply /\ m \notin Media THEN event \cup {m} ELSE event
        /\ lock' = IF lock = w THEN Nobody ELSE lock
        /\ at' = [at EXCEPT ![w].step = "finish"]
        /\ UNCHANGED <<hookVars, inbox, named, ring, mediaVars, deskVars, autoReply, faults>>

FinishInbound(w) ==
    /\ at[w].step = "finish"
    /\ inbox' = [inbox EXCEPT ![at[w].msg].st = "done"]
    /\ at' = [at EXCEPT ![w] = FreeSlot]
    /\ UNCHANGED <<hookVars, lock, rows, conv, clientVars, mediaVars, deskVars, event,
                   autoReply, faults>>

(* What a transaction leaves behind that does not commit: a media job, if  *)
(* it added one or found one, that names the row of an attempt rolled back;*)
(* the next attempt's row has another id and its add finds the job there.  *)
Leave(w, job) ==
    /\ inbox' = [inbox EXCEPT ![at[w].msg] = job]
    /\ at' = [at EXCEPT ![w] = FreeSlot]
    /\ lock' = IF lock = w THEN Nobody ELSE lock
    /\ stray' = IF at[w].step = "commit" /\ at[w].msg \in Media
                THEN stray \cup {at[w].msg} ELSE stray
    /\ UNCHANGED <<hookVars, rows, conv, clientVars, media, work, docs, outcome, deskVars,
                   event, autoReply>>

(* The transaction fails and BullMQ counts an attempt.                     *)
AbortRecord(w) ==
    /\ Fault("abort")
    /\ at[w].step \in {"upsert", "add", "commit"}
    /\ Leave(w, Thrown(inbox[at[w].msg]))

(* The process dies; its transaction rolls back if it was open.            *)
CrashInbound(w) ==
    /\ Fault("crash")
    /\ at[w].step # "idle"
    /\ Leave(w, Stalled(inbox[at[w].msg]))

-----------------------------------------------------------------------------
(* VoiceCallService.ensureOpenConversation                                 *)

(* A call upserts the client, without a name, and finds no conversation    *)
(* open.  (One that finds one only moves its timestamps.)                  *)
CallLooks ==
    /\ Moves
    /\ ring = "idle" /\ OpenConvs = {}
    /\ IF known THEN UNCHANGED lock ELSE lock = Nobody /\ lock' = Caller
    /\ ring' = "creates"
    /\ UNCHANGED <<hookVars, inbox, at, rows, conv, named, known, own, mediaVars, request,
                   payment, event, autoReply, faults>>

CallEnds ==
    /\ ring = "creates" /\ ring' = "idle"
    /\ lock' = IF lock = Caller THEN Nobody ELSE lock
    /\ UNCHANGED <<hookVars, inbox, at, rows, named, own, mediaVars, deskVars, event,
                   autoReply>>

(* It creates one, whatever was opened since it looked.                    *)
CallOpens ==
    /\ CallEnds
    /\ Unused # {}
    /\ conv' = [conv EXCEPT ![NewConv] = "OPEN"]
    /\ known' = TRUE
    /\ UNCHANGED faults

(* The transaction fails, or the process dies.                             *)
CallFails ==
    /\ CallEnds
    /\ Fault("abort")
    /\ UNCHANGED <<conv, known>>

-----------------------------------------------------------------------------
(* WhatsappMediaProcessor; the services it calls                           *)

MediaAt(m, step) == media[m].st = "active" /\ work[m].step = step
MediaGoes(m, step) == work' = [work EXCEPT ![m].step = step] /\ UNCHANGED media
MediaEnds(m, what) ==
    /\ media' = [media EXCEPT ![m].st = "done"]
    /\ work' = [work EXCEPT ![m] = NoWork]
    /\ outcome' = [outcome EXCEPT ![m] = @ \cup what]
MediaLeaves(m, job) ==
    /\ media' = [media EXCEPT ![m] = job]
    /\ work' = [work EXCEPT ![m] = NoWork]
MediaUnchanged == UNCHANGED <<hookVars, recordVars, stray, payment, moves, autoReply>>

(* The download follows; what comes after it depends on the content type.  *)
AfterDownload(m) ==
    CASE m \in Voice -> "transcribe" [] m \in Photo -> "search" [] OTHER -> "upload"

MediaStarts(m) ==
    /\ media' = [media EXCEPT ![m].st = "active"]
    /\ work' = [work EXCEPT ![m] =
                   [step |-> AfterDownload(m), paying |-> FALSE, filled |-> FALSE]]

(* Seeded bug: the job goes on without its message row.                    *)
StartAnyway(m) ==
    /\ media[m].st = "waiting"
    /\ MediaStarts(m)
    /\ UNCHANGED <<docs, outcome, event, request, faults>> /\ MediaUnchanged

(* process reads the message by the id in its job; without a committed row *)
(* of that id the job returns.                                             *)
StartMedia(m) ==
    /\ media[m].st = "waiting"
    /\ IF rows[m] = 0 \/ m \in stray THEN MediaEnds(m, {"missed"})
       ELSE MediaStarts(m) /\ UNCHANGED outcome
    /\ UNCHANGED <<docs, event, request, faults>> /\ MediaUnchanged

(* ... and it returns, too, when the firm has no WhatsApp connection.      *)
NoConnection(m) ==
    /\ Fault("offline")
    /\ media[m].st = "waiting" /\ rows[m] > 0 /\ m \notin stray
    /\ MediaEnds(m, {"offline"})
    /\ UNCHANGED <<docs, event, request>> /\ MediaUnchanged

(* A failed transcription is logged; the transaction that stores the text  *)
(* appends the event.                                                      *)
Transcribe(m) ==
    /\ MediaAt(m, "transcribe")
    /\ MediaEnds(m, IF autoReply THEN {"event"} ELSE {})
    /\ event' = IF autoReply THEN event \cup {m} ELSE event
    /\ UNCHANGED <<docs, request, faults>> /\ MediaUnchanged

(* findOpenForClient, for photos only: is a payment proof expected?        *)
SearchPayment(m) ==
    /\ MediaAt(m, "search")
    /\ work' = [work EXCEPT ![m] = [step |-> "upload", paying |-> payment = "open",
                                    filled |-> FALSE]]
    /\ UNCHANGED <<media, docs, outcome, event, request, faults>> /\ MediaUnchanged

(* DocumentsService.upload: storage, extraction, embeddings, row.          *)
UploadDocument(m) ==
    /\ MediaAt(m, "upload") /\ MediaGoes(m, "fulfil")
    /\ docs' = [docs EXCEPT ![m] = @ + 1]
    /\ UNCHANGED <<outcome, event, request, faults>> /\ MediaUnchanged

(* autoFulfilFromInbound reads the oldest pending request ...              *)
FindRequest(m) ==
    /\ MediaAt(m, "fulfil")
    /\ MediaGoes(m, IF request = "PENDING" THEN "mark" ELSE "file")
    /\ UNCHANGED <<docs, outcome, event, request, faults>> /\ MediaUnchanged

(* ... and writes it by id, whatever it has become.                        *)
FulfilRequest(m) ==
    /\ MediaAt(m, "mark")
    /\ request' = "FULFILLED"
    /\ work' = [work EXCEPT ![m] = [step |-> "file", paying |-> work[m].paying,
                                    filled |-> TRUE]]
    /\ UNCHANGED <<media, docs, outcome, event, faults>> /\ MediaUnchanged

(* An error of autoFulfilFromInbound is logged and the job goes on.        *)
FulfilFails(m) ==
    /\ Fault("swallow")
    /\ MediaAt(m, "fulfil") \/ MediaAt(m, "mark")
    /\ MediaGoes(m, "file")
    /\ UNCHANGED <<docs, outcome, event, request>> /\ MediaUnchanged

(* The transaction that writes body and path and appends document.received;*)
(* if a proof was expected, attachProofIfPending looks again for a payment.*)
FileMessage(m) ==
    /\ MediaAt(m, "file")
    /\ MediaGoes(m, IF work[m].paying /\ payment = "open" THEN "attach" ELSE "route")
    /\ UNCHANGED <<docs, outcome, event, request, faults>> /\ MediaUnchanged

(* attachProof throws for a payment that is not pending any more; once it  *)
(* has committed, the client is thanked, and that may throw too.           *)
AttachProof(m) ==
    /\ MediaAt(m, "attach")
    /\ IF payment = "open"
       THEN MediaGoes(m, "thank") /\ outcome' = [outcome EXCEPT ![m] = @ \cup {"proof"}]
       ELSE MediaLeaves(m, Thrown(media[m])) /\ UNCHANGED outcome
    /\ UNCHANGED <<docs, event, request, faults>> /\ MediaUnchanged

ThankForProof(m) ==
    /\ MediaAt(m, "thank")
    /\ MediaEnds(m, {})
    /\ UNCHANGED <<docs, event, request, faults>> /\ MediaUnchanged

(* The end of storeAsDocument: thank the client (a refused message is      *)
(* logged) or let the AI answer.                                           *)
RouteDocument(m) ==
    LET toAi == ~work[m].filled /\ autoReply
    IN  /\ MediaAt(m, "route")
        /\ MediaEnds(m, IF work[m].filled THEN {"ack"}
                                ELSE IF toAi THEN {"event"} ELSE {})
        /\ event' = IF toAi THEN event \cup {m} ELSE event
        /\ UNCHANGED <<docs, request, faults>> /\ MediaUnchanged

(* Seeded bug: the error of upload is logged like its neighbours'.         *)
MediaFailsQuietly(m) ==
    /\ Fault("media")
    /\ media[m].st = "active"
    /\ MediaEnds(m, {})
    /\ UNCHANGED <<docs, event, request>> /\ MediaUnchanged

(* Any other call throws: the whole job is tried again.                    *)
MediaFails(m) ==
    /\ Fault("media")
    /\ media[m].st = "active"
    /\ MediaLeaves(m, Thrown(media[m]))
    /\ UNCHANGED <<docs, outcome, event, request>> /\ MediaUnchanged

CrashMedia(m) ==
    /\ Fault("crash")
    /\ media[m].st = "active"
    /\ MediaLeaves(m, Stalled(media[m]))
    /\ UNCHANGED <<docs, outcome, event, request>> /\ MediaUnchanged

-----------------------------------------------------------------------------
(* The firm                                                                *)

(* InboxService.transitionState: from any state to any other.  Staff close *)
(* a conversation, or open one again whatever else is open.                *)
StaffMoves(c) ==
    /\ Moves
    /\ conv[c] # "none"
    /\ conv' = [conv EXCEPT ![c] = IF @ = "OPEN" THEN "CLOSED" ELSE "OPEN"]
    /\ own' = own \ {c}
    /\ UNCHANGED <<hookVars, inbox, at, lock, rows, named, known, ring, mediaVars, request,
                   payment, event, autoReply, faults>>

(* DocumentRequestsService: create, fulfil and cancel; the last two only   *)
(* from PENDING.                                                           *)
FirmRequests(state) ==
    /\ Moves
    /\ \/ request = "none" /\ state = "PENDING"
       \/ request = "PENDING" /\ state \in {"FULFILLED", "CANCELLED"}
    /\ request' = state
    /\ UNCHANGED <<hookVars, recordVars, mediaVars, payment, event, autoReply, faults>>

(* PaymentsService (module Billing): a payment opens and is settled.       *)
FirmCharges ==
    /\ Moves
    /\ payment' = CASE payment = "none" -> "open" [] payment = "open" -> "settled"
                    [] OTHER -> payment
    /\ payment' # payment
    /\ UNCHANGED <<hookVars, recordVars, mediaVars, request, event, autoReply, faults>>

-----------------------------------------------------------------------------
Init ==
    /\ sends = [m \in Message |-> 0]
    /\ hook = [h \in Hooks |-> Nobody]
    /\ acked = {} /\ raw = {}
    /\ inbox = [m \in Message |-> NoJob]
    /\ at = [w \in Workers |-> FreeSlot]
    /\ lock = Nobody
    /\ rows = [m \in Message |-> 0]
    /\ named \in SUBSET Message /\ known \in BOOLEAN
    /\ conv = [c \in Conv |-> "none"]
    /\ own = {} /\ ring = "idle"
    /\ autoReply \in BOOLEAN
    /\ media = [m \in Message |-> NoJob]
    /\ work = [m \in Message |-> NoWork]
    /\ stray = {}
    /\ docs = [m \in Message |-> 0]
    /\ outcome = [m \in Message |-> {}]
    /\ event = {}
    /\ request \in {"none", "PENDING"} /\ payment \in {"none", "open"}
    /\ faults = 0 /\ moves = 0

Webhook(h) ==
    \/ \E m \in Message : DeliverMeta(h, m) \/ DeliverEvolution(h, m)
    \/ EnqueueInbound(h) \/ HookFails(h)

Recording(w) ==
    \/ \E m \in Message : StartInbound(w, m)
    \/ UpsertClient(w) \/ AddMediaJob(w) \/ CommitRecord(w)
    \/ FinishInbound(w) \/ AbortRecord(w) \/ CrashInbound(w)

MediaWork(m) ==
    \/ StartMedia(m) \/ NoConnection(m) \/ Transcribe(m)
    \/ SearchPayment(m) \/ UploadDocument(m) \/ FindRequest(m) \/ FulfilRequest(m)
    \/ FulfilFails(m) \/ FileMessage(m) \/ AttachProof(m)
    \/ ThankForProof(m) \/ RouteDocument(m) \/ MediaFails(m) \/ CrashMedia(m)

Calling == CallLooks \/ CallOpens \/ CallFails

Firm ==
    \/ \E c \in Conv : StaffMoves(c)
    \/ \E state \in RequestState : FirmRequests(state)
    \/ FirmCharges

Next ==
    \/ \E h \in Hooks : Webhook(h)
    \/ \E w \in Workers : Recording(w)
    \/ \E m \in Message : TrimInbound(m) \/ MediaWork(m)
    \/ Calling \/ Firm

Spec == Init /\ [][Next]_vars

-----------------------------------------------------------------------------
(* Properties                                                              *)

(* Every variable holds what the code could store in it.                   *)
TypeOK ==
    /\ sends \in [Message -> 0..MaxSends]
    /\ hook \in [Hooks -> Message \cup {Nobody}]
    /\ acked \subseteq Message /\ raw \subseteq Message
    /\ inbox \in [Message -> Job]
    /\ at \in [Workers -> Slot]
    /\ named \subseteq Message /\ known \in BOOLEAN
    /\ lock \in Workers \cup {Caller, Nobody}
    /\ rows \in [Message -> Nat]
    /\ conv \in [Conv -> ConvState]
    /\ own \subseteq Conv /\ ring \in {"idle", "creates"}
    /\ autoReply \in BOOLEAN
    /\ media \in [Message -> Job]
    /\ work \in [Message -> Work]
    /\ stray \subseteq Media
    /\ docs \in [Message -> Nat]
    /\ outcome \in [Message -> SUBSET Outcome]
    /\ event \subseteq Message
    /\ request \in RequestState /\ payment \in PaymentState
    /\ faults \in 0..MaxFaults /\ moves \in 0..MaxMoves

(* recordInbound is idempotent on the wamid: however often a message is    *)
(* delivered, retried or recovered, and whenever BullMQ forgets its job,   *)
(* it has one row.                                                         *)
OneRowPerMessage == \A m \in Message : rows[m] <= 1

(* Two messages that carry the client's name, recorded at once, share a    *)
(* conversation: their writes of the client row make the second look-up    *)
(* wait for the first.  Of the conversations such messages opened at most  *)
(* one is open, unless staff opened one again; calls and messages without  *)
(* a name, which lock nothing, may each open another beside it.            *)
NamedShareConversation == Cardinality(own) <= 1

(* A message with a row, or with a job that will record it or that an      *)
(* operator finds in the failed set.                                       *)
Kept(m) == rows[m] > 0 \/ inbox[m].st \in {"waiting", "active", "failed"}

(* EvolutionWebhookIngestService: what was answered 200 is not lost,       *)
(* through refused adds, crashes, retention and redelivery.                *)
EvolutionKeepsAcked == \A m \in acked \ Meta : Kept(m)

(* WebhookIngestService: "every duplicate path is handled explicitly       *)
(* rather than assumed away": the same promise for Meta's deliveries.      *)
MetaKeepsAcked == \A m \in acked \cap Meta : Kept(m)

(* The media worker may start before recordInbound commits, or after it    *)
(* failed; what it files and tells the AI always belongs to a stored row.  *)
WorkFollowsRow ==
    \A m \in Message :
        docs[m] > 0 \/ m \in event \/ outcome[m] \cap {"proof", "ack"} # {} => rows[m] > 0

(* The message was passed on: to the AI, as a proof or with a thank-you.   *)
Handed(m) == outcome[m] \cap {"event", "proof", "ack"} # {}

(* A media job that BullMQ counts as completed has passed its message on,  *)
(* unless the firm has turned the AI off; or its first look at the         *)
(* database found no row of the id it was given, or no connection of the   *)
(* firm.  Nothing that fails or dies after that look ends it silently.     *)
DoneMeansRouted ==
    \A m \in Media : media[m].st = "done" /\ autoReply =>
        Handed(m) \/ outcome[m] \cap {"missed", "offline"} # {}
=============================================================================
