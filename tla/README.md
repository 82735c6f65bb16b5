# Wakeel: specifications of the WhatsApp front desk

Wakeel is a practice-management system for law firms whose clients write on
WhatsApp. Its back end (`apps/api`, NestJS, Postgres through Prisma, Redis
through BullMQ and ioredis) runs as any number of API and worker replicas. A
client's message is stored, announced through a transactional outbox, and
answered by an AI turn, unless the firm's staff have taken the conversation
over. These modules specify the parts of that program where several processes
meet: webhooks and the recording of messages, the outbox, the domain-events
queue, the per-conversation lease, the AI turn with the staff and media jobs
that run beside it, a lawyer's diary, payments and receipts, live voice
calls, and the firm's team, whose members sign in through Clerk.

Paths below are relative to `apps/api/src/` unless they start with `src/`.

## 1. Inventory

### Components

| Component | State it keeps | Operations | Modelled |
|---|---|---|---|
| Outbox (`common/events/outbox-writer.ts`, `common/queue/outbox-*.ts`) | `platform.outbox_events` rows with `publishedAt` | append in the caller's transaction; a tick every 2 s selects, enqueues, marks | `Outbox` |
| Domain-events queue (`common/queue/domain-events-dispatcher.processor.ts`) | BullMQ jobs under the event id, attempts, delays | run all handlers of an event, defer, retry, discard | `Outbox`, `AiTurn` |
| Lease (`common/locks/resource-lock.service.ts`) | one Redis key per resource holding a token, with a TTL | SET NX PX, compare-and-delete, run unlocked when Redis is down | `AiTurn` |
| AI turn (`modules/ai/application/ai-event.handler.ts`, `ai-orchestrator.service.ts`, `burst-turn.ts`, `ai-send-policy.ts`) | message payload (`aiTurnCompletedAt`, `aiIntent`), conversation state, escalations | burst planning, three intercepts, three phases, completion marker | `AiTurn` |
| Reply delivery (`modules/voice/application/voice-reply.service.ts`, `modules/whatsapp/application/send.service.ts`) | OUTBOUND message rows | voice note or text bubbles, post and then commit | `AiTurn`: what it does inside a turn |
| Media pipeline (`modules/voice/application/whatsapp-media.processor.ts`) | transcript, document, message payload | transcribe, file a document, attach a proof, fulfil a request | `Inbound`: the job; `AiTurn`: its effect on the turn |
| Inbound recording (`modules/messages/application/messages.service.ts`) | clients, conversations, messages | record a message once per wamid, apply delivery statuses | `Inbound`; `AiTurn`: the row and its event |
| Webhook ingest (`modules/whatsapp/application/webhook-ingest.service.ts`, `evolution-webhook-ingest.service.ts`) | `platform.webhook_events` | persist raw event, enqueue | `Inbound`; call events in `VoiceCall` |
| Inbox and escalations (`modules/inbox`, `modules/ai/application/escalations.service.ts`) | conversation state, drafts, escalations | transition, reply, approve or reject a draft, acknowledge, assign, resolve | `AiTurn`, `Inbound`: transitions and clearing; drafts are not modelled |
| Appointments (`modules/appointments`) | appointments, availability, offers in the conversation, Google events | compute slots, offer, book, reschedule, cancel, complete, remind | `Calendar`; reminders are not modelled |
| Payments (`modules/payments`) | payments and their status | request, record, proof, confirm, rail callback, refund, receipt, fee message | `Billing` |
| Voice calls (`modules/voice-calls`) | voice_calls, in-memory sessions, parked SIP INVITEs | ring, claim an INVITE, answer, talk, complete | `VoiceCall`, `InvitePark`; its inbox row and the receptionist's escalation are in `AiTurn`, the conversation it opens in `Inbound` |
| Cases, documents (`modules/cases`, `modules/documents`) | cases, documents, document requests | auto-create a case, upload, fulfil | `Inbound`: documents and requests; case creation is not modelled |
| Notifications (`modules/notifications`) | notification rows, digests, push tokens | fan-out per event | not modelled: each delivery is independent and best-effort |
| Team and sign-in (`modules/users`, `modules/auth`) | `app.users` rows; invitations and memberships at Clerk | invite, resend, cancel, change role or status, deactivate, reactivate, resolve a principal, demote | `Team`; seeding of roles and the audit log are not modelled |
| Analytics, audit, RAG, lawyers, firm profile | read models, logs, embeddings, profiles | CRUD and projections | not modelled: sequential CRUD or third-party work |
| Web client (`src/apps/web`) | browser state | screens over the API | not modelled: no state of its own that other parts read |

### How they interact

1. A webhook persists the raw event and enqueues it. The inbound job calls
   `MessagesService.recordInbound`, which writes the message row and, for a
   text, a `message.inbound.received` outbox row in one transaction. For a
   voice note, photo or file it enqueues a media job instead, and that job
   appends the outbox row once there is text or a stored file.
2. `OutboxDispatcher` moves outbox rows to the domain-events queue.
   `DomainEventsDispatcher` runs every handler registered for the event with
   `Promise.all`.
3. `AiEventHandler` takes the lease `ai-turn:<tenant>:<conversation>` for 90 s
   (or asks BullMQ to come back later) and calls `AiOrchestrator.process`,
   which reads in one transaction, calls models with none open, writes in
   another, sends in several more, and marks the messages it answered.
4. Staff change the same conversation through `InboxService` and
   `EscalationsService`, without the lease. Reminders, receipts and fee
   messages write to the client through the same `SendService`.
5. The turn's appointment intercept offers slots, remembers the offer in the
   conversation, and books what the client picks later. The dashboard books and
   changes the same table; the EXCLUDE constraint of migration 0002 arbitrates.
6. A booking or a completion is a domain event whose handler requests the fee;
   a settled payment is one whose handler sends the receipt.
7. A call's webhooks become connect and terminate jobs of the voice process,
   which keeps sessions, media loops and SIP INVITEs in memory. A call finds or opens
   a conversation of its client, may escalate it, and leaves a row in the inbox when it ends.
8. Requests of the team page write the user's row and call Clerk inside the
   transaction, or after it. A person's own requests bind the row to the Clerk
   account, activate it, and, when the token claims more than the row grants, start a
   demotion at Clerk that nobody waits for.

### What is hard about it

Interleavings at every await of the turn; a send that cannot be rolled back in
the middle of work that is retried; markers in a JSON payload which other
writers copy and write back; a lease that may expire; a batch that is read in one
transaction and used after it; `Promise.all` leaving handlers running while
their job is retried. `PROJECT.json` lists each hazard at its line, with the
properties that would catch it going wrong.

What makes each component correct:

- outbox: an event whose transaction committed reaches all its handlers, or its
  job ends in the failed set; a published row is never lost; overlapping ticks
  do not run an event to completion twice while BullMQ remembers it;
- lease: two turns of a conversation overlap only when the lease ran out or
  Redis was away; a late release frees nobody else's lease;
- AI turn: a client message is answered at most once; while it is pending a
  turn for it is to come; turns leave at most one escalation open; every event comes
  to an end; only staff end a takeover;
- inbound: one row per wamid, and one conversation for the client's messages under
  duplicate, concurrent and repeated deliveries; what was acknowledged is kept;
  what is filed or announced belongs to a stored message;
- appointments: no two live appointments overlap; the slots listed for a client
  are the earliest that are free, and only those;
- payments: no job charges twice; received money has been announced, and the
  client hears of it;
- calls: one entry in the inbox, an outcome that stays and claims only what was
  done, an end for every call that was answered with audio; INVITEs and jobs meet;
- team: who may sign in at Clerk and who is somebody in the firm's rows agree, or
  come to agree; no request alone takes the last active Admin away;
- drafts, cases: one send per approved draft, one case per conversation (not
  promised by the code, see "Not modelled").

## 2. Modules

| Module | What it is |
|---|---|
| `FrontDesk` | the abstract promise to the client: receive, answer at most once, leave |
| `AiTurn` | one conversation: client, media jobs, queue, lease, AI turns, staff, failures |
| `MCAiTurn` | TLC instance of `AiTurn`: symmetry of the worker slots |
| `AiTurnProofs` | type correctness and lease exclusion |
| `OneAnswerProofs` | at most one answer per message; `AiTurn` implements `FrontDesk` |
| `Outbox` | outbox table, ticks, queue and workers |
| `MCOutbox` | TLC instance of `Outbox` |
| `TurnProofs` | one open escalation; completion markers are earned; a pending message has a turn to come |
| `OutboxProofs` | type correctness and the three safety invariants of `Outbox` |
| `Inbound` | webhooks, inbound jobs, `recordInbound`, conversations that calls open, media jobs, documents and requests of one client |
| `MCInbound` | TLC instances of `Inbound`: symmetry of webhooks and workers, a smaller set of initial states |
| `InboundProofs` | type correctness and the five safety invariants of `Inbound` |
| `Calendar` | one lawyer's diary: slot arithmetic, offers, choices, bookings, changes, the constraint |
| `Billing` | payments, fee and receipt jobs around the diary; extends `Calendar` |
| `MCBilling` | TLC instance of `Billing`: windows, spans, initial diaries |
| `BillingProofs` | types; no double booking; offers are the earliest slots; the three safety invariants of `Billing` |
| `InvitePark` | SIP INVITEs and the jobs that wait for them |
| `VoiceCall` | live calls in the voice process; extends `InvitePark` |
| `MCVoiceCall` | TLC instance of `VoiceCall`: whose number an INVITE carries |
| `VoiceCallProofs` | type correctness, the safety invariants and the action property of `VoiceCall` |
| `Team` | rows of the team and Clerk's organization, requests that change both, sign-in, drift; needs no MC module |
| `TeamProofs` | type correctness, and three of the four properties of `Team` |

`AiTurn` and `Outbox` share the queue: `Outbox` has it in full (handlers, orphans,
retention) with handlers that do nothing but succeed or fail, and `AiTurn` has
only what one handler sees of it. What `Outbox` shows of delivery,
at-least-once with possible repeats, is what `AiTurn` assumes: its action
`DuplicateEvent` is the second delivery that `Outbox` can produce after `Trim`.
`Billing` has its own domain-events jobs, with attempts and one recovery, since
its handlers are what fails there. `Inbound` ends where `AiTurn` begins, at the
`message.inbound.received` event: what it shows of rows and events (one row, an
event only for a stored message) is what `RowStored` and `Enqueue` take for
granted.

### `AiTurn` and the code

Messages are numbers in the order of `createdAt`. `stored` are the rows;
`media`, `age`, `marked` are what the turn reads of a row (attachment state, time since
creation against `settleMs` and `maxWaitMs`, the completion marker). `lastOut`
is the newest message older than the last OUTBOUND row, which is where
`resolveBurst` starts its query. `conv` and `openEsc` are the conversation's
state and its count of OPEN escalations. `answered` and `silenced` are what the client can see: how
often WhatsApp (or the draft queue) took an answer to the message's content, and
that a turn chose not to answer. `jobs`, `attempts`, `stalls` are BullMQ's, `lock` is the Redis
key, `pc` and `turn` are the workers' positions and local variables.

One `pc` value stands before each await of `AiOrchestrator.process` and of what it calls:
`lock` (SET NX), `load` (`loadInboundTurn`, `isTurnCompleted`), `burst`
(`resolveBurst`), `route` (intercepts), `read` (Phase 1), `fresh` and `write`
(the reads and the commit of Phase 3's transaction), `tag`, `send`, `row` and `event`
(post, message row, `AiReplySent`), `mark`, `release`, `settle`. `faults` counts what the environment
did and remembers which of it lasts: a lease that lapsed or was skipped, a marker that
was not written.

A voice call is in `AiTurn` where it touches the conversation: `CallEscalates` is the
receptionist's `createEscalation`, which opens an escalation whatever is open and makes
the conversation HUMAN_REQUIRED over a takeover, and `RecordCall` is the inbox row at the call's end.

Abstractions, and why they are sound:

- What models say is a free choice: any intent, any escalation, empty or not,
  spoken or written. Prompts, retrieval, intake and case data are left out.
- Time is three ages; the order of ages follows the order of messages.
- The two reads of Phase 3's transaction (state, open escalation) are one step: nothing
  that commits between them touches both.
- The plans `payment` (payment details) and `booking` (a booking and its confirmation) send first and
  tag after; `offer` stands for intercepts that tag first. What fails inside a booking is
  caught, and the client gets an apology, or other slots, instead (`Apologise`).
- A document with a caption goes through the media job like one without, but has a
  body from the start (`captioned`), so that a turn does not wait for it.
- A call escalates only while fewer than `MostEscalations` escalations are open; that bounds the count.
- A CLOSED conversation gets no more client messages: `recordInbound` opens
  another one, which another instance of the model stands for.
- The firm has AI replies on: with `aiAutoReplyEnabled` off no event is
  appended and there is no turn.
- `enrichHandoffSituation` runs after the mark, writes only the escalation's
  brief, and is left out. So are read receipts and typing indicators.
- BullMQ taking a job from a worker that is alive but stalled is not modelled;
  a second copy of the event (`DuplicateEvent`) gives the same overlap of turns,
  and the lease handles both alike. A media job that runs twice adds a second
  event the same way, but its second write of the payload is left out.

### `Outbox` and the code

An event is its place in `occurredAt` order. `row` is the table, `tick` and
`batch` the dispatcher's position and the rows it has yet to handle (`add`, then
`update`, per row). `FOR UPDATE SKIP LOCKED` locks rows only while the select's own
transaction is open (`tick = "select"`), as in the code, where
`withPlatform` returns before the loop starts; so two ticks can hold the same
rows, and the comment at `common/queue/outbox-dispatcher.processor.ts:15-21` that replicas
"won't double-claim" is true only of selects that overlap. `job` is BullMQ's
state of the job with the event's id; adding an id that exists does nothing. `running` are the handlers of an attempt;
`orphans` are handlers that go on after a sibling rejected `Promise.all`.
`completed` counts completions since BullMQ last forgot the job. All
events have the same handlers, and a crash takes one slot; both only leave out
coincidences.

### `Inbound` and the code

One client, one firm. `hook` is a webhook request between its raw event and its
`queue.add`; Meta's goes through `raw` (`persistRawEvent`, ON CONFLICT DO
NOTHING) and Evolution's does not. `inbox` and `media` are the two BullMQ jobs of
a message; `at` is where a worker is in the transaction of `recordInbound`
(`upsert`, `add`, `commit`), `lock` the client row it has written, `work` where the
media job is in `process` and `storeAsDocument`. `known` says whether there is a row of the
client, `named` which messages carry the display name of his profile.

The client upsert writes, and so locks, the row only if there is none or the message
has a name (`messages.service.ts:89` has `update: {}` otherwise), and the open conversation is
looked up after it. Messages with a name therefore wait for each other and share a conversation:
`NamedShareConversation` says that of the conversations they opened (`own`, a history variable) at
most one is still open. More the code does not give: a known client's message without a name locks nothing, a
call upserts him without a name and creates a conversation if it has read that none is open
(`CallLooks`, `CallOpens`), and staff may open a closed conversation again; each leaves a second
open conversation beside the first. The first two happen in the run, and all three are allowed in the proofs.

- The media job is added before the commit. `stray` are messages whose job
  names a row that was rolled back: the retry stores a new row, and its add finds the
  job's id taken.
- Contents, signatures, routing and phone numbers are taken as valid. Of the
  tenant's settings only auto-reply matters to the control. There is one
  document request and one open payment: which of several is chosen is left out.
- `removeOnComplete` is `TrimInbound`; a retry, a stalled recovery and a
  redelivery after it are all there.
- A media job whose firm has no WhatsApp connection returns and is completed (`NoConnection`),
  although its row is stored and nothing was routed. A payment proof is attached in one
  transaction, and the client is thanked after it (`ThankForProof`), which may fail.
- Two first messages without a name, at once, where the second's INSERT of the client meets the first's:
  the failure is an `AbortRecord`.
- `applyStatusUpdate` has no caller that is registered (`StatusProcessor` is in no
  module's providers), and `PilotBridgeService` neither; they are left out.

### `Calendar`, `Billing` and the code

Time is a number of ticks, `DayLength` to a day; `ComputeOpenSlots`, `ScanDay` and
`ScanWindow` are the three loops of `slot-math.ts` as recursive functions of the number of
rounds, with `Keep` as the body: the cell of a round (`Cell`) is appended when it fits,
is far enough ahead and free, and there is room. A row of `appt` is in the table from its INSERT; `open` are
those whose transaction has not committed. An INSERT that meets an open row
waits for it (`InsertRow` is enabled only when `Free`), one that meets a committed row is
refused (`Refused`), as an EXCLUDE constraint does. An offer takes two steps:
`ListSlots` reads the diary into `found`, and `StoreOffer` stores what was found, whatever has been
booked since; the message follows. `turn` is the AI turn between these steps, or between the
booking and the removal of the offer, `edit` a dashboard PATCH between its read
and its write by id. Google, the confirmation and everything else that runs
inside the booking's transaction appear as `AbortBooking` and `FailUpdate`.

In `Billing`, an event is what it is about and its number; `job` is its BullMQ
job, `run` a slot of the domain-events worker (concurrency 10 in the code),
`till` a dashboard request between its read and its write. `by` is a history
variable: the event a payment was requested for. `heard` is what the client got
of a job; "silent" is a closed 24-hour window or a client without a
conversation. The appointment of a receipt is looked up when its context is loaded
(`LoadReceipt`, step `both`), not when it is sent. The only rail adapter is a stub whose
`initiate` returns `completed: false` (`stub-rail.adapter.ts:23`), so the branch of
`requestPayment` for a charge that completes at once is dead code and is left out: success comes through
`ProcessWebhook`. Amounts, PDF contents and case data are abstracted; the firm has
receiving details. The look-up of an existing fee reads the firm's 100 newest payments
(`payments.service.ts`): the assumption `BillingParameters` says that
there are no more, and with more the look-up may miss the fee it made.

### `InvitePark`, `VoiceCall` and the code

One process with role `voice` runs calls: sessions, loops and the park are its
memory and die with `Crash`, while rows and jobs stay. Each call has three threads
(the connect job, the terminate job, the media loop); `at` is where each is.
`call`, `record` and `entries` are the row of `voice_calls`, its disposition and
the CALL rows of the inbox. `mood` is the session's disposition, `deeds` what the
receptionist has done. `gone` are calls whose line is closed, by anybody; the terminate
webhook follows that. `lost` is a history variable: calls whose outcome went
down with a failure. `moves` is one budget for hang-ups, utterances and
failures. Audio, prompts, languages and the reason of a rejection are
abstracted; the `utterance` kind of the queue is never enqueued. `silent` are Cloud calls whose media
session is a no-op (no SDP offer, or no WebRTC): it says that it is closed from the start, so
the media loop ends at once, without hanging up and without the call limit, and the session
stays until the caller hangs up. `InvitePark`
gives INVITEs and claims one variable each side; a lone INVITE and a lone job
match whatever their numbers, as in `sip-invite-park.ts`.

### `Team` and the code

`user` are the committed rows; `bound` says that `clerkUserId` is an account and no
longer the placeholder `invite_...`. `invitation` and `member` are what Clerk has
of a person. `op` is a request of the team page: `write`, `sync` and `commit`
are the UPDATE, `syncClerkRole` and the COMMIT of one transaction, which has the row locked
from the first to the last (`Locked`); `send` is `inviteMember` after the
transaction of `invite` or `resendInvite`; `revoke` and `remove` are
`cancelInvite` after its first transaction. What a request has read is in `op`: the role
it carries and, as history, the other Admins it has counted (`others`)
and the invitation that a member who has signed in still had when Clerk was called (`link`). `visit` is a person's own request between the token and
`resolvePrincipal`, whose transaction is one step that waits for a locked row. A principal who
is refused throws inside that transaction, so that the binding is undone.
`demotion` is a `demoteInClerk` under way.

- A person is one e-mail address and one Clerk account: look-ups by address find
  nobody else. "Lawyer" stands for every role but Admin, which is all the code tells
  apart here. Clerk is enabled and the firm linked to its organization.
- A call to Clerk that throws may have been carried out up to any point
  (`SyncRefused`, `SendFails`, `RevokeFails`).
- An invitation may name an account that is known already (`known`): its row is bound
  from the start, and the person's first visit activates it.
- One person, one address also means that `findInvitee` finds him. For an
  address that is not his primary one, or that two accounts share
  (`clerk.organization-inviter.ts:123-135`), it returns null, and a cancellation leaves the membership; `Revoke` leaves
  that out.
- An update to INVITED, which the schema allows and no screen sends, is left out.

## 3. Checks

| Run | Instance | Shows |
|---|---|---|
| `TurnMedia` | 2 messages (a voice note, then a document or a call's row), 2 workers, each event up to twice, 2 attempts, two of: a refused send, a failed media job, a repeated event, another sender's row | `TypeOK`; a message gets one answer (`OneAnswer`); the model implements `FrontDesk` (`ImplementsFrontDesk`) |
| `TurnFaults` | 2 texts, 2 workers, 2 attempts, one crash, lapsed lease, unreachable Redis, exception, refused send, failed commit, failed marker, move of the staff or other sender's row, fairness | `LeaseExclusion`; a marker is only on settled messages (`MarkMeansDone`); one open escalation (`OneOpenEscalation`); a pending text has a turn to come (`PendingHasATurn`); the queue empties again (`QueueDrains`) |
| `OutboxDelivers` | 2 events, 2 ticks, 2 workers, 2 handlers, one failure of any kind, retention at any time, fairness | `TypeOK`, `PublishedIsQueued`, `CompletesOnce`, `DoneMeansHandled`, `EventuallyHandled` |
| `InboundRecords` | 2 messages (a voice note of Meta's, a photo of Evolution's), each delivered up to twice, with or without the client's name, 1 webhook at a time, 2 workers, 2 conversations, 2 attempts, one failure of any kind, one move of the staff or call | `TypeOK`, `OneRowPerMessage`, `NamedShareConversation`, `EvolutionKeepsAcked`, `WorkFollowsRow`, `DoneMeansRouted` |
| `BillingSettles` | 2 clients, 2 appointments, 1 dashboard request, 2 payments, 2 event workers, windows on three days of which the second is a holiday, offers of 2, three moves | `TypeOK`, `NoDoubleBooking`, `OffersAreEarliest`, `EachJobChargesOnce`, `ReceivedIsAnnounced`, `ReceiptsAreHeard` |
| `CallsEnd` | 1 call, 1 more caller who only waits for an INVITE, 2 INVITEs, 2 slots, 2 attempts, two hang-ups, utterances or failures, fairness | `TypeOK`, `OneEntryPerConnect`, `OutcomeIsFinal`, `RecordsAreTrue`, `OneInvitePerCaller`, `NoMatchWaits`, `AnsweredCallsEnd` |
| `TeamAgrees` | 2 people, one of them Admin at the start, 2 requests at once about different people, 3 in all, one failed call, failed commit or edit at Clerk, fairness | `TypeOK`, `CancelledIsGone`, `OneRequestCannotLockOut`, `ClerkFollowsChanges`, `DriftHeals` |
| `MetaRetryLoses` | 1 text of Meta's, one failed webhook | violates `MetaKeepsAcked` |
| `TurnTwoBubbles` | 1 message, a reply of two bubbles, one refusal | violates `OneAnswer` |
| `TurnStuckMedia` | a text and a newer voice note, one failed media job | violates `NothingDropped` |
| `TurnTakeover` | 1 message, staff | violates `TakeoverHolds` |
| `TurnOvertaken` | 4 texts, 1 worker, no failure and nobody else | violates `NothingDropped` |

### Bounds

Two messages are the smallest burst; what a burst adds to one message
(skip, window, shared answer, order of rows) is pairwise. There is one exception, and a run of
its own shows it: from four messages on, a handed-back turn overtakes a burst of others
(`TurnOvertaken`). `PendingHasATurn` survives that, because the overtaken message is not
pending any more, and is proved for every number of messages; `OneAnswer` with
staff moving and `OneOpenEscalation` are theorems, too. Two workers give every
overlap of two turns, and the lease allows no third kind. Two attempts
separate a retry from the last attempt; `MaxAttempts` (5 in the code) only adds more retries of the same
kind. `MaxMessages` is at least the number of messages in these runs, so that
the 12-message window never cuts; with a smaller window, an older message is dropped when a
newer one is skipped to, see the hazards. `MaxFaults` is 1 in `TurnFaults`, an event of any
kind at any point; what further ones do to its four invariants is in the theorems
`LeaseExcludes`, `MarkersAreEarned`, `OneEscalation` and `PendingIsCared`. `Copies` is 2 where repeated events are the
question. In `OutboxDelivers`, `Limit` is as large as the table; a smaller one
only delays rows.

`InboundRecords` (about four million states) has one message of each provider, so
that both webhooks, both jobs and both paths of the media worker meet; two
workers and two conversations are what a race for the client row and a
conversation closed in between need; two deliveries are a redelivery after
retention. Its initial states (`SmallInit`) have the client's name on all messages or on none, and
a pending request and an open payment both or neither; the proofs are from all of `Init`.
`BillingSettles` (about 660 000 states) has two of everything that can
conflict, a window that a holiday takes out between two that are left and a day cut by the lead time, and
initial diaries that hold a cancelled appointment, so that one may be revived; three moves
are an offer, a choice and one change, failure or callback between them. `CallsEnd` (about
240 000 states) follows one call in full: calls meet only in the park, where
the second caller stands for all others, and at the limit of `Slots`. `TeamAgrees`
(about 430 000 states) needs two people so that each can be the other's last
fellow Admin, and three requests so that the first can invite the second Admin and
the other two can remove both; one failure or edit, after which nothing else hides
whether the two places meet again.

Deadlock checking is off in every run: a conversation where nobody writes any
more, a queue without work and a call that has ended have stopped properly.

### Fairness

`AiTurn!Fairness`: a live worker takes its next step, and what goes on by itself around the
workers does not stop for good (weak fairness of `Background`: time passes, media jobs
proceed, the stalled check runs, keys with a TTL expire; each of these has only so much to
do in a behaviour, so none is passed over for ever). A job
that is waiting again and again is handed out at some point (strong fairness of
`Claim` per job): BullMQ serves delayed and waiting jobs in order, and a deferred
job would otherwise be allowed to lose to its rivals for ever. Nothing is assumed of
the client, the staff or failures. `Outbox!Fairness`: the repeatable job of
`outbox-scheduler.service.ts` gives each tick weak fairness, workers and the
stalled check the same, `Start` of each job is strongly fair.

`VoiceCall!Fairness`: the threads of a live process take their next step, a claim
times out, WhatsApp reports a closed line and a finished job is settled (weak
fairness). Waiting jobs are handed out although other jobs take the slots again
and again, and the limit of a call passes although the caller goes on talking
(strong fairness). Nothing is assumed of callers, INVITEs and failures.
`AnsweredCallsEnd` starts from a call in `session` whose line is still open: a hang-up
before the session exists finds nothing to complete, and nobody completes that
call later (see the hazards). It leaves out sessions without audio, for which the code does not
end a call that the caller keeps open. A failure that takes the session away is `lost`.
`Team!Fairness`: a request that has begun goes on, members of the organization
come back now and then, and a demotion is answered (weak fairness); nothing is
assumed of invitees, of what Admins ask for, and of failures.
`Inbound` and `Billing` state safety only; their jobs are BullMQ's, whose progress
`Outbox` and `AiTurn` check.

Some properties say under what they hold, because without it they do not:
`OneOpenEscalation` is of conversations without calls, since the receptionist of a call
opens its escalation whatever is open; it and `PendingHasATurn` hold until a lease lapses or is skipped,
after which two turns overlap, and `PendingHasATurn` until a marker is lost. `faults.lasting` remembers these,
and the other failures stay free. `PendingHasATurn` is of texts, since a media message may
have no event yet and a call's row never has one.

That every message is answered in the end is not true of this code, and no passing run
says so. `NothingDropped` states it for texts, and two runs refute it: `TurnStuckMedia` by a failed media
job and `TurnOvertaken` without any failure. What is left is `PendingHasATurn` together
with `QueueDrains`: a message is pending until an answer, somebody else's row or a turn's
decision gets it; while it is, a turn for it is to come; and that turn comes to an end.

`CancelledIsGone` and `ClerkFollowsChanges` are checked with `OnePerPerson`. With two
requests about the same person they do not hold: a slow invite or resend
sends its link after another request has revoked or suspended. `ClerkFollowsChanges` excepts a
member with a pending invitation of his own (`link`), which `syncMemberRole` by id does not look at. `OneRequestCannotLockOut`
says what the last-Admin check does give. That the firm always has an active Admin
(`users.service.ts:478`, "The firm needs at least one active Admin") is more: two
requests that overlap can each count the person the other removes. The hazards
name both.

### Five places where the code does not do what it says

- `TurnTwoBubbles`. `README.md:107` says "A retried job cannot answer the same
  client twice." The marker is written after the last bubble; if the second
  bubble is refused, the turn throws and the retry sends the first again.
- `TurnStuckMedia`. `burst-turn.ts:13-14` says that the cap on waiting "keeps a stuck
  transcription from silencing the thread". That holds when the stuck note is
  older. When it is the newest, the text before it is skipped in favour of
  a message whose event will never come.
- `TurnOvertaken`. `burst-turn.ts:10-13` says that every event "first looks at the unanswered
  messages since the last outbound one", that only the newest answers, and that it "replies to all of
  them together". Four texts are enough to miss one, with one worker and no failure. Text 2
  arrives while text 1 is being answered, so the answer's row passes it, and its turn is handed
  back; text 3 is skipped for text 4; the turn of text 2 comes back, answers it alone
  (`burst-turn.ts:55-60`), and that answer's row passes texts 3 and 4; the turn of text 4 answers
  text 4 alone. Nobody answers text 3, which reaches the model only as history.
- `TurnTakeover`. `ai-orchestrator.service.ts:458-459` opens Phase 3 "against fresh
  state: a lawyer may have taken the conversation over". The hard handoff branch
  does not look at that state, and the write of AI_ACTIVE is not conditional on
  it: a takeover committed after the read is overwritten.
- `MetaRetryLoses`. `webhook-ingest.service.ts:19-20` says "Meta retries on
  non-200s, so every duplicate path is handled explicitly rather than assumed
  away." The raw event is committed before the queue add; when the add fails, the
  retry finds the event known, is answered 200 and enqueues nothing.

### Mutants

Each property of a passing run has a seeded bug beside the definition it
mutates ("Seeded bug" in the comments), which makes TLC find a violation:
a marker ignored or written for the trigger only, a release without the token
comparison, a lease without a TTL, an escalation raised without looking, a job
added without its id, a batch marked published at once, `Promise.any` for
`Promise.all`, a conversation looked up without writing the client row, a slot
within the lead time, a check in the application instead of the constraint, a
session looked at and not taken, and so on. No specification uses these definitions.

## 4. Proofs

The provers check these for all values of the constants that satisfy
the assumptions of the modules (`Parameters`, `OutboxParameters`,
`InboundParameters`, `CalendarParameters` and `BillingParameters`, `ParkParameters` and
`VoiceParameters`, `TeamParameters`): any number of messages, workers, calls, payments, attempts
and failures.

- `AiTurnProofs`: `Typing` (`TypeOK`), by one step per action, with the fact that a
  slot about to send has something left to send. `LeaseExcludes`
  (`LeaseExclusion`) holds because a turn enters `held`
  only by setting a free key and each step that takes the key from a worker
  either is that worker's own or turns its lease to `lapsed`; the compare in the release
  is what the step for `Release` uses.
- `OneAnswerProofs`: `AtMostOneAnswer`, under `CarefulWorld`: no crash, lapse,
  Redis, commit or marker failure, and replies of one bubble. `OneAnswer` is not inductive: whether
  the next answer is the first depends on what every turn has read. `Promise`
  adds that turns hold the lease, that a turn that has not sent yet has only
  unanswered messages before it, and that an answered message is marked, or the
  turn that answered it is on its way to the marker.
  `TurnTwoBubbles` shows that the assumption on bubbles cannot be dropped; the
  other assumptions stand for the failures after which the code repeats a send.
  `Implementation` is the refinement of `FrontDesk` under the
  same assumption: each step receives, answers once, leaves, or stutters, and
  `OneAnswer` is what an answering step needs.
- `OutboxProofs`: `OutboxTyping`, `NothingLost` (`PublishedIsQueued`),
  `CompletedOnce` (`CompletesOnce`), `CompletionIsEarned` (`DoneMeansHandled`).
  The strengthening says that a slot's event is active and is in no other
  slot, that every handler of it is running or has succeeded, that the row a tick is about
  to mark has a job or has been handled, and that an event with a completion has
  a job that is done.

- `TurnProofs`: `OneEscalation` (`OneOpenEscalation`), of conversations without calls, until a lease
  lapses or is skipped; everything else, crashes included, is free. `Looked` adds that a turn
  has its lease and that one which found no escalation is right when it commits: another turn at
  its commit would own the same key, and staff only close escalations.
  `MarkersAreEarned` (`MarkMeansDone`) for conversations of texts and call rows, under every
  failure. `Earned` adds that what a turn will mark is what it says, that this
  is settled once the turn has spoken (by the parts still to send), and that a marker
  which Phase 3 writes back was seen on a settled message. With media the
  statement itself is weaker: a note whose transcript arrives between the burst's read and the
  marker is marked without its words (`ai-orchestrator.service.ts:983`).
  `PendingIsCared` (`PendingHasATurn`), whose premise is in the property: texts, bursts that fit the
  window, and no lease or marker that has failed yet (`Drains`); crashes, refused sends, lost
  commits, exceptions, duplicates, staff and other senders are free. `PendingHasATurn` alone is not inductive, because the job
  of a newer message is worth nothing once its turn has decided to skip. `NobodyForgotten`
  says of each pending message that a turn has it in hand, or that a job of it or of a
  newer unmarked one, which no turn has in hand, is still to be looked at, or has failed for good;
  `Queue` says what that needs of slots and jobs (a job is in one slot, a
  turn holds its lease and has not read a marker, it answers nothing newer than
  its own message). A row that passes a message does not break it: the message is
  not pending any more.
- `InboundProofs`: `InboundTyping`, by `AttemptsLeft` (a job that may run has an
  attempt left). `RecordedOnce` and `AcknowledgedIsKept` from `Recorded`: a busy slot
  has an active job that no other slot has, the row is there when its transaction is
  over and not before, and a job that is done has left one. `NamedMessagesUnite`
  (`NamedShareConversation`) from `NamedHold`: a slot that records a message with a name has the client row
  locked from its look-up to its commit, and as long as it is about to open a conversation, no
  other that such a message opened is open; nameless messages and calls are in
  between as they like. `RowsComeFirst` from `Rooted`: an active media job has found its
  row. `CompletedIsRouted` (`DoneMeansRouted`) from `Routed`: a job that is over while the AI
  is on has passed its message on, or its first look found no row of its id or no connection of the firm.
- `BillingProofs`: `Typing` (`TypeOK`), the diary's by one step per action.
  `OffersEarliest` (`OffersAreEarliest`). The slots are computed by three nested
  loops (the list is judged when `ListSlots` makes it, before it is stored); a loop of `K` rounds has a run (`Iterates`), which is the function that `Calendar`
  writes (`WindowRounds`, `DayRounds`, `HorizonRounds`), and its invariant `Lists` goes from one
  round to the next: the list has the open ones among the cells seen so
  far, in order, and leaves out only what comes after `Limit` of them (`KeepLists`,
  `WindowLists`, `DayLists`, `HorizonLists`). Induction is over the number of
  rounds, by the least counterexample (`Induct`), which needs no operator as a parameter.
  `BookableIs` then shows that the cells seen are those `Bookable` describes, and that
  the rows which `listOpenSlots` leaves out of its query cannot meet one. Each cell must
  come after all earlier ones: hence the hypothesis `WindowsApart`, that no window of a
  weekday reaches into a later one. The team page writes one window per weekday; the API
  stores what it is sent (`lawyers.service.ts:137-160`), and with windows that cross it is false: 2 to 6 and 3 to 5,
  slots of 2, an offer of two is 2-4 and 4-6, without 3-5.
  `BookedOnce` (`NoDoubleBooking`): each step replaces one row by one
  that is not live or meets no live row (`Rewritten`); uncommitted rows count,
  because an insert waits for them. `ChargedOnce`, `MoneyIsAnnounced`,
  `ReceiptsArrive` from `Billed`: a job is in one slot at most, a slot about to charge
  works for a job that has not charged, what a request is about to refund was
  announced or is cash, and a slot past its receipt has reached the client or
  found its reason not to.
- `VoiceCallProofs`: `Typing`, with `ThreadsFollowJobs` (a thread is somewhere
  exactly while its job is active). `ClaimsResolveOnce`
  (`OneInvitePerCaller`) and `ClaimsMeetInvites` (`NoMatchWaits`) are inductive together,
  with the park's types. `CallsLeaveOneEntry`, `OutcomesStay` and `RecordsStayTrue` from
  `Sound`: while its connect job may still get anywhere a call has no session;
  afterwards the session, or the thread that took it, is the one right to
  complete the call; and a disposition that a session, a thread or the row
  claims names a deed.
- `TeamProofs`: `Typing`, with the fact that a row somebody has locked is there.
  `LastAdminTakesTwo` (`OneRequestCannotLockOut`) from `Counted`: who has counted
  nobody else carries nothing that takes an Admin away. `CancellationHolds`
  (`CancelledIsGone`) and `ClerkIsTold` (`ClerkFollowsChanges`) under `OnePerPerson`, from `Agreed`: a
  request owns its person and his row, a row about to be deleted has nothing left
  at Clerk, and between the call and the commit neither the membership nor the
  invitation comes to be worth more than the row.

Every invariant and action property that a passing run checks is a theorem, some under
the hypotheses named above.
Only model-checked is liveness (`QueueDrains`, `EventuallyHandled`,
`AnsweredCallsEnd`, `DriftHeals`), which is out of this prover's reach together with
ENABLED.

## 5. Not modelled

The stages of the plan are done: the turn and its queue first, then recording,
diary and payments, calls, and their proofs. What is left out, and why:

- Drafts (`inbox.service.ts:542`): an approval sends and then updates, with no
  check of the draft's state. There is nothing for a property to hold on to but
  "one send per click", which is the assignment itself. It is listed as a hazard.
- Automatic cases (`case-auto-create.handler.ts`): creation and link are two
  transactions with nothing between them that would keep a second case away.
- Case status, lawyers, firm profile: CRUD in one transaction per request.
- Of team and sign-in: the seeding of roles and permissions, look-ups by address that meet
  another person's row, development without Clerk, an update to INVITED, the audit log.
- Connecting a firm's WhatsApp number (`modules/whatsapp`, onboarding): one-off sequences of
  calls to providers, started by hand; what other parts read of them is that the
  firm has a number.
- Reminders of appointments and hearings: a scan that sends in one step and
  marks in another, so that a failure between them repeats a reminder; no line
  promises otherwise.
- Notifications: one independent best-effort delivery per recipient; that the
  handler runs at least once is what `Outbox` shows.
- Analytics, audit, retrieval, prompts, language rules: read models and
  third-party work; what models say is a free choice in `AiTurn`.
- `PilotBridgeService` and `StatusProcessor`: registered nowhere, so no state
  of the running program comes from them.
- The web client: screens over the API without state that other parts read. It
  is half of the repository's lines.
- Payment rails: the only adapter is a stub that completes nothing at once; a callback
  is what `processWebhook` accepts.
- Contents: amounts, texts, audio, PDF files, phone-number formats.

## 6. Running

In this directory: `tlc -workers 2 -config TurnMedia.cfg MCAiTurn`. The `Turn*`
configurations belong to `MCAiTurn`, `OutboxDelivers` to `MCOutbox`,
`InboundRecords` and `MetaRetryLoses` to `MCInbound`, `BillingSettles` to
`MCBilling`, `CallsEnd` to `MCVoiceCall`, `TeamAgrees` to `Team`. The largest runs take
three to four minutes. Proofs: `tlapm AiTurnProofs.tla`, and in the same way
`OneAnswerProofs`, `TurnProofs`, `OutboxProofs`,
`InboundProofs`, `BillingProofs`, `VoiceCallProofs` and `TeamProofs`; each takes a few minutes at most.
