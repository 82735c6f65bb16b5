------------------------------- MODULE Outbox -------------------------------
(***************************************************************************)
(* The transactional outbox and the domain-events queue behind it.         *)
(*                                                                         *)
(* A service appends an event in the transaction of its state change       *)
(* (outbox-writer.ts).  Every two seconds a dispatcher, one per worker     *)
(* replica, selects the oldest unpublished rows in a transaction of its    *)
(* own, adds each to BullMQ under the row's id and then marks the row      *)
(* (outbox-dispatcher.processor.ts).  A worker runs every handler of the   *)
(* event at once; the first handler that throws settles the job while its  *)
(* siblings run on (domain-events-dispatcher.processor.ts).                *)
(*                                                                         *)
(* Abstracted: payloads and types (all events have the same handlers), what*)
(* a handler does (AiTurn models the one that answers the client), delays  *)
(* and the two-second tick.  An event is its place in `occurredAt` order.  *)
(***************************************************************************)
EXTENDS Integers, FiniteSets

CONSTANTS
    E,            \* events; e occurred before e + 1
    Dispatchers,  \* outbox ticks that may run at once, over all replicas
    Workers,      \* slots of the domain-events worker, over all replicas
    Handlers,     \* handlers registered for the events
    Limit,        \* LIMIT of the select (100 in the code)
    MaxAttempts,  \* BullMQ `attempts` of a job (5 in the code)
    Env,          \* what may go wrong in this instance
    MaxFaults     \* bound on the failures of one behaviour

Event == 1..E
EnvKinds == {"stop",   \* a tick dies, or Redis or Postgres refuses it
             "crash",  \* a worker process dies with its jobs
             "throw",  \* a handler throws
             "later",  \* a handler throws RetryLater
             "dead",   \* a handler throws a non-retryable error
             "trim"}   \* removeOnComplete forgets a completed job

ASSUME OutboxParameters ==
    /\ E \in Nat \ {0} /\ Limit \in Nat \ {0} /\ MaxAttempts \in Nat \ {0}
    /\ Env \subseteq EnvKinds /\ MaxFaults \in Nat

VARIABLES
    row,        \* platform.outbox_events: absent, pending or published
    tick,       \* where each dispatcher is
    batch,      \* the rows it still has to enqueue
    job,        \* BullMQ state of each event's job
    attempts,   \* attemptsMade of each job
    stalls,     \* times BullMQ found the job stalled
    slot,       \* the event each worker slot runs, 0 if none
    running,    \* handlers of that run that have not finished
    orphans,    \* handlers still running for a job that is already settled
    handled,    \* <<event, handler>> pairs whose handler has succeeded
    completed,  \* completions of each event since BullMQ last forgot its job
    faults      \* failures so far

outboxVars == <<row, tick, batch>>
queueVars == <<job, attempts, stalls>>
workVars == <<slot, running, orphans, handled, completed>>
vars == <<outboxVars, queueVars, workVars, faults>>

RowState == {"absent", "pending", "published"}
TickState == {"idle", "select", "add", "update"}
JobState == {"none", "waiting", "active", "stalled", "done", "failed"}

Fault(kind) == kind \in Env /\ faults < MaxFaults /\ faults' = faults + 1

Oldest(S, k) == {e \in S : Cardinality({x \in S : x < e}) < k}
First(S) == CHOOSE e \in S : \A x \in S : e <= x

-----------------------------------------------------------------------------
(* The outbox                                                              *)

(* OutboxWriter.append, when the enclosing transaction commits.            *)
Append(e) ==
    /\ row[e] = "absent"
    /\ row' = [row EXCEPT ![e] = "pending"]
    /\ UNCHANGED <<tick, batch, queueVars, workVars, faults>>

(* Rows of an open select: FOR UPDATE, until that transaction commits.     *)
LockedRows(d) == UNION {batch[x] : x \in {y \in Dispatchers \ {d} : tick[y] = "select"}}

(* SELECT ... ORDER BY "occurredAt" LIMIT n FOR UPDATE SKIP LOCKED.        *)
Select(d) ==
    LET free == {e \in Event : row[e] = "pending"} \ LockedRows(d)
    IN  /\ tick[d] = "idle" /\ free # {}
        /\ batch' = [batch EXCEPT ![d] = Oldest(free, Limit)]
        /\ tick' = [tick EXCEPT ![d] = "select"]
        /\ UNCHANGED <<row, queueVars, workVars, faults>>

(* withPlatform returns: the select commits and its row locks are gone.    *)
CommitSelect(d) ==
    /\ tick[d] = "select"
    /\ tick' = [tick EXCEPT ![d] = "add"]
    /\ UNCHANGED <<row, batch, queueVars, workVars, faults>>

(* Seeded bug: add without a jobId, so a known event is queued again.      *)
JobsAfterBlindAdd(e) == [job EXCEPT ![e] = IF @ = "active" THEN @ ELSE "waiting"]

(* queue.add with jobId = event id: nothing happens while a job of that id *)
(* is in Redis, whatever its state.                                        *)
JobsAfterAdd(e) == [job EXCEPT ![e] = IF @ = "none" THEN "waiting" ELSE @]

Add(d) ==
    /\ tick[d] = "add"
    /\ job' = JobsAfterAdd(First(batch[d]))
    /\ tick' = [tick EXCEPT ![d] = "update"]
    /\ UNCHANGED <<row, batch, attempts, stalls, workVars, faults>>

(* Seeded bug: the whole batch is marked published after its first add.    *)
RowsAfterBatchUpdate(d) ==
    [e \in Event |-> IF e \in batch[d] THEN "published" ELSE row[e]]

(* UPDATE ... SET "publishedAt" = now() of the event just added.           *)
RowsAfterUpdate(d) == [row EXCEPT ![First(batch[d])] = "published"]

(* The update waits for a select that has the row locked.                  *)
Update(d) ==
    LET rest == batch[d] \ {First(batch[d])}
    IN  /\ tick[d] = "update"
        /\ First(batch[d]) \notin LockedRows(d)
        /\ row' = RowsAfterUpdate(d)
        /\ batch' = [batch EXCEPT ![d] = rest]
        /\ tick' = [tick EXCEPT ![d] = IF rest = {} THEN "idle" ELSE "add"]
        /\ UNCHANGED <<queueVars, workVars, faults>>

(* The process dies, or Redis or Postgres refuses the next call: the rest  *)
(* of the batch is left to a later tick.                                   *)
TickStops(d) ==
    /\ Fault("stop")
    /\ tick[d] # "idle"
    /\ tick' = [tick EXCEPT ![d] = "idle"]
    /\ batch' = [batch EXCEPT ![d] = {}]
    /\ UNCHANGED <<row, queueVars, workVars>>

-----------------------------------------------------------------------------
(* The queue and its workers                                               *)

(* A waiting job starts all its handlers (Promise.all).                    *)
Start(w, e) ==
    /\ slot[w] = 0 /\ job[e] = "waiting"
    /\ job' = [job EXCEPT ![e] = "active"]
    /\ slot' = [slot EXCEPT ![w] = e]
    /\ running' = [running EXCEPT ![w] = Handlers]
    /\ UNCHANGED <<outboxVars, attempts, stalls, orphans, handled, completed, faults>>

Succeeds(w, h) ==
    /\ h \in running[w]
    /\ running' = [running EXCEPT ![w] = @ \ {h}]
    /\ handled' = handled \cup {<<slot[w], h>>}
    /\ UNCHANGED <<outboxVars, queueVars, slot, orphans, completed, faults>>

(* Seeded bug: one handler's success is enough (Promise.any).              *)
AnyIsOver(w) == slot[w] # 0 /\ running[w] # Handlers

(* Promise.all resolves when every handler has.                            *)
AllAreOver(w) == slot[w] # 0 /\ running[w] = {}

Leave(w, state, attemptsMade) ==
    /\ job' = [job EXCEPT ![slot[w]] = state]
    /\ attempts' = [attempts EXCEPT ![slot[w]] = attemptsMade]
    /\ slot' = [slot EXCEPT ![w] = 0]
    /\ running' = [running EXCEPT ![w] = {}]

Complete(w) ==
    /\ AllAreOver(w)
    /\ Leave(w, "done", attempts[slot[w]])
    /\ completed' = [completed EXCEPT ![slot[w]] = @ + 1]
    /\ UNCHANGED <<outboxVars, stalls, orphans, handled, faults>>

(* The first handler that throws settles the job; the others run on, and   *)
(* nobody waits for them.                                                  *)
Rejects(w, h, state, attemptsMade) ==
    /\ h \in running[w]
    /\ Leave(w, state, attemptsMade)
    /\ orphans' = orphans \cup {<<slot[w], x>> : x \in running[w] \ {h}}
    /\ UNCHANGED <<outboxVars, stalls, handled, completed>>

(* An ordinary error burns an attempt; the last one leaves the job failed, *)
(* for good (removeOnFail: false).                                         *)
Throws(w, h) ==
    /\ Fault("throw")
    /\ slot[w] # 0
    /\ LET made == attempts[slot[w]] + 1
       IN  Rejects(w, h, IF made < MaxAttempts THEN "waiting" ELSE "failed", made)

(* Seeded bug: RetryLater is swallowed and the job counts as done.         *)
DefersForGood(w, h) ==
    /\ Fault("later")
    /\ slot[w] # 0
    /\ Rejects(w, h, "done", attempts[slot[w]])

(* Contention (RetryLater) moves the job to delayed and burns nothing.     *)
Defers(w, h) ==
    /\ Fault("later")
    /\ slot[w] # 0
    /\ Rejects(w, h, "waiting", attempts[slot[w]])

(* Seeded bug: the attempt that fails is counted on top of all of them.    *)
DiscardsOneTooMany(w, h) ==
    /\ Fault("dead")
    /\ slot[w] # 0
    /\ Rejects(w, h, "failed", MaxAttempts + 1)

(* A non-retryable error uses all attempts up at once.                     *)
Discards(w, h) ==
    /\ Fault("dead")
    /\ slot[w] # 0
    /\ Rejects(w, h, "failed", MaxAttempts)

OrphanEnds(o) ==
    /\ o \in orphans
    /\ orphans' = orphans \ {o}
    /\ handled' \in {handled, handled \cup {o}}
    /\ UNCHANGED <<outboxVars, queueVars, slot, running, completed, faults>>

(* The process dies: its job stays active in Redis until the stalled check.*)
Crash(w) ==
    /\ Fault("crash")
    /\ slot[w] # 0
    /\ job' = [job EXCEPT ![slot[w]] = "stalled"]
    /\ slot' = [slot EXCEPT ![w] = 0]
    /\ running' = [running EXCEPT ![w] = {}]
    /\ UNCHANGED <<outboxVars, attempts, stalls, orphans, handled, completed>>

(* BullMQ's stalled check, at its default of one recovery.                 *)
RecoverStalled(e) ==
    /\ job[e] = "stalled"
    /\ job' = [job EXCEPT ![e] = IF stalls[e] = 0 THEN "waiting" ELSE "failed"]
    /\ stalls' = [stalls EXCEPT ![e] = 1]
    /\ UNCHANGED <<outboxVars, attempts, workVars, faults>>

(* removeOnComplete: an hour, or a thousand later completions, have passed.*)
Trim(e) ==
    /\ "trim" \in Env
    /\ job[e] = "done"
    /\ job' = [job EXCEPT ![e] = "none"]
    /\ attempts' = [attempts EXCEPT ![e] = 0]
    /\ stalls' = [stalls EXCEPT ![e] = 0]
    /\ completed' = [completed EXCEPT ![e] = 0]
    /\ UNCHANGED <<outboxVars, slot, running, orphans, handled, faults>>

-----------------------------------------------------------------------------
Init ==
    /\ row = [e \in Event |-> "absent"]
    /\ tick = [d \in Dispatchers |-> "idle"]
    /\ batch = [d \in Dispatchers |-> {}]
    /\ job = [e \in Event |-> "none"]
    /\ attempts = [e \in Event |-> 0]
    /\ stalls = [e \in Event |-> 0]
    /\ slot = [w \in Workers |-> 0]
    /\ running = [w \in Workers |-> {}]
    /\ orphans = {} /\ handled = {}
    /\ completed = [e \in Event |-> 0]
    /\ faults = 0

TickStep(d) == Select(d) \/ CommitSelect(d) \/ Add(d) \/ Update(d)

WorkerStep(w) == (\E h \in Handlers : Succeeds(w, h)) \/ Complete(w)

WorkerFault(w) ==
    \/ \E h \in Handlers : Throws(w, h) \/ Defers(w, h) \/ Discards(w, h)
    \/ Crash(w)

Next ==
    \/ \E e \in Event : Append(e) \/ RecoverStalled(e) \/ Trim(e)
    \/ \E d \in Dispatchers : TickStep(d) \/ TickStops(d)
    \/ \E w \in Workers, e \in Event : Start(w, e)
    \/ \E w \in Workers : WorkerStep(w) \/ WorkerFault(w)
    \/ \E o \in Event \X Handlers : OrphanEnds(o)

Spec == Init /\ [][Next]_vars

(* The tick recurs every two seconds, live workers go on, BullMQ finds     *)
(* stalled jobs and hands a job that keeps waiting to some worker.  Nobody *)
(* has to append, and nothing has to fail.                                 *)
Fairness ==
    /\ \A d \in Dispatchers : WF_vars(TickStep(d))
    /\ \A w \in Workers : WF_vars(WorkerStep(w))
    /\ \A e \in Event : /\ WF_vars(RecoverStalled(e))
                        /\ SF_vars(\E w \in Workers : Start(w, e))

FairSpec == Spec /\ Fairness

-----------------------------------------------------------------------------
(* Properties                                                              *)

(* Every variable holds what the code could store in it.                   *)
TypeOK ==
    /\ row \in [Event -> RowState]
    /\ tick \in [Dispatchers -> TickState]
    /\ batch \in [Dispatchers -> SUBSET Event]
    /\ job \in [Event -> JobState]
    /\ attempts \in [Event -> 0..MaxAttempts]
    /\ stalls \in [Event -> 0..1]
    /\ slot \in [Workers -> 0..E]
    /\ running \in [Workers -> SUBSET Handlers]
    /\ orphans \subseteq Event \X Handlers
    /\ handled \subseteq Event \X Handlers
    /\ completed \in [Event -> Nat]
    /\ faults \in 0..MaxFaults

Handled(e) == \A h \in Handlers : <<e, h>> \in handled

(* OutboxDispatcher: a published row is never selected again, so BullMQ    *)
(* has its event, or has finished with it, however ticks overlap and die.  *)
PublishedIsQueued ==
    \A e \in Event : row[e] = "published" => job[e] # "none" \/ Handled(e)

(* OutboxDispatcher and DomainEventsDispatcher: while BullMQ remembers the *)
(* id of a finished job, an event is processed to completion at most once, *)
(* however many ticks hold its row; a failed job is not revived by them.   *)
CompletesOnce == \A e \in Event : completed[e] <= 1

(* DomainEventsDispatcher: a job leaves the retries as completed only when *)
(* every handler of its event has succeeded, over whichever of its runs.   *)
DoneMeansHandled == \A e \in Event : job[e] = "done" => Handled(e)

(* An appended event reaches every handler, or its job ends in the failed  *)
(* set, where an operator finds it: dying ticks and workers lose nothing.  *)
EventuallyHandled ==
    \A e \in Event :
        row[e] = "pending" ~> (job[e] = "failed" \/ Handled(e))
=============================================================================
