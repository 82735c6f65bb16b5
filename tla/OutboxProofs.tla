---------------------------- MODULE OutboxProofs ----------------------------
(***************************************************************************)
(* What the outbox and its queue never do, for every number of events,     *)
(* replicas, worker slots and handlers, every batch limit and any failures.*)
(*                                                                         *)
(* The properties lean on each other: a published row may miss its job only*)
(* because a completed job was forgotten, which needs that completed jobs  *)
(* were handled by everyone, which needs that a job is run by one slot that*)
(* has seen the handlers it no longer waits for succeed.  Those facts, one *)
(* part per event, per slot and per tick, are the inductive invariant.     *)
(***************************************************************************)
EXTENDS Outbox, TLAPS

(* An event's row, its job and its counters.                               *)
EventOK(e) ==
    /\ job[e] \notin {"done", "failed"} => attempts[e] < MaxAttempts
    /\ job[e] # "done" => completed[e] = 0
    /\ completed[e] <= 1
    /\ job[e] = "done" => Handled(e)
    /\ row[e] = "published" => job[e] # "none" \/ Handled(e)

(* A slot runs an active job alone and knows which handlers are over.      *)
SlotOK(w) ==
    IF slot[w] = 0 THEN running[w] = {}
    ELSE /\ job[slot[w]] = "active"
         /\ \A v \in Workers : slot[v] = slot[w] => v = w
         /\ \A h \in Handlers \ running[w] : <<slot[w], h>> \in handled

(* BullMQ has the event, or has finished with it.                          *)
Taken(e) == job[e] # "none" \/ Handled(e)

(* A tick about to mark a row published has given its event to BullMQ.     *)
TickOK(d) ==
    tick[d] = "update" => \A e \in Event : e = First(batch[d]) => Taken(e)

Inv == /\ TypeOK
       /\ \A e \in Event : EventOK(e)
       /\ \A w \in Workers : SlotOK(w)
       /\ \A d \in Dispatchers : TickOK(d)

(* A tick that is, and was, past its add keeps its fact as long as BullMQ  *)
(* keeps the job or the event is handled.                                  *)
LEMMA TickKept ==
  ASSUME NEW x \in Dispatchers, TickOK(x),
         tick'[x] = "update" => tick[x] = "update" /\ batch'[x] = batch[x],
         \A e \in Event : Taken(e) => Taken(e)'
  PROVE  TickOK(x)'
<1> SUFFICES ASSUME tick'[x] = "update", NEW e \in Event, e = First(batch'[x])
             PROVE  Taken(e)'
  BY DEF TickOK, First, Event
<1>1. First(batch'[x]) = First(batch[x])
  OBVIOUS
<1>2. QED
  BY <1>1 DEF TickOK

(* It holds before the first event.                                        *)
LEMMA InvInit == Init => Inv
<1> SUFFICES ASSUME Init PROVE Inv
  OBVIOUS
<1> USE OutboxParameters DEF Init
<1>1. TypeOK
  BY DEF TypeOK, RowState, TickState, JobState
<1>2. /\ \A e \in Event : EventOK(e)
      /\ \A w \in Workers : SlotOK(w)
      /\ \A d \in Dispatchers : TickOK(d)
  BY DEF EventOK, SlotOK, TickOK
<1>3. QED
  BY <1>1, <1>2 DEF Inv

(* Appends and the ticks, which own the rows and hand events to BullMQ.    *)
LEMMA OutboxKeepsInv ==
  ASSUME Inv,
         \/ \E e \in Event : Append(e)
         \/ \E d \in Dispatchers : TickStep(d) \/ TickStops(d)
  PROVE  Inv'
<1> USE OutboxParameters DEF queueVars, workVars, Handled
<1>1. ASSUME NEW e \in Event, Append(e) PROVE Inv'
  <2>1. TypeOK'
    BY <1>1 DEF Inv, TypeOK, Append, RowState
  <2>2. \A x \in Event : EventOK(x)'
    BY <1>1 DEF Inv, TypeOK, EventOK, Append
  <2>3. (\A w \in Workers : SlotOK(w)') /\ \A d \in Dispatchers : TickOK(d)'
    BY <1>1 DEF Inv, SlotOK, TickOK, Taken, First, Append
  <2>4. QED
    BY <2>1, <2>2, <2>3 DEF Inv
<1>2. ASSUME NEW d \in Dispatchers, Select(d) \/ CommitSelect(d) \/ TickStops(d) PROVE Inv'
  <2>0. /\ UNCHANGED <<row, queueVars, workVars>>
        /\ faults' \in 0..MaxFaults
        /\ \E b \in SUBSET Event : batch' = [batch EXCEPT ![d] = b]
        /\ \E t \in {"idle", "select", "add"} : tick' = [tick EXCEPT ![d] = t]
    <3>1. CASE Select(d)
      BY <3>1 DEF Inv, TypeOK, Select, Oldest
    <3>2. CASE CommitSelect(d)
      BY <3>2 DEF Inv, TypeOK, CommitSelect
    <3>3. CASE TickStops(d)
      <4>1. {} \in SUBSET Event
        OBVIOUS
      <4>2. faults' \in 0..MaxFaults
        BY <3>3 DEF Inv, TypeOK, TickStops, Fault
      <4>3. QED
        BY <3>3, <4>1, <4>2 DEF TickStops
    <3>4. QED
      BY <1>2, <3>1, <3>2, <3>3
  <2>1. TypeOK'
    BY <2>0 DEF Inv, TypeOK, TickState
  <2>2. (\A e \in Event : EventOK(e)') /\ \A w \in Workers : SlotOK(w)'
    BY <2>0 DEF Inv, EventOK, SlotOK
  <2>3. ASSUME NEW x \in Dispatchers PROVE TickOK(x)'
    <3>1. \A e \in Event : Taken(e) => Taken(e)'
      BY <2>0 DEF Taken
    <3>2. tick'[x] = "update" => tick[x] = "update" /\ batch'[x] = batch[x]
      BY <2>0 DEF Inv, TypeOK
    <3>3. QED
      BY <3>1, <3>2, TickKept DEF Inv
  <2>4. QED
    BY <2>1, <2>2, <2>3 DEF Inv
<1>3. ASSUME NEW d \in Dispatchers, Add(d) PROVE Inv'
  <2> DEFINE e == First(batch[d])
  <2>0. /\ \A x \in Event : job'[x] = IF x = e /\ job[x] = "none" THEN "waiting" ELSE job[x]
        /\ UNCHANGED <<row, batch, attempts, stalls, workVars, faults>>
        /\ tick' = [tick EXCEPT ![d] = "update"]
    BY <1>3 DEF Inv, TypeOK, Add, JobsAfterAdd
  <2>1. TypeOK'
    <3>1. job' \in [Event -> JobState]
      BY <1>3, <2>0 DEF Inv, TypeOK, Add, JobsAfterAdd, JobState
    <3>2. QED
      BY <2>0, <3>1 DEF Inv, TypeOK, TickState
  <2>2. \A x \in Event : EventOK(x)'
    BY <2>0 DEF Inv, EventOK
  <2>3. ASSUME NEW w \in Workers PROVE SlotOK(w)'
    <3>1. slot[w] # 0 => slot[w] \in Event
      BY DEF Inv, TypeOK, Event
    <3>2. QED
      BY <2>0, <3>1 DEF Inv, SlotOK
  <2>4. ASSUME NEW x \in Dispatchers PROVE TickOK(x)'
    <3>1. \A y \in Event : Taken(y) => Taken(y)'
      BY <2>0 DEF Taken
    <3>2. CASE x = d
      BY <2>0, <3>2 DEF TickOK, Taken, First, Event
    <3>3. CASE x # d
      <4>1. tick'[x] = tick[x] /\ batch'[x] = batch[x]
        BY <2>0, <3>3 DEF Inv, TypeOK
      <4>2. QED
        BY <3>1, <4>1, TickKept DEF Inv
    <3>4. QED
      BY <3>2, <3>3
  <2>5. QED
    BY <2>1, <2>2, <2>3, <2>4 DEF Inv
<1>4. ASSUME NEW d \in Dispatchers, Update(d) PROVE Inv'
  <2> DEFINE e == First(batch[d])
  <2>0. /\ row' = [row EXCEPT ![e] = "published"]
        /\ UNCHANGED <<queueVars, workVars, faults>>
        /\ batch' = [batch EXCEPT ![d] = @ \ {e}]
        /\ \E t \in {"idle", "add"} : tick' = [tick EXCEPT ![d] = t]
        /\ tick[d] = "update"
    BY <1>4 DEF Update, RowsAfterUpdate
  <2>1. TypeOK'
    BY <2>0 DEF Inv, TypeOK, TickState, RowState
  <2>2. e \in Event => Taken(e)
    BY <2>0 DEF Inv, TickOK
  <2>3. \A x \in Event : EventOK(x)'
    BY <2>0, <2>2 DEF Inv, TypeOK, EventOK, Taken
  <2>4. ASSUME NEW x \in Dispatchers PROVE TickOK(x)'
    <3>1. \A y \in Event : Taken(y) => Taken(y)'
      BY <2>0 DEF Taken
    <3>2. tick'[x] = "update" => tick[x] = "update" /\ batch'[x] = batch[x]
      BY <2>0 DEF Inv, TypeOK
    <3>3. QED
      BY <3>1, <3>2, TickKept DEF Inv
  <2>5. \A w \in Workers : SlotOK(w)'
    BY <2>0 DEF Inv, SlotOK
  <2>6. QED
    BY <2>1, <2>3, <2>4, <2>5 DEF Inv
<1>5. QED
  BY <1>1, <1>2, <1>3, <1>4 DEF TickStep

(* A slot gives its job up: to the next attempt, the failed set, the       *)
(* stalled check, or as done when no handler is left.                      *)
LEMMA LeaveKeepsInv ==
  ASSUME Inv, NEW w \in Workers, slot[w] # 0,
         NEW state \in {"waiting", "stalled", "failed", "done"},
         NEW made \in 0..MaxAttempts,
         state \notin {"failed", "done"} => made < MaxAttempts,
         Leave(w, state, made),
         state = "done" => running[w] = {},
         completed' = [completed EXCEPT ![slot[w]] = IF state = "done" THEN @ + 1 ELSE @],
         orphans' \subseteq Event \X Handlers, faults' \in 0..MaxFaults,
         UNCHANGED <<outboxVars, stalls, handled>>
  PROVE  Inv'
<1> DEFINE e == slot[w]
<1> USE OutboxParameters DEF outboxVars
<1>1. e \in Event /\ job[e] = "active"
  BY DEF Inv, TypeOK, SlotOK, Event
<1>2. /\ job' = [job EXCEPT ![e] = state] /\ attempts' = [attempts EXCEPT ![e] = made]
      /\ slot' = [slot EXCEPT ![w] = 0] /\ running' = [running EXCEPT ![w] = {}]
  BY DEF Leave
<1> HIDE DEF e
<1>3. TypeOK'
  <2>1. job' \in [Event -> JobState] /\ attempts' \in [Event -> 0..MaxAttempts]
    BY <1>2 DEF Inv, TypeOK, JobState
  <2>2. slot' \in [Workers -> 0..E] /\ running' \in [Workers -> SUBSET Handlers]
    BY <1>2 DEF Inv, TypeOK
  <2>3. completed' \in [Event -> Nat]
    BY <1>1 DEF Inv, TypeOK, e
  <2>4. QED
    BY <2>1, <2>2, <2>3 DEF Inv, TypeOK
<1>4. state = "done" => Handled(e)
  BY <1>1 DEF Inv, SlotOK, Handled, e
<1>5. ASSUME NEW x \in Event PROVE EventOK(x)'
  <2>1. CASE x = e
    <3>1. completed[e] = 0 /\ completed'[e] = IF state = "done" THEN 1 ELSE 0
      BY <1>1 DEF Inv, TypeOK, EventOK, e
    <3>2. job'[e] = state /\ attempts'[e] = made
      BY <1>1, <1>2 DEF Inv, TypeOK
    <3>3. QED
      BY <1>4, <2>1, <3>1, <3>2 DEF EventOK, Handled
  <2>2. CASE x # e
    <3>1. /\ job'[x] = job[x] /\ attempts'[x] = attempts[x]
          /\ completed'[x] = completed[x]
      BY <1>2, <2>2 DEF Inv, TypeOK, e
    <3>2. QED
      BY <3>1 DEF Inv, EventOK, Handled
  <2>3. QED
    BY <2>1, <2>2
<1>6. ASSUME NEW v \in Workers PROVE SlotOK(v)'
  <2>1. CASE v = w
    BY <1>2, <2>1 DEF Inv, TypeOK, SlotOK
  <2>2. CASE v # w /\ slot[v] = 0
    BY <1>2, <2>2 DEF Inv, TypeOK, SlotOK
  <2>3. CASE v # w /\ slot[v] # 0
    <3>1. slot[v] # e /\ slot[v] \in Event
      BY <2>3 DEF Inv, TypeOK, SlotOK, Event, e
    <3>2. /\ slot'[v] = slot[v] /\ running'[v] = running[v]
          /\ job'[slot[v]] = job[slot[v]]
      BY <1>2, <2>3, <3>1 DEF Inv, TypeOK
    <3>3. \A u \in Workers : slot'[u] = slot[v] => u = v
      BY <1>2, <2>3 DEF Inv, TypeOK, SlotOK
    <3>4. QED
      BY <2>3, <3>2, <3>3 DEF Inv, SlotOK
  <2>4. QED
    BY <2>1, <2>2, <2>3
<1>7. ASSUME NEW d \in Dispatchers PROVE TickOK(d)'
  <2>1. \A x \in Event : Taken(x) => Taken(x)'
    BY <1>2 DEF Inv, TypeOK, Taken, Handled
  <2>2. QED
    BY <2>1, TickKept DEF Inv
<1>8. QED
  BY <1>3, <1>5, <1>6, <1>7 DEF Inv

(* The worker's own steps and failures.                                    *)
LEMMA WorkerKeepsInv ==
  ASSUME Inv, NEW w \in Workers, WorkerStep(w) \/ WorkerFault(w)
  PROVE  Inv'
<1> USE OutboxParameters DEF outboxVars, queueVars
<1>0. TypeOK /\ SlotOK(w) /\ \A e \in Event : EventOK(e)
  BY DEF Inv
<1>1. ASSUME NEW h \in Handlers, Succeeds(w, h) PROVE Inv'
  <2>0. slot[w] # 0 /\ slot[w] \in Event
    BY <1>0, <1>1 DEF TypeOK, SlotOK, Succeeds, Event
  <2>1. TypeOK'
    BY <1>0, <1>1, <2>0 DEF TypeOK, Succeeds
  <2>2. \A e \in Event : EventOK(e)'
    BY <1>0, <1>1 DEF EventOK, Handled, Succeeds
  <2>3. ASSUME NEW v \in Workers PROVE SlotOK(v)'
    <3>1. CASE v = w
      BY <1>0, <1>1, <2>0, <3>1 DEF TypeOK, SlotOK, Succeeds
    <3>2. CASE v # w
      BY <1>0, <1>1, <3>2 DEF Inv, TypeOK, SlotOK, Succeeds
    <3>3. QED
      BY <3>1, <3>2
  <2>4. ASSUME NEW d \in Dispatchers PROVE TickOK(d)'
    <3>1. \A e \in Event : Taken(e) => Taken(e)'
      BY <1>1 DEF Taken, Handled, Succeeds
    <3>2. QED
      BY <1>1, <3>1, TickKept DEF Inv, Succeeds
  <2>5. QED
    BY <2>1, <2>2, <2>3, <2>4 DEF Inv
<1>2. slot[w] # 0 => /\ slot[w] \in Event /\ attempts[slot[w]] \in 0..MaxAttempts
                      /\ attempts[slot[w]] < MaxAttempts
                      /\ completed = [completed EXCEPT ![slot[w]] = @]
  <2>1. slot[w] # 0 => /\ slot[w] \in Event /\ attempts[slot[w]] \in 0..MaxAttempts
                       /\ attempts[slot[w]] < MaxAttempts
    <3>1. slot[w] # 0 => slot[w] \in Event /\ job[slot[w]] = "active"
      BY <1>0 DEF TypeOK, SlotOK, Event
    <3>2. QED
      BY <1>0, <3>1 DEF TypeOK, EventOK
  <2>2. ASSUME NEW x PROVE completed = [completed EXCEPT ![x] = @]
    BY <1>0 DEF TypeOK
  <2>3. QED
    BY <2>1, <2>2
<1>3. CASE Complete(w)
  <2>1. slot[w] # 0 /\ running[w] = {}
    BY <1>3 DEF Complete, AllAreOver
  <2>2. orphans' \subseteq Event \X Handlers /\ faults' \in 0..MaxFaults
    BY <1>0, <1>3 DEF Complete, TypeOK
  <2>3. Leave(w, "done", attempts[slot[w]]) /\ UNCHANGED <<outboxVars, stalls, handled>>
        /\ completed' = [completed EXCEPT ![slot[w]] = @ + 1]
    BY <1>3 DEF Complete
  <2>4. QED
    BY <1>2, <2>1, <2>2, <2>3, LeaveKeepsInv
<1>4. ASSUME NEW h \in Handlers, NEW state \in {"waiting", "failed"},
             NEW made \in 0..MaxAttempts, state = "waiting" => made < MaxAttempts,
             slot[w] # 0, Rejects(w, h, state, made), faults' \in 0..MaxFaults
      PROVE  Inv'
  <2>1. orphans' \subseteq Event \X Handlers
    BY <1>0, <1>2, <1>4 DEF Rejects, TypeOK
  <2>2. Leave(w, state, made) /\ UNCHANGED <<outboxVars, stalls, handled, completed>>
    BY <1>4 DEF Rejects
  <2>3. QED
    BY <1>2, <1>4, <2>1, <2>2, LeaveKeepsInv
<1>5. ASSUME NEW h \in Handlers, Throws(w, h) \/ Defers(w, h) \/ Discards(w, h)
      PROVE  Inv'
  <2>1. faults' \in 0..MaxFaults /\ slot[w] # 0
    BY <1>0, <1>5 DEF Throws, Defers, Discards, Fault, TypeOK
  <2>2. CASE Throws(w, h)
    BY <1>2, <1>4, <2>1, <2>2 DEF Throws
  <2>3. CASE Defers(w, h)
    BY <1>2, <1>4, <2>1, <2>3 DEF Defers
  <2>4. CASE Discards(w, h)
    BY <1>2, <1>4, <2>1, <2>4 DEF Discards
  <2>5. QED
    BY <1>5, <2>2, <2>3, <2>4
<1>6. CASE Crash(w)
  <2>1. slot[w] # 0 /\ faults' \in 0..MaxFaults
    BY <1>0, <1>6 DEF Crash, Fault, TypeOK
  <2>2. Leave(w, "stalled", attempts[slot[w]])
    BY <1>0, <1>2, <1>6, <2>1 DEF Crash, Leave, TypeOK
  <2>3. orphans' \subseteq Event \X Handlers
    BY <1>0, <1>6 DEF Crash, TypeOK
  <2>4. UNCHANGED <<outboxVars, stalls, handled, completed>>
    BY <1>6 DEF Crash
  <2>5. QED
    BY <1>2, <2>1, <2>2, <2>3, <2>4, LeaveKeepsInv
<1>7. QED
  BY <1>1, <1>3, <1>5, <1>6 DEF WorkerStep, WorkerFault

(* BullMQ itself: it starts, recovers and forgets jobs.                    *)
LEMMA QueueKeepsInv ==
  ASSUME Inv,
         \/ \E w \in Workers, e \in Event : Start(w, e)
         \/ \E e \in Event : RecoverStalled(e) \/ Trim(e)
         \/ \E o \in Event \X Handlers : OrphanEnds(o)
  PROVE  Inv'
<1> USE OutboxParameters DEF outboxVars, queueVars, workVars
<1>0. TypeOK /\ (\A e \in Event : EventOK(e)) /\ (\A w \in Workers : SlotOK(w))
  BY DEF Inv
<1>1. ASSUME NEW w \in Workers, NEW e \in Event, Start(w, e) PROVE Inv'
  <2>0. /\ slot[w] = 0 /\ job[e] = "waiting" /\ e # 0
        /\ job' = [job EXCEPT ![e] = "active"] /\ slot' = [slot EXCEPT ![w] = e]
        /\ running' = [running EXCEPT ![w] = Handlers]
        /\ UNCHANGED <<outboxVars, attempts, stalls, orphans, handled, completed, faults>>
    BY <1>1 DEF Start, Event
  <2>1. TypeOK'
    <3>1. job' \in [Event -> JobState]
      BY <1>0, <2>0 DEF TypeOK, JobState
    <3>2. slot' \in [Workers -> 0..E] /\ running' \in [Workers -> SUBSET Handlers]
      BY <1>0, <2>0 DEF TypeOK, Event
    <3>3. QED
      BY <1>0, <2>0, <3>1, <3>2 DEF TypeOK
  <2>2. ASSUME NEW x \in Event PROVE EventOK(x)'
    BY <1>0, <2>0 DEF TypeOK, EventOK, Handled
  <2>3. \A v \in Workers : slot[v] # e
    BY <1>0, <2>0 DEF SlotOK
  <2>4. ASSUME NEW v \in Workers PROVE SlotOK(v)'
    <3>1. CASE v = w
      BY <1>0, <2>0, <2>3, <3>1 DEF TypeOK, SlotOK
    <3>2. CASE v # w /\ slot[v] = 0
      BY <1>0, <2>0, <3>2 DEF TypeOK, SlotOK
    <3>3. CASE v # w /\ slot[v] # 0
      <4>1. slot'[v] = slot[v] /\ running'[v] = running[v] /\ slot[v] \in Event
        BY <1>0, <2>0, <3>3 DEF TypeOK, Event
      <4>2. job'[slot[v]] = job[slot[v]]
        BY <1>0, <2>0, <2>3, <4>1 DEF TypeOK
      <4>3. \A u \in Workers : slot'[u] = slot[v] => u = v
        BY <1>0, <2>0, <2>3, <3>3 DEF TypeOK, SlotOK
      <4>4. QED
        BY <1>0, <2>0, <3>3, <4>1, <4>2, <4>3 DEF SlotOK
    <3>4. QED
      BY <3>1, <3>2, <3>3
  <2>5. ASSUME NEW d \in Dispatchers PROVE TickOK(d)'
    <3>1. \A x \in Event : Taken(x) => Taken(x)'
      BY <1>0, <2>0 DEF TypeOK, Taken, Handled
    <3>2. QED
      BY <2>0, <3>1, TickKept DEF Inv
  <2>6. QED
    BY <2>1, <2>2, <2>4, <2>5 DEF Inv
<1>2. ASSUME NEW e \in Event, RecoverStalled(e) \/ Trim(e) PROVE Inv'
  <2>0. PICK state \in {"waiting", "failed", "none"} :
          /\ job' = [job EXCEPT ![e] = state]
          /\ job[e] \in {"stalled", "done"}
          /\ state = "none" <=> job[e] = "done"
    BY <1>2 DEF RecoverStalled, Trim
  <2>1. /\ UNCHANGED <<outboxVars, slot, running, orphans, handled, faults>>
        /\ \A x \in Event \ {e} : /\ attempts'[x] = attempts[x]
                                  /\ completed'[x] = completed[x]
        /\ attempts'[e] < MaxAttempts /\ completed'[e] = 0
    <3>1. CASE RecoverStalled(e)
      BY <1>0, <3>1 DEF RecoverStalled, EventOK
    <3>2. CASE Trim(e)
      BY <1>0, <3>2 DEF Trim, TypeOK
    <3>3. QED
      BY <1>2, <3>1, <3>2
  <2>2. TypeOK'
    <3>1. CASE RecoverStalled(e)
      BY <1>0, <3>1 DEF RecoverStalled, TypeOK, JobState
    <3>2. CASE Trim(e)
      BY <1>0, <3>2 DEF Trim, TypeOK, JobState
    <3>3. QED
      BY <1>2, <3>1, <3>2
  <2>3. ASSUME NEW x \in Event PROVE EventOK(x)'
    <3>1. CASE x = e
      BY <1>0, <2>0, <2>1, <3>1 DEF TypeOK, EventOK, Handled
    <3>2. CASE x # e
      BY <1>0, <2>0, <2>1, <3>2 DEF TypeOK, EventOK, Handled
    <3>3. QED
      BY <3>1, <3>2
  <2>4. ASSUME NEW v \in Workers PROVE SlotOK(v)'
    <3>1. CASE slot[v] = 0
      BY <1>0, <2>1, <3>1 DEF SlotOK
    <3>2. CASE slot[v] # 0
      <4>0. slot[v] \in Event /\ job[slot[v]] = "active"
        BY <1>0, <3>2 DEF TypeOK, SlotOK, Event
      <4>1. slot[v] \in Event /\ slot[v] # e
        BY <2>0, <4>0
      <4>2. job'[slot[v]] = job[slot[v]]
        BY <1>0, <2>0, <4>1 DEF TypeOK
      <4>3. QED
        BY <1>0, <2>1, <3>2, <4>2 DEF SlotOK
    <3>3. QED
      BY <3>1, <3>2
  <2>5. ASSUME NEW d \in Dispatchers PROVE TickOK(d)'
    <3>1. \A x \in Event : Taken(x) => Taken(x)'
      BY <1>0, <2>0, <2>1 DEF TypeOK, EventOK, Taken, Handled
    <3>2. QED
      BY <2>1, <3>1, TickKept DEF Inv
  <2>6. QED
    BY <2>2, <2>3, <2>4, <2>5 DEF Inv
<1>3. ASSUME NEW o \in Event \X Handlers, OrphanEnds(o) PROVE Inv'
  <2>0. /\ UNCHANGED <<outboxVars, queueVars, slot, running, completed, faults>>
        /\ handled \subseteq handled' /\ handled' \subseteq handled \cup {o}
        /\ orphans' \subseteq orphans
    BY <1>3 DEF OrphanEnds
  <2>1. TypeOK'
    BY <1>0, <2>0 DEF TypeOK
  <2>2. \A e \in Event : EventOK(e)'
    BY <1>0, <2>0 DEF EventOK, Handled
  <2>3. \A v \in Workers : SlotOK(v)'
    BY <1>0, <2>0 DEF SlotOK
  <2>4. ASSUME NEW d \in Dispatchers PROVE TickOK(d)'
    <3>1. \A x \in Event : Taken(x) => Taken(x)'
      BY <2>0 DEF Taken, Handled
    <3>2. QED
      BY <2>0, <3>1, TickKept DEF Inv
  <2>5. QED
    BY <2>1, <2>2, <2>3, <2>4 DEF Inv
<1>4. QED
  BY <1>1, <1>2, <1>3

(* The invariant of the outbox, from its two facts.                        *)
LEMMA OutboxInvariance == Spec => []Inv
<1>1. Inv /\ [Next]_vars => Inv'
  <2> SUFFICES ASSUME Inv, [Next]_vars PROVE Inv'
    OBVIOUS
  <2>1. CASE UNCHANGED vars
    BY <2>1 DEF vars, outboxVars, queueVars, workVars, Inv, TypeOK, EventOK, SlotOK,
       TickOK, Taken, Handled, First
  <2>2. CASE Next
    BY <2>2, OutboxKeepsInv, QueueKeepsInv, WorkerKeepsInv DEF Next
  <2>3. QED
    BY <2>1, <2>2
<1>2. QED
  BY <1>1, InvInit, PTL DEF Spec

(* The typing invariant of Outbox, for every value of its constants.       *)
THEOREM OutboxTyping == Spec => []TypeOK
  BY OutboxInvariance, PTL DEF Inv

(* The outbox loses nothing: OutboxDispatcher marks a row only once BullMQ *)
(* has its event, for any number of overlapping and dying ticks.           *)
THEOREM NothingLost == Spec => []PublishedIsQueued
<1>1. Inv => PublishedIsQueued
  BY DEF Inv, EventOK, PublishedIsQueued
<1>2. QED
  BY <1>1, OutboxInvariance, PTL

(* The job id of OutboxDispatcher makes overlapping claims harmless as long*)
(* as BullMQ remembers it.                                                 *)
THEOREM CompletedOnce == Spec => []CompletesOnce
<1>1. Inv => CompletesOnce
  BY DEF Inv, EventOK, CompletesOnce
<1>2. QED
  BY <1>1, OutboxInvariance, PTL

(* A completed job was handled by every handler registered for its event.  *)
THEOREM CompletionIsEarned == Spec => []DoneMeansHandled
<1>1. Inv => DoneMeansHandled
  BY DEF Inv, EventOK, DoneMeansHandled
<1>2. QED
  BY <1>1, OutboxInvariance, PTL
=============================================================================
