---------------------------- MODULE AiTurnProofs ----------------------------
(***************************************************************************)
(* Type correctness and lease exclusion of AiTurn, for every number of     *)
(* messages, workers, copies of an event, attempts and failures.           *)
(*                                                                         *)
(* Neither is inductive alone.  That a worker decrements `left` within its *)
(* type needs that a slot about to send has a part left; that it settles an*)
(* existing job needs that a busy slot has one: SlotOK.  The lease needs no*)
(* more than itself, because ReleasedLock compares the owner and a lease   *)
(* expires only when its owner is not in a turn that still relies on it.   *)
(***************************************************************************)
EXTENDS AiTurn, TLAPS

(* The locals of a slot without a job are a turn.                          *)
LEMMA IdleTurnType == IdleTurn \in Turn
  BY Parameters DEF IdleTurn, Turn, Job, Msg, Lease, Plan, ConvState, Result

(* The three ways a turn moves on (End, Goto, Proceed) keep the types of pc*)
(* and of the locals.                                                     *)
LEMMA EndType ==
  ASSUME TypeOK, NEW w \in Workers, NEW result \in Result, End(w, result)
  PROVE  pc' \in [Workers -> Pc] /\ turn' \in [Workers -> Turn]
<1>1. turn[w] \in Turn
  BY DEF TypeOK
<1>2. [IdleTurn EXCEPT !.job = turn[w].job, !.lease = turn[w].lease,
                       !.result = result] \in Turn
  BY <1>1, IdleTurnType DEF Turn
<1>3. QED
  BY <1>2 DEF TypeOK, End, Pc

(* ... staying with the same locals,                                      *)
LEMMA GotoType ==
  ASSUME TypeOK, NEW w \in Workers, NEW where \in Pc, Goto(w, where)
  PROVE  pc' \in [Workers -> Pc] /\ turn' \in [Workers -> Turn]
  BY DEF TypeOK, Goto

(* ... and going on with some of them.                                    *)
LEMMA ProceedType ==
  ASSUME TypeOK, NEW w \in Workers, NEW where \in Pc, NEW plan \in Plan,
         NEW medium \in {"text", "voice"}, NEW left \in 0..Bubbles,
         Proceed(w, where, plan, medium, left)
  PROVE  pc' \in [Workers -> Pc] /\ turn' \in [Workers -> Turn]
  BY Parameters DEF TypeOK, Proceed, IdleTurn, Turn, Job, Msg, Lease, Plan, ConvState, Result, Pc

(* Writing some of the locals keeps them a turn: the marker that was seen,*)
LEMMA SeenType ==
  ASSUME NEW t \in Turn, NEW b \in BOOLEAN
  PROVE  [t EXCEPT !.seen = b] \in Turn
  BY DEF Turn

(* ... the state and the escalation Phase 3 reads,                        *)
LEMMA FreshType ==
  ASSUME NEW t \in Turn, NEW state \in ConvState, NEW b \in BOOLEAN
  PROVE  [t EXCEPT !.fresh = state, !.esc = b] \in Turn
  BY DEF Turn

(* ... what an intercept will send,                                       *)
LEMMA PlanType ==
  ASSUME NEW t \in Turn, NEW plan \in Plan, NEW left \in 0..Bubbles,
         NEW medium \in {"text", "voice"}
  PROVE  [t EXCEPT !.plan = plan, !.left = left, !.medium = medium] \in Turn
  BY DEF Turn

(* ... and the parts still to send.                                       *)
LEMMA LeftType ==
  ASSUME NEW t \in Turn, NEW left \in 0..Bubbles, NEW at \in SUBSET Msg
  PROVE  [t EXCEPT !.left = left, !.at = at] \in Turn
  BY DEF Turn

(* Every plan has at least one part and at most Bubbles.                  *)
LEMMA PartsType ==
  ASSUME NEW plan, NEW medium
  PROVE  Parts(plan, medium) \in 1..Bubbles
  BY Parameters DEF Parts

(* The initial states are typed.                                          *)
LEMMA TypeInit == Init => TypeOK
  BY Parameters, IdleTurnType
  DEF Init, TypeOK, Lasting, MediaState, ConvState, JobState, Pc

(* A slot that has messages of its turn before it.                         *)
Sending(w) ==
    pc[w] \in {"send", "row"} \/ (pc[w] = "tag" /\ turn[w].plan \notin SendsFirst)

(* A slot that is not idle works on a job, and one that is about to send   *)
(* has something left to send.                                             *)
SlotOK(w) ==
    /\ pc[w] # "idle" => turn[w].job \in Job
    /\ Sending(w) => turn[w].left \in 1..Bubbles

(* The inductive invariant behind TypeOK and LeaseExclusion.               *)
Inv == TypeOK /\ (\A w \in Workers : SlotOK(w)) /\ LeaseExclusion

(* Whatever the environment does, it is counted.                           *)
LEMMA HappensType ==
  ASSUME TypeOK, NEW kind, Happens(kind)
  PROVE  faults' \in [count : 0..MaxFaults, lasting : SUBSET Lasting]
  BY Parameters DEF TypeOK, Happens, Lasting

(* One step per action; the actions that end in End, Goto or Proceed get   *)
(* the type of pc and turn from the lemmas above.                          *)
LEMMA TypeStep == Inv /\ [Next]_vars => TypeOK'
<1> SUFFICES ASSUME TypeOK, \A w \in Workers : SlotOK(w), [Next]_vars PROVE TypeOK'
  BY DEF Inv
<1> USE DEF TypeOK
<1>a. ASSUME NEW m \in Msg, Client(m) PROVE TypeOK'
  <2>1. ASSUME NEW a \in 0..2, RowStored(m, a)
        PROVE  /\ stored' \subseteq Msg /\ age' \in [Msg -> 0..2]
               /\ UNCHANGED <<marked, silenced, answered, conv, openEsc, lastOut,
                              attempts, stalls, lock, pc, turn, faults>>
    BY <2>1 DEF RowStored
  <2>2. CASE RecordText(m)
    BY <2>1, <2>2, Parameters DEF RecordText, Enqueue, JobState, Job
  <2>3. CASE RecordMedia(m)
    BY <2>1, <2>3 DEF RecordMedia, MediaState
  <2>4. CASE RecordCall(m)
    BY <2>1, <2>4 DEF RecordCall
  <2>5. CASE CallEscalates(m)
    BY <2>5 DEF CallEscalates, ConvState, queueVars
  <2>6. QED
    BY <1>a, <2>2, <2>3, <2>4, <2>5 DEF Client
<1>b. ASSUME NEW m \in Msg, GrowOlder(m) PROVE TypeOK'
  BY <1>b DEF GrowOlder, queueVars
<1>c. ASSUME NEW m \in Msg, MediaPipeline(m) PROVE TypeOK'
  <2>1. CASE Transcribe(m)
    BY <2>1 DEF Transcribe, Enqueue, MediaState, JobState
  <2>2. CASE FileDocument(m)
    BY <2>2 DEF FileDocument, MediaState, queueVars
  <2>3. CASE DocumentToAi(m)
    BY <2>3 DEF DocumentToAi, Enqueue, MediaState, JobState
  <2>4. CASE DocumentIsExpected(m)
    BY <2>4, Parameters DEF DocumentIsExpected, NewerThan, MediaState, queueVars
  <2>5. QED
    BY <1>c, <2>1, <2>2, <2>3, <2>4 DEF MediaPipeline
<1>d. ASSUME NEW m \in Msg, MediaFails(m) PROVE TypeOK'
  BY <1>d, HappensType DEF MediaFails, MediaState, queueVars
<1>e. ASSUME NEW j \in Job, DuplicateEvent(j) PROVE TypeOK'
  BY <1>e, HappensType DEF DuplicateEvent, JobState, inboxVars
<1>f. ASSUME NEW j \in Job, RecoverStalled(j) PROVE TypeOK'
  BY <1>f DEF RecoverStalled, JobState, inboxVars
<1>g. ASSUME NEW w \in Workers, NEW j \in Job, Claim(w, j) PROVE TypeOK'
  <2>1. [IdleTurn EXCEPT !.job = j] \in Turn
    BY IdleTurnType DEF Turn
  <2>2. QED
    BY <1>g, <2>1 DEF Claim, JobState, Pc, inboxVars
<1>h. ASSUME NEW w \in Workers, TurnStep(w) PROVE TypeOK'
  <2> USE DEF inboxVars, queueVars
  <2>0. turn[w] \in Turn
    OBVIOUS
  <2>1. CASE Acquire(w)
    BY <2>0, <2>1 DEF Acquire, Pc, Turn, Lease
  <2>2. CASE Busy(w)
    BY <2>0, <2>2 DEF Busy, Pc, Turn, Result
  <2>3. CASE Load(w)
    BY <2>3, EndType, GotoType DEF Load, Pc, Result
  <2>4. CASE BurstSkip(w) \/ BurstWait(w)
    BY <2>4, EndType DEF BurstSkip, BurstWait, Result
  <2>5. CASE BurstAnswer(w)
    <3>1. turn[w].job \in Job
      BY <2>5 DEF BurstAnswer, SlotOK, Sending
    <3>2. Trigger(w) \in Msg
      BY <3>1 DEF Trigger, Job
    <3>3. Window(w) \subseteq Msg
      BY DEF Window, Newest
    <3>4. QED
      BY <2>0, <2>5, <3>2, <3>3 DEF BurstAnswer, Pc, Turn
  <2>6. CASE \E plan \in SendsFirst \cup {"offer"} : Intercept(w, plan)
    <3>1. PICK plan \in SendsFirst \cup {"offer"} : Intercept(w, plan)
      BY <2>6
    <3>2. [turn[w] EXCEPT !.plan = plan, !.left = 1, !.medium = "text"] \in Turn
      <4>1. 1 \in 0..Bubbles
        BY Parameters
      <4>2. plan \in Plan
        BY DEF Plan, SendsFirst
      <4>3. QED
        BY <2>0, <4>1, <4>2, PlanType
    <3>3. turn' = [turn EXCEPT ![w] =
                     [turn[w] EXCEPT !.plan = plan, !.left = 1, !.medium = "text"]]
      BY <3>1 DEF Intercept
    <3>4. turn' \in [Workers -> Turn]
      BY <3>2, <3>3
    <3>5. QED
      BY <3>1, <3>4 DEF Intercept, Pc
  <2>7. CASE NoIntercept(w)
    BY <2>7, GotoType DEF NoIntercept, Pc
  <2>8. CASE Tag(w)
    BY <2>8, GotoType DEF Tag, Pc
  <2>9. CASE Read(w)
    <3>1. turn' \in [Workers -> Turn]
      <4>1. (Trigger(w) \in marked) \in BOOLEAN
        OBVIOUS
      <4>2. [turn[w] EXCEPT !.seen = (Trigger(w) \in marked)] \in Turn
        BY <2>0, <4>1, SeenType, Zenon
      <4>3. turn' = [turn EXCEPT ![w] = [turn[w] EXCEPT !.seen = (Trigger(w) \in marked)]]
        BY <2>9 DEF Read
      <4>4. QED
        BY <4>2, <4>3
    <3>2. QED
      BY <2>9, <3>1 DEF Read, Pc
  <2>10. CASE CeilingReached(w)
    <3>1. turn[w].said \subseteq Msg
      BY <2>0 DEF Turn
    <3>2. QED
      BY <2>10, <3>1, GotoType DEF CeilingReached, Pc
  <2>11. CASE ReadFresh(w)
    <3>1. [turn[w] EXCEPT !.fresh = conv, !.esc = (openEsc > 0)] \in Turn
      <4>1. (openEsc > 0) \in BOOLEAN
        OBVIOUS
      <4>2. QED
        BY <2>0, <4>1, FreshType, Zenon
    <3>2. turn' = [turn EXCEPT ![w] =
                     [turn[w] EXCEPT !.fresh = conv, !.esc = (openEsc > 0)]]
      BY <2>11 DEF ReadFresh
    <3>3. turn' \in [Workers -> Turn]
      BY <3>1, <3>2
    <3>4. QED
      BY <2>11, <3>3 DEF ReadFresh, Pc
  <2>12. ASSUME NEW escalation, Phase3(w, escalation)
         PROVE  /\ marked' \subseteq Msg /\ openEsc' \in Nat
                /\ UNCHANGED <<stored, media, age, queueVars, lock, faults>>
    <3>1. turn[w].job \in Job
      BY <2>12 DEF Phase3, SlotOK, Sending
    <3>2. QED
      BY <2>12, <3>1 DEF Phase3, PayloadWritten, Trigger, Job
  <2>13. ASSUME NEW plan \in Plan, NEW medium \in {"text", "voice"}, Deliver(w, plan, medium)
         PROVE  pc' \in [Workers -> Pc] /\ turn' \in [Workers -> Turn]
    <3>1. Parts(plan, medium) \in 0..Bubbles
      BY PartsType, Parameters
    <3>2. QED
      BY <2>13, <3>1, ProceedType DEF Deliver, Pc
  <2>14. Complete(w) => pc' \in [Workers -> Pc] /\ turn' \in [Workers -> Turn]
    BY ProceedType, Parameters DEF Complete, Pc, Plan
  <2>15. CASE HardHandoff(w)
    BY <2>12, <2>13, <2>15 DEF HardHandoff, ConvState, Plan
  <2>16. turn[w].said \subseteq Msg /\ turn[w].at \subseteq Msg
    BY <2>0 DEF Turn
  <2>17. CASE StaySilent(w)
    BY <2>12, <2>14, <2>16, <2>17 DEF StaySilent
  <2>18. CASE QueueDraft(w)
    BY <2>12, <2>14, <2>18, Parameters DEF QueueDraft, NewerThan
  <2>19. CASE Reply(w)
    BY <2>12, <2>13, <2>19 DEF Reply, ConvState, Plan
  <2>20. CASE SendAccepted(w)
    <3>1. turn' \in [Workers -> Turn]
      BY <2>0, <2>20 DEF SendAccepted, Turn
    <3>2. answered' \in [Msg -> Nat]
      BY <2>20 DEF SendAccepted
    <3>3. QED
      BY <2>20, <3>1, <3>2 DEF SendAccepted, Pc
  <2>21. CASE RecordSent(w)
    <3>1. turn[w].left \in 1..Bubbles
      BY <2>21 DEF RecordSent, SlotOK, Sending
    <3>2. turn' \in [Workers -> Turn]
      <4>1. [turn[w] EXCEPT !.left = turn[w].left - 1, !.at = {}] \in Turn
        <5>1. turn[w].left - 1 \in 0..Bubbles
          BY <3>1, Parameters
        <5>2. QED
          BY <2>0, <5>1, LeftType
      <4>2. turn' = [turn EXCEPT ![w] =
                       [turn[w] EXCEPT !.left = turn[w].left - 1, !.at = {}]]
        BY <2>21 DEF RecordSent
      <4>3. QED
        BY <4>1, <4>2
    <3>3. pc' \in [Workers -> Pc]
      BY <2>21 DEF RecordSent, AfterRow, Pc
    <3>4. lastOut' \in 0..N
      BY <2>21, Parameters DEF RecordSent, NewerThan
    <3>5. QED
      BY <2>21, <3>2, <3>3, <3>4 DEF RecordSent
  <2>22. CASE AppendReplySent(w)
    BY <2>22, GotoType DEF AppendReplySent, Pc
  <2>23. CASE Mark(w)
    <3>1. turn[w].ans \subseteq Msg
      BY <2>0 DEF Turn
    <3>2. QED
      BY <2>23, <3>1, EndType DEF Mark, Result
  <2>24. CASE Release(w)
    BY <2>0, <2>24 DEF Release, ReleasedLock, Pc, Turn, Lease
  <2>25. CASE Settle(w)
    <3>1. jobs' \in [Job -> JobState]
      BY <2>25 DEF Settle, JobAfter, JobState
    <3>2. attempts' \in [Job -> Nat]
      <4>1. attempts[turn[w].job] \in Nat
        BY <2>25 DEF Settle, SlotOK, Sending
      <4>2. PICK a : attempts' = [attempts EXCEPT ![turn[w].job] = a]
                     /\ a \in {attempts[turn[w].job] + 1, MaxAttempts, attempts[turn[w].job]}
        BY <2>25 DEF Settle
      <4>3. a \in Nat
        BY <4>1, <4>2, Parameters
      <4>4. QED
        BY <4>2, <4>3
    <3>3. pc' \in [Workers -> Pc] /\ turn' \in [Workers -> Turn]
      BY <2>25, IdleTurnType DEF Settle, Pc
    <3>4. QED
      BY <2>25, <3>1, <3>2, <3>3 DEF Settle
  <2>26. QED
    BY <1>h, <2>1, <2>2, <2>3, <2>4, <2>5, <2>6, <2>7, <2>8, <2>9, <2>10,
       <2>11, <2>15, <2>17, <2>18, <2>19, <2>20, <2>21, <2>22, <2>23,
       <2>24, <2>25 DEF TurnStep
<1>i. ASSUME NEW w \in Workers, TurnFault(w) PROVE TypeOK'
  <2> USE DEF inboxVars, queueVars
  <2>0. turn[w] \in Turn
    OBVIOUS
  <2>1. ASSUME NEW kind, Happens(kind)
        PROVE  faults' \in [count : 0..MaxFaults, lasting : SUBSET Lasting]
    BY <2>1, HappensType
  <2>2. CASE RunUnlocked(w)
    BY <2>0, <2>1, <2>2 DEF RunUnlocked, Pc, Turn, Lease
  <2>3. CASE LeaseLapses(w)
    BY <2>0, <2>1, <2>3 DEF LeaseLapses, Turn, Lease
  <2>4. CASE TurnThrows(w)
    BY <2>1, <2>4, EndType DEF TurnThrows, Throw, Result
  <2>5. FallBackToText(w) => pc' \in [Workers -> Pc] /\ turn' \in [Workers -> Turn]
    <3>1. Parts(turn[w].plan, "text") \in 0..Bubbles
      BY PartsType, Parameters
    <3>2. turn[w].plan \in Plan
      BY <2>0 DEF Turn
    <3>3. QED
      BY <3>1, <3>2, ProceedType DEF FallBackToText, Deliver, Pc
  <2>a. Apologise(w) => pc' \in [Workers -> Pc] /\ turn' \in [Workers -> Turn]
    BY ProceedType, Parameters DEF Apologise, Pc, Plan
  <2>6. CASE SendRejected(w)
    BY <2>1, <2>5, <2>a, <2>6, EndType DEF SendRejected, Throw, Result
  <2>7. CASE FailsAfterSend(w)
    BY <2>1, <2>5, <2>a, <2>7, EndType DEF FailsAfterSend, Throw, Result
  <2>8. CASE MarkFails(w)
    BY <2>1, <2>8, EndType DEF MarkFails, Result
  <2>9. CASE ReleaseFails(w)
    BY <2>0, <2>1, <2>9 DEF ReleaseFails, Pc, Turn, Lease
  <2>10. CASE Crash(w)
    BY <2>1, <2>10, IdleTurnType DEF Crash, JobState, Pc
  <2>11. QED
    BY <1>i, <2>2, <2>3, <2>4, <2>6, <2>7, <2>8, <2>9, <2>10 DEF TurnFault
<1>j. ASSUME LeaseExpires \/ Staff \/ OutboundElsewhere PROVE TypeOK'
  <2>1. CASE LeaseExpires
    BY <2>1, Parameters DEF LeaseExpires, inboxVars, queueVars
  <2>2. CASE Staff
    BY <2>2, HappensType DEF Staff, StaffTransition, StaffClearsEscalation, queueVars
  <2>3. CASE OutboundElsewhere
    BY <2>3, HappensType, Parameters DEF OutboundElsewhere, NewerThan, queueVars
  <2>4. QED
    BY <1>j, <2>1, <2>2, <2>3
<1>k. CASE UNCHANGED vars
  BY <1>k DEF vars, inboxVars, queueVars
<1>l. QED
  BY <1>a, <1>b, <1>c, <1>d, <1>e, <1>f, <1>g, <1>h, <1>i, <1>j, <1>k DEF Next

(* Actions that touch neither slots nor the lease keep what is said of them.*)
LEMMA SlotsFrame ==
  ASSUME Inv, UNCHANGED <<lock, pc, turn>>
  PROVE  (\A w \in Workers : SlotOK(w))' /\ LeaseExclusion'
  BY DEF Inv, SlotOK, Sending, LeaseExclusion, InTurn

(* What one slot's step must ensure for both facts to hold after it: the   *)
(* other slots are untouched and the lease moves only in its own favour.   *)
LEMMA SlotStep ==
  ASSUME Inv, NEW w \in Workers,
         \A v \in Workers \ {w} : pc'[v] = pc[v] /\ turn'[v] = turn[v],
         SlotOK(w)',
         (InTurn(w) /\ turn[w].lease = "held" => lock = w)',
         \A v \in Workers \ {w} :
            lock = v /\ InTurn(v) /\ turn[v].lease = "held" => lock' = v
  PROVE  (\A v \in Workers : SlotOK(v))' /\ LeaseExclusion'
<1>1. ASSUME NEW v \in Workers \ {w} PROVE SlotOK(v)'
  BY DEF Inv, SlotOK, Sending
<1>2. ASSUME NEW v \in Workers \ {w}, InTurn(v)', turn'[v].lease = "held"
      PROVE  lock' = v
  BY <1>2 DEF Inv, LeaseExclusion, InTurn
<1>3. QED
  BY <1>1, <1>2 DEF LeaseExclusion

-----------------------------------------------------------------------------
(* The steps between Acquire and Release, and the failures among them.     *)
Work(w) ==
    \/ Load(w) \/ BurstSkip(w) \/ BurstWait(w) \/ BurstAnswer(w)
    \/ (\E plan \in SendsFirst \cup {"offer"} : Intercept(w, plan))
    \/ NoIntercept(w) \/ Tag(w)
    \/ Read(w) \/ CeilingReached(w) \/ ReadFresh(w)
    \/ HardHandoff(w) \/ StaySilent(w) \/ QueueDraft(w) \/ Reply(w)
    \/ SendAccepted(w) \/ RecordSent(w) \/ AppendReplySent(w) \/ Mark(w)
    \/ TurnThrows(w) \/ SendRejected(w) \/ FailsAfterSend(w) \/ MarkFails(w)

(* Such a step keeps the job and the lease of its slot, and other slots.   *)
Moves(w) ==
    /\ \A v \in Workers \ {w} : pc'[v] = pc[v] /\ turn'[v] = turn[v]
    /\ turn'[w].job = turn[w].job /\ turn'[w].lease = turn[w].lease

(* End, Goto, Proceed, Deliver and Complete are such steps; what else they*)
(* say of the slot is used by the proofs below and in OneAnswerProofs.    *)
LEMMA EndMoves ==
  ASSUME TypeOK, NEW w \in Workers, NEW result, End(w, result)
  PROVE  Moves(w) /\ pc'[w] = "release" /\ turn'[w].said = {}
  BY DEF TypeOK, End, IdleTurn, Moves

(* ... with all locals as they were,                                      *)
LEMMA GotoMoves ==
  ASSUME TypeOK, NEW w \in Workers, NEW where, Goto(w, where)
  PROVE  Moves(w) /\ pc'[w] = where /\ turn' = turn
  BY DEF TypeOK, Goto, Moves

(* ... with the messages of the turn and a plan,                          *)
LEMMA ProceedMoves ==
  ASSUME TypeOK, NEW w \in Workers, NEW where, NEW plan, NEW medium, NEW left,
         Proceed(w, where, plan, medium, left)
  PROVE  /\ Moves(w) /\ pc'[w] = where
         /\ turn'[w].said = turn[w].said /\ turn'[w].ans = turn[w].ans
         /\ turn'[w].plan = plan /\ turn'[w].left = left
  BY DEF TypeOK, Proceed, IdleTurn, Moves

(* ... with at least one part to send,                                    *)
LEMMA DeliverMoves ==
  ASSUME TypeOK, NEW w \in Workers, NEW plan, NEW medium, Deliver(w, plan, medium)
  PROVE  /\ Moves(w) /\ pc'[w] = "send"
         /\ turn'[w].said = turn[w].said /\ turn'[w].ans = turn[w].ans
         /\ turn'[w].plan = plan /\ turn'[w].left \in 1..Bubbles
  BY ProceedMoves, PartsType DEF Deliver

(* ... and on to the marker.                                              *)
LEMMA CompleteMoves ==
  ASSUME TypeOK, NEW w \in Workers, Complete(w)
  PROVE  /\ Moves(w) /\ pc'[w] = "mark"
         /\ turn'[w].said = turn[w].said /\ turn'[w].ans = turn[w].ans
  BY ProceedMoves DEF Complete

(* ... or back to a row whose booking could not be confirmed.             *)
LEMMA ApologiseMoves ==
  ASSUME TypeOK, NEW w \in Workers, Apologise(w)
  PROVE  /\ Moves(w) /\ pc'[w] = "tag"
         /\ turn'[w].said = turn[w].said /\ turn'[w].ans = turn[w].ans
         /\ turn'[w].plan = "offer" /\ turn'[w].left = 1
  BY ProceedMoves DEF Apologise

(* Every step of a turn is one, inside the turn, and leaves the lease key *)
(* alone; one that is about to send has a part left.                      *)
LEMMA WorkMoves ==
  ASSUME Inv, NEW w \in Workers, Work(w)
  PROVE  /\ Moves(w) /\ InTurn(w) /\ lock' = lock
         /\ (Sending(w) => turn[w].left \in 1..Bubbles)'
<1> USE DEF Inv, InTurn, Sending, inboxVars, queueVars
<1>1. CASE Load(w) \/ BurstSkip(w) \/ BurstWait(w) \/ Mark(w) \/ TurnThrows(w) \/ MarkFails(w)
  BY <1>1, EndMoves, GotoMoves DEF Load, BurstSkip, BurstWait, Mark, TurnThrows, Throw, MarkFails
<1>2. CASE NoIntercept(w) \/ CeilingReached(w) \/ AppendReplySent(w)
  BY <1>2, GotoMoves DEF NoIntercept, CeilingReached, AppendReplySent
<1>3. CASE HardHandoff(w) \/ Reply(w)
  BY <1>3, DeliverMoves DEF HardHandoff, Reply, Phase3
<1>4. CASE StaySilent(w) \/ QueueDraft(w)
  BY <1>4, CompleteMoves DEF StaySilent, QueueDraft, Phase3
<1>5. CASE SendRejected(w) \/ FailsAfterSend(w)
  BY <1>5, EndMoves, DeliverMoves, ApologiseMoves, Parameters
  DEF SendRejected, FailsAfterSend, Throw, FallBackToText
<1>6. CASE BurstAnswer(w)
  BY <1>6 DEF TypeOK, BurstAnswer, Moves
<1>7. CASE \E plan \in SendsFirst \cup {"offer"} : Intercept(w, plan)
  BY <1>7, Parameters DEF TypeOK, Intercept, Moves, SendsFirst
<1>8. CASE Tag(w)
  <2>1. PICK where \in {"mark", "send"} :
          Goto(w, where) /\ (where = "send" => turn[w].plan \notin SendsFirst)
    BY <1>8 DEF Tag
  <2>2. where = "send" => turn[w].left \in 1..Bubbles
    BY <1>8, <2>1 DEF Tag, SlotOK, Sending
  <2>3. QED
    BY <1>8, <2>1, <2>2, GotoMoves DEF Tag
<1>9. CASE Read(w)
  BY <1>9 DEF TypeOK, Read, Moves
<1>10. CASE ReadFresh(w)
  BY <1>10 DEF TypeOK, ReadFresh, Moves
<1>11. CASE SendAccepted(w)
  BY <1>11 DEF TypeOK, SlotOK, Sending, SendAccepted, Moves
<1>12. CASE RecordSent(w)
  <2>1. Moves(w) /\ pc'[w] \in {"send", "tag", "mark", "event"}
    BY <1>12 DEF TypeOK, RecordSent, AfterRow, Moves
  <2>2. turn[w].left \in 1..Bubbles /\ turn'[w].left = turn[w].left - 1
    BY <1>12 DEF TypeOK, SlotOK, Sending, RecordSent
  <2>3. /\ pc'[w] = "send" => turn[w].left > 1
        /\ pc'[w] = "tag" => turn'[w].plan \in SendsFirst
    BY <1>12 DEF TypeOK, RecordSent, AfterRow, Turn
  <2>4. QED
    BY <1>12, <2>1, <2>2, <2>3, Parameters DEF RecordSent
<1>13. QED
  BY <1>1, <1>2, <1>3, <1>4, <1>5, <1>6, <1>7, <1>8, <1>9, <1>10, <1>11,
     <1>12 DEF Work

(* Every step keeps both: turns by WorkMoves, the lease by its own guards.*)
LEMMA SlotsStep == Inv /\ [Next]_vars => (\A w \in Workers : SlotOK(w))' /\ LeaseExclusion'
<1> SUFFICES ASSUME Inv, [Next]_vars
             PROVE  (\A w \in Workers : SlotOK(w))' /\ LeaseExclusion'
  OBVIOUS
<1>1. ASSUME NEW w \in Workers, Work(w)
      PROVE  (\A v \in Workers : SlotOK(v))' /\ LeaseExclusion'
  <2>1. /\ Moves(w) /\ InTurn(w) /\ lock' = lock
        /\ (Sending(w) => turn[w].left \in 1..Bubbles)'
    BY <1>1, WorkMoves
  <2>2. SlotOK(w)'
    BY <2>1 DEF Inv, SlotOK, Sending, Moves, InTurn
  <2>3. QED
    BY <2>1, <2>2, SlotStep DEF Inv, LeaseExclusion, Moves
<1>2. ASSUME NEW w \in Workers, NEW j \in Job, Claim(w, j)
      PROVE  (\A v \in Workers : SlotOK(v))' /\ LeaseExclusion'
  BY <1>2, SlotStep DEF Inv, TypeOK, Claim, IdleTurn, SlotOK, Sending, InTurn
<1>3. ASSUME NEW w \in Workers, Acquire(w) \/ RunUnlocked(w)
      PROVE  (\A v \in Workers : SlotOK(v))' /\ LeaseExclusion'
  <2>1. /\ \A v \in Workers \ {w} : pc'[v] = pc[v] /\ turn'[v] = turn[v]
        /\ pc[w] = "lock" /\ pc'[w] = "load" /\ turn'[w].job = turn[w].job
    <3>1. CASE Acquire(w)
      BY <3>1 DEF Inv, TypeOK, Acquire
    <3>2. CASE RunUnlocked(w)
      BY <3>2 DEF Inv, TypeOK, RunUnlocked
    <3>3. QED
      BY <1>3, <3>1, <3>2
  <2>2. (InTurn(w) /\ turn[w].lease = "held" => lock = w)'
    <3>1. CASE Acquire(w)
      BY <3>1 DEF Inv, TypeOK, Acquire
    <3>2. CASE RunUnlocked(w)
      <4>1. turn[w] \in Turn
        BY DEF Inv, TypeOK
      <4>2. turn'[w].lease = "unlocked"
        BY <3>2, <4>1 DEF Inv, TypeOK, RunUnlocked, Turn
      <4>3. QED
        BY <4>2
    <3>3. QED
      BY <1>3, <3>1, <3>2
  <2>3. \A v \in Workers \ {w} : lock = v => lock' = v
    BY <1>3, Parameters DEF Acquire, RunUnlocked
  <2>4. SlotOK(w)'
    BY <2>1 DEF Inv, SlotOK, Sending
  <2>5. QED
    BY <2>1, <2>2, <2>3, <2>4, SlotStep
<1>4. ASSUME NEW w \in Workers, Busy(w) \/ Settle(w) \/ Crash(w)
      PROVE  (\A v \in Workers : SlotOK(v))' /\ LeaseExclusion'
  <2>1. /\ \A v \in Workers \ {w} : pc'[v] = pc[v] /\ turn'[v] = turn[v]
        /\ lock' = lock
        /\ \/ pc'[w] = "idle"
           \/ pc'[w] = "settle" /\ pc[w] = "lock" /\ turn'[w].job = turn[w].job
    <3>1. CASE Busy(w)
      BY <3>1 DEF Inv, TypeOK, Busy
    <3>2. CASE Settle(w)
      BY <3>2 DEF Inv, TypeOK, Settle
    <3>3. CASE Crash(w)
      BY <3>3 DEF Inv, TypeOK, Crash
    <3>4. QED
      BY <1>4, <3>1, <3>2, <3>3
  <2>2. SlotOK(w)' /\ ~InTurn(w)'
    BY <2>1 DEF Inv, SlotOK, Sending, InTurn
  <2>3. QED
    BY <2>1, <2>2, SlotStep
<1>5. ASSUME NEW w \in Workers, Release(w) \/ ReleaseFails(w)
      PROVE  (\A v \in Workers : SlotOK(v))' /\ LeaseExclusion'
  <2>1. /\ \A v \in Workers \ {w} : pc'[v] = pc[v] /\ turn'[v] = turn[v]
        /\ pc[w] = "release" /\ pc'[w] = "settle" /\ turn'[w].job = turn[w].job
    <3>1. CASE Release(w)
      BY <3>1 DEF Inv, TypeOK, Release
    <3>2. CASE ReleaseFails(w)
      BY <3>2 DEF Inv, TypeOK, ReleaseFails
    <3>3. QED
      BY <1>5, <3>1, <3>2
  <2>2. \A v \in Workers \ {w} : lock = v => lock' = v
    BY <1>5 DEF Release, ReleasedLock, ReleaseFails
  <2>3. SlotOK(w)' /\ ~InTurn(w)'
    BY <2>1 DEF Inv, SlotOK, Sending, InTurn
  <2>4. QED
    BY <2>1, <2>2, <2>3, SlotStep
<1>6. ASSUME NEW w \in Workers, LeaseLapses(w)
      PROVE  (\A v \in Workers : SlotOK(v))' /\ LeaseExclusion'
  BY <1>6, SlotStep DEF Inv, TypeOK, LeaseLapses, SlotOK, Sending, InTurn
<1>7. CASE LeaseExpires
  BY <1>7 DEF Inv, LeaseExpires, LeaseExclusion, SlotOK, Sending, InTurn
<1>8. ASSUME NEW m \in Msg, Client(m) \/ GrowOlder(m) \/ MediaPipeline(m) \/ MediaFails(m)
      PROVE  (\A v \in Workers : SlotOK(v))' /\ LeaseExclusion'
  BY <1>8, SlotsFrame DEF Client, RecordText, RecordMedia, CallEscalates, RecordCall, RowStored,
     GrowOlder, MediaPipeline, Transcribe, FileDocument, DocumentToAi,
     DocumentIsExpected, MediaFails
<1>9. ASSUME NEW j \in Job, DuplicateEvent(j) \/ RecoverStalled(j)
      PROVE  (\A v \in Workers : SlotOK(v))' /\ LeaseExclusion'
  BY <1>9, SlotsFrame DEF DuplicateEvent, RecoverStalled
<1>10. CASE Staff \/ OutboundElsewhere \/ UNCHANGED vars
  BY <1>10, SlotsFrame DEF Staff, StaffTransition, StaffClearsEscalation,
     OutboundElsewhere, vars
<1>11. QED
  BY <1>1, <1>2, <1>3, <1>4, <1>5, <1>6, <1>7, <1>8, <1>9, <1>10
  DEF Next, TurnStep, TurnFault, Work

(* The invariant, from its two facts.                                     *)
LEMMA Invariance == Spec => []Inv
<1>1. Init => Inv
  BY TypeInit, Parameters DEF Init, Inv, SlotOK, Sending, LeaseExclusion, InTurn
<1>2. Inv /\ [Next]_vars => Inv'
  BY TypeStep, SlotsStep DEF Inv
<1>3. QED
  BY <1>1, <1>2, PTL DEF Spec

(* The typing invariant of AiTurn, for every number of messages, workers   *)
(* and failures.                                                           *)
THEOREM Typing == Spec => []TypeOK
  BY Invariance, PTL DEF Inv

(* The lease of resource-lock.service.ts excludes: whatever crashes, lapses*)
(* and failed releases happen, a turn whose lease has not lapsed owns it.  *)
THEOREM LeaseExcludes == Spec => []LeaseExclusion
  BY Invariance, PTL DEF Inv

-----------------------------------------------------------------------------
(* What lasts of a failure is not forgotten.                               *)
LEMMA HistoryGrows ==
  ASSUME [Next]_vars
  PROVE  faults.lasting \subseteq faults'.lasting
<1>1. ASSUME NEW kind, Happens(kind) PROVE faults.lasting \subseteq faults'.lasting
  BY <1>1 DEF Happens
<1>2. ASSUME NEW m \in Msg, Client(m) \/ GrowOlder(m) \/ MediaPipeline(m)
      PROVE  faults' = faults
  BY <1>2 DEF Client, RecordText, RecordMedia, CallEscalates, RecordCall, RowStored, GrowOlder,
     MediaPipeline, Transcribe, FileDocument, DocumentToAi, DocumentIsExpected
<1>3. ASSUME NEW m \in Msg, MediaFails(m) PROVE Happens("media")
  BY <1>3 DEF MediaFails
<1>4. ASSUME NEW j \in Job, DuplicateEvent(j) \/ RecoverStalled(j)
      PROVE  faults' = faults \/ Happens("duplicate")
  BY <1>4 DEF DuplicateEvent, RecoverStalled
<1>5. ASSUME NEW w \in Workers, NEW j \in Job, Claim(w, j) PROVE faults' = faults
  BY <1>5 DEF Claim
<1>6. ASSUME NEW w \in Workers, TurnStep(w) PROVE faults' = faults
  BY <1>6 DEF TurnStep, Acquire, Busy, Load, BurstSkip, BurstWait, BurstAnswer, Intercept,
     NoIntercept, Tag, Read, CeilingReached, ReadFresh, HardHandoff, StaySilent, QueueDraft,
     Reply, Phase3, SendAccepted, RecordSent, AppendReplySent, Mark, Release, Settle
<1>7. ASSUME NEW w \in Workers, TurnFault(w) PROVE \E kind : Happens(kind)
  BY <1>7 DEF TurnFault, RunUnlocked, LeaseLapses, TurnThrows, SendRejected, FailsAfterSend,
     MarkFails, ReleaseFails, Crash
<1>8. ASSUME LeaseExpires \/ Staff \/ OutboundElsewhere \/ UNCHANGED vars
      PROVE  faults' = faults \/ Happens("staff") \/ Happens("outbound")
  BY <1>8 DEF LeaseExpires, Staff, StaffTransition, StaffClearsEscalation, OutboundElsewhere, vars
<1>9. QED
  BY <1>1, <1>2, <1>3, <1>4, <1>5, <1>6, <1>7, <1>8 DEF Next

(* A step after which nothing of these kinds ever happened is not one, and *)
(* nothing of them had happened before it.                                 *)
LEMMA NeverYet ==
  ASSUME [Next]_vars, NEW kinds \in SUBSET Lasting, Never(kinds)'
  PROVE  Never(kinds) /\ \A kind \in kinds : ~Happens(kind)
<1>1. Never(kinds)
  BY HistoryGrows DEF Never
<1>2. ASSUME NEW kind \in kinds, Happens(kind) PROVE FALSE
  <2>1. kind \in faults'.lasting
    BY <1>2 DEF Happens
  <2>2. QED
    BY <1>2, <2>1 DEF Never
<1>3. QED
  BY <1>1, <1>2
=============================================================================
