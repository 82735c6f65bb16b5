----------------------------- MODULE TurnProofs -----------------------------
(***************************************************************************)
(* Three promises of the turn, for every number of messages, workers,      *)
(* copies of an event, attempts and failures:                              *)
(*   - the turns of a conversation without voice calls leave one open      *)
(*     escalation at most, up to the first lease that lapses or is skipped.*)
(*     A turn that looked for an open one and found none must still be     *)
(*     right when it commits: the lease keeps other turns from the commit, *)
(*     and staff only ever close one (the receptionist of a call does not, *)
(*     so with calls nothing of the kind holds);                           *)
(*   - in a conversation of texts the completion marker is earned, whatever*)
(*     fails, lapsed leases and crashes included: everything a turn is     *)
(*     about to mark has been answered or deliberately left, and so has    *)
(*     the message whose old payload it writes back;                       *)
(*   - where bursts fit the window, and until a lease or a marker fails, a *)
(*     pending message always has a turn to come, whatever crashes, fails  *)
(*     or is written in between.  Pending is what it says: an outbound row *)
(*     that gets ahead of the message ends the promise (TurnOvertaken).    *)
(***************************************************************************)
EXTENDS AiTurnProofs, FiniteSetTheorems

(* Steps of a slot outside the turn proper.                                *)
Outer(w) ==
    \/ \E j \in Job : Claim(w, j)
    \/ Acquire(w) \/ Busy(w) \/ RunUnlocked(w) \/ LeaseLapses(w)
    \/ Release(w) \/ ReleaseFails(w) \/ Settle(w) \/ Crash(w)

(* What they leave of the slots: others' alone, and this one's either where*)
(* it was, or before or after the turn.                                    *)
LEMMA OuterMoves ==
  ASSUME Inv, NEW w \in Workers, Outer(w)
  PROVE  /\ UNCHANGED inboxVars
         /\ \A v \in Workers \ {w} : pc'[v] = pc[v] /\ turn'[v] = turn[v]
         /\ pc'[w] \in {"idle", "lock", "load", "settle", pc[w]}
         /\ pc'[w] \in {"load", pc[w]} =>
               turn'[w].lease = "held" \/ RunUnlocked(w) \/ LeaseLapses(w)
<1> USE DEF Inv, TypeOK
<1>0. turn[w] \in Turn
  OBVIOUS
<1>1. CASE \E j \in Job : Claim(w, j)
  BY <1>1 DEF Claim
<1>2. CASE Acquire(w)
  BY <1>0, <1>2 DEF Acquire, Turn
<1>3. CASE Busy(w)
  BY <1>3 DEF Busy, queueVars
<1>4. CASE RunUnlocked(w)
  BY <1>4 DEF RunUnlocked
<1>5. CASE LeaseLapses(w)
  BY <1>5 DEF LeaseLapses
<1>6. CASE Release(w)
  BY <1>6 DEF Release
<1>7. CASE ReleaseFails(w)
  BY <1>7 DEF ReleaseFails
<1>8. CASE Settle(w)
  BY <1>8 DEF Settle
<1>9. CASE Crash(w)
  BY <1>9 DEF Crash
<1>10. QED
  BY <1>1, <1>2, <1>3, <1>4, <1>5, <1>6, <1>7, <1>8, <1>9 DEF Outer

-----------------------------------------------------------------------------
(* One open escalation                                                     *)

LeasesHold == Calls = {} /\ Never({"lapse", "redis"})

(* A turn has its lease, and one that found no open escalation is right.   *)
Looked ==
    /\ \A w \in Workers : InTurn(w) => turn[w].lease = "held"
    /\ \A w \in Workers : pc[w] = "write" /\ ~turn[w].esc => openEsc = 0

Escalations == Inv /\ (LeasesHold => Looked /\ openEsc <= 1)

(* A step of the turn that raises had looked; one that is now about to     *)
(* write has looked just now.                                              *)
LEMMA WorkRaises ==
  ASSUME Inv, NEW w \in Workers, Work(w)
  PROVE  /\ \/ openEsc' = openEsc
            \/ openEsc' = openEsc + 1 /\ pc[w] = "write" /\ ~turn[w].esc
         /\ pc'[w] = "write" => openEsc' = openEsc /\ turn'[w].esc = (openEsc > 0)
<1> USE DEF Inv, inboxVars
<1>0. turn[w] \in Turn
  BY DEF TypeOK
<1>1. CASE Load(w) \/ BurstSkip(w) \/ BurstWait(w) \/ Mark(w) \/ TurnThrows(w) \/ MarkFails(w)
  BY <1>1, EndMoves, GotoMoves DEF Load, BurstSkip, BurstWait, Mark, TurnThrows, Throw, MarkFails
<1>2. CASE NoIntercept(w) \/ CeilingReached(w) \/ AppendReplySent(w)
  BY <1>2, GotoMoves DEF NoIntercept, CeilingReached, AppendReplySent
<1>3. CASE HardHandoff(w) \/ Reply(w)
  BY <1>3, DeliverMoves DEF HardHandoff, Reply, Phase3, Raises
<1>4. CASE StaySilent(w) \/ QueueDraft(w)
  BY <1>4, CompleteMoves DEF StaySilent, QueueDraft, Phase3, Raises
<1>5. CASE SendRejected(w) \/ FailsAfterSend(w)
  BY <1>5, EndMoves, DeliverMoves, ApologiseMoves DEF SendRejected, FailsAfterSend, Throw, FallBackToText
<1>6. CASE BurstAnswer(w) \/ \E plan \in SendsFirst \cup {"offer"} : Intercept(w, plan)
  BY <1>6 DEF TypeOK, BurstAnswer, Intercept
<1>7. CASE Tag(w)
  BY <1>7, GotoMoves DEF Tag
<1>8. CASE Read(w) \/ SendAccepted(w)
  BY <1>8 DEF TypeOK, Read, SendAccepted
<1>9. CASE ReadFresh(w)
  BY <1>0, <1>9 DEF TypeOK, ReadFresh, Turn
<1>10. CASE RecordSent(w)
  BY <1>10 DEF TypeOK, RecordSent, AfterRow
<1>11. QED
  BY <1>1, <1>2, <1>3, <1>4, <1>5, <1>6, <1>7, <1>8, <1>9, <1>10 DEF Work

(* While a turn is at its commit no other turn is: both would own the key. *)
LEMMA OneAtCommit ==
  ASSUME Escalations, LeasesHold,
         NEW v \in Workers, NEW w \in Workers, InTurn(v), InTurn(w)
  PROVE  v = w
  BY DEF Escalations, Inv, Looked, LeaseExclusion

(* Every step keeps it.                                                    *)
LEMMA EscalationStep ==
  ASSUME Escalations, [Next]_vars, LeasesHold'
  PROVE  Looked' /\ openEsc' <= 1
<1>h. LeasesHold /\ ~Happens("lapse") /\ ~Happens("redis")
  BY NeverYet DEF LeasesHold, Lasting
<1>0. Looked /\ openEsc \in Nat /\ openEsc <= 1
  BY <1>h DEF Escalations, Inv, TypeOK
<1>1. ASSUME NEW w \in Workers, Work(w) PROVE Looked' /\ openEsc' <= 1
  <2>1. Moves(w) /\ InTurn(w)
    BY <1>1, WorkMoves DEF Escalations
  <2>2. /\ \/ openEsc' = openEsc
           \/ openEsc' = openEsc + 1 /\ pc[w] = "write" /\ ~turn[w].esc
        /\ pc'[w] = "write" => openEsc' = openEsc /\ turn'[w].esc = (openEsc > 0)
    BY <1>1, WorkRaises DEF Escalations
  <2>3. openEsc' <= 1
    BY <1>0, <2>2 DEF Looked
  <2>4. ASSUME NEW v \in Workers, InTurn(v)' PROVE turn'[v].lease = "held"
    <3>1. InTurn(v)
      BY <2>1, <2>4 DEF Moves, InTurn
    <3>2. turn'[v].lease = turn[v].lease
      BY <2>1 DEF Moves
    <3>3. QED
      BY <1>0, <3>1, <3>2 DEF Looked
  <2>5. ASSUME NEW v \in Workers, pc'[v] = "write", ~turn'[v].esc PROVE openEsc' = 0
    <3>1. CASE v = w
      <4>1. ~(openEsc > 0) /\ openEsc' = openEsc
        BY <2>2, <2>5, <3>1, Zenon
      <4>2. QED
        BY <1>0, <4>1
    <3>2. CASE v # w
      <4>1. InTurn(v)
        BY <2>1, <2>5, <3>2 DEF Moves, InTurn
      <4>2. QED
        BY <1>h, <2>1, <3>2, <4>1, OneAtCommit
    <3>3. QED
      BY <3>1, <3>2
  <2>6. QED
    BY <2>3, <2>4, <2>5 DEF Looked
<1>2. ASSUME NEW w \in Workers, Outer(w) PROVE Looked' /\ openEsc' <= 1
  <2>1. /\ UNCHANGED inboxVars
        /\ \A v \in Workers \ {w} : pc'[v] = pc[v] /\ turn'[v] = turn[v]
        /\ pc'[w] \in {"idle", "lock", "load", "settle", pc[w]}
        /\ pc'[w] \in {"load", pc[w]} =>
              turn'[w].lease = "held" \/ RunUnlocked(w) \/ LeaseLapses(w)
    BY <1>2, OuterMoves DEF Escalations
  <2>2. ~RunUnlocked(w) /\ ~LeaseLapses(w)
    BY <1>h DEF RunUnlocked, LeaseLapses
  <2>3. openEsc' = openEsc
    BY <2>1 DEF inboxVars
  <2>4. pc'[w] # "write"
    BY <1>2, <2>1, <2>2 DEF Outer, Claim, Acquire, Busy, Release, ReleaseFails, Settle, Crash,
       Escalations, Inv, TypeOK
  <2>5. QED
    BY <1>0, <2>1, <2>2, <2>3, <2>4 DEF Looked, InTurn
<1>3. CASE UNCHANGED <<pc, turn>> /\ openEsc' <= openEsc /\ openEsc' \in Nat
  BY <1>0, <1>3 DEF Looked, InTurn
<1>4. ASSUME NEW m \in Msg, Client(m) \/ GrowOlder(m) \/ MediaPipeline(m) \/ MediaFails(m)
      PROVE  UNCHANGED <<pc, turn, openEsc>>
  BY <1>4, <1>h DEF LeasesHold, Client, RecordText, RecordMedia, CallEscalates, RecordCall, RowStored, GrowOlder,
     MediaPipeline, Transcribe, FileDocument, DocumentToAi, DocumentIsExpected, MediaFails
<1>5. ASSUME NEW j \in Job, DuplicateEvent(j) \/ RecoverStalled(j)
      PROVE  UNCHANGED <<pc, turn, openEsc>>
  BY <1>5 DEF DuplicateEvent, RecoverStalled, inboxVars
<1>6. CASE LeaseExpires \/ Staff \/ OutboundElsewhere \/ UNCHANGED vars
  <2>1. UNCHANGED <<pc, turn>> /\ openEsc' <= openEsc /\ openEsc' \in Nat
    BY <1>0, <1>6 DEF LeaseExpires, Staff, StaffTransition, StaffClearsEscalation,
       OutboundElsewhere, vars, inboxVars
  <2>2. QED
    BY <1>3, <2>1
<1>7. QED
  BY <1>0, <1>1, <1>2, <1>3, <1>4, <1>5, <1>6 DEF Next, TurnStep, TurnFault, Work, Outer

(* ai-orchestrator.service.ts looks for an open escalation in the          *)
(* transaction that raises one, under the lease: in a conversation without *)
(* voice calls and until a lease lapses or is skipped there is at most one,*)
(* for any number of turns, crashes, retries and moves of the staff.       *)
THEOREM OneEscalation == Spec => []OneOpenEscalation
<1>1. Init => Escalations
  <2>1. Init => Inv
    BY TypeInit, Parameters DEF Init, Inv, SlotOK, Sending, LeaseExclusion, InTurn
  <2>2. QED
    BY <2>1 DEF Init, Escalations, Looked, InTurn
<1>2. Escalations /\ [Next]_vars => Escalations'
  BY TypeStep, SlotsStep, EscalationStep DEF Escalations, Inv
<1>3. Escalations => OneOpenEscalation
  BY DEF Escalations, LeasesHold, OneOpenEscalation
<1>4. QED
  BY <1>1, <1>2, <1>3, PTL DEF Spec

-----------------------------------------------------------------------------
(* The completion marker                                                   *)

Texts == Audio \cup Docs = {}

(* The client has (the beginning of) what the turn says.                   *)
Spoken(w) ==
    \/ pc[w] \in {"row", "event", "mark"}
    \/ pc[w] = "tag" /\ turn[w].plan \in SendsFirst
    \/ Sending(w) /\ turn[w].left # Parts(turn[w].plan, turn[w].medium)

(* What the turn will mark is what it says, and once it has spoken that is *)
(* settled; so is the message whose marker it has seen.                    *)
Earned(w) ==
    /\ turn[w].ans \subseteq turn[w].said
    /\ Spoken(w) => \A m \in turn[w].ans : Settled(m)
    /\ turn[w].seen => Trigger(w) \in Msg /\ Settled(Trigger(w))

AllEarned ==
    /\ media = [m \in Msg |-> "none"]
    /\ \A m \in marked : Settled(m)
    /\ \A w \in Workers : Earned(w)

Markers == Inv /\ AllEarned

(* What is settled stays settled.                                          *)
Lasts == \A m \in Msg : Settled(m) => Settled(m)'

(* What a step of slot w owes.                                             *)
Owes(w) == Lasts /\ media' = media /\ (\A m \in marked' : Settled(m)') /\ Earned(w)'

(* A step that leaves the rows alone owes only what its own slot does.     *)
LEMMA RowsAlone ==
  ASSUME Markers, NEW w \in Workers, UNCHANGED <<answered, silenced, media>>,
         \A m \in marked' : Settled(m), Earned(w)'
  PROVE  Owes(w)
  BY DEF Owes, Lasts, Settled

(* The messages of a slot are messages.                                    *)
LEMMA TurnMsgs ==
  ASSUME Inv, NEW w \in Workers
  PROVE  /\ turn[w].ans \subseteq Msg /\ turn[w].said \subseteq Msg
         /\ turn[w].seen \in BOOLEAN
         /\ pc[w] # "idle" => Trigger(w) \in Msg
<1>1. turn[w] \in Turn
  BY DEF Inv, TypeOK
<1>2. pc[w] # "idle" => turn[w].job \in Job
  BY DEF Inv, SlotOK
<1>3. QED
  BY <1>1, <1>2 DEF Turn, Trigger, Job

(* Locals that were dropped owe nothing,                                   *)
LEMMA EndEarned ==
  ASSUME Inv, NEW w \in Workers, NEW result, End(w, result)
  PROVE  Earned(w)'
<1>1. turn'[w].ans = {} /\ turn'[w].said = {} /\ turn'[w].seen = FALSE
  BY DEF Inv, TypeOK, End, IdleTurn
<1>2. QED
  BY <1>1 DEF Earned

(* ... Goto owes what the new place asks for,                              *)
LEMMA GotoEarned ==
  ASSUME Markers, NEW w \in Workers, NEW where, Goto(w, where),
         Spoken(w)' => Spoken(w) \/ \A m \in turn[w].said : Settled(m)',
         Lasts
  PROVE  Earned(w)'
<1>1. turn' = turn
  BY DEF Goto
<1>2. Earned(w) /\ turn[w].ans \subseteq Msg
  BY TurnMsgs DEF Markers, AllEarned
<1>3. QED
  BY <1>1, <1>2 DEF Earned, Lasts, Trigger

(* ... and Deliver says everything from its beginning.                     *)
LEMMA DeliverEarned ==
  ASSUME Markers, NEW w \in Workers, NEW plan, NEW medium, Deliver(w, plan, medium)
  PROVE  Earned(w)'
<1>1. /\ pc'[w] = "send" /\ turn'[w].seen = FALSE
      /\ turn'[w].said = turn[w].said /\ turn'[w].ans = turn[w].ans
      /\ turn'[w].plan = plan /\ turn'[w].medium = medium
      /\ turn'[w].left = Parts(plan, medium)
  BY DEF Markers, Inv, TypeOK, Deliver, Proceed, IdleTurn
<1>2. ~Spoken(w)'
  BY <1>1 DEF Spoken, Sending, Parts
<1>3. QED
  BY <1>1, <1>2 DEF Markers, AllEarned, Earned

(* So does what is sent in the place of a booking's confirmation.          *)
LEMMA ApologiseEarned ==
  ASSUME Markers, NEW w \in Workers, Apologise(w)
  PROVE  Earned(w)'
<1>1. /\ pc'[w] = "tag" /\ turn'[w].seen = FALSE
      /\ turn'[w].said = turn[w].said /\ turn'[w].ans = turn[w].ans
      /\ turn'[w].plan = "offer" /\ turn'[w].left = 1
  BY DEF Markers, Inv, TypeOK, Apologise, Proceed, IdleTurn
<1>2. ~Spoken(w)'
  BY <1>1 DEF Spoken, Sending, Parts, SendsFirst
<1>3. QED
  BY <1>1, <1>2 DEF Markers, AllEarned, Earned

(* Completing is earned by whoever settled what the turn says.             *)
LEMMA CompleteEarned ==
  ASSUME Markers, NEW w \in Workers, Complete(w), \A m \in turn[w].said : Settled(m)'
  PROVE  Earned(w)'
<1>1. /\ turn'[w].seen = FALSE
      /\ turn'[w].said = turn[w].said /\ turn'[w].ans = turn[w].ans
  BY DEF Markers, Inv, TypeOK, Complete, Proceed, IdleTurn
<1>2. QED
  BY <1>1 DEF Markers, AllEarned, Earned

(* Phase 3 writes back a marker only where it has seen one.                *)
LEMMA PayloadEarned ==
  ASSUME Markers, NEW w \in Workers, PayloadWritten(w)
  PROVE  \A m \in marked' : m \in Msg /\ Settled(m)
<1>1. marked \subseteq Msg /\ \A m \in marked : Settled(m)
  BY DEF Markers, AllEarned, Inv, TypeOK
<1>2. turn[w].seen => Trigger(w) \in Msg /\ Settled(Trigger(w))
  BY DEF Markers, AllEarned, Earned
<1>3. QED
  BY <1>1, <1>2 DEF PayloadWritten

(* A message that gets an answer, or is left, is settled.                  *)
LEMMA AnsweredSettles ==
  ASSUME Inv, NEW S \in SUBSET Msg, silenced' = silenced,
         answered' = [m \in Msg |-> IF m \in S THEN answered[m] + 1 ELSE answered[m]]
  PROVE  Lasts /\ \A m \in S : Settled(m)'
  BY DEF Inv, TypeOK, Lasts, Settled

LEMMA SilencedSettles ==
  ASSUME NEW S, answered' = answered, silenced' = silenced \cup S
  PROVE  Lasts /\ \A m \in S : Settled(m)'
  BY DEF Lasts, Settled

(* Every step of a turn pays.                                              *)
LEMMA WorkEarned ==
  ASSUME Markers, NEW w \in Workers, Work(w)
  PROVE  Owes(w)
<1> USE DEF Markers
<1>0. /\ Inv /\ TypeOK /\ Earned(w) /\ turn[w] \in Turn
      /\ marked \subseteq Msg /\ \A m \in marked : Settled(m)
      /\ turn[w].ans \subseteq Msg /\ turn[w].said \subseteq Msg
      /\ pc[w] # "idle" => Trigger(w) \in Msg
  BY TurnMsgs DEF Inv, AllEarned, TypeOK
<1>1. CASE BurstSkip(w) \/ BurstWait(w) \/ TurnThrows(w) \/ MarkFails(w)
  <2>1. Earned(w)'
    BY <1>0, <1>1, EndEarned DEF BurstSkip, BurstWait, TurnThrows, Throw, MarkFails
  <2>2. UNCHANGED <<answered, silenced, media, marked>>
    BY <1>1 DEF BurstSkip, BurstWait, TurnThrows, MarkFails, inboxVars
  <2>3. QED
    BY <1>0, <2>1, <2>2, RowsAlone
<1>2. CASE Load(w) \/ NoIntercept(w) \/ AppendReplySent(w)
  <2>1. UNCHANGED <<answered, silenced, media, marked>>
    BY <1>2 DEF Load, NoIntercept, AppendReplySent, inboxVars
  <2>2. Lasts
    BY <2>1 DEF Lasts, Settled
  <2>3. CASE \E result : End(w, result)
    BY <1>0, <2>1, <2>3, EndEarned, RowsAlone
  <2>4. CASE Goto(w, "burst") \/ Goto(w, "read")
    <3>1. ~Spoken(w)'
      BY <1>0, <2>4, GotoMoves DEF Spoken, Sending
    <3>2. QED
      BY <1>0, <2>1, <2>2, <2>4, <3>1, GotoEarned, RowsAlone
  <2>5. CASE AppendReplySent(w)
    <3>1. Spoken(w) /\ Goto(w, "mark")
      BY <2>5 DEF AppendReplySent, Spoken
    <3>2. QED
      BY <1>0, <2>1, <2>2, <3>1, GotoEarned, RowsAlone
  <2>6. QED
    BY <1>2, <2>3, <2>4, <2>5 DEF Load, NoIntercept
<1>3. CASE Mark(w)
  <2>1. Spoken(w)
    BY <1>3 DEF Mark, Spoken
  <2>2. \A m \in marked' : Settled(m)
    BY <1>0, <1>3, <2>1 DEF Mark, Earned
  <2>3. QED
    BY <1>0, <1>3, <2>2, EndEarned, RowsAlone DEF Mark
<1>4. CASE CeilingReached(w)
  <2>1. Lasts /\ \A m \in turn[w].said : Settled(m)'
    BY <1>4, SilencedSettles DEF CeilingReached
  <2>2. \A m \in marked' : Settled(m)'
    BY <1>0, <1>4, <2>1 DEF CeilingReached, Lasts
  <2>3. Earned(w)'
    BY <1>4, <2>1, GotoEarned DEF CeilingReached
  <2>4. QED
    BY <1>4, <2>1, <2>2, <2>3 DEF CeilingReached, Owes
<1>5. CASE HardHandoff(w) \/ Reply(w)
  <2>1. \A m \in marked' : Settled(m)
    BY <1>5, PayloadEarned DEF HardHandoff, Reply, Phase3
  <2>2. Earned(w)'
    BY <1>5, DeliverEarned DEF HardHandoff, Reply
  <2>3. QED
    BY <1>5, <2>1, <2>2, RowsAlone DEF HardHandoff, Reply, Phase3
<1>6. CASE StaySilent(w)
  <2>1. Lasts /\ \A m \in turn[w].said : Settled(m)'
    BY <1>6, SilencedSettles DEF StaySilent
  <2>2. \A m \in marked' : Settled(m)'
    BY <1>6, <2>1, PayloadEarned DEF StaySilent, Phase3, Lasts
  <2>3. Earned(w)'
    BY <1>6, <2>1, CompleteEarned DEF StaySilent
  <2>4. QED
    BY <1>6, <2>1, <2>2, <2>3 DEF StaySilent, Phase3, Owes
<1>7. CASE QueueDraft(w)
  <2>1. Lasts /\ \A m \in turn[w].said : Settled(m)'
    BY <1>0, <1>7, AnsweredSettles DEF QueueDraft
  <2>2. \A m \in marked' : Settled(m)'
    BY <1>7, <2>1, PayloadEarned DEF QueueDraft, Phase3, Lasts
  <2>3. Earned(w)'
    BY <1>7, <2>1, CompleteEarned DEF QueueDraft
  <2>4. QED
    BY <1>7, <2>1, <2>2, <2>3 DEF QueueDraft, Phase3, Owes
<1>8. CASE SendRejected(w) \/ FailsAfterSend(w)
  <2>1. Earned(w)'
    BY <1>0, <1>8, EndEarned, DeliverEarned, ApologiseEarned
    DEF SendRejected, FailsAfterSend, Throw, FallBackToText
  <2>2. UNCHANGED <<answered, silenced, media, marked>>
    BY <1>8 DEF SendRejected, FailsAfterSend, inboxVars
  <2>3. QED
    BY <1>0, <2>1, <2>2, RowsAlone
<1>9. CASE BurstAnswer(w)
  <2>1. \A m \in Msg : ~Processing(m)
    BY DEF AllEarned, Processing
  <2>2. Window(w) \subseteq Msg
    BY <1>0 DEF TypeOK, Window, Newest
  <2>3. turn'[w].ans \subseteq turn'[w].said
    <3>1. PICK ans \in SUBSET Msg :
            turn' = [turn EXCEPT ![w] = [turn[w] EXCEPT !.ans = ans,
                                           !.said = {m \in ans : ~Processing(m)}]]
      BY <1>0, <1>9, <2>2 DEF BurstAnswer
    <3>2. turn'[w].ans = ans /\ turn'[w].said = {m \in ans : ~Processing(m)}
      BY <1>0, <3>1 DEF TypeOK, Turn
    <3>3. QED
      BY <2>1, <3>2
  <2>4. turn'[w].seen = turn[w].seen /\ turn'[w].job = turn[w].job /\ pc'[w] = "route"
    BY <1>0, <1>9 DEF TypeOK, BurstAnswer
  <2>5. UNCHANGED <<answered, silenced, media, marked>>
    BY <1>9 DEF BurstAnswer, inboxVars
  <2>6. Earned(w)'
    BY <1>0, <2>3, <2>4, <2>5 DEF Earned, Spoken, Sending, Trigger, Settled
  <2>7. QED
    BY <1>0, <2>5, <2>6, RowsAlone
<1>10. CASE \E plan \in SendsFirst \cup {"offer"} : Intercept(w, plan)
  <2>1. PICK plan \in SendsFirst \cup {"offer"} : Intercept(w, plan)
    BY <1>10
  <2>2. turn'[w] = [turn[w] EXCEPT !.plan = plan, !.left = 1, !.medium = "text"]
    BY <1>0, <2>1 DEF TypeOK, Intercept
  <2>3. /\ turn'[w].ans = turn[w].ans /\ turn'[w].said = turn[w].said
        /\ turn'[w].seen = turn[w].seen /\ turn'[w].job = turn[w].job
        /\ turn'[w].plan = plan /\ turn'[w].left = 1
    BY <1>0, <2>2 DEF Turn
  <2>4. pc'[w] = "send" \/ (pc'[w] = "tag" /\ plan = "offer")
    BY <1>0, <2>1 DEF TypeOK, Intercept
  <2>5. ~Spoken(w)'
    BY <2>1, <2>3, <2>4 DEF Spoken, Sending, Parts, SendsFirst
  <2>6. UNCHANGED <<answered, silenced, media, marked>>
    BY <2>1 DEF Intercept, inboxVars
  <2>7. Earned(w)'
    BY <1>0, <2>3, <2>5, <2>6 DEF Earned, Trigger, Settled
  <2>8. QED
    BY <1>0, <2>6, <2>7, RowsAlone
<1>11. CASE Tag(w)
  <2>1. UNCHANGED <<answered, silenced, media>> /\ marked' \subseteq marked
    BY <1>11 DEF Tag
  <2>2. Lasts
    BY <2>1 DEF Lasts, Settled
  <2>3. PICK where : Goto(w, where) /\ where = IF turn[w].plan \in SendsFirst THEN "mark" ELSE "send"
    BY <1>11 DEF Tag
  <2>4. Spoken(w)' => Spoken(w)
    BY <1>0, <1>11, <2>3, GotoMoves DEF Tag, Spoken, Sending, Parts
  <2>5. Earned(w)'
    BY <2>2, <2>3, <2>4, GotoEarned
  <2>6. QED
    BY <1>0, <2>1, <2>5, RowsAlone
<1>12. CASE Read(w) \/ ReadFresh(w)
  <2>1. UNCHANGED <<answered, silenced, media, marked>> /\ pc'[w] \in {"fresh", "write"}
    BY <1>0, <1>12 DEF TypeOK, Read, ReadFresh, inboxVars
  <2>2. /\ turn'[w].ans = turn[w].ans /\ turn'[w].said = turn[w].said
        /\ turn'[w].job = turn[w].job
        /\ turn'[w].seen = turn[w].seen \/ turn'[w].seen = (Trigger(w) \in marked)
    BY <1>0, <1>12 DEF TypeOK, Read, ReadFresh, Turn
  <2>3. turn'[w].seen => Trigger(w) \in Msg /\ Settled(Trigger(w))
    BY <1>0, <2>2, Zenon DEF Earned
  <2>4. Earned(w)'
    BY <1>0, <2>1, <2>2, <2>3 DEF Earned, Spoken, Sending, Trigger, Settled
  <2>5. QED
    BY <1>0, <2>1, <2>4, RowsAlone
<1>13. CASE SendAccepted(w)
  <2>1. Lasts /\ (turn[w].left = Parts(turn[w].plan, turn[w].medium)
                    => \A m \in turn[w].said : Settled(m)')
    <3>1. CASE turn[w].left = Parts(turn[w].plan, turn[w].medium)
      BY <1>0, <1>13, <3>1, AnsweredSettles DEF SendAccepted
    <3>2. CASE turn[w].left # Parts(turn[w].plan, turn[w].medium)
      BY <1>13, <3>2 DEF SendAccepted, Lasts, Settled
    <3>3. QED
      BY <3>1, <3>2
  <2>2. turn'[w] = [turn[w] EXCEPT !.at = stored]
    BY <1>0, <1>13 DEF TypeOK, SendAccepted
  <2>3. /\ turn'[w].ans = turn[w].ans /\ turn'[w].said = turn[w].said
        /\ turn'[w].seen = turn[w].seen /\ turn'[w].job = turn[w].job
    BY <1>0, <2>2 DEF Turn
  <2>4. \A m \in turn[w].ans : Settled(m)'
    BY <1>0, <1>13, <2>1 DEF SendAccepted, Earned, Spoken, Sending, Lasts
  <2>5. Earned(w)'
    BY <1>0, <2>1, <2>3, <2>4 DEF Earned, Trigger, Lasts
  <2>6. QED
    BY <1>0, <1>13, <2>1, <2>5 DEF SendAccepted, Owes, Lasts
<1>14. CASE RecordSent(w)
  <2>1. UNCHANGED <<answered, silenced, media, marked>> /\ Spoken(w)
    BY <1>14 DEF RecordSent, Spoken
  <2>2. turn'[w] = [turn[w] EXCEPT !.left = turn[w].left - 1, !.at = {}]
    BY <1>0, <1>14 DEF TypeOK, RecordSent
  <2>3. /\ turn'[w].ans = turn[w].ans /\ turn'[w].said = turn[w].said
        /\ turn'[w].seen = turn[w].seen /\ turn'[w].job = turn[w].job
    BY <1>0, <2>2 DEF Turn
  <2>4. Earned(w)'
    BY <1>0, <2>1, <2>3 DEF Earned, Trigger, Settled
  <2>5. QED
    BY <1>0, <2>1, <2>4, RowsAlone
<1>15. QED
  BY <1>1, <1>2, <1>3, <1>4, <1>5, <1>6, <1>7, <1>8, <1>9, <1>10, <1>11, <1>12,
     <1>13, <1>14 DEF Work

(* So does every step around it.                                           *)
LEMMA OuterEarned ==
  ASSUME Markers, NEW w \in Workers, Outer(w)
  PROVE  Owes(w)
<1> USE DEF Markers
<1>0. Inv /\ TypeOK /\ Earned(w) /\ turn[w] \in Turn /\ \A m \in marked : Settled(m)
  BY DEF Inv, AllEarned, TypeOK
<1>1. /\ UNCHANGED <<answered, silenced, media, marked>>
      /\ pc'[w] \in {"idle", "lock", "load", "settle", pc[w]}
  BY <1>0, OuterMoves DEF inboxVars
<1>2. CASE (\E j \in Job : Claim(w, j)) \/ Settle(w) \/ Crash(w)
  <2>1. turn'[w].ans = {} /\ turn'[w].said = {} /\ turn'[w].seen = FALSE
    BY <1>0, <1>2 DEF TypeOK, Claim, Settle, Crash, IdleTurn
  <2>2. Earned(w)'
    BY <2>1 DEF Earned
  <2>3. QED
    BY <1>0, <1>1, <2>2, RowsAlone
<1>3. CASE \/ Acquire(w) \/ Busy(w) \/ RunUnlocked(w) \/ LeaseLapses(w)
           \/ Release(w) \/ ReleaseFails(w)
  <2>1. \/ \E x : turn'[w] = [turn[w] EXCEPT !.lease = x]
        \/ \E x : turn'[w] = [turn[w] EXCEPT !.result = x]
    BY <1>0, <1>3 DEF TypeOK, Acquire, Busy, RunUnlocked, LeaseLapses, Release, ReleaseFails
  <2>2. /\ turn'[w].ans = turn[w].ans /\ turn'[w].said = turn[w].said
        /\ turn'[w].seen = turn[w].seen /\ turn'[w].job = turn[w].job
        /\ turn'[w].plan = turn[w].plan /\ turn'[w].medium = turn[w].medium
        /\ turn'[w].left = turn[w].left
    BY <1>0, <2>1 DEF Turn
  <2>3. Spoken(w)' => Spoken(w)
    BY <1>1, <2>2 DEF Spoken, Sending, Parts
  <2>4. Earned(w)'
    BY <1>0, <1>1, <2>2, <2>3 DEF Earned, Trigger, Settled
  <2>5. QED
    BY <1>0, <1>1, <2>4, RowsAlone
<1>4. QED
  BY <1>2, <1>3 DEF Outer

(* Every step keeps all of it.                                             *)
LEMMA MarkerStep ==
  ASSUME Texts, Markers, [Next]_vars
  PROVE  AllEarned'
<1> USE DEF Markers
<1>1. ASSUME NEW w \in Workers, Work(w) \/ Outer(w) PROVE AllEarned'
  <2>1. Owes(w)
    BY <1>1, WorkEarned, OuterEarned
  <2>2. \A v \in Workers \ {w} : pc'[v] = pc[v] /\ turn'[v] = turn[v]
    BY <1>1, WorkMoves, OuterMoves DEF Moves
  <2>3. ASSUME NEW v \in Workers \ {w} PROVE Earned(v)'
    <3>1. Earned(v) /\ turn[v].ans \subseteq Msg
      BY TurnMsgs DEF AllEarned
    <3>2. Spoken(v)' => Spoken(v)
      BY <2>2 DEF Spoken, Sending
    <3>3. QED
      BY <2>1, <2>2, <3>1, <3>2 DEF Earned, Owes, Lasts, Trigger
  <2>4. QED
    BY <2>1, <2>3 DEF AllEarned, Owes
<1>2. ASSUME UNCHANGED <<pc, turn, media, marked, answered, silenced>> PROVE AllEarned'
  BY <1>2 DEF AllEarned, Earned, Spoken, Sending, Trigger, Settled
<1>3. ASSUME NEW m \in Msg, Client(m) \/ GrowOlder(m) \/ MediaPipeline(m) \/ MediaFails(m)
      PROVE  UNCHANGED <<pc, turn, media, marked, answered, silenced>>
  BY <1>3 DEF Texts, AllEarned, Client, RecordText, RecordMedia, CallEscalates, RecordCall, RowStored,
     GrowOlder, MediaPipeline, Transcribe, FileDocument, DocumentToAi, DocumentIsExpected,
     MediaFails
<1>4. ASSUME NEW j \in Job, DuplicateEvent(j) \/ RecoverStalled(j)
      PROVE  UNCHANGED <<pc, turn, media, marked, answered, silenced>>
  BY <1>4 DEF DuplicateEvent, RecoverStalled, inboxVars
<1>5. ASSUME LeaseExpires \/ Staff \/ OutboundElsewhere \/ UNCHANGED vars
      PROVE  UNCHANGED <<pc, turn, media, marked, answered, silenced>>
  BY <1>5 DEF LeaseExpires, Staff, StaffTransition, StaffClearsEscalation,
     OutboundElsewhere, vars, inboxVars
<1>6. QED
  BY <1>1, <1>2, <1>3, <1>4, <1>5 DEF Next, TurnStep, TurnFault, Work, Outer

(* markTurnCompleted, and the payloads Phase 3 and the intercepts write    *)
(* back, in a conversation of texts: a marker says that the client has the *)
(* answer or that a turn chose to give none, whatever crashes, lapses, is  *)
(* refused, rolled back, duplicated or retried.                            *)
THEOREM MarkersAreEarned == ASSUME Texts PROVE Spec => []MarkMeansDone
<1>1. Init => Markers
  <2>1. Init => Inv
    BY TypeInit, Parameters DEF Init, Inv, SlotOK, Sending, LeaseExclusion, InTurn
  <2>2. Init => \A w \in Workers : Earned(w)
    BY DEF Init, IdleTurn, Earned, Spoken, Sending
  <2>3. QED
    BY <2>1, <2>2 DEF Init, Markers, AllEarned
<1>2. Markers /\ [Next]_vars => Markers'
  BY TypeStep, SlotsStep, MarkerStep DEF Markers, Inv
<1>3. Markers => MarkMeansDone
  BY DEF Markers, AllEarned, MarkMeansDone, Settled
<1>4. QED
  BY <1>1, <1>2, <1>3, PTL DEF Spec

-----------------------------------------------------------------------------
(* Nobody is left waiting                                                  *)

(* Texts whose bursts fit the window of maxMessages; so far no lease lapsed*)
(* or was skipped, and no marker was lost, nor does this step do it.       *)
(* Crashes, refused sends, lost commits, exceptions and staff are free.    *)
Small == Text = Msg /\ N <= MaxMessages
Drains == Small /\ Never({"lapse", "redis", "mark"})
Safe == ~Happens("lapse") /\ ~Happens("redis") /\ ~Happens("mark")

(* Where a turn has its messages in hand, and where it may still take some *)
(* or hand its job back.                                                   *)
Working(w) ==
    pc[w] \in {"route", "read", "fresh", "write", "tag", "send", "row", "event", "mark"}
Deciding(w) ==
    \/ pc[w] \in {"lock", "load", "burst"}
    \/ pc[w] \in {"release", "settle"} /\ turn[w].result # "done"

InHand(x) == \E w \in Workers : Working(w) /\ x \in turn[w].ans
Ahead(j) ==
    jobs[j] \in {"waiting", "stalled"} \/ \E w \in Workers : turn[w].job = j /\ Deciding(w)
Failed(x) == \E j \in Job : j[1] >= x /\ jobs[j] = "failed"

(* A job that may still take the message: its own is not marked, and no    *)
(* turn is about to mark it.                                               *)
Coming(x) ==
    \E j \in Job : /\ j[1] >= x /\ j[1] \notin marked
                   /\ ~InHand(j[1]) /\ Ahead(j)

Cared(x) == InHand(x) \/ Failed(x) \/ Coming(x)
NobodyForgotten == \A x \in Msg : Pending(x) => Cared(x)

(* What the slots and the queue know of each other.                        *)
OwnsJob(w) ==
    pc[w] # "idle" => /\ jobs[turn[w].job] = "active"
                      /\ \A v \in Workers \ {w} : pc[v] # "idle" => turn[v].job # turn[w].job
HoldsBurst(w) ==
    /\ pc[w] = "burst" \/ Working(w) => Trigger(w) \notin marked
    /\ ~turn[w].seen
    /\ Working(w) => /\ Trigger(w) \in turn[w].ans
                     /\ \A m \in turn[w].ans : m \in stored /\ m <= Trigger(w)
Leased == \A w \in Workers : InTurn(w) => turn[w].lease = "held"
JobsStored == \A j \in Job : jobs[j] # "none" => j[1] \in stored

Queue ==
    /\ Markers /\ Leased /\ JobsStored
    /\ \A w \in Workers : OwnsJob(w) /\ HoldsBurst(w)

(* The lease lets one turn in at a time.                                   *)
LEMMA Alone ==
  ASSUME Queue, NEW v \in Workers, NEW w \in Workers, InTurn(v), InTurn(w)
  PROVE  v = w
  BY DEF Queue, Markers, Inv, Leased, LeaseExclusion

LEMMA WorkingInTurn ==
  ASSUME NEW w, Working(w) \/ pc[w] \in {"load", "burst"}
  PROVE  InTurn(w)
  BY DEF Working, InTurn

(* While w is in its turn, what is in hand is in the hand of w.            *)
LEMMA HandOf ==
  ASSUME Queue, NEW w \in Workers, InTurn(w), NEW x
  PROVE  InHand(x) <=> Working(w) /\ x \in turn[w].ans
  BY Alone, WorkingInTurn DEF InHand

-----------------------------------------------------------------------------
(* What a step of a turn is, as far as the queue is concerned.             *)
Looks(w) ==
    /\ pc[w] = "load" /\ pc'[w] = "burst" /\ turn' = turn
    /\ Trigger(w) \notin marked
    /\ UNCHANGED <<marked, lastOut>>
Ends(w) ==
    /\ pc[w] \in {"load", "burst"} \/ Working(w)
    /\ pc'[w] = "release" /\ ~turn'[w].seen /\ lastOut' = lastOut
    /\ \/ turn'[w].result # "done" /\ marked' = marked
       \/ pc[w] = "load" /\ Trigger(w) \in marked /\ marked' = marked
       \/ BurstSkip(w) /\ marked' = marked
       \/ pc[w] = "mark" /\ marked' = marked \cup turn[w].ans
Takes(w) ==
    /\ BurstAnswer(w) /\ pc[w] = "burst" /\ pc'[w] = "route" /\ turn'[w].seen = turn[w].seen
    /\ turn'[w].ans = IF Trigger(w) \in Window(w) THEN Window(w) ELSE {Trigger(w)}
    /\ UNCHANGED <<marked, lastOut>>
Carries(w) ==
    /\ Working(w) /\ Working(w)' /\ ~turn'[w].seen /\ turn'[w].ans = turn[w].ans
    /\ marked' = marked /\ lastOut' \in lastOut..N
    /\ lastOut' # lastOut => QueueDraft(w) \/ RecordSent(w)

Turning(w) == Looks(w) \/ Ends(w) \/ Takes(w) \/ Carries(w)

LEMMA EndsHow ==
  ASSUME Queue, NEW w \in Workers, NEW result, End(w, result)
  PROVE  pc'[w] = "release" /\ turn'[w].result = result /\ ~turn'[w].seen
<1>1. pc'[w] = "release" /\ turn'[w].result = result /\ turn'[w].seen = FALSE
  BY DEF Queue, Markers, Inv, TypeOK, End, IdleTurn
<1>2. QED
  BY <1>1, Zenon

LEMMA ProceedsHow ==
  ASSUME Queue, NEW w \in Workers, NEW where, NEW plan, NEW medium, NEW left,
         Proceed(w, where, plan, medium, left)
  PROVE  pc'[w] = where /\ turn'[w].seen = FALSE /\ turn'[w].ans = turn[w].ans
  BY DEF Queue, Markers, Inv, TypeOK, Proceed, IdleTurn

LEMMA WorkTurns ==
  ASSUME Small, Safe, Queue, NEW w \in Workers, Work(w)
  PROVE  /\ Moves(w) /\ InTurn(w) /\ UNCHANGED <<stored, jobs, lock>>
         /\ Turning(w)
<1> USE DEF Queue, Markers, inboxVars, queueVars
<1>0. /\ Inv /\ TypeOK /\ turn[w] \in Turn /\ HoldsBurst(w) /\ lastOut \in 0..N
      /\ Moves(w) /\ InTurn(w) /\ lock' = lock
  BY WorkMoves DEF Inv, TypeOK
<1>s. turn[w].seen = FALSE
  BY <1>0 DEF HoldsBurst, Turn
<1>n. N \in Nat
  BY Parameters
<1>m. Working(w) => Trigger(w) \notin marked
  BY <1>0 DEF HoldsBurst
<1>1. CASE Load(w)
  <2>1. UNCHANGED <<stored, jobs, marked, lastOut>> /\ pc[w] = "load"
    BY <1>1 DEF Load
  <2>2. CASE Trigger(w) \in marked /\ End(w, "done")
    BY <1>0, <2>1, <2>2, EndsHow DEF Turning, Ends
  <2>3. CASE Trigger(w) \notin marked /\ Goto(w, "burst")
    BY <1>0, <2>1, <2>3, GotoMoves DEF Turning, Looks
  <2>4. QED
    BY <1>0, <1>1, <2>1, <2>2, <2>3 DEF Load
<1>2. CASE BurstSkip(w) \/ BurstWait(w)
  <2>1. UNCHANGED <<stored, jobs, marked, lastOut>> /\ pc[w] = "burst"
    BY <1>2 DEF BurstSkip, BurstWait
  <2>2. PICK result : /\ End(w, result)
                      /\ BurstSkip(w) \/ result # "done"
    BY <1>2 DEF BurstWait, BurstSkip
  <2>3. pc'[w] = "release" /\ turn'[w].result = result /\ ~turn'[w].seen
    BY <2>2, EndsHow, Zenon
  <2>4. Ends(w)
    BY <2>1, <2>2, <2>3, Zenon DEF Ends
  <2>5. QED
    BY <1>0, <2>1, <2>4 DEF Turning
<1>3. CASE TurnThrows(w)
  <2>1. UNCHANGED <<stored, jobs, marked, lastOut>> /\ (pc[w] \in {"load", "burst"} \/ Working(w))
    BY <1>3 DEF TurnThrows, Working
  <2>2. End(w, "retry")
    BY <1>3 DEF TurnThrows, Throw
  <2>3. pc'[w] = "release" /\ turn'[w].result = "retry" /\ ~turn'[w].seen
    BY <2>2, EndsHow, Zenon
  <2>4. Ends(w)
    BY <2>1, <2>3 DEF Ends
  <2>5. QED
    BY <1>0, <2>1, <2>4 DEF Turning
<1>4. CASE Mark(w)
  <2>1. UNCHANGED <<stored, jobs, lastOut>> /\ marked' = marked \cup turn[w].ans /\ Working(w)
        /\ pc[w] = "mark"
    BY <1>4 DEF Mark, Working
  <2>2. Ends(w)
    BY <1>4, <2>1, EndsHow DEF Mark, Ends
  <2>3. QED
    BY <1>0, <2>1, <2>2 DEF Turning
<1>5. CASE MarkFails(w)
  BY <1>5 DEF Safe, MarkFails
<1>6. CASE SendRejected(w) \/ FailsAfterSend(w)
  <2>1. UNCHANGED <<stored, jobs, marked, lastOut>> /\ Working(w)
    BY <1>6 DEF SendRejected, FailsAfterSend, Working
  <2>a. CASE Apologise(w)
    <3>1. pc'[w] = "tag" /\ turn'[w].seen = FALSE /\ turn'[w].ans = turn[w].ans
      BY <2>a, ProceedsHow DEF Apologise
    <3>2. Carries(w)
      BY <1>0, <1>n, <2>1, <3>1 DEF Carries, Working
    <3>3. QED
      BY <1>0, <2>1, <3>2 DEF Turning
  <2>2. CASE \E result \in {"retry", "dead"} : End(w, result)
    <3>1. Ends(w)
      BY <2>1, <2>2, EndsHow DEF Ends
    <3>2. QED
      BY <1>0, <2>1, <3>1 DEF Turning
  <2>3. CASE FallBackToText(w)
    <3>1. pc'[w] = "send" /\ turn'[w].seen = FALSE /\ turn'[w].ans = turn[w].ans
      BY <2>3, ProceedsHow DEF FallBackToText, Deliver
    <3>2. Carries(w)
      BY <1>0, <1>n, <2>1, <3>1 DEF Carries, Working
    <3>3. QED
      BY <1>0, <2>1, <3>2 DEF Turning
  <2>4. QED
    BY <1>6, <2>a, <2>2, <2>3 DEF SendRejected, FailsAfterSend, Throw
<1>7. CASE BurstAnswer(w)
  <2>1. UNCHANGED <<stored, jobs, marked, lastOut>> /\ pc[w] = "burst" /\ pc'[w] = "route"
    BY <1>0, <1>7 DEF BurstAnswer, TypeOK
  <2>2. PICK ans, said :
           /\ ans = IF Trigger(w) \in Window(w) THEN Window(w) ELSE {Trigger(w)}
           /\ turn' = [turn EXCEPT ![w] = [turn[w] EXCEPT !.ans = ans, !.said = said]]
    BY <1>0, <1>7 DEF BurstAnswer, TypeOK
  <2>3. turn'[w].ans = ans /\ turn'[w].seen = turn[w].seen
    BY <1>0, <2>2 DEF Turn, TypeOK
  <2>4. Takes(w)
    BY <1>7, <2>1, <2>2, <2>3 DEF Takes
  <2>5. QED
    BY <1>0, <2>1, <2>4 DEF Turning
<1>8. CASE \E plan \in SendsFirst \cup {"offer"} : Intercept(w, plan)
  <2>1. PICK plan \in SendsFirst \cup {"offer"} : Intercept(w, plan)
    BY <1>8
  <2>2. UNCHANGED <<stored, jobs, marked, lastOut>> /\ Working(w) /\ pc'[w] \in {"send", "tag"}
    BY <1>0, <2>1 DEF Intercept, Working, TypeOK
  <2>3. turn'[w] = [turn[w] EXCEPT !.plan = plan, !.left = 1, !.medium = "text"]
    BY <1>0, <2>1 DEF Intercept, TypeOK
  <2>4. turn'[w].ans = turn[w].ans /\ turn'[w].seen = turn[w].seen
    BY <1>0, <2>3 DEF Turn
  <2>5. Carries(w)
    BY <1>0, <1>n, <1>s, <2>2, <2>4 DEF Carries, Working
  <2>6. QED
    BY <1>0, <2>2, <2>5 DEF Turning
<1>9. CASE NoIntercept(w) \/ CeilingReached(w) \/ AppendReplySent(w) \/ Tag(w)
  <2>1. UNCHANGED <<stored, jobs, lastOut>> /\ Working(w)
    BY <1>9 DEF NoIntercept, CeilingReached, AppendReplySent, Tag, Working
  <2>2. marked' = marked
    BY <1>9, <1>m, <2>1 DEF NoIntercept, CeilingReached, AppendReplySent, Tag
  <2>3. PICK where \in {"read", "mark", "send"} : Goto(w, where)
    BY <1>9 DEF NoIntercept, CeilingReached, AppendReplySent, Tag
  <2>4. pc'[w] = where /\ turn' = turn
    BY <1>0, <2>3, GotoMoves
  <2>5. Carries(w)
    BY <1>0, <1>n, <1>s, <2>1, <2>2, <2>4 DEF Carries, Working
  <2>6. QED
    BY <1>0, <2>1, <2>5 DEF Turning
<1>10. CASE Read(w)
  <2>1. UNCHANGED <<stored, jobs, marked, lastOut>> /\ Working(w) /\ pc'[w] = "fresh"
    BY <1>0, <1>10 DEF Read, Working, TypeOK
  <2>2. turn'[w] = [turn[w] EXCEPT !.seen = Trigger(w) \in marked]
    BY <1>0, <1>10 DEF Read, TypeOK
  <2>3. turn'[w].ans = turn[w].ans /\ turn'[w].seen = (Trigger(w) \in marked)
    BY <1>0, <2>2 DEF Turn
  <2>4. ~turn'[w].seen
    BY <1>m, <2>1, <2>3, Zenon
  <2>5. Carries(w)
    BY <1>0, <1>n, <2>1, <2>3, <2>4 DEF Carries, Working
  <2>6. QED
    BY <1>0, <2>1, <2>5 DEF Turning
<1>11. CASE ReadFresh(w)
  <2>1. UNCHANGED <<stored, jobs, marked, lastOut>> /\ Working(w) /\ pc'[w] = "write"
    BY <1>0, <1>11 DEF ReadFresh, Working, TypeOK
  <2>2. PICK esc : turn'[w] = [turn[w] EXCEPT !.fresh = conv, !.esc = esc]
    BY <1>0, <1>11 DEF ReadFresh, TypeOK
  <2>3. turn'[w].ans = turn[w].ans /\ turn'[w].seen = turn[w].seen
    BY <1>0, <2>2 DEF Turn
  <2>4. Carries(w)
    BY <1>0, <1>n, <1>s, <2>1, <2>3 DEF Carries, Working
  <2>5. QED
    BY <1>0, <2>1, <2>4 DEF Turning
<1>12. CASE HardHandoff(w) \/ StaySilent(w) \/ QueueDraft(w) \/ Reply(w)
  <2>1. UNCHANGED <<stored, jobs>> /\ Working(w) /\ PayloadWritten(w)
    BY <1>12 DEF HardHandoff, StaySilent, QueueDraft, Reply, Phase3, Working
  <2>2. marked' = marked
    BY <1>m, <1>s, <2>1 DEF PayloadWritten
  <2>3. PICK where \in {"send", "mark"} : \E plan, medium, left : Proceed(w, where, plan, medium, left)
    BY <1>12 DEF HardHandoff, StaySilent, QueueDraft, Reply, Deliver, Complete
  <2>4. pc'[w] = where /\ turn'[w].seen = FALSE /\ turn'[w].ans = turn[w].ans
    BY <2>3, ProceedsHow
  <2>5. lastOut' \in lastOut..N /\ (lastOut' # lastOut => QueueDraft(w))
    <3>1. CASE QueueDraft(w)
      <4>1. lastOut' \in NewerThan(stored)
        BY <3>1 DEF QueueDraft
      <4>2. QED
        BY <3>1, <4>1 DEF NewerThan
    <3>2. CASE HardHandoff(w) \/ StaySilent(w) \/ Reply(w)
      <4>1. lastOut' = lastOut
        BY <3>2 DEF HardHandoff, StaySilent, Reply
      <4>2. lastOut \in lastOut..N
        BY <1>0, <1>n
      <4>3. QED
        BY <4>1, <4>2
    <3>3. QED
      BY <1>12, <3>1, <3>2
  <2>6. Carries(w)
    BY <2>1, <2>2, <2>4, <2>5 DEF Carries, Working
  <2>7. QED
    BY <1>0, <2>1, <2>6 DEF Turning
<1>13. CASE SendAccepted(w)
  <2>1. UNCHANGED <<stored, jobs, marked, lastOut>> /\ Working(w) /\ pc'[w] = "row"
    BY <1>0, <1>13 DEF SendAccepted, Working, TypeOK
  <2>2. turn'[w] = [turn[w] EXCEPT !.at = stored]
    BY <1>0, <1>13 DEF SendAccepted, TypeOK
  <2>3. turn'[w].ans = turn[w].ans /\ turn'[w].seen = turn[w].seen
    BY <1>0, <2>2 DEF Turn
  <2>4. Carries(w)
    BY <1>0, <1>n, <1>s, <2>1, <2>3 DEF Carries, Working
  <2>5. QED
    BY <1>0, <2>1, <2>4 DEF Turning
<1>14. CASE RecordSent(w)
  <2>1. UNCHANGED <<stored, jobs, marked>> /\ Working(w) /\ pc'[w] = AfterRow(w)
    BY <1>0, <1>14 DEF RecordSent, Working, TypeOK
  <2>2. AfterRow(w) \in {"send", "tag", "mark", "event"}
    BY DEF AfterRow
  <2>3. turn'[w] = [turn[w] EXCEPT !.left = turn[w].left - 1, !.at = {}]
    BY <1>0, <1>14 DEF RecordSent, TypeOK
  <2>4. turn'[w].ans = turn[w].ans /\ turn'[w].seen = turn[w].seen
    BY <1>0, <2>3 DEF Turn
  <2>5. lastOut' \in lastOut..N
    BY <1>0, <1>n, <1>14 DEF RecordSent, NewerThan
  <2>6. Carries(w)
    BY <1>14, <1>s, <2>1, <2>2, <2>4, <2>5 DEF Carries, Working
  <2>7. QED
    BY <1>0, <2>1, <2>6 DEF Turning
<1>15. QED
  BY <1>1, <1>2, <1>3, <1>4, <1>5, <1>6, <1>7, <1>8, <1>9, <1>10, <1>11, <1>12,
     <1>13, <1>14 DEF Work

-----------------------------------------------------------------------------
(* In a burst that fits the window the window is what is pending.          *)
LEMMA NewestIsAll ==
  ASSUME NEW S \in SUBSET Msg, NEW k \in Nat, N <= k
  PROVE  Newest(S, k) = S
<1>1. ASSUME NEW m \in S PROVE Cardinality({x \in S : x > m}) < k
  <2>1. m \in 1..N /\ N \in Nat
    BY Parameters DEF Msg
  <2>2. IsFiniteSet((m + 1)..N) /\ Cardinality((m + 1)..N) <= N - m
    <3>1. m + 1 \in Int /\ N \in Int
      BY <2>1
    <3>2. /\ IsFiniteSet((m + 1)..N)
          /\ Cardinality((m + 1)..N) = IF m + 1 > N THEN 0 ELSE N - (m + 1) + 1
      BY <3>1, FS_Interval
    <3>3. QED
      BY <2>1, <3>2
  <2>3. {x \in S : x > m} \subseteq (m + 1)..N
    <3>1. \A x \in S : x \in 1..N
      BY DEF Msg
    <3>2. ASSUME NEW x \in S, x > m PROVE x \in (m + 1)..N
      BY <2>1, <3>1, <3>2
    <3>3. QED
      BY <3>2, Zenon
  <2>4. /\ IsFiniteSet({x \in S : x > m})
        /\ Cardinality({x \in S : x > m}) <= Cardinality((m + 1)..N)
    BY <2>2, <2>3, FS_Subset
  <2>5. Cardinality({x \in S : x > m}) \in Nat /\ Cardinality((m + 1)..N) \in Nat
    BY <2>2, <2>4, FS_CardinalityType
  <2>6. QED
    BY <2>1, <2>2, <2>4, <2>5
<1>2. QED
  BY <1>1 DEF Newest

LEMMA WindowIsPending ==
  ASSUME Small, Queue, NEW w \in Workers
  PROVE  Window(w) = {m \in stored : m > lastOut /\ (m = Trigger(w) \/ m \notin marked)}
<1> DEFINE rows == {m \in stored : m > lastOut}
           pending == {m \in rows : m = Trigger(w) \/ m \notin marked}
<1>1. rows \in SUBSET Msg /\ pending \in SUBSET Msg
  BY DEF Queue, Markers, Inv, TypeOK
<1>2. MaxMessages \in Nat /\ 2 * MaxMessages \in Nat /\ N <= MaxMessages /\ N <= 2 * MaxMessages
  BY Parameters DEF Small
<1>3. Newest(rows, 2 * MaxMessages) = rows /\ Newest(pending, MaxMessages) = pending
  <2> HIDE DEF rows, pending
  <2>1. QED
    BY <1>1, <1>2, NewestIsAll
<1>4. Window(w) = Newest({m \in Newest(rows, 2 * MaxMessages) :
                            m = Trigger(w) \/ m \notin marked}, MaxMessages)
  BY DEF Window
<1>5. Window(w) = pending
  BY <1>3, <1>4
<1>6. QED
  BY <1>5

(* A slot with a job has its message's row.                                *)
LEMMA TriggerStored ==
  ASSUME Queue, NEW w \in Workers, pc[w] # "idle"
  PROVE  /\ turn[w].job \in Job /\ Trigger(w) \in stored /\ Trigger(w) \in Msg
         /\ jobs[turn[w].job] = "active"
<1>1. turn[w].job \in Job /\ jobs[turn[w].job] = "active"
  BY DEF Queue, Markers, Inv, SlotOK, OwnsJob
<1>2. Trigger(w) \in stored
  BY <1>1 DEF Queue, JobsStored, Trigger
<1>3. QED
  BY <1>1, <1>2 DEF Queue, Markers, Inv, TypeOK

-----------------------------------------------------------------------------
(* The queue and the slots keep agreeing.                                  *)
QueueKept ==
    Leased' /\ JobsStored' /\ \A v \in Workers : OwnsJob(v)' /\ HoldsBurst(v)'

LEMMA SlotsStill ==
  ASSUME Queue, UNCHANGED <<pc, turn, marked>>, stored \subseteq stored',
         \A j \in Job : jobs[j] = "active" => jobs'[j] = "active"
  PROVE  Leased' /\ \A v \in Workers : OwnsJob(v)' /\ HoldsBurst(v)'
<1>1. Leased'
  BY DEF Queue, Leased, InTurn
<1>2. ASSUME NEW v \in Workers PROVE OwnsJob(v)'
  BY TriggerStored DEF Queue, OwnsJob
<1>3. ASSUME NEW v \in Workers PROVE HoldsBurst(v)'
  BY DEF Queue, HoldsBurst, Working, Trigger
<1>4. QED
  BY <1>1, <1>2, <1>3

LEMMA WorkQueue ==
  ASSUME Small, Safe, Queue, NEW w \in Workers, Work(w)
  PROVE  QueueKept
<1>0. Moves(w) /\ InTurn(w) /\ UNCHANGED <<stored, jobs, lock>> /\ Turning(w)
  BY WorkTurns
<1>1. Leased'
  BY <1>0 DEF Queue, Leased, Moves, InTurn
<1>2. JobsStored'
  BY <1>0 DEF Queue, JobsStored
<1>3. ASSUME NEW v \in Workers PROVE OwnsJob(v)'
  <2>1. \A u \in Workers : turn'[u].job = turn[u].job /\ (pc'[u] # "idle" => pc[u] # "idle")
    BY <1>0 DEF Moves, InTurn
  <2>2. QED
    BY <1>0, <2>1 DEF Queue, OwnsJob
<1>4. ASSUME NEW v \in Workers \ {w} PROVE HoldsBurst(v)'
  <2>1. pc'[v] = pc[v] /\ turn'[v] = turn[v]
    BY <1>0 DEF Moves
  <2>2. ~(pc[v] = "burst" \/ Working(v))
    BY <1>0, Alone, WorkingInTurn
  <2>3. HoldsBurst(v)
    BY DEF Queue
  <2>4. QED
    BY <2>1, <2>2, <2>3 DEF HoldsBurst, Working
<1>5. HoldsBurst(w)'
  <2>0. HoldsBurst(w) /\ Trigger(w) \in stored /\ Trigger(w) \in Msg /\ Trigger(w)' = Trigger(w)
    BY <1>0, TriggerStored DEF Queue, InTurn, Trigger, Moves
  <2>1. CASE Looks(w)
    BY <2>0, <2>1 DEF Looks, HoldsBurst, Working
  <2>2. CASE Ends(w)
    BY <2>2 DEF Ends, HoldsBurst, Working
  <2>3. CASE Takes(w)
    <3>1. Window(w) \subseteq stored /\ stored \subseteq Msg
      BY DEF Queue, Markers, Inv, TypeOK, Window, Newest
    <3>2. Trigger(w) \in Window(w) => \A m \in Window(w) : m <= Trigger(w)
      BY <2>3 DEF Takes, BurstAnswer, IsNewest
    <3>3. Trigger(w) <= Trigger(w)
      BY <2>0 DEF Msg
    <3>4. Trigger(w) \in turn'[w].ans /\ \A m \in turn'[w].ans : m \in stored /\ m <= Trigger(w)
      BY <2>0, <2>3, <3>1, <3>2, <3>3 DEF Takes
    <3>5. Trigger(w) \notin marked /\ ~turn[w].seen
      BY <2>0, <2>3 DEF Takes, HoldsBurst
    <3>6. ~turn'[w].seen
      BY <2>3, <3>5, Zenon DEF Takes
    <3>7. marked' = marked
      BY <2>3 DEF Takes
    <3>8. QED
      BY <1>0, <2>0, <3>4, <3>5, <3>6, <3>7, Zenon DEF HoldsBurst
  <2>4. CASE Carries(w)
    <3>1. Working(w) /\ ~turn'[w].seen /\ turn'[w].ans = turn[w].ans /\ marked' = marked
      BY <2>4 DEF Carries
    <3>2. QED
      BY <1>0, <2>0, <3>1, Zenon DEF HoldsBurst
  <2>5. QED
    BY <1>0, <2>1, <2>2, <2>3, <2>4 DEF Turning
<1>6. QED
  BY <1>1, <1>2, <1>3, <1>4, <1>5, Zenon DEF QueueKept

(* Slots around the turn: what each leaves behind.                         *)
LEMMA OuterQueue ==
  ASSUME Small, Safe, Queue, NEW w \in Workers, Outer(w)
  PROVE  QueueKept
<1> USE DEF Queue, Markers, Inv, TypeOK
<1>0. /\ stored' = stored /\ marked' = marked /\ turn[w] \in Turn
      /\ \A v \in Workers \ {w} : pc'[v] = pc[v] /\ turn'[v] = turn[v]
  BY OuterMoves DEF inboxVars
<1>1. ~RunUnlocked(w) /\ ~LeaseLapses(w) /\ ~ReleaseFails(w)
  BY DEF Safe, RunUnlocked, LeaseLapses, ReleaseFails
<1>2. \A v \in Workers \ {w} : HoldsBurst(v)'
  BY <1>0 DEF HoldsBurst, Working, Trigger
<1>3. ASSUME NEW j \in Job, Claim(w, j) PROVE QueueKept
  <2>1. /\ pc[w] = "idle" /\ pc'[w] = "lock" /\ turn'[w].job = j /\ turn'[w].seen = FALSE
        /\ jobs[j] = "waiting" /\ jobs' = [jobs EXCEPT ![j] = "active"]
    BY <1>3 DEF Claim, IdleTurn
  <2>2. Leased' /\ JobsStored'
    BY <1>0, <2>1 DEF Leased, InTurn, JobsStored
  <2>3. ASSUME NEW v \in Workers, pc[v] # "idle" PROVE turn[v].job # j
    BY <2>1, <2>3, TriggerStored
  <2>4. ASSUME NEW v \in Workers PROVE OwnsJob(v)'
    <3>1. CASE v = w
      BY <1>0, <2>1, <2>3, <3>1 DEF OwnsJob
    <3>2. CASE v # w
      <4>1. pc[v] # "idle" => turn[v].job \in Job /\ turn[v].job # j /\ jobs[turn[v].job] = "active"
        BY <2>3, TriggerStored
      <4>2. QED
        BY <1>0, <2>1, <3>2, <4>1 DEF OwnsJob
    <3>3. QED
      BY <3>1, <3>2
  <2>5. HoldsBurst(w)'
    BY <2>1, Zenon DEF HoldsBurst, Working
  <2>6. QED
    BY <1>2, <2>2, <2>4, <2>5 DEF QueueKept
<1>4. CASE Acquire(w) \/ Busy(w) \/ Release(w)
  <2>1. /\ jobs' = jobs /\ pc[w] # "idle" /\ pc'[w] \in {"load", "settle"}
        /\ \/ turn'[w] = [turn[w] EXCEPT !.lease = "held"]
           \/ turn'[w] = [turn[w] EXCEPT !.lease = "none"] /\ pc'[w] = "settle"
           \/ turn'[w] = [turn[w] EXCEPT !.result = "later"] /\ pc'[w] = "settle"
    BY <1>0, <1>4 DEF Acquire, Busy, Release, queueVars
  <2>2. /\ turn'[w].job = turn[w].job /\ turn'[w].seen = turn[w].seen
        /\ pc'[w] = "load" => turn'[w].lease = "held"
    BY <1>0, <2>1 DEF Turn
  <2>3. Leased' /\ JobsStored'
    BY <1>0, <2>1, <2>2 DEF Leased, InTurn, JobsStored
  <2>4. ASSUME NEW v \in Workers PROVE OwnsJob(v)'
    BY <1>0, <2>1, <2>2 DEF OwnsJob
  <2>5. HoldsBurst(w)'
    <3>1. ~turn[w].seen
      BY DEF HoldsBurst
    <3>2. ~turn'[w].seen
      BY <2>2, <3>1, Zenon
    <3>3. pc'[w] # "burst" /\ ~Working(w)'
      BY <2>1 DEF Working
    <3>4. QED
      BY <3>2, <3>3, Zenon DEF HoldsBurst
  <2>6. QED
    BY <1>2, <2>3, <2>4, <2>5 DEF QueueKept
<1>5. CASE Settle(w) \/ Crash(w)
  <2>1. PICK x : /\ pc[w] # "idle" /\ pc'[w] = "idle" /\ turn'[w].seen = FALSE
                 /\ jobs' = [jobs EXCEPT ![turn[w].job] = x]
    <3>1. /\ pc[w] # "idle" /\ pc'[w] = "idle" /\ turn'[w] = IdleTurn
          /\ \/ jobs' = [jobs EXCEPT ![turn[w].job] = JobAfter(turn[w].job, turn[w].result)]
             \/ jobs' = [jobs EXCEPT ![turn[w].job] = "stalled"]
      BY <1>5 DEF Settle, Crash
    <3>2. turn'[w].seen = FALSE
      BY <3>1 DEF IdleTurn
    <3>3. QED
      BY <3>1, <3>2
  <2>2. turn[w].job \in Job /\ Trigger(w) \in stored
    BY <2>1, TriggerStored
  <2>3. Leased' /\ JobsStored'
    BY <1>0, <2>1, <2>2 DEF Leased, InTurn, JobsStored, Trigger
  <2>4. ASSUME NEW v \in Workers PROVE OwnsJob(v)'
    <3>1. CASE v = w
      BY <2>1, <3>1 DEF OwnsJob
    <3>2. CASE v # w
      <4>1. pc[v] # "idle" => /\ turn[v].job \in Job /\ turn[v].job # turn[w].job
                              /\ jobs[turn[v].job] = "active"
        BY <2>1, <3>2, TriggerStored DEF OwnsJob
      <4>2. QED
        BY <1>0, <2>1, <3>2, <4>1 DEF OwnsJob
    <3>3. QED
      BY <3>1, <3>2
  <2>5. HoldsBurst(w)'
    BY <2>1, Zenon DEF HoldsBurst, Working
  <2>6. QED
    BY <1>2, <2>3, <2>4, <2>5 DEF QueueKept
<1>6. QED
  BY <1>1, <1>3, <1>4, <1>5 DEF Outer

-----------------------------------------------------------------------------
(* Every step is one of a turn, of a client who writes, of a process that  *)
(* dies, of somebody else who writes to the client, or it only moves jobs  *)
(* along: none is lost, unless it fails for good.                          *)
Quiet ==
    /\ UNCHANGED <<stored, marked, lastOut, answered, silenced>>
    /\ \A v \in Workers : Working(v) \/ Working(v)' => pc'[v] = pc[v] /\ turn'[v] = turn[v]
    /\ \A j \in Job : /\ jobs[j] = "failed" => jobs'[j] = "failed"
                      /\ Ahead(j) => Ahead(j)' \/ jobs'[j] = "failed"

LEMMA NoMedia ==
  ASSUME Small, Queue, NEW m \in Msg
  PROVE  /\ ~RecordMedia(m) /\ ~CallEscalates(m) /\ ~RecordCall(m)
         /\ ~MediaPipeline(m) /\ ~MediaFails(m)
<1>1. m \notin Audio /\ m \notin Docs /\ m \notin Calls
  BY DEF Small, Text
<1>2. media[m] = "none"
  BY DEF Queue, Markers, AllEarned
<1>3. QED
  BY <1>1, <1>2 DEF RecordMedia, CallEscalates, RecordCall, MediaPipeline, Transcribe, FileDocument,
     DocumentToAi, DocumentIsExpected, MediaFails

(* Slots and rows untouched, jobs at most enqueued or recovered.           *)
LEMMA QuietQueue ==
  ASSUME Queue, UNCHANGED <<stored, marked, lastOut, answered, silenced, pc, turn>>,
         \/ jobs' = jobs
         \/ \E j \in Job : /\ jobs[j] \in {"none", "stalled"}
                           /\ \/ jobs' = [jobs EXCEPT ![j] = "waiting"]
                              \/ jobs' = [jobs EXCEPT ![j] = "failed"]
  PROVE  /\ Quiet
         /\ \A j \in Job : jobs[j] = "active" => jobs'[j] = "active"
<1> USE DEF Queue, Markers, Inv, TypeOK
<1>1. ASSUME NEW i \in Job
      PROVE  /\ jobs[i] = "failed" => jobs'[i] = "failed"
             /\ jobs[i] = "active" => jobs'[i] = "active"
             /\ jobs[i] \in {"waiting", "stalled"} => jobs'[i] \in {"waiting", "stalled", "failed"}
  OBVIOUS
<1>2. ASSUME NEW i \in Job, Ahead(i) PROVE Ahead(i)' \/ jobs'[i] = "failed"
  BY <1>1, <1>2 DEF Ahead, Deciding
<1>3. QED
  BY <1>1, <1>2 DEF Quiet

(* The queue's own steps with a slot.                                      *)
LEMMA QuietSlot ==
  ASSUME Queue, NEW w \in Workers,
         \/ \E j \in Job : Claim(w, j)
         \/ Acquire(w) \/ Busy(w) \/ Release(w) \/ Settle(w)
  PROVE  Quiet
<1> USE DEF Queue, Markers, Inv, TypeOK
<1>0. /\ UNCHANGED <<stored, marked, lastOut, answered, silenced>> /\ turn[w] \in Turn
      /\ \A v \in Workers \ {w} : pc'[v] = pc[v] /\ turn'[v] = turn[v]
  BY OuterMoves DEF inboxVars, Outer
<1>1. ~Working(w) /\ ~Working(w)'
  BY DEF Working, Claim, Acquire, Busy, Release, Settle
<1>2. ASSUME NEW v \in Workers, Working(v) \/ Working(v)'
      PROVE  pc'[v] = pc[v] /\ turn'[v] = turn[v]
  BY <1>0, <1>1, <1>2
<1>3. ASSUME NEW j \in Job, NEW v \in Workers \ {w}, turn[v].job = j, Deciding(v)
      PROVE  Ahead(j)'
  BY <1>0, <1>3 DEF Ahead, Deciding
<1>4. ASSUME NEW k \in Job, Claim(w, k), NEW j \in Job
      PROVE  /\ jobs[j] = "failed" => jobs'[j] = "failed"
             /\ Ahead(j) => Ahead(j)'
  <2>1. /\ jobs[k] = "waiting" /\ jobs' = [jobs EXCEPT ![k] = "active"] /\ pc[w] = "idle"
        /\ pc'[w] = "lock" /\ turn'[w].job = k
    BY <1>4 DEF Claim, IdleTurn
  <2>2. CASE j = k
    BY <2>1, <2>2 DEF Ahead, Deciding
  <2>3. CASE j # k
    <3>1. jobs'[j] = jobs[j] /\ ~Deciding(w)
      BY <2>1, <2>3 DEF Deciding
    <3>2. QED
      BY <1>3, <3>1 DEF Ahead
  <2>4. QED
    BY <2>2, <2>3
<1>5. ASSUME Acquire(w) \/ Busy(w) \/ Release(w), NEW j \in Job
      PROVE  /\ jobs[j] = "failed" => jobs'[j] = "failed"
             /\ Ahead(j) => Ahead(j)'
  <2>1. /\ jobs' = jobs
        /\ \/ pc[w] = "lock" /\ pc'[w] = "load" /\ turn'[w] = [turn[w] EXCEPT !.lease = "held"]
           \/ pc[w] = "lock" /\ pc'[w] = "settle" /\ turn'[w] = [turn[w] EXCEPT !.result = "later"]
           \/ /\ pc[w] = "release" /\ pc'[w] = "settle"
              /\ turn'[w] = [turn[w] EXCEPT !.lease = "none"]
    BY <1>5 DEF Acquire, Busy, Release, queueVars
  <2>2. /\ turn'[w].job = turn[w].job
        /\ Deciding(w) => Deciding(w)'
    BY <1>0, <2>1 DEF Turn, Deciding
  <2>3. QED
    BY <1>3, <2>1, <2>2 DEF Ahead
<1>6. ASSUME Settle(w), NEW j \in Job
      PROVE  /\ jobs[j] = "failed" => jobs'[j] = "failed"
             /\ Ahead(j) => Ahead(j)' \/ jobs'[j] = "failed"
  <2>1. /\ pc[w] = "settle"
        /\ jobs' = [jobs EXCEPT ![turn[w].job] = JobAfter(turn[w].job, turn[w].result)]
    BY <1>6 DEF Settle
  <2>2. turn[w].job \in Job /\ jobs[turn[w].job] = "active"
    BY <2>1, TriggerStored
  <2>3. CASE j = turn[w].job
    <3>1. CASE Deciding(w)
      <4>1. turn[w].result # "done"
        BY <2>1, <3>1 DEF Deciding
      <4>2. JobAfter(turn[w].job, turn[w].result) \in {"waiting", "failed"}
        BY <4>1 DEF JobAfter
      <4>3. QED
        BY <2>1, <2>2, <2>3, <4>2 DEF Ahead
    <3>2. CASE ~Deciding(w)
      <4>1. ~Ahead(j)
        BY <2>1, <2>2, <2>3, <3>2 DEF Ahead, Deciding, OwnsJob
      <4>2. QED
        BY <2>2, <2>3, <4>1
    <3>3. QED
      BY <3>1, <3>2
  <2>4. CASE j # turn[w].job
    BY <1>3, <2>1, <2>4 DEF Ahead
  <2>5. QED
    BY <2>3, <2>4
<1>7. QED
  BY <1>0, <1>2, <1>4, <1>5, <1>6 DEF Quiet

LEMMA StepKinds ==
  ASSUME Small, Safe, Queue, [Next]_vars
  PROVE  \/ Quiet \/ OutboundElsewhere
         \/ \E m \in Msg : RecordText(m)
         \/ \E w \in Workers : Work(w) \/ Crash(w)
<1>1. ASSUME NEW w \in Workers, TurnStep(w) \/ TurnFault(w) PROVE Quiet \/ Work(w) \/ Crash(w)
  <2>1. ~RunUnlocked(w) /\ ~LeaseLapses(w) /\ ~ReleaseFails(w)
    BY DEF Safe, RunUnlocked, LeaseLapses, ReleaseFails
  <2>2. CASE Acquire(w) \/ Busy(w) \/ Release(w) \/ Settle(w)
    BY <2>2, QuietSlot
  <2>3. QED
    BY <1>1, <2>1, <2>2 DEF TurnStep, TurnFault, Work
<1>2. ASSUME NEW w \in Workers, NEW j \in Job, Claim(w, j) PROVE Quiet
  BY <1>2, QuietSlot
<1>3. ASSUME NEW j \in Job, DuplicateEvent(j) \/ RecoverStalled(j) PROVE Quiet
  <2>1. UNCHANGED <<stored, marked, lastOut, answered, silenced, pc, turn>>
    BY <1>3 DEF DuplicateEvent, RecoverStalled, inboxVars
  <2>2. /\ jobs[j] \in {"none", "stalled"}
        /\ \/ jobs' = [jobs EXCEPT ![j] = "waiting"]
           \/ jobs' = [jobs EXCEPT ![j] = "failed"]
    BY <1>3 DEF DuplicateEvent, RecoverStalled
  <2>3. QED
    BY <2>1, <2>2, QuietQueue
<1>4. ASSUME NEW m \in Msg, GrowOlder(m) PROVE Quiet
  BY <1>4, QuietQueue DEF GrowOlder, queueVars
<1>5. ASSUME LeaseExpires \/ Staff \/ UNCHANGED vars PROVE Quiet
  <2>1. UNCHANGED <<stored, marked, lastOut, answered, silenced, pc, turn, jobs>>
    BY <1>5 DEF LeaseExpires, Staff, StaffTransition, StaffClearsEscalation, vars, inboxVars, queueVars
  <2>2. QED
    BY <2>1, QuietQueue
<1>6. ASSUME NEW m \in Msg, Client(m) \/ MediaPipeline(m) \/ MediaFails(m) PROVE RecordText(m)
  BY <1>6, NoMedia DEF Client
<1>7. QED
  BY <1>1, <1>2, <1>3, <1>4, <1>5, <1>6 DEF Next

(* A client's text: its row and its job.                                   *)
LEMMA TextArrives ==
  ASSUME Queue, NEW m \in Msg, RecordText(m)
  PROVE  /\ m \notin stored /\ stored' = stored \cup {m}
         /\ <<m, 1>> \in Job /\ jobs[<<m, 1>>] = "none"
         /\ jobs' = [jobs EXCEPT ![<<m, 1>>] = "waiting"]
         /\ UNCHANGED <<marked, answered, silenced, lastOut, pc, turn>>
<1>1. <<m, 1>> \in Job
  BY Parameters DEF Job
<1>2. m \notin stored /\ stored' = stored \cup {m}
  BY DEF RecordText, RowStored
<1>3. /\ jobs' = [jobs EXCEPT ![<<m, 1>>] = "waiting"]
      /\ UNCHANGED <<marked, answered, silenced, lastOut, pc, turn>>
  BY DEF RecordText, RowStored, Enqueue
<1>4. jobs[<<m, 1>>] = "none"
  <2>1. <<m, 1>>[1] = m
    OBVIOUS
  <2>2. QED
    BY <1>1, <1>2, <2>1 DEF Queue, JobsStored
<1>5. QED
  BY <1>1, <1>2, <1>3, <1>4

LEMMA QueueStep ==
  ASSUME Small, Safe, Queue, [Next]_vars
  PROVE  QueueKept
<1> USE DEF Queue, Markers, Inv, TypeOK
<1>1. ASSUME UNCHANGED <<stored, pc, turn, marked, jobs>> PROVE QueueKept
  BY <1>1, SlotsStill DEF QueueKept, JobsStored
<1>2. ASSUME NEW m \in Msg, RecordText(m) PROVE QueueKept
  <2>1. /\ stored' = stored \cup {m} /\ jobs[<<m, 1>>] = "none" /\ <<m, 1>> \in Job
        /\ jobs' = [jobs EXCEPT ![<<m, 1>>] = "waiting"]
        /\ UNCHANGED <<marked, pc, turn>>
    BY <1>2, TextArrives
  <2>2. \A j \in Job : jobs[j] = "active" => jobs'[j] = "active"
    BY <2>1
  <2>3. ASSUME NEW j \in Job, jobs'[j] # "none" PROVE j[1] \in stored'
    <3>1. CASE j = <<m, 1>>
      BY <2>1, <3>1
    <3>2. CASE j # <<m, 1>>
      BY <2>1, <2>3, <3>2 DEF JobsStored
    <3>3. QED
      BY <3>1, <3>2
  <2>4. Leased' /\ \A v \in Workers : OwnsJob(v)' /\ HoldsBurst(v)'
    BY <2>1, <2>2, SlotsStill
  <2>5. QED
    BY <2>3, <2>4 DEF QueueKept, JobsStored
<1>3. ASSUME NEW j \in Job, DuplicateEvent(j) \/ RecoverStalled(j) PROVE QueueKept
  <2>1. UNCHANGED <<stored, marked, lastOut, answered, silenced, pc, turn>>
    BY <1>3 DEF DuplicateEvent, RecoverStalled, inboxVars
  <2>2. /\ jobs[j] \in {"none", "stalled"}
        /\ \/ jobs' = [jobs EXCEPT ![j] = "waiting"]
           \/ jobs' = [jobs EXCEPT ![j] = "failed"]
    BY <1>3 DEF DuplicateEvent, RecoverStalled
  <2>3. \A i \in Job : jobs[i] = "active" => jobs'[i] = "active"
    BY <2>2
  <2>4. j[1] \in stored
    <3>1. CASE jobs[j] = "stalled"
      BY <3>1 DEF JobsStored
    <3>2. CASE jobs[j] # "stalled"
      <4>1. j[1] \in Msg /\ jobs[<<j[1], 1>>] # "none"
        BY <1>3, <3>2 DEF DuplicateEvent, RecoverStalled, Job
      <4>2. <<j[1], 1>> \in Job /\ <<j[1], 1>>[1] = j[1]
        BY <4>1, Parameters DEF Job
      <4>3. QED
        BY <4>1, <4>2 DEF JobsStored
    <3>3. QED
      BY <3>1, <3>2
  <2>5. JobsStored'
    BY <2>1, <2>2, <2>4 DEF JobsStored
  <2>6. QED
    BY <2>1, <2>3, <2>5, SlotsStill DEF QueueKept
<1>4. ASSUME NEW m \in Msg, GrowOlder(m) PROVE QueueKept
  BY <1>1, <1>4 DEF GrowOlder, queueVars
<1>5. ASSUME LeaseExpires \/ Staff \/ OutboundElsewhere \/ UNCHANGED vars PROVE QueueKept
  BY <1>1, <1>5 DEF LeaseExpires, Staff, StaffTransition, StaffClearsEscalation,
     OutboundElsewhere, vars, inboxVars, queueVars
<1>6. ASSUME NEW m \in Msg, Client(m) \/ MediaPipeline(m) \/ MediaFails(m) PROVE QueueKept
  BY <1>2, <1>6, NoMedia DEF Client
<1>7. QED
  BY <1>2, <1>3, <1>4, <1>5, <1>6, WorkQueue, OuterQueue
  DEF Next, TurnStep, TurnFault, Work, Outer

-----------------------------------------------------------------------------
(* A pending message always has somebody who will look at it.              *)

(* A failed job stays failed while the queue stands still.                 *)
LEMMA FailedStays ==
  ASSUME NEW x, Failed(x), \A j \in Job : jobs[j] = "failed" => jobs'[j] = "failed"
  PROVE  Failed(x)'
  BY DEF Failed

(* Steps that lose no job and leave what is in hand leave it cared for.    *)
LEMMA CareFrame ==
  ASSUME NEW x \in Msg, Cared(x), marked' = marked,
         \A y : InHand(y)' <=> InHand(y),
         \A j \in Job : /\ jobs[j] = "failed" => jobs'[j] = "failed"
                        /\ Ahead(j) => Ahead(j)' \/ jobs'[j] = "failed"
  PROVE  Cared(x)'
<1>1. CASE InHand(x)
  BY <1>1 DEF Cared
<1>2. CASE Failed(x)
  <2>1. Failed(x)'
    <3>1. \A j \in Job : jobs[j] = "failed" => jobs'[j] = "failed"
      OBVIOUS
    <3>2. QED
      BY <1>2, <3>1, FailedStays, Zenon
  <2>2. QED
    BY <2>1 DEF Cared
<1>3. CASE Coming(x)
  <2>1. PICK j \in Job : j[1] >= x /\ j[1] \notin marked /\ ~InHand(j[1]) /\ Ahead(j)
    BY <1>3 DEF Coming
  <2>2. CASE Ahead(j)'
    BY <2>1, <2>2 DEF Cared, Coming
  <2>3. CASE jobs'[j] = "failed"
    <3>1. Failed(x)'
      BY <2>1, <2>3 DEF Failed
    <3>2. QED
      BY <3>1 DEF Cared
  <2>4. Ahead(j)' \/ jobs'[j] = "failed"
    BY <2>1, Zenon
  <2>5. QED
    BY <2>2, <2>3, <2>4
<1>4. QED
  BY <1>1, <1>2, <1>3 DEF Cared

(* What a turn may change of the care for the message: its own hand, its   *)
(* own job.                                                                *)
LEMMA TurnAhead ==
  ASSUME Queue, NEW w \in Workers, Moves(w), jobs' = jobs, NEW j \in Job, Ahead(j),
         j # turn[w].job
  PROVE  Ahead(j)'
  BY DEF Ahead, Deciding, Moves

LEMMA TurnHand ==
  ASSUME Queue, NEW w \in Workers, InTurn(w), Moves(w), NEW y, InHand(y)'
  PROVE  Working(w)' /\ y \in turn'[w].ans
<1>1. PICK v \in Workers : Working(v)' /\ y \in turn'[v].ans
  BY DEF InHand
<1>2. CASE v # w
  <2>1. Working(v)
    BY <1>1, <1>2 DEF Moves, Working
  <2>2. QED
    BY <1>2, <2>1, Alone, WorkingInTurn
<1>3. QED
  BY <1>1, <1>2

(* The job of a turn that hands it back is ahead.                          *)
LEMMA HandsBack ==
  ASSUME Queue, NEW w \in Workers, InTurn(w), NEW x \in Msg, x <= Trigger(w),
         Trigger(w) \notin marked, marked' = marked,
         NEW j \in Job, j = turn[w].job, Ahead(j)', \A y : ~InHand(y)'
  PROVE  Cared(x)'
<1>1. j[1] >= x
  <2>1. Trigger(w) \in Msg
    BY TriggerStored DEF InTurn
  <2>2. QED
    BY <2>1 DEF Trigger, Msg
<1>2. j[1] \notin marked' /\ ~InHand(j[1])'
  BY DEF Trigger
<1>3. Coming(x)'
  BY <1>1, <1>2 DEF Coming
<1>4. QED
  BY <1>3 DEF Cared

LEMMA WorkCares ==
  ASSUME Small, Safe, Queue, NobodyForgotten, NEW w \in Workers, Work(w),
         NEW x \in Msg, Pending(x)'
  PROVE  Cared(x)'
<1>0. Moves(w) /\ InTurn(w) /\ UNCHANGED <<stored, jobs, lock>> /\ Turning(w)
  BY WorkTurns
<1>t. /\ turn[w].job \in Job /\ Trigger(w) \in stored /\ Trigger(w) \in Msg
      /\ jobs[turn[w].job] = "active" /\ HoldsBurst(w) /\ OwnsJob(w) /\ pc[w] # "idle"
      /\ stored \subseteq Msg /\ lastOut \in 0..N /\ N \in Nat
  BY <1>0, TriggerStored, Parameters DEF InTurn, Queue, Markers, Inv, TypeOK
<1>h. ASSUME NEW y PROVE InHand(y) <=> Working(w) /\ y \in turn[w].ans
  BY <1>0, HandOf
<1>b. ASSUME NEW j \in Job, Ahead(j), j = turn[w].job PROVE Deciding(w)
  BY <1>b, <1>t DEF Ahead, Deciding, OwnsJob
<1>1. CASE Looks(w)
  <2>1. Pending(x)
    BY <1>0, <1>1 DEF Looks, Pending
  <2>2. \A y : InHand(y)' <=> InHand(y)
    <3>1. ~Working(w) /\ ~Working(w)'
      BY <1>1 DEF Looks, Working
    <3>2. QED
      BY <1>0, <1>h, <3>1, TurnHand
  <2>3. \A j \in Job : Ahead(j) => Ahead(j)'
    <3>1. ASSUME NEW j \in Job, Ahead(j), j = turn[w].job PROVE Ahead(j)'
      BY <1>0, <1>1, <3>1 DEF Looks, Ahead, Deciding
    <3>2. QED
      BY <1>0, <3>1, TurnAhead
  <2>4. marked' = marked /\ Cared(x)
    BY <1>1, <2>1 DEF Looks, NobodyForgotten
  <2>5. QED
    BY <1>0, <2>2, <2>3, <2>4, CareFrame
<1>2. CASE Carries(w)
  <2>1. Pending(x)
    BY <1>0, <1>2, <1>t DEF Carries, Pending, Msg
  <2>2. \A y : InHand(y)' <=> InHand(y)
    <3>1. ASSUME NEW y, InHand(y) PROVE InHand(y)'
      BY <1>2, <1>h, <3>1 DEF Carries, InHand
    <3>2. ASSUME NEW y, InHand(y)' PROVE InHand(y)
      BY <1>0, <1>2, <1>h, <3>2, TurnHand DEF Carries
    <3>3. QED
      BY <3>1, <3>2
  <2>3. \A j \in Job : Ahead(j) => Ahead(j)'
    <3>1. ~Deciding(w)
      BY <1>2 DEF Carries, Working, Deciding
    <3>2. QED
      BY <1>0, <1>b, <3>1, TurnAhead
  <2>4. marked' = marked /\ Cared(x)
    BY <1>2, <2>1 DEF Carries, NobodyForgotten
  <2>5. QED
    BY <1>0, <2>2, <2>3, <2>4, CareFrame
<1>3. CASE Takes(w)
  <2>1. Pending(x) /\ marked' = marked
    BY <1>0, <1>3 DEF Takes, Pending
  <2>2. Working(w)' /\ ~Working(w) /\ Trigger(w) \notin marked
    BY <1>3, <1>t DEF Takes, Working, HoldsBurst
  <2>3. CASE Trigger(w) \in Window(w)
    <3>1. x \in Window(w)
      BY <2>1, WindowIsPending DEF Pending
    <3>2. x \in turn'[w].ans
      BY <1>3, <2>3, <3>1 DEF Takes
    <3>3. QED
      BY <2>2, <3>2 DEF Cared, InHand
  <2>4. CASE Trigger(w) \notin Window(w)
    <3>1. turn'[w].ans = {Trigger(w)}
      BY <1>3, <2>4 DEF Takes
    <3>2. ~(Trigger(w) > lastOut)
      BY <1>t, <2>4, WindowIsPending
    <3>3. Cared(x) /\ ~InHand(x) /\ x > lastOut
      BY <1>h, <2>1, <2>2 DEF NobodyForgotten, Pending
    <3>4. CASE Failed(x)
      BY <1>0, <3>4 DEF Cared, Failed
    <3>5. CASE Coming(x)
      <4>1. PICK j \in Job : j[1] >= x /\ j[1] \notin marked /\ ~InHand(j[1]) /\ Ahead(j)
        BY <3>5 DEF Coming
      <4>2. j[1] \in Msg
        BY DEF Job
      <4>3. j[1] # Trigger(w)
        BY <1>t, <3>2, <3>3, <4>1, <4>2 DEF Msg
      <4>4. Ahead(j)'
        BY <1>0, <4>1, <4>3, TurnAhead DEF Trigger
      <4>5. ~InHand(j[1])'
        BY <1>0, <3>1, <4>3, TurnHand
      <4>6. QED
        BY <2>1, <4>1, <4>4, <4>5 DEF Cared, Coming
    <3>6. QED
      BY <3>3, <3>4, <3>5 DEF Cared
  <2>5. QED
    BY <2>3, <2>4
<1>4. CASE Ends(w)
  <2>1. pc'[w] = "release" /\ ~Working(w)' /\ lastOut' = lastOut
    BY <1>4 DEF Ends, Working
  <2>2. \A y : ~InHand(y)'
    BY <1>0, <2>1, TurnHand
  <2>3. Pending(x)
    BY <1>0, <1>4, <2>1 DEF Ends, Pending, BurstSkip, inboxVars
  <2>4. ASSUME Failed(x) PROVE Cared(x)'
    BY <1>0, <2>4 DEF Cared, Failed
  <2>5. ASSUME NEW j \in Job, j[1] >= x, j[1] \notin marked', Ahead(j), j # turn[w].job
        PROVE  Cared(x)'
    <3>1. Ahead(j)'
      BY <1>0, <2>5, TurnAhead
    <3>2. QED
      BY <2>2, <2>5, <3>1 DEF Cared, Coming
  <2>6. Cared(x)
    BY <2>3 DEF NobodyForgotten
  <2>7. CASE turn'[w].result # "done" /\ marked' = marked
    <3>1. ASSUME NEW j \in Job, j = turn[w].job PROVE Ahead(j)'
      BY <1>0, <2>1, <2>7, <3>1 DEF Ahead, Deciding, Moves
    <3>2. CASE InHand(x)
      <4>1. Working(w) /\ x \in turn[w].ans
        BY <1>h, <3>2
      <4>2. x <= Trigger(w) /\ Trigger(w) \notin marked
        BY <1>t, <4>1 DEF HoldsBurst
      <4>3. QED
        BY <1>0, <1>t, <2>2, <2>7, <3>1, <4>2, HandsBack
    <3>3. CASE Coming(x)
      <4>1. PICK j \in Job : j[1] >= x /\ j[1] \notin marked /\ ~InHand(j[1]) /\ Ahead(j)
        BY <3>3 DEF Coming
      <4>2. CASE j = turn[w].job
        <5>1. j[1] \notin marked' /\ ~InHand(j[1])' /\ Ahead(j)'
          BY <2>2, <2>7, <3>1, <4>1, <4>2
        <5>2. Coming(x)'
          BY <4>1, <5>1 DEF Coming
        <5>3. QED
          BY <5>2 DEF Cared
      <4>3. CASE j # turn[w].job
        BY <2>5, <2>7, <4>1, <4>3
      <4>4. QED
        BY <4>2, <4>3
    <3>4. QED
      BY <2>4, <2>6, <3>2, <3>3 DEF Cared
  <2>8. CASE pc[w] = "load" /\ Trigger(w) \in marked /\ marked' = marked
    <3>1. ~InHand(x)
      BY <1>h, <2>8 DEF Working
    <3>2. CASE Coming(x)
      <4>1. PICK j \in Job : j[1] >= x /\ j[1] \notin marked /\ ~InHand(j[1]) /\ Ahead(j)
        BY <3>2 DEF Coming
      <4>2. j # turn[w].job
        BY <2>8, <4>1 DEF Trigger
      <4>3. QED
        BY <2>5, <2>8, <4>1, <4>2
    <3>3. QED
      BY <2>4, <2>6, <3>1, <3>2 DEF Cared
  <2>9. CASE BurstSkip(w) /\ marked' = marked
    <3>1. /\ pc[w] = "burst" /\ \A y : ~InHand(y)
          /\ Trigger(w) \in Window(w) /\ ~IsNewest(w)
      <4>1. pc[w] = "burst" /\ Trigger(w) \in Window(w) /\ ~IsNewest(w)
        BY <2>9 DEF BurstSkip
      <4>2. QED
        BY <1>h, <4>1 DEF Working
    <3>2. PICK y \in Window(w) : ~(y <= Trigger(w))
      BY <3>1 DEF IsNewest
    <3>3. y \in Msg /\ Pending(y) /\ y > Trigger(w)
      <4>1. y \in stored /\ y > lastOut /\ (y = Trigger(w) \/ y \notin marked)
        BY <3>2, WindowIsPending
      <4>2. y \in 1..N /\ Trigger(w) \in 1..N
        BY <1>t, <4>1 DEF Msg
      <4>3. y > Trigger(w)
        BY <1>t, <3>2, <4>2
      <4>4. y # Trigger(w)
        BY <4>2, <4>3
      <4>5. QED
        BY <1>t, <4>1, <4>3, <4>4 DEF Pending
    <3>4. CASE Coming(x)
      <4>1. PICK j \in Job : j[1] >= x /\ j[1] \notin marked /\ ~InHand(j[1]) /\ Ahead(j)
        BY <3>4 DEF Coming
      <4>2. CASE j # turn[w].job
        BY <2>5, <2>9, <4>1, <4>2
      <4>3. CASE j = turn[w].job
        <5>1. x <= Trigger(w)
          BY <1>t, <4>1, <4>3 DEF Trigger, Msg
        <5>2. Cared(y) /\ ~InHand(y)
          BY <3>1, <3>3 DEF NobodyForgotten
        <5>3. CASE Failed(y)
          <6>1. PICK k \in Job : k[1] >= y /\ jobs[k] = "failed"
            BY <5>3 DEF Failed
          <6>2. k[1] >= x
            BY <1>t, <3>3, <5>1, <6>1 DEF Job, Msg
          <6>3. QED
            BY <2>4, <6>1, <6>2 DEF Failed
        <5>4. CASE Coming(y)
          <6>1. PICK k \in Job : k[1] >= y /\ k[1] \notin marked /\ ~InHand(k[1]) /\ Ahead(k)
            BY <5>4 DEF Coming
          <6>2. k[1] >= x /\ k[1] # Trigger(w)
            BY <1>t, <3>3, <5>1, <6>1 DEF Job, Msg
          <6>3. QED
            BY <2>5, <2>9, <6>1, <6>2 DEF Trigger
        <5>5. QED
          BY <5>2, <5>3, <5>4 DEF Cared
      <4>4. QED
        BY <4>2, <4>3
    <3>5. QED
      BY <2>4, <2>6, <3>1, <3>4 DEF Cared
  <2>10. CASE pc[w] = "mark" /\ marked' = marked \cup turn[w].ans
    <3>1. Working(w) /\ ~Deciding(w)
      BY <2>10 DEF Working, Deciding
    <3>2. ~InHand(x)
      BY <1>h, <2>10 DEF Pending
    <3>3. CASE Coming(x)
      <4>1. PICK j \in Job : j[1] >= x /\ j[1] \notin marked /\ ~InHand(j[1]) /\ Ahead(j)
        BY <3>3 DEF Coming
      <4>2. j # turn[w].job /\ j[1] \notin marked'
        BY <1>b, <1>h, <2>10, <3>1, <4>1
      <4>3. QED
        BY <2>5, <4>1, <4>2
    <3>4. QED
      BY <2>4, <2>6, <3>2, <3>3 DEF Cared
  <2>11. QED
    BY <1>4, <2>7, <2>8, <2>9, <2>10 DEF Ends
<1>5. QED
  BY <1>0, <1>1, <1>2, <1>3, <1>4 DEF Turning

LEMMA QuietHands ==
  ASSUME Queue, Quiet
  PROVE  \A y : InHand(y)' <=> InHand(y)
<1>1. ASSUME NEW y, InHand(y) PROVE InHand(y)'
  BY <1>1 DEF InHand, Quiet, Working
<1>2. ASSUME NEW y, InHand(y)' PROVE InHand(y)
  BY <1>2 DEF InHand, Quiet, Working
<1>3. QED
  BY <1>1, <1>2

(* A process dies: its job is found stalled, the rest is as it was.        *)
LEMMA CrashLeaves ==
  ASSUME Queue, NEW w \in Workers, Crash(w)
  PROVE  /\ UNCHANGED <<stored, marked, lastOut, answered, silenced>>
         /\ turn[w].job \in Job /\ jobs[turn[w].job] = "active"
         /\ jobs' = [jobs EXCEPT ![turn[w].job] = "stalled"]
         /\ pc[w] # "idle" /\ ~Working(w)'
         /\ \A v \in Workers \ {w} : pc'[v] = pc[v] /\ turn'[v] = turn[v]
         /\ \A j \in Job : /\ jobs[j] = "failed" => jobs'[j] = "failed"
                           /\ Ahead(j) \/ j = turn[w].job => Ahead(j)'
<1> USE DEF Queue, Markers, Inv, TypeOK
<1>1. /\ UNCHANGED <<stored, marked, lastOut, answered, silenced>>
      /\ jobs' = [jobs EXCEPT ![turn[w].job] = "stalled"]
      /\ pc[w] # "idle" /\ pc'[w] = "idle"
      /\ \A v \in Workers \ {w} : pc'[v] = pc[v] /\ turn'[v] = turn[v]
  BY DEF Crash, inboxVars
<1>2. turn[w].job \in Job /\ jobs[turn[w].job] = "active"
  BY <1>1, TriggerStored
<1>3. ASSUME NEW j \in Job PROVE jobs[j] = "failed" => jobs'[j] = "failed"
  BY <1>1, <1>2
<1>4. ASSUME NEW j \in Job, Ahead(j) \/ j = turn[w].job PROVE Ahead(j)'
  <2>1. CASE j = turn[w].job
    BY <1>1, <1>2, <2>1 DEF Ahead
  <2>2. CASE j # turn[w].job
    BY <1>1, <1>4, <2>2 DEF Ahead, Deciding
  <2>3. QED
    BY <2>1, <2>2
<1>5. QED
  BY <1>1, <1>2, <1>3, <1>4 DEF Working

LEMMA CareStep ==
  ASSUME Small, Safe, Queue, NobodyForgotten, [Next]_vars
  PROVE  NobodyForgotten'
<1>0. SUFFICES ASSUME NEW x \in Msg, Pending(x)' PROVE Cared(x)'
  BY DEF NobodyForgotten
<1>1. CASE Quiet
  <2>1. Cared(x) /\ marked' = marked
    BY <1>0, <1>1 DEF Quiet, Pending, NobodyForgotten
  <2>2. QED
    BY <1>1, <2>1, QuietHands, CareFrame DEF Quiet
<1>2. CASE OutboundElsewhere
  <2>1. UNCHANGED <<stored, marked, jobs, pc, turn>> /\ lastOut' \in NewerThan(stored)
    BY <1>2 DEF OutboundElsewhere, queueVars
  <2>2. Pending(x)
    BY <1>0, <2>1, Parameters DEF Queue, Markers, Inv, TypeOK, NewerThan, Pending, Msg
  <2>3. Cared(x)
    BY <2>2 DEF NobodyForgotten
  <2>4. QED
    BY <2>1, <2>3 DEF Cared, InHand, Working, Failed, Coming, Ahead, Deciding
<1>3. ASSUME NEW m \in Msg, RecordText(m) PROVE Cared(x)'
  <2>1. /\ m \notin stored /\ stored' = stored \cup {m}
        /\ <<m, 1>> \in Job /\ jobs[<<m, 1>>] = "none"
        /\ jobs' = [jobs EXCEPT ![<<m, 1>>] = "waiting"]
        /\ UNCHANGED <<marked, lastOut, pc, turn>>
    BY <1>3, TextArrives
  <2>2. \A y : InHand(y)' <=> InHand(y)
    BY <2>1 DEF InHand, Working
  <2>3. ASSUME NEW j \in Job
        PROVE  /\ jobs[j] = "failed" => jobs'[j] = "failed"
               /\ Ahead(j) => Ahead(j)'
    BY <2>1 DEF Ahead, Deciding, Queue, Markers, Inv, TypeOK
  <2>4. CASE x = m
    <3>1. ~InHand(m)
      BY <2>1 DEF InHand, Queue, HoldsBurst
    <3>2. PICK j \in Job : j = <<m, 1>> /\ j[1] = m
      BY <2>1
    <3>3. Ahead(j)'
      BY <2>1, <3>2 DEF Ahead, Queue, Markers, Inv, TypeOK
    <3>4. m >= m
      BY Parameters DEF Msg
    <3>5. Coming(x)'
      BY <1>0, <2>2, <2>4, <3>1, <3>2, <3>3, <3>4 DEF Coming, Pending
    <3>6. QED
      BY <3>5 DEF Cared
  <2>5. CASE x # m
    <3>1. Cared(x)
      BY <1>0, <2>1, <2>5 DEF Pending, NobodyForgotten
    <3>2. QED
      BY <2>1, <2>2, <2>3, <3>1, CareFrame
  <2>6. QED
    BY <2>4, <2>5
<1>4. ASSUME NEW w \in Workers, Crash(w) PROVE Cared(x)'
  <2>1. /\ UNCHANGED <<stored, marked, lastOut>>
        /\ turn[w].job \in Job /\ pc[w] # "idle" /\ ~Working(w)'
        /\ \A v \in Workers \ {w} : pc'[v] = pc[v] /\ turn'[v] = turn[v]
    BY <1>4, CrashLeaves
  <2>2. ASSUME NEW j \in Job
        PROVE  /\ jobs[j] = "failed" => jobs'[j] = "failed"
               /\ Ahead(j) => Ahead(j)'
    BY <1>4, CrashLeaves
  <2>3. Cared(x)
    BY <1>0, <2>1 DEF Pending, NobodyForgotten
  <2>4. ASSUME NEW y, InHand(y)' PROVE InHand(y)
    BY <2>1, <2>4 DEF InHand, Working
  <2>5. CASE InHand(x) /\ ~Working(w)
    BY <2>1, <2>5 DEF InHand, Working, Cared
  <2>6. CASE InHand(x) /\ Working(w)
    <3>1. InTurn(w)
      BY <2>6, WorkingInTurn
    <3>2. x \in turn[w].ans
      BY <2>6, <3>1, HandOf
    <3>3. x <= Trigger(w) /\ Trigger(w) \notin marked
      BY <2>6, <3>2 DEF Queue, HoldsBurst
    <3>4. \A y : ~InHand(y)'
      <4>1. ASSUME NEW v \in Workers PROVE ~Working(v)'
        <5>1. CASE v = w
          BY <2>1, <5>1
        <5>2. CASE v # w
          <6>1. ~Working(v)
            BY <3>1, <5>2, Alone, WorkingInTurn
          <6>2. QED
            BY <2>1, <5>2, <6>1 DEF Working
        <5>3. QED
          BY <5>1, <5>2
      <4>2. QED
        BY <4>1 DEF InHand
    <3>5. PICK j \in Job : j = turn[w].job
      BY <2>1
    <3>6. Ahead(j)'
      BY <1>4, <3>5, CrashLeaves
    <3>7. QED
      BY <2>1, <3>1, <3>3, <3>4, <3>5, <3>6, HandsBack
  <2>7. CASE Failed(x)
    <3>1. Failed(x)'
      BY <2>2, <2>7, FailedStays
    <3>2. QED
      BY <3>1 DEF Cared
  <2>8. CASE Coming(x)
    <3>1. PICK j \in Job : j[1] >= x /\ j[1] \notin marked /\ ~InHand(j[1]) /\ Ahead(j)
      BY <2>8 DEF Coming
    <3>2. Ahead(j)' /\ ~InHand(j[1])'
      BY <2>2, <2>4, <3>1
    <3>3. Coming(x)'
      BY <2>1, <3>1, <3>2 DEF Coming
    <3>4. QED
      BY <3>3 DEF Cared
  <2>9. QED
    BY <2>3, <2>5, <2>6, <2>7, <2>8 DEF Cared
<1>5. QED
  BY <1>0, <1>1, <1>2, <1>3, <1>4, WorkCares, StepKinds

LEMMA CareInit == Init => Queue /\ NobodyForgotten
<1>1. Init => Inv
  BY TypeInit, Parameters DEF Init, Inv, SlotOK, Sending, LeaseExclusion, InTurn
<1>2. Init => \A w \in Workers : Earned(w)
  BY DEF Init, IdleTurn, Earned, Spoken, Sending
<1>3. Init => Leased /\ JobsStored
  BY DEF Init, Leased, InTurn, JobsStored
<1>4. Init => \A w \in Workers : OwnsJob(w) /\ HoldsBurst(w)
  BY DEF Init, IdleTurn, OwnsJob, HoldsBurst, Working
<1>5. Init => NobodyForgotten
  BY DEF Init, NobodyForgotten, Pending
<1>6. QED
  BY <1>1, <1>2, <1>3, <1>4, <1>5 DEF Init, Queue, Markers, AllEarned

Cares == Inv /\ (Drains => Queue /\ NobodyForgotten)

LEMMA CareKept == Cares /\ [Next]_vars => Cares'
<1> SUFFICES ASSUME Cares, [Next]_vars PROVE Cares'
  OBVIOUS
<1>1. Inv'
  BY TypeStep, SlotsStep DEF Cares, Inv
<1>2. ASSUME Drains' PROVE (Queue /\ NobodyForgotten)'
  <2>1. Small /\ Safe /\ Drains
    <3>1. Small /\ Never({"lapse", "redis", "mark"})'
      BY <1>2 DEF Drains, Small
    <3>2. {"lapse", "redis", "mark"} \in SUBSET Lasting
      BY DEF Lasting
    <3>3. /\ Never({"lapse", "redis", "mark"})
          /\ \A kind \in {"lapse", "redis", "mark"} : ~Happens(kind)
      BY <3>1, <3>2, NeverYet
    <3>4. QED
      BY <3>1, <3>3 DEF Drains, Safe
  <2>2. Texts
    <3>1. ASSUME NEW m \in Audio \cup Docs PROVE FALSE
      BY <2>1, <3>1, Parameters DEF Small, Text
    <3>2. QED
      BY <3>1 DEF Texts
  <2>3. Queue /\ NobodyForgotten
    BY <2>1 DEF Cares
  <2>4. AllEarned' /\ QueueKept /\ NobodyForgotten'
    BY <2>1, <2>2, <2>3, MarkerStep, QueueStep, CareStep DEF Queue
  <2>5. Queue'
    BY <1>1, <2>4 DEF Queue, Markers, QueueKept
  <2>6. QED
    BY <2>4, <2>5
<1>3. QED
  BY <1>1, <1>2 DEF Cares

LEMMA CaredHasATurn == Cares => PendingHasATurn
<1>1. SUFFICES ASSUME Queue, NobodyForgotten, NEW m \in Msg, Pending(m)
               PROVE  \E j \in Job : j[1] >= m /\ (Live(j) \/ jobs[j] = "failed")
  BY DEF Cares, Drains, Small, PendingHasATurn
<1>2. ASSUME NEW j \in Job, Ahead(j) PROVE Live(j)
  BY <1>1, <1>2, TriggerStored DEF Ahead, Deciding, Live
<1>3. CASE InHand(m)
  <2>1. PICK w \in Workers : Working(w) /\ m \in turn[w].ans
    BY <1>3 DEF InHand
  <2>2. m <= Trigger(w) /\ pc[w] # "idle"
    BY <1>1, <2>1 DEF Queue, HoldsBurst, Working
  <2>3. turn[w].job \in Job /\ jobs[turn[w].job] = "active" /\ Trigger(w) \in Msg
    BY <1>1, <2>2, TriggerStored
  <2>4. turn[w].job[1] >= m
    BY <2>2, <2>3 DEF Trigger, Msg
  <2>5. QED
    BY <2>3, <2>4 DEF Live
<1>4. CASE Failed(m)
  BY <1>4 DEF Failed
<1>5. CASE Coming(m)
  BY <1>2, <1>5 DEF Coming
<1>6. QED
  BY <1>1, <1>3, <1>4, <1>5 DEF NobodyForgotten, Cared

(* ai-orchestrator.service.ts and burst-turn.ts in a conversation of texts *)
(* whose bursts fit the window, until a lease or a marker fails: whatever  *)
(* crashes, is refused, rolled back, duplicated or written in between, a   *)
(* message without marker that no outbound row has passed has a turn to    *)
(* come, or its job, or a newer one's, has failed for good.                *)
THEOREM PendingIsCared == Spec => []PendingHasATurn
<1>1. Init => Cares
  BY CareInit DEF Cares, Queue, Markers
<1>2. Cares /\ [Next]_vars => Cares'
  BY CareKept
<1>3. Cares => PendingHasATurn
  BY CaredHasATurn
<1>4. QED
  BY <1>1, <1>2, <1>3, PTL DEF Spec
=============================================================================
