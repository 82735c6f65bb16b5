-------------------------- MODULE OneAnswerProofs --------------------------
(***************************************************************************)
(* A client gets at most one answer per message, for every number of       *)
(* messages, media, workers, retries and duplicated events, as long as no  *)
(* turn dies or loses its lease half-way, every answer is one WhatsApp     *)
(* message and no write fails after WhatsApp took it.  (The run            *)
(* TurnTwoBubbles shows what happens otherwise.)                           *)
(*                                                                         *)
(* OneAnswer is not inductive: that the next answer is the first depends on*)
(* who holds the lease, on what every turn that is about to send has read, *)
(* and on the markers that keep later turns out.  The strengthening says:  *)
(*   - a turn that has not sent yet has only unanswered messages before it;*)
(*   - an answered message is marked, or the turn that answered it is still*)
(*     on its way to the marker.                                           *)
(***************************************************************************)
EXTENDS AiTurnProofs

Careless == {"crash", "lapse", "redis", "commit", "mark"}

CarefulWorld == Env \cap Careless = {} /\ Bubbles = 1

(* The turn has decided nothing it cannot take back; it has answered.      *)
BeforeSend(w) ==
    \/ pc[w] \in {"burst", "route", "read", "fresh", "write", "send"}
    \/ pc[w] = "tag" /\ turn[w].plan \notin SendsFirst
AfterSend(w) ==
    \/ pc[w] \in {"row", "event", "mark"}
    \/ pc[w] = "tag" /\ turn[w].plan \in SendsFirst

TurnOK(w) ==
    /\ InTurn(w) => turn[w].lease = "held"
    /\ pc[w] # "idle" => Trigger(w) \in stored
    /\ turn[w].said \subseteq turn[w].ans
    /\ \A m \in turn[w].said : m \in stored /\ ~Processing(m)
    /\ pc[w] \in {"lock", "load"} => turn[w].said = {}
    /\ BeforeSend(w) => /\ answered[Trigger(w)] = 0
                        /\ \A m \in turn[w].said : answered[m] = 0
    /\ AfterSend(w) => (answered[Trigger(w)] = 0 \/ Trigger(w) \in turn[w].said)

MessageOK(m) ==
    /\ media[m] # "none" => m \in stored
    /\ answered[m] # 0 =>
          /\ answered[m] = 1
          /\ m \in stored /\ ~Processing(m)
          /\ m \in marked \/ \E w \in Workers : AfterSend(w) /\ m \in turn[w].said

JobsOK == \A j \in Job : jobs[j] # "none" => j[1] \in stored

Promise == /\ \A w \in Workers : TurnOK(w)
           /\ \A m \in Msg : MessageOK(m)
           /\ JobsOK

IInv == Inv /\ Promise

-----------------------------------------------------------------------------
(* Only the owner of the lease is inside a turn.                           *)
LEMMA OneHolder ==
  ASSUME IInv, NEW v \in Workers, NEW w \in Workers, InTurn(v), InTurn(w)
  PROVE  v = w
  BY DEF IInv, Promise, Inv, TurnOK, LeaseExclusion

(* While w is between Acquire and Release, an unmarked message that w has  *)
(* not answered itself has no answer at all.                               *)
LEMMA Unanswered ==
  ASSUME IInv, NEW w \in Workers, InTurn(w), ~AfterSend(w),
         NEW m \in Msg, m \notin marked
  PROVE  answered[m] = 0
<1>1. ASSUME NEW v \in Workers, AfterSend(v) PROVE FALSE
  <2>1. InTurn(v)
    BY <1>1 DEF AfterSend, InTurn
  <2>2. QED
    BY <1>1, <2>1, OneHolder
<1>2. QED
  BY <1>1 DEF IInv, Promise, MessageOK

(* Steps outside the worker slots: rows and media only move forward, and an*)
(* answered message keeps its marker.                                      *)
LEMMA OutsideStep ==
  ASSUME IInv, UNCHANGED <<pc, turn, answered>>,
         stored \subseteq stored',
         \A m \in stored : Processing(m)' => Processing(m),
         \A m \in Msg : answered[m] # 0 /\ m \in marked => m \in marked',
         \A m \in Msg : media'[m] # "none" => m \in stored',
         JobsOK'
  PROVE  Promise'
<1>1. ASSUME NEW w \in Workers PROVE TurnOK(w)'
  BY DEF IInv, Promise, TurnOK, InTurn, Trigger, BeforeSend, AfterSend
<1>2. ASSUME NEW m \in Msg PROVE MessageOK(m)'
  BY DEF IInv, Promise, MessageOK, AfterSend
<1>3. QED
  BY <1>1, <1>2 DEF Promise

(* A step of slot w: its own part is to be shown, the other slots' follow, *)
(* because none of them is in a turn when w answers something.             *)
LEMMA OwnStep ==
  ASSUME IInv, NEW w \in Workers,
         \A v \in Workers \ {w} : pc'[v] = pc[v] /\ turn'[v] = turn[v],
         UNCHANGED <<stored, media>>,
         answered' = answered \/ InTurn(w),
         TurnOK(w)', \A m \in Msg : MessageOK(m)', JobsOK'
  PROVE  Promise'
<1>1. ASSUME NEW v \in Workers \ {w} PROVE TurnOK(v)'
  <2>1. TurnOK(v) /\ pc'[v] = pc[v] /\ turn'[v] = turn[v]
    BY DEF IInv, Promise
  <2>2. CASE answered' = answered
    BY <2>1, <2>2 DEF TurnOK, InTurn, Trigger, BeforeSend, AfterSend, Processing
  <2>3. CASE InTurn(w)
    <3>1. ~InTurn(v)
      BY <2>3, OneHolder
    <3>2. ~BeforeSend(v) /\ ~AfterSend(v)
      BY <3>1 DEF InTurn, BeforeSend, AfterSend
    <3>3. QED
      BY <2>1, <3>1, <3>2 DEF TurnOK, InTurn, Trigger, BeforeSend, AfterSend, Processing
  <2>4. QED
    BY <2>2, <2>3
<1>2. QED
  BY <1>1 DEF Promise

(* When w answers nothing, a message stays accounted for if its marker or  *)
(* the turn that answered it does.                                         *)
LEMMA MessagesKept ==
  ASSUME IInv, NEW w \in Workers,
         \A v \in Workers \ {w} : pc'[v] = pc[v] /\ turn'[v] = turn[v],
         UNCHANGED <<stored, media, answered>>,
         \A m \in Msg : answered[m] # 0 /\ m \in marked =>
            m \in marked' \/ (AfterSend(w)' /\ m \in turn'[w].said),
         \A m \in Msg : AfterSend(w) /\ m \in turn[w].said =>
            m \in marked' \/ (AfterSend(w)' /\ m \in turn'[w].said)
  PROVE  \A m \in Msg : MessageOK(m)'
<1> SUFFICES ASSUME NEW m \in Msg PROVE MessageOK(m)'
  OBVIOUS
<1>1. MessageOK(m)
  BY DEF IInv, Promise
<1>2. CASE answered[m] = 0
  BY <1>1, <1>2 DEF MessageOK
<1>3. CASE answered[m] # 0
  <2>1. answered[m] = 1 /\ m \in stored /\ ~Processing(m)
    BY <1>1, <1>3 DEF MessageOK
  <2>2. m \in marked' \/ \E v \in Workers : AfterSend(v)' /\ m \in turn'[v].said
    <3>1. CASE m \in marked
      BY <1>3, <3>1
    <3>2. ASSUME NEW v \in Workers, AfterSend(v), m \in turn[v].said
          PROVE  m \in marked' \/ \E u \in Workers : AfterSend(u)' /\ m \in turn'[u].said
      BY <3>2 DEF AfterSend
    <3>3. QED
      BY <1>1, <1>3, <3>1, <3>2 DEF MessageOK
  <2>3. QED
    BY <1>1, <2>1, <2>2 DEF MessageOK, Processing
<1>4. QED
  BY <1>2, <1>3

-----------------------------------------------------------------------------
(* Steps of a turn that keep its messages and answer nothing: those that   *)
(* stay before the send, decide against one, or stay after it.  They may   *)
(* take the marker off the trigger, which the turn is still to put back.   *)
LEMMA CarriesOn ==
  ASSUME IInv, NEW w \in Workers, InTurn(w), InTurn(w)', Moves(w),
         pc[w] # "load", pc'[w] # "load",
         turn'[w].said = turn[w].said, turn'[w].ans = turn[w].ans,
         UNCHANGED <<stored, media, answered, jobs>>,
         \A m \in Msg : m \in marked /\ m # Trigger(w) => m \in marked',
         \/ BeforeSend(w) /\ (BeforeSend(w)' \/ AfterSend(w)')
         \/ AfterSend(w) /\ AfterSend(w)'
  PROVE  Promise'
<1>1. TurnOK(w) /\ JobsOK
  BY DEF IInv, Promise
<1>2. TurnOK(w)'
  BY <1>1 DEF TurnOK, Moves, InTurn, Trigger, BeforeSend, AfterSend, Processing
<1>3. \A m \in Msg : MessageOK(m)'
  <2>1. ASSUME NEW m \in Msg, answered[m] # 0, m \in marked
        PROVE  m \in marked' \/ (AfterSend(w)' /\ m \in turn'[w].said)
    <3>1. CASE m = Trigger(w)
      BY <1>1, <2>1, <3>1 DEF TurnOK
    <3>2. QED
      BY <2>1, <3>1
  <2>2. ASSUME NEW m \in Msg, AfterSend(w), m \in turn[w].said
        PROVE  m \in marked' \/ (AfterSend(w)' /\ m \in turn'[w].said)
    BY <2>2 DEF AfterSend, BeforeSend
  <2>3. QED
    BY <2>1, <2>2, MessagesKept DEF Moves
<1>4. JobsOK'
  BY <1>1 DEF JobsOK
<1>5. QED
  BY <1>2, <1>3, <1>4, OwnStep DEF Moves

(* A turn ends, before it sent anything or once everything it said is      *)
(* marked.                                                                 *)
LEMMA Ends ==
  ASSUME IInv, NEW w \in Workers, NEW result, End(w, result), InTurn(w),
         UNCHANGED <<stored, media, answered, jobs>>,
         marked \subseteq marked',
         AfterSend(w) => turn[w].said \subseteq marked'
  PROVE  Promise'
<1>1. TurnOK(w) /\ JobsOK
  BY DEF IInv, Promise
<1>2. Moves(w) /\ pc'[w] = "release" /\ turn'[w].said = {}
  BY EndMoves DEF IInv, Inv
<1>3. TurnOK(w)'
  BY <1>1, <1>2 DEF TurnOK, Moves, InTurn, Trigger, BeforeSend, AfterSend
<1>4. \A m \in Msg : MessageOK(m)'
  BY <1>2, MessagesKept DEF Moves
<1>5. JobsOK'
  BY <1>1 DEF JobsOK
<1>6. QED
  BY <1>2, <1>3, <1>4, <1>5, OwnStep DEF Moves

(* A turn answers its messages, none of which had an answer.               *)
LEMMA Answers ==
  ASSUME IInv, NEW w \in Workers, BeforeSend(w), AfterSend(w)', Moves(w),
         pc'[w] # "load",
         turn'[w].said = turn[w].said, turn'[w].ans = turn[w].ans,
         UNCHANGED <<stored, media, jobs>>,
         answered' = [m \in Msg |-> IF m \in turn[w].said THEN answered[m] + 1
                                                           ELSE answered[m]],
         \A m \in Msg : m \in marked /\ m # Trigger(w) => m \in marked'
  PROVE  Promise'
<1>1. TurnOK(w) /\ JobsOK
  BY DEF IInv, Promise
<1>2. InTurn(w) /\ InTurn(w)' /\ ~AfterSend(w) /\ pc'[w] \notin {"idle", "lock", "load"}
      /\ ~BeforeSend(w)'
  BY DEF BeforeSend, AfterSend, InTurn
<1>3. Trigger(w) \in Msg
  BY <1>1, <1>2 DEF TurnOK, IInv, Inv, TypeOK, InTurn
<1>4. \A m \in Msg : answered'[m] = IF m \in turn[w].said THEN 1 ELSE answered[m]
  BY <1>1 DEF TurnOK
<1>5. TurnOK(w)'
  <2>1. answered'[Trigger(w)] = 0 \/ Trigger(w) \in turn[w].said
    BY <1>1, <1>3, <1>4 DEF TurnOK
  <2>2. QED
    BY <1>1, <1>2, <2>1 DEF TurnOK, Moves, InTurn, Trigger, Processing
<1>6. ASSUME NEW m \in Msg PROVE MessageOK(m)'
  <2>1. MessageOK(m)
    BY DEF IInv, Promise
  <2>2. CASE m \in turn[w].said
    BY <1>1, <1>4, <2>2 DEF TurnOK, MessageOK, Processing
  <2>3. CASE m \notin turn[w].said /\ answered[m] = 0
    BY <1>4, <2>1, <2>3 DEF MessageOK
  <2>4. CASE m \notin turn[w].said /\ answered[m] # 0
    <3>1. m \in marked
      BY <1>2, <2>4, Unanswered
    <3>2. m # Trigger(w)
      BY <1>1, <2>4 DEF TurnOK
    <3>3. QED
      BY <1>4, <2>1, <2>4, <3>1, <3>2 DEF MessageOK, Processing
  <2>5. QED
    BY <2>2, <2>3, <2>4
<1>7. JobsOK'
  BY <1>1 DEF JobsOK
<1>8. QED
  BY <1>2, <1>5, <1>6, <1>7, OwnStep DEF Moves

(* Nothing is lost of what the turns said: there is one part, and in a     *)
(* careful world no failure comes after it.                                *)
LEMMA CarefulFaults ==
  ASSUME CarefulWorld, NEW w \in Workers
  PROVE  ~LeaseLapses(w) /\ ~RunUnlocked(w) /\ ~ReleaseFails(w) /\ ~Crash(w)
         /\ ~FailsAfterSend(w) /\ ~MarkFails(w)
  BY DEF CarefulWorld, Careless, Happens, LeaseLapses, RunUnlocked, ReleaseFails,
         Crash, FailsAfterSend, MarkFails

(* The steps inside a turn, one by one.                                    *)
LEMMA WorkKeepsPromise ==
  ASSUME CarefulWorld, IInv, NEW w \in Workers, Work(w)
  PROVE  Promise'
<1> USE DEF inboxVars, queueVars
<1>0. TypeOK /\ TurnOK(w) /\ SlotOK(w) /\ turn[w] \in Turn
  BY DEF IInv, Inv, Promise, TypeOK
<1>m. Moves(w) /\ InTurn(w)
  BY WorkMoves DEF IInv
<1>t. Trigger(w) \in Msg
  BY <1>0, <1>m DEF TurnOK, TypeOK, InTurn
<1>1. CASE Load(w)
  <2>1. CASE Trigger(w) \in marked
    BY <1>1, <1>m, <2>1, Ends DEF Load, AfterSend
  <2>2. CASE Trigger(w) \notin marked
    <3>1. Goto(w, "burst") /\ pc[w] = "load"
      BY <1>1, <2>2 DEF Load
    <3>2. answered[Trigger(w)] = 0
      BY <1>m, <1>t, <2>2, <3>1, Unanswered DEF AfterSend
    <3>3. pc'[w] = "burst" /\ turn' = turn
      BY <1>0, <3>1, GotoMoves
    <3>4. UNCHANGED <<stored, media, answered, marked, jobs>>
      BY <1>1 DEF Load
    <3>5. TurnOK(w)'
      BY <1>0, <3>1, <3>2, <3>3, <3>4
      DEF TurnOK, InTurn, Trigger, BeforeSend, AfterSend, Processing
    <3>6. \A m \in Msg : MessageOK(m)'
      BY <1>m, <3>1, <3>4, MessagesKept DEF Moves, AfterSend
    <3>7. JobsOK'
      BY <3>4 DEF IInv, Promise, JobsOK
    <3>8. QED
      BY <1>m, <3>4, <3>5, <3>6, <3>7, OwnStep DEF Moves
  <2>3. QED
    BY <2>1, <2>2
<1>2. CASE BurstSkip(w) \/ BurstWait(w) \/ TurnThrows(w)
  <2>1. \E result : End(w, result)
    BY <1>2 DEF BurstSkip, BurstWait, TurnThrows, Throw
  <2>2. UNCHANGED <<stored, media, answered, jobs, marked>>
    BY <1>2 DEF BurstSkip, BurstWait, TurnThrows
  <2>3. ~AfterSend(w)
    BY <1>2 DEF BurstSkip, BurstWait, TurnThrows, AfterSend, SendsFirst
  <2>4. QED
    BY <1>m, <2>1, <2>2, <2>3, Ends
<1>3. CASE BurstAnswer(w)
  <2> DEFINE ans == IF Trigger(w) \in Window(w) THEN Window(w) ELSE {Trigger(w)}
             said == {m \in ans : ~Processing(m)}
  <2>1. /\ pc[w] = "burst" /\ pc'[w] = "route"
        /\ turn'[w].ans = ans /\ turn'[w].said = said
    BY <1>0, <1>3 DEF BurstAnswer, TypeOK, Turn
  <2>2. UNCHANGED <<stored, media, answered, marked, jobs>>
    BY <1>3 DEF BurstAnswer
  <2>3. answered[Trigger(w)] = 0 /\ Trigger(w) \in stored
    BY <1>0, <2>1 DEF TurnOK, BeforeSend
  <2>4. \A m \in ans : m \in stored /\ (m = Trigger(w) \/ m \notin marked)
    BY <2>3 DEF Window, Newest
  <2>5. \A m \in ans : answered[m] = 0
    BY <1>0, <1>m, <2>1, <2>3, <2>4, Unanswered DEF AfterSend, TypeOK
  <2>6. TurnOK(w)'
    BY <1>0, <1>m, <2>1, <2>2, <2>3, <2>4, <2>5
    DEF TurnOK, Moves, InTurn, Trigger, BeforeSend, AfterSend, Processing
  <2>7. \A m \in Msg : MessageOK(m)'
    BY <1>m, <2>1, <2>2, MessagesKept DEF Moves, AfterSend
  <2>8. JobsOK'
    BY <2>2 DEF IInv, Promise, JobsOK
  <2>9. QED
    BY <1>m, <2>2, <2>6, <2>7, <2>8, OwnStep DEF Moves
<1>4. CASE \E plan \in SendsFirst \cup {"offer"} : Intercept(w, plan)
  <2>1. PICK plan \in SendsFirst \cup {"offer"} : Intercept(w, plan)
    BY <1>4
  <2>2. /\ pc[w] = "route"
        /\ pc'[w] = "send" \/ (pc'[w] = "tag" /\ plan = "offer")
        /\ turn'[w].said = turn[w].said /\ turn'[w].ans = turn[w].ans
        /\ turn'[w].plan = plan
    <3>1. /\ pc[w] = "route"
          /\ pc'[w] = "send" \/ (pc'[w] = "tag" /\ plan = "offer")
      BY <1>0, <2>1 DEF Intercept, TypeOK
    <3>2. turn'[w] = [turn[w] EXCEPT !.plan = plan, !.left = 1, !.medium = "text"]
      BY <1>0, <2>1 DEF Intercept, TypeOK
    <3>3. /\ turn'[w].said = turn[w].said /\ turn'[w].ans = turn[w].ans
          /\ turn'[w].plan = plan
      BY <1>0, <3>2 DEF Turn
    <3>4. QED
      BY <3>1, <3>3
  <2>3. BeforeSend(w) /\ BeforeSend(w)' /\ InTurn(w)' /\ pc'[w] # "load"
    BY <2>2 DEF BeforeSend, InTurn, SendsFirst
  <2>4. UNCHANGED <<stored, media, answered, marked, jobs>>
    BY <2>1 DEF Intercept
  <2>5. QED
    BY <1>m, <2>2, <2>3, <2>4, CarriesOn
<1>5. CASE NoIntercept(w) \/ CeilingReached(w) \/ AppendReplySent(w)
  <2>1. PICK where \in {"read", "mark"} : Goto(w, where)
    BY <1>5 DEF NoIntercept, CeilingReached, AppendReplySent
  <2>2. UNCHANGED <<stored, media, answered, marked, jobs>>
    BY <1>5 DEF NoIntercept, CeilingReached, AppendReplySent
  <2>3. pc'[w] = where /\ turn' = turn
    BY <1>0, <2>1, GotoMoves
  <2>4. \/ pc[w] = "route" /\ pc'[w] = "read"
        \/ pc[w] = "read" /\ pc'[w] = "mark"
        \/ pc[w] = "event" /\ pc'[w] = "mark"
    BY <1>0, <1>5, GotoMoves DEF NoIntercept, CeilingReached, AppendReplySent
  <2>5. QED
    BY <1>m, <2>2, <2>3, <2>4, CarriesOn DEF BeforeSend, AfterSend, InTurn
<1>6. CASE Tag(w)
  <2>1. Goto(w, IF turn[w].plan \in SendsFirst THEN "mark" ELSE "send")
    BY <1>6 DEF Tag
  <2>2. /\ pc'[w] = IF turn[w].plan \in SendsFirst THEN "mark" ELSE "send"
        /\ turn' = turn
    BY <1>0, <2>1, GotoMoves
  <2>3. UNCHANGED <<stored, media, answered, jobs>> /\ pc[w] = "tag"
        /\ marked' = marked \ {Trigger(w)}
    BY <1>6 DEF Tag
  <2>4. QED
    BY <1>m, <2>2, <2>3, CarriesOn DEF BeforeSend, AfterSend, InTurn
<1>7. CASE Read(w)
  <2>1. /\ pc[w] = "read" /\ pc'[w] = "fresh"
        /\ turn'[w].said = turn[w].said /\ turn'[w].ans = turn[w].ans
    BY <1>0, <1>7 DEF Read, TypeOK, Turn
  <2>2. UNCHANGED <<stored, media, answered, marked, jobs>>
    BY <1>7 DEF Read
  <2>3. QED
    BY <1>m, <2>1, <2>2, CarriesOn DEF BeforeSend, InTurn
<1>8. CASE ReadFresh(w)
  <2>1. /\ pc[w] = "fresh" /\ pc'[w] = "write"
        /\ turn'[w].said = turn[w].said /\ turn'[w].ans = turn[w].ans
    BY <1>0, <1>8 DEF ReadFresh, TypeOK, Turn
  <2>2. UNCHANGED <<stored, media, answered, marked, jobs>>
    BY <1>8 DEF ReadFresh
  <2>3. QED
    BY <1>m, <2>1, <2>2, CarriesOn DEF BeforeSend, InTurn
<1>9. ASSUME NEW escalation, Phase3(w, escalation)
      PROVE  /\ pc[w] = "write" /\ BeforeSend(w)
             /\ UNCHANGED <<stored, media, jobs>>
             /\ \A m \in Msg : m \in marked /\ m # Trigger(w) => m \in marked'
  BY <1>9 DEF Phase3, PayloadWritten, BeforeSend
<1>10. CASE HardHandoff(w) \/ Reply(w)
  <2>1. PICK plan, medium : Deliver(w, plan, medium)
    BY <1>10 DEF HardHandoff, Reply
  <2>2. /\ pc'[w] = "send" /\ turn'[w].said = turn[w].said
        /\ turn'[w].ans = turn[w].ans
    BY <1>0, <2>1, DeliverMoves
  <2>3. (\E escalation : Phase3(w, escalation)) /\ UNCHANGED answered
    BY <1>10 DEF HardHandoff, Reply
  <2>4. QED
    BY <1>m, <1>9, <2>2, <2>3, CarriesOn DEF BeforeSend, InTurn
<1>11. CASE StaySilent(w)
  <2>1. /\ pc'[w] = "mark" /\ turn'[w].said = turn[w].said
        /\ turn'[w].ans = turn[w].ans
    BY <1>0, <1>11, CompleteMoves DEF StaySilent
  <2>2. (\E escalation : Phase3(w, escalation)) /\ UNCHANGED answered
    BY <1>11 DEF StaySilent
  <2>3. QED
    BY <1>m, <1>9, <2>1, <2>2, CarriesOn DEF BeforeSend, AfterSend, InTurn
<1>12. CASE QueueDraft(w)
  <2>1. /\ pc'[w] = "mark" /\ turn'[w].said = turn[w].said
        /\ turn'[w].ans = turn[w].ans
    BY <1>0, <1>12, CompleteMoves DEF QueueDraft
  <2>2. \E escalation : Phase3(w, escalation)
    BY <1>12 DEF QueueDraft
  <2>3. answered' = [m \in Msg |-> IF m \in turn[w].said THEN answered[m] + 1
                                                          ELSE answered[m]]
    BY <1>12 DEF QueueDraft
  <2>4. QED
    BY <1>m, <1>9, <2>1, <2>2, <2>3, Answers DEF AfterSend
<1>13. CASE SendAccepted(w)
  <2>1. turn[w].left = 1 /\ Parts(turn[w].plan, turn[w].medium) = 1
    BY <1>0, <1>13, PartsType DEF SendAccepted, SlotOK, Sending, CarefulWorld
  <2>2. /\ pc[w] = "send" /\ pc'[w] = "row"
        /\ turn'[w].said = turn[w].said /\ turn'[w].ans = turn[w].ans
    BY <1>0, <1>13 DEF SendAccepted, TypeOK, Turn
  <2>3. UNCHANGED <<stored, media, jobs, marked>>
    BY <1>13 DEF SendAccepted
  <2>4. answered' = [m \in Msg |-> IF m \in turn[w].said THEN answered[m] + 1
                                                          ELSE answered[m]]
    BY <1>13, <2>1 DEF SendAccepted
  <2>5. QED
    BY <1>m, <2>2, <2>3, <2>4, Answers DEF BeforeSend, AfterSend
<1>14. CASE RecordSent(w)
  <2>1. turn[w].left = 1
    BY <1>0, <1>14 DEF RecordSent, SlotOK, Sending, CarefulWorld
  <2>2. /\ pc[w] = "row"
        /\ \/ pc'[w] \in {"event", "mark"}
           \/ pc'[w] = "tag" /\ turn'[w].plan \in SendsFirst
        /\ turn'[w].said = turn[w].said /\ turn'[w].ans = turn[w].ans
    <3>1. turn'[w] = [turn[w] EXCEPT !.left = turn[w].left - 1, !.at = {}]
      BY <1>0, <1>14 DEF RecordSent, TypeOK
    <3>2. /\ turn'[w].said = turn[w].said /\ turn'[w].ans = turn[w].ans
          /\ turn'[w].plan = turn[w].plan
      BY <1>0, <3>1 DEF Turn
    <3>3. pc[w] = "row"
      BY <1>14 DEF RecordSent
    <3>4. pc'[w] = IF turn[w].plan \in SendsFirst THEN "tag"
                   ELSE IF turn[w].plan = "offer" THEN "mark" ELSE "event"
      BY <1>0, <1>14, <2>1 DEF RecordSent, AfterRow, TypeOK, SendsFirst
    <3>5. QED
      BY <3>2, <3>3, <3>4
  <2>3. UNCHANGED <<stored, media, answered, jobs, marked>>
    BY <1>14 DEF RecordSent
  <2>4. QED
    BY <1>m, <2>2, <2>3, CarriesOn DEF AfterSend, InTurn
<1>15. CASE SendRejected(w)
  <2>1. UNCHANGED <<stored, media, answered, jobs, marked>> /\ pc[w] = "send"
    BY <1>15 DEF SendRejected
  <2>2. CASE FallBackToText(w)
    <3>1. /\ pc'[w] = "send" /\ turn'[w].said = turn[w].said
          /\ turn'[w].ans = turn[w].ans
      BY <1>0, <2>2, DeliverMoves DEF FallBackToText
    <3>2. QED
      BY <1>m, <2>1, <3>1, CarriesOn DEF BeforeSend, InTurn
  <2>3. CASE \E result : End(w, result)
    BY <1>m, <2>1, <2>3, Ends DEF AfterSend
  <2>4. CASE Apologise(w)
    <3>1. /\ pc'[w] = "tag" /\ turn'[w].said = turn[w].said
          /\ turn'[w].ans = turn[w].ans /\ turn'[w].plan = "offer"
      BY <1>0, <2>4, ApologiseMoves
    <3>2. BeforeSend(w) /\ BeforeSend(w)' /\ InTurn(w)' /\ pc'[w] # "load"
      BY <2>1, <3>1 DEF BeforeSend, InTurn, SendsFirst
    <3>3. QED
      BY <1>m, <2>1, <3>1, <3>2, CarriesOn
  <2>5. QED
    BY <1>15, <2>2, <2>3, <2>4 DEF SendRejected, Throw
<1>16. CASE Mark(w)
  <2>1. End(w, "done") /\ UNCHANGED <<stored, media, answered, jobs>>
        /\ marked' = marked \cup turn[w].ans
    BY <1>16 DEF Mark
  <2>2. turn[w].said \subseteq marked'
    BY <1>0, <2>1 DEF TurnOK
  <2>3. QED
    BY <1>m, <2>1, <2>2, Ends
<1>17. QED
  BY <1>1, <1>2, <1>3, <1>4, <1>5, <1>6, <1>7, <1>8, <1>10, <1>11, <1>12,
     <1>13, <1>14, <1>15, <1>16, CarefulFaults DEF Work

-----------------------------------------------------------------------------
(* The promise is kept by every step: the turns' own, the queue's and the  *)
(* lease's around them, and everyone else's.                               *)
LEMMA PromiseStep ==
  ASSUME CarefulWorld, IInv, [Next]_vars
  PROVE  Promise'
<1> USE DEF inboxVars, queueVars
<1>0. TypeOK /\ Promise /\ JobsOK
  BY DEF IInv, Inv, Promise
<1>1. ASSUME NEW w \in Workers, Work(w) PROVE Promise'
  BY <1>1, WorkKeepsPromise
<1>2. ASSUME NEW w \in Workers, NEW j \in Job, Claim(w, j) PROVE Promise'
  <2>1. /\ \A v \in Workers \ {w} : pc'[v] = pc[v] /\ turn'[v] = turn[v]
        /\ pc[w] = "idle" /\ pc'[w] = "lock" /\ jobs[j] = "waiting"
        /\ turn'[w] = [IdleTurn EXCEPT !.job = j]
        /\ jobs' = [jobs EXCEPT ![j] = "active"]
        /\ UNCHANGED <<stored, media, answered, marked>>
    BY <1>0, <1>2 DEF Claim, TypeOK
  <2>2. turn'[w].job = j /\ turn'[w].said = {} /\ turn'[w].ans = {}
    BY <2>1 DEF IdleTurn
  <2>3. j[1] \in stored
    BY <1>0, <2>1 DEF JobsOK
  <2>4. TurnOK(w)'
    BY <2>1, <2>2, <2>3 DEF TurnOK, InTurn, Trigger, BeforeSend, AfterSend
  <2>5. \A m \in Msg : MessageOK(m)'
    BY <2>1, MessagesKept DEF AfterSend
  <2>6. JobsOK'
    BY <1>0, <2>1, <2>3 DEF JobsOK, TypeOK
  <2>7. QED
    BY <2>1, <2>4, <2>5, <2>6, OwnStep
<1>3. ASSUME NEW w \in Workers, Acquire(w) \/ Busy(w) \/ Release(w) PROVE Promise'
  <2>1. turn[w] \in Turn
    BY <1>0 DEF TypeOK
  <2>2. /\ \A v \in Workers \ {w} : pc'[v] = pc[v] /\ turn'[v] = turn[v]
        /\ turn'[w].job = turn[w].job /\ turn'[w].said = turn[w].said
        /\ turn'[w].ans = turn[w].ans
        /\ UNCHANGED <<stored, media, answered, marked, jobs>>
        /\ \/ pc[w] = "lock" /\ pc'[w] = "load" /\ turn'[w].lease = "held"
           \/ pc[w] \in {"lock", "release"} /\ pc'[w] = "settle"
    <3>1. CASE Acquire(w)
      BY <1>0, <2>1, <3>1 DEF Acquire, TypeOK, Turn
    <3>2. CASE Busy(w)
      BY <1>0, <2>1, <3>2 DEF Busy, TypeOK, Turn
    <3>3. CASE Release(w)
      BY <1>0, <2>1, <3>3 DEF Release, TypeOK, Turn
    <3>4. QED
      BY <1>3, <3>1, <3>2, <3>3
  <2>3. TurnOK(w)'
    BY <1>0, <2>2 DEF Promise, TurnOK, InTurn, Trigger, BeforeSend, AfterSend, Processing
  <2>4. \A m \in Msg : MessageOK(m)'
    BY <2>2, MessagesKept DEF AfterSend
  <2>5. QED
    BY <1>0, <2>2, <2>3, <2>4, OwnStep DEF JobsOK
<1>4. ASSUME NEW w \in Workers, Settle(w) PROVE Promise'
  <2>1. /\ \A v \in Workers \ {w} : pc'[v] = pc[v] /\ turn'[v] = turn[v]
        /\ pc[w] = "settle" /\ pc'[w] = "idle" /\ turn'[w] = IdleTurn
        /\ UNCHANGED <<stored, media, answered, marked>>
    BY <1>0, <1>4 DEF Settle, TypeOK
  <2>2. TurnOK(w)'
    BY <2>1 DEF TurnOK, InTurn, BeforeSend, AfterSend, IdleTurn
  <2>3. \A m \in Msg : MessageOK(m)'
    BY <2>1, MessagesKept DEF AfterSend
  <2>4. Trigger(w) \in stored
    BY <1>0, <2>1 DEF Promise, TurnOK
  <2>5. JobsOK'
    BY <1>0, <1>4, <2>1, <2>4 DEF Settle, JobsOK, TypeOK, Trigger
  <2>6. QED
    BY <2>1, <2>2, <2>3, <2>5, OwnStep
<1>5. ASSUME NEW m \in Msg, RecordText(m) \/ RecordMedia(m) \/ RecordCall(m) PROVE Promise'
  <2>1. /\ m \notin stored /\ stored' = stored \cup {m}
        /\ UNCHANGED <<pc, turn, answered, marked>>
    BY <1>5 DEF RecordText, RecordMedia, RecordCall, RowStored
  <2>2. \A x \in Msg : x # m => media'[x] = media[x]
    BY <1>0, <1>5 DEF RecordText, RecordMedia, RecordCall, TypeOK
  <2>3. JobsOK'
    BY <1>0, <1>5, <2>1 DEF RecordText, RecordMedia, RecordCall, Enqueue,
       JobsOK, TypeOK, Job
  <2>4. QED
    BY <1>0, <2>1, <2>2, <2>3, OutsideStep DEF TypeOK, Processing, Promise, MessageOK
<1>6. ASSUME NEW m \in Msg, MediaPipeline(m) \/ MediaFails(m) PROVE Promise'
  <2>1. /\ media[m] \in {"processing", "captioned", "filed"} /\ m \in stored
        /\ media[m] = "captioned" => media'[m] \in {"filed", "none"}
        /\ media[m] = "filed" => media'[m] = "ready"
        /\ \A x \in Msg : x # m => media'[x] = media[x]
        /\ UNCHANGED <<stored, pc, turn, answered>>
    BY <1>0, <1>6 DEF MediaPipeline, Transcribe, FileDocument, DocumentToAi,
       DocumentIsExpected, MediaFails, TypeOK, Promise, MessageOK
  <2>2. \A x \in Msg : answered[x] # 0 /\ x \in marked => x \in marked'
    BY <1>0, <1>6 DEF MediaPipeline, Transcribe, FileDocument, DocumentToAi,
       DocumentIsExpected, MediaFails, Promise, MessageOK, Processing
  <2>3. JobsOK'
    BY <1>0, <1>6, <2>1 DEF MediaPipeline, Transcribe, FileDocument, DocumentToAi,
       DocumentIsExpected, MediaFails, Enqueue, JobsOK, TypeOK, Job
  <2>4. QED
    BY <1>0, <2>1, <2>2, <2>3, OutsideStep DEF TypeOK, Processing, Promise, MessageOK
<1>7. ASSUME NEW j \in Job, DuplicateEvent(j) \/ RecoverStalled(j) PROVE Promise'
  <2>1. j[1] \in stored
    BY <1>0, <1>7, Parameters DEF DuplicateEvent, RecoverStalled, JobsOK, Job
  <2>2. JobsOK'
    BY <1>0, <1>7, <2>1 DEF DuplicateEvent, RecoverStalled, JobsOK, TypeOK
  <2>3. UNCHANGED <<pc, turn, answered, stored, media, marked>>
    BY <1>7 DEF DuplicateEvent, RecoverStalled
  <2>4. QED
    BY <1>0, <2>2, <2>3, OutsideStep DEF Processing, Promise, MessageOK
<1>8. ASSUME \/ LeaseExpires \/ Staff \/ OutboundElsewhere \/ UNCHANGED vars
             \/ \E m \in Msg : GrowOlder(m) \/ CallEscalates(m)
      PROVE  Promise'
  <2>1. UNCHANGED <<pc, turn, answered, stored, media, marked, jobs>>
    BY <1>8 DEF LeaseExpires, Staff, StaffTransition, StaffClearsEscalation,
       OutboundElsewhere, GrowOlder, CallEscalates, vars
  <2>2. QED
    BY <1>0, <2>1, OutsideStep DEF Processing, Promise, MessageOK, JobsOK
<1>9. QED
  BY <1>1, <1>2, <1>3, <1>4, <1>5, <1>6, <1>7, <1>8, CarefulFaults
  DEF Next, Client, TurnStep, TurnFault, Work

(* Before the first message there is nothing to break.                     *)
LEMMA PromiseInit == Init => Promise
  BY Parameters DEF Init, Promise, TurnOK, MessageOK, JobsOK, InTurn, BeforeSend,
     AfterSend, IdleTurn

(* The strengthened invariant, from its three facts.                       *)
LEMMA PromiseInvariance == ASSUME CarefulWorld PROVE Spec => []IInv
<1>1. Init /\ Inv => IInv
  BY PromiseInit DEF IInv
<1>2. IInv /\ Inv' /\ [Next]_vars => IInv'
  BY PromiseStep DEF IInv
<1>3. QED
  BY <1>1, <1>2, Invariance, PTL DEF Spec

(* ai-orchestrator.service.ts answers a message's content at most once, for*)
(* every number of messages, workers, retries and duplicated events.       *)
THEOREM AtMostOneAnswer == ASSUME CarefulWorld PROVE Spec => []OneAnswer
<1>1. IInv => OneAnswer
  BY DEF IInv, Promise, MessageOK, OneAnswer
<1>2. QED
  BY <1>1, PromiseInvariance, PTL

-----------------------------------------------------------------------------
(* In a careful world the turns implement the front desk: whatever steps   *)
(* workers, media and staff take, the client sees messages received, sets  *)
(* of unanswered messages answered by one answer, and messages left to     *)
(* people.  Every step of AiTurn is one of FrontDesk or changes nothing    *)
(* the client can see; IInv says why the messages an answer is for never   *)
(* had one.                                                                *)

(* The first send of a reply, and a draft, answer the turn's messages.     *)
LEMMA AnswerStep ==
  ASSUME IInv, NEW w \in Workers, BeforeSend(w), UNCHANGED <<stored, silenced>>,
         answered' = [m \in Msg |-> IF m \in turn[w].said THEN answered[m] + 1
                                                           ELSE answered[m]]
  PROVE  Desk!Next
<1>1. /\ turn[w].said \subseteq stored
      /\ \A m \in turn[w].said : answered[m] = 0
  BY DEF IInv, Promise, TurnOK
<1>2. Desk!Answer(turn[w].said)
  BY <1>1 DEF Desk!Answer
<1>3. QED
  BY <1>1, <1>2 DEF Desk!Next

(* Silence after the send policy or the ceiling leaves the turn's messages.*)
LEMMA LeaveStep ==
  ASSUME IInv, NEW S \in SUBSET stored, UNCHANGED <<stored, answered>>,
         silenced' = silenced \cup S
  PROVE  Desk!Next
<1>1. Desk!Leave(S)
  BY DEF Desk!Leave
<1>2. QED
  BY <1>1 DEF Desk!Next

(* Each step of the system is a step of the front desk or a stutter.       *)
LEMMA DeskStep ==
  ASSUME CarefulWorld, IInv, [Next]_vars
  PROVE  [Desk!Next]_(Desk!vars)
<1> USE DEF inboxVars
<1>0. TypeOK /\ Promise
  BY DEF IInv, Inv
<1>q. UNCHANGED <<stored, answered, silenced>> => UNCHANGED Desk!vars
  BY DEF Desk!vars
<1>1. ASSUME NEW m \in Msg, RecordText(m) \/ RecordMedia(m) \/ RecordCall(m) PROVE Desk!Next
  <2>1. Desk!Receive(m)
    BY <1>1 DEF RecordText, RecordMedia, RecordCall, RowStored, Desk!Receive
  <2>2. QED
    BY <2>1 DEF Desk!Next
<1>2. ASSUME NEW m \in Msg, DocumentIsExpected(m) PROVE Desk!Next
  <2>1. m \in stored
    BY <1>0, <1>2 DEF DocumentIsExpected, Promise, MessageOK
  <2>2. QED
    BY <1>2, <2>1, LeaveStep DEF DocumentIsExpected
<1>3. ASSUME NEW w \in Workers, StaySilent(w) \/ CeilingReached(w) PROVE Desk!Next
  <2>1. turn[w].said \subseteq stored
    BY <1>0 DEF Promise, TurnOK
  <2>2. UNCHANGED <<stored, answered>> /\ silenced' = silenced \cup turn[w].said
    BY <1>3 DEF StaySilent, CeilingReached, Phase3
  <2>3. QED
    BY <2>1, <2>2, LeaveStep
<1>4. ASSUME NEW w \in Workers, QueueDraft(w) PROVE Desk!Next
  BY <1>4, AnswerStep DEF QueueDraft, Phase3, BeforeSend
<1>5. ASSUME NEW w \in Workers, SendAccepted(w) PROVE Desk!Next
  <2>1. turn[w].left = 1 /\ Parts(turn[w].plan, turn[w].medium) = 1
    BY <1>5, PartsType DEF IInv, Inv, SendAccepted, SlotOK, Sending, CarefulWorld
  <2>2. QED
    BY <1>5, <2>1, AnswerStep DEF SendAccepted, BeforeSend
<1>6. ASSUME NEW w \in Workers,
             \/ Load(w) \/ BurstSkip(w) \/ BurstWait(w) \/ BurstAnswer(w)
             \/ (\E plan \in SendsFirst \cup {"offer"} : Intercept(w, plan))
             \/ NoIntercept(w) \/ Tag(w) \/ Read(w) \/ ReadFresh(w)
             \/ HardHandoff(w) \/ Reply(w)
             \/ RecordSent(w) \/ AppendReplySent(w) \/ Mark(w)
             \/ TurnThrows(w) \/ SendRejected(w)
      PROVE  UNCHANGED Desk!vars
  BY <1>6, <1>q DEF Load, BurstSkip, BurstWait, BurstAnswer, Intercept, NoIntercept,
     Tag, Read, ReadFresh, HardHandoff, Reply, Phase3, RecordSent, AppendReplySent,
     Mark, TurnThrows, SendRejected
<1>7. ASSUME NEW w \in Workers,
             \/ Acquire(w) \/ Busy(w) \/ Release(w) \/ Settle(w)
             \/ \E j \in Job : Claim(w, j)
      PROVE  UNCHANGED Desk!vars
  BY <1>7, <1>q DEF Acquire, Busy, Release, Settle, Claim
<1>8. ASSUME \/ \E m \in Msg : GrowOlder(m) \/ MediaFails(m) \/ Transcribe(m)
                               \/ CallEscalates(m)
                               \/ FileDocument(m) \/ DocumentToAi(m)
             \/ \E j \in Job : DuplicateEvent(j) \/ RecoverStalled(j)
             \/ LeaseExpires \/ Staff \/ OutboundElsewhere \/ UNCHANGED vars
      PROVE  UNCHANGED Desk!vars
  BY <1>8, <1>q DEF GrowOlder, CallEscalates, MediaFails, Transcribe, FileDocument, DocumentToAi,
     DuplicateEvent, RecoverStalled, LeaseExpires, Staff, StaffTransition,
     StaffClearsEscalation, OutboundElsewhere, vars
<1>9. QED
  BY <1>1, <1>2, <1>3, <1>4, <1>5, <1>6, <1>7, <1>8, CarefulFaults
  DEF Next, Client, TurnStep, TurnFault, MediaPipeline

(* The conversation of ai-orchestrator.service.ts implements FrontDesk, for*)
(* every number of messages, workers, retries and duplicated events.       *)
THEOREM Implementation == ASSUME CarefulWorld PROVE Spec => ImplementsFrontDesk
<1>1. Init => Desk!Init
  BY DEF Init, Desk!Init
<1>2. IInv /\ [Next]_vars => [Desk!Next]_(Desk!vars)
  BY DeskStep
<1>3. QED
  BY <1>1, <1>2, PromiseInvariance, PTL DEF Spec, ImplementsFrontDesk, Desk!Spec
=============================================================================
