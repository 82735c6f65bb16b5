--------------------------- MODULE InboundProofs ---------------------------
(***************************************************************************)
(* What recording and media work never do, for every number of messages,   *)
(* deliveries, workers, attempts and failures.                             *)
(***************************************************************************)
EXTENDS Inbound, FiniteSetTheorems, TLAPS

(* A job that may still run has an attempt left.                           *)
AttemptsLeft ==
    \A m \in Message :
        /\ inbox[m].st \in {"waiting", "active"} => inbox[m].made < MaxAttempts
        /\ media[m].st \in {"waiting", "active"} => media[m].made < MaxAttempts

Typed == TypeOK /\ AttemptsLeft

(* g is f but for what it holds of x.                                      *)
Only(f, g, D, S, x) ==
    /\ g \in [D -> S]
    /\ \A y \in D : y # x => g[y] = f[y]

-----------------------------------------------------------------------------
(* Jobs, slots and media work, one at a time                               *)

LEMMA InboxMoved ==
  ASSUME NEW m \in Message, NEW s \in JobState, inbox \in [Message -> Job],
         inbox' = [inbox EXCEPT ![m].st = s]
  PROVE  /\ Only(inbox, inbox', Message, Job, m)
         /\ inbox'[m].st = s /\ inbox'[m].made = inbox[m].made
<1> DEFINE j == [inbox[m] EXCEPT !.st = s]
<1>1. inbox[m] \in Job
  OBVIOUS
<1>2. j \in Job /\ j.st = s /\ j.made = inbox[m].made
  BY <1>1 DEF Job
<1>3. inbox' = [inbox EXCEPT ![m] = j]
  OBVIOUS
<1> HIDE DEF j
<1>4. Only(inbox, inbox', Message, Job, m) /\ inbox'[m] = j
  BY <1>2, <1>3 DEF Only
<1>5. QED
  BY <1>2, <1>4

LEMMA MediaMoved ==
  ASSUME NEW m \in Message, NEW s \in JobState, media \in [Message -> Job],
         media' = [media EXCEPT ![m].st = s]
  PROVE  /\ Only(media, media', Message, Job, m)
         /\ media'[m].st = s /\ media'[m].made = media[m].made
<1> DEFINE j == [media[m] EXCEPT !.st = s]
<1>1. media[m] \in Job
  OBVIOUS
<1>2. j \in Job /\ j.st = s /\ j.made = media[m].made
  BY <1>1 DEF Job
<1>3. media' = [media EXCEPT ![m] = j]
  OBVIOUS
<1> HIDE DEF j
<1>4. Only(media, media', Message, Job, m) /\ media'[m] = j
  BY <1>2, <1>3 DEF Only
<1>5. QED
  BY <1>2, <1>4

LEMMA SlotPut ==
  ASSUME NEW w \in Workers, NEW r \in Slot, at \in [Workers -> Slot],
         at' = [at EXCEPT ![w] = r]
  PROVE  Only(at, at', Workers, Slot, w) /\ at'[w] = r
BY DEF Only

LEMMA SlotMoved ==
  ASSUME NEW w \in Workers, NEW s \in RecordStep, at \in [Workers -> Slot],
         at' = [at EXCEPT ![w].step = s]
  PROVE  /\ Only(at, at', Workers, Slot, w)
         /\ at'[w].step = s /\ at'[w].msg = at[w].msg
         /\ at'[w].conv = at[w].conv
<1> DEFINE r == [at[w] EXCEPT !.step = s]
<1>1. at[w] \in Slot
  OBVIOUS
<1>2. /\ r \in Slot /\ r.step = s /\ r.msg = at[w].msg /\ r.conv = at[w].conv
  BY <1>1 DEF Slot
<1>3. at' = [at EXCEPT ![w] = r]
  OBVIOUS
<1> HIDE DEF r
<1>4. QED
  BY <1>2, <1>3, SlotPut

LEMMA WorkPut ==
  ASSUME NEW m \in Message, NEW r \in Work, work \in [Message -> Work],
         work' = [work EXCEPT ![m] = r]
  PROVE  Only(work, work', Message, Work, m) /\ work'[m] = r
BY DEF Only

LEMMA WorkMoved ==
  ASSUME NEW m \in Message, NEW s \in MediaStep, work \in [Message -> Work],
         work' = [work EXCEPT ![m].step = s]
  PROVE  /\ Only(work, work', Message, Work, m)
         /\ work'[m].step = s
<1> DEFINE r == [work[m] EXCEPT !.step = s]
<1>1. work[m] \in Work
  OBVIOUS
<1>2. r \in Work /\ r.step = s
  BY <1>1 DEF Work
<1>3. work' = [work EXCEPT ![m] = r]
  OBVIOUS
<1> HIDE DEF r
<1>4. QED
  BY <1>2, <1>3, WorkPut

(* What BullMQ makes of jobs.                                              *)
LEMMA FreshJobs ==
  /\ NoJob \in Job /\ NoJob.st = "none" /\ NoJob.made = 0
  /\ Queued \in Job /\ Queued.st = "waiting" /\ Queued.made = 0
BY InboundParameters DEF NoJob, Queued, Job, JobState

LEMMA FreshSlots == FreeSlot \in Slot /\ FreeSlot.step = "idle" /\ NoWork \in Work
BY InboundParameters DEF FreeSlot, Slot, RecordStep, NoWork, Work, MediaStep

LEMMA AddedJob ==
  ASSUME NEW j \in Job
  PROVE  /\ Added(j, Queued) \in Job
         /\ Added(j, Queued).st # "none"
         /\ j.st # "none" => Added(j, Queued) = j
         /\ j.st = "none" => Added(j, Queued) = Queued
BY FreshJobs DEF Added

LEMMA ThrownJob ==
  ASSUME NEW j \in Job, j.made < MaxAttempts
  PROVE  /\ Thrown(j) \in Job /\ Thrown(j).st \in {"waiting", "failed"}
         /\ Thrown(j).st = "waiting" => Thrown(j).made < MaxAttempts
<1> DEFINE s == IF j.made + 1 < MaxAttempts THEN "waiting" ELSE "failed"
           t == [st |-> s, made |-> j.made + 1, stalls |-> j.stalls]
<1>1. j.made \in 0..MaxAttempts /\ j.stalls \in 0..1
  BY DEF Job
<1>2. j.made + 1 \in 0..MaxAttempts /\ (j.made + 1 < MaxAttempts \/ s = "failed")
  BY <1>1, InboundParameters
<1>3. s \in {"waiting", "failed"}
  OBVIOUS
<1>4. Thrown(j) = t
  BY DEF Thrown
<1> HIDE DEF s
<1>5. t \in Job /\ t.st = s /\ t.made = j.made + 1
  BY <1>1, <1>2, <1>3 DEF Job, JobState
<1> HIDE DEF t
<1>6. QED
  BY <1>2, <1>3, <1>4, <1>5

LEMMA StalledJob ==
  ASSUME NEW j \in Job
  PROVE  /\ Stalled(j) \in Job /\ Stalled(j).st \in {"waiting", "failed"}
         /\ Stalled(j).made = j.made
<1> DEFINE s == IF j.stalls = 0 THEN "waiting" ELSE "failed"
           t == [st |-> s, made |-> j.made, stalls |-> 1]
<1>1. j.made \in 0..MaxAttempts /\ s \in {"waiting", "failed"}
  BY DEF Job
<1>2. Stalled(j) = t
  BY DEF Stalled
<1> HIDE DEF s
<1>3. t \in Job /\ t.st = s /\ t.made = j.made
  BY <1>1 DEF Job, JobState
<1> HIDE DEF t
<1>4. QED
  BY <1>1, <1>2, <1>3

LEMMA ConversationCreated == Unused # {} => NewConv \in Unused
BY DEF NewConv

(* What a transaction that looks for the client's conversation finds.      *)
LEMMA ConversationFound ==
  ASSUME NEW w \in Workers, at \in [Workers -> Slot], FindConversation(w),
         at[w].msg \in Message
  PROVE  /\ Only(at, at', Workers, Slot, w)
         /\ at'[w].step \in {"add", "commit"} /\ at'[w].msg = at[w].msg
         /\ at'[w].conv \in OpenConvs \/ (at'[w].conv = 0 /\ OpenConvs = {})
<1>1. PICK c \in OpenConvs \cup {0} :
         /\ c = 0 => OpenConvs = {}
         /\ at' = [at EXCEPT ![w] = [step |-> IF at[w].msg \in Media THEN "add" ELSE "commit",
                                     msg |-> at[w].msg, conv |-> c]]
  BY DEF FindConversation
<1> DEFINE s == IF at[w].msg \in Media THEN "add" ELSE "commit"
           r == [step |-> s, msg |-> at[w].msg, conv |-> c]
<1>a. c \in OpenConvs \/ (c = 0 /\ OpenConvs = {})
  BY <1>1
<1>2. c \in 0..MaxConvs
  <2>1. OpenConvs \subseteq 1..MaxConvs
    BY DEF OpenConvs, Conv
  <2>2. QED
    BY <1>a, <2>1, InboundParameters
<1>3. at' = [at EXCEPT ![w] = r] /\ s \in {"add", "commit"}
  BY <1>1
<1> HIDE DEF s
<1>4. /\ r \in Slot /\ r.step \in {"add", "commit"} /\ r.msg = at[w].msg
      /\ r.conv = c
  BY <1>2, <1>3 DEF Slot, RecordStep
<1> HIDE DEF r
<1>5. QED
  BY <1>a, <1>3, <1>4, SlotPut

-----------------------------------------------------------------------------
(* Types                                                                   *)

LEMMA TypedInit == Init => Typed
<1> SUFFICES ASSUME Init PROVE Typed
  OBVIOUS
<1>1. TypeOK
  BY FreshJobs, FreshSlots, InboundParameters
     DEF Init, TypeOK, RequestState, PaymentState, ConvState
<1>2. AttemptsLeft
  BY FreshJobs, InboundParameters DEF Init, AttemptsLeft
<1>3. QED
  BY <1>1, <1>2 DEF Typed

LEMMA TypedWebhook ==
  ASSUME Typed, NEW h \in Hooks, Webhook(h)
  PROVE  Typed'
<1> USE InboundParameters DEF hookVars, recordVars, clientVars, mediaVars, deskVars
<1>1. ASSUME NEW m \in Message, DeliverMeta(h, m) PROVE Typed'
  <2>1. TypeOK'
    BY <1>1 DEF DeliverMeta, Typed, TypeOK
  <2>2. AttemptsLeft'
    BY <1>1 DEF DeliverMeta, Typed, AttemptsLeft
  <2>3. QED
    BY <2>1, <2>2 DEF Typed
<1>2. ASSUME NEW m \in Message, DeliverEvolution(h, m) PROVE Typed'
  <2>1. TypeOK'
    BY <1>2 DEF DeliverEvolution, Typed, TypeOK
  <2>2. AttemptsLeft'
    BY <1>2 DEF DeliverEvolution, Typed, AttemptsLeft
  <2>3. QED
    BY <2>1, <2>2 DEF Typed
<1>3. ASSUME EnqueueInbound(h) PROVE Typed'
  <2> DEFINE m == hook[h]
             j == Added(inbox[m], Queued)
  <2>0. inbox \in [Message -> Job]
    BY DEF Typed, TypeOK
  <2>1. m \in Message /\ inbox[m] \in Job
    BY <1>3 DEF EnqueueInbound, Typed, TypeOK
  <2>2. j \in Job /\ (j = inbox[m] \/ j = Queued)
    BY <2>1, AddedJob
  <2>3. inbox' = [inbox EXCEPT ![m] = j]
    BY <1>3 DEF EnqueueInbound
  <2> HIDE DEF m, j
  <2>4. Only(inbox, inbox', Message, Job, m) /\ inbox'[m] = j
    BY <2>0, <2>1, <2>2, <2>3 DEF Only
  <2>5. TypeOK'
    BY <1>3, <2>1, <2>4 DEF EnqueueInbound, Typed, TypeOK, Only, m
  <2>6. AttemptsLeft'
    BY <1>3, <2>1, <2>2, <2>4, FreshJobs DEF EnqueueInbound, Typed, AttemptsLeft, Only
  <2>7. QED
    BY <2>5, <2>6 DEF Typed
<1>4. ASSUME HookFails(h) PROVE Typed'
  <2>1. TypeOK'
    BY <1>4 DEF HookFails, Fault, Typed, TypeOK
  <2>2. AttemptsLeft'
    BY <1>4 DEF HookFails, Typed, AttemptsLeft
  <2>3. QED
    BY <2>1, <2>2 DEF Typed
<1>5. QED
  BY <1>1, <1>2, <1>3, <1>4 DEF Webhook

LEMMA TypedRecording ==
  ASSUME Typed, NEW w \in Workers, Recording(w), at[w].step # "idle" => at[w].msg \in Message,
         at[w].step # "idle" => inbox[at[w].msg].st = "active"
  PROVE  Typed'
<1> USE InboundParameters DEF hookVars, recordVars, clientVars, mediaVars, deskVars
<1>0. /\ inbox \in [Message -> Job] /\ at \in [Workers -> Slot]
      /\ media \in [Message -> Job] /\ conv \in [Conv -> ConvState]
  BY DEF Typed, TypeOK
<1>1. ASSUME NEW m \in Message, StartInbound(w, m) PROVE Typed'
  <2> DEFINE s == IF rows[m] > 0 THEN "finish" ELSE "upsert"
             r == [step |-> s, msg |-> m, conv |-> 0]
  <2>1. /\ Only(inbox, inbox', Message, Job, m)
        /\ inbox'[m].st = "active" /\ inbox'[m].made = inbox[m].made
    BY <1>0, <1>1, InboxMoved DEF StartInbound, JobState
  <2>2. at' = [at EXCEPT ![w] = r]
    BY <1>1 DEF StartInbound, SlotGoes
  <2>3. r \in Slot
    BY InboundParameters DEF Slot, RecordStep
  <2> HIDE DEF r
  <2>4. at' \in [Workers -> Slot]
    BY <1>0, <2>2, <2>3
  <2>5. TypeOK'
    BY <1>1, <2>1, <2>4 DEF StartInbound, Typed, TypeOK, Only
  <2>6. AttemptsLeft'
    BY <1>1, <2>1 DEF StartInbound, Typed, AttemptsLeft, Only
  <2>7. QED
    BY <2>5, <2>6 DEF Typed
<1>2. ASSUME UpsertClient(w), at[w].msg \in Message PROVE Typed'
  <2>1. at' \in [Workers -> Slot]
    BY <1>0, <1>2, ConversationFound DEF UpsertClient, Only
  <2>2. lock' \in Workers \cup {Caller, Nobody}
    BY <1>2 DEF UpsertClient, Typed, TypeOK
  <2>3. TypeOK'
    BY <1>2, <2>1, <2>2 DEF UpsertClient, Typed, TypeOK
  <2>4. AttemptsLeft'
    BY <1>2 DEF UpsertClient, Typed, AttemptsLeft
  <2>5. QED
    BY <2>3, <2>4 DEF Typed
<1>3. ASSUME AddMediaJob(w), at[w].msg \in Message PROVE Typed'
  <2> DEFINE m == at[w].msg
             j == Added(media[m], Queued)
  <2>1. j \in Job /\ (j = media[m] \/ j = Queued)
    BY <1>0, <1>3, AddedJob
  <2>2. media' = [media EXCEPT ![m] = j]
    BY <1>3 DEF AddMediaJob
  <2> HIDE DEF j
  <2>3. Only(media, media', Message, Job, m) /\ media'[m] = j
    BY <1>0, <1>3, <2>1, <2>2 DEF Only
  <2>4. at' \in [Workers -> Slot]
    BY <1>0, <1>3, SlotMoved DEF AddMediaJob, Only, RecordStep
  <2>5. TypeOK'
    BY <1>3, <2>3, <2>4 DEF AddMediaJob, Typed, TypeOK, Only
  <2>6. AttemptsLeft'
    BY <1>3, <2>1, <2>3, FreshJobs DEF AddMediaJob, Typed, AttemptsLeft, Only
  <2>7. QED
    BY <2>5, <2>6 DEF Typed
<1>4. ASSUME CommitRecord(w), at[w].msg \in Message PROVE Typed'
  <2> DEFINE c == IF at[w].conv # 0 THEN at[w].conv ELSE NewConv
  <2>1. conv' = [conv EXCEPT ![c] = "OPEN"]
    BY <1>4 DEF CommitRecord
  <2>2. at[w].conv \in 0..MaxConvs /\ (at[w].conv = 0 => NewConv \in Conv)
    BY <1>0, <1>4, ConversationCreated DEF CommitRecord, Slot, Unused
  <2>3. c \in Conv
    BY <2>2 DEF Conv
  <2>a. own' = own \/ own' = own \cup {c}
    BY <1>4 DEF CommitRecord
  <2> HIDE DEF c
  <2>b. conv' \in [Conv -> ConvState] /\ own' \subseteq Conv
    BY <1>0, <2>1, <2>3, <2>a DEF ConvState, Typed, TypeOK
  <2>4. at' \in [Workers -> Slot]
    BY <1>0, <1>4, SlotMoved DEF CommitRecord, Only, RecordStep
  <2>5. rows' \in [Message -> Nat] /\ event' \subseteq Message /\ lock' \in Workers \cup {Caller, Nobody}
    BY <1>4 DEF CommitRecord, Typed, TypeOK
  <2>6. TypeOK'
    BY <1>4, <2>b, <2>4, <2>5 DEF CommitRecord, Typed, TypeOK
  <2>7. AttemptsLeft'
    BY <1>4 DEF CommitRecord, Typed, AttemptsLeft
  <2>8. QED
    BY <2>6, <2>7 DEF Typed
<1>5. ASSUME FinishInbound(w), at[w].msg \in Message PROVE Typed'
  <2> DEFINE m == at[w].msg
  <2>0. m \in Message /\ inbox' = [inbox EXCEPT ![m].st = "done"]
    BY <1>5 DEF FinishInbound
  <2> HIDE DEF m
  <2>1. Only(inbox, inbox', Message, Job, m) /\ inbox'[m].st = "done"
    BY <1>0, <2>0, InboxMoved DEF JobState
  <2>2. at' \in [Workers -> Slot]
    BY <1>0, <1>5, SlotPut, FreshSlots DEF FinishInbound, Only
  <2>3. TypeOK'
    BY <1>5, <2>1, <2>2 DEF FinishInbound, Typed, TypeOK, Only
  <2>4. AttemptsLeft'
    BY <1>5, <2>1 DEF FinishInbound, Typed, AttemptsLeft, Only
  <2>5. QED
    BY <2>3, <2>4 DEF Typed
<1>6. ASSUME NEW j \in Job, Leave(w, j), at[w].msg \in Message,
             j.st = "waiting" => j.made < MaxAttempts, j.st # "active",
             faults' = faults + 1, faults < MaxFaults
      PROVE  Typed'
  <2>1. inbox' = [inbox EXCEPT ![at[w].msg] = j]
    BY <1>6 DEF Leave
  <2>2. Only(inbox, inbox', Message, Job, at[w].msg) /\ inbox'[at[w].msg] = j
    BY <1>0, <1>6, <2>1 DEF Only
  <2>3. at' \in [Workers -> Slot]
    BY <1>0, <1>6, SlotPut, FreshSlots DEF Leave, Only
  <2>4. TypeOK'
    BY <1>6, <2>2, <2>3 DEF Leave, Typed, TypeOK, Only
  <2>5. AttemptsLeft'
    BY <1>6, <2>2 DEF Leave, Typed, AttemptsLeft, Only
  <2>6. QED
    BY <2>4, <2>5 DEF Typed
<1>7. ASSUME AbortRecord(w) PROVE Typed'
  <2>1. at[w].msg \in Message /\ inbox[at[w].msg].st = "active"
    BY <1>7 DEF AbortRecord
  <2>2. inbox[at[w].msg] \in Job /\ inbox[at[w].msg].made < MaxAttempts
    BY <1>0, <2>1 DEF Typed, AttemptsLeft
  <2>3. /\ Thrown(inbox[at[w].msg]) \in Job
        /\ Thrown(inbox[at[w].msg]).st \in {"waiting", "failed"}
        /\ Thrown(inbox[at[w].msg]).st = "waiting"
           => Thrown(inbox[at[w].msg]).made < MaxAttempts
    BY <2>2, ThrownJob
  <2>4. QED
    BY <1>6, <1>7, <2>1, <2>3 DEF AbortRecord, Fault
<1>8. ASSUME CrashInbound(w) PROVE Typed'
  <2>1. at[w].msg \in Message /\ inbox[at[w].msg].st = "active"
    BY <1>8 DEF CrashInbound
  <2>2. inbox[at[w].msg] \in Job /\ inbox[at[w].msg].made < MaxAttempts
    BY <1>0, <2>1 DEF Typed, AttemptsLeft
  <2>3. /\ Stalled(inbox[at[w].msg]) \in Job
        /\ Stalled(inbox[at[w].msg]).st \in {"waiting", "failed"}
        /\ Stalled(inbox[at[w].msg]).made = inbox[at[w].msg].made
    BY <2>2, StalledJob
  <2>4. QED
    BY <1>6, <1>8, <2>1, <2>2, <2>3 DEF CrashInbound, Fault
<1>9. QED
  BY <1>1, <1>2, <1>3, <1>4, <1>5, <1>7, <1>8
     DEF Recording, UpsertClient, AddMediaJob, CommitRecord, FinishInbound

(* A media job that stops, by completing or by throwing.                   *)
LEMMA MediaEnded ==
  ASSUME Typed, NEW m \in Message, NEW what \in SUBSET Outcome, MediaEnds(m, what)
  PROVE  /\ Only(media, media', Message, Job, m) /\ media'[m].st = "done"
         /\ media'[m].made = media[m].made
         /\ work' \in [Message -> Work]
         /\ outcome' \in [Message -> SUBSET Outcome]
         /\ outcome'[m] = outcome[m] \cup what
         /\ \A x \in Message : x # m => outcome'[x] = outcome[x]
<1>0. /\ media \in [Message -> Job] /\ work \in [Message -> Work]
      /\ outcome \in [Message -> SUBSET Outcome]
  BY DEF Typed, TypeOK
<1>1. /\ Only(media, media', Message, Job, m) /\ media'[m].st = "done"
      /\ media'[m].made = media[m].made
  BY <1>0, MediaMoved DEF MediaEnds, JobState
<1>2. work' \in [Message -> Work]
  BY <1>0, FreshSlots DEF MediaEnds
<1>3. QED
  BY <1>0, <1>1, <1>2 DEF MediaEnds

LEMMA MediaLeft ==
  ASSUME Typed, NEW m \in Message, NEW j \in Job, MediaLeaves(m, j)
  PROVE  /\ Only(media, media', Message, Job, m) /\ media'[m] = j
         /\ work' \in [Message -> Work]
<1>0. media \in [Message -> Job] /\ work \in [Message -> Work]
  BY DEF Typed, TypeOK
<1>1. media' = [media EXCEPT ![m] = j] /\ work' = [work EXCEPT ![m] = NoWork]
  BY DEF MediaLeaves
<1>2. QED
  BY <1>0, <1>1, FreshSlots DEF Only

LEMMA TypedMedia ==
  ASSUME Typed, NEW m \in Message, MediaWork(m)
  PROVE  Typed'
<1> USE InboundParameters DEF hookVars, recordVars, clientVars, mediaVars, deskVars, MediaUnchanged
<1>0. /\ media \in [Message -> Job] /\ work \in [Message -> Work]
      /\ docs \in [Message -> Nat] /\ event \subseteq Message /\ autoReply \in BOOLEAN
  BY DEF Typed, TypeOK
<1>a. media[m] \in Job /\ (media[m].st \in {"waiting", "active"} => media[m].made < MaxAttempts)
  BY <1>0 DEF Typed, AttemptsLeft
<1>1. ASSUME StartMedia(m) PROVE Typed'
  <2>1. CASE rows[m] = 0 \/ m \in stray
    <3>1. /\ Only(media, media', Message, Job, m) /\ media'[m].st = "done"
          /\ work' \in [Message -> Work] /\ outcome' \in [Message -> SUBSET Outcome]
      BY <1>1, <2>1, MediaEnded DEF StartMedia, Outcome
    <3>2. TypeOK'
      BY <1>1, <3>1 DEF StartMedia, Typed, TypeOK, Only
    <3>3. AttemptsLeft'
      BY <1>1, <3>1 DEF StartMedia, Typed, AttemptsLeft, Only
    <3>4. QED
      BY <3>2, <3>3 DEF Typed
  <2>2. CASE ~(rows[m] = 0 \/ m \in stray)
    <3> DEFINE r == [step |-> AfterDownload(m), paying |-> FALSE, filled |-> FALSE]
    <3>1. MediaStarts(m) /\ outcome' = outcome
      BY <1>1, <2>2 DEF StartMedia
    <3>2. /\ Only(media, media', Message, Job, m) /\ media'[m].st = "active"
          /\ media'[m].made = media[m].made
      BY <1>0, <3>1, MediaMoved DEF MediaStarts, JobState
    <3>3. r \in Work
      BY DEF AfterDownload, Work, MediaStep
    <3>4. work' = [work EXCEPT ![m] = r]
      BY <3>1 DEF MediaStarts
    <3> HIDE DEF r
    <3>5. work' \in [Message -> Work]
      BY <1>0, <3>3, <3>4
    <3>6. TypeOK'
      BY <1>1, <3>1, <3>2, <3>5 DEF StartMedia, Typed, TypeOK, Only
    <3>7. AttemptsLeft'
      BY <1>1, <1>a, <3>2 DEF StartMedia, Typed, AttemptsLeft, Only
    <3>8. QED
      BY <3>6, <3>7 DEF Typed
  <2>3. QED
    BY <2>1, <2>2
<1>2. ASSUME Transcribe(m) PROVE Typed'
  <2> DEFINE what == IF autoReply THEN {"event"} ELSE {}
  <2>1. what \in SUBSET Outcome /\ MediaEnds(m, what)
    BY <1>2 DEF Transcribe, Outcome
  <2> HIDE DEF what
  <2>2. /\ Only(media, media', Message, Job, m) /\ media'[m].st = "done"
        /\ work' \in [Message -> Work] /\ outcome' \in [Message -> SUBSET Outcome]
    BY <2>1, MediaEnded
  <2>3. TypeOK'
    BY <1>2, <2>2 DEF Transcribe, Typed, TypeOK, Only
  <2>4. AttemptsLeft'
    BY <1>2, <2>2 DEF Transcribe, Typed, AttemptsLeft, Only
  <2>5. QED
    BY <2>3, <2>4 DEF Typed
<1>3. ASSUME SearchPayment(m) PROVE Typed'
  <2> DEFINE r == [step |-> "upload", paying |-> payment = "open", filled |-> FALSE]
  <2>1. r \in Work /\ work' = [work EXCEPT ![m] = r]
    BY <1>3 DEF SearchPayment, Work, MediaStep
  <2> HIDE DEF r
  <2>2. work' \in [Message -> Work]
    BY <1>0, <2>1
  <2>3. TypeOK'
    BY <1>3, <2>2 DEF SearchPayment, Typed, TypeOK
  <2>4. AttemptsLeft'
    BY <1>3 DEF SearchPayment, Typed, AttemptsLeft
  <2>5. QED
    BY <2>3, <2>4 DEF Typed
<1>4. ASSUME UploadDocument(m) PROVE Typed'
  <2>1. work' \in [Message -> Work]
    BY <1>0, <1>4, WorkMoved DEF UploadDocument, MediaGoes, Only, MediaStep
  <2>2. docs' \in [Message -> Nat]
    BY <1>0, <1>4 DEF UploadDocument
  <2>3. TypeOK'
    BY <1>4, <2>1, <2>2 DEF UploadDocument, MediaGoes, Typed, TypeOK
  <2>4. AttemptsLeft'
    BY <1>4 DEF UploadDocument, MediaGoes, Typed, AttemptsLeft
  <2>5. QED
    BY <2>3, <2>4 DEF Typed
<1>5. ASSUME NEW s \in MediaStep, MediaGoes(m, s), MediaUnchanged,
             UNCHANGED <<docs, outcome, event, request>>,
             faults' \in 0..MaxFaults
      PROVE  Typed'
  <2>1. work' \in [Message -> Work]
    BY <1>0, <1>5, WorkMoved DEF MediaGoes, Only
  <2>2. TypeOK'
    BY <1>5, <2>1 DEF MediaGoes, Typed, TypeOK
  <2>3. AttemptsLeft'
    BY <1>5 DEF MediaGoes, Typed, AttemptsLeft
  <2>4. QED
    BY <2>2, <2>3 DEF Typed
<1>b. faults \in 0..MaxFaults
  BY DEF Typed, TypeOK
<1>6. ASSUME FindRequest(m) PROVE Typed'
  BY <1>5, <1>6, <1>b DEF FindRequest, MediaStep
<1>7. ASSUME FulfilRequest(m) PROVE Typed'
  <2> DEFINE r == [step |-> "file", paying |-> work[m].paying, filled |-> TRUE]
  <2>1. r \in Work /\ work' = [work EXCEPT ![m] = r]
    BY <1>0, <1>7 DEF FulfilRequest, Work, MediaStep
  <2> HIDE DEF r
  <2>2. work' \in [Message -> Work]
    BY <1>0, <2>1
  <2>3. TypeOK'
    BY <1>7, <2>2 DEF FulfilRequest, Typed, TypeOK, RequestState
  <2>4. AttemptsLeft'
    BY <1>7 DEF FulfilRequest, Typed, AttemptsLeft
  <2>5. QED
    BY <2>3, <2>4 DEF Typed
<1>8. ASSUME FulfilFails(m) PROVE Typed'
  BY <1>5, <1>8, <1>b DEF FulfilFails, Fault, MediaStep
<1>9. ASSUME FileMessage(m) PROVE Typed'
  BY <1>5, <1>9, <1>b DEF FileMessage, MediaStep
<1>10. ASSUME NEW j \in Job, MediaLeaves(m, j), MediaUnchanged,
              UNCHANGED <<docs, outcome, event, request>>, faults' \in 0..MaxFaults,
              j.st \in {"waiting", "failed"}, j.st = "waiting" => j.made < MaxAttempts
       PROVE  Typed'
  <2>1. /\ Only(media, media', Message, Job, m) /\ media'[m] = j
        /\ work' \in [Message -> Work]
    BY <1>10, MediaLeft
  <2>2. TypeOK'
    BY <1>10, <2>1 DEF Typed, TypeOK, Only
  <2>3. AttemptsLeft'
    BY <1>10, <2>1 DEF Typed, AttemptsLeft, Only
  <2>4. QED
    BY <2>2, <2>3 DEF Typed
<1>11. ASSUME AttachProof(m) PROVE Typed'
  <2>1. CASE payment = "open"
    <3>1. work' \in [Message -> Work] /\ media' = media
      BY <1>0, <1>11, <2>1, WorkMoved DEF AttachProof, MediaGoes, Only, MediaStep
    <3>a. outcome' \in [Message -> SUBSET Outcome]
      BY <1>11, <2>1 DEF AttachProof, Outcome, Typed, TypeOK
    <3>2. TypeOK'
      BY <1>11, <3>1, <3>a DEF AttachProof, Typed, TypeOK
    <3>3. AttemptsLeft'
      BY <1>11, <3>1 DEF AttachProof, Typed, AttemptsLeft
    <3>4. QED
      BY <3>2, <3>3 DEF Typed
  <2>2. CASE payment # "open"
    <3>1. /\ Thrown(media[m]) \in Job /\ Thrown(media[m]).st \in {"waiting", "failed"}
          /\ Thrown(media[m]).st = "waiting" => Thrown(media[m]).made < MaxAttempts
      BY <1>11, <1>a, ThrownJob DEF AttachProof, MediaAt
    <3>2. QED
      BY <1>10, <1>11, <1>b, <2>2, <3>1 DEF AttachProof
  <2>3. QED
    BY <2>1, <2>2
<1>12. ASSUME RouteDocument(m) PROVE Typed'
  <2> DEFINE toAi == ~work[m].filled /\ autoReply
             what == IF work[m].filled THEN {"ack"} ELSE IF toAi THEN {"event"} ELSE {}
  <2>1. what \in SUBSET Outcome /\ MediaEnds(m, what)
    BY <1>12 DEF RouteDocument, Outcome
  <2> HIDE DEF what
  <2>2. /\ Only(media, media', Message, Job, m) /\ media'[m].st = "done"
        /\ work' \in [Message -> Work] /\ outcome' \in [Message -> SUBSET Outcome]
    BY <2>1, MediaEnded
  <2>3. TypeOK'
    BY <1>12, <2>2 DEF RouteDocument, Typed, TypeOK, Only
  <2>4. AttemptsLeft'
    BY <1>12, <2>2 DEF RouteDocument, Typed, AttemptsLeft, Only
  <2>5. QED
    BY <2>3, <2>4 DEF Typed
<1>13. ASSUME MediaFails(m) PROVE Typed'
  <2>1. /\ Thrown(media[m]) \in Job /\ Thrown(media[m]).st \in {"waiting", "failed"}
        /\ Thrown(media[m]).st = "waiting" => Thrown(media[m]).made < MaxAttempts
    BY <1>13, <1>a, ThrownJob DEF MediaFails
  <2>2. QED
    BY <1>10, <1>13, <1>b, <2>1 DEF MediaFails, Fault
<1>14. ASSUME CrashMedia(m) PROVE Typed'
  <2>1. /\ Stalled(media[m]) \in Job /\ Stalled(media[m]).st \in {"waiting", "failed"}
        /\ Stalled(media[m]).made < MaxAttempts
    BY <1>14, <1>a, StalledJob DEF CrashMedia
  <2>2. QED
    BY <1>10, <1>14, <1>b, <2>1 DEF CrashMedia, Fault
<1>15. ASSUME NoConnection(m) PROVE Typed'
  <2>1. /\ Only(media, media', Message, Job, m) /\ media'[m].st = "done"
        /\ work' \in [Message -> Work] /\ outcome' \in [Message -> SUBSET Outcome]
    BY <1>15, MediaEnded DEF NoConnection, Outcome
  <2>2. TypeOK'
    BY <1>15, <1>b, <2>1 DEF NoConnection, Fault, Typed, TypeOK, Only
  <2>3. AttemptsLeft'
    BY <1>15, <2>1 DEF NoConnection, Typed, AttemptsLeft, Only
  <2>4. QED
    BY <2>2, <2>3 DEF Typed
<1>16. ASSUME ThankForProof(m) PROVE Typed'
  <2>1. /\ Only(media, media', Message, Job, m) /\ media'[m].st = "done"
        /\ work' \in [Message -> Work] /\ outcome' \in [Message -> SUBSET Outcome]
    BY <1>16, MediaEnded DEF ThankForProof
  <2>2. TypeOK'
    BY <1>16, <2>1 DEF ThankForProof, Typed, TypeOK, Only
  <2>3. AttemptsLeft'
    BY <1>16, <2>1 DEF ThankForProof, Typed, AttemptsLeft, Only
  <2>4. QED
    BY <2>2, <2>3 DEF Typed
<1>17. QED
  BY <1>1, <1>2, <1>3, <1>4, <1>6, <1>7, <1>8, <1>9, <1>11, <1>12, <1>13, <1>14, <1>15, <1>16
     DEF MediaWork

LEMMA TypedRest ==
  ASSUME Typed
  PROVE  /\ Firm => Typed'
         /\ Calling => Typed'
         /\ \A m \in Message : TrimInbound(m) => Typed'
         /\ UNCHANGED vars => Typed'
<1> USE InboundParameters DEF hookVars, recordVars, clientVars, mediaVars, deskVars
<1>1. ASSUME NEW c \in Conv, StaffMoves(c) PROVE Typed'
  <2>1. TypeOK'
    BY <1>1 DEF StaffMoves, Moves, Typed, TypeOK, ConvState
  <2>2. AttemptsLeft'
    BY <1>1 DEF StaffMoves, Typed, AttemptsLeft
  <2>3. QED
    BY <2>1, <2>2 DEF Typed
<1>2. ASSUME NEW s \in RequestState, FirmRequests(s) PROVE Typed'
  <2>1. TypeOK'
    BY <1>2 DEF FirmRequests, Moves, Typed, TypeOK
  <2>2. AttemptsLeft'
    BY <1>2 DEF FirmRequests, Typed, AttemptsLeft
  <2>3. QED
    BY <2>1, <2>2 DEF Typed
<1>3. ASSUME FirmCharges PROVE Typed'
  <2>1. TypeOK'
    BY <1>3 DEF FirmCharges, Moves, Typed, TypeOK, PaymentState
  <2>2. AttemptsLeft'
    BY <1>3 DEF FirmCharges, Typed, AttemptsLeft
  <2>3. QED
    BY <2>1, <2>2 DEF Typed
<1>4. ASSUME NEW m \in Message, TrimInbound(m) PROVE Typed'
  <2>1. /\ inbox' \in [Message -> Job] /\ inbox'[m] = NoJob
        /\ \A x \in Message : x # m => inbox'[x] = inbox[x]
    BY <1>4, FreshJobs DEF TrimInbound, Typed, TypeOK
  <2>2. TypeOK'
    BY <1>4, <2>1 DEF TrimInbound, Fault, Typed, TypeOK
  <2>3. AttemptsLeft'
    BY <1>4, <2>1, FreshJobs DEF TrimInbound, Typed, AttemptsLeft
  <2>4. QED
    BY <2>2, <2>3 DEF Typed
<1>5. ASSUME UNCHANGED vars PROVE Typed'
  <2>1. TypeOK'
    BY <1>5 DEF vars, Typed, TypeOK
  <2>2. AttemptsLeft'
    BY <1>5 DEF vars, Typed, AttemptsLeft
  <2>3. QED
    BY <2>1, <2>2 DEF Typed
<1>6. ASSUME Calling PROVE Typed'
  <2>1. lock' \in Workers \cup {Caller, Nobody} /\ known' \in BOOLEAN
    BY <1>6 DEF Calling, CallLooks, CallOpens, CallFails, CallEnds, Typed, TypeOK
  <2>2. moves' \in 0..MaxMoves /\ faults' \in 0..MaxFaults
    BY <1>6 DEF Calling, CallLooks, CallOpens, CallFails, CallEnds, Moves, Fault, Typed, TypeOK
  <2>3. conv' \in [Conv -> ConvState]
    BY <1>6 DEF Calling, CallLooks, CallOpens, CallFails, CallEnds, Typed, TypeOK, ConvState
  <2>4. TypeOK'
    BY <1>6, <2>1, <2>2, <2>3 DEF Calling, CallLooks, CallOpens, CallFails, CallEnds, Typed, TypeOK
  <2>5. AttemptsLeft'
    BY <1>6 DEF Calling, CallLooks, CallOpens, CallFails, CallEnds, Typed, AttemptsLeft
  <2>6. QED
    BY <2>4, <2>5 DEF Typed
<1>7. QED
  BY <1>1, <1>2, <1>3, <1>4, <1>5, <1>6 DEF Firm

-----------------------------------------------------------------------------
(* One row                                                                 *)

(* A busy slot has an active job, and no other slot has the same.          *)
SlotsOwnJobs ==
    \A w \in Workers : at[w].step # "idle" =>
        /\ at[w].msg \in Message /\ inbox[at[w].msg].st = "active"
        /\ \A v \in Workers : v # w /\ at[v].step # "idle" => at[v].msg # at[w].msg

(* The row is there when the transaction is over, and not before.          *)
RowsFollow ==
    /\ \A w \in Workers :
          /\ at[w].step \in {"upsert", "add", "commit"} => rows[at[w].msg] = 0
          /\ at[w].step = "finish" => rows[at[w].msg] > 0
    /\ \A m \in Message : inbox[m].st = "done" => rows[m] > 0

Recorded ==
    Typed /\ SlotsOwnJobs /\ RowsFollow /\ OneRowPerMessage /\ EvolutionKeepsAcked

LEMMA RecordedInit == Init => Recorded
BY TypedInit, FreshJobs, FreshSlots
   DEF Init, Recorded, SlotsOwnJobs, RowsFollow, OneRowPerMessage, EvolutionKeepsAcked

(* A step that neither records nor enqueues.                               *)
LEMMA RecordedKept ==
  ASSUME Recorded, Typed', UNCHANGED <<inbox, at, rows>>,
         \A m \in acked' \ Meta : m \in acked
  PROVE  Recorded'
BY DEF Recorded, Typed, TypeOK, SlotsOwnJobs, RowsFollow, OneRowPerMessage,
       EvolutionKeepsAcked, Kept

LEMMA RecordedWebhook ==
  ASSUME Recorded, Typed', NEW h \in Hooks, Webhook(h)
  PROVE  Recorded'
<1> USE DEF hookVars, recordVars, clientVars, mediaVars, deskVars
<1>1. CASE EnqueueInbound(h)
  <2>0. PICK m \in Message : m = hook[h]
    BY <1>1 DEF EnqueueInbound, Recorded, Typed, TypeOK
  <2> DEFINE j == Added(inbox[m], Queued)
  <2>1. inbox[m] \in Job /\ inbox \in [Message -> Job]
    BY DEF Recorded, Typed, TypeOK
  <2>2. /\ inbox[m].st # "none" => j = inbox[m]
        /\ inbox[m].st = "none" => j.st = "waiting"
    BY <2>1, AddedJob, FreshJobs
  <2>3. j \in Job /\ inbox' = [inbox EXCEPT ![m] = j] /\ acked' = acked \cup {m}
    BY <1>1, <2>0, <2>1, AddedJob DEF EnqueueInbound
  <2>a. at' = at /\ rows' = rows
    BY <1>1 DEF EnqueueInbound
  <2> HIDE DEF j
  <2>4. inbox'[m] = j /\ \A x \in Message : x # m => inbox'[x] = inbox[x]
    BY <2>1, <2>3
  <2>b. inbox[m].st \in JobState
    BY <2>1 DEF Job
  <2>5. SlotsOwnJobs'
    BY <2>a, <2>1, <2>2, <2>4 DEF Recorded, SlotsOwnJobs
  <2>6. RowsFollow'
    BY <2>a, <2>1, <2>2, <2>4 DEF Recorded, RowsFollow
  <2>7. OneRowPerMessage'
    BY <2>a DEF Recorded, OneRowPerMessage
  <2>8. EvolutionKeepsAcked'
    <3>1. Kept(m)'
      BY <2>a, <2>1, <2>b, <2>2, <2>4 DEF Recorded, RowsFollow, Kept, JobState
    <3>2. ASSUME NEW x \in acked \ Meta, x # m PROVE Kept(x)'
      BY <2>a, <2>4, <3>2 DEF Recorded, Typed, TypeOK, EvolutionKeepsAcked, Kept
    <3>3. QED
      BY <2>3, <3>1, <3>2 DEF EvolutionKeepsAcked
  <2>9. QED
    BY <2>5, <2>6, <2>7, <2>8 DEF Recorded
<1>2. CASE ~EnqueueInbound(h)
  <2>1. UNCHANGED <<inbox, at, rows>> /\ \A m \in acked' \ Meta : m \in acked
    BY <1>2 DEF Webhook, DeliverMeta, DeliverEvolution, HookFails
  <2>2. QED
    BY <2>1, RecordedKept
<1>3. QED
  BY <1>1, <1>2

LEMMA RecordedRecording ==
  ASSUME Recorded, Typed', NEW w \in Workers, Recording(w)
  PROVE  Recorded'
<1> USE DEF hookVars, recordVars, clientVars, mediaVars, deskVars
<1>0. /\ inbox \in [Message -> Job] /\ at \in [Workers -> Slot] /\ rows \in [Message -> Nat]
      /\ acked \subseteq Message
  BY DEF Recorded, Typed, TypeOK
<1>1. ASSUME NEW m \in Message, StartInbound(w, m) PROVE Recorded'
  <2> DEFINE s == IF rows[m] > 0 THEN "finish" ELSE "upsert"
             r == [step |-> s, msg |-> m, conv |-> 0]
  <2>1. /\ Only(inbox, inbox', Message, Job, m) /\ inbox'[m].st = "active"
    BY <1>0, <1>1, InboxMoved DEF StartInbound, JobState
  <2>2. at' = [at EXCEPT ![w] = r] /\ r.step = s /\ r.msg = m
    BY <1>1 DEF StartInbound, SlotGoes
  <2>3. /\ inbox[m].st = "waiting" /\ UNCHANGED <<rows, acked>>
    BY <1>1 DEF StartInbound
  <2>4. s # "idle" /\ (s = "finish" <=> rows[m] > 0) /\ s \in {"finish", "upsert"}
    OBVIOUS
  <2> HIDE DEF r, s
  <2>5. at'[w].step = s /\ at'[w].msg = m /\ \A v \in Workers : v # w => at'[v] = at[v]
    BY <1>0, <2>2
  <2>6. SlotsOwnJobs'
    BY <2>1, <2>3, <2>4, <2>5 DEF Recorded, SlotsOwnJobs, Only
  <2>7. RowsFollow'
    BY <1>0, <2>1, <2>3, <2>4, <2>5 DEF Recorded, RowsFollow, Only
  <2>8. OneRowPerMessage'
    BY <2>3 DEF Recorded, OneRowPerMessage
  <2>9. EvolutionKeepsAcked'
    BY <1>0, <2>1, <2>3 DEF Recorded, EvolutionKeepsAcked, Kept, Only
  <2>10. QED
    BY <2>6, <2>7, <2>8, <2>9 DEF Recorded
<1>2. ASSUME at[w].step \in {"upsert", "add"}, Only(at, at', Workers, Slot, w),
             at'[w].step \in {"add", "commit"}, at'[w].msg = at[w].msg,
             UNCHANGED <<inbox, rows, acked>>
      PROVE  Recorded'
  <2>1. SlotsOwnJobs'
    BY <1>2 DEF Recorded, SlotsOwnJobs, Only
  <2>2. RowsFollow'
    BY <1>2 DEF Recorded, RowsFollow, Only
  <2>3. OneRowPerMessage' /\ EvolutionKeepsAcked'
    BY <1>2 DEF Recorded, OneRowPerMessage, EvolutionKeepsAcked, Kept
  <2>4. QED
    BY <2>1, <2>2, <2>3 DEF Recorded
<1>3. ASSUME UpsertClient(w) PROVE Recorded'
  <2>1. at[w].msg \in Message /\ at[w].step = "upsert" /\ UNCHANGED <<inbox, rows, acked>>
    BY <1>3 DEF UpsertClient, Recorded, SlotsOwnJobs
  <2>2. /\ Only(at, at', Workers, Slot, w)
        /\ at'[w].step \in {"add", "commit"} /\ at'[w].msg = at[w].msg
    BY <1>0, <1>3, <2>1, ConversationFound DEF UpsertClient
  <2>3. QED
    BY <1>2, <2>1, <2>2
<1>4. ASSUME AddMediaJob(w) PROVE Recorded'
  <2>1. /\ Only(at, at', Workers, Slot, w) /\ at'[w].step = "commit" /\ at'[w].msg = at[w].msg
    BY <1>0, <1>4, SlotMoved DEF AddMediaJob, RecordStep
  <2>2. QED
    BY <1>2, <1>4, <2>1 DEF AddMediaJob
<1>5. ASSUME CommitRecord(w) PROVE Recorded'
  <2> DEFINE m == at[w].msg
  <2>1. m \in Message /\ inbox[m].st = "active" /\ rows[m] = 0
    BY <1>5 DEF CommitRecord, Recorded, SlotsOwnJobs, RowsFollow
  <2>2. /\ Only(at, at', Workers, Slot, w) /\ at'[w].step = "finish" /\ at'[w].msg = m
    BY <1>0, <1>5, SlotMoved DEF CommitRecord, RecordStep
  <2>3. rows' = [rows EXCEPT ![m] = @ + 1] /\ UNCHANGED <<inbox, acked>>
    BY <1>5 DEF CommitRecord
  <2>4. \A v \in Workers : v # w /\ at[v].step # "idle" => at[v].msg # m
    BY <1>5 DEF CommitRecord, Recorded, SlotsOwnJobs
  <2>a. at[w].step = "commit"
    BY <1>5 DEF CommitRecord
  <2> HIDE DEF m
  <2>5. rows'[m] = 1 /\ \A x \in Message : x # m => rows'[x] = rows[x]
    BY <1>0, <2>1, <2>3
  <2>6. SlotsOwnJobs'
    BY <2>1, <2>a, <2>2, <2>3 DEF Recorded, SlotsOwnJobs, Only, m
  <2>7. RowsFollow'
    BY <2>1, <2>2, <2>3, <2>4, <2>5 DEF Recorded, RowsFollow, SlotsOwnJobs, Only
  <2>8. OneRowPerMessage'
    BY <2>5 DEF Recorded, OneRowPerMessage
  <2>9. EvolutionKeepsAcked'
    BY <1>0, <2>3, <2>5 DEF Recorded, EvolutionKeepsAcked, Kept
  <2>10. QED
    BY <2>6, <2>7, <2>8, <2>9 DEF Recorded
<1>6. ASSUME NEW m \in Message, m = at[w].msg, at[w].step # "idle",
             at' = [at EXCEPT ![w] = FreeSlot], UNCHANGED <<rows, acked>>,
             Only(inbox, inbox', Message, Job, m),
             \/ inbox'[m].st \in {"waiting", "failed"}
             \/ inbox'[m].st = "done" /\ rows[m] > 0
      PROVE  Recorded'
  <2>1. at'[w] = FreeSlot /\ \A v \in Workers : v # w => at'[v] = at[v]
    BY <1>0, <1>6
  <2>2. \A v \in Workers : v # w /\ at[v].step # "idle" => at[v].msg # m
    BY <1>6 DEF Recorded, SlotsOwnJobs
  <2>3. SlotsOwnJobs'
    BY <1>6, <2>1, <2>2, FreshSlots DEF Recorded, SlotsOwnJobs, Only
  <2>4. RowsFollow'
    BY <1>6, <2>1, FreshSlots DEF Recorded, RowsFollow, Only
  <2>5. OneRowPerMessage'
    BY <1>6 DEF Recorded, OneRowPerMessage
  <2>6. EvolutionKeepsAcked'
    BY <1>0, <1>6 DEF Recorded, EvolutionKeepsAcked, Kept, Only
  <2>7. QED
    BY <2>3, <2>4, <2>5, <2>6 DEF Recorded
<1>7. ASSUME FinishInbound(w) PROVE Recorded'
  <2> DEFINE m == at[w].msg
  <2>1. m \in Message /\ rows[m] > 0 /\ at[w].step # "idle"
    BY <1>7 DEF FinishInbound, Recorded, SlotsOwnJobs, RowsFollow
  <2>2. /\ inbox' = [inbox EXCEPT ![m].st = "done"]
        /\ at' = [at EXCEPT ![w] = FreeSlot] /\ UNCHANGED <<rows, acked>>
    BY <1>7 DEF FinishInbound
  <2>a. m = at[w].msg
    OBVIOUS
  <2> HIDE DEF m
  <2>3. Only(inbox, inbox', Message, Job, m) /\ inbox'[m].st = "done"
    BY <1>0, <2>1, <2>2, InboxMoved DEF JobState
  <2>4. QED
    BY <1>6, <2>1, <2>2, <2>3, <2>a
<1>8. ASSUME NEW j \in Job, Leave(w, j), at[w].step # "idle",
             j.st \in {"waiting", "failed"}
      PROVE  Recorded'
  <2>1. PICK m \in Message : m = at[w].msg
    BY <1>8 DEF Recorded, SlotsOwnJobs
  <2>2. /\ inbox' = [inbox EXCEPT ![m] = j]
        /\ at' = [at EXCEPT ![w] = FreeSlot] /\ UNCHANGED <<rows, acked>>
    BY <1>8, <2>1 DEF Leave
  <2>3. Only(inbox, inbox', Message, Job, m) /\ inbox'[m] = j
    BY <1>0, <1>8, <2>2 DEF Only
  <2>4. inbox'[m].st \in {"waiting", "failed"}
    BY <1>8, <2>3
  <2>5. at[w].step # "idle" /\ m \in Message
    BY <1>8
  <2>6. QED
    BY <1>6, <2>1, <2>2, <2>3, <2>4, <2>5
<1>9. ASSUME AbortRecord(w) PROVE Recorded'
  <2>1. at[w].step # "idle" /\ at[w].msg \in Message /\ inbox[at[w].msg].st = "active"
    BY <1>9 DEF AbortRecord, Recorded, SlotsOwnJobs
  <2>2. inbox[at[w].msg] \in Job /\ inbox[at[w].msg].made < MaxAttempts
    BY <1>0, <2>1 DEF Recorded, Typed, AttemptsLeft
  <2>3. QED
    BY <1>8, <1>9, <2>1, <2>2, ThrownJob DEF AbortRecord
<1>10. ASSUME CrashInbound(w) PROVE Recorded'
  <2>1. at[w].step # "idle" /\ at[w].msg \in Message
    BY <1>10 DEF CrashInbound, Recorded, SlotsOwnJobs
  <2>2. inbox[at[w].msg] \in Job
    BY <1>0, <2>1
  <2>3. QED
    BY <1>8, <1>10, <2>1, <2>2, StalledJob DEF CrashInbound
<1>11. QED
  BY <1>1, <1>3, <1>4, <1>5, <1>7, <1>9, <1>10 DEF Recording

LEMMA RecordedTrim ==
  ASSUME Recorded, Typed', NEW m \in Message, TrimInbound(m)
  PROVE  Recorded'
<1> USE DEF hookVars, recordVars, clientVars, mediaVars, deskVars
<1>1. /\ inbox[m].st = "done" /\ UNCHANGED <<at, rows, acked>>
      /\ inbox'[m] = NoJob /\ \A x \in Message : x # m => inbox'[x] = inbox[x]
  BY DEF TrimInbound, Recorded, Typed, TypeOK
<1>2. rows[m] > 0
  BY <1>1 DEF Recorded, RowsFollow
<1>3. SlotsOwnJobs'
  BY <1>1 DEF Recorded, SlotsOwnJobs
<1>4. RowsFollow'
  BY <1>1, FreshJobs DEF Recorded, RowsFollow
<1>5. OneRowPerMessage'
  BY <1>1 DEF Recorded, OneRowPerMessage
<1>6. EvolutionKeepsAcked'
  BY <1>1, <1>2 DEF Recorded, Typed, TypeOK, EvolutionKeepsAcked, Kept
<1>7. QED
  BY <1>3, <1>4, <1>5, <1>6 DEF Recorded

LEMMA MediaKeepsRecord ==
  ASSUME NEW m \in Message, MediaWork(m)
  PROVE  UNCHANGED <<hookVars, recordVars, stray, payment, moves, autoReply>>
BY DEF MediaWork, MediaUnchanged, StartMedia, NoConnection, ThankForProof, Transcribe, SearchPayment, UploadDocument,
       FindRequest, FulfilRequest, FulfilFails, FileMessage, AttachProof, RouteDocument,
       MediaFails, CrashMedia

LEMMA RecordedNext == Recorded /\ [Next]_vars => Recorded'
<1> SUFFICES ASSUME Recorded, [Next]_vars PROVE Recorded'
  OBVIOUS
<1> USE DEF hookVars, recordVars, clientVars, mediaVars, deskVars
<1>0. Typed
  BY DEF Recorded
<1>1. ASSUME NEW h \in Hooks, Webhook(h) PROVE Recorded'
  BY <1>0, <1>1, TypedWebhook, RecordedWebhook
<1>2. ASSUME NEW w \in Workers, Recording(w) PROVE Recorded'
  <2>1. at[w].step # "idle" => at[w].msg \in Message /\ inbox[at[w].msg].st = "active"
    BY DEF Recorded, SlotsOwnJobs
  <2>2. Typed'
    BY <1>0, <1>2, <2>1, TypedRecording
  <2>3. QED
    BY <1>2, <2>2, RecordedRecording
<1>3. ASSUME NEW m \in Message, TrimInbound(m) PROVE Recorded'
  BY <1>0, <1>3, TypedRest, RecordedTrim
<1>4. ASSUME NEW m \in Message, MediaWork(m) PROVE Recorded'
  BY <1>0, <1>4, TypedMedia, MediaKeepsRecord, RecordedKept
<1>5. ASSUME Firm PROVE Recorded'
  <2>1. UNCHANGED <<inbox, at, rows, acked>>
    BY <1>5 DEF Firm, StaffMoves, FirmRequests, FirmCharges
  <2>2. QED
    BY <1>0, <1>5, <2>1, TypedRest, RecordedKept
<1>a. ASSUME Calling PROVE Recorded'
  <2>1. UNCHANGED <<inbox, at, rows, acked>>
    BY <1>a DEF Calling, CallLooks, CallOpens, CallFails, CallEnds
  <2>2. QED
    BY <1>0, <1>a, <2>1, TypedRest, RecordedKept
<1>6. ASSUME UNCHANGED vars PROVE Recorded'
  <2>1. UNCHANGED <<inbox, at, rows, acked>>
    BY <1>6 DEF vars
  <2>2. QED
    BY <1>0, <1>6, <2>1, TypedRest, RecordedKept
<1>7. QED
  BY <1>1, <1>2, <1>3, <1>4, <1>5, <1>a, <1>6 DEF Next

LEMMA RecordedAlways == Spec => []Recorded
BY RecordedInit, RecordedNext, PTL DEF Spec

(* Every variable holds what the code could store in it.                   *)
THEOREM InboundTyping == Spec => []TypeOK
<1>1. Recorded => TypeOK
  BY DEF Recorded, Typed
<1>2. QED
  BY <1>1, RecordedAlways, PTL

(* recordInbound is idempotent on the wamid, however often a message is    *)
(* delivered, its job retried, recovered, or forgotten and added again.    *)
THEOREM RecordedOnce == Spec => []OneRowPerMessage
<1>1. Recorded => OneRowPerMessage
  BY DEF Recorded
<1>2. QED
  BY <1>1, RecordedAlways, PTL

(* What Evolution was answered 200 for is stored, queued, or on record as  *)
(* failed.                                                                 *)
THEOREM AcknowledgedIsKept == Spec => []EvolutionKeepsAcked
<1>1. Recorded => EvolutionKeepsAcked
  BY DEF Recorded
<1>2. QED
  BY <1>1, RecordedAlways, PTL

-----------------------------------------------------------------------------
(* Named messages share a conversation                                     *)

Busy(w) == at[w].step \in {"add", "commit"}

(* A named message holds the client row from its upsert to the end of its  *)
(* transaction; as long as it is about to open a conversation, none of its *)
(* like is open.                                                           *)
NamedHold ==
    /\ \A w \in Workers : lock = w => Busy(w)
    /\ \A w \in Workers : Busy(w) /\ at[w].msg \in named => lock = w
    /\ \A w \in Workers : Busy(w) /\ at[w].msg \in named /\ at[w].conv = 0 => own = {}
    /\ \A c \in own : conv[c] = "OPEN"
    /\ \A c, d \in own : c = d

LEMMA HoldInit == Init => NamedHold
BY FreshSlots, InboundParameters DEF Init, NamedHold, Busy

(* A step of others than the workers' transactions.                        *)
LEMMA HoldKept ==
  ASSUME Typed, NamedHold, UNCHANGED <<at, named>>,
         \A w \in Workers : lock' = w <=> lock = w,
         own' \subseteq own, \A c \in own' : conv'[c] = "OPEN"
  PROVE  NamedHold'
BY DEF NamedHold, Busy

(* A transaction that ends, or a step outside one.                         *)
LEMMA HoldLeft ==
  ASSUME Typed, NamedHold, NEW w \in Workers, Only(at, at', Workers, Slot, w), ~Busy(w)',
         lock' = IF lock = w THEN Nobody ELSE lock, UNCHANGED <<named, own, conv>>
  PROVE  NamedHold'
BY InboundParameters DEF NamedHold, Busy, Only

LEMMA HoldRecording ==
  ASSUME Recorded, NamedHold, NEW w \in Workers, Recording(w)
  PROVE  NamedHold'
<1> USE InboundParameters DEF hookVars, recordVars, clientVars, mediaVars, deskVars
<1>0. /\ at \in [Workers -> Slot] /\ conv \in [Conv -> ConvState] /\ Typed
      /\ lock \in Workers \cup {Caller, Nobody} /\ own \subseteq Conv
  BY DEF Recorded, Typed, TypeOK
<1>1. ASSUME NEW m \in Message, StartInbound(w, m) PROVE NamedHold'
  <2> DEFINE s == IF rows[m] > 0 THEN "finish" ELSE "upsert"
             r == [step |-> s, msg |-> m, conv |-> 0]
  <2>1. at' = [at EXCEPT ![w] = r] /\ r \in Slot /\ r.step \notin {"add", "commit"}
    BY <1>1 DEF StartInbound, SlotGoes, Slot, RecordStep
  <2>2. at[w].step \notin {"add", "commit"} /\ UNCHANGED <<conv, lock, named, own>>
    BY <1>1 DEF StartInbound
  <2> HIDE DEF r
  <2>3. Only(at, at', Workers, Slot, w) /\ at'[w] = r
    BY <1>0, <2>1, SlotPut
  <2>4. lock # w /\ ~Busy(w)'
    BY <2>1, <2>2, <2>3 DEF NamedHold, Busy
  <2>5. QED
    BY <1>0, <2>2, <2>3, <2>4, HoldLeft
<1>2. ASSUME UpsertClient(w) PROVE NamedHold'
  <2>1. at[w].msg \in Message /\ at[w].step = "upsert" /\ UNCHANGED <<conv, named, own>>
    BY <1>2 DEF UpsertClient, Recorded, SlotsOwnJobs
  <2>2. /\ Only(at, at', Workers, Slot, w)
        /\ at'[w].step \in {"add", "commit"} /\ at'[w].msg = at[w].msg
        /\ at'[w].conv \in OpenConvs \/ (at'[w].conv = 0 /\ OpenConvs = {})
    BY <1>0, <1>2, <2>1, ConversationFound DEF UpsertClient
  <2>3. at'[w].conv = 0 => own = {}
    <3>1. 0 \notin OpenConvs /\ own \subseteq OpenConvs
      BY <1>0 DEF OpenConvs, Conv, NamedHold
    <3>2. QED
      BY <2>2, <3>1
  <2>4. CASE lock = Nobody /\ lock' = w
    <3>1. \A v \in Workers : Busy(v) => at[v].msg \notin named
      BY <2>4 DEF NamedHold
    <3>2. \A v \in Workers : Busy(v)' /\ at'[v].msg \in named => v = w
      BY <2>1, <2>2, <3>1 DEF Only, Busy
    <3>3. \A v \in Workers : lock' = v => Busy(v)'
      BY <2>2, <2>4 DEF Busy
    <3>4. QED
      BY <2>1, <2>3, <2>4, <3>2, <3>3 DEF NamedHold
  <2>5. CASE at[w].msg \notin named /\ lock' = lock
    <3>1. \A v \in Workers : lock' = v => Busy(v)'
      BY <2>2, <2>5 DEF NamedHold, Only, Busy
    <3>2. \A v \in Workers : Busy(v)' /\ at'[v].msg \in named =>
                                 Busy(v) /\ at'[v] = at[v]
      BY <2>1, <2>2, <2>5 DEF Only, Busy
    <3>3. QED
      BY <2>1, <2>5, <3>1, <3>2 DEF NamedHold
  <2>6. QED
    BY <1>2, <2>4, <2>5 DEF UpsertClient
<1>3. ASSUME AddMediaJob(w) PROVE NamedHold'
  <2>1. /\ Only(at, at', Workers, Slot, w) /\ at'[w].step = "commit"
        /\ at'[w].conv = at[w].conv /\ at'[w].msg = at[w].msg
    BY <1>0, <1>3, SlotMoved DEF AddMediaJob, RecordStep
  <2>2. at[w].step = "add" /\ UNCHANGED <<conv, lock, named, own>>
    BY <1>3 DEF AddMediaJob
  <2>3. \A v \in Workers : /\ Busy(v)' <=> Busy(v)
                           /\ at'[v].msg = at[v].msg /\ at'[v].conv = at[v].conv
    BY <2>1, <2>2 DEF Only, Busy
  <2>4. QED
    BY <2>2, <2>3 DEF NamedHold
<1>4. ASSUME CommitRecord(w) PROVE NamedHold'
  <2> DEFINE m == at[w].msg
             c == IF at[w].conv # 0 THEN at[w].conv ELSE NewConv
  <2>1. /\ at[w].step = "commit" /\ named' = named
        /\ conv' = [conv EXCEPT ![c] = "OPEN"]
        /\ lock' = IF lock = w THEN Nobody ELSE lock
        /\ own' = IF at[w].conv = 0 /\ m \in named THEN own \cup {c} ELSE own
    BY <1>4 DEF CommitRecord
  <2>2. c \in Conv
    BY <1>0, <1>4, ConversationCreated DEF CommitRecord, Slot, Unused, Conv
  <2>3. Only(at, at', Workers, Slot, w) /\ at'[w].step = "finish"
    BY <1>0, <1>4, SlotMoved DEF CommitRecord, RecordStep
  <2> HIDE DEF c
  <2>4. conv'[c] = "OPEN" /\ \A d \in Conv : d # c => conv'[d] = conv[d]
    BY <1>0, <2>1, <2>2
  <2>5. \A v \in Workers : Busy(v)' => Busy(v) /\ v # w /\ at'[v] = at[v]
    BY <2>3 DEF Only, Busy
  <2>6. \A v \in Workers : lock' = v => Busy(v)'
    BY <2>1, <2>3 DEF NamedHold, Only, Busy
  <2>7. \A v \in Workers : Busy(v)' /\ at'[v].msg \in named => lock' = v
    BY <2>1, <2>5 DEF NamedHold
  <2>8. CASE at[w].conv = 0 /\ m \in named
    <3>1. own = {} /\ lock = w
      BY <2>1, <2>8 DEF NamedHold, Busy
    <3>2. own' = {c} /\ \A v \in Workers : Busy(v)' => at'[v].msg \notin named
      BY <2>1, <2>5, <2>8, <3>1 DEF NamedHold
    <3>3. QED
      BY <2>1, <2>4, <2>6, <3>2 DEF NamedHold
  <2>9. CASE ~(at[w].conv = 0 /\ m \in named)
    <3>1. own' = own /\ \A d \in own : conv'[d] = "OPEN"
      BY <1>0, <2>1, <2>4, <2>9 DEF NamedHold
    <3>2. QED
      BY <2>1, <2>5, <2>6, <2>7, <3>1 DEF NamedHold
  <2>10. QED
    BY <2>8, <2>9
<1>5. ASSUME at' = [at EXCEPT ![w] = FreeSlot], lock' = IF lock = w THEN Nobody ELSE lock,
             UNCHANGED <<named, own, conv>>
      PROVE  NamedHold'
  <2>1. Only(at, at', Workers, Slot, w) /\ at'[w] = FreeSlot
    BY <1>0, <1>5, SlotPut, FreshSlots
  <2>2. QED
    BY <1>0, <1>5, <2>1, FreshSlots, HoldLeft DEF Busy
<1>6. ASSUME FinishInbound(w) PROVE NamedHold'
  <2>1. lock # w
    BY <1>6 DEF FinishInbound, NamedHold, Busy
  <2>2. QED
    BY <1>5, <1>6, <2>1 DEF FinishInbound
<1>7. ASSUME AbortRecord(w) \/ CrashInbound(w) PROVE NamedHold'
  BY <1>5, <1>7 DEF AbortRecord, CrashInbound, Leave
<1>8. QED
  BY <1>1, <1>2, <1>3, <1>4, <1>6, <1>7 DEF Recording

LEMMA HoldNext == Recorded /\ NamedHold /\ [Next]_vars => NamedHold'
<1> SUFFICES ASSUME Recorded, NamedHold, [Next]_vars PROVE NamedHold'
  OBVIOUS
<1> USE DEF hookVars, recordVars, clientVars, mediaVars, deskVars
<1>0. Typed /\ own \subseteq Conv /\ conv \in [Conv -> ConvState]
  BY DEF Recorded, Typed, TypeOK
<1>1. ASSUME UNCHANGED <<at, lock, conv, named, own>> PROVE NamedHold'
  BY <1>0, <1>1, HoldKept DEF NamedHold
<1>2. ASSUME NEW h \in Hooks, Webhook(h) PROVE NamedHold'
  BY <1>1, <1>2 DEF Webhook, DeliverMeta, DeliverEvolution, EnqueueInbound, HookFails
<1>3. ASSUME NEW w \in Workers, Recording(w) PROVE NamedHold'
  BY <1>3, HoldRecording
<1>4. ASSUME NEW m \in Message, TrimInbound(m) PROVE NamedHold'
  BY <1>1, <1>4 DEF TrimInbound
<1>5. ASSUME NEW m \in Message, MediaWork(m) PROVE NamedHold'
  BY <1>1, <1>5, MediaKeepsRecord
<1>6. ASSUME Calling PROVE NamedHold'
  <2>1. /\ UNCHANGED <<at, named, own>>
        /\ \A c \in Conv : conv'[c] = conv[c] \/ conv'[c] = "OPEN"
    BY <1>0, <1>6 DEF Calling, CallLooks, CallOpens, CallFails, CallEnds
  <2>2. \A w \in Workers : lock' = w <=> lock = w
    BY <1>6, InboundParameters DEF Calling, CallLooks, CallOpens, CallFails, CallEnds
  <2>3. QED
    BY <1>0, <2>1, <2>2, HoldKept DEF NamedHold
<1>7. ASSUME NEW c \in Conv, StaffMoves(c) PROVE NamedHold'
  <2>1. /\ UNCHANGED <<at, lock, named>> /\ own' = own \ {c}
        /\ \A d \in Conv : d # c => conv'[d] = conv[d]
    BY <1>0, <1>7 DEF StaffMoves
  <2>2. QED
    BY <1>0, <2>1, HoldKept DEF NamedHold
<1>8. ASSUME (\E s \in RequestState : FirmRequests(s)) \/ FirmCharges PROVE NamedHold'
  BY <1>1, <1>8 DEF FirmRequests, FirmCharges
<1>9. ASSUME UNCHANGED vars PROVE NamedHold'
  BY <1>1, <1>9 DEF vars
<1>10. QED
  BY <1>2, <1>3, <1>4, <1>5, <1>6, <1>7, <1>8, <1>9 DEF Next, Firm

(* However many of a client's messages are recorded at once, whatever is   *)
(* called, sent without a name, closed or opened again meanwhile: those    *)
(* that carry the client's name do not open two conversations side by side.*)
THEOREM NamedMessagesUnite == Spec => []NamedShareConversation
<1>1. NamedHold => NamedShareConversation
  <2> SUFFICES ASSUME NamedHold PROVE Cardinality(own) <= 1
    BY DEF NamedShareConversation
  <2>1. CASE own = {}
    BY <2>1, FS_EmptySet
  <2>2. CASE own # {}
    <3>1. PICK c \in own : TRUE
      BY <2>2
    <3>2. own = {c}
      BY <3>1 DEF NamedHold
    <3>3. Cardinality({c}) = 1
      BY FS_Singleton
    <3>4. QED
      BY <3>2, <3>3
  <2>3. QED
    BY <2>1, <2>2
<1>2. QED
  BY <1>1, HoldInit, HoldNext, RecordedAlways, PTL DEF Spec

-----------------------------------------------------------------------------
(* Media work                                                              *)

Rooted == WorkFollowsRow /\ \A m \in Message : media[m].st = "active" => rows[m] > 0

LEMMA RootedInit == Init => Rooted
BY FreshJobs DEF Init, Rooted, WorkFollowsRow

(* Rows stay, and nothing but a stored message is worked on or announced.  *)
LEMMA RootedKept ==
  ASSUME Rooted, UNCHANGED <<media, docs, outcome>>,
         \A m \in Message : rows[m] > 0 => rows'[m] > 0,
         \A m \in event' : m \in event \/ rows'[m] > 0
  PROVE  Rooted'
BY DEF Rooted, WorkFollowsRow

LEMMA RootedRecording ==
  ASSUME Recorded, Rooted, NEW w \in Workers, Recording(w)
  PROVE  Rooted'
<1> USE DEF hookVars, recordVars, clientVars, mediaVars, deskVars
<1>0. /\ rows \in [Message -> Nat] /\ media \in [Message -> Job]
      /\ inbox \in [Message -> Job] /\ event \subseteq Message
  BY DEF Recorded, Typed, TypeOK
<1>1. ASSUME CommitRecord(w) PROVE Rooted'
  <2>1. PICK m \in Message : m = at[w].msg
    BY <1>1 DEF CommitRecord, Recorded, SlotsOwnJobs
  <2>2. /\ rows' = [rows EXCEPT ![m] = @ + 1] /\ UNCHANGED <<media, docs, outcome>>
        /\ event' \subseteq event \cup {m}
    BY <1>1, <2>1 DEF CommitRecord
  <2>3. rows'[m] > 0 /\ \A x \in Message : x # m => rows'[x] = rows[x]
    BY <1>0, <2>2
  <2>4. \A x \in Message : rows[x] > 0 => rows'[x] > 0
    BY <2>3
  <2>5. QED
    BY <2>2, <2>3, <2>4, RootedKept
<1>2. ASSUME AddMediaJob(w) PROVE Rooted'
  <2>1. PICK m \in Message : m = at[w].msg
    BY <1>2 DEF AddMediaJob, Recorded, SlotsOwnJobs
  <2> DEFINE j == Added(media[m], Queued)
  <2>2. /\ media' = [media EXCEPT ![m] = j] /\ UNCHANGED <<rows, event, docs, outcome>>
    BY <1>2, <2>1 DEF AddMediaJob
  <2>3. j.st = "active" => media[m].st = "active"
    BY <1>0, AddedJob, FreshJobs
  <2> HIDE DEF j
  <2>4. media'[m] = j /\ \A x \in Message : x # m => media'[x] = media[x]
    BY <1>0, <2>2
  <2>5. QED
    BY <2>2, <2>3, <2>4 DEF Rooted, WorkFollowsRow
<1>3. ASSUME ~CommitRecord(w), ~AddMediaJob(w) PROVE Rooted'
  <2>1. UNCHANGED <<rows, media, docs, outcome, event>>
    BY <1>3 DEF Recording, StartInbound, UpsertClient, FinishInbound, AbortRecord,
                CrashInbound, Leave
  <2>2. QED
    BY <2>1, RootedKept
<1>4. QED
  BY <1>1, <1>2, <1>3

LEMMA RootedMedia ==
  ASSUME Recorded, Rooted, NEW m \in Message, MediaWork(m)
  PROVE  Rooted'
<1> USE DEF hookVars, recordVars, clientVars, mediaVars, deskVars
<1>0. /\ rows \in [Message -> Nat] /\ media \in [Message -> Job] /\ docs \in [Message -> Nat]
      /\ outcome \in [Message -> SUBSET Outcome] /\ Typed
  BY DEF Recorded, Typed, TypeOK
<1>1. rows' = rows
  BY MediaKeepsRecord
<1>2. ASSUME rows[m] > 0, media' \in [Message -> Job], docs' \in [Message -> Nat],
             \A x \in Message : x # m =>
                 media'[x] = media[x] /\ docs'[x] = docs[x] /\ outcome'[x] = outcome[x],
             event' \subseteq event \cup {m}
      PROVE  Rooted'
  BY <1>1, <1>2 DEF Rooted, WorkFollowsRow
<1>3. CASE rows[m] = 0
  <2>1. StartMedia(m) /\ media[m].st = "waiting"
    BY <1>0, <1>3 DEF Rooted, MediaWork, StartMedia, Transcribe, SearchPayment, UploadDocument,
       FindRequest, FulfilRequest, FulfilFails, FileMessage, AttachProof, RouteDocument,
       MediaFails, CrashMedia, NoConnection, ThankForProof, MediaAt
  <2>2. MediaEnds(m, {"missed"}) /\ UNCHANGED <<docs, event>>
    BY <1>3, <2>1 DEF StartMedia
  <2>3. /\ Only(media, media', Message, Job, m) /\ media'[m].st = "done"
        /\ outcome'[m] = outcome[m] \cup {"missed"}
        /\ \A x \in Message : x # m => outcome'[x] = outcome[x]
    BY <1>0, <2>2, MediaEnded DEF Outcome
  <2>4. QED
    BY <1>1, <2>2, <2>3 DEF Rooted, WorkFollowsRow, Only
<1>4. CASE rows[m] > 0
  <2>1. ASSUME NEW what \in SUBSET Outcome, MediaEnds(m, what), docs' = docs,
               event' \subseteq event \cup {m}
        PROVE  Rooted'
    <3>1. /\ Only(media, media', Message, Job, m)
          /\ \A x \in Message : x # m => outcome'[x] = outcome[x]
      BY <1>0, <2>1, MediaEnded
    <3>2. QED
      BY <1>0, <1>2, <1>4, <2>1, <3>1 DEF Only
  <2>2. ASSUME NEW j \in Job, MediaLeaves(m, j), UNCHANGED <<docs, outcome, event>>
        PROVE  Rooted'
    <3>1. Only(media, media', Message, Job, m)
      BY <1>0, <2>2, MediaLeft
    <3>2. QED
      BY <1>0, <1>2, <1>4, <2>2, <3>1 DEF Only
  <2>3. ASSUME UNCHANGED <<media, docs, outcome, event>> PROVE Rooted'
    BY <1>0, <1>2, <1>4, <2>3
  <2>4. CASE StartMedia(m)
    <3>1. CASE MediaEnds(m, {"missed"})
      BY <2>1, <2>4, <3>1 DEF StartMedia, Outcome
    <3>2. CASE MediaStarts(m) /\ outcome' = outcome
      <4>1. Only(media, media', Message, Job, m)
        BY <1>0, <3>2, MediaMoved DEF MediaStarts, JobState
      <4>2. QED
        BY <1>0, <1>2, <1>4, <2>4, <3>2, <4>1 DEF StartMedia, Only
    <3>3. QED
      BY <2>4, <3>1, <3>2 DEF StartMedia
  <2>5. CASE Transcribe(m)
    BY <2>1, <2>5 DEF Transcribe, Outcome
  <2>6. CASE UploadDocument(m)
    <3>1. /\ docs' \in [Message -> Nat] /\ \A x \in Message : x # m => docs'[x] = docs[x]
          /\ UNCHANGED <<media, outcome, event>>
      BY <1>0, <2>6 DEF UploadDocument, MediaGoes
    <3>2. QED
      BY <1>0, <1>2, <1>4, <3>1
  <2>7. CASE SearchPayment(m) \/ FindRequest(m) \/ FulfilRequest(m) \/ FulfilFails(m)
             \/ FileMessage(m)
    BY <2>3, <2>7 DEF SearchPayment, FindRequest, FulfilRequest, FulfilFails, FileMessage,
                      MediaGoes
  <2>8. CASE AttachProof(m)
    <3>1. CASE payment = "open"
      <4>1. /\ UNCHANGED <<media, docs, event>>
            /\ \A x \in Message : x # m => outcome'[x] = outcome[x]
        BY <1>0, <2>8, <3>1 DEF AttachProof, MediaGoes
      <4>2. QED
        BY <1>0, <1>2, <1>4, <4>1
    <3>2. CASE payment # "open"
      <4>1. Thrown(media[m]) \in Job
        BY <1>0, <2>8, ThrownJob DEF AttachProof, MediaAt, Typed, AttemptsLeft
      <4>2. QED
        BY <2>2, <2>8, <3>2, <4>1 DEF AttachProof
    <3>3. QED
      BY <3>1, <3>2
  <2>9. CASE RouteDocument(m)
    <3> DEFINE toAi == ~work[m].filled /\ autoReply
               what == IF work[m].filled THEN {"ack"} ELSE IF toAi THEN {"event"} ELSE {}
    <3>1. what \in SUBSET Outcome /\ MediaEnds(m, what)
      BY <2>9 DEF RouteDocument, Outcome
    <3> HIDE DEF what
    <3>2. QED
      BY <2>1, <2>9, <3>1 DEF RouteDocument
  <2>10. CASE MediaFails(m)
    <3>1. Thrown(media[m]) \in Job
      BY <1>0, <2>10, ThrownJob DEF MediaFails, Typed, AttemptsLeft
    <3>2. QED
      BY <2>2, <2>10, <3>1 DEF MediaFails
  <2>11. CASE CrashMedia(m)
    <3>1. Stalled(media[m]) \in Job
      BY <1>0, StalledJob
    <3>2. QED
      BY <2>2, <2>11, <3>1 DEF CrashMedia
  <2>12. CASE NoConnection(m) \/ ThankForProof(m)
    BY <2>1, <2>12 DEF NoConnection, ThankForProof, Outcome
  <2>13. QED
    BY <2>4, <2>5, <2>6, <2>7, <2>8, <2>9, <2>10, <2>11, <2>12 DEF MediaWork
<1>5. QED
  BY <1>0, <1>3, <1>4

LEMMA RootedNext == Recorded /\ Rooted /\ [Next]_vars => Rooted'
<1> SUFFICES ASSUME Recorded, Rooted, [Next]_vars PROVE Rooted'
  OBVIOUS
<1> USE DEF hookVars, recordVars, clientVars, mediaVars, deskVars
<1>1. ASSUME NEW h \in Hooks, Webhook(h) PROVE Rooted'
  <2>1. UNCHANGED <<rows, media, docs, outcome, event>>
    BY <1>1 DEF Webhook, DeliverMeta, DeliverEvolution, EnqueueInbound, HookFails
  <2>2. QED
    BY <2>1, RootedKept
<1>2. ASSUME NEW w \in Workers, Recording(w) PROVE Rooted'
  BY <1>2, RootedRecording
<1>3. ASSUME NEW m \in Message, TrimInbound(m) PROVE Rooted'
  BY <1>3, RootedKept DEF TrimInbound
<1>4. ASSUME NEW m \in Message, MediaWork(m) PROVE Rooted'
  BY <1>4, RootedMedia
<1>5. ASSUME Firm PROVE Rooted'
  <2>1. UNCHANGED <<rows, media, docs, outcome, event>>
    BY <1>5 DEF Firm, StaffMoves, FirmRequests, FirmCharges
  <2>2. QED
    BY <2>1, RootedKept
<1>6. ASSUME Calling PROVE Rooted'
  BY <1>6, RootedKept DEF Calling, CallLooks, CallOpens, CallFails, CallEnds
<1>7. ASSUME UNCHANGED vars PROVE Rooted'
  BY <1>7, RootedKept DEF vars
<1>8. QED
  BY <1>1, <1>2, <1>3, <1>4, <1>5, <1>6, <1>7 DEF Next

(* What the media worker files or tells the AI belongs to a stored row,    *)
(* although its job is added before the row is committed.                  *)
THEOREM RowsComeFirst == Spec => []WorkFollowsRow
<1>1. Rooted => WorkFollowsRow
  BY DEF Rooted
<1>2. QED
  BY <1>1, RootedInit, RootedNext, RecordedAlways, PTL DEF Spec

-----------------------------------------------------------------------------
(* Routing                                                                 *)

(* A proof that waits for its thank-you is attached.                       *)
ProofAttached ==
    \A m \in Message : work[m].step = "thank" => "proof" \in outcome[m]

Routed == DoneMeansRouted /\ ProofAttached

(* What a job says when it ends well, and when its first look ended it.    *)
Told(what) == what \cap {"event", "proof", "ack", "missed", "offline"} # {}

LEMMA ToldMeansRouted ==
  DoneMeansRouted <=>
      \A m \in Media : media[m].st = "done" /\ autoReply => Told(outcome[m])
BY DEF DoneMeansRouted, Handed, Told

LEMMA RoutedInit == Init => Routed
BY InboundParameters, FreshJobs
   DEF Init, Routed, DoneMeansRouted, ProofAttached, NoWork

(* Whatever a completed media job decided stays decided.                   *)
LEMMA RoutedMedia ==
  ASSUME Typed, Routed, NEW m \in Message, MediaWork(m)
  PROVE  Routed'
<1> USE DEF hookVars, recordVars, clientVars, mediaVars, deskVars
<1>0. /\ media \in [Message -> Job] /\ outcome \in [Message -> SUBSET Outcome]
      /\ work \in [Message -> Work]
      /\ Media \subseteq Message /\ autoReply' = autoReply
  BY InboundParameters, MediaKeepsRecord DEF Typed, TypeOK
<1>1. ASSUME \A x \in Message : x # m => /\ media'[x] = media[x] /\ work'[x] = work[x]
                                         /\ outcome'[x] = outcome[x],
             media'[m].st = "done" /\ autoReply => Told(outcome'[m]),
             work'[m].step = "thank" => "proof" \in outcome'[m]
      PROVE  Routed'
  <2>1. \A x \in Media : media'[x].st = "done" /\ autoReply => Told(outcome'[x])
    BY <1>0, <1>1, ToldMeansRouted DEF Routed
  <2>2. DoneMeansRouted'
    BY <1>0, <2>1 DEF DoneMeansRouted, Handed, Told
  <2>3. ProofAttached'
    BY <1>1 DEF Routed, ProofAttached
  <2>4. QED
    BY <2>2, <2>3 DEF Routed
<1>2. ASSUME NEW what \in SUBSET Outcome, MediaEnds(m, what),
             autoReply => Told(outcome[m] \cup what)
      PROVE  Routed'
  <2>1. /\ Only(media, media', Message, Job, m) /\ outcome'[m] = outcome[m] \cup what
        /\ \A x \in Message : x # m => outcome'[x] = outcome[x]
    BY <1>2, MediaEnded
  <2>2. work'[m] = NoWork /\ \A x \in Message : x # m => work'[x] = work[x]
    BY <1>0, <1>2 DEF MediaEnds
  <2>3. NoWork.step # "thank"
    BY DEF NoWork
  <2>4. QED
    BY <1>1, <1>2, <2>1, <2>2, <2>3 DEF Only
<1>3. ASSUME NEW j \in Job, MediaLeaves(m, j), j.st # "done", outcome' = outcome
      PROVE  Routed'
  <2>1. Only(media, media', Message, Job, m) /\ media'[m] = j
    BY <1>3, MediaLeft
  <2>2. work'[m] = NoWork /\ \A x \in Message : x # m => work'[x] = work[x]
    BY <1>0, <1>3 DEF MediaLeaves
  <2>3. NoWork.step # "thank"
    BY DEF NoWork
  <2>4. QED
    BY <1>1, <1>3, <2>1, <2>2, <2>3 DEF Only
<1>4. ASSUME NEW r \in Work, work' = [work EXCEPT ![m] = r], r.step # "thank",
             media[m].st = "active", UNCHANGED <<media, outcome>>
      PROVE  Routed'
  <2>1. work'[m] = r /\ \A x \in Message : x # m => work'[x] = work[x]
    BY <1>0, <1>4
  <2>2. QED
    BY <1>1, <1>4, <2>1
<1>5. ASSUME NEW s \in MediaStep, MediaGoes(m, s), s # "thank", media[m].st = "active",
             outcome' = outcome
      PROVE  Routed'
  <2>1. Only(work, work', Message, Work, m) /\ work'[m].step = s /\ media' = media
    BY <1>0, <1>5, WorkMoved DEF MediaGoes
  <2>2. QED
    BY <1>1, <1>5, <2>1 DEF Only
<1>6. CASE StartMedia(m)
  <2>1. CASE MediaEnds(m, {"missed"})
    BY <1>2, <2>1 DEF Outcome, Told
  <2>2. CASE MediaStarts(m) /\ outcome' = outcome
    <3> DEFINE r == [step |-> AfterDownload(m), paying |-> FALSE, filled |-> FALSE]
    <3>1. Only(media, media', Message, Job, m) /\ media'[m].st = "active"
      BY <1>0, <2>2, MediaMoved DEF MediaStarts, JobState
    <3>2. work' = [work EXCEPT ![m] = r] /\ r.step # "thank"
      BY <2>2 DEF MediaStarts, AfterDownload
    <3> HIDE DEF r
    <3>3. work'[m] = r /\ \A x \in Message : x # m => work'[x] = work[x]
      BY <1>0, <3>2
    <3>4. QED
      BY <1>1, <2>2, <3>1, <3>2, <3>3 DEF Only
  <2>3. QED
    BY <1>6, <2>1, <2>2 DEF StartMedia
<1>7. CASE NoConnection(m)
  BY <1>2, <1>7 DEF NoConnection, Outcome, Told
<1>8. CASE Transcribe(m)
  <2> DEFINE what == IF autoReply THEN {"event"} ELSE {}
  <2>1. what \in SUBSET Outcome /\ MediaEnds(m, what) /\ (autoReply => Told(outcome[m] \cup what))
    BY <1>8 DEF Transcribe, Outcome, Told
  <2> HIDE DEF what
  <2>2. QED
    BY <1>2, <2>1
<1>9. CASE SearchPayment(m)
  <2> DEFINE r == [step |-> "upload", paying |-> payment = "open", filled |-> FALSE]
  <2>1. r \in Work /\ r.step # "thank" /\ work' = [work EXCEPT ![m] = r]
    BY <1>9 DEF SearchPayment, Work, MediaStep
  <2> HIDE DEF r
  <2>2. QED
    BY <1>4, <1>9, <2>1 DEF SearchPayment, MediaAt
<1>10. CASE FulfilRequest(m)
  <2> DEFINE r == [step |-> "file", paying |-> work[m].paying, filled |-> TRUE]
  <2>1. r \in Work /\ r.step # "thank" /\ work' = [work EXCEPT ![m] = r]
    BY <1>0, <1>10 DEF FulfilRequest, Work, MediaStep
  <2> HIDE DEF r
  <2>2. QED
    BY <1>4, <1>10, <2>1 DEF FulfilRequest, MediaAt
<1>11. CASE UploadDocument(m) \/ FindRequest(m) \/ FulfilFails(m) \/ FileMessage(m)
  BY <1>5, <1>11 DEF UploadDocument, FindRequest, FulfilFails, FileMessage, MediaAt, MediaStep
<1>12. CASE AttachProof(m)
  <2>1. CASE payment = "open"
    <3>1. /\ MediaGoes(m, "thank") /\ media[m].st = "active"
          /\ outcome' = [outcome EXCEPT ![m] = @ \cup {"proof"}]
      BY <1>12, <2>1 DEF AttachProof, MediaAt
    <3>2. Only(work, work', Message, Work, m) /\ media' = media
      BY <1>0, <3>1, WorkMoved DEF MediaGoes, MediaStep
    <3>3. "proof" \in outcome'[m] /\ \A x \in Message : x # m => outcome'[x] = outcome[x]
      BY <1>0, <3>1
    <3>4. QED
      BY <1>1, <3>1, <3>2, <3>3 DEF Only
  <2>2. CASE payment # "open"
    <3>1. Thrown(media[m]) \in Job /\ Thrown(media[m]).st \in {"waiting", "failed"}
      BY <1>0, <1>12, ThrownJob DEF AttachProof, MediaAt, Typed, AttemptsLeft
    <3>2. QED
      BY <1>3, <1>12, <2>2, <3>1 DEF AttachProof
  <2>3. QED
    BY <2>1, <2>2
<1>13. CASE ThankForProof(m)
  <2>1. "proof" \in outcome[m] /\ MediaEnds(m, {})
    BY <1>13 DEF ThankForProof, MediaAt, Routed, ProofAttached
  <2>2. Told(outcome[m] \cup {})
    BY <2>1 DEF Told
  <2>3. QED
    BY <1>2, <2>1, <2>2
<1>14. CASE RouteDocument(m)
  <2> DEFINE toAi == ~work[m].filled /\ autoReply
             what == IF work[m].filled THEN {"ack"} ELSE IF toAi THEN {"event"} ELSE {}
  <2>1. what \in SUBSET Outcome /\ MediaEnds(m, what) /\ (autoReply => Told(outcome[m] \cup what))
    BY <1>14 DEF RouteDocument, Outcome, Told
  <2> HIDE DEF what
  <2>2. QED
    BY <1>2, <2>1
<1>15. CASE MediaFails(m)
  <2>1. Thrown(media[m]) \in Job /\ Thrown(media[m]).st \in {"waiting", "failed"}
    BY <1>0, <1>15, ThrownJob DEF MediaFails, Typed, AttemptsLeft
  <2>2. QED
    BY <1>3, <1>15, <2>1 DEF MediaFails
<1>16. CASE CrashMedia(m)
  <2>1. Stalled(media[m]) \in Job /\ Stalled(media[m]).st \in {"waiting", "failed"}
    BY <1>0, StalledJob
  <2>2. QED
    BY <1>3, <1>16, <2>1 DEF CrashMedia
<1>17. QED
  BY <1>6, <1>7, <1>8, <1>9, <1>10, <1>11, <1>12, <1>13, <1>14, <1>15, <1>16 DEF MediaWork

LEMMA RoutedNext == Recorded /\ Routed /\ [Next]_vars => Routed'
<1> SUFFICES ASSUME Recorded, Routed, [Next]_vars PROVE Routed'
  OBVIOUS
<1> USE DEF hookVars, recordVars, clientVars, mediaVars, deskVars
<1>0. Typed
  BY DEF Recorded
<1>1. ASSUME UNCHANGED <<media, work, outcome, autoReply>> PROVE Routed'
  BY <1>1 DEF Routed, DoneMeansRouted, ProofAttached, Handed
<1>2. ASSUME NEW h \in Hooks, Webhook(h) PROVE Routed'
  BY <1>1, <1>2 DEF Webhook, DeliverMeta, DeliverEvolution, EnqueueInbound, HookFails
<1>3. ASSUME NEW w \in Workers, Recording(w) PROVE Routed'
  <2>1. CASE AddMediaJob(w)
    <3>1. PICK m \in Message : m = at[w].msg
      BY <2>1 DEF AddMediaJob, Recorded, SlotsOwnJobs
    <3> DEFINE j == Added(media[m], Queued)
    <3>2. /\ media' = [media EXCEPT ![m] = j] /\ UNCHANGED <<work, outcome, autoReply>>
          /\ media \in [Message -> Job]
      BY <1>0, <2>1, <3>1 DEF AddMediaJob, Typed, TypeOK
    <3>3. j.st = "done" => media[m].st = "done"
      BY <3>2, AddedJob, FreshJobs
    <3> HIDE DEF j
    <3>4. media'[m] = j /\ \A x \in Message : x # m => media'[x] = media[x]
      BY <3>2
    <3>5. QED
      BY <3>2, <3>3, <3>4, InboundParameters
         DEF Routed, DoneMeansRouted, ProofAttached, Handed
  <2>2. CASE ~AddMediaJob(w)
    BY <1>1, <1>3, <2>2 DEF Recording, StartInbound, UpsertClient, CommitRecord,
       FinishInbound, AbortRecord, CrashInbound, Leave
  <2>3. QED
    BY <2>1, <2>2
<1>4. ASSUME NEW m \in Message, TrimInbound(m) PROVE Routed'
  BY <1>1, <1>4 DEF TrimInbound
<1>5. ASSUME NEW m \in Message, MediaWork(m) PROVE Routed'
  BY <1>0, <1>5, RoutedMedia
<1>6. ASSUME Calling \/ Firm PROVE Routed'
  BY <1>1, <1>6 DEF Calling, CallLooks, CallOpens, CallFails, CallEnds,
                    Firm, StaffMoves, FirmRequests, FirmCharges
<1>7. ASSUME UNCHANGED vars PROVE Routed'
  BY <1>1, <1>7 DEF vars
<1>8. QED
  BY <1>2, <1>3, <1>4, <1>5, <1>6, <1>7 DEF Next

(* A completed media job has passed its message on, unless the firm has    *)
(* turned the AI off, or its first look found no row or no connection.     *)
THEOREM CompletedIsRouted == Spec => []DoneMeansRouted
<1>1. Routed => DoneMeansRouted
  BY DEF Routed
<1>2. QED
  BY <1>1, RoutedInit, RoutedNext, RecordedAlways, PTL DEF Spec
=============================================================================
