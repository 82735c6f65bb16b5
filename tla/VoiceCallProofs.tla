-------------------------- MODULE VoiceCallProofs --------------------------
(***************************************************************************)
(* What the voice process never does, for every number of calls, INVITEs,  *)
(* attempts and failures.                                                  *)
(***************************************************************************)
EXTENDS VoiceCall, TLAPS

ConnectSteps == {"ring", "decide", "accept", "claim", "wait", "answer", "greet", "end", "write"}

(* A thread of a job is somewhere exactly while its job is active, and a   *)
(* job that may still run has an attempt left.                             *)
ThreadsFollowJobs ==
    \A k \in Calls :
        /\ \A kind \in Kinds :
              /\ at[k][kind].step # "idle" <=> jobs[k][kind].st = "active"
              /\ jobs[k][kind].st \notin {"done", "failed"} => jobs[k][kind].made < MaxAttempts
        /\ at[k]["connect"].step \in ConnectSteps \cup {"idle", "finish"}
        /\ at[k]["terminate"].step \in {"idle", "take", "end", "write", "finish"}
        /\ at[k]["loop"].step \in {"idle", "talking", "acting", "take", "end", "write"}

Typed == TypeOK /\ ThreadsFollowJobs

(* What it means that one thread, or one job, changes.                     *)
ThreadOnly(k, th) ==
    /\ at' \in [Calls -> [Threads -> Thread]]
    /\ \A x \in Calls, y \in Threads : x # k \/ y # th => at'[x][y] = at[x][y]

JobOnly(k, kind) ==
    /\ jobs' \in [Calls -> [Kinds -> Job]]
    /\ \A x \in Calls, y \in Kinds : x # k \/ y # kind => jobs'[x][y] = jobs[x][y]

LEMMA ThreadSet ==
  ASSUME NEW k \in Calls, NEW th \in Threads, NEW r \in Thread,
         at \in [Calls -> [Threads -> Thread]], at' = [at EXCEPT ![k][th] = r]
  PROVE  ThreadOnly(k, th) /\ at'[k][th] = r
BY DEF ThreadOnly

LEMMA ThreadGoes ==
  ASSUME NEW k \in Calls, NEW th \in Threads, NEW s \in Step,
         at \in [Calls -> [Threads -> Thread]], Goes(k, th, s)
  PROVE  /\ ThreadOnly(k, th) /\ at'[k][th].step = s
         /\ at'[k][th].how = at[k][th].how /\ at'[k][th].says = at[k][th].says
<1> DEFINE r == [at[k][th] EXCEPT !.step = s]
<1>1. at[k][th] \in Thread
  OBVIOUS
<1>2. /\ r \in Thread /\ r.step = s
      /\ r.how = at[k][th].how /\ r.says = at[k][th].says
  BY <1>1 DEF Thread
<1>3. at' = [at EXCEPT ![k][th] = r]
  BY DEF Goes
<1> HIDE DEF r
<1>4. ThreadOnly(k, th) /\ at'[k][th] = r
  BY <1>2, <1>3, ThreadSet
<1>5. QED
  BY <1>2, <1>4

LEMMA ThreadEnds ==
  ASSUME NEW k \in Calls, NEW th \in Threads, NEW how \in Ended, NEW says \in Disposition,
         at \in [Calls -> [Threads -> Thread]], Ends(k, th, how, says)
  PROVE  /\ ThreadOnly(k, th) /\ at'[k][th].step = "end"
         /\ at'[k][th].how = how /\ at'[k][th].says = says
<1> DEFINE r == [step |-> "end", how |-> how, says |-> says]
<1>1. r \in Thread /\ r.step = "end" /\ r.how = how /\ r.says = says
  BY DEF Thread, Step
<1>2. at' = [at EXCEPT ![k][th] = r]
  BY DEF Ends
<1> HIDE DEF r
<1>3. QED
  BY <1>1, <1>2, ThreadSet

LEMMA TalkBegins ==
  ASSUME NEW k \in Calls, at \in [Calls -> [Threads -> Thread]], BeginTalk(k)
  PROVE  /\ at' \in [Calls -> [Threads -> Thread]]
         /\ \A x \in Calls, y \in Threads :
                x # k \/ y \notin {"connect", "loop"} => at'[x][y] = at[x][y]
         /\ at'[k]["connect"].step = "finish" /\ at'[k]["loop"].step = "talking"
<1> DEFINE c == [at[k]["connect"] EXCEPT !.step = "finish"]
           l == [at[k]["loop"] EXCEPT !.step = "talking"]
<1>1. at[k]["connect"] \in Thread /\ at[k]["loop"] \in Thread /\ "connect" \in Threads
      /\ "loop" \in Threads
  BY DEF Threads, Kinds
<1>2. c \in Thread /\ c.step = "finish" /\ l \in Thread /\ l.step = "talking"
  BY <1>1 DEF Thread, Step
<1>3. at' = [at EXCEPT ![k] = [at[k] EXCEPT !["connect"] = c, !["loop"] = l]]
  BY <1>1 DEF BeginTalk
<1> HIDE DEF c, l
<1>4. QED
  BY <1>1, <1>2, <1>3

LEMMA IdleThread == Idle \in Thread /\ Idle.step = "idle"
BY DEF Idle, Thread, Step, Disposition

LEMMA JobSet ==
  ASSUME NEW k \in Calls, NEW kind \in Kinds, NEW j \in Job,
         jobs \in [Calls -> [Kinds -> Job]], jobs' = [jobs EXCEPT ![k][kind] = j]
  PROVE  JobOnly(k, kind) /\ jobs'[k][kind] = j
BY DEF JobOnly

LEMMA JobMoved ==
  ASSUME NEW k \in Calls, NEW kind \in Kinds,
         NEW st \in {"none", "waiting", "active", "done", "failed"},
         jobs \in [Calls -> [Kinds -> Job]], jobs' = [jobs EXCEPT ![k][kind].st = st]
  PROVE  /\ JobOnly(k, kind) /\ jobs'[k][kind].st = st
         /\ jobs'[k][kind].made = jobs[k][kind].made
         /\ jobs'[k][kind].stalls = jobs[k][kind].stalls
<1> DEFINE j == [jobs[k][kind] EXCEPT !.st = st]
<1>1. jobs[k][kind] \in Job
  OBVIOUS
<1>2. /\ j \in Job /\ j.st = st
      /\ j.made = jobs[k][kind].made /\ j.stalls = jobs[k][kind].stalls
  BY <1>1 DEF Job
<1>3. jobs' = [jobs EXCEPT ![k][kind] = j]
  OBVIOUS
<1> HIDE DEF j
<1>4. j \in Job
  BY <1>2
<1>5. JobOnly(k, kind) /\ jobs'[k][kind] = j
  BY <1>3, <1>4 DEF JobOnly
<1>6. QED
  BY <1>2, <1>5

(* What a failed attempt and a dead process make of a job.                 *)
LEMMA ThrownJob ==
  ASSUME NEW j \in Job, j.made < MaxAttempts
  PROVE  /\ Thrown(j) \in Job /\ Thrown(j).st \in {"waiting", "failed"}
         /\ Thrown(j).st = "waiting" => Thrown(j).made < MaxAttempts
         /\ Thrown(j).stalls = j.stalls
<1> DEFINE st == IF j.made + 1 < MaxAttempts THEN "waiting" ELSE "failed"
           t == [st |-> st, made |-> j.made + 1, stalls |-> j.stalls]
<1>1. j.made \in 0..MaxAttempts /\ j.stalls \in 0..1
  BY DEF Job
<1>2. j.made + 1 \in 0..MaxAttempts /\ (j.made + 1 < MaxAttempts \/ st = "failed")
  BY <1>1, VoiceParameters
<1>3. st \in {"waiting", "failed"}
  OBVIOUS
<1>4. Thrown(j) = t
  BY DEF Thrown, Job
<1> HIDE DEF st
<1>5. t \in Job
  BY <1>1, <1>2, <1>3 DEF Job
<1>6. t.st = st /\ t.made = j.made + 1 /\ t.stalls = j.stalls
  OBVIOUS
<1> HIDE DEF t
<1>7. QED
  BY <1>2, <1>3, <1>4, <1>5, <1>6

LEMMA StalledJob ==
  ASSUME NEW j \in Job
  PROVE  /\ Stalled(j) \in Job /\ Stalled(j).st # "active" /\ Stalled(j).made = j.made
         /\ Stalled(j).stalls >= j.stalls
         /\ j.st # "active" => Stalled(j) = j
         /\ Stalled(j).st \notin {"done", "failed"} => j.st \notin {"done", "failed"}
         /\ j.st = "active" => /\ Stalled(j).stalls = 1 /\ Stalled(j).st # "none"
                               /\ Stalled(j).st = "waiting" => j.stalls = 0
<1>1. CASE j.st # "active"
  BY <1>1 DEF Stalled, Job
<1>2. CASE j.st = "active"
  <2> DEFINE st == IF j.stalls = 0 THEN "waiting" ELSE "failed"
             t == [st |-> st, made |-> j.made, stalls |-> 1]
  <2>1. j.made \in 0..MaxAttempts /\ j.stalls \in 0..1
    BY DEF Job
  <2>2. t \in Job /\ t.st = st /\ t.made = j.made /\ t.stalls = 1
    BY <2>1 DEF Job
  <2>3. Stalled(j) = t
    BY <1>2 DEF Stalled, Job
  <2> HIDE DEF t
  <2>4. QED
    BY <1>2, <2>1, <2>2, <2>3
<1>3. QED
  BY <1>1, <1>2

(* Before the first call.                                                  *)
LEMMA TypedInit == Init => Typed
<1> SUFFICES ASSUME Init PROVE Typed
  OBVIOUS
<1>1. \A k \in Calls : /\ \A th \in Threads : at[k][th] = Idle
                       /\ \A kind \in Kinds : jobs[k][kind] = NoJob
  BY DEF Init
<1>2. NoJob \in Job /\ NoJob.st = "none" /\ NoJob.made = 0 /\ Idle \in Thread
  BY VoiceParameters, IdleThread DEF NoJob, Job
<1>3. TypeOK
  BY <1>2, VoiceParameters, ParkParameters
     DEF Init, TypeOK, ParkInit, ParkTypeOK, Disposition
<1>4. ThreadsFollowJobs
  BY <1>1, <1>2, IdleThread, VoiceParameters DEF ThreadsFollowJobs, Kinds, Threads
<1>5. QED
  BY <1>3, <1>4 DEF Typed

(* One job and the thread that runs it.                                    *)
LEMMA TypedJob ==
  ASSUME Typed, NEW k \in Calls, NEW kind \in Kinds
  PROVE  /\ CallWebhook(k, kind) => Typed'
         /\ StartJob(k, kind) => Typed'
         /\ FinishJob(k, kind) => Typed'
         /\ JobThrows(k, kind) => Typed'
<1> USE VoiceParameters, ParkParameters DEF lineVars, rowVars, talkVars, parkVars
<1>0. /\ at \in [Calls -> [Threads -> Thread]] /\ jobs \in [Calls -> [Kinds -> Job]]
      /\ kind \in Threads
  BY DEF Typed, TypeOK, Threads
<1>a. jobs[k][kind] \in Job
  BY <1>0
<1>1. ASSUME CallWebhook(k, kind) PROVE Typed'
  <2>1. /\ JobOnly(k, kind) /\ jobs'[k][kind].st = "waiting"
        /\ jobs'[k][kind].made = jobs[k][kind].made
    BY <1>0, <1>1, JobMoved DEF CallWebhook
  <2>2. jobs[k][kind].st = "none"
    BY <1>1 DEF CallWebhook, NoJob
  <2>3. TypeOK'
    BY <1>1, <2>1 DEF CallWebhook, Typed, TypeOK, ParkTypeOK, JobOnly
  <2>4. ThreadsFollowJobs'
    BY <1>1, <2>1, <2>2 DEF CallWebhook, Typed, ThreadsFollowJobs, JobOnly
  <2>5. QED
    BY <2>3, <2>4 DEF Typed
<1>2. ASSUME StartJob(k, kind) PROVE Typed'
  <2> DEFINE s == IF kind = "connect" THEN "ring" ELSE "take"
  <2>1. /\ JobOnly(k, kind) /\ jobs'[k][kind].st = "active"
        /\ jobs'[k][kind].made = jobs[k][kind].made
    BY <1>0, <1>2, JobMoved DEF StartJob
  <2>2. ThreadOnly(k, kind) /\ at'[k][kind].step = s
    BY <1>0, <1>2, ThreadGoes DEF StartJob, Step
  <2>3. jobs[k][kind].st = "waiting"
    BY <1>2 DEF StartJob
  <2>4. TypeOK'
    BY <1>2, <2>1, <2>2 DEF StartJob, Typed, TypeOK, ParkTypeOK, JobOnly, ThreadOnly
  <2>5. ThreadsFollowJobs'
    BY <1>2, <2>1, <2>2, <2>3
       DEF Typed, ThreadsFollowJobs, JobOnly, ThreadOnly, ConnectSteps, Kinds, Threads
  <2>6. QED
    BY <2>4, <2>5 DEF Typed
<1>3. ASSUME FinishJob(k, kind) PROVE Typed'
  <2>1. /\ JobOnly(k, kind) /\ jobs'[k][kind].st = "done"
    BY <1>0, <1>3, JobMoved DEF FinishJob
  <2>2. ThreadOnly(k, kind) /\ at'[k][kind] = Idle
    BY <1>0, <1>3, ThreadSet, IdleThread DEF FinishJob
  <2>3. TypeOK'
    BY <1>3, <2>1, <2>2 DEF FinishJob, Typed, TypeOK, ParkTypeOK, JobOnly, ThreadOnly
  <2>4. ThreadsFollowJobs'
    BY <2>1, <2>2, IdleThread
       DEF Typed, ThreadsFollowJobs, JobOnly, ThreadOnly, ConnectSteps, Kinds, Threads
  <2>5. QED
    BY <2>3, <2>4 DEF Typed
<1>4. ASSUME JobThrows(k, kind) PROVE Typed'
  <2>1. jobs[k][kind].st = "active" /\ jobs[k][kind].made < MaxAttempts
    BY <1>4 DEF JobThrows, Typed, ThreadsFollowJobs
  <2> DEFINE j == Thrown(jobs[k][kind])
  <2>2. /\ j \in Job /\ j.st \in {"waiting", "failed"}
        /\ j.st = "waiting" => j.made < MaxAttempts
    BY <1>a, <2>1, ThrownJob
  <2>3. jobs' = [jobs EXCEPT ![k][kind] = j]
    BY <1>4 DEF JobThrows
  <2> HIDE DEF j
  <2>4. JobOnly(k, kind) /\ jobs'[k][kind] = j
    BY <1>0, <2>2, <2>3 DEF JobOnly
  <2>5. ThreadOnly(k, kind) /\ at'[k][kind] = Idle
    BY <1>0, <1>4, ThreadSet, IdleThread DEF JobThrows
  <2>6. TypeOK'
    BY <1>4, <2>4, <2>5
       DEF JobThrows, Fault, Moves, DropDialogs, Typed, TypeOK, ParkTypeOK, JobOnly, ThreadOnly
  <2>7. ThreadsFollowJobs'
    BY <2>2, <2>4, <2>5, IdleThread
       DEF Typed, ThreadsFollowJobs, JobOnly, ThreadOnly, ConnectSteps, Kinds, Threads
  <2>8. QED
    BY <2>6, <2>7 DEF Typed
<1>5. QED
  BY <1>1, <1>2, <1>3, <1>4

(* One thread takes a step while its job, if it has one, stays active.     *)
StepsOf(th) ==
    IF th = "connect" THEN ConnectSteps \cup {"finish"}
    ELSE IF th = "terminate" THEN {"take", "end", "write", "finish"}
    ELSE {"idle", "talking", "acting", "take", "end", "write"}

LEMMA ThreadMoves ==
  ASSUME Typed, jobs' = jobs, NEW k \in Calls, NEW th \in Threads, ThreadOnly(k, th),
         at[k][th].step # "idle", at'[k][th].step \in StepsOf(th)
  PROVE  ThreadsFollowJobs'
BY DEF Typed, ThreadsFollowJobs, ThreadOnly, StepsOf, ConnectSteps, Kinds, Threads

(* The connect job up to the call that talks.                              *)
LEMMA TypedConnecting ==
  ASSUME Typed, NEW k \in Calls
  PROVE  /\ Connecting(k) => Typed'
         /\ AcceptRefused(k) => Typed'
         /\ PickUpFails(k) => Typed'
<1> USE VoiceParameters, ParkParameters DEF lineVars, rowVars, talkVars, parkVars
<1>0. at \in [Calls -> [Threads -> Thread]] /\ "connect" \in Threads /\ "loop" \in Threads
  BY DEF Typed, TypeOK, Threads, Kinds
<1>1. ASSUME StartRinging(k) PROVE Typed'
  <2>1. ThreadOnly(k, "connect") /\ at'[k]["connect"].step = "decide"
    BY <1>0, <1>1, ThreadGoes DEF StartRinging, Step
  <2>2. TypeOK'
    BY <1>1, <2>1 DEF StartRinging, Typed, TypeOK, ParkTypeOK, ThreadOnly
  <2>3. QED
    BY <1>0, <1>1, <2>1, <2>2, ThreadMoves DEF StartRinging, Typed, StepsOf, ConnectSteps
<1>2. ASSUME NEW answers \in BOOLEAN, Decide(k, answers) PROVE Typed'
  <2>1. ThreadOnly(k, "connect") /\ at'[k]["connect"].step \in {"accept", "claim", "end"}
    <3>1. CASE answers
      BY <1>0, <1>2, <3>1, ThreadGoes DEF Decide, Step
    <3>2. CASE ~answers
      BY <1>0, <1>2, <3>2, ThreadEnds DEF Decide, Ended, Disposition
    <3>3. QED
      BY <3>1, <3>2
  <2>2. TypeOK'
    BY <1>2, <2>1 DEF Decide, Typed, TypeOK, ParkTypeOK, ThreadOnly
  <2>3. QED
    BY <1>0, <1>2, <2>1, <2>2, ThreadMoves DEF Decide, Typed, StepsOf, ConnectSteps
<1>3. ASSUME \E live \in BOOLEAN : AcceptCloud(k, live) PROVE Typed'
  <2>1. ThreadOnly(k, "connect") /\ at'[k]["connect"].step = "answer"
    BY <1>0, <1>3, ThreadGoes DEF AcceptCloud, Step
  <2>2. TypeOK'
    BY <1>3, <2>1 DEF AcceptCloud, Typed, TypeOK, ParkTypeOK, ThreadOnly
  <2>3. QED
    BY <1>0, <1>3, <2>1, <2>2, ThreadMoves DEF AcceptCloud, Typed, StepsOf, ConnectSteps
<1>4. ASSUME ClaimInvite(k) PROVE Typed'
  <2>1. ThreadOnly(k, "connect") /\ at'[k]["connect"].step = "wait"
    BY <1>0, <1>4, ThreadGoes DEF ClaimInvite, Step
  <2>2. ParkTypeOK'
    BY <1>4 DEF ClaimInvite, Claim, Parked, Typed, TypeOK, ParkTypeOK
  <2>3. TypeOK'
    BY <1>4, <2>1, <2>2 DEF ClaimInvite, Typed, TypeOK, ThreadOnly
  <2>4. QED
    BY <1>0, <1>4, <2>1, <2>3, ThreadMoves DEF ClaimInvite, Typed, StepsOf, ConnectSteps
<1>5. ASSUME NoInvite(k) PROVE Typed'
  <2>1. ThreadOnly(k, "connect") /\ at'[k]["connect"].step = "end"
    BY <1>0, <1>5, ThreadEnds DEF NoInvite, FollowUp, Ended, Disposition
  <2>2. TypeOK'
    BY <1>5, <2>1 DEF NoInvite, Typed, TypeOK, ParkTypeOK, ThreadOnly
  <2>3. QED
    BY <1>0, <1>5, <2>1, <2>2, ThreadMoves DEF NoInvite, Typed, StepsOf, ConnectSteps
<1>6. ASSUME PickUp(k) PROVE Typed'
  <2>1. ThreadOnly(k, "connect") /\ at'[k]["connect"].step = "answer"
    BY <1>0, <1>6, ThreadGoes DEF PickUp, Step
  <2>2. TypeOK'
    BY <1>6, <2>1 DEF PickUp, Typed, TypeOK, ParkTypeOK, ThreadOnly
  <2>3. QED
    BY <1>0, <1>6, <2>1, <2>2, ThreadMoves DEF PickUp, Typed, StepsOf, ConnectSteps
<1>7. ASSUME MarkAnswered(k) PROVE Typed'
  <2>1. ThreadOnly(k, "connect") /\ at'[k]["connect"].step = "greet"
    BY <1>0, <1>7, ThreadGoes DEF MarkAnswered, Step
  <2>2. TypeOK'
    BY <1>7, <2>1 DEF MarkAnswered, Typed, TypeOK, ParkTypeOK, ThreadOnly
  <2>3. QED
    BY <1>0, <1>7, <2>1, <2>2, ThreadMoves DEF MarkAnswered, Typed, StepsOf, ConnectSteps
<1>8. ASSUME BeginTalk(k) PROVE Typed'
  <2>1. /\ at' \in [Calls -> [Threads -> Thread]]
        /\ \A x \in Calls, y \in Threads : x # k \/ y \notin {"connect", "loop"} => at'[x][y] = at[x][y]
        /\ at'[k]["connect"].step = "finish" /\ at'[k]["loop"].step = "talking"
    BY <1>0, <1>8, TalkBegins
  <2>2. TypeOK'
    BY <1>8, <2>1 DEF BeginTalk, Typed, TypeOK, ParkTypeOK, Disposition
  <2>3. ThreadsFollowJobs'
    BY <1>0, <1>8, <2>1 DEF BeginTalk, Typed, ThreadsFollowJobs, ConnectSteps, Kinds, Threads
  <2>4. QED
    BY <2>2, <2>3 DEF Typed
<1>9. ASSUME AcceptRefused(k) PROVE Typed'
  <2>1. ThreadOnly(k, "connect") /\ at'[k]["connect"].step = "end"
    BY <1>0, <1>9, ThreadEnds DEF AcceptRefused, Ended, Disposition
  <2>2. TypeOK'
    BY <1>9, <2>1 DEF AcceptRefused, Fault, Moves, Typed, TypeOK, ParkTypeOK, ThreadOnly
  <2>3. QED
    BY <1>0, <1>9, <2>1, <2>2, ThreadMoves DEF AcceptRefused, Typed, StepsOf, ConnectSteps
<1>10. ASSUME PickUpFails(k) PROVE Typed'
  <2>1. ThreadOnly(k, "connect") /\ at'[k]["connect"].step = "end"
    BY <1>0, <1>10, ThreadEnds DEF PickUpFails, FollowUp, Ended, Disposition
  <2>2. TypeOK'
    BY <1>10, <2>1
       DEF PickUpFails, DropDialogs, Fault, Moves, Typed, TypeOK, ParkTypeOK, ThreadOnly
  <2>3. QED
    BY <1>0, <1>10, <2>1, <2>2, ThreadMoves DEF PickUpFails, Typed, StepsOf, ConnectSteps
<1>11. QED
  BY <1>1, <1>2, <1>3, <1>4, <1>5, <1>6, <1>7, <1>8, <1>9, <1>10 DEF Connecting

(* The media loop.                                                         *)
LEMMA TypedTalking ==
  ASSUME Typed, NEW k \in Calls
  PROVE  /\ CallerHangsUp(k) => Typed'
         /\ \A deed \in Deeds : Utterance(k, deed) => Typed'
         /\ Talking(k) => Typed'
         /\ CallLimit(k) => Typed'
         /\ LoopThrows(k) => Typed'
<1> USE VoiceParameters, ParkParameters DEF lineVars, rowVars, talkVars, parkVars
<1>0. at \in [Calls -> [Threads -> Thread]] /\ "loop" \in Threads
  BY DEF Typed, TypeOK, Threads, Kinds
<1>1. ASSUME CallerHangsUp(k) PROVE Typed'
  <2>1. TypeOK'
    BY <1>1 DEF CallerHangsUp, Moves, Typed, TypeOK, ParkTypeOK
  <2>2. ThreadsFollowJobs'
    BY <1>1 DEF CallerHangsUp, Typed, ThreadsFollowJobs
  <2>3. QED
    BY <2>1, <2>2 DEF Typed
<1>2. ASSUME NEW deed \in Deeds, Utterance(k, deed) PROVE Typed'
  <2> DEFINE r == [step |-> "acting", how |-> "none", says |-> deed]
  <2>2. r \in Thread /\ r.step = "acting"
    BY DEF Thread, Step, Disposition
  <2>3. at' = [at EXCEPT ![k]["loop"] = r]
    BY <1>2 DEF Utterance
  <2> HIDE DEF r
  <2>4. ThreadOnly(k, "loop") /\ at'[k]["loop"].step = "acting"
    BY <1>0, <2>2, <2>3, ThreadSet
  <2>5. TypeOK'
    BY <1>2, <2>4 DEF Utterance, Moves, Typed, TypeOK, ParkTypeOK, ThreadOnly
  <2>6. QED
    BY <1>0, <1>2, <2>4, <2>5, ThreadMoves DEF Utterance, Typed, StepsOf
<1>3. ASSUME NEW next \in {"talking", "take"}, Act(k, next) PROVE Typed'
  <2>1. ThreadOnly(k, "loop") /\ at'[k]["loop"].step = next
    BY <1>0, <1>3, ThreadGoes DEF Act, Step
  <2>2. at[k]["loop"].says \in Disposition
    BY <1>0 DEF Thread
  <2>3. TypeOK'
    BY <1>3, <2>1, <2>2 DEF Act, Typed, TypeOK, ParkTypeOK, ThreadOnly
  <2>4. QED
    BY <1>0, <1>3, <2>1, <2>3, ThreadMoves DEF Act, Typed, StepsOf
<1>4. ASSUME ActFails(k) PROVE Typed'
  <2>1. ThreadOnly(k, "loop") /\ at'[k]["loop"].step = "talking"
    BY <1>0, <1>4, ThreadGoes DEF ActFails, Step
  <2>2. TypeOK'
    BY <1>4, <2>1 DEF ActFails, Typed, TypeOK, ParkTypeOK, ThreadOnly
  <2>3. QED
    BY <1>0, <1>4, <2>1, <2>2, ThreadMoves DEF ActFails, Typed, StepsOf
<1>5. ASSUME LineCloses(k) PROVE Typed'
  <2>1. ThreadOnly(k, "loop") /\ at'[k]["loop"].step = "idle"
    BY <1>0, <1>5, ThreadSet, IdleThread DEF LineCloses
  <2>2. TypeOK'
    BY <1>5, <2>1 DEF LineCloses, Typed, TypeOK, ParkTypeOK, ThreadOnly
  <2>3. QED
    BY <1>0, <1>5, <2>1, <2>2, ThreadMoves DEF LineCloses, Typed, StepsOf
<1>6. ASSUME CallLimit(k) PROVE Typed'
  <2>1. ThreadOnly(k, "loop") /\ at'[k]["loop"].step = "take"
    BY <1>0, <1>6, ThreadGoes DEF CallLimit, Step
  <2>2. TypeOK'
    BY <1>6, <2>1 DEF CallLimit, Typed, TypeOK, ParkTypeOK, ThreadOnly
  <2>3. QED
    BY <1>0, <1>6, <2>1, <2>2, ThreadMoves DEF CallLimit, Typed, StepsOf
<1>7. ASSUME LoopThrows(k) PROVE Typed'
  <2>1. ThreadOnly(k, "loop") /\ at'[k]["loop"].step = "idle"
    BY <1>0, <1>7, ThreadSet, IdleThread DEF LoopThrows
  <2>2. TypeOK'
    BY <1>7, <2>1 DEF LoopThrows, Fault, Moves, Typed, TypeOK, ParkTypeOK, ThreadOnly
  <2>3. QED
    BY <1>0, <1>7, <2>1, <2>2, ThreadMoves DEF LoopThrows, Typed, StepsOf
<1>8. QED
  BY <1>1, <1>2, <1>3, <1>4, <1>5, <1>6, <1>7 DEF Talking

LEMMA ThreadAfter ==
  ASSUME NEW k \in Calls, NEW th \in Threads
  PROVE  After(k, th) \in Thread /\ After(k, th).step = IF th = "loop" THEN "idle" ELSE "finish"
<1>1. [Idle EXCEPT !.step = "finish"] = [step |-> "finish", how |-> "none", says |-> "none"]
  BY DEF Idle
<1>2. QED
  BY <1>1, IdleThread DEF After, Thread, Step, Disposition

(* What ReadCall does to the thread that read.                             *)
LEMMA CallRead ==
  ASSUME Typed, NEW k \in Calls, NEW th \in Threads, ReadCall(k, th)
  PROVE  /\ ThreadOnly(k, th)
         /\ IF call[k] \in {"COMPLETED", "REJECTED"} THEN at'[k][th] = After(k, th)
            ELSE /\ at'[k][th].step = "write" /\ at'[k][th].how = at[k][th].how
                 /\ at'[k][th].says = at[k][th].says
<1>0. at \in [Calls -> [Threads -> Thread]]
  BY DEF Typed, TypeOK
<1>1. CASE call[k] \in {"COMPLETED", "REJECTED"}
  BY <1>0, <1>1, ThreadSet, ThreadAfter DEF ReadCall
<1>2. CASE call[k] \notin {"COMPLETED", "REJECTED"}
  <2> DEFINE r == [at[k][th] EXCEPT !.step = "write"]
  <2>1. at[k][th] \in Thread
    BY <1>0
  <2>2. r \in Thread /\ r.step = "write" /\ r.how = at[k][th].how /\ r.says = at[k][th].says
    BY <2>1 DEF Thread, Step
  <2>3. at' = [at EXCEPT ![k][th] = r]
    BY <1>2 DEF ReadCall
  <2> HIDE DEF r
  <2>4. ThreadOnly(k, th) /\ at'[k][th] = r
    BY <1>0, <2>2, <2>3, ThreadSet
  <2>5. QED
    BY <1>2, <2>2, <2>4
<1>3. QED
  BY <1>1, <1>2

(* The end of a call.                                                      *)
LEMMA TypedCompleting ==
  ASSUME Typed, NEW k \in Calls, NEW th \in Threads, Completing(k, th)
  PROVE  Typed'
<1> USE VoiceParameters, ParkParameters DEF lineVars, rowVars, talkVars, parkVars
<1>0. /\ at \in [Calls -> [Threads -> Thread]]
      /\ th = "connect" => at[k][th].step # "take"
  BY DEF Typed, TypeOK, ThreadsFollowJobs, ConnectSteps
<1>1. ASSUME TakeSession(k, th) PROVE Typed'
  <2>1. /\ ThreadOnly(k, th)
        /\ at'[k][th].step \in {"end"} \cup (IF th = "loop" THEN {"idle"} ELSE {"finish"})
    <3>1. CASE k \in session
      <4>1. mood[k] \in Disposition
        BY DEF Typed, TypeOK
      <4>2. QED
        BY <1>0, <1>1, <3>1, <4>1, ThreadEnds DEF TakeSession, Ended
    <3>2. CASE k \notin session /\ th = "loop"
      BY <1>0, <1>1, <3>2, ThreadSet, IdleThread DEF TakeSession
    <3>3. CASE k \notin session /\ th # "loop"
      BY <1>0, <1>1, <3>3, ThreadGoes DEF TakeSession, Step
    <3>4. QED
      BY <3>1, <3>2, <3>3
  <2>2. TypeOK'
    BY <1>1, <2>1 DEF TakeSession, Typed, TypeOK, ParkTypeOK, ThreadOnly
  <2>3. jobs' = jobs /\ at[k][th].step = "take"
    BY <1>1 DEF TakeSession
  <2>4. QED
    BY <1>0, <2>1, <2>2, <2>3, ThreadMoves DEF Typed, StepsOf, Threads, Kinds
<1>2. ASSUME ReadCall(k, th) PROVE Typed'
  <2>1. /\ ThreadOnly(k, th)
        /\ at'[k][th].step \in {"write"} \cup (IF th = "loop" THEN {"idle"} ELSE {"finish"})
    BY <1>2, CallRead, ThreadAfter
  <2>2. TypeOK'
    BY <1>2, <2>1 DEF ReadCall, Typed, TypeOK, ParkTypeOK, ThreadOnly
  <2>3. jobs' = jobs /\ at[k][th].step = "end"
    BY <1>2 DEF ReadCall
  <2>4. QED
    BY <1>0, <2>1, <2>2, <2>3, ThreadMoves DEF Typed, StepsOf, ConnectSteps, Threads, Kinds
<1>3. ASSUME WriteOutcome(k, th) PROVE Typed'
  <2>1. ThreadOnly(k, th) /\ at'[k][th].step = IF th = "loop" THEN "idle" ELSE "finish"
    BY <1>0, <1>3, ThreadSet, ThreadAfter DEF WriteOutcome
  <2>2. at[k][th].how \in Ended \cup {"none"} /\ at[k][th].says \in Disposition
    BY <1>0 DEF Thread
  <2>3. TypeOK'
    BY <1>3, <2>1, <2>2 DEF WriteOutcome, Typed, TypeOK, ParkTypeOK, ThreadOnly
  <2>4. jobs' = jobs /\ at[k][th].step = "write"
    BY <1>3 DEF WriteOutcome
  <2>5. QED
    BY <1>0, <2>1, <2>3, <2>4, ThreadMoves DEF Typed, StepsOf, Threads, Kinds
<1>4. QED
  BY <1>1, <1>2, <1>3 DEF Completing

(* The rest of the process and its death.                                  *)
LEMMA TypedRest ==
  ASSUME Typed
  PROVE  /\ InviteSteps => Typed'
         /\ Crash => Typed'
         /\ UNCHANGED vars => Typed'
<1> USE VoiceParameters, ParkParameters DEF lineVars, rowVars, talkVars, parkVars
<1>1. ASSUME InviteSteps PROVE Typed'
  <2>1. ParkTypeOK'
    <3>0. ParkTypeOK
      BY DEF Typed, TypeOK
    <3>1. ASSUME NEW i \in Invites, Park(i) PROVE ParkTypeOK'
      BY <3>0, <3>1 DEF Park, ParkTypeOK
    <3>2. ASSUME NEW i \in Invites, LeavePark(i) PROVE ParkTypeOK'
      BY <3>0, <3>2 DEF LeavePark, ParkTypeOK
    <3>3. ASSUME NEW k \in Callers, ClaimTimesOut(k) PROVE ParkTypeOK'
      BY <3>0, <3>3 DEF ClaimTimesOut, ParkTypeOK
    <3>4. ASSUME NEW k \in Callers, Claim(k) PROVE ParkTypeOK'
      BY <3>0, <3>4 DEF Claim, Parked, ParkTypeOK
    <3>5. QED
      BY <1>1, <3>1, <3>2, <3>3, <3>4 DEF InviteSteps
  <2>2. TypeOK' /\ ThreadsFollowJobs'
    BY <1>1, <2>1 DEF InviteSteps, Typed, TypeOK, ThreadsFollowJobs
  <2>3. QED
    BY <2>2 DEF Typed
<1>2. ASSUME Crash PROVE Typed'
  <2>0. jobs \in [Calls -> [Kinds -> Job]]
    BY DEF Typed, TypeOK
  <2>1. \A k \in Calls, kind \in Kinds : jobs[k][kind] \in Job
    BY <2>0
  <2>2. /\ jobs' \in [Calls -> [Kinds -> Job]]
        /\ \A k \in Calls, kind \in Kinds : jobs'[k][kind] = Stalled(jobs[k][kind])
    <3>1. jobs' = [k \in Calls |-> [kind \in Kinds |-> Stalled(jobs[k][kind])]]
      BY <1>2 DEF Crash
    <3>2. \A k \in Calls, kind \in Kinds : Stalled(jobs[k][kind]) \in Job
      BY <2>1, StalledJob
    <3>3. QED
      BY <3>1, <3>2
  <2>3. /\ at' \in [Calls -> [Threads -> Thread]]
        /\ \A k \in Calls, th \in Threads : at'[k][th] = Idle
    BY <1>2, IdleThread DEF Crash
  <2>4. ParkTypeOK'
    BY <1>2 DEF Crash, ParkLost, Typed, TypeOK, ParkTypeOK
  <2>5. TypeOK'
    BY <1>2, <2>2, <2>3, <2>4 DEF Crash, Fault, Moves, Typed, TypeOK
  <2>6. \A k \in Calls, kind \in Kinds :
           /\ jobs'[k][kind].st # "active"
           /\ jobs'[k][kind].st \notin {"done", "failed"} => jobs'[k][kind].made < MaxAttempts
    <3> SUFFICES ASSUME NEW k \in Calls, NEW kind \in Kinds
                 PROVE  /\ jobs'[k][kind].st # "active"
                        /\ jobs'[k][kind].st \notin {"done", "failed"}
                              => jobs'[k][kind].made < MaxAttempts
      OBVIOUS
    <3>1. /\ jobs[k][kind].st \notin {"done", "failed"} => jobs[k][kind].made < MaxAttempts
          /\ jobs[k][kind] \in Job
      BY <2>1 DEF Typed, ThreadsFollowJobs
    <3>2. QED
      BY <2>2, <3>1, StalledJob
  <2>7. ThreadsFollowJobs'
    BY <2>3, <2>6, IdleThread DEF ThreadsFollowJobs, Kinds, Threads
  <2>8. QED
    BY <2>5, <2>7 DEF Typed
<1>3. ASSUME UNCHANGED vars PROVE Typed'
  BY <1>3 DEF vars, Typed, TypeOK, ParkTypeOK, ThreadsFollowJobs
<1>4. QED
  BY <1>1, <1>2, <1>3

LEMMA TypedNext == Typed /\ [Next]_vars => Typed'
<1> SUFFICES ASSUME Typed, [Next]_vars PROVE Typed'
  OBVIOUS
<1>1. ASSUME NEW k \in Calls, CallNext(k) PROVE Typed'
  BY <1>1, TypedJob, TypedConnecting, TypedTalking, TypedCompleting DEF CallNext
<1>2. QED
  BY <1>1, TypedRest DEF Next

(* Every variable of the voice process holds what the code could store.    *)
THEOREM Typing == Spec => []TypeOK
<1>1. Typed => TypeOK
  BY DEF Typed
<1>2. Spec => []Typed
  BY TypedInit, TypedNext, PTL DEF Spec
<1>3. QED
  BY <1>1, <1>2, PTL

-----------------------------------------------------------------------------
(* The park.  A waiter never has an INVITE, so whoever is handed one had   *)
(* none; and both sides look at the other before they lie down.            *)
ParkSafe == ParkTypeOK /\ OneInvitePerCaller /\ NoMatchWaits

LEMMA ParkKeepsSafe ==
  ASSUME ParkSafe
  PROVE  /\ \A i \in Invites : Park(i) \/ LeavePark(i) => ParkSafe'
         /\ \A k \in Callers : Claim(k) \/ ClaimTimesOut(k) => ParkSafe'
         /\ \A k \in Callers : DropDialogs(k) /\ UNCHANGED waiters => ParkSafe'
         /\ ParkLost => ParkSafe'
         /\ UNCHANGED parkVars => ParkSafe'
<1> USE ParkParameters DEF ParkSafe, ParkTypeOK
<1>1. ASSUME NEW i \in Invites, Park(i) PROVE ParkSafe'
  <2>1. CASE invite' = [invite EXCEPT ![i] = "parked"] /\ UNCHANGED waiters
             /\ {k \in waiters : <<k, i>> \in Matches} = {}
    <3>1. \A k \in waiters : <<k, i>> \notin Matches
      BY <2>1
    <3>2. NoMatchWaits'
      BY <2>1, <3>1 DEF NoMatchWaits, Parked
    <3>3. OneInvitePerCaller'
      BY <2>1 DEF OneInvitePerCaller, DialogsOf
    <3>4. QED
      BY <2>1, <3>2, <3>3
  <2>2. ASSUME NEW k \in waiters, invite' = [invite EXCEPT ![i] = k], waiters' = waiters \ {k}
        PROVE  ParkSafe'
    <3>1. \A j \in Invites : invite[j] # k
      BY DEF OneInvitePerCaller
    <3>2. OneInvitePerCaller'
      BY <1>1, <2>2, <3>1 DEF Park, OneInvitePerCaller, DialogsOf
    <3>3. NoMatchWaits'
      BY <2>2 DEF NoMatchWaits, Parked
    <3>4. QED
      BY <2>2, <3>2, <3>3
  <2>3. QED
    BY <1>1, <2>1, <2>2 DEF Park
<1>2. ASSUME NEW i \in Invites, LeavePark(i) PROVE ParkSafe'
  <2>1. OneInvitePerCaller'
    BY <1>2 DEF LeavePark, OneInvitePerCaller, DialogsOf
  <2>2. QED
    BY <1>2, <2>1 DEF LeavePark, NoMatchWaits, Parked
<1>3. ASSUME NEW k \in Callers, Claim(k) PROVE ParkSafe'
  <2>1. CASE waiters' = waiters \cup {k} /\ UNCHANGED invite
             /\ {i \in Parked : <<k, i>> \in Matches} = {}
    <3>1. OneInvitePerCaller'
      BY <1>3, <2>1 DEF Claim, OneInvitePerCaller, DialogsOf
    <3>2. NoMatchWaits'
      BY <2>1 DEF NoMatchWaits, Parked
    <3>3. QED
      BY <2>1, <3>1, <3>2
  <2>2. ASSUME NEW i \in Parked, invite' = [invite EXCEPT ![i] = k], UNCHANGED waiters
        PROVE  ParkSafe'
    <3>1. OneInvitePerCaller'
      BY <1>3, <2>2 DEF Claim, OneInvitePerCaller, DialogsOf, Parked
    <3>2. NoMatchWaits'
      BY <2>2 DEF NoMatchWaits, Parked
    <3>3. QED
      BY <2>2, <3>1, <3>2 DEF Parked
  <2>3. QED
    BY <1>3, <2>1, <2>2 DEF Claim
<1>4. ASSUME NEW k \in Callers, ClaimTimesOut(k) PROVE ParkSafe'
  BY <1>4 DEF ClaimTimesOut, OneInvitePerCaller, DialogsOf, NoMatchWaits, Parked
<1>5. ASSUME NEW k \in Callers, DropDialogs(k), UNCHANGED waiters PROVE ParkSafe'
  <2>1. \A i \in Invites : invite'[i] = IF invite[i] = k THEN "over" ELSE invite[i]
    BY <1>5 DEF DropDialogs
  <2>2. OneInvitePerCaller'
    BY <1>5, <2>1 DEF OneInvitePerCaller, DialogsOf
  <2>3. NoMatchWaits'
    BY <1>5, <2>1 DEF NoMatchWaits, Parked
  <2>4. ParkTypeOK'
    BY <1>5 DEF DropDialogs
  <2>5. QED
    BY <2>2, <2>3, <2>4
<1>6. ASSUME ParkLost PROVE ParkSafe'
  <2>1. waiters' = {} /\ \A i \in Invites : invite'[i] \in {"unsent", "over"}
    BY <1>6 DEF ParkLost
  <2>2. ParkTypeOK'
    BY <1>6 DEF ParkLost
  <2>3. QED
    BY <2>1, <2>2 DEF OneInvitePerCaller, NoMatchWaits
<1>7. ASSUME UNCHANGED parkVars PROVE ParkSafe'
  BY <1>7 DEF parkVars, OneInvitePerCaller, DialogsOf, NoMatchWaits, Parked
<1>8. QED
  BY <1>1, <1>2, <1>3, <1>4, <1>5, <1>6, <1>7

LEMMA ParkSafeNext == ParkSafe /\ [Next]_vars => ParkSafe'
<1> SUFFICES ASSUME ParkSafe, [Next]_vars PROVE ParkSafe'
  OBVIOUS
<1> USE VoiceParameters
<1>1. ASSUME InviteSteps PROVE ParkSafe'
  BY <1>1, ParkKeepsSafe DEF InviteSteps
<1>2. ASSUME Crash PROVE ParkSafe'
  BY <1>2, ParkKeepsSafe DEF Crash
<1>3. ASSUME NEW k \in Calls, CallNext(k) PROVE ParkSafe'
  <2>1. ASSUME NEW kind \in Kinds, JobThrows(k, kind) PROVE ParkSafe'
    BY <2>1, ParkKeepsSafe DEF JobThrows, parkVars
  <2>2. ClaimInvite(k) => ParkSafe'
    BY ParkKeepsSafe DEF ClaimInvite
  <2>3. PickUpFails(k) => ParkSafe'
    BY ParkKeepsSafe DEF PickUpFails
  <2>4. ASSUME NEW kind \in Kinds, CallWebhook(k, kind) \/ StartJob(k, kind) \/ FinishJob(k, kind)
        PROVE  UNCHANGED parkVars
    BY <2>4 DEF CallWebhook, StartJob, FinishJob
  <2>5. Connecting(k) => UNCHANGED parkVars \/ ClaimInvite(k)
    BY DEF Connecting, StartRinging, Decide, AcceptCloud, NoInvite, PickUp, MarkAnswered, BeginTalk
  <2>6. \/ CallerHangsUp(k) \/ AcceptRefused(k) \/ Talking(k) \/ CallLimit(k) \/ LoopThrows(k)
        \/ \E deed \in Deeds : Utterance(k, deed)
        \/ \E th \in Threads : Completing(k, th)
        => UNCHANGED parkVars
    BY DEF CallerHangsUp, AcceptRefused, Talking, Act, ActFails, LineCloses, CallLimit, LoopThrows,
           Utterance, Completing, TakeSession, ReadCall, WriteOutcome
  <2>7. QED
    BY <1>3, <2>1, <2>2, <2>3, <2>4, <2>5, <2>6, ParkKeepsSafe DEF CallNext
<1>4. CASE UNCHANGED vars
  BY <1>4, ParkKeepsSafe DEF vars
<1>5. QED
  BY <1>1, <1>2, <1>3, <1>4 DEF Next

LEMMA ParkAgrees == Spec => []ParkSafe
<1>1. Init => ParkSafe
  <2>1. ASSUME Init PROVE waiters = {} /\ invite = [i \in Invites |-> "unsent"]
    BY <2>1 DEF Init, ParkInit
  <2>2. QED
    BY <2>1, ParkParameters DEF ParkSafe, ParkTypeOK, OneInvitePerCaller, NoMatchWaits
<1>2. QED
  BY <1>1, ParkSafeNext, PTL DEF Spec

(* InvitePark.claim resolves once: a caller gets no second INVITE and waits*)
(* for none once it has one, for every order of claims, INVITEs, timeouts  *)
(* and crashes.                                                            *)
THEOREM ClaimsResolveOnce == Spec => []OneInvitePerCaller
<1>1. ParkSafe => OneInvitePerCaller
  BY DEF ParkSafe
<1>2. QED
  BY <1>1, ParkAgrees, PTL

(* InvitePark.park and claim: nobody waits for an INVITE that is there, for*)
(* every order of claims, INVITEs, timeouts and crashes.                   *)
THEOREM ClaimsMeetInvites == Spec => []NoMatchWaits
<1>1. ParkSafe => NoMatchWaits
  BY DEF ParkSafe
<1>2. QED
  BY <1>1, ParkAgrees, PTL

-----------------------------------------------------------------------------
(* Who may complete a call.  While its connect job may still get anywhere  *)
(* there is no session; afterwards the session, or the thread that took    *)
(* it, is the one right to complete the call.                              *)
Holds(k, th) == at[k][th].step \in {"end", "write"}
Connectable(k) ==
    jobs[k]["connect"].st \in {"none", "waiting"} \/ at[k]["connect"].step \in ConnectSteps
Pending(k) == k \in session \/ Holds(k, "terminate") \/ Holds(k, "loop")

OneCompletes(k) ==
    /\ Connectable(k) => ~Pending(k) /\ at[k]["loop"].step = "idle"
    /\ k \in session => ~Holds(k, "terminate") /\ ~Holds(k, "loop")
    /\ ~(Holds(k, "terminate") /\ Holds(k, "loop"))
    /\ Connectable(k) \/ Pending(k) => entries[k] <= jobs[k]["connect"].stalls
    /\ (Connectable(k) \/ Pending(k)) /\ jobs[k]["connect"].stalls = 0 => call[k] \notin Ended
    /\ entries[k] <= 1 + jobs[k]["connect"].stalls

(* What the session, the row and the threads say has been done.            *)
Claimed(d, k) == d \in {"BOOKED", "ESCALATED"} => d \in deeds[k]
Truthful(k) ==
    /\ Claimed(mood[k], k) /\ Claimed(record[k], k)
    /\ \A th \in Threads : Holds(k, th) => Claimed(at[k][th].says, k)

Sound(k) == OneCompletes(k) /\ Truthful(k)

Same(k) ==
    /\ \A th \in Threads : at'[k][th] = at[k][th]
    /\ \A kind \in Kinds : jobs'[k][kind] = jobs[k][kind]
    /\ k \in session' <=> k \in session
    /\ call'[k] = call[k] /\ record'[k] = record[k] /\ entries'[k] = entries[k]
    /\ mood'[k] = mood[k] /\ deeds'[k] = deeds[k]

LEMMA SameStaysSound ==
  ASSUME NEW k \in Calls, Sound(k), Same(k)
  PROVE  Sound(k)'
BY DEF Same, Sound, OneCompletes, Truthful, Claimed, Connectable, Pending, Holds, ConnectSteps,
       Threads, Kinds

(* One thread moves on and does not come to hold the outcome, nor touches  *)
(* anything else.                                                          *)
LEMMA StepStaysSound ==
  ASSUME Typed, NEW k \in Calls, Sound(k), NEW th \in Threads, ThreadOnly(k, th),
         at[k][th].step # "idle", ~Holds(k, th)', UNCHANGED <<rowVars, talkVars, jobs>>,
         th = "connect" => at[k][th].step \in ConnectSteps
  PROVE  Sound(k)'
BY DEF Sound, OneCompletes, Truthful, Claimed, Connectable, Pending, Holds, ConnectSteps,
       Threads, Kinds, ThreadOnly, rowVars, talkVars, Typed, ThreadsFollowJobs

LEMMA SoundConnecting ==
  ASSUME Typed, NEW k \in Calls, Sound(k), Connecting(k) \/ AcceptRefused(k) \/ PickUpFails(k)
  PROVE  Sound(k)'
<1> USE DEF lineVars, rowVars, talkVars
<1>0. /\ at \in [Calls -> [Threads -> Thread]] /\ "connect" \in Threads
      /\ call \in [Calls -> {"none", "RINGING", "ANSWERED"} \cup Ended]
      /\ mood \in [Calls -> Disposition]
  BY DEF Typed, TypeOK, Threads, Kinds
<1>1. ASSUME StartRinging(k) PROVE Sound(k)'
  <2>1. ThreadOnly(k, "connect") /\ at'[k]["connect"].step = "decide"
    BY <1>0, <1>1, ThreadGoes DEF StartRinging, Step
  <2>2. call'[k] \in Ended => call[k] \in Ended
    BY <1>0, <1>1 DEF StartRinging, Ended
  <2>3. QED
    BY <1>1, <2>1, <2>2
       DEF StartRinging, Sound, OneCompletes, Truthful, Claimed, Connectable, Pending, Holds,
           ConnectSteps, Threads, Kinds, ThreadOnly
<1>2. ASSUME ThreadOnly(k, "connect"), UNCHANGED <<rowVars, talkVars, jobs>>,
             at[k]["connect"].step \in ConnectSteps,
             at'[k]["connect"].step \in ConnectSteps,
             Holds(k, "connect")' => at'[k]["connect"].says \in {"none", "ABANDONED", "INFO"}
      PROVE  Sound(k)'
  BY <1>2 DEF Sound, OneCompletes, Truthful, Claimed, Connectable, Pending, Holds, ConnectSteps,
              Threads, Kinds, ThreadOnly
<1>3. ASSUME NEW answers \in BOOLEAN, Decide(k, answers) PROVE Sound(k)'
  <2>1. CASE answers
    <3>1. ThreadOnly(k, "connect") /\ at'[k]["connect"].step \in {"accept", "claim"}
      BY <1>0, <1>3, <2>1, ThreadGoes DEF Decide, Step
    <3>2. QED
      BY <1>2, <1>3, <3>1 DEF Decide, ConnectSteps, Holds
  <2>2. CASE ~answers
    <3>1. /\ ThreadOnly(k, "connect") /\ at'[k]["connect"].step = "end"
          /\ at'[k]["connect"].says = "none"
      BY <1>0, <1>3, <2>2, ThreadEnds DEF Decide, Ended, Disposition
    <3>2. QED
      BY <1>2, <1>3, <3>1 DEF Decide, ConnectSteps, Holds
  <2>3. QED
    BY <2>1, <2>2
<1>4. ASSUME (\E live \in BOOLEAN : AcceptCloud(k, live)) \/ PickUp(k) \/ ClaimInvite(k)
      PROVE  Sound(k)'
  <2>1. ThreadOnly(k, "connect") /\ at'[k]["connect"].step \in {"answer", "wait"}
    BY <1>0, <1>4, ThreadGoes DEF AcceptCloud, PickUp, ClaimInvite, Step
  <2>2. QED
    BY <1>2, <1>4, <2>1 DEF AcceptCloud, PickUp, ClaimInvite, ConnectSteps, Holds
<1>5. ASSUME NoInvite(k) \/ PickUpFails(k) \/ AcceptRefused(k) PROVE Sound(k)'
  <2>1. /\ ThreadOnly(k, "connect") /\ at'[k]["connect"].step = "end"
        /\ at'[k]["connect"].says \in {"ABANDONED", "INFO"}
    BY <1>0, <1>5, ThreadEnds
       DEF NoInvite, PickUpFails, AcceptRefused, FollowUp, Ended, Disposition
  <2>2. QED
    BY <1>2, <1>5, <2>1 DEF NoInvite, PickUpFails, AcceptRefused, ConnectSteps, Holds
<1>6. ASSUME MarkAnswered(k) PROVE Sound(k)'
  <2>1. ThreadOnly(k, "connect") /\ at'[k]["connect"].step = "greet"
    BY <1>0, <1>6, ThreadGoes DEF MarkAnswered, Step
  <2>2. call'[k] \notin Ended
    BY <1>0, <1>6 DEF MarkAnswered, Ended
  <2>3. QED
    BY <1>6, <2>1, <2>2
       DEF MarkAnswered, Sound, OneCompletes, Truthful, Claimed, Connectable, Pending, Holds,
           ConnectSteps, Threads, Kinds, ThreadOnly
<1>7. ASSUME BeginTalk(k) PROVE Sound(k)'
  <2>1. /\ \A th \in Threads : th \notin {"connect", "loop"} => at'[k][th] = at[k][th]
        /\ at'[k]["connect"].step = "finish" /\ at'[k]["loop"].step = "talking"
    BY <1>0, <1>7, TalkBegins
  <2>2. mood'[k] = "ABANDONED"
    BY <1>0, <1>7 DEF BeginTalk
  <2>3. jobs[k]["connect"].st = "active"
    BY <1>7 DEF BeginTalk, Typed, ThreadsFollowJobs, Kinds
  <2>4. QED
    BY <1>7, <2>1, <2>2, <2>3
       DEF BeginTalk, Sound, OneCompletes, Truthful, Claimed, Connectable, Pending, Holds,
           ConnectSteps, Threads, Kinds
<1>8. QED
  BY <1>1, <1>3, <1>4, <1>5, <1>6, <1>7 DEF Connecting

LEMMA SoundTalking ==
  ASSUME Typed, NEW k \in Calls, Sound(k),
         \/ CallerHangsUp(k) \/ Talking(k) \/ CallLimit(k) \/ LoopThrows(k)
         \/ \E deed \in Deeds : Utterance(k, deed)
  PROVE  Sound(k)'
<1> USE DEF lineVars, rowVars, talkVars
<1>0. /\ at \in [Calls -> [Threads -> Thread]] /\ "loop" \in Threads
      /\ mood \in [Calls -> Disposition] /\ deeds \in [Calls -> SUBSET Disposition]
  BY DEF Typed, TypeOK, Threads, Kinds
<1>1. ASSUME CallerHangsUp(k) PROVE Sound(k)'
  BY <1>1, SameStaysSound DEF CallerHangsUp, Same
<1>2. ASSUME NEW deed \in Deeds, Utterance(k, deed) PROVE Sound(k)'
  <2> DEFINE r == [step |-> "acting", how |-> "none", says |-> deed]
  <2>1. r \in Thread /\ r.step = "acting"
    BY VoiceParameters DEF Thread, Step, Disposition
  <2>2. at' = [at EXCEPT ![k]["loop"] = r]
    BY <1>2 DEF Utterance
  <2> HIDE DEF r
  <2>3. ThreadOnly(k, "loop") /\ at'[k]["loop"].step = "acting"
    BY <1>0, <2>1, <2>2, ThreadSet
  <2>4. QED
    BY <1>0, <1>2, <2>3, StepStaysSound DEF Utterance, Holds
<1>3. ASSUME NEW next \in {"talking", "take"}, Act(k, next) PROVE Sound(k)'
  <2>1. ThreadOnly(k, "loop") /\ at'[k]["loop"].step = next
    BY <1>0, <1>3, ThreadGoes DEF Act, Step
  <2>2. /\ deeds'[k] = deeds[k] \cup {at[k]["loop"].says}
        /\ mood'[k] \in {mood[k], at[k]["loop"].says}
    BY <1>0, <1>3 DEF Act
  <2>3. at[k]["loop"].step = "acting" /\ UNCHANGED <<rowVars, jobs, session>>
    BY <1>3 DEF Act
  <2>4. QED
    BY <2>1, <2>2, <2>3
       DEF Sound, OneCompletes, Truthful, Claimed, Connectable, Pending, Holds, ConnectSteps,
           Threads, Kinds, ThreadOnly
<1>4. ASSUME ActFails(k) \/ LineCloses(k) \/ CallLimit(k) \/ LoopThrows(k) PROVE Sound(k)'
  <2>1. ThreadOnly(k, "loop") /\ at'[k]["loop"].step \in {"idle", "talking", "take"}
    BY <1>0, <1>4, ThreadGoes, ThreadSet, IdleThread
       DEF ActFails, LineCloses, CallLimit, LoopThrows, Step
  <2>2. UNCHANGED <<rowVars, talkVars, jobs>> /\ at[k]["loop"].step # "idle"
    BY <1>4 DEF ActFails, LineCloses, CallLimit, LoopThrows
  <2>3. QED
    BY <1>0, <2>1, <2>2, StepStaysSound DEF Holds
<1>5. QED
  BY <1>1, <1>2, <1>3, <1>4 DEF Talking

LEMMA SoundCompleting ==
  ASSUME Typed, NEW k \in Calls, Sound(k), NEW th \in Threads, Completing(k, th)
  PROVE  Sound(k)'
<1> USE DEF lineVars, rowVars, talkVars
<1>0. /\ at \in [Calls -> [Threads -> Thread]] /\ mood[k] \in Disposition
      /\ record \in [Calls -> Disposition]
      /\ entries \in [Calls -> Nat] /\ entries[k] \in Nat
      /\ call \in [Calls -> {"none", "RINGING", "ANSWERED"} \cup Ended]
      /\ th = "connect" => at[k][th].step # "take"
  BY DEF Typed, TypeOK, ThreadsFollowJobs, ConnectSteps
<1>1. ASSUME TakeSession(k, th) PROVE Sound(k)'
  <2>1. /\ th # "connect" /\ at[k][th].step = "take"
        /\ UNCHANGED <<rowVars, jobs, mood, deeds>> /\ session' = session \ {k}
    BY <1>0, <1>1 DEF TakeSession
  <2>2. CASE k \in session
    <3>1. ThreadOnly(k, th) /\ at'[k][th].step = "end" /\ at'[k][th].says = mood[k]
      BY <1>0, <1>1, <2>2, ThreadEnds DEF TakeSession, Ended
    <3>2. QED
      BY <2>1, <2>2, <3>1
         DEF Sound, OneCompletes, Truthful, Claimed, Connectable, Pending, Holds, ConnectSteps,
             Threads, Kinds, ThreadOnly
  <2>3. CASE k \notin session
    <3>1. ThreadOnly(k, th) /\ at'[k][th].step \in {"idle", "finish"}
      <4>1. CASE th = "loop"
        <5>1. at' = [at EXCEPT ![k][th] = Idle]
          BY <1>1, <2>3, <4>1 DEF TakeSession
        <5>2. QED
          BY <1>0, <5>1, ThreadSet, IdleThread
      <4>2. CASE th # "loop"
        <5>1. Goes(k, th, "finish")
          BY <1>1, <2>3, <4>2 DEF TakeSession
        <5>2. QED
          BY <1>0, <5>1, ThreadGoes DEF Step
      <4>3. QED
        BY <4>1, <4>2
    <3>2. session' = session
      BY <2>1, <2>3
    <3>3. QED
      BY <1>0, <2>1, <3>1, <3>2, StepStaysSound DEF Holds
  <2>4. QED
    BY <2>2, <2>3
<1>2. ASSUME ReadCall(k, th) PROVE Sound(k)'
  <2>1. /\ ThreadOnly(k, th) /\ at[k][th].step = "end" /\ UNCHANGED <<rowVars, talkVars, jobs>>
        /\ \/ at'[k][th].step \in {"idle", "finish"}
           \/ at'[k][th].step = "write" /\ at'[k][th].says = at[k][th].says
    <3>1. at[k][th].step = "end" /\ UNCHANGED <<rowVars, talkVars, jobs>>
      BY <1>2 DEF ReadCall
    <3>2. CASE call[k] \in {"COMPLETED", "REJECTED"}
      <4>1. ThreadOnly(k, th) /\ at'[k][th] = After(k, th)
        BY <1>2, <3>2, CallRead
      <4>2. QED
        BY <3>1, <4>1, ThreadAfter
    <3>3. CASE call[k] \notin {"COMPLETED", "REJECTED"}
      BY <1>2, <3>1, <3>3, CallRead
    <3>4. QED
      BY <3>2, <3>3
  <2>2. QED
    BY <2>1
       DEF Sound, OneCompletes, Truthful, Claimed, Connectable, Pending, Holds, ConnectSteps,
           Threads, Kinds, ThreadOnly
<1>3. ASSUME WriteOutcome(k, th) PROVE Sound(k)'
  <2>1. /\ ThreadOnly(k, th) /\ at[k][th].step = "write"
        /\ at'[k][th].step = IF th = "loop" THEN "idle" ELSE "finish"
    BY <1>0, <1>3, ThreadSet, ThreadAfter DEF WriteOutcome
  <2>2. /\ entries'[k] = entries[k] + 1 /\ record'[k] = at[k][th].says
        /\ UNCHANGED <<jobs, talkVars>>
    BY <1>0, <1>3 DEF WriteOutcome
  <2>3. th = "connect" => jobs[k]["connect"].st = "active"
    BY <2>1 DEF Typed, ThreadsFollowJobs, Kinds
  <2>4. jobs[k]["connect"].stalls \in 0..1
    BY DEF Typed, TypeOK, Job, Kinds
  <2>5. ~Connectable(k)' /\ ~Pending(k)' /\ entries[k] <= jobs[k]["connect"].stalls
    BY <2>1, <2>2, <2>3
       DEF Sound, OneCompletes, Connectable, Pending, Holds, ConnectSteps, Threads, Kinds,
           ThreadOnly
  <2>6. entries'[k] <= 1 + jobs'[k]["connect"].stalls
    BY <1>0, <2>2, <2>4, <2>5
  <2>7. OneCompletes(k)'
    BY <2>5, <2>6 DEF OneCompletes, Pending
  <2>8. Truthful(k)'
    BY <2>1, <2>2 DEF Sound, Truthful, Claimed, Holds, ThreadOnly
  <2>9. QED
    BY <2>7, <2>8 DEF Sound
<1>4. QED
  BY <1>1, <1>2, <1>3 DEF Completing

LEMMA SoundJob ==
  ASSUME Typed, NEW k \in Calls, Sound(k), NEW kind \in Kinds,
         CallWebhook(k, kind) \/ StartJob(k, kind) \/ FinishJob(k, kind) \/ JobThrows(k, kind)
  PROVE  Sound(k)'
<1> USE DEF lineVars, rowVars, talkVars
<1>0. /\ at \in [Calls -> [Threads -> Thread]] /\ jobs \in [Calls -> [Kinds -> Job]]
      /\ kind \in Threads
  BY DEF Typed, TypeOK, Threads
<1>a. jobs[k][kind] \in Job
  BY <1>0
<1>b. UNCHANGED <<rowVars, talkVars>>
  BY DEF CallWebhook, StartJob, FinishJob, JobThrows
<1>1. ASSUME CallWebhook(k, kind) PROVE Sound(k)'
  <2>1. /\ JobOnly(k, kind) /\ jobs'[k][kind].st = "waiting"
        /\ jobs'[k][kind].stalls = jobs[k][kind].stalls
    BY <1>0, <1>1, JobMoved DEF CallWebhook
  <2>2. jobs[k][kind].st = "none" /\ at' = at
    BY <1>1 DEF CallWebhook, NoJob
  <2>3. QED
    BY <1>b, <2>1, <2>2
       DEF Sound, OneCompletes, Truthful, Claimed, Connectable, Pending, Holds, ConnectSteps,
           JobOnly, Kinds
<1>2. ASSUME StartJob(k, kind) PROVE Sound(k)'
  <2>1. /\ JobOnly(k, kind) /\ jobs'[k][kind].st = "active" /\ jobs[k][kind].st = "waiting"
        /\ jobs'[k][kind].stalls = jobs[k][kind].stalls
    BY <1>0, <1>2, JobMoved DEF StartJob
  <2>2. /\ ThreadOnly(k, kind)
        /\ at'[k][kind].step = IF kind = "connect" THEN "ring" ELSE "take"
    BY <1>0, <1>2, ThreadGoes DEF StartJob, Step
  <2>3. QED
    BY <1>b, <2>1, <2>2
       DEF Sound, OneCompletes, Truthful, Claimed, Connectable, Pending, Holds, ConnectSteps,
           JobOnly, ThreadOnly, Kinds, Threads
<1>3. ASSUME FinishJob(k, kind) PROVE Sound(k)'
  <2>1. /\ JobOnly(k, kind) /\ jobs'[k][kind].st = "done"
        /\ jobs'[k][kind].stalls = jobs[k][kind].stalls
    BY <1>0, <1>3, JobMoved DEF FinishJob
  <2>2. ThreadOnly(k, kind) /\ at'[k][kind].step = "idle"
    BY <1>0, <1>3, ThreadSet, IdleThread DEF FinishJob
  <2>3. QED
    BY <1>b, <2>1, <2>2
       DEF Sound, OneCompletes, Truthful, Claimed, Connectable, Pending, Holds, ConnectSteps,
           JobOnly, ThreadOnly, Kinds, Threads
<1>4. ASSUME JobThrows(k, kind) PROVE Sound(k)'
  <2>1. /\ jobs[k][kind].made < MaxAttempts
        /\ kind = "connect" => at[k][kind].step \in ConnectSteps
    BY <1>4 DEF JobThrows, Typed, ThreadsFollowJobs, ConnectSteps
  <2> DEFINE j == Thrown(jobs[k][kind])
  <2>2. j \in Job /\ j.stalls = jobs[k][kind].stalls
    BY <1>a, <2>1, ThrownJob
  <2>3. jobs' = [jobs EXCEPT ![k][kind] = j]
    BY <1>4 DEF JobThrows
  <2> HIDE DEF j
  <2>4. JobOnly(k, kind) /\ jobs'[k][kind] = j
    BY <1>0, <2>2, <2>3 DEF JobOnly
  <2>5. ThreadOnly(k, kind) /\ at'[k][kind].step = "idle"
    BY <1>0, <1>4, ThreadSet, IdleThread DEF JobThrows
  <2>6. QED
    BY <1>b, <2>1, <2>2, <2>4, <2>5
       DEF Sound, OneCompletes, Truthful, Claimed, Connectable, Pending, Holds,
           JobOnly, ThreadOnly, Kinds, Threads
<1>5. QED
  BY <1>1, <1>2, <1>3, <1>4

(* A step of one call leaves the others as they are.                       *)
LEMMA OthersStaySound ==
  ASSUME Typed, NEW k \in Calls, CallNext(k), NEW x \in Calls, x # k, Sound(x)
  PROVE  Sound(x)'
<1> USE DEF lineVars, rowVars, talkVars
<1>0. /\ at \in [Calls -> [Threads -> Thread]] /\ jobs \in [Calls -> [Kinds -> Job]]
      /\ call \in [Calls -> {"none", "RINGING", "ANSWERED"} \cup Ended]
      /\ record \in [Calls -> Disposition] /\ entries \in [Calls -> Nat]
      /\ mood \in [Calls -> Disposition] /\ deeds \in [Calls -> SUBSET Disposition]
  BY DEF Typed, TypeOK
<1>1. at'[x] = at[x]
  BY <1>0
     DEF CallNext, CallWebhook, StartJob, FinishJob, JobThrows, CallerHangsUp, Connecting,
         StartRinging, Decide, AcceptCloud, ClaimInvite, NoInvite, PickUp, MarkAnswered, BeginTalk,
         AcceptRefused, PickUpFails, FollowUp, Utterance, Talking, Act, ActFails, LineCloses,
         CallLimit, LoopThrows, Completing, TakeSession, ReadCall, WriteOutcome, Goes, Ends
<1>2. jobs'[x] = jobs[x]
  BY <1>0
     DEF CallNext, CallWebhook, StartJob, FinishJob, JobThrows, CallerHangsUp, Connecting,
         StartRinging, Decide, AcceptCloud, ClaimInvite, NoInvite, PickUp, MarkAnswered, BeginTalk,
         AcceptRefused, PickUpFails, Utterance, Talking, Act, ActFails, LineCloses,
         CallLimit, LoopThrows, Completing, TakeSession, ReadCall, WriteOutcome
<1>3. /\ x \in session' <=> x \in session
      /\ call'[x] = call[x] /\ record'[x] = record[x] /\ entries'[x] = entries[x]
      /\ mood'[x] = mood[x] /\ deeds'[x] = deeds[x]
  BY <1>0
     DEF CallNext, CallWebhook, StartJob, FinishJob, JobThrows, CallerHangsUp, Connecting,
         StartRinging, Decide, AcceptCloud, ClaimInvite, NoInvite, PickUp, MarkAnswered, BeginTalk,
         AcceptRefused, PickUpFails, Utterance, Talking, Act, ActFails, LineCloses,
         CallLimit, LoopThrows, Completing, TakeSession, ReadCall, WriteOutcome
<1>4. QED
  BY <1>1, <1>2, <1>3, SameStaysSound DEF Same

(* The process dies: no session and no thread is left, and a connect job   *)
(* that comes back has its one stall behind it.                            *)
LEMMA SoundCrash ==
  ASSUME Typed, Crash, NEW k \in Calls, Sound(k)
  PROVE  Sound(k)'
<1>0. jobs \in [Calls -> [Kinds -> Job]] /\ "connect" \in Kinds
  BY DEF Typed, TypeOK, Kinds
<1> DEFINE j == jobs[k]["connect"]
<1>1. j \in Job /\ j.stalls \in 0..1
  BY <1>0 DEF Job
<1>2. jobs'[k]["connect"] = Stalled(j)
  BY <1>0 DEF Crash
<1>3. /\ \A th \in Threads : at'[k][th].step = "idle"
      /\ session' = {} /\ UNCHANGED <<rowVars, mood, deeds>>
  BY IdleThread DEF Crash
<1>4. Stalled(j).stalls \in 0..1
  BY <1>1, StalledJob DEF Job
<1>5. ~Pending(k)' /\ (Connectable(k)' <=> Stalled(j).st \in {"none", "waiting"})
  BY <1>2, <1>3 DEF Pending, Connectable, Holds, ConnectSteps, Threads, Kinds
<1>6. j.st = "active" => at[k]["connect"].step # "idle"
  BY <1>0 DEF Typed, ThreadsFollowJobs
<1>7. CASE j.st = "active"
  <2>1. Stalled(j).stalls = 1 /\ (Stalled(j).st = "waiting" => j.stalls = 0)
        /\ Stalled(j).st # "none"
    BY <1>1, <1>7, StalledJob
  <2>2. entries[k] <= 1 + j.stalls /\ entries[k] \in Nat
    BY DEF Sound, OneCompletes, Typed, TypeOK
  <2>3. OneCompletes(k)'
    BY <1>1, <1>2, <1>3, <1>5, <2>1, <2>2 DEF OneCompletes, Holds, Threads, Kinds, rowVars
  <2>4. QED
    BY <1>3, <2>3 DEF Sound, Truthful, Claimed, Holds, rowVars
<1>8. CASE j.st # "active"
  <2>1. Stalled(j) = j
    BY <1>1, <1>8, StalledJob
  <2>2. OneCompletes(k)'
    BY <1>2, <1>3, <1>5, <2>1
       DEF Sound, OneCompletes, Connectable, Holds, Threads, Kinds, rowVars
  <2>3. QED
    BY <1>3, <2>2 DEF Sound, Truthful, Claimed, Holds, rowVars
<1>9. QED
  BY <1>7, <1>8

CallsSound == Typed /\ \A k \in Calls : Sound(k)

LEMMA CallsSoundInit == Init => CallsSound
<1> SUFFICES ASSUME Init PROVE CallsSound
  OBVIOUS
<1>1. Typed
  BY TypedInit
<1>2. ASSUME NEW k \in Calls PROVE Sound(k)
  <2>1. /\ \A th \in Threads : at[k][th].step = "idle"
        /\ session = {} /\ call[k] = "none" /\ record[k] = "none" /\ entries[k] = 0
        /\ mood[k] = "none" /\ jobs[k]["connect"].stalls = 0
    BY IdleThread DEF Init, NoJob, Kinds
  <2>2. QED
    BY <2>1 DEF Sound, OneCompletes, Truthful, Claimed, Pending, Holds, Threads, Kinds, Ended
<1>3. QED
  BY <1>1, <1>2 DEF CallsSound

LEMMA CallsSoundNext == CallsSound /\ [Next]_vars => CallsSound'
<1> SUFFICES ASSUME CallsSound, [Next]_vars PROVE CallsSound'
  OBVIOUS
<1>1. Typed /\ Typed'
  BY TypedNext DEF CallsSound
<1>2. ASSUME NEW k \in Calls, CallNext(k), NEW x \in Calls PROVE Sound(x)'
  <2>1. Sound(x)
    BY DEF CallsSound
  <2>2. CASE x = k
    BY <1>1, <1>2, <2>1, <2>2, SoundConnecting, SoundTalking, SoundCompleting, SoundJob DEF CallNext
  <2>3. CASE x # k
    BY <1>1, <1>2, <2>1, <2>3, OthersStaySound
  <2>4. QED
    BY <2>2, <2>3
<1>3. ASSUME InviteSteps \/ UNCHANGED vars, NEW x \in Calls PROVE Sound(x)'
  BY <1>3, SameStaysSound DEF CallsSound, InviteSteps, vars, Same, rowVars, talkVars
<1>4. ASSUME Crash, NEW x \in Calls PROVE Sound(x)'
  BY <1>1, <1>4, SoundCrash DEF CallsSound
<1>5. QED
  BY <1>1, <1>2, <1>3, <1>4 DEF Next, CallsSound

LEMMA CallsAlwaysSound == Spec => []CallsSound
BY CallsSoundInit, CallsSoundNext, PTL DEF Spec

(* However connect, terminate and the loop interleave and fail, a call     *)
(* leaves one inbox entry, and one more only for a recovered connect job.  *)
THEOREM CallsLeaveOneEntry == Spec => []OneEntryPerConnect
<1>1. CallsSound => OneEntryPerConnect
  BY DEF CallsSound, Sound, OneCompletes, OneEntryPerConnect
<1>2. QED
  BY <1>1, CallsAlwaysSound, PTL

(* No call is on record as booked or escalated without the deed.           *)
THEOREM RecordsStayTrue == Spec => []RecordsAreTrue
<1>1. CallsSound => RecordsAreTrue
  BY DEF CallsSound, Sound, Truthful, Claimed, RecordsAreTrue
<1>2. QED
  BY <1>1, CallsAlwaysSound, PTL

(* The outcome of a call is final, unless a crash brings its job back.     *)
THEOREM OutcomesStay == Spec => OutcomeIsFinal
<1> DEFINE Stays == \A k \in Calls : call[k] \in Ended /\ jobs[k]["connect"].stalls = 0
                                     => call'[k] = call[k] /\ record'[k] = record[k]
<1>1. ASSUME CallsSound, [Next]_vars PROVE [Stays]_vars
  <2>1. ASSUME NEW k \in Calls, NEW x \in Calls, CallNext(k), call[x] \in Ended,
               jobs[x]["connect"].stalls = 0
        PROVE  call'[x] = call[x] /\ record'[x] = record[x]
    <3>1. ~Connectable(x) /\ ~Pending(x)
      BY <1>1, <2>1 DEF CallsSound, Sound, OneCompletes
    <3>2. /\ call \in [Calls -> {"none", "RINGING", "ANSWERED"} \cup Ended]
          /\ record \in [Calls -> Disposition]
      BY <1>1 DEF CallsSound, Typed, TypeOK
    <3>3. CASE UNCHANGED <<call, record>>
      BY <3>3
    <3>4. CASE StartRinging(k) \/ MarkAnswered(k)
      BY <3>1, <3>2, <3>4 DEF StartRinging, MarkAnswered, Connectable, ConnectSteps
    <3>5. ASSUME NEW th \in Threads, WriteOutcome(k, th)
          PROVE  call'[x] = call[x] /\ record'[x] = record[x]
      BY <3>1, <3>2, <3>5
         DEF WriteOutcome, Connectable, Pending, Holds, ConnectSteps, Threads, Kinds
    <3>6. QED
      BY <2>1, <3>3, <3>4, <3>5
         DEF CallNext, CallWebhook, StartJob, FinishJob, JobThrows, CallerHangsUp, Connecting,
             Decide, AcceptCloud, ClaimInvite, NoInvite, PickUp, BeginTalk, AcceptRefused,
             PickUpFails, Utterance, Talking, Act, ActFails, LineCloses, CallLimit, LoopThrows,
             Completing, TakeSession, ReadCall, rowVars
  <2>2. InviteSteps \/ Crash \/ UNCHANGED vars => UNCHANGED <<call, record>>
    BY DEF InviteSteps, Crash, vars, rowVars
  <2>3. QED
    BY <1>1, <2>1, <2>2 DEF Next
<1>2. QED
  BY <1>1, CallsAlwaysSound, PTL DEF Spec, OutcomeIsFinal
=============================================================================
