----------------------- MODULE PreProcessImagesProofs -----------------------
(***************************************************************************)
(* preProcessImages, for any number of images, work threads and failures.  *)
(* Its steps are steps of the queue it uses, so what is proved of WorkQueue *)
(* holds here; the invariant says what the poster knows of the queue.      *)
(***************************************************************************)
EXTENDS PreProcessImages, WorkQueueProofs

USE ImageAssumption

\* Who the poster's unit belongs to: itself while schedule blocks it, the queue or the poster
\* when schedule has returned.
PosterInv ==
  /\ pc \in {"next", "posting", "finish", "joining", "done"}
  /\ pc = "posting" <=> image # NoUnit
  /\ pc = "posting" => \/ client[main] = "idle" /\ image \in accepted \cup rejected
                       \/ client[main] \in {"waiting", "woken"} /\ posting[main] = image
  /\ pc \in {"next", "finish", "done"} => client[main] = "idle"
  /\ pc = "joining" => client[main] = "joining"

\* finish is called last, and joins the threads.
EndInv ==
  /\ mFinished <=> pc \in {"joining", "done"}
  /\ pc = "done" => mWorkThreads = {}

\* What hasErrors, freed and the queue agree on at any time.
ErrorsInv ==
  /\ ~mCanceled
  /\ freed = rejected \ {image}
  /\ pc \in {"next", "posting"} => freed = {}
  /\ hasErrors \in BOOLEAN /\ res \in {"ok", "error"}
  /\ hasErrors <=> freed # {} \/ ran \cap Broken # {}
  /\ pc \in {"finish", "joining", "done"} => todo = {} \/ freed # {} \/ res = "error"

ImagesInv == PosterInv /\ EndInv /\ ErrorsInv

-----------------------------------------------------------------------------
(* The queue does not know that it is part of a job.                       *)

TodoOK == todo \subseteq Units

LEMMA QueueStep == TodoOK /\ [ImagesNext]_imageVars => [Next]_queueVars
<1> SUFFICES ASSUME TodoOK, [ImagesNext]_imageVars PROVE [Next]_queueVars OBVIOUS
<1>0. main \in Clients OBVIOUS
<1>1. CASE Post
  <2>1. PICK u \in todo : Schedule(main, u) BY <1>1 DEF Post
  <2>2. u \in Units BY DEF TodoOK
  <2> QED BY <1>0, <2>1, <2>2 DEF Next
<1>2. CASE IteratorEnds BY <1>2 DEF IteratorEnds
<1>3. CASE PostGoesOn BY <1>0, <1>3 DEF PostGoesOn, Next
<1>4. CASE PostReturns BY <1>4 DEF PostReturns
<1>5. CASE CallFinish BY <1>0, <1>5 DEF CallFinish, Next
<1>6. CASE FinishDone BY <1>0, <1>6 DEF FinishDone, Next
<1>7. ASSUME NEW t \in Threads, ThreadStep(t) PROVE Next
  BY <1>7 DEF ThreadStep, RunImage, Next, WorkerStep
<1>8. CASE SpuriousWakeup BY <1>8 DEF Next
<1>9. CASE UNCHANGED imageVars BY <1>9 DEF imageVars
<1> QED BY <1>1, <1>2, <1>3, <1>4, <1>5, <1>6, <1>7, <1>8, <1>9 DEF ImagesNext, Main

LEMMA TodoInvariance == ImagesSpec => []TodoOK
<1>1. ImagesInit => TodoOK BY DEF ImagesInit, TodoOK
<1>2. TodoOK /\ [ImagesNext]_imageVars => TodoOK'
  BY DEF TodoOK, ImagesNext, Main, Post, IteratorEnds, PostGoesOn, PostReturns, CallFinish,
         FinishDone, ThreadStep, RunImage, imageVars, jobVars
<1> QED BY <1>1, <1>2, PTL DEF ImagesSpec

\* Every behaviour of the job is one of the queue: what is proved of the queue holds for it.
THEOREM JobUsesQueue == ImagesSpec => Spec
<1>1. ImagesInit => Init BY DEF ImagesInit
<1> QED BY <1>1, QueueStep, TodoInvariance, PTL DEF ImagesSpec, Spec

\* No image stops the queue (ImageAssumption).
AlwaysOn == \A t \in Threads : goOn[t]

LEMMA NoneStops == Spec => []AlwaysOn
<1>1. Init => AlwaysOn BY DEF Init, AlwaysOn
<1>2. QueueInv /\ AlwaysOn /\ [Next]_queueVars => AlwaysOn'
  <2> SUFFICES ASSUME QueueInv, AlwaysOn, [Next]_queueVars PROVE AlwaysOn'
    OBVIOUS
  <2>1. ASSUME NEW t \in Threads, RunUnit(t) PROVE AlwaysOn'
    <3>1. goOn' = [goOn EXCEPT ![t] = TRUE] BY <2>1, ImageAssumption DEF RunUnit
    <3> QED BY <3>1 DEF AlwaysOn, QueueInv, TypeOK
  <2>2. ASSUME NEW t \in Threads, WorkerStep(t), ~RunUnit(t) PROVE goOn' = goOn
    BY <2>2 DEF WorkerStep, Take, Exit, WaitForWork, Account
  <2>3. ASSUME NEW c \in Clients, NEW u \in Units, Schedule(c, u) PROVE goOn' = goOn
    BY <2>3 DEF Schedule, ScheduleClosed, ScheduleSpawn, ScheduleSpawnFails, ScheduleDirect,
                ScheduleBlocks, Enqueue, Reject, work
  <2>4. ASSUME NEW c \in Clients, ScheduleWoken(c) \/ Cancel(c) \/ FinishBegin(c) \/ FinishReturn(c)
        PROVE  goOn' = goOn
    BY <2>4 DEF ScheduleWoken, Enqueue, Reject, Cancel, FinishBegin, FinishReturn, work
  <2>5. ASSUME SpuriousWakeup \/ UNCHANGED queueVars PROVE goOn' = goOn
    BY <2>5 DEF SpuriousWakeup, queueVars, work
  <2>6. ASSUME goOn' = goOn PROVE AlwaysOn'
    BY <2>6 DEF AlwaysOn
  <2> QED BY <2>1, <2>2, <2>3, <2>4, <2>5, <2>6 DEF Next
<1> QED BY <1>1, <1>2, QueueInvariance, PTL DEF Spec

JobQueueInv == QueueInv /\ OwnInv /\ AliveInPool /\ ServedInv /\ AlwaysOn

LEMMA JobQueue == ImagesSpec => []JobQueueInv
<1>1. QueueInv /\ OwnInv /\ AliveInPool /\ ServedInv /\ AlwaysOn => JobQueueInv
  BY DEF JobQueueInv
<1> QED BY <1>1, JobUsesQueue, QueueInvariance, Ownership, AliveInvariance, ServedInvariance,
           NoneStops, PTL

\* A work thread moves no unit the poster knows of, and at most wakes the poster.
LEMMA WorkerQuiet ==
  ASSUME QueueInv, AlwaysOn, NEW t \in Threads, WorkerStep(t)
  PROVE  /\ UNCHANGED <<mCanceled, mFinished, mWorkThreads, posting, accepted, rejected>>
         /\ client'[main] = client[main] \/ (client[main] = "waiting" /\ client'[main] = "woken")
         /\ ~RunUnit(t) => ran' = ran
<1>0. main \in Clients OBVIOUS
<1>1. CASE Take(t) BY <1>0, <1>1 DEF Take, BroadcastDequeued, flags, history
<1>2. CASE Exit(t) \/ WaitForWork(t) BY <1>2 DEF Exit, WaitForWork, flags, clients, history
<1>3. CASE RunUnit(t) BY <1>3 DEF RunUnit, flags, clients
<1>4. CASE Account(t) BY <1>4 DEF Account, AlwaysOn
<1> QED BY <1>1, <1>2, <1>3, <1>4 DEF WorkerStep

LEMMA RunUnitRan == ASSUME NEW t \in Threads, RunUnit(t) PROVE ran' = ran \cup {workUnit[t]}
BY DEF RunUnit

\* A step that leaves the job and its result alone.
LEMMA JobQuiet ==
  ASSUME ImagesInv, UNCHANGED <<jobVars, hasErrors>>,
         UNCHANGED <<mCanceled, mFinished, mWorkThreads, posting, accepted, rejected, ran>>,
         client'[main] = client[main] \/ (client[main] = "waiting" /\ client'[main] = "woken")
  PROVE  ImagesInv'
BY DEF ImagesInv, PosterInv, EndInv, ErrorsInv, jobVars

LEMMA PostInv ==
  ASSUME QueueInv, ImagesInv, TodoOK, Post PROVE ImagesInv'
<1>0. main \in Clients /\ image = NoUnit BY DEF Post, ImagesInv, PosterInv
<1>1. PICK u \in todo : Schedule(main, u) /\ image' = u BY DEF Post
<1>2. u \in Units /\ u # NoUnit BY <1>1, QueueAssumption DEF TodoOK
<1>3. /\ pc = "next" /\ pc' = "posting" /\ UNCHANGED <<res, hasErrors, freed>>
  BY DEF Post
<1>4. rejected = {} /\ freed = {}
  <2>1. freed = {} /\ freed = rejected \ {image} BY <1>3 DEF ImagesInv, ErrorsInv
  <2>2. image \notin rejected BY <1>0, QueueAssumption DEF QueueInv, TypeOK
  <2> QED BY <2>1, <2>2
<1>5. /\ UNCHANGED <<flags, ran>>
      /\ \/ client'[main] = "idle" /\ accepted' = accepted \cup {u} /\ rejected' = rejected
         \/ client'[main] = "idle" /\ rejected' = rejected \cup {u} /\ accepted' = accepted
         \/ /\ client'[main] = "waiting" /\ posting'[main] = u
            /\ UNCHANGED <<accepted, rejected>>
  BY <1>0, <1>1 DEF Schedule, ScheduleClosed, ScheduleSpawn, ScheduleSpawnFails, ScheduleDirect,
     ScheduleBlocks, Enqueue, Reject, history, QueueInv, TypeOK
<1>6. PosterInv' BY <1>1, <1>2, <1>3, <1>5 DEF PosterInv
<1>7. EndInv' BY <1>3, <1>5 DEF ImagesInv, EndInv, flags
<1>8. ErrorsInv' BY <1>1, <1>3, <1>4, <1>5 DEF ImagesInv, ErrorsInv, flags
<1> QED BY <1>6, <1>7, <1>8 DEF ImagesInv

LEMMA GoesOnInv == ASSUME QueueInv, OwnInv, ImagesInv, PostGoesOn PROVE ImagesInv'
<1>0. main \in Clients OBVIOUS
<1>1. /\ pc = "posting" /\ client[main] = "woken" /\ posting[main] = image
      /\ UNCHANGED <<jobVars, hasErrors>>
  BY DEF PostGoesOn, ScheduleWoken, ImagesInv, PosterInv
<1>2. image \notin rejected BY <1>0, <1>1 DEF OwnInv, PostedApart
<1>3. /\ UNCHANGED <<flags, ran>>
      /\ \/ client'[main] = "idle" /\ accepted' = accepted \cup {image} /\ rejected' = rejected
         \/ client'[main] = "idle" /\ rejected' = rejected \cup {image} /\ accepted' = accepted
         \/ /\ client'[main] = "waiting" /\ posting'[main] = image
            /\ UNCHANGED <<accepted, rejected>>
  BY <1>0, <1>1 DEF PostGoesOn, ScheduleWoken, Enqueue, Reject, history, QueueInv, TypeOK
<1>4. PosterInv' BY <1>1, <1>3 DEF ImagesInv, PosterInv, jobVars
<1>5. EndInv' BY <1>1, <1>3 DEF ImagesInv, EndInv, flags, jobVars
<1>6. ErrorsInv' BY <1>1, <1>2, <1>3 DEF ImagesInv, ErrorsInv, flags, jobVars
<1> QED BY <1>4, <1>5, <1>6 DEF ImagesInv

\* Only here the poster learns whether its unit was refused.
LEMMA ReturnsInv == ASSUME QueueInv, OwnInv, ImagesInv, PostReturns PROVE ImagesInv'
<1>1. /\ pc = "posting" /\ client[main] = "idle" /\ image' = NoUnit
      /\ image \in accepted \cup rejected
      /\ UNCHANGED <<queueVars, todo, res>>
  BY DEF PostReturns, ImagesInv, PosterInv
<1>2. /\ UNCHANGED <<mCanceled, mFinished, mWorkThreads, accepted, rejected, ran, client>>
  BY <1>1 DEF queueVars, flags, clients, history
<1>3. NoUnit \notin rejected /\ accepted \cap rejected = {}
  BY QueueAssumption DEF QueueInv, TypeOK, OwnInv, Places
<1>4. freed = rejected \ {image} /\ freed = {} BY <1>1 DEF ImagesInv, ErrorsInv
<1>5. CASE image \in accepted /\ pc' = "next" /\ UNCHANGED <<hasErrors, freed>>
  <2>1. image \notin rejected BY <1>3, <1>5
  <2>2. ErrorsInv' BY <1>1, <1>2, <1>3, <1>4, <1>5, <2>1 DEF ImagesInv, ErrorsInv
  <2> QED BY <1>1, <1>2, <1>5, <2>2 DEF ImagesInv, PosterInv, EndInv
<1>6. CASE /\ image \notin accepted /\ hasErrors' = TRUE
           /\ freed' = freed \cup {image} /\ pc' = "finish"
  <2>1. ErrorsInv' BY <1>1, <1>2, <1>3, <1>4, <1>6 DEF ImagesInv, ErrorsInv
  <2> QED BY <1>1, <1>2, <1>6, <2>1 DEF ImagesInv, PosterInv, EndInv
<1> QED BY <1>5, <1>6 DEF PostReturns

LEMMA EndsInv ==
  ASSUME QueueInv, ImagesInv, IteratorEnds \/ CallFinish \/ FinishDone PROVE ImagesInv'
<1>0. main \in Clients OBVIOUS
<1>1. CASE IteratorEnds
  <2>1. /\ pc = "next" /\ pc' = "finish" /\ ((todo = {} /\ res' = res) \/ res' = "error")
        /\ UNCHANGED <<todo, image, hasErrors, freed>>
        /\ UNCHANGED <<mCanceled, mFinished, mWorkThreads, accepted, rejected, ran, client>>
    BY <1>1 DEF IteratorEnds, queueVars, flags, clients, history
  <2>2. PosterInv' /\ EndInv' BY <2>1 DEF ImagesInv, PosterInv, EndInv
  <2>3. ErrorsInv' BY <2>1 DEF ImagesInv, ErrorsInv
  <2> QED BY <2>2, <2>3 DEF ImagesInv
<1>2. CASE CallFinish
  <2>1. /\ pc = "finish" /\ pc' = "joining" /\ mFinished' = TRUE /\ client'[main] = "joining"
        /\ UNCHANGED <<todo, image, res, hasErrors, freed>>
        /\ UNCHANGED <<mCanceled, accepted, rejected, ran>>
    BY <1>0, <1>2 DEF CallFinish, FinishBegin, QueueInv, TypeOK, history
  <2> QED BY <2>1 DEF ImagesInv, PosterInv, EndInv, ErrorsInv
<1>3. CASE FinishDone
  <2>1. /\ pc = "joining" /\ pc' = "done" /\ mWorkThreads' = {} /\ client'[main] = "idle"
        /\ UNCHANGED <<todo, image, res, hasErrors, freed>>
        /\ UNCHANGED <<mCanceled, mFinished, accepted, rejected, ran>>
    BY <1>0, <1>3 DEF FinishDone, FinishReturn, QueueInv, TypeOK, flags, history
  <2> QED BY <2>1 DEF ImagesInv, PosterInv, EndInv, ErrorsInv
<1> QED BY <1>1, <1>2, <1>3

\* A unit that fails is noted before its thread counts as idle again.
LEMMA ThreadInv ==
  ASSUME QueueInv, AlwaysOn, ImagesInv, NEW t \in Threads, ThreadStep(t) PROVE ImagesInv'
<1>1. WorkerStep(t) BY DEF ThreadStep, RunImage, WorkerStep
<1>2. /\ UNCHANGED <<mCanceled, mFinished, mWorkThreads, posting, accepted, rejected>>
      /\ client'[main] = client[main] \/ (client[main] = "waiting" /\ client'[main] = "woken")
      /\ ~RunUnit(t) => ran' = ran
  BY <1>1, WorkerQuiet
<1>3. CASE RunImage(t)
  <2>1. /\ ran' = ran \cup {workUnit[t]} /\ hasErrors' = (hasErrors \/ workUnit[t] \in Broken)
        /\ UNCHANGED <<pc, todo, image, res, freed>>
    BY <1>3, RunUnitRan DEF RunImage, jobVars
  <2>2. PosterInv' /\ EndInv' BY <1>2, <2>1 DEF ImagesInv, PosterInv, EndInv
  <2>3. ErrorsInv' BY <1>2, <2>1 DEF ImagesInv, ErrorsInv
  <2> QED BY <2>2, <2>3 DEF ImagesInv
<1>4. CASE /\ Take(t) \/ Exit(t) \/ WaitForWork(t) \/ Account(t)
           /\ UNCHANGED <<jobVars, hasErrors>>
  <2>1. ran' = ran BY <1>4 DEF Take, Exit, WaitForWork, Account, history
  <2> QED BY <1>2, <1>4, <2>1, JobQuiet
<1> QED BY <1>3, <1>4 DEF ThreadStep

LEMMA ImagesStep ==
  JobQueueInv /\ TodoOK /\ ImagesInv /\ [ImagesNext]_imageVars => ImagesInv'
<1> SUFFICES ASSUME JobQueueInv, TodoOK, ImagesInv, [ImagesNext]_imageVars PROVE ImagesInv'
  OBVIOUS
<1>0. QueueInv /\ OwnInv /\ AlwaysOn BY DEF JobQueueInv
<1>1. CASE Main BY <1>0, <1>1, PostInv, GoesOnInv, ReturnsInv, EndsInv DEF Main
<1>2. ASSUME NEW t \in Threads, ThreadStep(t) PROVE ImagesInv' BY <1>0, <1>2, ThreadInv
<1>3. CASE SpuriousWakeup /\ UNCHANGED <<jobVars, hasErrors>>
  <2>1. /\ UNCHANGED <<mCanceled, mFinished, mWorkThreads, posting, accepted, rejected, ran>>
        /\ client'[main] = client[main] \/ (client[main] = "waiting" /\ client'[main] = "woken")
    BY <1>0, <1>3 DEF SpuriousWakeup, flags, clients, history, QueueInv, TypeOK
  <2> QED BY <1>3, <2>1, JobQuiet
<1>4. CASE UNCHANGED imageVars
  BY <1>4, JobQuiet DEF imageVars, queueVars, flags, clients, history
<1> QED BY <1>1, <1>2, <1>3, <1>4 DEF ImagesNext

\* The invariant of the job holds in every state it can reach.
THEOREM JobInvariance == ImagesSpec => []ImagesInv
<1>1. ImagesInit => ImagesInv
  BY QueueAssumption DEF ImagesInit, Init, ImagesInv, PosterInv, EndInv, ErrorsInv
<1> QED BY <1>1, ImagesStep, JobQueue, TodoInvariance, PTL DEF ImagesSpec

\* When the job is done the queue is drained: every accepted unit was run.
LEMMA DoneDrained ==
  ASSUME JobQueueInv, ImagesInv, pc = "done"
  PROVE  accepted = ran /\ Queued = {} /\ Held = {} /\ freed = rejected
<1>1. Alive = {} BY DEF JobQueueInv, AliveInPool, ImagesInv, EndInv
<1>2. mWorkUnits = <<>>
  <2> SUFFICES ASSUME mWorkUnits # <<>> PROVE FALSE OBVIOUS
  <2>1. ~mCanceled /\ Started # {} BY DEF JobQueueInv, ServedInv
  <2>2. PICK t \in Threads : worker[t] # "none" BY <2>1 DEF Started
  <2>3. worker[t] = "exited" BY <1>1, <2>2 DEF Alive, JobQueueInv, QueueInv, TypeOK
  <2> QED BY <2>1, <2>3 DEF JobQueueInv, ServedInv, ExitedRightly, AlwaysOn
<1>3. Queued = {} BY <1>2 DEF Queued
<1>4. Held = {} BY <1>1 DEF Held, Alive
<1>5. accepted = ran BY <1>3, <1>4 DEF JobQueueInv, OwnInv, Places, ImagesInv, ErrorsInv
<1>6. image = NoUnit /\ NoUnit \notin rejected
  BY QueueAssumption DEF ImagesInv, PosterInv, JobQueueInv, QueueInv, TypeOK
<1> QED BY <1>3, <1>4, <1>5, <1>6 DEF ImagesInv, ErrorsInv

\* The result, read without a lock after the join, tells the truth about every image.
THEOREM ResultTruthful == ImagesSpec => []ResultTellsTruth
<1>1. JobQueueInv /\ ImagesInv => ResultTellsTruth
  <2> SUFFICES ASSUME JobQueueInv, ImagesInv, pc = "done"
      PROVE  IF Result = "ok"
             THEN todo = {} /\ accepted = ran /\ rejected = {} /\ ran \cap Broken = {}
             ELSE res = "error" \/ rejected # {} \/ ran \cap Broken # {}
    BY DEF ResultTellsTruth
  <2>1. accepted = ran /\ freed = rejected BY DoneDrained
  <2> QED BY <2>1 DEF Result, ImagesInv, ErrorsInv
<1> QED BY <1>1, JobQueue, JobInvariance, PTL

\* Every unit created is deleted exactly once, by the queue or by the poster it was refused to.
THEOREM UnitsFreed == ImagesSpec => []NoUnitLeaks
<1>1. JobQueueInv /\ ImagesInv => NoUnitLeaks
  <2> SUFFICES ASSUME JobQueueInv, ImagesInv, pc = "done", NEW u \in accepted \cup rejected
      PROVE  deletes[u] + (IF u \in freed THEN 1 ELSE 0) = 1
    BY DEF NoUnitLeaks
  <2>1. Queued = {} /\ Held = {} /\ freed = rejected BY DoneDrained
  <2>2. u \in Units BY DEF JobQueueInv, QueueInv, TypeOK
  <2>3. deletes[u] = IF u \in accepted THEN 1 ELSE 0
    BY <2>1, <2>2 DEF JobQueueInv, OwnInv, DeletedWhenGone
  <2>4. accepted \cap rejected = {} BY DEF JobQueueInv, OwnInv, Places
  <2> QED BY <2>1, <2>3, <2>4
<1> QED BY <1>1, JobQueue, JobInvariance, PTL

=============================================================================
