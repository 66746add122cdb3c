-------------------------- MODULE PreProcessImages --------------------------
(***************************************************************************)
(* preProcessImages (caapt/Resource.cpp): the images of a resource type    *)
(* are posted to a WorkQueue of their own, one unit each, and the queue is *)
(* finished.  The units and the poster share hasErrors, which no lock      *)
(* protects: the units only ever set it, and the poster reads it when      *)
(* finish has joined the threads.                                          *)
(***************************************************************************)
EXTENDS WorkQueue

CONSTANTS
  main,    \* the thread of the build
  Broken   \* images that preProcessImage fails on

ASSUME ImageAssumption == Clients = {main} /\ MayStop = {} /\ Broken \subseteq Units

VARIABLES
  pc,         \* where preProcessImages is
  todo,       \* images the iterator has not returned
  image,      \* image whose unit is being posted
  res,        \* what the iterator ended with
  hasErrors,
  freed       \* units preProcessImages deleted itself

jobVars   == <<pc, todo, image, res, freed>>
imageVars == <<queueVars, jobVars, hasErrors>>

ImagesInit ==
  /\ Init
  /\ pc = "next" /\ todo \in SUBSET Units /\ image = NoUnit
  /\ res = "ok" /\ hasErrors = FALSE /\ freed = {}

\* it.next, new PreProcessImageWorkUnit and the call of schedule.
Post ==
  /\ pc = "next"
  /\ \E u \in todo :
       /\ Schedule(main, u)
       /\ image' = u
       /\ todo' = todo \ {u}
  /\ pc' = "posting"
  /\ UNCHANGED <<res, hasErrors, freed>>

\* it.next ends the loop, at the last image or with an error.
IteratorEnds ==
  /\ pc = "next"
  /\ \/ todo = {} /\ UNCHANGED res
     \/ res' = "error"
  /\ pc' = "finish"
  /\ UNCHANGED <<queueVars, todo, image, hasErrors, freed>>

\* schedule woke up and goes on.
PostGoesOn ==
  /\ pc = "posting"
  /\ ScheduleWoken(main)
  /\ UNCHANGED <<jobVars, hasErrors>>

\* Mutant: the refused unit is forgotten.
PostReturns_NotFreed ==
  /\ pc = "posting" /\ client[main] = "idle"
  /\ \/ /\ image \in accepted
        /\ pc' = "next"
        /\ UNCHANGED <<hasErrors, freed>>
     \/ /\ image \notin accepted
        /\ hasErrors' = TRUE
        /\ freed' = freed
        /\ pc' = "finish"
  /\ image' = NoUnit
  /\ UNCHANGED <<queueVars, todo, res>>

\* schedule has returned: go on with the next image, or delete the unit and give up.
PostReturns ==
  /\ pc = "posting" /\ client[main] = "idle"
  /\ \/ /\ image \in accepted
        /\ pc' = "next"
        /\ UNCHANGED <<hasErrors, freed>>
     \/ /\ image \notin accepted
        /\ hasErrors' = TRUE
        /\ freed' = freed \cup {image}
        /\ pc' = "finish"
  /\ image' = NoUnit
  /\ UNCHANGED <<queueVars, todo, res>>

CallFinish ==
  /\ pc = "finish"
  /\ FinishBegin(main)
  /\ pc' = "joining"
  /\ UNCHANGED <<todo, image, res, hasErrors, freed>>

\* finish returns; the destructor's cancel finds the queue finished and does nothing.
FinishDone ==
  /\ pc = "joining"
  /\ FinishReturn(main)
  /\ pc' = "done"
  /\ UNCHANGED <<todo, image, res, hasErrors, freed>>

\* Mutant: every unit writes its status.
RunImage_Overwrites(t) ==
  /\ RunUnit(t)
  /\ hasErrors' = (workUnit[t] \in Broken)
  /\ UNCHANGED jobVars

\* PreProcessImageWorkUnit::run: an error is noted, and the queue goes on.
RunImage(t) ==
  /\ RunUnit(t)
  /\ hasErrors' = (hasErrors \/ workUnit[t] \in Broken)
  /\ UNCHANGED jobVars

ThreadStep(t) ==
  \/ RunImage(t)
  \/ /\ Take(t) \/ Exit(t) \/ WaitForWork(t) \/ Account(t)
     /\ UNCHANGED <<jobVars, hasErrors>>

Main == Post \/ IteratorEnds \/ PostGoesOn \/ PostReturns \/ CallFinish \/ FinishDone

ImagesNext ==
  \/ Main
  \/ \E t \in Threads : ThreadStep(t)
  \/ SpuriousWakeup /\ UNCHANGED <<jobVars, hasErrors>>

\* The build goes on as long as it can, and so does every work thread.
ImagesSpec ==
  /\ ImagesInit /\ [][ImagesNext]_imageVars
  /\ WF_imageVars(Main)
  /\ \A t \in Threads : WF_imageVars(ThreadStep(t))

-----------------------------------------------------------------------------
\* return (hasErrors || res < NO_ERROR) ? UNKNOWN_ERROR : NO_ERROR
Result == IF hasErrors \/ res = "error" THEN "error" ELSE "ok"

\* The result is read after the join and without a lock, and still tells the truth: no error
\* means that every image was crunched and none failed, an error has a cause.
ResultTellsTruth ==
  pc = "done" =>
    IF Result = "ok" THEN todo = {} /\ accepted = ran /\ rejected = {} /\ ran \cap Broken = {}
    ELSE res = "error" \/ rejected # {} \/ ran \cap Broken # {}

\* Every unit that was created is deleted once, by the queue or by the poster it refused.
NoUnitLeaks ==
  pc = "done" => \A u \in accepted \cup rejected :
                   deletes[u] + (IF u \in freed THEN 1 ELSE 0) = 1

\* preProcessImages returns: the throttled poster, the workers and the join never wait on
\* each other.
ImagesEnd == <>(pc = "done")

=============================================================================
