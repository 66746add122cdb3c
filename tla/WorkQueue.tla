----------------------------- MODULE WorkQueue -----------------------------
(***************************************************************************)
(* The threaded work queue of caapt (caapt/WorkQueue.cpp), which crunches  *)
(* the PNGs of a resource set in parallel (Resource.cpp, preProcessImages).*)
(*                                                                         *)
(* A stretch of code that holds mLock is one step; a condition variable is *)
(* the set of threads in state "waiting", a broadcast moves all of them to *)
(* a state in which they contend for the lock again, and so does a         *)
(* spurious wakeup.  Clients are the threads that call schedule, cancel    *)
(* and finish; the destructor is a cancel followed by a finish.            *)
(***************************************************************************)
EXTENDS Integers, Sequences, FiniteSets

CONSTANTS
  Threads,       \* mMaxThreads work threads
  Clients,       \* threads that use the queue
  Units,         \* bound: the work units that are ever posted
  Backlog,       \* schedule's second argument, 0 for no throttle
  MayStop,       \* units whose run() may return false
  SpawnMayFail,  \* TRUE: Thread::run may return an error
  NoUnit         \* no unit

ASSUME QueueAssumption ==
  /\ IsFiniteSet(Threads) /\ Threads # {}
  /\ IsFiniteSet(Clients)
  /\ Backlog \in Nat
  /\ MayStop \subseteq Units
  /\ SpawnMayFail \in BOOLEAN
  /\ NoUnit \notin Units

mMaxThreads == Cardinality(Threads)

VARIABLES
  mCanceled, mFinished, mIdleThreads,
  mWorkThreads,  \* threads in the vector of that name
  mWorkUnits,    \* the pending units
  worker,        \* state of each work thread
  workUnit,      \* unit each work thread took
  goOn,          \* what its run() returned
  client,        \* state of each client
  posting,       \* unit each client is blocked with in schedule
  \* history
  accepted,      \* units schedule returned OK for
  rejected,      \* units schedule returned an error for; their poster deletes them
  ran,           \* units that were run
  deletes        \* times the queue deleted each unit

flags     == <<mCanceled, mFinished>>
work      == <<worker, workUnit, goOn>>
clients   == <<client, posting>>
history   == <<accepted, rejected, ran, deletes>>
queueVars == <<flags, mIdleThreads, mWorkThreads, mWorkUnits, work, clients, history>>

Queued == {mWorkUnits[i] : i \in 1..Len(mWorkUnits)}
Full   == Backlog # 0 /\ Len(mWorkUnits) >= mMaxThreads * Backlog

-----------------------------------------------------------------------------
\* Condition variables.
BroadcastWorkChanged(w) == [t \in Threads |-> IF w[t] = "waiting" THEN "ready" ELSE w[t]]
BroadcastDequeued(cl)   == [c \in Clients |-> IF cl[c] = "waiting" THEN "woken" ELSE cl[c]]

Init ==
  /\ mCanceled = FALSE /\ mFinished = FALSE /\ mIdleThreads = 0
  /\ mWorkThreads = {} /\ mWorkUnits = <<>>
  /\ worker = [t \in Threads |-> "none"]
  /\ workUnit = [t \in Threads |-> NoUnit]
  /\ goOn = [t \in Threads |-> TRUE]
  /\ client = [c \in Clients |-> "idle"]
  /\ posting = [c \in Clients |-> NoUnit]
  /\ accepted = {} /\ rejected = {} /\ ran = {}
  /\ deletes = [u \in Units |-> 0]

\* Mutant: no broadcast of mWorkChangedCondition.
Enqueue_Silent(c, u, workers) ==
  /\ mWorkUnits' = Append(mWorkUnits, u)
  /\ worker' = workers
  /\ client' = [client EXCEPT ![c] = "idle"]
  /\ posting' = [posting EXCEPT ![c] = NoUnit]
  /\ accepted' = accepted \cup {u}
  /\ UNCHANGED <<flags, workUnit, goOn, rejected, ran, deletes>>

\* mWorkUnits.add(workUnit) and the broadcast, with the workers as they are by then.
Enqueue(c, u, workers) ==
  /\ mWorkUnits' = Append(mWorkUnits, u)
  /\ worker' = BroadcastWorkChanged(workers)
  /\ client' = [client EXCEPT ![c] = "idle"]
  /\ posting' = [posting EXCEPT ![c] = NoUnit]
  /\ accepted' = accepted \cup {u}
  /\ UNCHANGED <<flags, workUnit, goOn, rejected, ran, deletes>>

\* schedule returns an error: the caller keeps the unit.
Reject(c, u) ==
  /\ rejected' = rejected \cup {u}
  /\ client' = [client EXCEPT ![c] = "idle"]
  /\ posting' = [posting EXCEPT ![c] = NoUnit]
  /\ UNCHANGED <<flags, mIdleThreads, mWorkThreads, mWorkUnits, work, accepted, ran, deletes>>

\* A client calls schedule with a unit nobody posted before.
Posts(c, u) == client[c] = "idle" /\ u \notin accepted \cup rejected
                                  /\ \A d \in Clients : posting[d] # u

ScheduleClosed(c, u) ==
  /\ Posts(c, u)
  /\ mFinished \/ mCanceled
  /\ Reject(c, u)

\* Mutant: the unit being posted is not counted.
WantsThread_OffByOne == mWorkThreads # Threads /\ mIdleThreads < Len(mWorkUnits)

\* A new thread is wanted when every idle one has a pending unit to take.
WantsThread == mWorkThreads # Threads /\ mIdleThreads < Len(mWorkUnits) + 1

\* Mutant: the new thread is not counted idle.
ScheduleSpawn_NotCounted(c, u) ==
  /\ Posts(c, u)
  /\ ~mFinished /\ ~mCanceled
  /\ WantsThread
  /\ \E t \in Threads \ mWorkThreads :
       /\ mWorkThreads' = mWorkThreads \cup {t}
       /\ mIdleThreads' = mIdleThreads
       /\ Enqueue(c, u, [worker EXCEPT ![t] = "ready"])

\* Mutant: schedule only refuses a canceled queue.
ScheduleSpawn_AfterFinish(c, u) ==
  /\ Posts(c, u)
  /\ ~mCanceled
  /\ WantsThread
  /\ \E t \in Threads \ mWorkThreads :
       /\ mWorkThreads' = mWorkThreads \cup {t}
       /\ mIdleThreads' = mIdleThreads + 1
       /\ Enqueue(c, u, [worker EXCEPT ![t] = "ready"])

ScheduleSpawn(c, u) ==
  /\ Posts(c, u)
  /\ ~mFinished /\ ~mCanceled
  /\ WantsThread
  /\ \E t \in Threads \ mWorkThreads :
       /\ mWorkThreads' = mWorkThreads \cup {t}
       /\ mIdleThreads' = mIdleThreads + 1
       /\ Enqueue(c, u, [worker EXCEPT ![t] = "ready"])

ScheduleSpawnFails(c, u) ==
  /\ SpawnMayFail
  /\ Posts(c, u)
  /\ ~mFinished /\ ~mCanceled
  /\ WantsThread
  /\ Reject(c, u)

ScheduleDirect(c, u) ==
  /\ Posts(c, u)
  /\ ~mFinished /\ ~mCanceled
  /\ ~WantsThread /\ ~Full
  /\ Enqueue(c, u, worker)
  /\ UNCHANGED <<mIdleThreads, mWorkThreads>>

ScheduleBlocks(c, u) ==
  /\ Posts(c, u)
  /\ ~mFinished /\ ~mCanceled
  /\ ~WantsThread /\ Full
  /\ client' = [client EXCEPT ![c] = "waiting"]
  /\ posting' = [posting EXCEPT ![c] = u]
  /\ UNCHANGED <<flags, mIdleThreads, mWorkThreads, mWorkUnits, work, history>>

\* Mutant: the backlog is tested with if, not while.
ScheduleWoken_NoRecheck(c) ==
  /\ client[c] = "woken"
  /\ \/ /\ mFinished \/ mCanceled
        /\ Reject(c, posting[c])
     \/ /\ ~mFinished /\ ~mCanceled 
        /\ Enqueue(c, posting[c], worker)
        /\ UNCHANGED <<mIdleThreads, mWorkThreads>>
     \/ /\ ~mFinished /\ ~mCanceled /\ Full
        /\ client' = [client EXCEPT ![c] = "waiting"]
        /\ UNCHANGED <<flags, mIdleThreads, mWorkThreads, mWorkUnits, work, posting, history>>

\* Mutant: the flags are not tested again after the wait.
ScheduleWoken_NoFlags(c) ==
  /\ client[c] = "woken"
  /\ \/ /\ mFinished \/ mCanceled
        /\ Reject(c, posting[c])
     \/ /\ ~Full
        /\ Enqueue(c, posting[c], worker)
        /\ UNCHANGED <<mIdleThreads, mWorkThreads>>
     \/ /\ ~mFinished /\ ~mCanceled /\ Full
        /\ client' = [client EXCEPT ![c] = "waiting"]
        /\ UNCHANGED <<flags, mIdleThreads, mWorkThreads, mWorkUnits, work, posting, history>>

\* Back from mWorkDequeuedCondition.wait: the flags first, then the backlog.
ScheduleWoken(c) ==
  /\ client[c] = "woken"
  /\ \/ /\ mFinished \/ mCanceled
        /\ Reject(c, posting[c])
     \/ /\ ~mFinished /\ ~mCanceled /\ ~Full
        /\ Enqueue(c, posting[c], worker)
        /\ UNCHANGED <<mIdleThreads, mWorkThreads>>
     \/ /\ ~mFinished /\ ~mCanceled /\ Full
        /\ client' = [client EXCEPT ![c] = "waiting"]
        /\ UNCHANGED <<flags, mIdleThreads, mWorkThreads, mWorkUnits, work, posting, history>>

\* Mutant: the deleted units stay in mWorkUnits.
CancelLocked_NotCleared(workers) ==
  IF mFinished \/ mCanceled
  THEN /\ worker' = workers
       /\ UNCHANGED <<mCanceled, mWorkUnits, client, deletes>>
  ELSE /\ mCanceled' = TRUE
       /\ deletes' = [u \in Units |-> IF u \in Queued THEN deletes[u] + 1 ELSE deletes[u]]
       /\ mWorkUnits' = mWorkUnits
       /\ worker' = BroadcastWorkChanged(workers)
       /\ client' = BroadcastDequeued(client)

\* Mutant: no broadcast of mWorkDequeuedCondition.
CancelLocked_PostersSleep(workers) ==
  IF mFinished \/ mCanceled
  THEN /\ worker' = workers
       /\ UNCHANGED <<mCanceled, mWorkUnits, client, deletes>>
  ELSE /\ mCanceled' = TRUE
       /\ deletes' = [u \in Units |-> IF u \in Queued THEN deletes[u] + 1 ELSE deletes[u]]
       /\ mWorkUnits' = <<>>
       /\ worker' = BroadcastWorkChanged(workers)
       /\ client' = client

\* cancelLocked, with the workers as they are by then: nothing once finish was called.
CancelLocked(workers) ==
  IF mFinished \/ mCanceled
  THEN /\ worker' = workers
       /\ UNCHANGED <<mCanceled, mWorkUnits, client, deletes>>
  ELSE /\ mCanceled' = TRUE
       /\ deletes' = [u \in Units |-> IF u \in Queued THEN deletes[u] + 1 ELSE deletes[u]]
       /\ mWorkUnits' = <<>>
       /\ worker' = BroadcastWorkChanged(workers)
       /\ client' = BroadcastDequeued(client)

Cancel(c) ==
  /\ client[c] = "idle"
  /\ CancelLocked(worker)
  /\ UNCHANGED <<mFinished, mIdleThreads, mWorkThreads, workUnit, goOn, posting,
                 accepted, rejected, ran>>

\* Mutant: no broadcast of mWorkChangedCondition.
FinishBegin_Silent(c) ==
  /\ client[c] = "idle"
  /\ ~mFinished
  /\ mFinished' = TRUE
  /\ worker' = worker
  /\ client' = [client EXCEPT ![c] = "joining"]
  /\ UNCHANGED <<mCanceled, mIdleThreads, mWorkThreads, mWorkUnits, workUnit, goOn,
                 posting, history>>

\* finish: close the queue, wake the workers (not the blocked clients), then join.
FinishBegin(c) ==
  /\ client[c] = "idle"
  /\ ~mFinished
  /\ mFinished' = TRUE
  /\ worker' = BroadcastWorkChanged(worker)
  /\ client' = [client EXCEPT ![c] = "joining"]
  /\ UNCHANGED <<mCanceled, mIdleThreads, mWorkThreads, mWorkUnits, workUnit, goOn,
                 posting, history>>

FinishReturn(c) ==
  /\ client[c] = "joining"
  /\ \A t \in mWorkThreads : worker[t] = "exited"
  /\ mWorkThreads' = {}
  /\ client' = [client EXCEPT ![c] = "idle"]
  /\ UNCHANGED <<flags, mIdleThreads, mWorkUnits, work, posting, history>>

\* Mutant: no broadcast of mWorkDequeuedCondition.
Take_PostersSleep(t) ==
  /\ worker[t] = "ready"
  /\ ~mCanceled /\ mWorkUnits # <<>>
  /\ workUnit' = [workUnit EXCEPT ![t] = Head(mWorkUnits)]
  /\ mWorkUnits' = Tail(mWorkUnits)
  /\ mIdleThreads' = mIdleThreads - 1
  /\ worker' = [worker EXCEPT ![t] = "running"]
  /\ client' = client
  /\ UNCHANGED <<flags, mWorkThreads, goOn, posting, history>>

\* threadLoop, first critical section.
Take(t) ==
  /\ worker[t] = "ready"
  /\ ~mCanceled /\ mWorkUnits # <<>>
  /\ workUnit' = [workUnit EXCEPT ![t] = Head(mWorkUnits)]
  /\ mWorkUnits' = Tail(mWorkUnits)
  /\ mIdleThreads' = mIdleThreads - 1
  /\ worker' = [worker EXCEPT ![t] = "running"]
  /\ client' = BroadcastDequeued(client)
  /\ UNCHANGED <<flags, mWorkThreads, goOn, posting, history>>

\* Mutant: mFinished is tested before the pending units.
Exit_FinishedFirst(t) ==
  /\ worker[t] = "ready"
  /\ mCanceled \/ mFinished
  /\ worker' = [worker EXCEPT ![t] = "exited"]
  /\ UNCHANGED <<flags, mIdleThreads, mWorkThreads, mWorkUnits, workUnit, goOn, clients, history>>

Exit(t) ==
  /\ worker[t] = "ready"
  /\ mCanceled \/ (mWorkUnits = <<>> /\ mFinished)
  /\ worker' = [worker EXCEPT ![t] = "exited"]
  /\ UNCHANGED <<flags, mIdleThreads, mWorkThreads, mWorkUnits, workUnit, goOn, clients, history>>

WaitForWork(t) ==
  /\ worker[t] = "ready"
  /\ ~mCanceled /\ mWorkUnits = <<>> /\ ~mFinished
  /\ worker' = [worker EXCEPT ![t] = "waiting"]
  /\ UNCHANGED <<flags, mIdleThreads, mWorkThreads, mWorkUnits, workUnit, goOn, clients, history>>

\* workUnit->run() and delete workUnit, outside the lock.
RunUnit(t) ==
  /\ worker[t] = "running"
  /\ \E result \in (IF workUnit[t] \in MayStop THEN BOOLEAN ELSE {TRUE}) :
       goOn' = [goOn EXCEPT ![t] = result]
  /\ ran' = ran \cup {workUnit[t]}
  /\ deletes' = [deletes EXCEPT ![workUnit[t]] = @ + 1]
  /\ worker' = [worker EXCEPT ![t] = "ran"]
  /\ workUnit' = [workUnit EXCEPT ![t] = NoUnit]
  /\ UNCHANGED <<flags, mIdleThreads, mWorkThreads, mWorkUnits, clients, accepted, rejected>>

\* Mutant: the thread is not counted idle again.
Account_NotCounted(t) ==
  /\ worker[t] = "ran"
  /\ mIdleThreads' = mIdleThreads
  /\ \/ /\ goOn[t]
        /\ worker' = [worker EXCEPT ![t] = "ready"]
        /\ UNCHANGED <<mCanceled, mWorkUnits, client, deletes>>
     \/ /\ ~goOn[t]
        /\ CancelLocked([worker EXCEPT ![t] = "exited"])
  /\ UNCHANGED <<mFinished, mWorkThreads, workUnit, goOn, posting, accepted, rejected, ran>>

\* threadLoop, second critical section: count the thread idle again; a false result cancels
\* the queue and ends the thread.
Account(t) ==
  /\ worker[t] = "ran"
  /\ mIdleThreads' = mIdleThreads + 1
  /\ \/ /\ goOn[t]
        /\ worker' = [worker EXCEPT ![t] = "ready"]
        /\ UNCHANGED <<mCanceled, mWorkUnits, client, deletes>>
     \/ /\ ~goOn[t]
        /\ CancelLocked([worker EXCEPT ![t] = "exited"])
  /\ UNCHANGED <<mFinished, mWorkThreads, workUnit, goOn, posting, accepted, rejected, ran>>

\* pthread conditions may wake a waiter for nothing.
SpuriousWakeup ==
  \/ \E t \in Threads :
       /\ worker[t] = "waiting"
       /\ worker' = [worker EXCEPT ![t] = "ready"]
       /\ UNCHANGED <<flags, mIdleThreads, mWorkThreads, mWorkUnits, workUnit, goOn, clients, history>>
  \/ \E c \in Clients :
       /\ client[c] = "waiting"
       /\ client' = [client EXCEPT ![c] = "woken"]
       /\ UNCHANGED <<flags, mIdleThreads, mWorkThreads, mWorkUnits, work, posting, history>>

WorkerStep(t) == Take(t) \/ Exit(t) \/ WaitForWork(t) \/ RunUnit(t) \/ Account(t)

Schedule(c, u) == \/ ScheduleClosed(c, u) \/ ScheduleSpawn(c, u) \/ ScheduleSpawnFails(c, u)
                  \/ ScheduleDirect(c, u) \/ ScheduleBlocks(c, u)

Next ==
  \/ \E t \in Threads : WorkerStep(t)
  \/ \E c \in Clients : \/ \E u \in Units : Schedule(c, u)
                        \/ ScheduleWoken(c) \/ Cancel(c) \/ FinishBegin(c) \/ FinishReturn(c)
  \/ SpuriousWakeup

Spec == Init /\ [][Next]_queueVars

\* A work thread is scheduled, its units return, and a client that was woken or may return
\* from join does so.  Nobody has to call the queue, and no wakeup has to be spurious.
FairSpec ==
  /\ Spec
  /\ \A t \in Threads : WF_queueVars(WorkerStep(t))
  /\ \A c \in Clients : WF_queueVars(ScheduleWoken(c)) /\ WF_queueVars(FinishReturn(c))

-----------------------------------------------------------------------------
Alive == {t \in Threads : worker[t] \in {"ready", "waiting", "running", "ran"}}
Held  == {workUnit[t] : t \in {x \in Threads : worker[x] = "running"}}

\* The types, with what each state of a thread says about its unit and its place in the pool.
TypeOK ==
  /\ mCanceled \in BOOLEAN /\ mFinished \in BOOLEAN
  /\ mIdleThreads \in Nat
  /\ mWorkThreads \subseteq Threads
  /\ mWorkUnits \in Seq(Units)
  /\ worker \in [Threads -> {"none", "ready", "waiting", "running", "ran", "exited"}]
  /\ workUnit \in [Threads -> Units \cup {NoUnit}]
  /\ goOn \in [Threads -> BOOLEAN]
  /\ client \in [Clients -> {"idle", "waiting", "woken", "joining"}]
  /\ posting \in [Clients -> Units \cup {NoUnit}]
  /\ accepted \subseteq Units /\ rejected \subseteq Units /\ ran \subseteq Units
  /\ deletes \in [Units -> Nat]
  /\ \A t \in Threads : worker[t] = "running" <=> workUnit[t] # NoUnit
  /\ \A c \in Clients : client[c] \in {"waiting", "woken"} <=> posting[c] # NoUnit
  /\ \A c \in Clients : client[c] = "joining" => mFinished
  /\ ~mFinished => \A t \in Threads : t \in mWorkThreads <=> worker[t] # "none"

\* Threads without a unit, and threads that ended.
Idle(workers) == {t \in Threads : workers[t] \in {"ready", "waiting", "exited"}}

\* schedule decides on a new thread from mIdleThreads, a counter kept apart from the threads:
\* at every unlock it is the number of threads that wait for a unit, contend for the lock to
\* look for one, or ended.  A thread that ended, as the code has it, stays counted.
IdleThreadsExact == mIdleThreads = Cardinality(Idle(worker))

\* While the pool may still grow, every pending unit has an idle thread to take it: a queue
\* with work never runs on fewer threads than it could (schedule's mIdleThreads < size + 1).
PoolGrowsWithWork ==
  mWorkThreads # Threads /\ ~mFinished => Len(mWorkUnits) <= mIdleThreads

\* The throttle of schedule bounds the pending units, whoever posts, wakes or spawns meanwhile.
BacklogBound ==
  Backlog # 0 => Len(mWorkUnits) <= mMaxThreads * Backlog

\* No wakeup is lost: nobody waits on a condition that already holds.  finish never signals
\* mWorkDequeuedCondition, so a blocked poster is excused there as long as the queue is full.
NoLostWakeup ==
  /\ \A t \in Threads : worker[t] = "waiting" => mWorkUnits = <<>> /\ ~mCanceled /\ ~mFinished
  /\ \A c \in Clients : client[c] = "waiting" => Full /\ ~mCanceled

\* Ownership (WorkQueue.h, schedule): the queue deletes a unit it accepted once at most, never
\* while it is pending or running, and never one it refused or still blocks for.
DeletedOnce ==
  \A u \in Units :
    /\ deletes[u] <= IF u \in accepted THEN 1 ELSE 0
    /\ u \in Queued \cup Held => deletes[u] = 0
    /\ u \in rejected => u \notin accepted

\* Every thread that was started ended because a unit's run() returned false after finish had
\* closed the queue: cancelLocked does nothing then (WorkQueue.cpp:75), and what is pending stays.
Started     == {t \in Threads : worker[t] # "none"}
StoppedLate == /\ mFinished /\ ~mCanceled /\ Started # {}
               /\ \A t \in Started : worker[t] = "exited" /\ ~goOn[t]

\* finish has closed the queue and joined its threads.
FinishReturned == mFinished /\ mWorkThreads = {} /\ \A c \in Clients : client[c] # "joining"

\* "Waits for all work to complete" (WorkQueue.h, finish) and "takes ownership" (schedule):
\* when finish has returned no thread runs, and every accepted unit was run or discarded, and is
\* deleted.  A unit that stops the queue before finish discards the rest; only when units ended
\* every thread after finish may some be left.
FinishCompletes ==
  FinishReturned => /\ Alive = {}
                    /\ StoppedLate \/ \A u \in accepted : deletes[u] = 1

\* finish reads mWorkThreads outside the lock because "it is not possible for the list of work
\* threads to change once the mFinished flag has been set" (WorkQueue.cpp:105): the list only
\* changes then when finish clears it, and by then no thread of the pool runs.
ThreadsFixedOnceFinished ==
  [][mFinished /\ mWorkThreads' # mWorkThreads => mWorkThreads' = {} /\ Alive = {}]_queueVars

\* What the header promises as a whole, see WorkBag.
Bag == INSTANCE WorkBag WITH
  MaxRunning <- mMaxThreads,
  pending    <- mWorkUnits,
  running    <- Held,
  done       <- ran,
  dropped    <- accepted \ (Queued \cup Held \cup ran),
  closed     <- mFinished \/ mCanceled,
  canceled   <- mCanceled

RefinesBag == Bag!BagSpec

\* Every accepted unit is deleted in the end: it ran, or a cancel discarded it, also one that a
\* unit caused.  The exception is that of FinishCompletes.
UnitsServed == \A u \in Units : u \in accepted ~> deletes[u] > 0 \/ StoppedLate

\* A poster that schedule blocked gets an answer, also when the queue is canceled or finished
\* by another client meanwhile.  The exception is that of FinishCompletes: finish does not wake
\* the posters, and no thread is left to do it.
ScheduleReturns ==
  \A c \in Clients : client[c] = "waiting" ~> client[c] = "idle" \/ StoppedLate

\* finish returns, with every thread joined.
FinishReturns == \A c \in Clients : client[c] = "joining" ~> client[c] = "idle"

=============================================================================
