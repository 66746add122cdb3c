-------------------------- MODULE WorkQueueProofs --------------------------
(***************************************************************************)
(* Safety of the work queue for any number of threads, clients and units   *)
(* and any backlog.  The inductive invariant is TypeOK (which ties the     *)
(* thread states to the pool) with IdleThreadsExact: the pool decision of  *)
(* schedule is only right if the counter is.                               *)
(***************************************************************************)
EXTENDS WorkQueue, FiniteSetTheorems, SequenceTheorems, TLAPS

QueueInv == TypeOK /\ IdleThreadsExact

USE QueueAssumption

-----------------------------------------------------------------------------
\* The threads in Idle are finitely many; adding and removing one moves the count by one.
LEMMA IdleFinite ==
  ASSUME NEW w PROVE IsFiniteSet(Idle(w)) /\ Cardinality(Idle(w)) \in Nat
<1>1. Idle(w) \subseteq Threads BY DEF Idle
<1> QED BY <1>1, FS_Subset, FS_CardinalityType

LEMMA IdleEnters ==
  ASSUME NEW w, NEW x, NEW t \in Threads, t \notin Idle(w), Idle(x) = Idle(w) \cup {t}
  PROVE  Cardinality(Idle(x)) = Cardinality(Idle(w)) + 1
BY IdleFinite, FS_AddElement

LEMMA IdleLeaves ==
  ASSUME NEW w, NEW x, NEW t \in Threads, t \in Idle(w), Idle(x) = Idle(w) \ {t}
  PROVE  /\ Cardinality(Idle(x)) = Cardinality(Idle(w)) - 1
         /\ Cardinality(Idle(w)) >= 1
<1>1. t \notin Idle(x) /\ Idle(w) = Idle(x) \cup {t} OBVIOUS
<1>2. IsFiniteSet(Idle(x)) /\ Cardinality(Idle(x)) \in Nat BY IdleFinite
<1>3. Cardinality(Idle(x) \cup {t}) = Cardinality(Idle(x)) + 1 BY <1>1, <1>2, FS_AddElement, Zenon
<1>4. Cardinality(Idle(w)) = Cardinality(Idle(x)) + 1 BY <1>1, <1>3, Zenon
<1>5. QED BY <1>2, <1>4

\* A broadcast moves threads between states, never in or out of Idle.
LEMMA BroadcastKeepsIdle ==
  ASSUME NEW w \in [Threads -> {"none", "ready", "waiting", "running", "ran", "exited"}]
  PROVE  /\ Idle(BroadcastWorkChanged(w)) = Idle(w)
         /\ BroadcastWorkChanged(w) \in [Threads -> {"none", "ready", "running", "ran", "exited"}]
         /\ \A t \in Threads : /\ BroadcastWorkChanged(w)[t] = "running" <=> w[t] = "running"
                               /\ BroadcastWorkChanged(w)[t] = "none" <=> w[t] = "none"
BY DEF BroadcastWorkChanged, Idle

LEMMA DequeuedTypes ==
  ASSUME NEW cl \in [Clients -> {"idle", "waiting", "woken", "joining"}]
  PROVE  /\ BroadcastDequeued(cl) \in [Clients -> {"idle", "woken", "joining"}]
         /\ \A c \in Clients : /\ BroadcastDequeued(cl)[c] \in {"waiting", "woken"}
                                   <=> cl[c] \in {"waiting", "woken"}
                               /\ BroadcastDequeued(cl)[c] = "joining" <=> cl[c] = "joining"
BY DEF BroadcastDequeued

-----------------------------------------------------------------------------
LEMMA InitInv == Init => QueueInv
<1> SUFFICES ASSUME Init PROVE QueueInv OBVIOUS
<1>1. Idle(worker) = {} BY DEF Init, Idle
<1>2. Cardinality(Idle(worker)) = 0 BY <1>1, FS_EmptySet
<1>3. mWorkUnits \in Seq(Units) BY DEF Init
<1>4. TypeOK BY <1>3 DEF Init, TypeOK
<1> QED BY <1>2, <1>4 DEF Init, QueueInv, IdleThreadsExact

\* What Enqueue, Reject and CancelLocked do to the parts of TypeOK they write.
LEMMA RejectTypes ==
  ASSUME QueueInv, NEW c \in Clients, NEW u \in Units, Reject(c, u)
  PROVE  QueueInv'
<1>1. TypeOK' BY DEF QueueInv, TypeOK, Reject, flags, work
<1>2. IdleThreadsExact' BY DEF QueueInv, Reject, IdleThreadsExact, Idle, work
<1> QED BY <1>1, <1>2 DEF QueueInv

LEMMA EnqueueTypes ==
  ASSUME QueueInv, NEW c \in Clients, NEW u \in Units,
         NEW w \in [Threads -> {"none", "ready", "waiting", "running", "ran", "exited"}],
         \A t \in Threads : w[t] = "running" <=> workUnit[t] # NoUnit,
         ~mFinished,
         mWorkThreads' \subseteq Threads, mIdleThreads' = Cardinality(Idle(w)),
         \A t \in Threads : t \in mWorkThreads' <=> w[t] # "none",
         Enqueue(c, u, w)
  PROVE  QueueInv'
<1>1. IdleThreadsExact' BY BroadcastKeepsIdle DEF Enqueue, IdleThreadsExact, Idle
<1>2. mIdleThreads' \in Nat BY IdleFinite
<1>3. TypeOK' BY <1>2, BroadcastKeepsIdle DEF QueueInv, TypeOK, Enqueue, flags
<1> QED BY <1>1, <1>3 DEF QueueInv


-----------------------------------------------------------------------------
\* CancelLocked, with workers that agree with the pool and the units.
LEMMA CancelTypes ==
  ASSUME TypeOK,
         NEW w \in [Threads -> {"none", "ready", "waiting", "running", "ran", "exited"}],
         CancelLocked(w)
  PROVE  /\ mCanceled' \in BOOLEAN
         /\ mWorkUnits' \in Seq(Units)
         /\ deletes' \in [Units -> Nat]
         /\ client' \in [Clients -> {"idle", "waiting", "woken", "joining"}]
         /\ \A c \in Clients : /\ client'[c] \in {"waiting", "woken"}
                                   <=> client[c] \in {"waiting", "woken"}
                               /\ client'[c] = "joining" <=> client[c] = "joining"
         /\ worker' \in [Threads -> {"none", "ready", "waiting", "running", "ran", "exited"}]
         /\ Idle(worker') = Idle(w)
         /\ \A t \in Threads : /\ worker'[t] = "running" <=> w[t] = "running"
                               /\ worker'[t] = "none" <=> w[t] = "none"
<1>1. CASE mFinished \/ mCanceled BY <1>1 DEF CancelLocked, TypeOK
<1>2. CASE ~(mFinished \/ mCanceled)
  <2>1. mCanceled' = TRUE /\ mWorkUnits' = <<>> /\ worker' = BroadcastWorkChanged(w)
        /\ client' = BroadcastDequeued(client)
    BY <1>2 DEF CancelLocked
  <2>2. deletes' \in [Units -> Nat] BY <1>2 DEF CancelLocked, TypeOK
  <2> QED BY <2>1, <2>2, BroadcastKeepsIdle, DequeuedTypes DEF TypeOK
<1> QED BY <1>1, <1>2

-----------------------------------------------------------------------------
(* One lemma per action, for those that write worker or mIdleThreads.      *)

LEMMA SpawnInv ==
  ASSUME QueueInv, NEW c \in Clients, NEW u \in Units, ScheduleSpawn(c, u)
  PROVE  QueueInv'
<1>1. PICK t \in Threads \ mWorkThreads :
         /\ mWorkThreads' = mWorkThreads \cup {t}
         /\ mIdleThreads' = mIdleThreads + 1
         /\ Enqueue(c, u, [worker EXCEPT ![t] = "ready"])
  BY DEF ScheduleSpawn
<1> DEFINE w == [worker EXCEPT ![t] = "ready"]
<1>2. ~mFinished /\ worker[t] = "none" BY DEF ScheduleSpawn, QueueInv, TypeOK
<1>3. t \notin Idle(worker) /\ Idle(w) = Idle(worker) \cup {t}
  BY <1>2 DEF Idle, QueueInv, TypeOK
<1>4. mIdleThreads' = Cardinality(Idle(w))
  <2>1. Cardinality(Idle(w)) = Cardinality(Idle(worker)) + 1
    <3> HIDE DEF w
    <3> QED BY <1>3, IdleEnters
  <2> QED BY <1>1, <2>1 DEF QueueInv, IdleThreadsExact
<1>5. /\ w \in [Threads -> {"none", "ready", "waiting", "running", "ran", "exited"}]
      /\ \A s \in Threads : w[s] = "running" <=> workUnit[s] # NoUnit
      /\ mWorkThreads' \subseteq Threads
      /\ \A s \in Threads : s \in mWorkThreads' <=> w[s] # "none"
  BY <1>1, <1>2 DEF QueueInv, TypeOK
<1>6. Enqueue(c, u, w) BY <1>1
<1> HIDE DEF w
<1> QED BY <1>2, <1>4, <1>5, <1>6, EnqueueTypes

LEMMA DirectInv ==
  ASSUME QueueInv, NEW c \in Clients, NEW u \in Units, ~mFinished,
         Enqueue(c, u, worker), UNCHANGED <<mIdleThreads, mWorkThreads>>
  PROVE  QueueInv'
<1>1. mIdleThreads' = Cardinality(Idle(worker)) BY DEF QueueInv, IdleThreadsExact
<1> QED BY <1>1, EnqueueTypes DEF QueueInv, TypeOK

LEMMA WokenInv == ASSUME QueueInv, NEW c \in Clients, ScheduleWoken(c) PROVE QueueInv'
<1>1. posting[c] \in Units BY DEF ScheduleWoken, QueueInv, TypeOK
<1>2. CASE mFinished \/ mCanceled
  <2>1. Reject(c, posting[c]) BY <1>2 DEF ScheduleWoken
  <2> QED BY <1>1, <2>1, RejectTypes
<1>3. CASE ~mFinished /\ ~mCanceled /\ ~Full
  <2>1. Enqueue(c, posting[c], worker) /\ UNCHANGED <<mIdleThreads, mWorkThreads>>
    BY <1>3 DEF ScheduleWoken
  <2> QED BY <1>1, <1>3, <2>1, DirectInv
<1>4. CASE ~mFinished /\ ~mCanceled /\ Full
  BY <1>4 DEF ScheduleWoken, QueueInv, TypeOK, IdleThreadsExact, Idle, flags, work, history
<1> QED BY <1>2, <1>3, <1>4

LEMMA TakeInv == ASSUME QueueInv, NEW t \in Threads, Take(t) PROVE QueueInv'
<1>1. t \in Idle(worker) /\ Idle(worker') = Idle(worker) \ {t}
  BY DEF Take, Idle, QueueInv, TypeOK
<1>2. /\ Cardinality(Idle(worker')) = Cardinality(Idle(worker)) - 1
      /\ Cardinality(Idle(worker)) >= 1
  BY <1>1, IdleLeaves
<1>3. IdleThreadsExact' /\ mIdleThreads' \in Nat
  BY <1>2 DEF Take, QueueInv, TypeOK, IdleThreadsExact, Idle
<1>4. Head(mWorkUnits) \in Units /\ Tail(mWorkUnits) \in Seq(Units)
  BY DEF Take, QueueInv, TypeOK
<1>5. workUnit' \in [Threads -> Units \cup {NoUnit}]
      /\ mWorkUnits' \in Seq(Units)
  BY <1>4 DEF Take, QueueInv, TypeOK
<1>6. worker' = [worker EXCEPT ![t] = "running"]
      /\ workUnit' = [workUnit EXCEPT ![t] = Head(mWorkUnits)]
      /\ client' = BroadcastDequeued(client) /\ worker[t] = "ready"
      /\ UNCHANGED <<flags, mWorkThreads, goOn, posting, history>>
  BY DEF Take
<1>7. \A s \in Threads : worker'[s] = "running" <=> workUnit'[s] # NoUnit
  BY <1>4, <1>6 DEF QueueInv, TypeOK
<1>8. TypeOK'
  BY <1>3, <1>5, <1>6, <1>7, DequeuedTypes DEF QueueInv, TypeOK, flags, history
<1> QED BY <1>3, <1>8 DEF QueueInv

LEMMA AccountInv == ASSUME QueueInv, NEW t \in Threads, Account(t) PROVE QueueInv'
<1>1. worker[t] = "ran" /\ t \notin Idle(worker) BY DEF Account, Idle
<1>2. SUFFICES ASSUME NEW next \in {"ready", "exited"},
                      Idle(worker') = Idle([worker EXCEPT ![t] = next]),
                      worker' \in [Threads -> {"none", "ready", "waiting", "running", "ran", "exited"}],
                      \A s \in Threads : /\ worker'[s] = "running" <=> worker[s] = "running"
                                         /\ worker'[s] = "none" <=> worker[s] = "none",
                      mCanceled' \in BOOLEAN, mWorkUnits' \in Seq(Units),
                      client' \in [Clients -> {"idle", "waiting", "woken", "joining"}],
                      \A c \in Clients : /\ client'[c] \in {"waiting", "woken"}
                                             <=> client[c] \in {"waiting", "woken"}
                                         /\ client'[c] = "joining" <=> client[c] = "joining",
                      deletes' \in [Units -> Nat]
               PROVE  QueueInv'
  <2>1. CASE goOn[t] /\ worker' = [worker EXCEPT ![t] = "ready"]
                     /\ UNCHANGED <<mCanceled, mWorkUnits, client, deletes>>
    BY <1>1, <1>2, <2>1 DEF QueueInv, TypeOK
  <2>2. CASE ~goOn[t] /\ CancelLocked([worker EXCEPT ![t] = "exited"])
    <3> DEFINE w == [worker EXCEPT ![t] = "exited"]
    <3>1. w \in [Threads -> {"none", "ready", "waiting", "running", "ran", "exited"}]
          /\ \A s \in Threads : /\ w[s] = "running" <=> worker[s] = "running"
                                /\ w[s] = "none" <=> worker[s] = "none"
      BY <1>1 DEF QueueInv, TypeOK
    <3>2. CancelLocked(w) BY <2>2
    <3>3. TypeOK BY DEF QueueInv
    <3>4. Idle(worker') = Idle(w) 
          /\ worker' \in [Threads -> {"none", "ready", "waiting", "running", "ran", "exited"}]
          /\ \A s \in Threads : /\ worker'[s] = "running" <=> worker[s] = "running"
                                /\ worker'[s] = "none" <=> worker[s] = "none"
      <4> HIDE DEF w
      <4> QED BY <3>1, <3>2, <3>3, CancelTypes
    <3>5. /\ mCanceled' \in BOOLEAN /\ mWorkUnits' \in Seq(Units)
          /\ client' \in [Clients -> {"idle", "waiting", "woken", "joining"}]
          /\ \A c \in Clients : /\ client'[c] \in {"waiting", "woken"}
                                    <=> client[c] \in {"waiting", "woken"}
                                /\ client'[c] = "joining" <=> client[c] = "joining"
          /\ deletes' \in [Units -> Nat]
      <4> HIDE DEF w
      <4> QED BY <3>1, <3>2, <3>3, CancelTypes
    <3> QED BY <1>2, <3>4, <3>5
  <2> QED BY <2>1, <2>2 DEF Account
<1>3. Idle(worker') = Idle(worker) \cup {t}
  BY <1>1, <1>2 DEF Idle, QueueInv, TypeOK
<1>4. Cardinality(Idle(worker')) = Cardinality(Idle(worker)) + 1
  BY <1>1, <1>3, IdleEnters
<1>5. IdleThreadsExact' BY <1>4 DEF Account, QueueInv, IdleThreadsExact, Idle
<1>6. TypeOK'
  BY <1>2 DEF Account, QueueInv, TypeOK
<1> QED BY <1>5, <1>6 DEF QueueInv

LEMMA CancelInv == ASSUME QueueInv, NEW c \in Clients, Cancel(c) PROVE QueueInv'
<1>1. TypeOK /\ worker \in [Threads -> {"none", "ready", "waiting", "running", "ran", "exited"}]
  BY DEF QueueInv, TypeOK
<1>2. CancelLocked(worker) BY DEF Cancel
<1>3. Idle(worker') = Idle(worker) BY <1>1, <1>2, CancelTypes
<1>4. IdleThreadsExact' BY <1>3 DEF Cancel, QueueInv, IdleThreadsExact, Idle
<1>5. TypeOK' BY <1>1, <1>2, CancelTypes DEF Cancel, TypeOK
<1> QED BY <1>4, <1>5 DEF QueueInv

LEMMA FinishBeginInv == ASSUME QueueInv, NEW c \in Clients, FinishBegin(c) PROVE QueueInv'
<1>1. worker \in [Threads -> {"none", "ready", "waiting", "running", "ran", "exited"}]
  BY DEF QueueInv, TypeOK
<1>2. worker' = BroadcastWorkChanged(worker) BY DEF FinishBegin
<1>3. IdleThreadsExact'
  BY <1>1, <1>2, BroadcastKeepsIdle DEF FinishBegin, QueueInv, IdleThreadsExact, Idle
<1>4. TypeOK'
  BY <1>1, <1>2, BroadcastKeepsIdle DEF FinishBegin, QueueInv, TypeOK, history
<1> QED BY <1>3, <1>4 DEF QueueInv

\* The steps of a work thread that stay in Idle, or outside of it.
LEMMA SameIdleInv ==
  ASSUME QueueInv, NEW t \in Threads, Exit(t) \/ WaitForWork(t) \/ RunUnit(t)
  PROVE  QueueInv'
<1>1. Idle(worker') = Idle(worker)
  BY DEF Exit, WaitForWork, RunUnit, QueueInv, TypeOK, Idle
<1>2. IdleThreadsExact'
  BY <1>1 DEF Exit, WaitForWork, RunUnit, QueueInv, IdleThreadsExact, Idle
<1>3. TypeOK'
  <2>1. CASE Exit(t) \/ WaitForWork(t)
    BY <2>1 DEF Exit, WaitForWork, QueueInv, TypeOK, flags, clients, history
  <2>2. CASE RunUnit(t)
    <3>1. workUnit[t] \in Units BY <2>2 DEF RunUnit, QueueInv, TypeOK
    <3>2. deletes' \in [Units -> Nat] BY <2>2, <3>1 DEF RunUnit, QueueInv, TypeOK
    <3>3. goOn' \in [Threads -> BOOLEAN] BY <2>2 DEF RunUnit, QueueInv, TypeOK
    <3> QED BY <2>2, <3>1, <3>2, <3>3 DEF RunUnit, QueueInv, TypeOK, flags, clients
  <2> QED BY <2>1, <2>2
<1> QED BY <1>2, <1>3 DEF QueueInv

LEMMA NextInv == QueueInv /\ [Next]_queueVars => QueueInv'
<1> SUFFICES ASSUME QueueInv, [Next]_queueVars PROVE QueueInv' OBVIOUS
<1>1. ASSUME NEW t \in Threads, WorkerStep(t) PROVE QueueInv'
  BY <1>1, TakeInv, SameIdleInv, AccountInv DEF WorkerStep
<1>2. ASSUME NEW c \in Clients, NEW u \in Units, Schedule(c, u) PROVE QueueInv'
  <2>1. CASE ScheduleClosed(c, u) \/ ScheduleSpawnFails(c, u)
    BY <2>1, RejectTypes DEF ScheduleClosed, ScheduleSpawnFails
  <2>2. CASE ScheduleSpawn(c, u) BY <2>2, SpawnInv
  <2>3. CASE ScheduleDirect(c, u) BY <2>3, DirectInv DEF ScheduleDirect
  <2>4. CASE ScheduleBlocks(c, u)
    BY <2>4 DEF ScheduleBlocks, QueueInv, TypeOK, IdleThreadsExact, Idle, flags, work, history
  <2> QED BY <1>2, <2>1, <2>2, <2>3, <2>4 DEF Schedule
<1>3. ASSUME NEW c \in Clients, FinishReturn(c) PROVE QueueInv'
  BY <1>3 DEF FinishReturn, QueueInv, TypeOK, IdleThreadsExact, Idle, flags, work, history
<1>4. ASSUME SpuriousWakeup PROVE QueueInv'
  BY <1>4 DEF SpuriousWakeup, QueueInv, TypeOK, IdleThreadsExact, Idle, flags, work, clients, history
<1>5. ASSUME UNCHANGED queueVars PROVE QueueInv'
  BY <1>5 DEF queueVars, QueueInv, TypeOK, IdleThreadsExact, Idle, flags, work, clients, history
<1> QED BY <1>1, <1>2, <1>3, <1>4, <1>5, WokenInv, CancelInv, FinishBeginInv DEF Next

\* The types hold and the pool counter is exact in every reachable state (schedule's decision
\* to spawn reads it).
THEOREM QueueInvariance == Spec => []QueueInv
BY InitInv, NextInv, PTL DEF Spec

\* Type correctness, with the agreement between thread states, units and the pool.
THEOREM QueueTypes == Spec => []TypeOK
<1>1. QueueInv => TypeOK BY DEF QueueInv
<1> QED BY <1>1, QueueInvariance, PTL

\* The counter the pool decision reads is exact, for any number of threads.
THEOREM IdleThreads == Spec => []IdleThreadsExact
<1>1. QueueInv => IdleThreadsExact BY DEF QueueInv
<1> QED BY <1>1, QueueInvariance, PTL

-----------------------------------------------------------------------------
(* No wakeup is lost.                                                      *)

Limit == mMaxThreads * Backlog

LEMMA LimitNat == mMaxThreads \in Nat /\ Limit \in Nat
BY FS_CardinalityType DEF mMaxThreads, Limit

LEMMA FullGrows ==
  ASSUME QueueInv, NEW u \in Units, Full, mWorkUnits' = Append(mWorkUnits, u)
  PROVE  Full'
<1>1. Len(mWorkUnits) \in Nat /\ Len(mWorkUnits') = Len(mWorkUnits) + 1
  BY DEF QueueInv, TypeOK
<1>2. Backlog # 0 /\ Len(mWorkUnits) >= Limit BY DEF Full, Limit
<1>3. Len(mWorkUnits') >= Limit BY <1>1, <1>2, LimitNat
<1> QED BY <1>2, <1>3 DEF Full, Limit

LEMMA EnqueueWakes ==
  ASSUME QueueInv, NoLostWakeup, NEW c \in Clients, NEW u \in Units,
         NEW w \in [Threads -> {"none", "ready", "waiting", "running", "ran", "exited"}],
         Enqueue(c, u, w)
  PROVE  NoLostWakeup'
<1>1. \A t \in Threads : worker'[t] # "waiting" BY BroadcastKeepsIdle DEF Enqueue
<1>2. Full => Full' BY FullGrows DEF Enqueue
<1>3. \A d \in Clients : client'[d] = "waiting" => client[d] = "waiting"
  BY DEF Enqueue, QueueInv, TypeOK
<1> QED BY <1>1, <1>2, <1>3 DEF Enqueue, NoLostWakeup, flags

LEMMA RejectWakes ==
  ASSUME QueueInv, NoLostWakeup, NEW c \in Clients, NEW u, Reject(c, u)
  PROVE  NoLostWakeup'
BY DEF Reject, NoLostWakeup, QueueInv, TypeOK, Full, flags, work

LEMMA DequeuedWakes ==
  ASSUME QueueInv, client' = BroadcastDequeued(client)
  PROVE  \A c \in Clients : client'[c] # "waiting"
<1>1. client \in [Clients -> {"idle", "waiting", "woken", "joining"}] BY DEF QueueInv, TypeOK
<1>2. BroadcastDequeued(client) \in [Clients -> {"idle", "woken", "joining"}]
  BY <1>1, DequeuedTypes
<1> QED BY <1>2

LEMMA CancelWakes ==
  ASSUME QueueInv, NoLostWakeup, UNCHANGED mFinished,
         NEW w \in [Threads -> {"none", "ready", "waiting", "running", "ran", "exited"}],
         \A t \in Threads : w[t] = "waiting" => worker[t] = "waiting",
         CancelLocked(w)
  PROVE  NoLostWakeup'
<1>1. CASE mFinished \/ mCanceled BY <1>1 DEF CancelLocked, NoLostWakeup, Full
<1>2. CASE ~(mFinished \/ mCanceled)
  <2>1. worker' = BroadcastWorkChanged(w) /\ client' = BroadcastDequeued(client)
    BY <1>2 DEF CancelLocked
  <2>2. \A t \in Threads : worker'[t] # "waiting" BY <2>1, BroadcastKeepsIdle
  <2>3. \A c \in Clients : client'[c] # "waiting" BY <2>1, DequeuedWakes
  <2> QED BY <2>2, <2>3 DEF NoLostWakeup
<1> QED BY <1>1, <1>2

LEMMA WakeupStep == QueueInv /\ NoLostWakeup /\ [Next]_queueVars => NoLostWakeup'
<1> SUFFICES ASSUME QueueInv, NoLostWakeup, [Next]_queueVars PROVE NoLostWakeup' OBVIOUS
<1> DEFINE States == {"none", "ready", "waiting", "running", "ran", "exited"}
<1>0. worker \in [Threads -> States] BY DEF QueueInv, TypeOK
<1>1. ASSUME NEW t \in Threads, Take(t) PROVE NoLostWakeup'
  <2>1. \A c \in Clients : client'[c] # "waiting"
    BY <1>1, DequeuedWakes DEF Take
  <2>2. \A s \in Threads : worker'[s] # "waiting"
    BY <1>1 DEF Take, NoLostWakeup, QueueInv, TypeOK
  <2> QED BY <2>1, <2>2 DEF NoLostWakeup
<1>2. ASSUME NEW t \in Threads, Exit(t) \/ WaitForWork(t) \/ RunUnit(t) PROVE NoLostWakeup'
  <2>1. CASE Exit(t) BY <2>1, <1>0 DEF Exit, NoLostWakeup, Full, flags, clients
  <2>2. CASE WaitForWork(t) BY <2>2, <1>0 DEF WaitForWork, NoLostWakeup, Full, flags, clients
  <2>3. CASE RunUnit(t) BY <2>3, <1>0 DEF RunUnit, NoLostWakeup, Full, flags, clients
  <2> QED BY <1>2, <2>1, <2>2, <2>3
<1>3. ASSUME NEW t \in Threads, Account(t) PROVE NoLostWakeup'
  <2>1. CASE goOn[t] /\ worker' = [worker EXCEPT ![t] = "ready"]
                     /\ UNCHANGED <<mCanceled, mWorkUnits, client, deletes>>
    BY <1>3, <2>1 DEF Account, NoLostWakeup, QueueInv, TypeOK, Full
  <2>2. CASE CancelLocked([worker EXCEPT ![t] = "exited"])
    <3>1. UNCHANGED mFinished BY <1>3 DEF Account
    <3>2. /\ [worker EXCEPT ![t] = "exited"] \in [Threads -> States]
          /\ \A s \in Threads : [worker EXCEPT ![t] = "exited"][s] = "waiting" => worker[s] = "waiting"
      BY <1>0
    <3> QED BY <2>2, <3>1, <3>2, CancelWakes
  <2> QED BY <1>3, <2>1, <2>2 DEF Account
<1>4. ASSUME NEW c \in Clients, NEW u \in Units, Schedule(c, u) PROVE NoLostWakeup'
  <2>1. CASE ScheduleClosed(c, u) \/ ScheduleSpawnFails(c, u)
    BY <2>1, RejectWakes DEF ScheduleClosed, ScheduleSpawnFails
  <2>2. CASE ScheduleSpawn(c, u)
    <3>1. PICK t \in Threads : Enqueue(c, u, [worker EXCEPT ![t] = "ready"])
      BY <2>2 DEF ScheduleSpawn
    <3>2. [worker EXCEPT ![t] = "ready"] \in [Threads -> States] BY <1>0
    <3> QED BY <3>1, <3>2, EnqueueWakes
  <2>3. CASE ScheduleDirect(c, u) BY <1>0, <2>3, EnqueueWakes DEF ScheduleDirect
  <2>4. CASE ScheduleBlocks(c, u)
    BY <2>4 DEF ScheduleBlocks, NoLostWakeup, QueueInv, TypeOK, Full, flags, work, history
  <2> QED BY <1>4, <2>1, <2>2, <2>3, <2>4 DEF Schedule
<1>5. ASSUME NEW c \in Clients, ScheduleWoken(c) PROVE NoLostWakeup'
  <2>1. posting[c] \in Units BY <1>5 DEF ScheduleWoken, QueueInv, TypeOK
  <2>2. CASE Reject(c, posting[c]) BY <2>2, RejectWakes
  <2>3. CASE Enqueue(c, posting[c], worker) BY <1>0, <2>1, <2>3, EnqueueWakes
  <2>4. CASE /\ ~mCanceled /\ Full /\ client' = [client EXCEPT ![c] = "waiting"]
             /\ UNCHANGED <<flags, mIdleThreads, mWorkThreads, mWorkUnits, work, posting, history>>
    BY <2>4 DEF NoLostWakeup, QueueInv, TypeOK, Full, flags, work
  <2> QED BY <1>5, <2>2, <2>3, <2>4 DEF ScheduleWoken
<1>6. ASSUME NEW c \in Clients, Cancel(c) PROVE NoLostWakeup'
  BY <1>0, <1>6, CancelWakes DEF Cancel
<1>7. ASSUME NEW c \in Clients, FinishBegin(c) PROVE NoLostWakeup'
  <2>1. \A t \in Threads : worker'[t] # "waiting"
    BY <1>0, <1>7, BroadcastKeepsIdle DEF FinishBegin
  <2> QED BY <1>7, <2>1 DEF FinishBegin, NoLostWakeup, QueueInv, TypeOK, Full
<1>8. ASSUME NEW c \in Clients, FinishReturn(c) PROVE NoLostWakeup'
  BY <1>8 DEF FinishReturn, NoLostWakeup, QueueInv, TypeOK, Full, flags, work
<1>9. ASSUME SpuriousWakeup PROVE NoLostWakeup'
  BY <1>9 DEF SpuriousWakeup, NoLostWakeup, QueueInv, TypeOK, Full, flags, work, clients
<1>10. ASSUME UNCHANGED queueVars PROVE NoLostWakeup'
  BY <1>10 DEF queueVars, NoLostWakeup, Full, flags, work, clients
<1> QED BY <1>1, <1>2, <1>3, <1>4, <1>5, <1>6, <1>7, <1>8, <1>9, <1>10 DEF Next, WorkerStep

\* Nobody waits on a condition that holds: WorkQueue's broadcasts are enough, for any number of
\* threads and posters.
THEOREM NoWakeupLost == Spec => []NoLostWakeup
<1>1. Init => NoLostWakeup BY DEF Init, NoLostWakeup
<1> QED BY <1>1, WakeupStep, QueueInvariance, PTL DEF Spec

-----------------------------------------------------------------------------
(* The pool grows with the work, and the backlog is bounded.               *)

\* A poster only blocks when the pool is complete, which it stays until finish.
BlockedOnFullPool ==
  \A c \in Clients : client[c] \in {"waiting", "woken"} => mWorkThreads = Threads \/ mFinished

PoolInv == PoolGrowsWithWork /\ BlockedOnFullPool /\ BacklogBound

\* A pool that may grow has fewer threads than mMaxThreads, so fewer idle ones.
LEMMA RoomInPool ==
  ASSUME QueueInv, ~mFinished, NEW t \in Threads \ mWorkThreads
  PROVE  mIdleThreads + 1 <= mMaxThreads
<1>1. t \notin Idle(worker) BY DEF QueueInv, TypeOK, Idle
<1>2. IsFiniteSet(Idle(worker)) /\ Cardinality(Idle(worker)) \in Nat BY IdleFinite
<1>3. Cardinality(Idle(worker) \cup {t}) = Cardinality(Idle(worker)) + 1
  BY <1>1, <1>2, FS_AddElement, Zenon
<1>4. Cardinality(Idle(worker) \cup {t}) <= Cardinality(Threads)
  <2>1. Idle(worker) \cup {t} \subseteq Threads BY DEF Idle
  <2> QED BY <2>1, FS_Subset
<1> QED BY <1>3, <1>4 DEF QueueInv, IdleThreadsExact, mMaxThreads

\* One unit more in the queue.
LEMMA OneMore ==
  ASSUME QueueInv, NEW u \in Units, mWorkUnits' = Append(mWorkUnits, u)
  PROVE  Len(mWorkUnits) \in Nat /\ Len(mWorkUnits') = Len(mWorkUnits) + 1
BY DEF QueueInv, TypeOK

LEMMA SpawnPool ==
  ASSUME QueueInv, PoolInv, NEW c \in Clients, NEW u \in Units, ScheduleSpawn(c, u)
  PROVE  PoolInv'
<1>1. PICK t \in Threads \ mWorkThreads : /\ mWorkThreads' = mWorkThreads \cup {t}
                                          /\ mIdleThreads' = mIdleThreads + 1
  BY DEF ScheduleSpawn
<1>2. ~mFinished /\ mWorkUnits' = Append(mWorkUnits, u) /\ UNCHANGED flags
      /\ client' = [client EXCEPT ![c] = "idle"]
  BY DEF ScheduleSpawn, Enqueue
<1>3. Len(mWorkUnits) <= mIdleThreads BY <1>1, <1>2 DEF PoolInv, PoolGrowsWithWork
<1>4. Len(mWorkUnits) \in Nat /\ Len(mWorkUnits') = Len(mWorkUnits) + 1 BY <1>2, OneMore
<1>5. PoolGrowsWithWork' BY <1>1, <1>3, <1>4 DEF PoolGrowsWithWork, QueueInv, TypeOK
<1>6. Backlog # 0 => mMaxThreads <= Limit
  <2>1. mMaxThreads \in Nat BY LimitNat
  <2> QED BY <2>1 DEF Limit
<1>7. BacklogBound'
  <2>1. mIdleThreads + 1 <= mMaxThreads BY <1>1, <1>2, RoomInPool
  <2>2. mIdleThreads \in Nat BY DEF QueueInv, TypeOK
  <2>3. Backlog # 0 => Len(mWorkUnits') <= Limit BY <1>3, <1>4, <1>6, <2>1, <2>2, LimitNat
  <2> QED BY <2>3 DEF BacklogBound, Limit
<1>8. BlockedOnFullPool'
  BY <1>1, <1>2 DEF PoolInv, BlockedOnFullPool, QueueInv, TypeOK, flags
<1> QED BY <1>5, <1>7, <1>8 DEF PoolInv

\* A unit enters the queue of a complete pool, or an idle thread is there to take it.
LEMMA EnqueuePool ==
  ASSUME QueueInv, PoolInv, NEW c \in Clients, NEW u \in Units, ~Full,
         mWorkThreads = Threads \/ mIdleThreads >= Len(mWorkUnits) + 1,
         Enqueue(c, u, worker), UNCHANGED <<mIdleThreads, mWorkThreads>>
  PROVE  PoolInv'
<1>1. Len(mWorkUnits) \in Nat /\ Len(mWorkUnits') = Len(mWorkUnits) + 1
  BY OneMore DEF Enqueue
<1>2. PoolGrowsWithWork' BY <1>1 DEF Enqueue, PoolGrowsWithWork, flags
<1>3. BacklogBound' 
  <2>1. Backlog # 0 => ~(Len(mWorkUnits) >= Limit) BY DEF Full, Limit
  <2> QED BY <1>1, <2>1, LimitNat DEF BacklogBound, Limit
<1>4. BlockedOnFullPool'
  BY DEF Enqueue, PoolInv, BlockedOnFullPool, QueueInv, TypeOK, flags
<1> QED BY <1>2, <1>3, <1>4 DEF PoolInv

\* Steps that add no unit, keep the pool and block nobody.
LEMMA QuietPool ==
  ASSUME QueueInv, QueueInv', PoolInv, mFinished => mFinished',
         mWorkThreads' = mWorkThreads \/ mFinished',
         (mWorkUnits' = mWorkUnits /\ mIdleThreads' >= mIdleThreads) \/ mWorkUnits' = <<>>,
         \A c \in Clients : client'[c] \in {"waiting", "woken"}
                              => client[c] \in {"waiting", "woken"}
  PROVE  PoolInv'
<1>1. mIdleThreads \in Nat /\ mIdleThreads' \in Nat /\ Len(mWorkUnits) \in Nat
  BY DEF QueueInv, TypeOK
<1>2. Len(<<>>) = 0 OBVIOUS
<1>3. BacklogBound' BY <1>1, <1>2, LimitNat DEF PoolInv, BacklogBound, Limit
<1>4. PoolGrowsWithWork' BY <1>1, <1>2 DEF PoolInv, PoolGrowsWithWork
<1>5. BlockedOnFullPool' BY DEF PoolInv, BlockedOnFullPool
<1> QED BY <1>3, <1>4, <1>5 DEF PoolInv

LEMMA PoolStep == QueueInv /\ PoolInv /\ [Next]_queueVars => PoolInv'
<1> SUFFICES ASSUME QueueInv, PoolInv, [Next]_queueVars PROVE PoolInv' OBVIOUS
<1>0. QueueInv' BY NextInv
<1>1. ASSUME NEW t \in Threads, Take(t) PROVE PoolInv'
  <2>1. Len(mWorkUnits) \in Nat /\ Len(mWorkUnits') = Len(mWorkUnits) - 1
    BY <1>1 DEF Take, QueueInv, TypeOK
  <2>2. BacklogBound' BY <2>1, LimitNat DEF PoolInv, BacklogBound, Limit
  <2>3. PoolGrowsWithWork'
    BY <1>1, <2>1 DEF Take, PoolInv, PoolGrowsWithWork, QueueInv, TypeOK, flags
  <2>4. client' = BroadcastDequeued(client) /\ UNCHANGED <<flags, mWorkThreads>>
    BY <1>1 DEF Take
  <2>5. \A c \in Clients : client'[c] \in {"waiting", "woken"}
                             => client[c] \in {"waiting", "woken"}
    BY <2>4 DEF BroadcastDequeued
  <2>6. BlockedOnFullPool' BY <2>4, <2>5 DEF PoolInv, BlockedOnFullPool, flags
  <2> QED BY <2>2, <2>3, <2>6 DEF PoolInv
<1>2. ASSUME NEW t \in Threads, Exit(t) \/ WaitForWork(t) \/ RunUnit(t) PROVE PoolInv'
  <2>1. UNCHANGED <<mFinished, mWorkThreads, mWorkUnits, mIdleThreads, client>>
    BY <1>2 DEF Exit, WaitForWork, RunUnit, flags, clients
  <2>2. mIdleThreads' >= mIdleThreads BY <2>1 DEF QueueInv, TypeOK
  <2> QED BY <1>0, <2>1, <2>2, QuietPool
<1>3. ASSUME UNCHANGED <<mFinished, mWorkThreads>>, mIdleThreads' >= mIdleThreads,
             NEW w, CancelLocked(w)
      PROVE  PoolInv'
  <2>1. mWorkUnits' = mWorkUnits \/ mWorkUnits' = <<>> BY <1>3 DEF CancelLocked
  <2>2. \A c \in Clients : client'[c] \in {"waiting", "woken"}
                             => client[c] \in {"waiting", "woken"}
    BY <1>3 DEF CancelLocked, BroadcastDequeued
  <2> QED BY <1>0, <1>3, <2>1, <2>2, QuietPool
<1>4. ASSUME NEW t \in Threads, Account(t) PROVE PoolInv'
  <2>1. UNCHANGED <<mFinished, mWorkThreads>> /\ mIdleThreads' >= mIdleThreads
    BY <1>4 DEF Account, QueueInv, TypeOK
  <2>2. CASE UNCHANGED <<mCanceled, mWorkUnits, client, deletes>> BY <1>0, <2>1, <2>2, QuietPool
  <2>3. CASE CancelLocked([worker EXCEPT ![t] = "exited"]) BY <1>3, <2>1, <2>3
  <2> QED BY <1>4, <2>2, <2>3 DEF Account
<1>5. ASSUME NEW c \in Clients, Cancel(c) PROVE PoolInv'
  <2>1. UNCHANGED <<mFinished, mWorkThreads>> /\ mIdleThreads' >= mIdleThreads
    BY <1>5 DEF Cancel, QueueInv, TypeOK
  <2> QED BY <1>3, <1>5, <2>1 DEF Cancel
<1>6. ASSUME NEW c \in Clients, NEW u, Reject(c, u) PROVE PoolInv'
  <2>1. UNCHANGED <<mFinished, mWorkThreads, mWorkUnits, mIdleThreads>>
        /\ client' = [client EXCEPT ![c] = "idle"]
    BY <1>6 DEF Reject, flags
  <2>2. mIdleThreads' >= mIdleThreads
        /\ \A d \in Clients : client'[d] \in {"waiting", "woken"}
                                => client[d] \in {"waiting", "woken"}
    BY <2>1 DEF QueueInv, TypeOK
  <2> QED BY <1>0, <2>1, <2>2, QuietPool
<1>7. ASSUME NEW c \in Clients, NEW u \in Units, Schedule(c, u) PROVE PoolInv'
  <2>1. CASE ScheduleClosed(c, u) \/ ScheduleSpawnFails(c, u)
    BY <1>6, <2>1 DEF ScheduleClosed, ScheduleSpawnFails
  <2>2. CASE ScheduleSpawn(c, u) BY <2>2, SpawnPool
  <2>3. CASE ScheduleDirect(c, u)
    <3>1. mWorkThreads = Threads \/ mIdleThreads >= Len(mWorkUnits) + 1
      BY <2>3 DEF ScheduleDirect, WantsThread, QueueInv, TypeOK
    <3> QED BY <2>3, <3>1, EnqueuePool DEF ScheduleDirect
  <2>4. CASE ScheduleBlocks(c, u)
    <3>1. /\ ~mFinished /\ ~WantsThread /\ Full
          /\ client' = [client EXCEPT ![c] = "waiting"]
          /\ UNCHANGED <<flags, mIdleThreads, mWorkThreads, mWorkUnits>>
      BY <2>4 DEF ScheduleBlocks
    <3>2. mWorkThreads = Threads
      <4>1. SUFFICES ASSUME mWorkThreads # Threads PROVE FALSE OBVIOUS
      <4>2. PICK t \in Threads : t \notin mWorkThreads BY <4>1 DEF QueueInv, TypeOK
      <4>3. mIdleThreads >= Len(mWorkUnits) + 1 /\ mIdleThreads + 1 <= mMaxThreads
        BY <3>1, <4>1, <4>2, RoomInPool DEF WantsThread, QueueInv, TypeOK
      <4>4. mMaxThreads <= Limit
        <5>1. mMaxThreads \in Nat /\ Backlog # 0 BY <3>1, LimitNat DEF Full
        <5> QED BY <5>1 DEF Limit
      <4>5. Len(mWorkUnits) >= Limit BY <3>1 DEF Full, Limit
      <4>6. mIdleThreads \in Nat /\ Len(mWorkUnits) \in Nat BY DEF QueueInv, TypeOK
      <4> QED BY <4>3, <4>4, <4>5, <4>6, LimitNat
    <3>3. BlockedOnFullPool' BY <3>1, <3>2 DEF BlockedOnFullPool
    <3>4. PoolGrowsWithWork' /\ BacklogBound'
      BY <3>1 DEF PoolInv, PoolGrowsWithWork, BacklogBound, flags
    <3> QED BY <3>3, <3>4 DEF PoolInv
  <2> QED BY <1>7, <2>1, <2>2, <2>3, <2>4 DEF Schedule
<1>8. ASSUME NEW c \in Clients, ScheduleWoken(c) PROVE PoolInv'
  <2>1. posting[c] \in Units /\ client[c] = "woken"
    BY <1>8 DEF ScheduleWoken, QueueInv, TypeOK
  <2>2. CASE Reject(c, posting[c]) BY <1>6, <2>2
  <2>3. CASE /\ ~mFinished /\ ~Full /\ Enqueue(c, posting[c], worker)
             /\ UNCHANGED <<mIdleThreads, mWorkThreads>>
    BY <2>1, <2>3, EnqueuePool DEF PoolInv, BlockedOnFullPool
  <2>4. CASE /\ client' = [client EXCEPT ![c] = "waiting"]
             /\ UNCHANGED <<flags, mIdleThreads, mWorkThreads, mWorkUnits, work, posting, history>>
    <3>1. \A d \in Clients : client'[d] \in {"waiting", "woken"}
                               => client[d] \in {"waiting", "woken"}
      BY <2>1, <2>4 DEF QueueInv, TypeOK
    <3>2. mIdleThreads' >= mIdleThreads BY <2>4 DEF QueueInv, TypeOK
    <3> QED BY <1>0, <2>4, <3>1, <3>2, QuietPool DEF flags
  <2> QED BY <1>8, <2>2, <2>3, <2>4 DEF ScheduleWoken
<1>9. ASSUME NEW c \in Clients, FinishBegin(c) \/ FinishReturn(c) PROVE PoolInv'
  <2>1. /\ mFinished => mFinished'
        /\ mWorkThreads' = mWorkThreads \/ mFinished'
        /\ UNCHANGED <<mWorkUnits, mIdleThreads>>
        /\ \A d \in Clients : client'[d] \in {"waiting", "woken"}
                                => client[d] \in {"waiting", "woken"}
    BY <1>9 DEF FinishBegin, FinishReturn, QueueInv, TypeOK, flags
  <2>2. mIdleThreads' >= mIdleThreads BY <2>1 DEF QueueInv, TypeOK
  <2> QED BY <1>0, <2>1, <2>2, QuietPool
<1>10. ASSUME SpuriousWakeup \/ UNCHANGED queueVars PROVE PoolInv'
  <2>1. /\ UNCHANGED <<mFinished, mWorkThreads, mWorkUnits, mIdleThreads>>
        /\ \A d \in Clients : client'[d] \in {"waiting", "woken"}
                                => client[d] \in {"waiting", "woken"}
    BY <1>10 DEF SpuriousWakeup, queueVars, QueueInv, TypeOK, flags, clients
  <2>2. mIdleThreads' >= mIdleThreads BY <2>1 DEF QueueInv, TypeOK
  <2> QED BY <1>0, <2>1, <2>2, QuietPool
<1> QED BY <1>1, <1>2, <1>4, <1>5, <1>7, <1>8, <1>9, <1>10 DEF Next, WorkerStep

LEMMA PoolInvariance == Spec => []PoolInv
<1>1. Init => PoolInv
  <2> SUFFICES ASSUME Init PROVE PoolInv OBVIOUS
  <2>1. Len(mWorkUnits) = 0 BY DEF Init
  <2> QED BY <2>1, LimitNat
        DEF Init, PoolInv, PoolGrowsWithWork, BlockedOnFullPool, BacklogBound, Limit
<1> QED BY <1>1, PoolStep, QueueInvariance, PTL DEF Spec

\* While threads may still be created, every pending unit has an idle thread.
THEOREM PoolGrows == Spec => []PoolGrowsWithWork
<1>1. PoolInv => PoolGrowsWithWork BY DEF PoolInv
<1> QED BY <1>1, PoolInvariance, PTL

\* The throttle: never more than mMaxThreads * backlog pending units.
THEOREM BacklogBounded == Spec => []BacklogBound
<1>1. PoolInv => BacklogBound BY DEF PoolInv
<1> QED BY <1>1, PoolInvariance, PTL

-----------------------------------------------------------------------------
(* Who owns a work unit, and what finish promises.  An accepted unit is in *)
(* one place at a time: pending, held by one thread, run, or discarded by  *)
(* a cancel; the queue has deleted exactly those that are neither pending  *)
(* nor held.                                                               *)

States == {"none", "ready", "waiting", "running", "ran", "exited"}

NoRepeats == \A i, j \in 1..Len(mWorkUnits) : mWorkUnits[i] = mWorkUnits[j] => i = j
HeldApart == \A s, t \in Threads : workUnit[s] = workUnit[t] /\ workUnit[s] # NoUnit => s = t

\* Where the units are.  Only a cancel takes one out of these places.
Places ==
  /\ Queued \cap Held = {} /\ ran \cap (Queued \cup Held) = {}
  /\ Queued \cup Held \cup ran \subseteq accepted
  /\ ~mCanceled => accepted = Queued \cup Held \cup ran
  /\ accepted \cap rejected = {}

DeletedWhenGone ==
  \A u \in Units : deletes[u] = IF u \in accepted /\ u \notin Queued \cup Held THEN 1 ELSE 0

\* A unit a client is blocked with is nobody else's.
PostedApart ==
  /\ \A c \in Clients : posting[c] \notin accepted \cup rejected
  /\ \A c, d \in Clients : posting[c] = posting[d] /\ posting[c] # NoUnit => c = d

OwnInv == NoRepeats /\ HeldApart /\ Places /\ DeletedWhenGone /\ PostedApart

-----------------------------------------------------------------------------
(* The pending units and the held ones, as sets.                           *)

\* A new unit at the end of the queue.
LEMMA AppendQueued ==
  ASSUME mWorkUnits \in Seq(Units), NEW u \in Units, u \notin Queued,
         mWorkUnits' = Append(mWorkUnits, u), NoRepeats
  PROVE  Queued' = Queued \cup {u} /\ NoRepeats'
<1>1. /\ Len(mWorkUnits) \in Nat /\ Len(mWorkUnits') = Len(mWorkUnits) + 1
      /\ \A i \in 1..Len(mWorkUnits) : mWorkUnits'[i] = mWorkUnits[i]
      /\ mWorkUnits'[Len(mWorkUnits) + 1] = u
  BY AppendProperties
<1>2. 1..Len(mWorkUnits') = 1..Len(mWorkUnits) \cup {Len(mWorkUnits) + 1} BY <1>1
<1>3. Queued' = Queued \cup {u} BY <1>1, <1>2 DEF Queued
<1>4. \A i \in 1..Len(mWorkUnits) : mWorkUnits[i] # u BY DEF Queued
<1>5. NoRepeats' BY <1>1, <1>2, <1>4 DEF NoRepeats
<1> QED BY <1>3, <1>5

\* The oldest unit leaves the queue.
LEMMA TailQueued ==
  ASSUME mWorkUnits \in Seq(Units), mWorkUnits # <<>>, NoRepeats, mWorkUnits' = Tail(mWorkUnits)
  PROVE  /\ Head(mWorkUnits) \in Queued
         /\ Queued' = Queued \ {Head(mWorkUnits)}
         /\ NoRepeats'
<1>1. /\ Len(mWorkUnits) \in Nat /\ Len(mWorkUnits) >= 1
      /\ Len(mWorkUnits') = Len(mWorkUnits) - 1
      /\ \A i \in 1..Len(mWorkUnits') : mWorkUnits'[i] = mWorkUnits[i + 1]
      /\ Head(mWorkUnits) = mWorkUnits[1]
  BY HeadTailProperties, EmptySeq, LenProperties
<1>2. Head(mWorkUnits) \in Queued BY <1>1 DEF Queued
<1>3. \A i \in 1..Len(mWorkUnits') : i + 1 \in 2..Len(mWorkUnits) BY <1>1
<1>4. \A j \in 2..Len(mWorkUnits) : j - 1 \in 1..Len(mWorkUnits') /\ (j - 1) + 1 = j BY <1>1
<1>5. ASSUME NEW u PROVE u \in Queued' <=> u \in Queued \ {Head(mWorkUnits)}
  <2>1. ASSUME u \in Queued' PROVE u \in Queued \ {Head(mWorkUnits)}
    <3>1. PICK i \in 1..Len(mWorkUnits') : u = mWorkUnits'[i] BY <2>1 DEF Queued
    <3>2. u = mWorkUnits[i + 1] /\ i + 1 \in 2..Len(mWorkUnits) BY <1>1, <1>3, <3>1
    <3>3. i + 1 \in 1..Len(mWorkUnits) /\ 1 \in 1..Len(mWorkUnits) /\ i + 1 # 1
      BY <1>1, <3>2
    <3>4. u # mWorkUnits[1] BY <3>2, <3>3 DEF NoRepeats
    <3> QED BY <1>1, <3>2, <3>3, <3>4 DEF Queued
  <2>2. ASSUME u \in Queued \ {Head(mWorkUnits)} PROVE u \in Queued'
    <3>1. PICK j \in 1..Len(mWorkUnits) : u = mWorkUnits[j] BY <2>2 DEF Queued
    <3>2. j \in 2..Len(mWorkUnits) BY <1>1, <2>2, <3>1
    <3>3. mWorkUnits'[j - 1] = u BY <1>1, <1>4, <3>1, <3>2
    <3> QED BY <1>4, <3>2, <3>3 DEF Queued
  <2> QED BY <2>1, <2>2
<1>6. NoRepeats'
  <2>1. ASSUME NEW i \in 1..Len(mWorkUnits'), NEW j \in 1..Len(mWorkUnits'),
               mWorkUnits'[i] = mWorkUnits'[j]
        PROVE  i = j
    <3>1. mWorkUnits[i + 1] = mWorkUnits[j + 1] BY <1>1, <2>1
    <3>2. i + 1 \in 1..Len(mWorkUnits) /\ j + 1 \in 1..Len(mWorkUnits) BY <1>1
    <3>3. i + 1 = j + 1 BY <3>1, <3>2 DEF NoRepeats
    <3> QED BY <3>3
  <2> QED BY <2>1 DEF NoRepeats
<1> QED BY <1>2, <1>5, <1>6

LEMMA EmptyQueued ==
  ASSUME mWorkUnits' = <<>> PROVE Queued' = {} /\ NoRepeats'
<1>1. Len(mWorkUnits') = 0 OBVIOUS
<1> QED BY <1>1 DEF Queued, NoRepeats

LEMMA SameQueued ==
  ASSUME mWorkUnits' = mWorkUnits PROVE Queued' = Queued /\ NoRepeats' = NoRepeats
BY DEF Queued, NoRepeats

\* The held units are those the work threads have in workUnit.
LEMMA HeldUnits ==
  ASSUME TypeOK
  PROVE  \A u : u \in Held <=> u # NoUnit /\ \E t \in Threads : workUnit[t] = u
BY DEF TypeOK, Held

LEMMA SameHeld ==
  ASSUME TypeOK, TypeOK', workUnit' = workUnit
  PROVE  Held' = Held /\ HeldApart' = HeldApart
<1>1. Held' = Held BY DEF TypeOK, Held
<1>2. HeldApart' = HeldApart BY DEF HeldApart
<1> QED BY <1>1, <1>2

-----------------------------------------------------------------------------
(* One lemma per way a step moves units.                                   *)

\* schedule refuses a unit.
LEMMA RejectOwn ==
  ASSUME QueueInv, QueueInv', OwnInv, NEW c \in Clients, NEW u \in Units, u \notin accepted,
         \A d \in Clients : d # c => posting[d] # u,
         Reject(c, u)
  PROVE  OwnInv'
<1>1. TypeOK /\ TypeOK' BY DEF QueueInv
<1>2. /\ UNCHANGED <<flags, mWorkUnits, workUnit, accepted, ran, deletes>>
      /\ rejected' = rejected \cup {u} /\ posting' = [posting EXCEPT ![c] = NoUnit]
  BY DEF Reject, work
<1>3. Queued' = Queued /\ NoRepeats' = NoRepeats /\ Held' = Held /\ HeldApart' = HeldApart
  BY <1>1, <1>2, SameQueued, SameHeld
<1>4. Places' BY <1>2, <1>3 DEF OwnInv, Places, flags
<1>5. DeletedWhenGone' BY <1>2, <1>3 DEF OwnInv, DeletedWhenGone
<1>6. PostedApart' BY <1>1, <1>2 DEF OwnInv, PostedApart, TypeOK
<1> QED BY <1>3, <1>4, <1>5, <1>6 DEF OwnInv

\* schedule accepts a unit.
LEMMA EnqueueOwn ==
  ASSUME QueueInv, QueueInv', OwnInv, NEW c \in Clients, NEW u \in Units, NEW w,
         u \notin accepted \cup rejected, \A d \in Clients : d # c => posting[d] # u,
         Enqueue(c, u, w)
  PROVE  OwnInv'
<1>1. TypeOK /\ TypeOK' BY DEF QueueInv
<1>2. /\ mWorkUnits' = Append(mWorkUnits, u) /\ accepted' = accepted \cup {u}
      /\ posting' = [posting EXCEPT ![c] = NoUnit]
      /\ UNCHANGED <<flags, workUnit, rejected, ran, deletes>>
  BY DEF Enqueue
<1>3. Held' = Held /\ HeldApart' BY <1>1, <1>2, SameHeld DEF OwnInv
<1>4. mWorkUnits \in Seq(Units) /\ u \notin Queued BY <1>1 DEF TypeOK, OwnInv, Places
<1>5. Queued' = Queued \cup {u} /\ NoRepeats' BY <1>2, <1>4, AppendQueued DEF OwnInv
<1>6. u \notin Queued \cup Held \cup ran BY DEF OwnInv, Places
<1>7. Places' BY <1>2, <1>3, <1>5, <1>6 DEF OwnInv, Places, flags
<1>8. DeletedWhenGone' BY <1>2, <1>3, <1>5 DEF OwnInv, DeletedWhenGone
<1>9. PostedApart' BY <1>1, <1>2 DEF OwnInv, PostedApart, TypeOK
<1> QED BY <1>3, <1>5, <1>7, <1>8, <1>9 DEF OwnInv

\* cancelLocked discards the pending units.
LEMMA CancelOwn ==
  ASSUME QueueInv, QueueInv', OwnInv, NEW w, CancelLocked(w),
         UNCHANGED <<workUnit, posting, accepted, rejected, ran>>
  PROVE  OwnInv'
<1>1. TypeOK /\ TypeOK' BY DEF QueueInv
<1>2. Held' = Held /\ HeldApart' BY <1>1, SameHeld DEF OwnInv
<1>3. PostedApart' BY DEF OwnInv, PostedApart
<1>4. CASE mFinished \/ mCanceled
  <2>1. UNCHANGED <<mCanceled, mWorkUnits, deletes>> BY <1>4 DEF CancelLocked
  <2>2. Queued' = Queued /\ NoRepeats' BY <2>1, SameQueued DEF OwnInv
  <2> QED BY <1>2, <1>3, <2>1, <2>2 DEF OwnInv, Places, DeletedWhenGone
<1>5. CASE ~(mFinished \/ mCanceled)
  <2>1. /\ mCanceled' = TRUE /\ mWorkUnits' = <<>>
        /\ deletes' = [u \in Units |-> IF u \in Queued THEN deletes[u] + 1 ELSE deletes[u]]
    BY <1>5 DEF CancelLocked
  <2>2. Queued' = {} /\ NoRepeats' BY <2>1, EmptyQueued
  <2>3. Places' BY <1>2, <2>1, <2>2 DEF OwnInv, Places
  <2>4. ASSUME NEW u \in Units
        PROVE  deletes'[u] = IF u \in accepted' /\ u \notin Queued' \cup Held' THEN 1 ELSE 0
    <3>1. CASE u \in Queued
      <4>1. deletes[u] = 0 /\ u \in accepted /\ u \notin Held
        BY <3>1 DEF OwnInv, DeletedWhenGone, Places
      <4> QED BY <1>2, <2>1, <2>2, <3>1, <4>1
    <3>2. CASE u \notin Queued
      BY <1>2, <2>1, <2>2, <3>2 DEF OwnInv, DeletedWhenGone
    <3> QED BY <3>1, <3>2
  <2>5. DeletedWhenGone' BY <2>4 DEF DeletedWhenGone
  <2> QED BY <1>2, <1>3, <2>2, <2>3, <2>5 DEF OwnInv
<1> QED BY <1>4, <1>5

\* A thread takes the oldest unit.
LEMMA TakeHeld ==
  ASSUME TypeOK, NEW t \in Threads, Take(t)
  PROVE  /\ mWorkUnits \in Seq(Units) /\ mWorkUnits # <<>> /\ mWorkUnits' = Tail(mWorkUnits)
         /\ Head(mWorkUnits) \in Units
         /\ workUnit[t] = NoUnit /\ workUnit' = [workUnit EXCEPT ![t] = Head(mWorkUnits)]
         /\ UNCHANGED <<flags, posting, history>>
BY HeadTailProperties DEF TypeOK, Take

LEMMA TakeOwn ==
  ASSUME QueueInv, QueueInv', OwnInv, NEW t \in Threads, Take(t)
  PROVE  /\ Held' = Held \cup {Head(mWorkUnits)}
         /\ OwnInv'
<1> DEFINE h == Head(mWorkUnits)
<1>1. TypeOK /\ TypeOK' BY DEF QueueInv
<1>2. /\ mWorkUnits \in Seq(Units) /\ mWorkUnits # <<>> /\ mWorkUnits' = Tail(mWorkUnits)
      /\ h \in Units
      /\ workUnit[t] = NoUnit /\ workUnit' = [workUnit EXCEPT ![t] = h]
      /\ UNCHANGED <<flags, posting, history>>
  BY <1>1, TakeHeld
<1>3. h \in Queued /\ Queued' = Queued \ {h} /\ NoRepeats' BY <1>2, TailQueued DEF OwnInv
<1>4. \A u : u \in Held <=> u # NoUnit /\ \E s \in Threads : workUnit[s] = u
  BY <1>1, HeldUnits
<1>5. \A u : u \in Held' <=> u # NoUnit /\ \E s \in Threads : workUnit'[s] = u
  <2>1. TypeOK' => \A u : u \in Held' <=> u # NoUnit /\ \E s \in Threads : workUnit'[s] = u
    BY DEF TypeOK, Held
  <2> QED BY <1>1, <2>1
<1> HIDE DEF h
<1>6. \A s \in Threads : workUnit'[s] = IF s = t THEN h ELSE workUnit[s]
  BY <1>1, <1>2 DEF TypeOK
<1>7. h # NoUnit BY <1>2, QueueAssumption
<1>8. Held' = Held \cup {h} BY <1>2, <1>4, <1>5, <1>6, <1>7
<1>9. HeldApart'
  <2>1. h \notin Held BY <1>3 DEF OwnInv, Places
  <2>2. \A s \in Threads : workUnit[s] # h BY <1>4, <1>7, <2>1
  <2> QED BY <1>6, <2>2 DEF OwnInv, HeldApart
<1>10. Places' BY <1>2, <1>3, <1>8 DEF OwnInv, Places, flags, history
<1>11. DeletedWhenGone' BY <1>2, <1>3, <1>8 DEF OwnInv, DeletedWhenGone, history
<1>12. PostedApart' BY <1>2 DEF OwnInv, PostedApart, history
<1> QED BY <1>3, <1>8, <1>9, <1>10, <1>11, <1>12 DEF OwnInv, h

\* A thread runs its unit and deletes it.
LEMMA RunOwn ==
  ASSUME QueueInv, QueueInv', OwnInv, NEW t \in Threads, RunUnit(t)
  PROVE  /\ workUnit[t] \in Held /\ Held' = Held \ {workUnit[t]}
         /\ OwnInv'
<1> DEFINE u == workUnit[t]
<1>1. TypeOK /\ TypeOK' BY DEF QueueInv
<1>2. /\ u # NoUnit /\ u \in Units /\ workUnit' = [workUnit EXCEPT ![t] = NoUnit]
      /\ ran' = ran \cup {u} /\ deletes' = [deletes EXCEPT ![u] = @ + 1]
      /\ UNCHANGED <<flags, mWorkUnits, posting, accepted, rejected>>
  BY <1>1 DEF RunUnit, TypeOK, clients
<1>3. \A x : x \in Held <=> x # NoUnit /\ \E s \in Threads : workUnit[s] = x
  BY <1>1, HeldUnits
<1>4. \A x : x \in Held' <=> x # NoUnit /\ \E s \in Threads : workUnit'[s] = x
  <2>1. TypeOK' => \A x : x \in Held' <=> x # NoUnit /\ \E s \in Threads : workUnit'[s] = x
    BY DEF TypeOK, Held
  <2> QED BY <1>1, <2>1
<1>5. \A s \in Threads : workUnit'[s] = IF s = t THEN NoUnit ELSE workUnit[s]
  BY <1>1, <1>2 DEF TypeOK
<1>6. u \in Held BY <1>2, <1>3
<1>7. Held' = Held \ {u}
  <2>1. \A s \in Threads : s # t => workUnit[s] # u BY <1>2 DEF OwnInv, HeldApart
  <2> QED BY <1>3, <1>4, <1>5, <2>1
<1>8. HeldApart' BY <1>5 DEF OwnInv, HeldApart
<1>9. Queued' = Queued /\ NoRepeats' BY <1>2, SameQueued DEF OwnInv
<1>10. u \in accepted /\ u \notin Queued BY <1>6 DEF OwnInv, Places
<1>11. Places' BY <1>2, <1>6, <1>7, <1>9, <1>10 DEF OwnInv, Places, flags
<1>12. DeletedWhenGone'
  <2>1. ASSUME NEW x \in Units
        PROVE  deletes'[x] = IF x \in accepted' /\ x \notin Queued' \cup Held' THEN 1 ELSE 0
    <3>1. deletes'[x] = IF x = u THEN deletes[x] + 1 ELSE deletes[x]
      BY <1>1, <1>2 DEF TypeOK
    <3>2. deletes[x] = IF x \in accepted /\ x \notin Queued \cup Held THEN 1 ELSE 0
      BY DEF OwnInv, DeletedWhenGone
    <3> QED BY <1>2, <1>6, <1>7, <1>9, <1>10, <3>1, <3>2
  <2> QED BY <2>1 DEF DeletedWhenGone
<1>13. PostedApart' BY <1>2 DEF OwnInv, PostedApart
<1> QED BY <1>6, <1>7, <1>8, <1>9, <1>11, <1>12, <1>13 DEF OwnInv

\* Steps that move no unit.
LEMMA QuietOwn ==
  ASSUME QueueInv, QueueInv', OwnInv, UNCHANGED <<mCanceled, mWorkUnits, workUnit, posting, history>>
  PROVE  OwnInv'
<1>1. TypeOK /\ TypeOK' BY DEF QueueInv
<1>2. Queued' = Queued /\ NoRepeats' /\ Held' = Held /\ HeldApart'
  BY <1>1, SameQueued, SameHeld DEF OwnInv
<1> QED BY <1>2 DEF OwnInv, Places, DeletedWhenGone, PostedApart, history

-----------------------------------------------------------------------------
LEMMA PostsFresh ==
  ASSUME NEW c \in Clients, NEW u \in Units, Posts(c, u)
  PROVE  u \notin accepted \cup rejected /\ \A d \in Clients : d # c => posting[d] # u
BY DEF Posts

\* The unit of a client that blocked is still its own.
LEMMA WokenFresh ==
  ASSUME TypeOK, OwnInv, NEW c \in Clients, client[c] = "woken"
  PROVE  /\ posting[c] \in Units /\ posting[c] \notin accepted \cup rejected
         /\ \A d \in Clients : d # c => posting[d] # posting[c]
BY DEF TypeOK, OwnInv, PostedApart

LEMMA OwnStep == QueueInv /\ OwnInv /\ [Next]_queueVars => OwnInv'
<1> SUFFICES ASSUME QueueInv, OwnInv, [Next]_queueVars PROVE OwnInv' OBVIOUS
<1>0. QueueInv' /\ TypeOK BY NextInv DEF QueueInv
<1>1. ASSUME NEW t \in Threads, WorkerStep(t) PROVE OwnInv'
  <2>1. CASE Take(t) BY <1>0, <2>1, TakeOwn
  <2>2. CASE Exit(t) \/ WaitForWork(t)
    <3>1. UNCHANGED <<mCanceled, mWorkUnits, workUnit, posting, history>>
      BY <2>2 DEF Exit, WaitForWork, flags, clients
    <3> QED BY <1>0, <3>1, QuietOwn
  <2>3. CASE RunUnit(t) BY <1>0, <2>3, RunOwn
  <2>4. CASE Account(t)
    <3>1. UNCHANGED <<workUnit, posting, accepted, rejected, ran>> BY <2>4 DEF Account
    <3>2. CASE UNCHANGED <<mCanceled, mWorkUnits, client, deletes>>
      <4>1. UNCHANGED <<mCanceled, mWorkUnits, workUnit, posting, history>>
        BY <3>1, <3>2 DEF history
      <4> QED BY <1>0, <4>1, QuietOwn
    <3>3. CASE CancelLocked([worker EXCEPT ![t] = "exited"]) BY <1>0, <3>1, <3>3, CancelOwn
    <3> QED BY <2>4, <3>2, <3>3 DEF Account
  <2> QED BY <1>1, <2>1, <2>2, <2>3, <2>4 DEF WorkerStep
<1>2. ASSUME NEW c \in Clients, NEW u \in Units, Schedule(c, u) PROVE OwnInv'
  <2>0. Posts(c, u) 
    BY <1>2 DEF Schedule, ScheduleClosed, ScheduleSpawn, ScheduleSpawnFails, ScheduleDirect,
                ScheduleBlocks
  <2>1. CASE Reject(c, u) BY <1>0, <2>0, <2>1, PostsFresh, RejectOwn
  <2>2. ASSUME NEW w, Enqueue(c, u, w) PROVE OwnInv'
    BY <1>0, <2>0, <2>2, PostsFresh, EnqueueOwn
  <2>3. CASE ScheduleBlocks(c, u)
    <3>1. /\ UNCHANGED <<mCanceled, mWorkUnits, workUnit, history>>
          /\ posting' = [posting EXCEPT ![c] = u]
      BY <2>3 DEF ScheduleBlocks, flags, work
    <3>2. Queued' = Queued /\ NoRepeats' /\ Held' = Held /\ HeldApart'
      BY <1>0, <3>1, SameQueued, SameHeld DEF OwnInv, QueueInv
    <3>3. PostedApart' 
      BY <1>0, <2>0, <3>1 DEF Posts, OwnInv, PostedApart, TypeOK, history
    <3> QED BY <3>1, <3>2, <3>3 DEF OwnInv, Places, DeletedWhenGone, history
  <2> QED BY <1>2, <2>1, <2>2, <2>3
        DEF Schedule, ScheduleClosed, ScheduleSpawn, ScheduleSpawnFails, ScheduleDirect
<1>3. ASSUME NEW c \in Clients, ScheduleWoken(c) PROVE OwnInv'
  <2>1. client[c] = "woken" BY <1>3 DEF ScheduleWoken
  <2>2. /\ posting[c] \in Units /\ posting[c] \notin accepted \cup rejected
        /\ \A d \in Clients : d # c => posting[d] # posting[c]
    BY <1>0, <2>1, WokenFresh
  <2>3. CASE Reject(c, posting[c]) BY <1>0, <2>2, <2>3, RejectOwn
  <2>4. CASE Enqueue(c, posting[c], worker) BY <1>0, <2>2, <2>4, EnqueueOwn
  <2>5. CASE UNCHANGED <<flags, mIdleThreads, mWorkThreads, mWorkUnits, work, posting, history>>
    BY <1>0, <2>5, QuietOwn DEF flags, work
  <2> QED BY <1>3, <2>3, <2>4, <2>5 DEF ScheduleWoken
<1>4. ASSUME NEW c \in Clients, Cancel(c) PROVE OwnInv'
  BY <1>0, <1>4, CancelOwn DEF Cancel
<1>5. ASSUME NEW c \in Clients, FinishBegin(c) \/ FinishReturn(c) PROVE OwnInv'
  <2>1. UNCHANGED <<mCanceled, mWorkUnits, workUnit, posting, history>>
    BY <1>5 DEF FinishBegin, FinishReturn, flags, work
  <2> QED BY <1>0, <2>1, QuietOwn
<1>6. ASSUME SpuriousWakeup \/ UNCHANGED queueVars PROVE OwnInv'
  <2>1. UNCHANGED <<mCanceled, mWorkUnits, workUnit, posting, history>>
    BY <1>6 DEF SpuriousWakeup, queueVars, flags, work, clients
  <2> QED BY <1>0, <2>1, QuietOwn
<1> QED BY <1>1, <1>2, <1>3, <1>4, <1>5, <1>6 DEF Next

LEMMA OwnInit == Init => OwnInv
<1> SUFFICES ASSUME Init PROVE OwnInv OBVIOUS
<1>1. Len(mWorkUnits) = 0 BY DEF Init
<1>2. Queued = {} /\ NoRepeats BY <1>1 DEF Queued, NoRepeats
<1>3. Held = {} BY DEF Init, Held
<1> QED BY <1>2, <1>3 DEF Init, OwnInv, HeldApart, Places, DeletedWhenGone, PostedApart

\* In every reachable state an accepted unit is in one place, and deleted once it left them.
THEOREM Ownership == Spec => []OwnInv
BY OwnInit, OwnStep, QueueInvariance, PTL DEF Spec

\* The queue deletes a unit it accepted once at most, never while it is pending or running, and
\* never one it refused (WorkQueue.h, schedule), however threads and clients interleave.
THEOREM UnitsDeletedOnce == Spec => []DeletedOnce
<1>1. QueueInv /\ OwnInv => DeletedOnce
  <2> SUFFICES ASSUME TypeOK, OwnInv, NEW u \in Units
               PROVE  /\ deletes[u] <= IF u \in accepted THEN 1 ELSE 0
                      /\ u \in Queued \cup Held => deletes[u] = 0
                      /\ u \in rejected => u \notin accepted
    BY DEF DeletedOnce, QueueInv
  <2>1. deletes[u] = IF u \in accepted /\ u \notin Queued \cup Held THEN 1 ELSE 0
    BY DEF OwnInv, DeletedWhenGone
  <2> QED BY <2>1 DEF OwnInv, Places
<1> QED BY <1>1, Ownership, QueueInvariance, PTL

-----------------------------------------------------------------------------
(* The thread list, and what finish promises.                              *)

AliveStates == {"ready", "waiting", "running", "ran"}

\* The threads that still run are in the list finish joins.
AliveInPool == Alive \subseteq mWorkThreads

\* A broadcast and a cancel start and end no thread.
LEMMA BroadcastKeepsAlive ==
  ASSUME NEW w \in [Threads -> States], NEW t \in Threads
  PROVE  /\ BroadcastWorkChanged(w)[t] \in AliveStates <=> w[t] \in AliveStates
         /\ BroadcastWorkChanged(w)[t] = "exited" <=> w[t] = "exited"
BY DEF BroadcastWorkChanged, States, AliveStates

LEMMA CancelKeepsAlive ==
  ASSUME NEW w \in [Threads -> States], CancelLocked(w), NEW t \in Threads
  PROVE  /\ worker'[t] \in AliveStates <=> w[t] \in AliveStates
         /\ worker'[t] = "exited" <=> w[t] = "exited"
BY BroadcastKeepsAlive DEF CancelLocked

\* A step starts a thread only before finish, and then it is in the list.
LEMMA AliveStep == QueueInv /\ AliveInPool /\ [Next]_queueVars => AliveInPool'
<1> SUFFICES ASSUME QueueInv, AliveInPool, [Next]_queueVars PROVE AliveInPool' OBVIOUS
<1>0. TypeOK /\ TypeOK' /\ worker \in [Threads -> States]
  BY NextInv DEF QueueInv, TypeOK, States
<1>1. CASE ~mFinished'
  <2>1. ~mFinished' => \A t \in Threads : t \in mWorkThreads' <=> worker'[t] # "none"
    BY <1>0 DEF TypeOK
  <2> QED BY <1>1, <2>1 DEF AliveInPool, Alive
<1>2. SUFFICES ASSUME mFinished' PROVE AliveInPool' BY <1>1
<1>3. SUFFICES ASSUME mWorkThreads' = mWorkThreads,
                      \A t \in Threads : worker'[t] \in AliveStates => worker[t] \in AliveStates
               PROVE  AliveInPool'
  <2>1. ASSUME NEW t \in Threads, Take(t) \/ Exit(t) \/ WaitForWork(t) \/ RunUnit(t)
        PROVE  AliveInPool'
    BY <1>0, <1>3, <2>1 DEF Take, Exit, WaitForWork, RunUnit, AliveStates, States
  <2>2. ASSUME NEW t \in Threads, Account(t) PROVE AliveInPool'
    <3>1. worker[t] = "ran" /\ mWorkThreads' = mWorkThreads BY <2>2 DEF Account
    <3>2. CASE worker' = [worker EXCEPT ![t] = "ready"]
      BY <1>0, <1>3, <3>1, <3>2 DEF AliveStates
    <3>3. CASE CancelLocked([worker EXCEPT ![t] = "exited"])
      <4> DEFINE w == [worker EXCEPT ![t] = "exited"]
      <4>1. w \in [Threads -> States]
            /\ \A s \in Threads : w[s] \in AliveStates => worker[s] \in AliveStates
        BY <1>0 DEF States, AliveStates
      <4>2. CancelLocked(w) BY <3>3
      <4> HIDE DEF w
      <4> QED BY <1>3, <3>1, <4>1, <4>2, CancelKeepsAlive
    <3> QED BY <2>2, <3>2, <3>3 DEF Account
  <2>3. ASSUME NEW c \in Clients, NEW u, Reject(c, u) PROVE AliveInPool'
    BY <1>3, <2>3 DEF Reject, work
  <2>4. ASSUME NEW c \in Clients, NEW u \in Units, Schedule(c, u) PROVE AliveInPool'
    BY <1>2, <1>3, <2>3, <2>4 DEF Schedule, ScheduleClosed, ScheduleSpawn, ScheduleSpawnFails,
         ScheduleDirect, ScheduleBlocks, Enqueue, flags, work
  <2>5. ASSUME NEW c \in Clients, ScheduleWoken(c) PROVE AliveInPool'
    BY <1>2, <1>3, <2>3, <2>5 DEF ScheduleWoken, Enqueue, flags, work
  <2>6. ASSUME NEW c \in Clients, Cancel(c) PROVE AliveInPool'
    BY <1>0, <1>3, <2>6, CancelKeepsAlive DEF Cancel
  <2>7. ASSUME NEW c \in Clients, FinishBegin(c) PROVE AliveInPool'
    BY <1>0, <1>3, <2>7, BroadcastKeepsAlive DEF FinishBegin
  <2>8. ASSUME NEW c \in Clients, FinishReturn(c) PROVE AliveInPool'
    <3>1. worker' = worker /\ \A t \in mWorkThreads : worker[t] = "exited"
      BY <2>8 DEF FinishReturn, work
    <3> QED BY <3>1 DEF AliveInPool, Alive
  <2>9. ASSUME SpuriousWakeup \/ UNCHANGED queueVars PROVE AliveInPool'
    BY <1>0, <1>3, <2>9 DEF SpuriousWakeup, queueVars, work, AliveStates, States
  <2> QED BY <2>1, <2>2, <2>4, <2>5, <2>6, <2>7, <2>8, <2>9 DEF Next, WorkerStep
<1> QED BY <1>3 DEF AliveInPool, Alive, AliveStates

LEMMA AliveInvariance == Spec => []AliveInPool
<1>1. Init => AliveInPool BY DEF Init, AliveInPool, Alive
<1> QED BY <1>1, AliveStep, QueueInvariance, PTL DEF Spec

\* "It is not possible for the list of work threads to change once the mFinished flag has been
\* set" (WorkQueue.cpp, finish): it is only cleared, when no thread of the pool runs.
THEOREM ThreadsFixed == Spec => ThreadsFixedOnceFinished
<1>1. QueueInv /\ AliveInPool /\ [Next]_queueVars
        => [mFinished /\ mWorkThreads' # mWorkThreads
              => mWorkThreads' = {} /\ Alive = {}]_queueVars
  <2> SUFFICES ASSUME QueueInv, AliveInPool, Next, mFinished, mWorkThreads' # mWorkThreads
               PROVE  mWorkThreads' = {} /\ Alive = {}
    OBVIOUS
  <2>1. PICK c \in Clients : FinishReturn(c)
    BY DEF Next, WorkerStep, Take, Exit, WaitForWork, RunUnit, Account, Schedule, ScheduleClosed,
           ScheduleSpawn, ScheduleSpawnFails, ScheduleDirect, ScheduleBlocks, ScheduleWoken,
           Reject, Cancel, FinishBegin, SpuriousWakeup
  <2>2. mWorkThreads' = {} /\ \A t \in mWorkThreads : worker[t] = "exited"
    BY <2>1 DEF FinishReturn
  <2> QED BY <2>2 DEF AliveInPool, Alive
<1> QED BY <1>1, QueueInvariance, AliveInvariance, PTL DEF Spec, ThreadsFixedOnceFinished

-----------------------------------------------------------------------------
(* finish leaves a unit behind only if units ended every thread too late.   *)

\* A thread ends only when there is no work for it, now or later, or when its unit stopped a
\* queue that was finished already.
ExitedRightly ==
  \A t \in Threads :
    worker[t] = "exited" => mCanceled \/ (mFinished /\ (mWorkUnits = <<>> \/ ~goOn[t]))

\* Pending units have a thread, if only one that ended.
ServedInv ==
  /\ ExitedRightly
  /\ mCanceled => mWorkUnits = <<>>
  /\ mWorkUnits # <<>> => Started # {}

\* While the queue is open an idle thread is alive, and so is every thread of a full pool.
LEMMA OpenPoolAlive ==
  ASSUME QueueInv, ServedInv, ~mFinished, ~mCanceled,
         mWorkThreads = Threads \/ mIdleThreads >= 1
  PROVE  Alive # {}
<1>1. \A t \in Threads : worker[t] # "exited" BY DEF ServedInv, ExitedRightly
<1>2. CASE mWorkThreads = Threads
  <2>1. PICK t \in Threads : TRUE OBVIOUS
  <2>2. worker[t] # "none" BY <1>2 DEF QueueInv, TypeOK
  <2>3. t \in Alive BY <1>1, <2>2 DEF QueueInv, TypeOK, Alive
  <2> QED BY <2>3
<1>3. CASE mIdleThreads >= 1
  <2>1. Idle(worker) # {} BY <1>3, FS_EmptySet DEF QueueInv, IdleThreadsExact
  <2> QED BY <1>1, <2>1 DEF Idle, Alive
<1> QED BY <1>2, <1>3

LEMMA EnqueueServed ==
  ASSUME QueueInv, ServedInv, NEW c \in Clients, NEW u \in Units, NEW w \in [Threads -> States],
         ~mFinished, ~mCanceled,
         \E t \in Threads : w[t] \in AliveStates,
         \A t \in Threads : w[t] = "exited" => worker[t] = "exited",
         Enqueue(c, u, w)
  PROVE  ServedInv'
<1>1. worker' = BroadcastWorkChanged(w) /\ UNCHANGED <<flags, goOn>> BY DEF Enqueue
<1>2. Started' # {}
  <2>1. PICK t \in Threads : worker'[t] \in AliveStates BY <1>1, BroadcastKeepsAlive
  <2> QED BY <2>1 DEF Started, AliveStates
<1>3. \A t \in Threads : worker'[t] # "exited"
  BY <1>1, BroadcastKeepsAlive DEF ServedInv, ExitedRightly
<1> QED BY <1>1, <1>2, <1>3 DEF ServedInv, ExitedRightly, flags

\* cancelLocked, by a client or by a thread that ends with it.
LEMMA CancelServed ==
  ASSUME QueueInv, ServedInv, NEW w \in [Threads -> States],
         UNCHANGED <<mFinished, goOn>>, CancelLocked(w),
         \A t \in Threads : /\ w[t] = "none" => worker[t] = "none"
                            /\ w[t] = "exited" => worker[t] = "exited" \/ ~goOn[t]
  PROVE  ServedInv'
<1>1. CASE mFinished \/ mCanceled
  <2>1. worker' = w /\ UNCHANGED <<mCanceled, mWorkUnits>> BY <1>1 DEF CancelLocked
  <2>2. ExitedRightly'
    <3>1. SUFFICES ASSUME NEW t \in Threads, worker'[t] = "exited"
                   PROVE  mCanceled' \/ (mFinished' /\ (mWorkUnits' = <<>> \/ ~goOn'[t]))
      BY DEF ExitedRightly
    <3>2. worker[t] = "exited" \/ ~goOn[t] BY <2>1, <3>1
    <3> QED BY <1>1, <2>1, <3>2 DEF ServedInv, ExitedRightly
  <2>3. Started \subseteq Started' BY <2>1 DEF Started
  <2> QED BY <2>1, <2>2, <2>3 DEF ServedInv
<1>2. CASE ~(mFinished \/ mCanceled)
  <2>1. mCanceled' /\ mWorkUnits' = <<>> BY <1>2 DEF CancelLocked
  <2> QED BY <2>1 DEF ServedInv, ExitedRightly
<1> QED BY <1>1, <1>2

LEMMA ServedStep ==
  ASSUME QueueInv, PoolInv, ServedInv, [Next]_queueVars
  PROVE  ServedInv'
<1>0. TypeOK /\ worker \in [Threads -> States] BY DEF QueueInv, TypeOK, States
<1>1. ASSUME UNCHANGED <<mCanceled, mWorkUnits>>, mFinished => mFinished',
             \A t \in Threads : /\ worker'[t] = "none" => worker[t] = "none"
                                /\ worker'[t] = "exited" => worker[t] = "exited" /\ goOn'[t] = goOn[t]
      PROVE  ServedInv'
  BY <1>1 DEF ServedInv, ExitedRightly, Started
<1>2. ASSUME NEW t \in Threads, WorkerStep(t) PROVE ServedInv'
  <2>1. CASE Take(t)
    <3>1. /\ UNCHANGED <<mCanceled, mFinished, goOn>> /\ ~mCanceled
          /\ worker' = [worker EXCEPT ![t] = "running"] /\ mWorkUnits # <<>>
      BY <2>1 DEF Take, flags
    <3>2. t \in Started' BY <1>0, <3>1 DEF Started
    <3>3. ExitedRightly' BY <1>0, <3>1 DEF ServedInv, ExitedRightly
    <3> QED BY <3>1, <3>2, <3>3 DEF ServedInv
  <2>2. CASE Exit(t)
    <3>1. /\ mCanceled \/ (mWorkUnits = <<>> /\ mFinished)
          /\ UNCHANGED <<mCanceled, mFinished, mWorkUnits, goOn>>
      BY <2>2 DEF Exit, flags
    <3>2. mWorkUnits' = <<>> BY <3>1 DEF ServedInv
    <3> QED BY <3>1, <3>2 DEF ServedInv, ExitedRightly
  <2>3. CASE WaitForWork(t)
    BY <1>0, <1>1, <2>3 DEF WaitForWork, flags, States
  <2>4. CASE RunUnit(t)
    <3>1. /\ UNCHANGED <<mCanceled, mFinished, mWorkUnits>> /\ worker' = [worker EXCEPT ![t] = "ran"]
          /\ \A x \in Threads \ {t} : goOn'[x] = goOn[x]
      BY <1>0, <2>4 DEF RunUnit, flags, TypeOK
    <3> QED BY <1>0, <1>1, <3>1
  <2>5. CASE Account(t)
    <3>1. worker[t] = "ran" /\ UNCHANGED <<mFinished, goOn>>
      BY <2>5 DEF Account
    <3>2. CASE goOn[t] /\ worker' = [worker EXCEPT ![t] = "ready"] /\ UNCHANGED <<mCanceled, mWorkUnits>>
      BY <1>0, <1>1, <3>1, <3>2
    <3>3. CASE ~goOn[t] /\ CancelLocked([worker EXCEPT ![t] = "exited"])
      <4> DEFINE w == [worker EXCEPT ![t] = "exited"]
      <4>1. /\ w \in [Threads -> States]
            /\ \A x \in Threads : /\ w[x] = "none" => worker[x] = "none"
                                  /\ w[x] = "exited" => worker[x] = "exited" \/ ~goOn[x]
        BY <1>0, <3>3 DEF States
      <4>2. CancelLocked(w) BY <3>3
      <4> HIDE DEF w
      <4> QED BY <3>1, <4>1, <4>2, CancelServed
    <3> QED BY <2>5, <3>2, <3>3 DEF Account
  <2> QED BY <1>2, <2>1, <2>2, <2>3, <2>4, <2>5 DEF WorkerStep
<1>3. ASSUME NEW c \in Clients, NEW u, Reject(c, u) PROVE ServedInv'
  BY <1>1, <1>3 DEF Reject, flags, work
<1>4. ASSUME NEW c \in Clients, NEW u \in Units, Schedule(c, u) PROVE ServedInv'
  <2>1. CASE ScheduleClosed(c, u) \/ ScheduleSpawnFails(c, u)
    BY <1>3, <2>1 DEF ScheduleClosed, ScheduleSpawnFails
  <2>2. CASE ScheduleSpawn(c, u)
    <3>1. PICK t \in Threads : Enqueue(c, u, [worker EXCEPT ![t] = "ready"])
      BY <2>2 DEF ScheduleSpawn
    <3>2. ~mFinished /\ ~mCanceled BY <2>2 DEF ScheduleSpawn
    <3> DEFINE w == [worker EXCEPT ![t] = "ready"]
    <3>3. /\ w \in [Threads -> States] /\ w[t] \in AliveStates
          /\ \A x \in Threads : w[x] = "exited" => worker[x] = "exited"
      BY <1>0 DEF States, AliveStates
    <3>4. Enqueue(c, u, w) BY <3>1
    <3> HIDE DEF w
    <3> QED BY <3>2, <3>3, <3>4, EnqueueServed
  <2>3. CASE ScheduleDirect(c, u)
    <3>1. ~mFinished /\ ~mCanceled /\ ~WantsThread /\ Enqueue(c, u, worker)
      BY <2>3 DEF ScheduleDirect
    <3>2. mWorkThreads = Threads \/ mIdleThreads >= 1
      BY <1>0, <3>1 DEF WantsThread, TypeOK
    <3>3. \E t \in Threads : worker[t] \in AliveStates
      BY <3>1, <3>2, OpenPoolAlive DEF Alive, AliveStates
    <3> QED BY <1>0, <3>1, <3>3, EnqueueServed
  <2>4. CASE ScheduleBlocks(c, u)
    BY <1>1, <2>4 DEF ScheduleBlocks, flags, work
  <2> QED BY <1>4, <2>1, <2>2, <2>3, <2>4 DEF Schedule
<1>5. ASSUME NEW c \in Clients, ScheduleWoken(c) PROVE ServedInv'
  <2>1. posting[c] \in Units BY <1>0, <1>5 DEF ScheduleWoken, TypeOK
  <2>2. CASE Reject(c, posting[c]) BY <1>3, <2>2
  <2>3. CASE ~mFinished /\ ~mCanceled /\ ~Full /\ Enqueue(c, posting[c], worker)
    <3>1. mWorkThreads = Threads
      BY <1>5, <2>3 DEF ScheduleWoken, PoolInv, BlockedOnFullPool
    <3>2. \E t \in Threads : worker[t] \in AliveStates
      BY <2>3, <3>1, OpenPoolAlive DEF Alive, AliveStates
    <3> QED BY <1>0, <2>1, <2>3, <3>2, EnqueueServed
  <2>4. CASE UNCHANGED <<flags, mIdleThreads, mWorkThreads, mWorkUnits, work, posting, history>>
    BY <1>1, <2>4 DEF flags, work
  <2> QED BY <1>5, <2>2, <2>3, <2>4 DEF ScheduleWoken
<1>6. ASSUME NEW c \in Clients, Cancel(c) PROVE ServedInv'
  BY <1>0, <1>6, CancelServed DEF Cancel
<1>7. ASSUME NEW c \in Clients, FinishBegin(c) PROVE ServedInv'
  BY <1>0, <1>1, <1>7, BroadcastKeepsAlive DEF FinishBegin, BroadcastWorkChanged
<1>8. ASSUME NEW c \in Clients, FinishReturn(c) PROVE ServedInv'
  BY <1>1, <1>8 DEF FinishReturn, flags, work
<1>9. ASSUME SpuriousWakeup \/ UNCHANGED queueVars PROVE ServedInv'
  BY <1>0, <1>1, <1>9 DEF SpuriousWakeup, queueVars, flags, work, States
<1> QED BY <1>2, <1>4, <1>5, <1>6, <1>7, <1>8, <1>9 DEF Next

LEMMA ServedInvariance == Spec => []ServedInv
<1>1. Init => ServedInv BY DEF Init, ServedInv, ExitedRightly
<1>2. QueueInv /\ PoolInv /\ ServedInv /\ [Next]_queueVars => ServedInv' BY ServedStep
<1> QED BY <1>1, <1>2, QueueInvariance, PoolInvariance, PTL DEF Spec

\* finish "waits for all work to complete" (WorkQueue.h): when it has returned no thread runs,
\* and every accepted unit was run or discarded and is deleted, also when units stop the queue;
\* unless they ended every thread after finish was called, when cancelLocked discards nothing.
THEOREM FinishServes == Spec => []FinishCompletes
<1>1. QueueInv /\ OwnInv /\ AliveInPool /\ ServedInv => FinishCompletes
  <2> SUFFICES ASSUME QueueInv, OwnInv, AliveInPool, ServedInv, FinishReturned
               PROVE  Alive = {} /\ (StoppedLate \/ \A u \in accepted : deletes[u] = 1)
    BY DEF FinishCompletes
  <2>1. Alive = {} BY DEF FinishReturned, AliveInPool
  <2>2. ASSUME mWorkUnits # <<>> PROVE StoppedLate
    <3>1. mFinished /\ ~mCanceled /\ Started # {}
      BY <2>2 DEF FinishReturned, ServedInv
    <3>2. ASSUME NEW t \in Started PROVE worker[t] = "exited" /\ ~goOn[t]
      <4>1. worker[t] = "exited"
        BY <2>1 DEF Started, Alive, QueueInv, TypeOK
      <4> QED BY <2>2, <3>1, <4>1 DEF Started, ServedInv, ExitedRightly
    <3> QED BY <3>1, <3>2 DEF StoppedLate
  <2>3. ASSUME mWorkUnits = <<>> PROVE \A u \in accepted : deletes[u] = 1
    <3>1. Queued = {} BY <2>3 DEF Queued
    <3>2. Held = {} BY <2>1 DEF Held, Alive
    <3>3. \A u \in accepted : u \in Units BY DEF QueueInv, TypeOK
    <3> QED BY <3>1, <3>2, <3>3 DEF OwnInv, DeletedWhenGone
  <2> QED BY <2>1, <2>2, <2>3
<1> QED BY <1>1, QueueInvariance, Ownership, AliveInvariance, ServedInvariance, PTL

-----------------------------------------------------------------------------
(* The queue implements WorkBag, what its header promises.                 *)

Dropped == accepted \ (Queued \cup Held \cup ran)

\* A thread that is about to take a unit leaves room among the running ones.
LEMMA RoomToRun ==
  ASSUME TypeOK, NEW t \in Threads, worker[t] = "ready"
  PROVE  Cardinality(Held) < mMaxThreads
<1> DEFINE busy == {x \in Threads : worker[x] = "running"}
           f == [x \in busy |-> workUnit[x]]
<1>1. IsFiniteSet(Threads) /\ Cardinality(Threads) \in Nat BY FS_CardinalityType
<1>2. IsFiniteSet(busy) /\ Cardinality(busy) \in Nat /\ Cardinality(busy \cup {t}) <= Cardinality(Threads)
  <2>1. busy \subseteq Threads /\ busy \cup {t} \subseteq Threads OBVIOUS
  <2> HIDE DEF busy
  <2> QED BY <1>1, <2>1, FS_Subset, FS_CardinalityType
<1>3. Cardinality(busy \cup {t}) = Cardinality(busy) + 1
  <2>1. t \notin busy OBVIOUS
  <2> HIDE DEF busy
  <2> QED BY <1>2, <2>1, FS_AddElement
<1>4. Held = {f[x] : x \in busy} BY DEF Held
<1>5. f \in Surjection(busy, Held) BY <1>4 DEF Surjection
<1>6. IsFiniteSet(Held) /\ Cardinality(Held) <= Cardinality(busy)
  <2> HIDE DEF f, busy
  <2> QED BY <1>2, <1>5, FS_Surjection
<1>7. Cardinality(Held) \in Nat BY <1>6, FS_CardinalityType
<1> QED BY <1>1, <1>2, <1>3, <1>6, <1>7 DEF mMaxThreads

\* WorkBag counts with its own instance of FiniteSets.
LEMMA BagCounts == ASSUME NEW S PROVE Bag!Cardinality(S) = Cardinality(S)
BY DEF Bag!Cardinality, Cardinality

LEMMA BagInit == Init => Bag!Init
<1> SUFFICES ASSUME Init PROVE Bag!Init OBVIOUS
<1>1. Held = {} BY DEF Init, Held
<1> QED BY <1>1 DEF Init, Bag!Init

\* What the mapped state does when a step moves no unit and keeps the flags.
LEMMA BagStutters ==
  ASSUME TypeOK, TypeOK', UNCHANGED <<flags, mWorkUnits, workUnit, accepted, ran>>
  PROVE  UNCHANGED Bag!bagVars
<1>1. Held' = Held /\ Queued' = Queued BY SameHeld, SameQueued
<1> QED BY <1>1 DEF Bag!bagVars, flags

LEMMA BagPending == Bag!Pending = Queued
BY DEF Bag!Pending, Queued

LEMMA BagAccepts ==
  ASSUME TypeOK, TypeOK', OwnInv, OwnInv', NEW c \in Clients, NEW u \in Units, NEW w,
         u \notin accepted, ~mFinished, ~mCanceled, Enqueue(c, u, w)
  PROVE  Bag!Accept(u)
<1>1. /\ mWorkUnits' = Append(mWorkUnits, u) /\ accepted' = accepted \cup {u}
      /\ UNCHANGED <<flags, workUnit, ran>>
  BY DEF Enqueue
<1>2. Held' = Held BY <1>1, SameHeld
<1>3. u \notin Queued BY DEF OwnInv, Places
<1>4. Queued' = Queued \cup {u} BY <1>1, <1>3, AppendQueued DEF OwnInv, TypeOK
<1>5. u \notin Queued \cup Held \cup ran \cup Dropped BY DEF OwnInv, Places, Dropped
<1>6. Dropped' = Dropped BY <1>1, <1>2, <1>4, <1>5 DEF Dropped
<1> QED BY <1>1, <1>2, <1>5, <1>6, BagPending DEF Bag!Accept, Dropped, flags

LEMMA BagStarts ==
  ASSUME QueueInv, QueueInv', OwnInv, NEW t \in Threads, Take(t)
  PROVE  Bag!Start
<1>1. TypeOK BY DEF QueueInv
<1>2. /\ mWorkUnits \in Seq(Units) /\ mWorkUnits # <<>> /\ mWorkUnits' = Tail(mWorkUnits)
      /\ UNCHANGED <<flags, posting, history>>
  BY <1>1, TakeHeld
<1>3. Held' = Held \cup {Head(mWorkUnits)} BY TakeOwn
<1>4. Head(mWorkUnits) \in Queued /\ Queued' = Queued \ {Head(mWorkUnits)}
  BY <1>2, TailQueued DEF OwnInv
<1>5. Dropped' = Dropped BY <1>2, <1>3, <1>4 DEF Dropped, history
<1>6. ~mCanceled /\ Bag!Cardinality(Held) < mMaxThreads BY <1>1, RoomToRun, BagCounts DEF Take
<1>7. UNCHANGED <<mCanceled, mFinished, ran>> BY <1>2 DEF flags, history
<1> QED BY <1>2, <1>3, <1>5, <1>6, <1>7 DEF Bag!Start, Dropped

LEMMA BagCompletes ==
  ASSUME QueueInv, QueueInv', OwnInv, NEW t \in Threads, RunUnit(t)
  PROVE  \E u \in Units : Bag!Complete(u)
<1> DEFINE u == workUnit[t]
<1>1. /\ u \in Units /\ ran' = ran \cup {u}
      /\ UNCHANGED <<flags, mWorkUnits, accepted>>
  BY DEF QueueInv, TypeOK, RunUnit
<1>2. u \in Held /\ Held' = Held \ {u} BY RunOwn
<1>3. Queued' = Queued BY <1>1, SameQueued
<1>4. Dropped' = Dropped BY <1>1, <1>2, <1>3 DEF Dropped
<1>5. Bag!Complete(u) BY <1>1, <1>2, <1>4 DEF Bag!Complete, Dropped, flags
<1> QED BY <1>1, <1>5

LEMMA BagCancels ==
  ASSUME QueueInv, QueueInv', OwnInv, NEW w, CancelLocked(w),
         UNCHANGED <<mFinished, workUnit, accepted, ran>>
  PROVE  Bag!Cancel \/ UNCHANGED Bag!bagVars
<1>1. TypeOK /\ TypeOK' BY DEF QueueInv
<1>2. Held' = Held BY <1>1, SameHeld
<1>3. CASE mFinished \/ mCanceled
  BY <1>1, <1>3, BagStutters DEF CancelLocked, flags
<1>4. CASE ~(mFinished \/ mCanceled)
  <2>1. mCanceled' = TRUE /\ mWorkUnits' = <<>> BY <1>4 DEF CancelLocked
  <2>2. Queued' = {} BY <2>1, EmptyQueued
  <2>3. Dropped' = Dropped \cup Queued BY <1>2, <2>2 DEF Dropped, OwnInv, Places
  <2> QED BY <1>2, <1>4, <2>1, <2>3, BagPending DEF Bag!Cancel, Dropped
<1> QED BY <1>3, <1>4

LEMMA BagStep ==
  ASSUME QueueInv, OwnInv, [Next]_queueVars
  PROVE  [Bag!Next]_(Bag!bagVars)
<1>0. TypeOK /\ TypeOK' /\ QueueInv' /\ OwnInv' BY NextInv, OwnStep DEF QueueInv
<1>1. ASSUME NEW t \in Threads, WorkerStep(t) PROVE [Bag!Next]_(Bag!bagVars)
  <2>1. CASE Take(t) BY <1>0, <2>1, BagStarts DEF Bag!Next
  <2>2. CASE Exit(t) \/ WaitForWork(t)
    BY <1>0, <2>2, BagStutters DEF Exit, WaitForWork, history
  <2>3. CASE RunUnit(t) BY <1>0, <2>3, BagCompletes DEF Bag!Next
  <2>4. CASE Account(t)
    <3>1. UNCHANGED <<mFinished, workUnit, accepted, ran>> BY <2>4 DEF Account
    <3>2. CASE UNCHANGED <<mCanceled, mWorkUnits, client, deletes>>
      BY <1>0, <3>1, <3>2, BagStutters DEF flags
    <3>3. CASE CancelLocked([worker EXCEPT ![t] = "exited"])
      BY <1>0, <3>1, <3>3, BagCancels DEF Bag!Next
    <3> QED BY <2>4, <3>2, <3>3 DEF Account
  <2> QED BY <1>1, <2>1, <2>2, <2>3, <2>4 DEF WorkerStep
<1>2. ASSUME NEW c \in Clients, NEW u, Reject(c, u) PROVE UNCHANGED Bag!bagVars
  BY <1>0, <1>2, BagStutters DEF Reject, work
<1>3. ASSUME NEW c \in Clients, NEW u \in Units, Schedule(c, u) PROVE [Bag!Next]_(Bag!bagVars)
  <2>1. CASE Reject(c, u) BY <1>2, <2>1
  <2>2. CASE ScheduleSpawn(c, u) \/ ScheduleDirect(c, u)
    <3>1. PICK w : Enqueue(c, u, w) BY <2>2 DEF ScheduleSpawn, ScheduleDirect
    <3>2. u \notin accepted /\ ~mFinished /\ ~mCanceled
      BY <2>2 DEF ScheduleSpawn, ScheduleDirect, Posts
    <3> QED BY <1>0, <3>1, <3>2, BagAccepts DEF Bag!Next
  <2>3. CASE ScheduleBlocks(c, u)
    BY <1>0, <2>3, BagStutters DEF ScheduleBlocks, work, history
  <2> QED BY <1>3, <2>1, <2>2, <2>3 DEF Schedule, ScheduleClosed, ScheduleSpawnFails
<1>4. ASSUME NEW c \in Clients, ScheduleWoken(c) PROVE [Bag!Next]_(Bag!bagVars)
  <2>1. CASE Reject(c, posting[c]) BY <1>2, <2>1
  <2>2. CASE ~mFinished /\ ~mCanceled /\ Enqueue(c, posting[c], worker)
    <3>1. client[c] = "woken" BY <1>4 DEF ScheduleWoken
    <3>2. posting[c] \in Units /\ posting[c] \notin accepted BY <1>0, <3>1, WokenFresh
    <3> QED BY <1>0, <2>2, <3>2, BagAccepts DEF Bag!Next
  <2>3. CASE UNCHANGED <<flags, mIdleThreads, mWorkThreads, mWorkUnits, work, posting, history>>
    BY <1>0, <2>3, BagStutters DEF work, history
  <2> QED BY <1>4, <2>1, <2>2, <2>3 DEF ScheduleWoken
<1>5. ASSUME NEW c \in Clients, Cancel(c) PROVE [Bag!Next]_(Bag!bagVars)
  BY <1>0, <1>5, BagCancels DEF Cancel, Bag!Next
<1>6. ASSUME NEW c \in Clients, FinishBegin(c) PROVE Bag!Close
  <2>1. mFinished' = TRUE /\ UNCHANGED <<mCanceled, mWorkUnits, workUnit, accepted, ran>>
    BY <1>6 DEF FinishBegin, history
  <2>2. Held' = Held /\ Queued' = Queued BY <1>0, <2>1, SameHeld, SameQueued
  <2> QED BY <2>1, <2>2 DEF Bag!Close
<1>7. ASSUME (\E c \in Clients : FinishReturn(c)) \/ SpuriousWakeup \/ UNCHANGED queueVars
      PROVE  UNCHANGED Bag!bagVars
  <2>1. UNCHANGED <<flags, mWorkUnits, workUnit, accepted, ran>>
    BY <1>7 DEF FinishReturn, SpuriousWakeup, queueVars, work, history
  <2> QED BY <1>0, <2>1, BagStutters
<1> QED BY <1>1, <1>3, <1>4, <1>5, <1>6, <1>7 DEF Next, Bag!Next

\* The queue as the code has it, with its threads, locks and wakeups, implements the bag: units
\* start in the order they were accepted, at most mMaxThreads at a time, once each; none is
\* accepted after finish or cancel, none starts after a cancel.
THEOREM ImplementsBag == Spec => RefinesBag
BY BagInit, BagStep, QueueInvariance, Ownership, PTL DEF Spec, RefinesBag, Bag!BagSpec

=============================================================================
