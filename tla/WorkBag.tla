------------------------------ MODULE WorkBag ------------------------------
(***************************************************************************)
(* What the work queue of caapt promises its users (caapt/WorkQueue.h):    *)
(* accepted units start in the order they were accepted, at most           *)
(* MaxRunning at a time, each at most once; once the queue is closed no    *)
(* unit is accepted; a cancel drops the units that have not started, all   *)
(* of them, and none starts afterwards.                                    *)
(***************************************************************************)
EXTENDS Integers, Sequences, FiniteSets

CONSTANTS
  Units,       \* the work units
  MaxRunning   \* threads

VARIABLES
  pending,     \* accepted units that have not started, oldest first
  running,     \* units being run
  done,        \* units that were run
  dropped,     \* accepted units a cancel discarded
  closed,      \* finish or cancel was called
  canceled     \* cancel was called

bagVars == <<pending, running, done, dropped, closed, canceled>>

Pending == {pending[i] : i \in 1..Len(pending)}

Init ==
  /\ pending = <<>> /\ running = {} /\ done = {} /\ dropped = {}
  /\ closed = FALSE /\ canceled = FALSE

Accept(u) ==
  /\ ~closed
  /\ u \notin Pending \cup running \cup done \cup dropped
  /\ pending' = Append(pending, u)
  /\ UNCHANGED <<running, done, dropped, closed, canceled>>

Start ==
  /\ pending # <<>> /\ ~canceled
  /\ Cardinality(running) < MaxRunning
  /\ running' = running \cup {Head(pending)}
  /\ pending' = Tail(pending)
  /\ UNCHANGED <<done, dropped, closed, canceled>>

Complete(u) ==
  /\ u \in running
  /\ running' = running \ {u}
  /\ done' = done \cup {u}
  /\ UNCHANGED <<pending, dropped, closed, canceled>>

Close ==
  /\ closed' = TRUE
  /\ UNCHANGED <<pending, running, done, dropped, canceled>>

Cancel ==
  /\ ~canceled
  /\ closed' = TRUE /\ canceled' = TRUE
  /\ dropped' = dropped \cup Pending
  /\ pending' = <<>>
  /\ UNCHANGED <<running, done>>

Next ==
  \/ \E u \in Units : Accept(u) \/ Complete(u)
  \/ Start \/ Close \/ Cancel

BagSpec == Init /\ [][Next]_bagVars

=============================================================================
