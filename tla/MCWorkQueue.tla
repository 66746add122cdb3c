---------------------------- MODULE MCWorkQueue ----------------------------
(***************************************************************************)
(* A small instance of WorkQueue for TLC.                                  *)
(***************************************************************************)
EXTENDS WorkQueue

CONSTANTS t1, t2, c1, c2, u1, u2, u3, u4, u5

ThreadOrder == <<t1, t2>>
UnitOrder   == <<u1, u2, u3, u4, u5>>

Threads2 == {t1, t2}
Clients2 == {c1, c2}
Units5   == {u1, u2, u3, u4, u5}

\* The units of this instance are alike, and so are the threads before they start: which one
\* comes next makes no difference, so it is the next in order.  (A symmetry set would make the
\* same cut, but not soundly where liveness is checked.)
IsPrefix(order, used) ==
  \A i \in DOMAIN order : order[i] \in used => \A j \in 1..i : order[j] \in used

InOrder ==
  /\ IsPrefix(ThreadOrder, Started')
  /\ IsPrefix(UnitOrder, accepted' \cup rejected' \cup {posting'[c] : c \in Clients})

=============================================================================
