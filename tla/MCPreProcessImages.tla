------------------------- MODULE MCPreProcessImages -------------------------
(***************************************************************************)
(* A small instance of PreProcessImages for TLC.                           *)
(***************************************************************************)
EXTENDS PreProcessImages, TLC

CONSTANTS t1, t2, u1, u2, u3, u4

TwoThreads == {t1, t2}
OneClient  == {main}
FourImages == {u1, u2, u3, u4}
OneBroken  == {u1}

=============================================================================
