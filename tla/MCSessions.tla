------------------------------ MODULE MCSessions ------------------------------
(***************************************************************************)
(* A small instance of Sessions.  Three tokens are two sessions, one of    *)
(* them renewed, or one session renewed twice.                             *)
(***************************************************************************)
EXTENDS Sessions, TLC

CONSTANTS t1, t2, t3, w1, w2

MCTokens == {t1, t2, t3}
TwoWorkers == {w1, w2}

Symmetry == Permutations(MCTokens) \cup Permutations(Workers)
===============================================================================
