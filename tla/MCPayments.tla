------------------------------ MODULE MCPayments ------------------------------
(***************************************************************************)
(* Small instances of Payments.  One booking: requests about different     *)
(* bookings share no state.                                                *)
(***************************************************************************)
EXTENDS Payments, TLC

CONSTANTS b1, w1, w2

MCBookingIds == {b1}
TwoWorkers == {w1, w2}

Symmetry == Permutations(TwoWorkers)
===============================================================================
