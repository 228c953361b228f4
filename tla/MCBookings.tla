------------------------------ MODULE MCBookings ------------------------------
(***************************************************************************)
(* Small instances of Bookings.  One mate: bookings of different mates      *)
(* share nothing.  Two slots overlap and the third is too short to be      *)
(* booked; the clock runs past the end of the first slot, so that a        *)
(* booking can be completed.                                               *)
(***************************************************************************)
EXTENDS Bookings, TLC

CONSTANTS b1, b2, m1, c1, c2, d1, d2, d3

MCBookingIds == {b1, b2}
MCMates == {m1}
MCSlots == { [start |-> 1, end |-> 3], [start |-> 2, end |-> 4],
             [start |-> 3, end |-> 4] }
MCCreates == {c1, c2}
MCDecisions == {d1, d2}
MCDecisions3 == {d1, d2, d3}

Symmetry == Permutations(MCBookingIds) \cup Permutations(MCCreates)
              \cup Permutations(MCDecisions3)
===============================================================================
