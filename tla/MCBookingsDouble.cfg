\* BOOK-24: no double booking. Violated by a stale accept.
SPECIFICATION Spec
CONSTANTS
  b1 = b1  b2 = b2  m1 = m1  c1 = c1  c2 = c2  d1 = d1  d2 = d2  d3 = d3
  BookingIds <- MCBookingIds
  Mates <- MCMates
  Slots <- MCSlots
  CreateRequests <- MCCreates
  DecisionRequests <- MCDecisions3
  MinDuration = 2
  MaxDuration = 16
  MaxLatency = 1
  MaxTime = 4
SYMMETRY Symmetry
INVARIANT NoDoubleBooking
CHECK_DEADLOCK FALSE
