\* Two creates and two decision requests at a time, any number of decisions
\* in all (no symmetry: the run checks temporal properties).
SPECIFICATION FairSpec
CONSTANTS
  b1 = b1  b2 = b2  m1 = m1  c1 = c1  c2 = c2  d1 = d1  d2 = d2  d3 = d3
  BookingIds <- MCBookingIds
  Mates <- MCMates
  Slots <- MCSlots
  CreateRequests <- MCCreates
  DecisionRequests <- MCDecisions
  MinDuration = 2
  MaxDuration = 16
  MaxLatency = 1
  MaxTime = 4
INVARIANTS DoubleBookingNeedsRevival CancelSparesCompleted
PROPERTIES ImplementsCalendar SettledIsStable CreatesAreAnswered
CHECK_DEADLOCK FALSE
