\* Two concurrent requests or deliveries, up to three of which fail half-way.
\* No symmetry: a temporal property is checked.
SPECIFICATION FairSpec
CONSTANTS
  b1 = b1  w1 = w1  w2 = w2
  BookingIds <- MCBookingIds
  Workers <- TwoWorkers
  MaxDeclines = 0
  MaxFailures = 3
INVARIANT PaidNoticeOnce
PROPERTIES RegressNeedsRace ChargeIsRecorded
CHECK_DEADLOCK FALSE
