\* Every day of up to two windows and three bookings on a grid of five steps; two
\* requests about reviews; walks of two mates to a page.
SPECIFICATION BoundedSpec
CONSTANTS
  Horizon = 5
  MaxWindows = 2
  MaxBooked = 3
  w1 = w1  w2 = w2  b1 = b1  b2 = b2  b3 = b3
  Workers <- MCWorkers
  Bookings <- MCBookings
  ReviewIds = {1, 2, 3}
  Ratings = {2, 5}
  Mates = {1, 2, 3}
  MateOf <- MCMateOf
  HourlyRate <- MCHourlyRate
  CreatedAt <- MCCreatedAt
  ReviewedAt <- MCReviewedAt
  CalendarOf = 3
  Limit = 2
  ReviewLimit = 1
  Queries <- MCQueries
SYMMETRY Symmetry
INVARIANTS OffersMatchBookings DiscoveryAgrees OneReviewPerBooking WalkIsComplete ReviewsAgree
PROPERTY RemovedStaysRemoved
CHECK_DEADLOCK FALSE
