\* Two concurrent requests, one declined attempt, one failure.
SPECIFICATION Spec
CONSTANTS
  b1 = b1  w1 = w1  w2 = w2
  BookingIds <- MCBookingIds
  Workers <- TwoWorkers
  MaxDeclines = 1
  MaxFailures = 1
INVARIANTS RowsAreBacked EventsFindTheirRow 
SYMMETRY Symmetry
PROPERTY ImplementsLedger
CHECK_DEADLOCK FALSE
