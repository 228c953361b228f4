\* Accounts, reports, figures and notifications, one part at a time.
SPECIFICATION BoundedSpec
CONSTANTS
  w1 = w1  w2 = w2  u1 = u1  u2 = u2  a1 = a1  a2 = a2  b1 = b1  b2 = b2
  n1 = n1  n2 = n2  n3 = n3  m1 = m1  x = x  y = y
  Workers <- MCWorkers
  UserIds <- MCUserIds
  Addresses = {x, y}
  Spellings = {"SHOUTED"}
  Names = {"name"}
  Admins <- MCAdmins
  ReportIds = {1, 2, 3, 4}
  Users <- MCUserIds
  Profiles = {m1}
  Bookings = {b1}
  ReviewIds = {1}
  Messages = {1}
  OwnerOf <- MCOwnerOf
  BookedBy <- MCBookedBy
  ReviewOf <- MCReviewOf
  SentIn <- MCSentIn
  Notes = {"note"}
  PageSize = 2
  Orders <- MCOrders
  Amount <- MCAmount
  DayLength = 2
  BangkokOffset = 1
  LastInstant = 3
  Readers <- MCWorkers
  Owners <- MCUserIds
  NoticeIds <- MCNotices
INVARIANTS LoginFindsOwner RefusalHasReason TurnsMissNothing DaysAddUp CountsAddUp
PROPERTY NoteLostNeedsRace
CHECK_DEADLOCK FALSE
