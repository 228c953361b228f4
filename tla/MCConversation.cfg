CONSTANTS
  m1 = m1  m2 = m2  w1 = w1  w2 = w2  s1 = s1  s2 = s2  t1 = t1  t2 = t2
  Messages <- MCMessages
  Sender <- MCSender
  Workers <- MCWorkers
  Sockets <- MCSockets
  Tickets <- MCTickets
  Owner <- MCOwner
SPECIFICATION Spec
SYMMETRY Symmetry
INVARIANTS NoticePerMessage DeliveredOnce RoomMissesNothing TicketOpensOneSocket MessagesNeedAcceptance
