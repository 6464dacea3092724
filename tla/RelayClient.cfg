SPECIFICATION Spec
CONSTANTS
  Sessions = {s1, s2}
  DaemonConns = {d1, d2}
  ClientConns = {c1, c2}
  None = None
  Home = s1
  MaxBackoff = 2
  MaxConns = 3
  MaxRequests = 1
CHECK_DEADLOCK FALSE
INVARIANTS
  LinkTypeOK
  RoutesAreLive
  ClientsAreRouted
  FramesStayInSession
  FramesInOrder
  HandledOnce
  AnswersInOrder
PROPERTIES
  RequestsAreAnswered
