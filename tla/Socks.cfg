CONSTANTS
  Payload = 2
  Backlog = 2
SPECIFICATION SocksFairSpec
INVARIANTS PayloadIsWhole AnswersFit
PROPERTIES RequestIsAnswered SocketIsReleased
CHECK_DEADLOCK FALSE
