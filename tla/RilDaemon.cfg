SPECIFICATION FairSpec
CONSTANTS
  Requests <- SentRequests
  Kind <- SentKinds
  Callers = {"time"}
  NitzCaller = "time"
  MaxConn = 2
  MaxCalls = 1
  MaxRejects = 1
INVARIANTS TypeOK OneClient CancelledStaysSilent NitzKept
PROPERTIES NextClientServed Answered
