SPECIFICATION Spec
CONSTANTS
  Requests <- DialOnly
  Kind <- DialKind
  Callers = {"time"}
  NitzCaller = "time"
  MaxConn = 2
  MaxCalls = 0
  MaxRejects = 0
INVARIANT ResponsesStayHome
