SPECIFICATION FairSpec
CONSTANTS
  Callers = {"sms", "signal"}
  MaxCalls = 1
  MaxConn = 1
INVARIANTS TypeOK NoMissedTimer ReleaseScheduled
PROPERTY WakeLockReleased
