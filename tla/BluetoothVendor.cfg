SPECIFICATION FairSpec
CONSTANTS
  Senders = {"acl", "command"}
  FwCommands = 3
  MaxPackets = 3
  MaxSessions = 3
  MaxFailures = 1
INVARIANTS TypeOK AwakeWhileWriting QuietBeforeSleep
PROPERTIES InitCompletes SleepsEventually
