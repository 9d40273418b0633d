SPECIFICATION Spec
CONSTANTS
  MaxFrame = 3
  MaxPending = 2
  MaxJpeg = 1
  MaxControl = 2
  MaxErrors = 1
  Configurations <- VideoConfigurations
  Outputs <- VideoOutputs
INVARIANTS
  QueuesOrdered
  WorkerQuiesced
  ShutterBeforeStream
  FlushReturnsQueued
