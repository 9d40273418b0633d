SPECIFICATION Spec
CONSTANTS
  MaxFrame = 3
  MaxPending = 1
  MaxJpeg = 2
  MaxControl = 2
  MaxErrors = 1
  Configurations <- StillConfigurations
  Outputs <- StillOutputs
INVARIANTS
  TypeOK
  BufferAccounting
  ActiveImpliesQueued
  NoStrandedJpeg
  ActiveIsPursued
  ImageMatchesRequest
PROPERTIES
  ImplementsContract
