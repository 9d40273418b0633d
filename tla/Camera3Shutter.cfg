SPECIFICATION Spec
CONSTANTS
  MaxFrame = 2
  MaxPending = 1
  MaxJpeg = 1
  MaxControl = 1
  MaxErrors = 0
  Configurations <- StillConfigurations
  Outputs <- StillPlusPreview
INVARIANTS
  ShutterBeforeBuffer
