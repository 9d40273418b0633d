SPECIFICATION FairSpec
CONSTANTS
  MaxFrame = 2
  MaxPending = 1
  MaxJpeg = 2
  MaxControl = 1
  MaxErrors = 0
  Configurations <- AllConfigurations
  Outputs <- StillPlusStream
PROPERTIES
  ControlReturns
  StreamServed
  JpegServed
