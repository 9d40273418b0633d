SPECIFICATION Spec
CONSTANTS
  MinBuffers = 3
  MaxBuffers = 4
  EngineBuffers = 3
  FirstCount = 1
  Counts = {2, 4, 5}
  Geometries = {small, large}
  Usages = {camera, encoder}
  FirstUsage = camera
  Unset = unset
INVARIANTS TypeOK FrameIntact BuffersMatch EnoughBuffers
PROPERTY HeldStay
