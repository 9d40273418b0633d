SPECIFICATION Spec
CONSTANTS
  Tracks <- PlayedTracks
  Demand <- PlayedDemand
  Rates <- HifiRates
  NormalRate = "r44"
  GainRequests <- AskedGains
  MaxSets = 1
  MaxPatches = 1
  MaxSessions = 0
  MaxTracks = 1
  MaxFailures = 0
PROPERTY GainInStandby
