SPECIFICATION FairSpec
CONSTANTS
  Tracks <- PlayedTracks
  Demand <- PlayedDemand
  Rates <- HifiRates
  NormalRate = "r44"
  GainRequests <- AskedGains
  MaxSets = 2
  MaxPatches = 1
  MaxSessions = 0
  MaxTracks = 1
  MaxFailures = 1
PROPERTY OffReachesDac
