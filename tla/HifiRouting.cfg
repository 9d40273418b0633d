SPECIFICATION Spec
CONSTANTS
  Tracks <- PlayedTracks
  Demand <- PlayedDemand
  Rates <- HifiRates
  NormalRate = "r44"
  GainRequests <- AskedGains
  MaxSets = 1
  MaxPatches = 2
  MaxSessions = 1
  MaxTracks = 2
  MaxFailures = 1
INVARIANTS TypeOK HifiDelivered HifiNeverUnwanted BeliefMatches
PROPERTY RestartKeepsPolicy
