CONSTANTS
  Off = Off
  Frequencies = {2, 3}
  MaxTimes = {4, 5}
  Late = 1
  MaxLag = 3
  WaitTimeout = 2
  Second = 9
  MaxAge = 13
SPECIFICATION FairSpec
INVARIANTS
  WorkerWatches
PROPERTIES
  Justified
  Stops
