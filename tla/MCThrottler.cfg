CONSTANTS
  Timeouts = {0, 2, 3}
  Early = 1
  Late = 1
  Cap = 4
  Reentrant = TRUE
  MaxDepth = 3
SPECIFICATION FairSpec
INVARIANTS
  TypeOK
  TimerHasWork
  Spacing
  Debounced
PROPERTIES
  LimitsRate
  Answered
  TimerStops
