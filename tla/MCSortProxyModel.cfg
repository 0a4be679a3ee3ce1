CONSTANTS
  MaxRows = 4
  MaxChanged = 2
  Roles <- MCRoles
  Keys <- MCKeys
  Models <- MCModels
  Pinned = {2}
  None = None
SPECIFICATION Spec
INVARIANTS
  MapsRight
  ViewFollows
  IteratorsInRange
  SortedAscending
PROPERTIES
  PinStays
  ReorderSorts
  HandlerReturns
