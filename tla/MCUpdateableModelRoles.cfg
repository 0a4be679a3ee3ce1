CONSTANTS
  Keys = {1, 2}
  Columns = {0, 1, 2}
  Roles = {"display", "edit"}
  Versions <- MCVersions
  MaxRows = 3
  None = None
SPECIFICATION Spec
INVARIANT ViewIsBehind
