CONSTANTS
  None = None
  RowIds = {r1, r2, r3}
  ColumnIds = {c1, c2, c3}
  DataRoles = {"name"}
  ColumnRoles = {"display", "edit"}
  Tables <- MCTables
  MaxColumn = 4
SYMMETRY MCSymmetry
SPECIFICATION Spec
INVARIANTS
  ChangesPaired
PROPERTIES
  RolesKeepColumnsElse
  FollowersStayRight
