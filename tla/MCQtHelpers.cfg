CONSTANTS
  width = width
  height = height
  ratio = ratio
  name = name
  sizeChanged = sizeChanged
  ratioChanged = ratioChanged
  checked = checked
  hovered = hovered
  None = None
  Guards = {g1, g2}
  Properties = {width, height, ratio, name}
  Signals = {sizeChanged, ratioChanged}
  Values = {a, b}
  Comparable = {width, height, ratio}
  SameType = {width, height}
  notifySignal <- MCNotifySignal
  Parameters <- MCParameters
  Connections = {c1, c2, c3}
  Usable = {c1, c2}
  Holders = {o1, o2, o3}
  NoDatabase = NoDatabase
  Emitters = {e1, e2}
  Caller = e1
  MaxEmissions = 3
  Senders = {s1, s2}
  Watched = w
  MaxAwaiters = 2
  MaxNestedEmissions = 2
  NoObject = NoObject
  Rules <- MCRules
  Conditions = {checked, hovered}
  Declared = {1, 2}
  Targets = {"item", "other"}
  Parent = "item"
  MaxTargets = 2
  MaxNested = 2
  Models <- MCModels
  Haystacks <- MCHaystacks
  Needles <- MCNeedles
  Fold <- MCFold
  Elements = {1, 2, 3}
  MaxSize = 4
  TableRows = {"r1", "r2"}
  TableColumns = 2
  CellRoles = {"display", "edit"}
  ItemRoles = {1, 2, 3}
  Mappings <- MCMappings
SYMMETRY MCSymmetry
SPECIFICATION Spec
CHECK_DEADLOCK FALSE
INVARIANTS
  Announced
  OwedOnce
  CalledOnce
  ResumesRight
  SenderLives
  RuleInEffect
  StepsInOrder
  TokensRight
  AsQVector
  ItemDataSet
PROPERTY
  EmittedOnce
