SPECIFICATION Spec
CONSTANTS
  Number <- MCNumber
  Numeral <- MCNumeral
  Order <- MCOrder
  Quoted <- MCQuoted
  Unquoted <- MCUnquoted
  Prefixed <- MCQuoted
  Initial <- MCInitial
  Sources <- MCSources
  Configs <- MCConfigs
  InBounds <- MCInBounds
  NodesOf <- MCNodesOf
  NodeOf <- MCNodeOf
  ShownNodes <- MCShownNodes
  ParentMenu <- MCParentMenu
  SelectionNodes <- MCSelectionNodes
  Changeable <- MCChangeable
  InYMode <- MCInYMode
  TakesText <- MCTakesText
  ValidTexts <- MCValidTexts
  AssignableTo <- MCAssignable
  ValueNow <- MCValueNow
  WithValue <- MCWithValue
  Fresh <- MCFresh
  Loaded <- MCLoaded
  SavedAs <- MCSavedAs
  MinimalAs <- MCMinimalAs
  ValuesOf <- MCValuesOf
  UserValues <- MCUserValues
  Filenames = {"f1", "f2"}
  Writable = {"f1"}
  Faulty <- MCFaulty
  ConfigName = "f1"
  Handwritten <- MCHandwritten
  Heights = {1, 3}
  ScrollOffset = 1
  PgJump = 2
  MaxUser = 2
INVARIANTS
  CursorKept
  ShownIsCurrent
  CursorOnScreen
  QuitLosesNothing
