SPECIFICATION Spec
CONSTANTS
  Number <- MCNumber
  Numeral <- MCNumeral
  Order <- MCOrder
  Quoted <- MCQuoted
  Unquoted <- MCUnquoted
  Prefixed <- MCPrefixed
  Initial <- MCInitial
  Files <- MCFiles
  Sources <- MCSources
  Layouts <- MCLayouts
  UserValues <- MCUserValues
  MaxUser = 2
INVARIANTS
  CachesFresh
  AssignableExact
  ChoiceHasOne
  WrittenLoads
  MinimalLoads
  LoadReplaces
  SyntaxErrors
  LoopsRejected
  TreeKeepsOrder
  PrintedParses
  ConditionsEnclose
