SPECIFICATION Spec
CONSTANTS
  Number <- MCNumber
  Numeral <- MCNumeral
  Order <- MCOrder
  Quoted <- MCQuoted
  Unquoted <- MCUnquoted
  Prefixed <- MCQuoted
  Initial <- MCInitial
  Sources <- MCSources
  Upgrades <- MCUpgrades
  Filenames <- MCFilenames
  Handwritten <- MCHandwritten
  Configs <- MCConfigs
  SymbolsOf <- MCSymbolsOf
  NamesOf <- MCNamesOf
  TypeOf <- MCTypeOf
  Fresh <- MCFresh
  Loaded <- MCLoaded
  Edited <- MCEdited
  SavedAs <- MCSavedAs
  ValuesOf <- written_values
  UserValues <- MCUserValues
  MaxUser = 2
  MaxFaults = 2
INVARIANTS
  FilesAgree
  RebuildsChanged
