SPECIFICATION Spec
CONSTANTS
  Archs = {"x64", "arm64", "riscv64"}
  Lists <- CsrLists
  Roundings <- CsrRoundings
  DazFtz = {"none", "ftz", "daz", "both"}
  Originals = {"nearest", "negative", "positive", "zero"}
INVARIANTS
  InterceptsListed
  SilentOtherwise
  FlagsAreOwn
  RoundingForced
  RoundingPutBack
