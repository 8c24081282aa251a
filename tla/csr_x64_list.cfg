SPECIFICATION Spec
CONSTANTS
  Archs = {"x64"}
  Lists <- X64Lists
  Roundings <- X64NoRounding
  DazFtz = {"none"}
  Originals = {"nearest"}
INVARIANTS
  InterceptsListed
