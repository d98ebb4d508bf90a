SPECIFICATION Spec
CONSTANTS
  CommandLines <- AllLines
  MaxTokens = 4
  NameMax = 12
  PathMax = 20
  CwdLength = 4
  SemSuffix = 3
  BufferSize = 2
  Modulus = 8
INVARIANTS
  Understood
  NamesUsable
  FileSpared
  SpaceChecked
