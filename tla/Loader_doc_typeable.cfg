\* A key the design document lists.
SPECIFICATION BothSpec
CONSTANTS
  NoLetter = NoLetter
  Char <- FileChar
  lower <- FileLower
  Letter <- FileLetter
  DefaultSpecial <- SpecialDefaults
  DefaultRule <- RuleDefaults
  Files <- ShippedFiles
INVARIANT
  EveryKeyTypeable
CHECK_DEADLOCK FALSE
