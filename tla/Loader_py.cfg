\* The Python loader on every kind of file.
SPECIFICATION Spec
CONSTANTS
  NoLetter = NoLetter
  Char <- FileChar
  lower <- FileLower
  Letter <- FileLetter
  DefaultSpecial <- SpecialDefaults
  DefaultRule <- RuleDefaults
  Files <- AllFiles
INVARIANTS
  LoadsWhatIsWritten
  PrefixSetsAreTries
CHECK_DEADLOCK FALSE
