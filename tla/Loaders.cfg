\* Both loaders on the same file, of every kind.
SPECIFICATION BothSpec
CONSTANTS
  NoLetter = NoLetter
  Char <- FileChar
  lower <- FileLower
  Letter <- FileLetter
  DefaultSpecial <- SpecialDefaults
  DefaultRule <- RuleDefaults
  Files <- AllFiles
INVARIANTS
  LoadsWhatIsWritten
  
  KeysCanBeTyped
  LoadersAgree
CHECK_DEADLOCK FALSE
