\* Full parity under a keymap with gaps: the two implementations differ.
SPECIFICATION Spec
CONSTANTS
  NoLetter = NoLetter
  NoKey = NoKey
  Char <- GappedChar
  Letter <- GappedLetter
  Consonants <- GappedConsonants
  Vowels <- GappedVowels
  virama <- mc_virama
  anusvara <- mc_anusvara
  visarga <- mc_visarga
  zwj <- mc_zwj
  terminator_key <- terminator
  conjunct_marker <- conjunct
  anusvara_key <- anusvara_q
  visarga_key <- visarga_q
  unmapped_passthrough = FALSE
PROPERTIES
  MirrorsReference
