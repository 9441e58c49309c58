\* A sentence of the documentation, under the shipped shape.
SPECIFICATION Spec
CONSTANTS
  NoLetter = NoLetter
  NoKey = NoKey
  Char <- ShippedChar
  Letter <- ShippedLetter
  Consonants <- ShippedConsonants
  Vowels <- ShippedVowels
  virama <- mc_virama
  anusvara <- mc_anusvara
  visarga <- mc_visarga
  zwj <- mc_zwj
  terminator_key <- terminator
  conjunct_marker <- conjunct
  anusvara_key <- anusvara_q
  visarga_key <- visarga_q
  unmapped_passthrough = TRUE
PROPERTY
  BackspacePassesThrough
