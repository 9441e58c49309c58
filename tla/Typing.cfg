\* Every word of up to five keys, under a keymap with the shape of the shipped one.
SPECIFICATION WordSpec
CONSTANTS
  NoLetter = NoLetter
  Char <- ShippedChar
  Letter <- ShippedLetter
  Consonants <- ShippedConsonants
  Vowels <- ShippedVowels
  virama <- mc_virama
  anusvara <- mc_anusvara
  visarga <- mc_visarga
  zwj <- mc_zwj
  terminator_key <- terminator
  conjunct_marker <- conjunct
  anusvara_key <- anusvara_q
  visarga_key <- visarga_q
  unmapped_passthrough = TRUE
  TypedKeys <- WordKeys
  MaxLen = 5
INVARIANT
  WritesWhatIsSpelled
CHECK_DEADLOCK FALSE
