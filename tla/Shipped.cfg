\* The state machine under a keymap with the shape of the shipped one.
SPECIFICATION Spec
CONSTANTS
  NoLetter = NoLetter
  NoKey = NoKey
  Char <- ShippedChar
  Letter <- ShippedLetter
  Consonants <- ShippedConsonants
  Vowels <- ShippedVowels
  virama <- mc_virama
  anusvara <- mc_anusvara
  visarga <- mc_visarga
  zwj <- mc_zwj
  terminator_key <- terminator
  conjunct_marker <- conjunct
  anusvara_key <- anusvara_q
  visarga_key <- visarga_q
  unmapped_passthrough = TRUE
INVARIANTS
  TypeOK
  PrefixIsLive
  BufferShape
  ViramaFollowsConsonant
  RefeedBounded
  CommitFits
  PreviewsAgreeOnConsonants
PROPERTIES
  NoConsonantLost
  BackspaceShrinks
  FeedReturns
  MirrorsReference
