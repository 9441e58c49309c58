------------------------------- MODULE Keymap -------------------------------
(***************************************************************************)
(* A loaded keymap: what struct Mapping and its two tries answer once      *)
(* Mapping::from_json_string has returned.  The composer only ever asks a  *)
(* trie two questions, find() and is_strict_prefix(), so a trie is the     *)
(* dictionary of Lookup that Trie implements.                              *)
(***************************************************************************)
EXTENDS Lookup

CONSTANTS
  Char,        \* ASCII characters a key event may carry (a 7-bit codepoint)
  Letter,      \* Sinhala codepoints, and ZWJ
  NoLetter,    \* the codepoint 0, "no letter", of pending_consonant_ and VowelEntry
  Consonants,  \* the consonant trie: key sequence -> letter
  Vowels,      \* the vowel trie: key sequence -> [standalone, matra]
  virama, anusvara, visarga, zwj,
  terminator_key, conjunct_marker, anusvara_key, visarga_key,
  unmapped_passthrough

\* A char32_t keystroke: an ASCII codepoint, with kShiftBit (bit 31) set or not.
Key == [cp : Char, shift : BOOLEAN]

\* cp & ~kShiftBit
base_ascii(key) == key.cp

\* A letter that may be missing, as text.
Optional(letter) == IF letter = NoLetter THEN <<>> ELSE <<letter>>

VowelEntry == [standalone : Letter \cup {NoLetter}, matra : Letter \cup {NoLetter}]

(***************************************************************************)
(* What is assumed of every keymap: payloads and rule keys have their      *)
(* types, no payload is the codepoint 0 (an empty string in the JSON file) *)
(* and no letter is an ASCII character.  Nothing is assumed of the shape   *)
(* of the tries: the loader accepts any.                                   *)
(***************************************************************************)
ASSUME KeymapTypes ==
  /\ NoLetter \notin Letter
  /\ Char \cap (Letter \cup {NoLetter}) = {}
  /\ DOMAIN Consonants \subseteq Seq(Key)
  /\ Consonants \in [DOMAIN Consonants -> Letter]
  /\ DOMAIN Vowels \subseteq Seq(Key)
  /\ Vowels \in [DOMAIN Vowels -> VowelEntry]
  /\ {virama, anusvara, visarga, zwj} \subseteq Letter
  /\ {terminator_key, conjunct_marker, anusvara_key, visarga_key} \subseteq Key
  /\ unmapped_passthrough \in BOOLEAN

-----------------------------------------------------------------------------
(* Classes of keys *)

\* The four rule keys override the tries, in the order feed() compares them.
KeyClass(key) ==
  IF key = terminator_key THEN "terminator"
  ELSE IF key = conjunct_marker THEN "conjunct"
  ELSE IF key = anusvara_key THEN "anusvara"
  ELSE IF key = visarga_key THEN "visarga"
  ELSE "ordinary"

\* A key the keymap gives no meaning to: no rule, no consonant, no vowel.
Unmapped(key) ==
  /\ KeyClass(key) = "ordinary"
  /\ ~ Matches(Consonants, <<key>>)
  /\ ~ Matches(Vowels, <<key>>)

-----------------------------------------------------------------------------
(* Properties a keymap may have.  phonetic-default.json has all of them    *)
(* but the second; the loader checks none of them.                         *)

\* Every proper, non-empty prefix of a vowel key is itself a vowel key.
VowelsHaveNoGaps ==
  \A seq \in DOMAIN Vowels : \A n \in 1..(Len(seq) - 1) : Exact(Vowels, SubSeq(seq, 1, n))

\* The first key of every multi-key consonant is a consonant by itself.
ConsonantsHaveNoGaps ==
  \A seq \in DOMAIN Consonants : seq # <<>> => Exact(Consonants, <<Head(seq)>>)

\* A consonant takes one key or two, so a buffered consonant prefix is one key.
ConsonantsAreShort == \A seq \in DOMAIN Consonants : Len(seq) <= 2

\* No key of a trie has a rule key in it, which feed() would never look up.
RuleKeysStandAlone ==
  \A seq \in DOMAIN Consonants \cup DOMAIN Vowels :
    \A i \in DOMAIN seq : KeyClass(seq[i]) = "ordinary"

\* No key starts both a consonant and a vowel.
TriesAreDisjoint ==
  \A c \in DOMAIN Consonants, v \in DOMAIN Vowels :
    c # <<>> /\ v # <<>> => Head(c) # Head(v)

\* The longest match is the only reading a word has.
WordsHaveOneReading ==
  VowelsHaveNoGaps /\ ConsonantsAreShort /\ RuleKeysStandAlone /\ TriesAreDisjoint

ConsonantLetters == {Consonants[seq] : seq \in DOMAIN Consonants}
Matras == {Vowels[seq].matra : seq \in DOMAIN Vowels} \ {NoLetter}
StandaloneVowels == {Vowels[seq].standalone : seq \in DOMAIN Vowels} \ {NoLetter}

\* The signs that combine with a consonant are told apart from everything else.
SignsAreDistinct ==
  /\ virama \notin ConsonantLetters \cup Matras \cup StandaloneVowels
  /\ virama \notin {anusvara, visarga, zwj}
  /\ zwj \notin ConsonantLetters \cup Matras \cup StandaloneVowels
  /\ zwj \notin {anusvara, visarga}
  /\ Matras \cap (ConsonantLetters \cup StandaloneVowels \cup {anusvara, visarga}) = {}
=============================================================================
