----------------------------- MODULE KeymapFile -----------------------------
(***************************************************************************)
(* A keymap file as parsed JSON, and what its strings stand for.  The same *)
(* file is read by Mapping::from_json_string (C++) and by                  *)
(* Mapping.from_json_string (Python).                                      *)
(***************************************************************************)
EXTENDS Lookup, Functions

CONSTANTS
  Char,     \* ASCII characters
  lower,    \* tolower, a function on the upper-case characters
  Letter,   \* Unicode codepoints but 0
  NoLetter, \* the codepoint 0, and Python's None
  Files,    \* the files that may be loaded
  DefaultSpecial, \* Python's codepoints for the signs a file leaves out
  DefaultRule     \* the rule keys of both programs if a file leaves them out

Upper == DOMAIN lower
SpecialName == {"virama", "anusvara", "visarga", "zwj"}
RuleName == {"terminator_key", "conjunct_marker", "anusvara_key", "visarga_key"}

\* A string is told by its letters, any other value by what Python's if takes it for:
\* 0, false, [] and {} are falsy.
Json == [kind : {"string", "null", "falsy", "truthy"}, text : Seq(Letter)]
MaybeJson == [kind : {"string", "null", "falsy", "truthy", "absent"}, text : Seq(Letter)]

\* The entry of a single-key consonant; one that is not an object has no members.
Entries ==
  {e \in [is_object : BOOLEAN, base : MaybeJson, shift : MaybeJson] :
     ~ e.is_object => e.base.kind = "absent" /\ e.shift.kind = "absent"}

\* An object is a function from its member names; a rule key is <<string>>, or <<>>.
IsFile(f) ==
  /\ DOMAIN f.consonants \subseteq Seq(Char)
  /\ f.consonants \in [DOMAIN f.consonants -> Entries]
  /\ DOMAIN f.multi_key_consonants \subseteq Seq(Char)
  /\ f.multi_key_consonants \in [DOMAIN f.multi_key_consonants -> Json]
  /\ DOMAIN f.vowels_standalone \subseteq Seq(Char)
  /\ f.vowels_standalone \in [DOMAIN f.vowels_standalone -> Json]
  /\ DOMAIN f.vowel_signs \subseteq Seq(Char)
  /\ f.vowel_signs \in [DOMAIN f.vowel_signs -> Json]
  /\ f.special \in [SpecialName -> MaybeJson]
  /\ f.rules \in [RuleName -> Seq(Seq(Char))]
  /\ f.unmapped_passthrough \in {"true", "false", "absent", "truthy", "falsy"}

ASSUME FileTypes ==
  /\ NoLetter \notin Letter
  /\ Upper \subseteq Char /\ lower \in Injection(Upper, Char \ Upper)
  /\ DefaultSpecial \in [SpecialName -> Letter]
  /\ DefaultRule \in [RuleName -> Char]
  /\ \A f \in Files : IsFile(f)

-----------------------------------------------------------------------------
(* Keys of the file as keystrokes *)

Key == [cp : Char, shift : BOOLEAN]

Raw(c) == [cp |-> c, shift |-> FALSE]
shift_key(c) == [cp |-> c, shift |-> TRUE]

\* An upper-case letter stands for Shift and the lower-case one.
KeyOf(c) == IF c \in Upper THEN shift_key(lower[c]) ELSE Raw(c)

\* _multi_key_to_tuple: only the first character may stand for a Shift.
multi_key_to_seq(s) == [i \in 1..Len(s) |-> IF i = 1 THEN KeyOf(s[i]) ELSE Raw(s[i])]

vowel_key_to_seq_FirstOnly(s) == multi_key_to_seq(s)

\* _vowel_key_to_tuple: every character may.
vowel_key_to_seq(s) == [i \in 1..Len(s) |-> KeyOf(s[i])]

VowelEntry == [standalone : Letter \cup {NoLetter}, matra : Letter \cup {NoLetter}]

\* A keymap as a program holds it.
Keymaps(consonants, vowels, special, rules, unmapped_passthrough) ==
  [consonants |-> consonants, vowels |-> vowels, special |-> special,
   rules |-> rules, unmapped_passthrough |-> unmapped_passthrough]

\* Before anything is read.
Empty(special) ==
  Keymaps(<<>>, <<>>, special, [r \in RuleName |-> Raw(DefaultRule[r])], TRUE)

\* The rule keys after reading those of the file.
rule_keys(f, m) ==
  [r \in RuleName |-> IF f.rules[r] = <<>> THEN m.rules[r] ELSE KeyOf(f.rules[r][1][1])]

RuleTooLong(f) == \E r \in RuleName : f.rules[r] # <<>> /\ Len(f.rules[r][1]) # 1

-----------------------------------------------------------------------------
(* What a file says, apart from any program *)

IsLetter(v) == v.kind = "string" /\ Len(v.text) = 1
IsNothing(v) == v.kind \in {"null", "absent"}
IsOddString(v) == v.kind = "string" /\ Len(v.text) # 1
IsBlank(v) == v.kind = "string" /\ v.text = <<>>
IsFlag(v) == v \in {"true", "false", "absent"}
LetterOf(v) == IF v.kind = "string" THEN v.text[1] ELSE NoLetter

\* A file that both programs are meant to load, as phonetic-default.json: every letter is
\* one codepoint, or null where a key has none; single-key consonants are one lower-case
\* character; the signs are all there, and rule keys are single characters.
Plain(f) ==
  /\ \A k \in DOMAIN f.consonants :
       /\ Len(k) = 1 /\ k[1] \notin Upper /\ f.consonants[k].is_object
       /\ \A v \in {f.consonants[k].base, f.consonants[k].shift} : IsLetter(v) \/ IsNothing(v)
  /\ \A k \in DOMAIN f.multi_key_consonants : IsLetter(f.multi_key_consonants[k])
  /\ \A k \in DOMAIN f.vowels_standalone :
       IsLetter(f.vowels_standalone[k]) \/ IsNothing(f.vowels_standalone[k])
  /\ \A k \in DOMAIN f.vowel_signs : IsLetter(f.vowel_signs[k]) \/ IsNothing(f.vowel_signs[k])
  /\ \A s \in SpecialName : IsLetter(f.special[s])
  /\ ~ RuleTooLong(f)
  /\ IsFlag(f.unmapped_passthrough)

\* Where the programs part.  The values of the two members of an entry, of a section that
\* is one of optional letters, and of all that are read as strings:
ConsonantValues(f) == UNION {{f.consonants[k].base, f.consonants[k].shift} : k \in DOMAIN f.consonants}
OptionalValues(f) == ConsonantValues(f) \cup Range(f.vowels_standalone) \cup Range(f.vowel_signs)
Values(f) == OptionalValues(f) \cup Range(f.multi_key_consonants) \cup Range(f.special)

HasOddString(f) == \E v \in Values(f) : IsOddString(v)
HasFalsy(f) == \E v \in OptionalValues(f) : v.kind = "falsy"
HasBareEntry(f) == \E k \in DOMAIN f.consonants : ~ f.consonants[k].is_object
HasUpperKey(f) == \E k \in DOMAIN f.consonants : Len(k) = 1 /\ k[1] \in Upper
LacksSign(f) == \E s \in SpecialName : f.special[s].kind = "absent"

\* A file with none of that is plain, or to be refused.
Portable(f) ==
  /\ ~ HasOddString(f) /\ ~ HasFalsy(f) /\ ~ HasBareEntry(f) /\ ~ HasUpperKey(f)
  /\ ~ LacksSign(f) /\ IsFlag(f.unmapped_passthrough)

\* An empty string where a letter is stored as it is read.
HasBlank(f) ==
  \E v \in ConsonantValues(f) \cup Range(f.multi_key_consonants) \cup Range(f.special) : IsBlank(v)

Singles(f) == {k \in DOMAIN f.consonants : IsLetter(f.consonants[k].base)}
Shifteds(f) == {k \in DOMAIN f.consonants : IsLetter(f.consonants[k].shift)}

MultiSeqs(multis) == {multi_key_to_seq(k) : k \in multis}

\* trie holds the consonants of the first section with a key in singles, and those of
\* the second with a key in multis, which win where a key is written twice.
HoldsConsonants(f, trie, singles, multis) ==
  /\ DOMAIN trie = {<<Raw(k[1])>> : k \in Singles(f) \cap singles} \cup
                   {<<shift_key(k[1])>> : k \in Shifteds(f) \cap singles} \cup
                   MultiSeqs(multis)
  /\ \A k \in Singles(f) \cap singles :
       <<Raw(k[1])>> \notin MultiSeqs(multis) =>
         trie[<<Raw(k[1])>>] = LetterOf(f.consonants[k].base)
  /\ \A k \in Shifteds(f) \cap singles :
       <<shift_key(k[1])>> \notin MultiSeqs(multis) =>
         trie[<<shift_key(k[1])>>] = LetterOf(f.consonants[k].shift)
  /\ \A k \in multis : trie[multi_key_to_seq(k)] = LetterOf(f.multi_key_consonants[k])

\* The letter a section gives to a key, if the key is among those read.
Half(section, read, k) == IF k \in read THEN LetterOf(section[k]) ELSE NoLetter

\* trie holds the vowels whose keys are read in either section, both halves merged.
HoldsVowels(f, trie, standalones, signs) ==
  /\ DOMAIN trie = {vowel_key_to_seq(k) : k \in standalones \cup signs}
  /\ \A k \in standalones \cup signs :
       trie[vowel_key_to_seq(k)] =
         [standalone |-> Half(f.vowels_standalone, standalones, k),
          matra |-> Half(f.vowel_signs, signs, k)]

VowelKeys(f) == DOMAIN f.vowels_standalone \cup DOMAIN f.vowel_signs

\* An upper-case letter arrives as Shift and the lower-case one: see transliterate_string.
Typeable(key) == key.cp \notin Upper

AllTypeable(m) ==
  /\ \A seq \in DOMAIN m.consonants \cup DOMAIN m.vowels : \A i \in DOMAIN seq : Typeable(seq[i])
  /\ \A r \in RuleName : Typeable(m.rules[r])

\* What the composer's model assumes of a keymap: see KeymapTypes in Keymap.
KeymapIsTyped(m) ==
  /\ DOMAIN m.consonants \subseteq Seq(Key) /\ m.consonants \in [DOMAIN m.consonants -> Letter]
  /\ DOMAIN m.vowels \subseteq Seq(Key) /\ m.vowels \in [DOMAIN m.vowels -> VowelEntry]
  /\ m.special \in [SpecialName -> Letter]
  /\ m.rules \in [RuleName -> Key]
  /\ m.unmapped_passthrough \in BOOLEAN

\* m is the keymap the file writes down.
Means(f, m) ==
  /\ HoldsConsonants(f, m.consonants, DOMAIN f.consonants, DOMAIN f.multi_key_consonants)
  /\ HoldsVowels(f, m.vowels, DOMAIN f.vowels_standalone, DOMAIN f.vowel_signs)
  /\ m.special = [s \in SpecialName |-> LetterOf(f.special[s])]
  /\ m.rules = [r \in RuleName |->
       IF f.rules[r] = <<>> THEN Raw(DefaultRule[r]) ELSE KeyOf(f.rules[r][1][1])]
  /\ m.unmapped_passthrough = (f.unmapped_passthrough # "false")
=============================================================================
