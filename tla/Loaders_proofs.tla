--------------------------- MODULE Loaders_proofs ---------------------------
(***************************************************************************)
(* Mapping::from_json_string loads every plain file, whatever its size and *)
(* in whatever order its members come, as the keymap it writes down, and   *)
(* refuses every other portable one; the Python loader does the same.      *)
(***************************************************************************)
EXTENDS LoaderParity, KeymapFile_proofs

-----------------------------------------------------------------------------
(* The inductive invariant: in every section, what is read so far is held. *)

IsKeymap ==
  /\ m = Keymaps(m.consonants, m.vowels, m.special, m.rules, m.unmapped_passthrough)
  /\ IsTrie(m.consonants) /\ IsTrie(m.vowels)

RulesUnread ==
  m.rules = [r \in RuleName |-> Raw(DefaultRule[r])] /\ m.unmapped_passthrough = TRUE

AllConsonants ==
  HoldsConsonants(file, m.consonants, DOMAIN file.consonants, DOMAIN file.multi_key_consonants)

AllVowels ==
  HoldsVowels(file, m.vowels, DOMAIN file.vowels_standalone, DOMAIN file.vowel_signs)

InConsonants ==
  /\ pc = "consonants" /\ todo \subseteq DOMAIN file.consonants
  /\ HoldsConsonants(file, m.consonants, DOMAIN file.consonants \ todo, {})
  /\ HoldsVowels(file, m.vowels, {}, {})
  /\ RulesUnread

InMultiKeys ==
  /\ pc = "multi_key_consonants" /\ todo \subseteq DOMAIN file.multi_key_consonants
  /\ HoldsConsonants(file, m.consonants, DOMAIN file.consonants,
                     DOMAIN file.multi_key_consonants \ todo)
  /\ HoldsVowels(file, m.vowels, {}, {})
  /\ RulesUnread

InStandalones ==
  /\ pc = "vowels_standalone" /\ todo \subseteq DOMAIN file.vowels_standalone
  /\ AllConsonants
  /\ HoldsVowels(file, m.vowels, DOMAIN file.vowels_standalone \ todo, {})
  /\ RulesUnread

InSigns ==
  /\ pc = "vowel_signs" /\ todo \subseteq DOMAIN file.vowel_signs
  /\ AllConsonants
  /\ HoldsVowels(file, m.vowels, DOMAIN file.vowels_standalone, DOMAIN file.vowel_signs \ todo)
  /\ RulesUnread

InSpecial == pc = "special" /\ todo = {} /\ AllConsonants /\ AllVowels /\ RulesUnread

InRules ==
  /\ pc = "rules" /\ todo = {} /\ AllConsonants /\ AllVowels /\ RulesUnread
  /\ m.special = [s \in SpecialName |-> LetterOf(file.special[s])]

Loaded == pc = "loaded" /\ todo = {} /\ Means(file, m)

Progress ==
  IsKeymap /\ (InConsonants \/ InMultiKeys \/ InStandalones \/ InSigns \/ InSpecial \/ InRules \/ Loaded)

\* The members in S are such as the code reads without an error.
AcceptsConsonants(f, S) ==
  \A k \in S : /\ Len(k) = 1
               /\ ~ Mistyped(f.consonants[k].base) /\ ~ Mistyped(f.consonants[k].shift)

AcceptsMultiKeys(f, S) == \A k \in S : f.multi_key_consonants[k].kind = "string"

AcceptsVowels(section, S) == \A k \in S : ~ Mistyped(section[k])

AcceptsSpecial(f) == \A s \in SpecialName : f.special[s].kind \in {"string", "absent"}

\* The program accepts the file.
Accepts(f) ==
  /\ AcceptsConsonants(f, DOMAIN f.consonants)
  /\ AcceptsMultiKeys(f, DOMAIN f.multi_key_consonants)
  /\ AcceptsVowels(f.vowels_standalone, DOMAIN f.vowels_standalone)
  /\ AcceptsVowels(f.vowel_signs, DOMAIN f.vowel_signs)
  /\ AcceptsSpecial(f) /\ ~ RuleTooLong(f) /\ IsFlag(f.unmapped_passthrough)

\* The members that were read are such.
ReadIsAccepted ==
  LET read(section) ==
        IF pc = section THEN DOMAIN file[section] \ todo ELSE DOMAIN file[section]
  IN /\ todo \subseteq (IF pc \in DOMAIN After THEN DOMAIN file[pc] ELSE {})
     /\ AcceptsConsonants(file, read("consonants"))
     /\ pc # "consonants" => AcceptsMultiKeys(file, read("multi_key_consonants"))
     /\ pc \notin {"consonants", "multi_key_consonants"} =>
          AcceptsVowels(file.vowels_standalone, read("vowels_standalone"))
     /\ pc \in {"vowel_signs", "special", "rules", "loaded"} =>
          AcceptsVowels(file.vowel_signs, read("vowel_signs"))
     /\ pc \in {"rules", "loaded"} => AcceptsSpecial(file)
     /\ pc = "loaded" => ~ RuleTooLong(file) /\ IsFlag(file.unmapped_passthrough)

\* An exception is thrown by a file that is not accepted, whichever its culprit.
Acceptance == IF pc \in Errors THEN ~ Accepts(file) ELSE ReadIsAccepted

\* The keys of a trie are sequences of keystrokes, and its entries are in T.
IsTyped(trie, T) == IsTrie(trie) /\ \A seq \in DOMAIN trie : seq \in Seq(Key) /\ trie[seq] \in T

\* What is read so far is a keymap as the composer takes it, but for the signs, which are
\* 0 until they are read.
TypedSoFar ==
  /\ m = Keymaps(m.consonants, m.vowels, m.special, m.rules, m.unmapped_passthrough)
  /\ ~ HasBlank(file) => IsTyped(m.consonants, Letter)
  /\ IsTyped(m.vowels, VowelEntry)
  /\ m.rules \in [RuleName -> Key] /\ m.unmapped_passthrough \in BOOLEAN
  /\ pc \in {"rules", "loaded"} /\ ~ HasBlank(file) /\ ~ LacksSign(file) =>
       m.special \in [SpecialName -> Letter]

LoaderInv ==
  /\ file \in Files /\ Acceptance /\ TypedSoFar
  /\ Plain(file) => Progress

-----------------------------------------------------------------------------
(* Letters *)

LEMMA LetterIsFirst ==
  ASSUME NEW v, IsLetter(v)
  PROVE  v.kind = "string" /\ first_codepoint(v) = LetterOf(v)
BY DEF IsLetter, first_codepoint, LetterOf

LEMMA NothingIsSkipped ==
  ASSUME NEW v, IsNothing(v)
  PROVE  v.kind # "string" /\ ~ Mistyped(v) /\ ~ IsLetter(v) /\ LetterOf(v) = NoLetter
BY DEF IsNothing, IsLetter, LetterOf, Mistyped

LEMMA EmptyTries ==
  ASSUME NEW f
  PROVE  HoldsConsonants(f, <<>>, {}, {}) /\ HoldsVowels(f, <<>>, {}, {})
<1>1. DOMAIN <<>> = {}
  OBVIOUS
<1> QED BY <1>1, NoMultiSeqs DEF HoldsConsonants, HoldsVowels

LEMMA InitHolds ==
  ASSUME Init
  PROVE  LoaderInv
<1>1. /\ file \in Files /\ pc = "consonants" /\ todo = DOMAIN file.consonants
      /\ m = Keymaps(<<>>, <<>>, Zero, [r \in RuleName |-> Raw(DefaultRule[r])], TRUE)
  BY DEF Init, Empty
<1>2. IsKeymap /\ RulesUnread /\ m.consonants = <<>> /\ m.vowels = <<>>
  <2>1. IsTrie(<<>>)
    BY DEF IsTrie
  <2> QED BY <1>1, <2>1 DEF IsKeymap, RulesUnread, Keymaps
<1>3. DOMAIN file.consonants \ todo = {}
  BY <1>1
<1>4. HoldsConsonants(file, m.consonants, DOMAIN file.consonants \ todo, {})
  BY <1>2, <1>3, EmptyTries
<1>5. HoldsVowels(file, m.vowels, {}, {})
  BY <1>2, EmptyTries
<1>6. InConsonants
  BY <1>1, <1>2, <1>4, <1>5 DEF InConsonants
<1>7. Acceptance
  <2>1. file["consonants"] = file.consonants /\ "consonants" \in DOMAIN After
    BY DEF After
  <2> QED BY <1>1, <1>3, <2>1 DEF Acceptance, Errors, ReadIsAccepted, AcceptsConsonants
<1>8. TypedSoFar
  <2>1. \A r \in RuleName : Raw(DefaultRule[r]) \in Key
    BY KeyTypes, FileTypes
  <2>2. m.rules \in [RuleName -> Key] /\ m.unmapped_passthrough \in BOOLEAN
    BY <1>2, <2>1 DEF RulesUnread
  <2>3. \A T : IsTyped(<<>>, T)
    BY DEF IsTyped, IsTrie
  <2> QED BY <1>1, <1>2, <2>2, <2>3 DEF TypedSoFar, IsKeymap
<1> QED BY <1>1, <1>2, <1>6, <1>7, <1>8 DEF LoaderInv, Progress

-----------------------------------------------------------------------------
(* One member read *)

\* Assigning one trie leaves the other fields as they are.
LEMMA WithTrie ==
  ASSUME IsKeymap, NEW trie
  PROVE  /\ [m EXCEPT !.consonants = trie] =
              Keymaps(trie, m.vowels, m.special, m.rules, m.unmapped_passthrough)
         /\ [m EXCEPT !.vowels = trie] =
              Keymaps(m.consonants, trie, m.special, m.rules, m.unmapped_passthrough)
BY DEF IsKeymap, Keymaps

LEMMA ReadConsonantHolds ==
  ASSUME LoaderInv, Plain(file), Progress, NEW k \in todo, ReadConsonant(k)
  PROVE  Progress'
<1> DEFINE v == file.consonants[k].base
           w == file.consonants[k].shift
           one == inserted(m.consonants, <<Raw(k[1])>>, v)
           trie == inserted(one, <<shift_key(k[1])>>, w)
           news == (IF k \in Singles(file) THEN {<<Raw(k[1])>>} ELSE {}) \cup
                   (IF k \in Shifteds(file) THEN {<<shift_key(k[1])>>} ELSE {})
           S == DOMAIN file.consonants \ todo
<1>1. /\ pc = "consonants" /\ pc' = pc /\ todo' = todo \ {k} /\ file' = file
      /\ m' = [m EXCEPT !.consonants = trie]
  BY DEF ReadConsonant, Member, Read
<1>2. InConsonants
  BY <1>1 DEF Progress, InMultiKeys, InStandalones, InSigns, InSpecial, InRules, Loaded
<1>3. k \in DOMAIN file.consonants /\ file \in Files /\ S \in SUBSET DOMAIN file.consonants
  BY <1>2 DEF InConsonants, LoaderInv
<1>4. (IsLetter(v) \/ IsNothing(v)) /\ (IsLetter(w) \/ IsNothing(w))
  BY <1>3, PlainConsonant
<1>5. (k \in Singles(file) <=> IsLetter(v)) /\ (k \in Shifteds(file) <=> IsLetter(w))
  BY <1>3 DEF Singles, Shifteds
<1>6. <<Raw(k[1])>> # <<shift_key(k[1])>>
  BY DEF Raw, shift_key
<1>7. one = IF IsLetter(v) THEN Put(m.consonants, <<Raw(k[1])>>, LetterOf(v)) ELSE m.consonants
  BY <1>4, LetterIsFirst, NothingIsSkipped DEF inserted
<1>8. trie = IF IsLetter(w) THEN Put(one, <<shift_key(k[1])>>, LetterOf(w)) ELSE one
  BY <1>4, LetterIsFirst, NothingIsSkipped DEF inserted
<1> HIDE DEF one, trie, v, w
<1>9. /\ DOMAIN trie = DOMAIN m.consonants \cup news
      /\ IsLetter(v) => trie[<<Raw(k[1])>>] = LetterOf(v)
      /\ IsLetter(w) => trie[<<shift_key(k[1])>>] = LetterOf(w)
      /\ \A s \in DOMAIN m.consonants \ news : trie[s] = m.consonants[s]
  <2> DEFINE p == <<Raw(k[1])>>
             q == <<shift_key(k[1])>>
  <2>a. one = IF IsLetter(v) THEN Put(m.consonants, p, LetterOf(v)) ELSE m.consonants
    BY <1>7
  <2>b. trie = IF IsLetter(w) THEN Put(one, q, LetterOf(w)) ELSE one
    BY <1>8
  <2>c. p # q
    BY <1>6
  <2>d. news = (IF IsLetter(v) THEN {p} ELSE {}) \cup (IF IsLetter(w) THEN {q} ELSE {})
    BY <1>5
  <2> HIDE DEF p, q, news
  <2>1. /\ DOMAIN one = DOMAIN m.consonants \cup (IF IsLetter(v) THEN {p} ELSE {})
        /\ IsLetter(v) => one[p] = LetterOf(v)
        /\ \A s \in DOMAIN m.consonants :
             s \notin (IF IsLetter(v) THEN {p} ELSE {}) => one[s] = m.consonants[s]
    <3>1. CASE IsLetter(v)
      BY <2>a, <3>1 DEF Put
    <3>2. CASE ~ IsLetter(v)
      BY <2>a, <3>2
    <3> QED BY <3>1, <3>2
  <2>2. /\ DOMAIN trie = DOMAIN one \cup (IF IsLetter(w) THEN {q} ELSE {})
        /\ IsLetter(w) => trie[q] = LetterOf(w)
        /\ \A s \in DOMAIN one :
             s \notin (IF IsLetter(w) THEN {q} ELSE {}) => trie[s] = one[s]
    <3>1. CASE IsLetter(w)
      BY <2>b, <3>1 DEF Put
    <3>2. CASE ~ IsLetter(w)
      BY <2>b, <3>2
    <3> QED BY <3>1, <3>2
  <2> QED BY <2>c, <2>d, <2>1, <2>2 DEF p, q
<1>10. HoldsConsonants(file, m.consonants, S, {})
  BY <1>2 DEF InConsonants
<1>11. HoldsConsonants(file, trie, S \cup {k}, {})
  BY <1>3, <1>5, <1>9, <1>10, HoldsOneMoreConsonant DEF v, w
<1>12. DOMAIN file.consonants \ todo' = S \cup {k}
  BY <1>1, <1>3
<1>13. m' = Keymaps(trie, m.vowels, m.special, m.rules, m.unmapped_passthrough)
  BY <1>1, WithTrie DEF Progress
<1>14. IsKeymap' /\ m'.consonants = trie /\ m'.vowels = m.vowels /\ RulesUnread'
  <2>1. IsTrie(one)
    BY <1>7, PutIsTrie DEF Progress, IsKeymap
  <2>2. IsTrie(trie)
    BY <1>8, <2>1, PutIsTrie
  <2> QED BY <1>2, <1>13, <2>2 DEF IsKeymap, Keymaps, RulesUnread, InConsonants, Progress
<1>15. InConsonants'
  BY <1>1, <1>2, <1>11, <1>12, <1>14 DEF InConsonants
<1> QED BY <1>14, <1>15 DEF Progress

LEMMA ReadMultiKeyHolds ==
  ASSUME LoaderInv, Plain(file), Progress, NEW k \in todo, ReadMultiKey(k)
  PROVE  Progress'
<1> DEFINE v == file.multi_key_consonants[k]
           trie == Put(m.consonants, multi_key_to_seq(k), LetterOf(v))
           M == DOMAIN file.multi_key_consonants \ todo
<1>1. /\ pc = "multi_key_consonants" /\ pc' = pc /\ todo' = todo \ {k} /\ file' = file
      /\ m' = [m EXCEPT !.consonants = Put(@, multi_key_to_seq(k), first_codepoint(v))]
  BY DEF ReadMultiKey, Member, Read
<1>2. InMultiKeys
  BY <1>1 DEF Progress, InConsonants, InStandalones, InSigns, InSpecial, InRules, Loaded
<1>3. /\ k \in DOMAIN file.multi_key_consonants /\ file \in Files
      /\ M \in SUBSET DOMAIN file.multi_key_consonants
  BY <1>2 DEF InMultiKeys, LoaderInv
<1>4. IsLetter(v)
  BY <1>3 DEF Plain
<1>5. first_codepoint(v) = LetterOf(v)
  BY <1>4, LetterIsFirst
<1>6. m' = Keymaps(trie, m.vowels, m.special, m.rules, m.unmapped_passthrough)
  BY <1>1, <1>5, WithTrie DEF Progress
<1>7. HoldsConsonants(file, m.consonants, DOMAIN file.consonants, M)
  BY <1>2 DEF InMultiKeys
<1>8. HoldsConsonants(file, trie, DOMAIN file.consonants, M \cup {k})
  BY <1>3, <1>7, HoldsOneMoreMultiKey
<1>9. DOMAIN file.multi_key_consonants \ todo' = M \cup {k} /\ IsTrie(trie)
  BY <1>1, <1>3, PutIsTrie
<1> HIDE DEF trie
<1>10. IsKeymap' /\ m'.consonants = trie /\ m'.vowels = m.vowels /\ RulesUnread'
  BY <1>2, <1>6, <1>9 DEF IsKeymap, Keymaps, RulesUnread, InMultiKeys, Progress
<1>11. InMultiKeys'
  BY <1>1, <1>2, <1>8, <1>9, <1>10 DEF InMultiKeys
<1> QED BY <1>10, <1>11 DEF Progress

\* The entry found for a key is made of the halves read so far, both of them 0 if none.
LEMMA ExistingHalves ==
  ASSUME NEW V \in SUBSET DOMAIN file.vowels_standalone, NEW G \in SUBSET DOMAIN file.vowel_signs,
         file \in Files, HoldsVowels(file, m.vowels, V, G), NEW k \in VowelKeys(file)
  PROVE  ExistingVowel(vowel_key_to_seq(k)) =
           [standalone |-> Half(file.vowels_standalone, V, k), matra |-> Half(file.vowel_signs, G, k)]
<1>1. CASE k \in V \cup G
  <2>1. vowel_key_to_seq(k) \in DOMAIN m.vowels
    BY <1>1 DEF HoldsVowels
  <2> QED BY <1>1, <2>1 DEF HoldsVowels, ExistingVowel, Exact
<1>2. CASE k \notin V \cup G
  <2>1. \A j \in V \cup G : vowel_key_to_seq(j) # vowel_key_to_seq(k)
    BY <1>2, FileShape, VowelSeqIsInjective DEF IsFile, VowelKeys
  <2>2. vowel_key_to_seq(k) \notin DOMAIN m.vowels
    BY <2>1 DEF HoldsVowels
  <2> QED BY <1>2, <2>2 DEF ExistingVowel, Exact, Half
<1> QED BY <1>1, <1>2

\* What a vowel section says of a key, read as the code does.
LEMMA VowelLetterIsLetter ==
  ASSUME NEW v, IsLetter(v) \/ IsNothing(v), v.kind # "absent"
  PROVE  VowelLetter(v) = LetterOf(v) /\ ~ Mistyped(v)
<1>1. CASE IsLetter(v)
  BY <1>1, LetterIsFirst DEF VowelLetter, Mistyped
<1>2. CASE IsNothing(v)
  BY <1>2, NothingIsSkipped DEF VowelLetter, IsNothing
<1> QED BY <1>1, <1>2

LEMMA VowelValues ==
  ASSUME file \in Files, Plain(file)
  PROVE  /\ \A k \in DOMAIN file.vowels_standalone :
              /\ VowelLetter(file.vowels_standalone[k]) = LetterOf(file.vowels_standalone[k])
              /\ ~ Mistyped(file.vowels_standalone[k])
         /\ \A k \in DOMAIN file.vowel_signs :
              /\ VowelLetter(file.vowel_signs[k]) = LetterOf(file.vowel_signs[k])
              /\ ~ Mistyped(file.vowel_signs[k])
<1>1. IsFile(file)
  BY FileShape
<1>2. /\ \A k \in DOMAIN file.vowels_standalone : file.vowels_standalone[k] \in Json
      /\ \A k \in DOMAIN file.vowel_signs : file.vowel_signs[k] \in Json
  BY <1>1 DEF IsFile
<1>3. \A v \in Json : v.kind # "absent"
  BY DEF Json
<1> QED BY <1>2, <1>3, VowelLetterIsLetter DEF Plain

LEMMA ReadStandaloneHolds ==
  ASSUME LoaderInv, Plain(file), Progress, NEW k \in todo, ReadStandalone(k)
  PROVE  Progress'
<1> DEFINE seq == vowel_key_to_seq(k)
           cp == VowelLetter(file.vowels_standalone[k])
           e == ExistingVowel(seq)
           entry == [e EXCEPT !.standalone = IF cp = NoLetter THEN @ ELSE cp]
           trie == Put(m.vowels, seq, entry)
           V == DOMAIN file.vowels_standalone \ todo
<1>1. /\ pc = "vowels_standalone" /\ pc' = pc /\ todo' = todo \ {k} /\ file' = file
      /\ m' = [m EXCEPT !.vowels = trie]
  BY DEF ReadStandalone, Member, Read
<1>2. InStandalones
  BY <1>1 DEF Progress, InConsonants, InMultiKeys, InSigns, InSpecial, InRules, Loaded
<1>3. /\ k \in DOMAIN file.vowels_standalone /\ k \in VowelKeys(file) /\ file \in Files
      /\ V \in SUBSET DOMAIN file.vowels_standalone /\ k \notin V
  BY <1>2 DEF InStandalones, LoaderInv, VowelKeys
<1>4. HoldsVowels(file, m.vowels, V, {})
  BY <1>2 DEF InStandalones
<1>5. e = [standalone |-> NoLetter, matra |-> NoLetter]
  BY <1>3, <1>4, ExistingHalves DEF Half
<1>6. cp = LetterOf(file.vowels_standalone[k])
  BY <1>3, VowelValues
<1>7. entry = [standalone |-> Half(file.vowels_standalone, V \cup {k}, k),
               matra |-> Half(file.vowel_signs, {}, k)]
  BY <1>5, <1>6 DEF Half
<1> HIDE DEF entry
<1>8. HoldsVowels(file, trie, V \cup {k}, {})
  BY <1>3, <1>4, <1>7, HoldsOneMoreVowel
<1>9. DOMAIN file.vowels_standalone \ todo' = V \cup {k} /\ IsTrie(trie)
  BY <1>1, <1>3, PutIsTrie
<1> HIDE DEF trie
<1>10. m' = Keymaps(m.consonants, trie, m.special, m.rules, m.unmapped_passthrough)
  BY <1>1, WithTrie DEF Progress
<1>11. IsKeymap' /\ m'.consonants = m.consonants /\ m'.vowels = trie /\ RulesUnread'
  BY <1>2, <1>9, <1>10 DEF IsKeymap, Keymaps, RulesUnread, InStandalones, Progress
<1>12. AllConsonants'
  BY <1>1, <1>2, <1>11 DEF InStandalones, AllConsonants
<1>13. InStandalones'
  BY <1>1, <1>2, <1>8, <1>9, <1>11, <1>12 DEF InStandalones
<1> QED BY <1>11, <1>13 DEF Progress

LEMMA ReadSignHolds ==
  ASSUME LoaderInv, Plain(file), Progress, NEW k \in todo, ReadSign(k)
  PROVE  Progress'
<1> DEFINE seq == vowel_key_to_seq(k)
           e == ExistingVowel(seq)
           entry == [e EXCEPT !.matra = VowelLetter(file.vowel_signs[k])]
           trie == Put(m.vowels, seq, entry)
           V == DOMAIN file.vowels_standalone
           G == DOMAIN file.vowel_signs \ todo
<1>1. /\ pc = "vowel_signs" /\ pc' = pc /\ todo' = todo \ {k} /\ file' = file
      /\ m' = [m EXCEPT !.vowels = trie]
  BY DEF ReadSign, Member, Read
<1>2. InSigns
  BY <1>1 DEF Progress, InConsonants, InMultiKeys, InStandalones, InSpecial, InRules, Loaded
<1>3. /\ k \in DOMAIN file.vowel_signs /\ k \in VowelKeys(file) /\ file \in Files
      /\ G \in SUBSET DOMAIN file.vowel_signs /\ k \notin G
  BY <1>2 DEF InSigns, LoaderInv, VowelKeys
<1>4. HoldsVowels(file, m.vowels, V, G)
  BY <1>2 DEF InSigns
<1>5. e = [standalone |-> Half(file.vowels_standalone, V, k), matra |-> Half(file.vowel_signs, G, k)]
  BY <1>3, <1>4, ExistingHalves
<1>6. VowelLetter(file.vowel_signs[k]) = LetterOf(file.vowel_signs[k])
  BY <1>3, VowelValues
<1>7. entry = [standalone |-> Half(file.vowels_standalone, V, k),
               matra |-> Half(file.vowel_signs, G \cup {k}, k)]
  BY <1>5, <1>6 DEF Half
<1> HIDE DEF entry
<1>8. HoldsVowels(file, trie, V, G \cup {k})
  BY <1>3, <1>4, <1>7, HoldsOneMoreVowel
<1>9. DOMAIN file.vowel_signs \ todo' = G \cup {k} /\ IsTrie(trie)
  BY <1>1, <1>3, PutIsTrie
<1> HIDE DEF trie
<1>10. m' = Keymaps(m.consonants, trie, m.special, m.rules, m.unmapped_passthrough)
  BY <1>1, WithTrie DEF Progress
<1>11. IsKeymap' /\ m'.consonants = m.consonants /\ m'.vowels = trie /\ RulesUnread'
  BY <1>2, <1>9, <1>10 DEF IsKeymap, Keymaps, RulesUnread, InSigns, Progress
<1>12. AllConsonants'
  BY <1>1, <1>2, <1>11 DEF InSigns, AllConsonants
<1>13. InSigns'
  BY <1>1, <1>2, <1>8, <1>9, <1>11, <1>12 DEF InSigns
<1> QED BY <1>11, <1>13 DEF Progress

-----------------------------------------------------------------------------
(* Sections *)

LEMMA NextSectionHolds ==
  ASSUME LoaderInv, Plain(file), Progress, NextSection
  PROVE  Progress'
<1>1. /\ todo = {} /\ file' = file /\ m' = m /\ IsKeymap
      /\ IsKeymap' /\ (RulesUnread => RulesUnread')
  BY DEF NextSection, Progress, IsKeymap, RulesUnread
<1>2. DOMAIN After = {"consonants", "multi_key_consonants", "vowels_standalone", "vowel_signs"}
  BY DEF After
<1>3. CASE pc = "consonants"
  <2>1. pc' = "multi_key_consonants" /\ todo' = DOMAIN file.multi_key_consonants
    BY <1>2, <1>3 DEF NextSection, After
  <2>2. InConsonants
    BY <1>3 DEF Progress, InMultiKeys, InStandalones, InSigns, InSpecial, InRules, Loaded
  <2>3. InMultiKeys'
    BY <1>1, <2>1, <2>2 DEF InConsonants, InMultiKeys
  <2> QED BY <1>1, <2>3 DEF Progress
<1>4. CASE pc = "multi_key_consonants"
  <2>1. pc' = "vowels_standalone" /\ todo' = DOMAIN file.vowels_standalone
    BY <1>2, <1>4 DEF NextSection, After
  <2>2. InMultiKeys
    BY <1>4 DEF Progress, InConsonants, InStandalones, InSigns, InSpecial, InRules, Loaded
  <2>3. InStandalones'
    BY <1>1, <2>1, <2>2 DEF InMultiKeys, InStandalones, AllConsonants
  <2> QED BY <1>1, <2>3 DEF Progress
<1>5. CASE pc = "vowels_standalone"
  <2>1. pc' = "vowel_signs" /\ todo' = DOMAIN file.vowel_signs
    BY <1>2, <1>5 DEF NextSection, After
  <2>2. InStandalones
    BY <1>5 DEF Progress, InConsonants, InMultiKeys, InSigns, InSpecial, InRules, Loaded
  <2>3. InSigns'
    BY <1>1, <2>1, <2>2 DEF InStandalones, InSigns, AllConsonants
  <2> QED BY <1>1, <2>3 DEF Progress
<1>6. CASE pc = "vowel_signs"
  <2>1. pc' = "special" /\ todo' = {}
    BY <1>2, <1>6 DEF NextSection, After
  <2>2. InSigns
    BY <1>6 DEF Progress, InConsonants, InMultiKeys, InStandalones, InSpecial, InRules, Loaded
  <2>3. InSpecial'
    BY <1>1, <2>1, <2>2 DEF InSigns, InSpecial, AllConsonants, AllVowels
  <2> QED BY <1>1, <2>3 DEF Progress
<1> QED BY <1>2, <1>3, <1>4, <1>5, <1>6 DEF NextSection

LEMMA ReadSpecialHolds ==
  ASSUME LoaderInv, Plain(file), Progress, ReadSpecial
  PROVE  Progress'
<1> DEFINE signs == [s \in SpecialName |-> LetterOf(file.special[s])]
<1>1. InSpecial
  BY DEF ReadSpecial, Progress, InConsonants, InMultiKeys, InStandalones, InSigns, InRules, Loaded
<1>2. \A s \in SpecialName :
        file.special[s].kind = "string" /\ first_codepoint(file.special[s]) = LetterOf(file.special[s])
  BY LetterIsFirst DEF Plain
<1>3. m' = [m EXCEPT !.special = signs] /\ pc' = "rules" /\ todo' = todo /\ file' = file
  BY <1>2 DEF ReadSpecial
<1> HIDE DEF signs
<1>4. m' = Keymaps(m.consonants, m.vowels, signs, m.rules, m.unmapped_passthrough)
  BY <1>3 DEF Progress, IsKeymap, Keymaps
<1>5. /\ IsKeymap' /\ m'.consonants = m.consonants /\ m'.vowels = m.vowels
      /\ m'.special = signs /\ RulesUnread'
  BY <1>1, <1>4 DEF IsKeymap, Keymaps, RulesUnread, InSpecial, Progress
<1>6. InRules'
  BY <1>1, <1>3, <1>5 DEF InSpecial, InRules, AllConsonants, AllVowels, signs
<1> QED BY <1>5, <1>6 DEF Progress

LEMMA ReadRulesHolds ==
  ASSUME LoaderInv, Plain(file), Progress, ReadRules
  PROVE  Progress'
<1> DEFINE rules == [r \in RuleName |->
             IF file.rules[r] = <<>> THEN Raw(DefaultRule[r]) ELSE KeyOf(file.rules[r][1][1])]
           passthrough == (file.unmapped_passthrough # "false")
<1>1. InRules
  BY DEF ReadRules, Progress, InConsonants, InMultiKeys, InStandalones, InSigns, InSpecial, Loaded
<1>2. rule_keys(file, m) = rules
  BY <1>1 DEF InRules, RulesUnread, rule_keys
<1> HIDE DEF rules, passthrough
<1>3. /\ m' = [m EXCEPT !.rules = rules, !.unmapped_passthrough = passthrough]
      /\ pc' = "loaded" /\ todo' = todo /\ file' = file
  BY <1>2 DEF ReadRules, passthrough
<1>4. m' = Keymaps(m.consonants, m.vowels, m.special, rules, passthrough)
  BY <1>3 DEF Progress, IsKeymap, Keymaps
<1>5. /\ IsKeymap' /\ m'.consonants = m.consonants /\ m'.vowels = m.vowels
      /\ m'.special = m.special /\ m'.rules = rules /\ m'.unmapped_passthrough = passthrough
  BY <1>4 DEF IsKeymap, Keymaps, Progress
<1>6. Means(file, m')
  BY <1>1, <1>5 DEF InRules, Means, AllConsonants, AllVowels, rules, passthrough
<1>7. Loaded'
  BY <1>1, <1>3, <1>6 DEF Loaded, InRules
<1> QED BY <1>5, <1>7 DEF Progress

-----------------------------------------------------------------------------
(* Errors *)

LEMMA PlainIsAccepted ==
  ASSUME LoaderInv, Plain(file), Progress
  PROVE  /\ ~ RejectSpecial /\ ~ RejectRules
         /\ \A k \in todo : ~ RejectConsonant(k) /\ ~ RejectMultiKey(k) /\ ~ RejectVowel(k)
<1>1. file \in Files
  BY DEF LoaderInv
<1>2. ~ RejectSpecial
  BY DEF RejectSpecial, Plain, IsLetter
<1>3. ~ RejectRules
  BY DEF RejectRules, Plain
<1>4. ASSUME NEW k \in todo, RejectConsonant(k)
      PROVE  FALSE
  <2>1. k \in DOMAIN file.consonants
    BY <1>4 DEF RejectConsonant, Member, Progress, InConsonants, InMultiKeys, InStandalones,
                InSigns, InSpecial, InRules, Loaded
  <2>2. /\ Len(k) = 1
        /\ IsLetter(file.consonants[k].base) \/ IsNothing(file.consonants[k].base)
        /\ IsLetter(file.consonants[k].shift) \/ IsNothing(file.consonants[k].shift)
    BY <1>1, <2>1, PlainConsonant
  <2> QED BY <1>4, <2>2 DEF RejectConsonant, IsLetter, IsNothing, Mistyped
<1>5. ASSUME NEW k \in todo, RejectMultiKey(k)
      PROVE  FALSE
  <2>1. k \in DOMAIN file.multi_key_consonants
    BY <1>5 DEF RejectMultiKey, Member, Progress, InConsonants, InMultiKeys, InStandalones,
                InSigns, InSpecial, InRules, Loaded
  <2> QED BY <1>5, <2>1 DEF RejectMultiKey, Plain, IsLetter
<1>6. ASSUME NEW k \in todo, RejectVowel(k)
      PROVE  FALSE
  <2>1. CASE pc = "vowels_standalone"
    <3>1. k \in DOMAIN file.vowels_standalone
      BY <1>6, <2>1 DEF Progress, InConsonants, InMultiKeys, InStandalones,
                        InSigns, InSpecial, InRules, Loaded
    <3> QED BY <1>1, <1>6, <2>1, <3>1, VowelValues DEF RejectVowel
  <2>2. CASE pc = "vowel_signs"
    <3>1. k \in DOMAIN file.vowel_signs
      BY <1>6, <2>2 DEF Progress, InConsonants, InMultiKeys, InStandalones,
                        InSigns, InSpecial, InRules, Loaded
    <3> QED BY <1>1, <1>6, <2>2, <3>1, VowelValues DEF RejectVowel
  <2> QED BY <1>6, <2>1, <2>2 DEF RejectVowel
<1> QED BY <1>2, <1>3, <1>4, <1>5, <1>6

-----------------------------------------------------------------------------
(* What is refused *)

LEMMA ReadKeepsAcceptance ==
  ASSUME ReadIsAccepted, NEW k \in todo,
         ReadConsonant(k) \/ ReadMultiKey(k) \/ ReadStandalone(k) \/ ReadSign(k)
  PROVE  ReadIsAccepted'
<1>1. file' = file /\ pc' = pc /\ todo' = todo \ {k}
  BY DEF ReadConsonant, ReadMultiKey, ReadStandalone, ReadSign, Read
<1>2. DOMAIN After = {"consonants", "multi_key_consonants", "vowels_standalone", "vowel_signs"}
  BY DEF After
<1>3. CASE ReadConsonant(k)
  BY <1>1, <1>2, <1>3 DEF ReadConsonant, Member, ReadIsAccepted, AcceptsConsonants
<1>4. CASE ReadMultiKey(k)
  BY <1>1, <1>2, <1>4 DEF ReadMultiKey, Member, ReadIsAccepted, AcceptsMultiKeys
<1>5. CASE ReadStandalone(k)
  BY <1>1, <1>2, <1>5 DEF ReadStandalone, Member, ReadIsAccepted, AcceptsVowels
<1>6. CASE ReadSign(k)
  BY <1>1, <1>2, <1>6 DEF ReadSign, Member, ReadIsAccepted, AcceptsVowels
<1> QED BY <1>3, <1>4, <1>5, <1>6

LEMMA SectionKeepsAcceptance ==
  ASSUME ReadIsAccepted, NextSection \/ ReadSpecial \/ ReadRules
  PROVE  ReadIsAccepted'
<1>1. DOMAIN After = {"consonants", "multi_key_consonants", "vowels_standalone", "vowel_signs"}
  BY DEF After
<1>2. CASE NextSection
  <2>1. todo = {} /\ file' = file /\ AcceptsMultiKeys(file, {})
    BY <1>2 DEF NextSection, AcceptsMultiKeys
  <2>2. AcceptsVowels(file.vowels_standalone, {}) /\ AcceptsVowels(file.vowel_signs, {})
    BY DEF AcceptsVowels
  <2>3. CASE pc = "consonants"
    <3>1. pc' = "multi_key_consonants" /\ todo' = DOMAIN file.multi_key_consonants
      BY <1>1, <1>2, <2>3 DEF NextSection, After
    <3> QED BY <1>1, <2>1, <2>3, <3>1 DEF ReadIsAccepted
  <2>4. CASE pc = "multi_key_consonants"
    <3>1. pc' = "vowels_standalone" /\ todo' = DOMAIN file.vowels_standalone
      BY <1>1, <1>2, <2>4 DEF NextSection, After
    <3> QED BY <1>1, <2>1, <2>2, <2>4, <3>1 DEF ReadIsAccepted
  <2>5. CASE pc = "vowels_standalone"
    <3>1. pc' = "vowel_signs" /\ todo' = DOMAIN file.vowel_signs
      BY <1>1, <1>2, <2>5 DEF NextSection, After
    <3> QED BY <1>1, <2>1, <2>2, <2>5, <3>1 DEF ReadIsAccepted
  <2>6. CASE pc = "vowel_signs"
    <3>1. pc' = "special" /\ todo' = {}
      BY <1>1, <1>2, <2>6 DEF NextSection, After
    <3> QED BY <1>1, <2>1, <2>6, <3>1 DEF ReadIsAccepted
  <2> QED BY <1>1, <1>2, <2>3, <2>4, <2>5, <2>6 DEF NextSection
<1>3. CASE ReadSpecial
  <2>1. pc = "special" /\ pc' = "rules" /\ file' = file /\ todo' = todo /\ AcceptsSpecial(file)
    BY <1>3 DEF ReadSpecial, AcceptsSpecial
  <2> QED BY <1>1, <2>1 DEF ReadIsAccepted
<1>4. CASE ReadRules
  <2>1. /\ pc = "rules" /\ pc' = "loaded" /\ file' = file /\ todo' = todo
        /\ ~ RuleTooLong(file) /\ IsFlag(file.unmapped_passthrough)
    BY <1>4 DEF ReadRules
  <2> QED BY <1>1, <2>1 DEF ReadIsAccepted
<1> QED BY <1>2, <1>3, <1>4

\* An exception is thrown only where the file has a member that is not accepted.
LEMMA RejectedIsNotAccepted ==
  ASSUME ReadIsAccepted,
         \/ RejectSpecial \/ RejectRules
         \/ \E k \in todo : RejectConsonant(k) \/ RejectMultiKey(k) \/ RejectVowel(k)
  PROVE  pc' \in Errors /\ ~ Accepts(file) /\ file' = file
<1>1. pc' \in Errors /\ file' = file
  BY DEF RejectSpecial, RejectRules, RejectConsonant, RejectMultiKey, RejectVowel, Throw, Errors
<1>2. todo \subseteq (IF pc \in DOMAIN After THEN DOMAIN file[pc] ELSE {})
  BY DEF ReadIsAccepted
<1>3. CASE RejectSpecial \/ RejectRules
  BY <1>1, <1>3 DEF RejectSpecial, RejectRules, Accepts, AcceptsSpecial
<1>4. ASSUME NEW k \in todo, RejectConsonant(k)
      PROVE  ~ Accepts(file)
  BY <1>2, <1>4 DEF RejectConsonant, Member, After, Accepts, AcceptsConsonants
<1>5. ASSUME NEW k \in todo, RejectMultiKey(k)
      PROVE  ~ Accepts(file)
  BY <1>2, <1>5 DEF RejectMultiKey, Member, After, Accepts, AcceptsMultiKeys
<1>6. ASSUME NEW k \in todo, RejectVowel(k)
      PROVE  ~ Accepts(file)
  BY <1>2, <1>6 DEF RejectVowel, After, Accepts, AcceptsVowels
<1> QED BY <1>1, <1>3, <1>4, <1>5, <1>6

\* What is accepted of the portable files is what is plain.
LEMMA PortableAccepted ==
  ASSUME NEW f \in Files, Portable(f)
  PROVE  Accepts(f) <=> Plain(f)
<1>1. ASSUME NEW v \in MaybeJson, ~ IsOddString(v)
      PROVE  /\ ~ Mistyped(v) <=> IsLetter(v) \/ IsNothing(v)
             /\ v.kind = "string" <=> IsLetter(v)
  BY <1>1, ValueKinds DEF Mistyped, IsLetter, IsNothing, IsOddString
<1>2. /\ ~ HasOddString(f) /\ ~ HasFalsy(f) /\ ~ HasBareEntry(f) /\ ~ HasUpperKey(f)
      /\ ~ LacksSign(f) /\ IsFlag(f.unmapped_passthrough)
  BY DEF Portable
<1>3. /\ \A k \in DOMAIN f.consonants : f.consonants[k].is_object
      /\ \A k \in DOMAIN f.consonants : Len(k) = 1 => k[1] \notin Upper
      /\ \A s \in SpecialName : f.special[s].kind # "absent"
  BY <1>2 DEF HasBareEntry, HasUpperKey, LacksSign
<1>4. \A k \in DOMAIN f.consonants : \A v \in {f.consonants[k].base, f.consonants[k].shift} :
        ~ Mistyped(v) <=> IsLetter(v) \/ IsNothing(v)
  BY <1>1, <1>2, ValueTypes, NoOddStrings
<1>5. /\ \A k \in DOMAIN f.vowels_standalone :
           LET v == f.vowels_standalone[k] IN ~ Mistyped(v) <=> IsLetter(v) \/ IsNothing(v)
      /\ \A k \in DOMAIN f.vowel_signs :
           LET v == f.vowel_signs[k] IN ~ Mistyped(v) <=> IsLetter(v) \/ IsNothing(v)
  BY <1>1, <1>2, ValueTypes, NoOddStrings
<1>6. /\ \A k \in DOMAIN f.multi_key_consonants :
           f.multi_key_consonants[k].kind = "string" <=> IsLetter(f.multi_key_consonants[k])
      /\ \A s \in SpecialName : f.special[s].kind = "string" <=> IsLetter(f.special[s])
  BY <1>1, <1>2, ValueTypes, NoOddStrings
<1>7. AcceptsConsonants(f, DOMAIN f.consonants) <=>
        \A k \in DOMAIN f.consonants :
          /\ Len(k) = 1 /\ k[1] \notin Upper /\ f.consonants[k].is_object
          /\ \A v \in {f.consonants[k].base, f.consonants[k].shift} : IsLetter(v) \/ IsNothing(v)
  BY <1>3, <1>4 DEF AcceptsConsonants
<1>8. /\ AcceptsMultiKeys(f, DOMAIN f.multi_key_consonants) <=>
           \A k \in DOMAIN f.multi_key_consonants : IsLetter(f.multi_key_consonants[k])
      /\ AcceptsSpecial(f) <=> \A s \in SpecialName : IsLetter(f.special[s])
  BY <1>3, <1>6 DEF AcceptsMultiKeys, AcceptsSpecial
<1>9. /\ AcceptsVowels(f.vowels_standalone, DOMAIN f.vowels_standalone) <=>
           \A k \in DOMAIN f.vowels_standalone :
             IsLetter(f.vowels_standalone[k]) \/ IsNothing(f.vowels_standalone[k])
      /\ AcceptsVowels(f.vowel_signs, DOMAIN f.vowel_signs) <=>
           \A k \in DOMAIN f.vowel_signs : IsLetter(f.vowel_signs[k]) \/ IsNothing(f.vowel_signs[k])
  BY <1>5 DEF AcceptsVowels
<1>10. Accepts(f) => Plain(f)
  BY <1>2, <1>7, <1>8, <1>9 DEF Accepts, Plain
<1>11. Plain(f) => Accepts(f)
  BY <1>2, <1>7, <1>8, <1>9 DEF Accepts, Plain
<1> QED BY <1>10, <1>11

-----------------------------------------------------------------------------
(* What is loaded is a keymap *)

LEMMA PutIsTyped ==
  ASSUME NEW T, NEW trie, IsTyped(trie, T), NEW seq \in Seq(Key), NEW payload \in T
  PROVE  IsTyped(Put(trie, seq, payload), T)
<1> DEFINE trie2 == Put(trie, seq, payload)
<1>1. IsTrie(trie2)
  BY PutIsTrie DEF IsTyped
<1>2. /\ DOMAIN trie2 = DOMAIN trie \cup {seq} /\ trie2[seq] = payload
      /\ \A s \in DOMAIN trie : s # seq => trie2[s] = trie[s]
  BY DEF Put
<1> HIDE DEF trie2
<1>3. \A s \in DOMAIN trie2 : s \in Seq(Key) /\ trie2[s] \in T
  BY <1>2 DEF IsTyped
<1> QED BY <1>1, <1>3 DEF IsTyped, trie2

\* first_codepoint is 0 for an empty string only.
LEMMA FirstCodepointTypes ==
  ASSUME NEW v \in MaybeJson, v.kind = "string"
  PROVE  /\ first_codepoint(v) \in Letter \cup {NoLetter}
         /\ ~ IsBlank(v) => first_codepoint(v) \in Letter
<1>1. v.text \in Seq(Letter)
  BY DEF MaybeJson
<1> QED BY <1>1 DEF first_codepoint, IsBlank

\* Assigning a field leaves the others as they are.
LEMMA WithField ==
  ASSUME TypedSoFar, NEW x
  PROVE  /\ [m EXCEPT !.consonants = x] =
              Keymaps(x, m.vowels, m.special, m.rules, m.unmapped_passthrough)
         /\ [m EXCEPT !.vowels = x] =
              Keymaps(m.consonants, x, m.special, m.rules, m.unmapped_passthrough)
         /\ [m EXCEPT !.special = x] =
              Keymaps(m.consonants, m.vowels, x, m.rules, m.unmapped_passthrough)
BY DEF TypedSoFar, Keymaps

LEMMA TypedConsonants ==
  ASSUME TypedSoFar, file' = file, pc' \notin {"rules", "loaded"}, NEW trie,
         m' = [m EXCEPT !.consonants = trie], ~ HasBlank(file) => IsTyped(trie, Letter)
  PROVE  TypedSoFar'
<1>1. m' = Keymaps(trie, m.vowels, m.special, m.rules, m.unmapped_passthrough)
  BY WithField
<1> QED BY <1>1 DEF TypedSoFar, Keymaps

LEMMA TypedVowels ==
  ASSUME TypedSoFar, file' = file, pc' \notin {"rules", "loaded"}, NEW trie,
         m' = [m EXCEPT !.vowels = trie], IsTyped(trie, VowelEntry)
  PROVE  TypedSoFar'
<1>1. m' = Keymaps(m.consonants, trie, m.special, m.rules, m.unmapped_passthrough)
  BY WithField
<1> QED BY <1>1 DEF TypedSoFar, Keymaps

LEMMA InsertedIsTyped ==
  ASSUME NEW trie, IsTyped(trie, Letter), NEW seq \in Seq(Key), NEW v \in MaybeJson, ~ IsBlank(v)
  PROVE  IsTyped(inserted(trie, seq, v), Letter)
<1>1. CASE v.kind = "string"
  BY <1>1, FirstCodepointTypes, PutIsTyped DEF inserted
<1>2. CASE v.kind # "string"
  BY <1>2 DEF inserted
<1> QED BY <1>1, <1>2

LEMMA ReadConsonantTyped ==
  ASSUME LoaderInv, NEW k \in DOMAIN file.consonants, ReadConsonant(k)
  PROVE  TypedSoFar'
<1> DEFINE v == file.consonants[k].base
           w == file.consonants[k].shift
           one == inserted(m.consonants, <<Raw(k[1])>>, v)
           trie == inserted(one, <<shift_key(k[1])>>, w)
<1>1. /\ pc' = "consonants" /\ file' = file /\ m' = [m EXCEPT !.consonants = trie] /\ Len(k) = 1
  BY DEF ReadConsonant, Member, Read
<1>2. k \in Seq(Char) /\ file \in Files /\ TypedSoFar
  BY FileShape DEF LoaderInv, IsFile
<1>3. k[1] \in Char
  BY <1>1, <1>2
<1>4. <<Raw(k[1])>> \in Seq(Key) /\ <<shift_key(k[1])>> \in Seq(Key)
  BY <1>3, KeyTypes
<1>5. v \in MaybeJson /\ w \in MaybeJson
  BY <1>2, ValueTypes
<1>6. ASSUME ~ HasBlank(file)
      PROVE  IsTyped(trie, Letter)
  <2>1. IsTyped(m.consonants, Letter) /\ ~ IsBlank(v) /\ ~ IsBlank(w)
    BY <1>2, <1>6, NoBlanks DEF TypedSoFar
  <2> HIDE DEF v, w
  <2>2. IsTyped(one, Letter)
    BY <1>4, <1>5, <2>1, InsertedIsTyped
  <2> HIDE DEF one
  <2> QED BY <1>4, <1>5, <2>1, <2>2, InsertedIsTyped
<1> HIDE DEF trie
<1> QED BY <1>1, <1>2, <1>6, TypedConsonants

LEMMA ReadMultiKeyTyped ==
  ASSUME LoaderInv, NEW k \in DOMAIN file.multi_key_consonants, ReadMultiKey(k)
  PROVE  TypedSoFar'
<1> DEFINE v == file.multi_key_consonants[k]
           trie == Put(m.consonants, multi_key_to_seq(k), first_codepoint(v))
<1>1. /\ pc' = "multi_key_consonants" /\ file' = file /\ m' = [m EXCEPT !.consonants = trie]
      /\ v.kind = "string"
  BY DEF ReadMultiKey, Member, Read
<1>2. k \in Seq(Char) /\ file \in Files /\ TypedSoFar
  BY FileShape DEF LoaderInv, IsFile
<1>3. multi_key_to_seq(k) \in Seq(Key) /\ v \in MaybeJson
  BY <1>2, SeqTypes, ValueTypes
<1>4. ASSUME ~ HasBlank(file)
      PROVE  IsTyped(trie, Letter)
  <2>1. IsTyped(m.consonants, Letter) /\ first_codepoint(v) \in Letter
    BY <1>1, <1>2, <1>3, <1>4, NoBlanks, FirstCodepointTypes DEF TypedSoFar
  <2> QED BY <1>3, <2>1, PutIsTyped
<1> HIDE DEF trie
<1> QED BY <1>1, <1>2, <1>4, TypedConsonants

LEMMA ReadVowelTyped ==
  ASSUME LoaderInv, NEW k, \/ k \in DOMAIN file.vowels_standalone /\ ReadStandalone(k)
                           \/ k \in DOMAIN file.vowel_signs /\ ReadSign(k)
  PROVE  TypedSoFar'
<1> DEFINE seq == vowel_key_to_seq(k)
           e == ExistingVowel(seq)
<1>1. k \in Seq(Char) /\ file \in Files /\ IsFile(file) /\ TypedSoFar
  BY FileShape DEF LoaderInv, IsFile
<1>2. seq \in Seq(Key)
  BY <1>1, SeqTypes
<1>3. e \in VowelEntry
  BY <1>1 DEF ExistingVowel, Exact, TypedSoFar, IsTyped, VowelEntry
<1>4. ASSUME NEW v \in Json, ~ Mistyped(v)
      PROVE  VowelLetter(v) \in Letter \cup {NoLetter}
  <2>1. v \in MaybeJson /\ v.kind \in {"string", "null"}
    BY <1>4 DEF Json, MaybeJson, Mistyped
  <2> QED BY <2>1, FirstCodepointTypes DEF VowelLetter
<1> HIDE DEF e, seq
<1>5. CASE k \in DOMAIN file.vowels_standalone /\ ReadStandalone(k)
  <2> DEFINE cp == VowelLetter(file.vowels_standalone[k])
             entry == [e EXCEPT !.standalone = IF cp = NoLetter THEN @ ELSE cp]
  <2>1. /\ pc' = "vowels_standalone" /\ file' = file /\ ~ Mistyped(file.vowels_standalone[k])
        /\ m' = [m EXCEPT !.vowels = Put(m.vowels, seq, entry)]
    BY <1>5 DEF ReadStandalone, Member, Read, e, seq
  <2>2. cp \in Letter \cup {NoLetter}
    BY <1>1, <1>4, <1>5, <2>1 DEF IsFile
  <2>3. entry \in VowelEntry
    BY <1>3, <2>2 DEF VowelEntry
  <2> HIDE DEF entry
  <2>4. IsTyped(Put(m.vowels, seq, entry), VowelEntry)
    BY <1>1, <1>2, <2>3, PutIsTyped DEF TypedSoFar
  <2> QED BY <1>1, <2>1, <2>4, TypedVowels
<1>6. CASE k \in DOMAIN file.vowel_signs /\ ReadSign(k)
  <2> DEFINE entry == [e EXCEPT !.matra = VowelLetter(file.vowel_signs[k])]
  <2>1. /\ pc' = "vowel_signs" /\ file' = file /\ ~ Mistyped(file.vowel_signs[k])
        /\ m' = [m EXCEPT !.vowels = Put(m.vowels, seq, entry)]
    BY <1>6 DEF ReadSign, Member, Read, e, seq
  <2>2. VowelLetter(file.vowel_signs[k]) \in Letter \cup {NoLetter}
    BY <1>1, <1>4, <1>6, <2>1 DEF IsFile
  <2>3. entry \in VowelEntry
    BY <1>3, <2>2 DEF VowelEntry
  <2> HIDE DEF entry
  <2>4. IsTyped(Put(m.vowels, seq, entry), VowelEntry)
    BY <1>1, <1>2, <2>3, PutIsTyped DEF TypedSoFar
  <2> QED BY <1>1, <2>1, <2>4, TypedVowels
<1> QED BY <1>5, <1>6

LEMMA ReadSpecialTyped ==
  ASSUME LoaderInv, ReadSpecial
  PROVE  TypedSoFar'
<1> DEFINE signs == [s \in SpecialName |->
             IF file.special[s].kind = "string" THEN first_codepoint(file.special[s])
                                                ELSE m.special[s]]
<1>1. /\ file' = file /\ m' = [m EXCEPT !.special = signs]
      /\ \A s \in SpecialName : file.special[s].kind \in {"string", "absent"}
  BY DEF ReadSpecial
<1>2. TypedSoFar /\ file \in Files
  BY DEF LoaderInv
<1>3. ~ HasBlank(file) /\ ~ LacksSign(file) => signs \in [SpecialName -> Letter]
  <2> SUFFICES ASSUME ~ HasBlank(file), ~ LacksSign(file), NEW s \in SpecialName
               PROVE  file.special[s].kind = "string" /\ first_codepoint(file.special[s]) \in Letter
    OBVIOUS
  <2>1. file.special[s].kind = "string" /\ ~ IsBlank(file.special[s])
    BY <1>1, <1>2, NoBlanks DEF LacksSign
  <2> QED BY <1>2, <2>1, ValueTypes, FirstCodepointTypes
<1> HIDE DEF signs
<1>4. m' = Keymaps(m.consonants, m.vowels, signs, m.rules, m.unmapped_passthrough)
  BY <1>1, <1>2, WithField
<1> QED BY <1>1, <1>2, <1>3, <1>4 DEF TypedSoFar, Keymaps

LEMMA ReadRulesTyped ==
  ASSUME LoaderInv, ReadRules
  PROVE  TypedSoFar'
<1> DEFINE rules == rule_keys(file, m)
           passthrough == (file.unmapped_passthrough # "false")
<1>1. /\ pc = "rules" /\ file' = file /\ ~ RuleTooLong(file)
      /\ m' = [m EXCEPT !.rules = rules, !.unmapped_passthrough = passthrough]
  BY DEF ReadRules
<1>2. TypedSoFar /\ IsFile(file)
  BY FileShape DEF LoaderInv
<1>3. ASSUME NEW r \in RuleName, file.rules[r] # <<>>
      PROVE  KeyOf(file.rules[r][1][1]) \in Key
  <2>1. file.rules[r] \in Seq(Seq(Char)) /\ Len(file.rules[r][1]) = 1
    BY <1>1, <1>2, <1>3 DEF IsFile, RuleTooLong
  <2>2. file.rules[r][1] \in Seq(Char)
    BY <1>3, <2>1
  <2>3. file.rules[r][1][1] \in Char
    BY <2>1, <2>2
  <2> QED BY <2>3, KeyTypes
<1>4. rules \in [RuleName -> Key]
  BY <1>2, <1>3 DEF rule_keys, TypedSoFar
<1> HIDE DEF rules
<1>5. m' = Keymaps(m.consonants, m.vowels, m.special, rules, passthrough)
  BY <1>1, <1>2 DEF TypedSoFar, Keymaps
<1> QED BY <1>1, <1>2, <1>4, <1>5 DEF TypedSoFar, Keymaps

LEMMA NextTyped ==
  ASSUME LoaderInv, [Next]_vars
  PROVE  TypedSoFar'
<1>1. TypedSoFar
  BY DEF LoaderInv
<1>2. CASE UNCHANGED vars
  BY <1>1, <1>2 DEF vars, TypedSoFar
<1>3. CASE NextSection
  <2>1. m' = m /\ file' = file /\ pc' \notin {"rules", "loaded"}
    BY <1>3 DEF NextSection, After
  <2> QED BY <1>1, <2>1 DEF TypedSoFar
<1>4. CASE \/ RejectSpecial \/ RejectRules
           \/ \E k \in todo : RejectConsonant(k) \/ RejectMultiKey(k) \/ RejectVowel(k)
  <2>1. m' = m /\ file' = file /\ pc' \in Errors
    BY <1>4 DEF RejectSpecial, RejectRules, RejectConsonant, RejectMultiKey, RejectVowel, Throw, Errors
  <2> QED BY <1>1, <2>1 DEF TypedSoFar, Errors
<1>5. ASSUME NEW k \in todo, ReadConsonant(k) \/ ReadMultiKey(k) \/ ReadStandalone(k) \/ ReadSign(k)
      PROVE  TypedSoFar'
  <2>1. pc \in DOMAIN After /\ pc \notin Errors
    BY <1>5 DEF ReadConsonant, ReadMultiKey, ReadStandalone, ReadSign, Member, After, Errors
  <2>2. k \in DOMAIN file[pc]
    BY <1>5, <2>1 DEF LoaderInv, Acceptance, ReadIsAccepted
  <2>3. CASE ReadConsonant(k)
    BY <2>2, <2>3, ReadConsonantTyped DEF ReadConsonant, Member
  <2>4. CASE ReadMultiKey(k)
    BY <2>2, <2>4, ReadMultiKeyTyped DEF ReadMultiKey, Member
  <2>5. CASE ReadStandalone(k)
    BY <2>2, <2>5, ReadVowelTyped DEF ReadStandalone, Member
  <2>6. CASE ReadSign(k)
    BY <2>2, <2>6, ReadVowelTyped DEF ReadSign, Member
  <2> QED BY <1>5, <2>3, <2>4, <2>5, <2>6
<1> QED BY <1>2, <1>3, <1>4, <1>5, ReadSpecialTyped, ReadRulesTyped DEF Next

-----------------------------------------------------------------------------
(* Theorems *)

LEMMA FileStays == [Next]_vars => file' = file
BY DEF Next, vars, NextSection, ReadConsonant, RejectConsonant, ReadMultiKey, RejectMultiKey,
       ReadStandalone, ReadSign, RejectVowel, ReadSpecial, RejectSpecial, ReadRules,
       RejectRules, Read, Throw

LEMMA NextKeepsProgress ==
  ASSUME LoaderInv, Plain(file), [Next]_vars
  PROVE  Progress'
<1>1. Progress
  BY DEF LoaderInv
<1>2. CASE UNCHANGED vars
  BY <1>1, <1>2 DEF vars, Progress, IsKeymap, InConsonants, InMultiKeys, InStandalones, InSigns,
                    InSpecial, InRules, Loaded, AllConsonants, AllVowels, RulesUnread
<1>3. CASE NextSection \/ ReadSpecial \/ ReadRules
  BY <1>1, <1>3, NextSectionHolds, ReadSpecialHolds, ReadRulesHolds
<1>4. CASE \E k \in todo : ReadConsonant(k) \/ ReadMultiKey(k) \/ ReadStandalone(k) \/ ReadSign(k)
  BY <1>1, <1>4, ReadConsonantHolds, ReadMultiKeyHolds, ReadStandaloneHolds, ReadSignHolds
<1> QED BY <1>1, <1>2, <1>3, <1>4, PlainIsAccepted DEF Next

LEMMA NextKeepsAcceptance ==
  ASSUME Acceptance, [Next]_vars
  PROVE  Acceptance'
<1>1. CASE UNCHANGED vars
  BY <1>1 DEF vars, Acceptance, ReadIsAccepted, Errors
<1>2. CASE \/ RejectSpecial \/ RejectRules
           \/ \E k \in todo : RejectConsonant(k) \/ RejectMultiKey(k) \/ RejectVowel(k)
  <2>1. pc \notin Errors
    BY <1>2 DEF RejectSpecial, RejectRules, RejectConsonant, RejectMultiKey, RejectVowel, Member, Errors
  <2>2. pc' \in Errors /\ ~ Accepts(file) /\ file' = file
    BY <1>2, <2>1, RejectedIsNotAccepted DEF Acceptance
  <2> QED BY <2>2 DEF Acceptance, Errors
<1>3. CASE NextSection \/ ReadSpecial \/ ReadRules
  <2>1. pc \notin Errors /\ pc' \notin Errors
    BY <1>3 DEF NextSection, After, ReadSpecial, ReadRules, Errors
  <2>2. ReadIsAccepted'
    BY <1>3, <2>1, SectionKeepsAcceptance DEF Acceptance
  <2> QED BY <2>1, <2>2 DEF Acceptance, Errors
<1>4. CASE \E k \in todo : ReadConsonant(k) \/ ReadMultiKey(k) \/ ReadStandalone(k) \/ ReadSign(k)
  <2>1. pc \notin Errors /\ pc' = pc
    BY <1>4 DEF ReadConsonant, ReadMultiKey, ReadStandalone, ReadSign, Member, Read, Errors
  <2>2. ReadIsAccepted'
    BY <1>4, <2>1, ReadKeepsAcceptance DEF Acceptance
  <2> QED BY <2>1, <2>2 DEF Acceptance, Errors
<1> QED BY <1>1, <1>2, <1>3, <1>4 DEF Next

LEMMA NextHolds ==
  ASSUME LoaderInv, [Next]_vars
  PROVE  LoaderInv'
BY FileStays, NextKeepsProgress, NextKeepsAcceptance, NextTyped DEF LoaderInv

\* How a file ends.
Outcome ==
  /\ file \in Files
  /\ pc \in Errors => ~ Accepts(file)
  /\ pc = "loaded" => Accepts(file)
  /\ Plain(file) /\ pc = "loaded" => Means(file, m) /\ IsKeymap
  /\ YieldsKeymap

LEMMA InvariantOutcome == LoaderInv => Outcome
<1> SUFFICES ASSUME LoaderInv PROVE Outcome
  OBVIOUS
<1>1. (pc \in Errors => ~ Accepts(file)) /\ (pc = "loaded" => Accepts(file))
  BY DEF LoaderInv, Acceptance, Errors, ReadIsAccepted, Accepts
<1>2. Plain(file) /\ pc = "loaded" => Means(file, m) /\ IsKeymap
  BY DEF LoaderInv, Progress, InConsonants, InMultiKeys, InStandalones, InSigns, InSpecial,
         InRules, Loaded
<1>3. \A trie, T : IsTyped(trie, T) => DOMAIN trie \subseteq Seq(Key) /\ trie \in [DOMAIN trie -> T]
  BY DEF IsTyped, IsTrie
<1>4. YieldsKeymap
  BY <1>3 DEF YieldsKeymap, KeymapIsTyped, LoaderInv, TypedSoFar
<1> QED BY <1>1, <1>2, <1>4 DEF Outcome, LoaderInv

LEMMA OutcomeHolds == Spec => []Outcome
BY InitHolds, NextHolds, InvariantOutcome, PTL DEF Spec

\* Under every set of files, whatever the number and the length of their keys, and in
\* every order of their members: a plain file is loaded as what it writes down, and
\* every other portable file is refused.
THEOREM CppLoadsWhatIsWritten == Spec => []LoadsWhatIsWritten
<1>1. Outcome => LoadsWhatIsWritten
  BY PlainIsPortable, PortableAccepted DEF Outcome, LoadsWhatIsWritten
<1> QED BY <1>1, OutcomeHolds, PTL

\* What the composer's theorems assume of a keymap is true of what the loader makes of any
\* file it accepts, however odd, if it has all the signs and no empty string where a
\* letter is stored as it is read.
THEOREM CppYieldsKeymaps == Spec => []YieldsKeymap
<1>1. Outcome => YieldsKeymap
  BY DEF Outcome
<1> QED BY <1>1, OutcomeHolds, PTL

\* Every key of the keymap can be typed, with the exceptions the property names.
THEOREM CppKeysAlwaysTypeable == Spec => []KeysCanBeTyped
<1>1. Outcome => KeysCanBeTyped
  BY MeaningIsTypeable, PortableAccepted DEF Outcome, KeysCanBeTyped
<1> QED BY <1>1, OutcomeHolds, PTL

-----------------------------------------------------------------------------
(* Both loaders.  What is proved of the Python one is proved in a module of *)
(* its own, and holds of it here, where its variables have other names.     *)

PyProofs == INSTANCE PyLoader_proofs WITH pc <- py_pc, todo <- py_todo, m <- py_m

\* What a file is does not depend on who reads it.
LEMMA PyFileTypes ==
  /\ NoLetter \notin Letter
  /\ PyProofs!Upper \subseteq Char
  /\ lower \in PyProofs!Injection(PyProofs!Upper, Char \ PyProofs!Upper)
  /\ DefaultSpecial \in [PyProofs!SpecialName -> Letter]
  /\ DefaultRule \in [PyProofs!RuleName -> Char]
  /\ \A f \in Files : PyProofs!IsFile(f)
BY FileTypes DEF PyProofs!Upper, Upper, PyProofs!Injection, Injection, PyProofs!IsInjective,
                 IsInjective, PyProofs!SpecialName, SpecialName, PyProofs!RuleName, RuleName,
                 PyProofs!IsFile, IsFile, PyProofs!Entries, Entries, PyProofs!Json, Json, PyProofs!MaybeJson, MaybeJson

LEMMA SameInit == Py!Init => PyProofs!Init
BY DEF
  Py!Init, PyProofs!Init, Py!Empty, PyProofs!Empty, Py!Keymaps, PyProofs!Keymaps, Py!NoPrefixes,
  PyProofs!NoPrefixes, Py!Raw, PyProofs!Raw, Py!RuleName, PyProofs!RuleName

LEMMA SameNext == Py!Next => PyProofs!Next
BY DEF
  Py!Next, PyProofs!Next, Py!EndConsonants, PyProofs!EndConsonants, Py!EndMultiKeys,
  PyProofs!EndMultiKeys, Py!EndVowels, PyProofs!EndVowels, Py!ReadSpecial, PyProofs!ReadSpecial,
  Py!RejectSpecial, PyProofs!RejectSpecial, Py!ReadRules, PyProofs!ReadRules, Py!RejectRules,
  PyProofs!RejectRules, Py!DerivePrefixes, PyProofs!DerivePrefixes, Py!ReadConsonant,
  PyProofs!ReadConsonant, Py!RejectConsonant, PyProofs!RejectConsonant, Py!ReadMultiKey,
  PyProofs!ReadMultiKey, Py!RejectMultiKey, PyProofs!RejectMultiKey, Py!ReadVowel,
  PyProofs!ReadVowel, Py!RejectVowel, PyProofs!RejectVowel, Py!Goto, PyProofs!Goto, Py!Member,
  PyProofs!Member, Py!Read, PyProofs!Read, Py!Raise, PyProofs!Raise, Py!CanOrd, PyProofs!CanOrd,
  Py!Truthy, PyProofs!Truthy, Py!IsLetter, PyProofs!IsLetter, Py!assigned, PyProofs!assigned,
  Py!ShiftKeys, PyProofs!ShiftKeys, Py!Raw, PyProofs!Raw, Py!shift_key, PyProofs!shift_key,
  Py!Upper, PyProofs!Upper, Py!Put, PyProofs!Put, Py!multi_key_to_seq, PyProofs!multi_key_to_seq,
  Py!vowel_key_to_seq, PyProofs!vowel_key_to_seq, Py!KeyOf, PyProofs!KeyOf, Py!VowelKeys,
  PyProofs!VowelKeys, Py!Of, PyProofs!Of, Py!OrdOrNone, PyProofs!OrdOrNone, Py!SpecialName,
  PyProofs!SpecialName, Py!RuleName, PyProofs!RuleName, Py!RuleTooLong, PyProofs!RuleTooLong,
  Py!rule_keys, PyProofs!rule_keys, Py!PrefixesOf, PyProofs!PrefixesOf

LEMMA PyOutcomeHolds == BothSpec => []PyProofs!Outcome
<1>1. BothInit => PyProofs!Init
  BY SameInit DEF BothInit
<1>2. [BothNext]_<<vars, py_vars>> => [PyProofs!Next]_PyProofs!vars
  BY SameNext, FileStays DEF BothNext, vars, py_vars, PyProofs!vars
<1>3. PyProofs!Spec => []PyProofs!Outcome
  BY PyProofs!OutcomeHolds, PyFileTypes, PTL
<1> QED BY <1>1, <1>2, <1>3, PTL DEF BothSpec, PyProofs!Spec

LEMMA SameKeys ==
  /\ \A c : PyProofs!Raw(c) = Raw(c) /\ PyProofs!KeyOf(c) = KeyOf(c)
  /\ \A k : PyProofs!vowel_key_to_seq(k) = vowel_key_to_seq(k)
<1>1. \A c : PyProofs!Raw(c) = Raw(c) /\ PyProofs!KeyOf(c) = KeyOf(c)
  BY DEF PyProofs!KeyOf, KeyOf, PyProofs!Upper, Upper, PyProofs!Raw, Raw, PyProofs!shift_key, shift_key
<1>2. \A k : PyProofs!vowel_key_to_seq(k) = vowel_key_to_seq(k)
  BY <1>1 DEF PyProofs!vowel_key_to_seq, vowel_key_to_seq
<1> QED BY <1>1, <1>2

LEMMA SameValues ==
  /\ \A v : /\ PyProofs!IsLetter(v) = IsLetter(v) /\ PyProofs!LetterOf(v) = LetterOf(v)
            /\ PyProofs!IsNothing(v) = IsNothing(v) /\ PyProofs!IsFlag(v) = IsFlag(v)
  /\ PyProofs!SpecialName = SpecialName /\ PyProofs!RuleName = RuleName
  /\ \A f : PyProofs!RuleTooLong(f) = RuleTooLong(f)
BY DEF PyProofs!IsLetter, IsLetter, PyProofs!LetterOf, LetterOf, PyProofs!IsNothing, IsNothing,
       PyProofs!IsFlag, IsFlag, PyProofs!SpecialName, SpecialName, PyProofs!RuleName,
       RuleName, PyProofs!RuleTooLong, RuleTooLong

LEMMA SameFiles ==
  \A f : PyProofs!Plain(f) = Plain(f)
BY SameValues DEF PyProofs!Plain, Plain, PyProofs!Upper, Upper

LEMMA SameMeanings ==
  ASSUME NEW f, NEW x
  PROVE  PyProofs!Means(f, x) = Means(f, x)
<1>1. \A trie, singles, multis :
        PyProofs!HoldsConsonants(f, trie, singles, multis) = HoldsConsonants(f, trie, singles, multis)
  BY DEF PyProofs!HoldsConsonants, HoldsConsonants, PyProofs!Raw, Raw, PyProofs!shift_key, shift_key,
         PyProofs!Singles, Singles, PyProofs!Shifteds, Shifteds, PyProofs!IsLetter, IsLetter,
         PyProofs!LetterOf, LetterOf, PyProofs!MultiSeqs, MultiSeqs, PyProofs!multi_key_to_seq,
         multi_key_to_seq, PyProofs!KeyOf, KeyOf, PyProofs!Upper, Upper
<1>2. \A section, read, k : PyProofs!Half(section, read, k) = Half(section, read, k)
  BY SameValues DEF PyProofs!Half, Half
<1>3. \A trie, standalones, signs :
        PyProofs!HoldsVowels(f, trie, standalones, signs) = HoldsVowels(f, trie, standalones, signs)
  BY <1>2, SameKeys DEF PyProofs!HoldsVowels, HoldsVowels
<1> QED BY <1>1, <1>3, SameKeys, SameValues DEF PyProofs!Means, Means

\* ord() raises nothing where Python's if comes first.
CanOrd(v) == v.kind # "truthy" /\ (v.kind = "string" /\ v.text # <<>> => Len(v.text) = 1)

\* The Python program accepts the file.
PyAccepts(f) ==
  /\ \A k \in DOMAIN f.consonants :
       /\ Len(k) = 1 /\ f.consonants[k].is_object
       /\ CanOrd(f.consonants[k].base) /\ CanOrd(f.consonants[k].shift)
  /\ \A k \in DOMAIN f.multi_key_consonants : IsLetter(f.multi_key_consonants[k])
  /\ \A k \in DOMAIN f.vowels_standalone : CanOrd(f.vowels_standalone[k])
  /\ \A k \in DOMAIN f.vowel_signs : CanOrd(f.vowel_signs[k])
  /\ \A s \in SpecialName : f.special[s].kind = "absent" \/ IsLetter(f.special[s])
  /\ ~ RuleTooLong(f)

LEMMA SameAcceptance ==
  \A f : PyProofs!Accepts(f) = PyAccepts(f)
<1>1. \A v : PyProofs!CanOrd(v) <=> CanOrd(v)
  BY SameValues DEF PyProofs!CanOrd, PyProofs!Truthy, CanOrd, IsLetter
<1> QED BY <1>1, SameValues
        DEF PyProofs!Accepts, PyProofs!AcceptsConsonants, PyProofs!AcceptsMultiKeys,
            PyProofs!AcceptsVowels, PyProofs!AcceptsSpecial, PyAccepts

\* How a file ends in the Python program, said in this module's words.
PyOutcome ==
  /\ py_pc \in Py!Errors => ~ PyAccepts(file)
  /\ py_pc = "loaded" => PyAccepts(file)
  /\ Plain(file) /\ py_pc = "loaded" =>
       /\ Means(file, py_m)
       /\ py_m = Keymaps(py_m.consonants, py_m.vowels, py_m.special, py_m.rules,
                         py_m.unmapped_passthrough)
       /\ IsTrie(py_m.consonants) /\ IsTrie(py_m.vowels)

LEMMA OutcomeRestated == PyProofs!Outcome => PyOutcome
BY SameFiles, SameMeanings, SameAcceptance
DEF PyProofs!Outcome, PyOutcome, PyProofs!IsKeymap, PyProofs!Keymaps, Keymaps, PyProofs!IsTrie,
    IsTrie, PyProofs!Errors, Py!Errors

LEMMA PyKeepsFile ==
  ASSUME Py!Next
  PROVE  file' = file
<1>1. [PyProofs!Next]_PyProofs!vars
  BY SameNext
<1> QED BY <1>1, PyProofs!FileStays, PyFileTypes

LEMMA CppOutcomeHolds == BothSpec => []Outcome
<1>1. BothInit => LoaderInv
  BY InitHolds DEF BothInit
<1>2. [BothNext]_<<vars, py_vars>> => [Next]_vars
  BY PyKeepsFile DEF BothNext, vars
<1> QED BY <1>1, <1>2, NextHolds, InvariantOutcome, PTL DEF BothSpec

\* A file that Python accepts and C++ does not has a value that only C++ tests.
LEMMA OnlyCppRefuses ==
  ASSUME NEW f \in Files, ~ Accepts(f), PyAccepts(f)
  PROVE  HasFalsy(f) \/ ~ IsFlag(f.unmapped_passthrough)
<1> SUFFICES ASSUME ~ HasFalsy(f), IsFlag(f.unmapped_passthrough)
             PROVE  Accepts(f)
  OBVIOUS
<1>1. \A v : CanOrd(v) /\ v.kind # "falsy" => ~ Mistyped(v)
  BY DEF CanOrd, Mistyped
<1>2. AcceptsConsonants(f, DOMAIN f.consonants)
  BY <1>1, NoFalsyValues DEF PyAccepts, AcceptsConsonants
<1>3. /\ AcceptsVowels(f.vowels_standalone, DOMAIN f.vowels_standalone)
      /\ AcceptsVowels(f.vowel_signs, DOMAIN f.vowel_signs)
  BY <1>1, NoFalsyValues DEF PyAccepts, AcceptsVowels
<1>4. AcceptsMultiKeys(f, DOMAIN f.multi_key_consonants) /\ AcceptsSpecial(f)
  BY DEF PyAccepts, AcceptsMultiKeys, AcceptsSpecial, IsLetter
<1> QED BY <1>2, <1>3, <1>4 DEF PyAccepts, Accepts

\* A file that C++ accepts and Python does not has a string or an entry that C++ reads
\* in its own way.
LEMMA OnlyPyRefuses ==
  ASSUME NEW f \in Files, Accepts(f), ~ PyAccepts(f)
  PROVE  HasOddString(f) \/ HasBareEntry(f)
<1> SUFFICES ASSUME ~ HasOddString(f), ~ HasBareEntry(f)
             PROVE  PyAccepts(f)
  OBVIOUS
<1>1. \A v : ~ Mistyped(v) /\ ~ IsOddString(v) => CanOrd(v)
  BY DEF CanOrd, Mistyped, IsOddString
<1>2. \A k \in DOMAIN f.consonants :
        /\ Len(k) = 1 /\ f.consonants[k].is_object
        /\ CanOrd(f.consonants[k].base) /\ CanOrd(f.consonants[k].shift)
  BY <1>1, NoOddStrings DEF Accepts, AcceptsConsonants, HasBareEntry
<1>3. /\ \A k \in DOMAIN f.vowels_standalone : CanOrd(f.vowels_standalone[k])
      /\ \A k \in DOMAIN f.vowel_signs : CanOrd(f.vowel_signs[k])
  BY <1>1, NoOddStrings DEF Accepts, AcceptsVowels
<1>4. \A v : v.kind = "string" /\ ~ IsOddString(v) => IsLetter(v)
  BY DEF IsOddString, IsLetter
<1>5. /\ \A k \in DOMAIN f.multi_key_consonants : IsLetter(f.multi_key_consonants[k])
      /\ \A s \in SpecialName : f.special[s].kind = "absent" \/ IsLetter(f.special[s])
  BY <1>4, NoOddStrings DEF Accepts, AcceptsMultiKeys, AcceptsSpecial
<1> QED BY <1>2, <1>3, <1>5 DEF PyAccepts, Accepts

\* A file that both accept is plain, unless one of these causes is there.
LEMMA BothAccept ==
  ASSUME NEW f \in Files, Accepts(f), PyAccepts(f),
         ~ HasOddString(f), ~ LacksSign(f), ~ HasUpperKey(f)
  PROVE  Plain(f)
<1>1. ~ HasFalsy(f)
  BY DEF HasFalsy, OptionalValues, ConsonantValues, Range, Accepts, AcceptsConsonants,
         AcceptsVowels, Mistyped
<1>2. ~ HasBareEntry(f) /\ IsFlag(f.unmapped_passthrough)
  BY DEF HasBareEntry, PyAccepts, Accepts
<1> QED BY <1>1, <1>2, PortableAccepted DEF Portable

\* Whatever the file: both programs refuse it or both load the same keymap, unless it has
\* one of the causes that the property names for the difference.
THEOREM LoadersAlwaysAgree == BothSpec => []LoadersAgree
<1>1. ASSUME Outcome, PyOutcome
      PROVE  LoadersAgree
  <2>1. file \in Files
    BY <1>1 DEF Outcome
  <2>2. pc \in Errors /\ py_pc = "loaded" => HasFalsy(file) \/ ~ IsFlag(file.unmapped_passthrough)
    BY <1>1, <2>1, OnlyCppRefuses DEF Outcome, PyOutcome
  <2>3. pc = "loaded" /\ py_pc \in Py!Errors => HasOddString(file) \/ HasBareEntry(file)
    BY <1>1, <2>1, OnlyPyRefuses DEF Outcome, PyOutcome
  <2>4. ASSUME pc = "loaded", py_pc = "loaded",
               ~ HasOddString(file), ~ LacksSign(file), ~ HasUpperKey(file)
        PROVE  m = py_m
    <3>1. Plain(file)
      BY <1>1, <2>1, <2>4, BothAccept DEF Outcome, PyOutcome
    <3> QED BY <1>1, <2>4, <3>1, MeaningIsUnique DEF Outcome, PyOutcome, IsKeymap
  <2> QED BY <2>2, <2>3, <2>4 DEF LoadersAgree
<1> QED BY <1>1, CppOutcomeHolds, PyOutcomeHolds, OutcomeRestated, PTL
=============================================================================
