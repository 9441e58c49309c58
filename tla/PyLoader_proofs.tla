-------------------------- MODULE PyLoader_proofs --------------------------
(***************************************************************************)
(* Mapping.from_json_string loads every plain file as the keymap it writes *)
(* down, refuses every other portable one, and derives from every file it  *)
(* accepts the prefix sets that stand for the tries of the C++ engine.     *)
(***************************************************************************)
EXTENDS PyLoader, KeymapFile_proofs, Lookup_proofs

-----------------------------------------------------------------------------
(* Keys are sequences of keystrokes, in every file *)

IsKeymap == m = Keymaps(m.consonants, m.vowels, m.special, m.rules, m.unmapped_passthrough)

KeysAreSequences ==
  /\ file \in Files /\ IsKeymap
  /\ pc = "consonants" => todo \subseteq DOMAIN file.consonants
  /\ pc = "multi_key_consonants" => todo \subseteq DOMAIN file.multi_key_consonants
  /\ pc = "vowels" => todo \subseteq VowelKeys(file)
  /\ DOMAIN m.consonants \subseteq Seq(Key) /\ DOMAIN m.vowels \subseteq Seq(Key)
  /\ IsTrie(m.consonants) /\ IsTrie(m.vowels)
  /\ pc = "loaded" =>
       prefixes = [consonants |-> PrefixesOf(m.consonants), vowels |-> PrefixesOf(m.vowels)]

LEMMA AssignedDomain ==
  ASSUME NEW table, NEW keys, NEW v
  PROVE  DOMAIN assigned(table, keys, v) \subseteq DOMAIN table \cup keys
BY DEF assigned

LEMMA AssignedIsTrie ==
  ASSUME NEW table, IsTrie(table), NEW keys, NEW v
  PROVE  IsTrie(assigned(table, keys, v))
<1>1. CASE Truthy(v)
  BY <1>1 DEF assigned, IsTrie
<1>2. CASE ~ Truthy(v)
  BY <1>2 DEF assigned
<1> QED BY <1>1, <1>2

LEMMA InitKeys ==
  ASSUME Init
  PROVE  KeysAreSequences
<1>1. m = Keymaps(<<>>, <<>>, DefaultSpecial, [r \in RuleName |-> Raw(DefaultRule[r])], TRUE)
  BY DEF Init, Empty
<1>2. IsKeymap /\ m.consonants = <<>> /\ m.vowels = <<>>
  BY <1>1 DEF IsKeymap, Keymaps
<1>3. DOMAIN <<>> = {} /\ IsTrie(<<>>)
  BY DEF IsTrie
<1> QED BY <1>2, <1>3 DEF Init, KeysAreSequences

\* Assigning a field leaves the others as they are.
LEMMA WithField ==
  ASSUME IsKeymap, NEW x
  PROVE  /\ [m EXCEPT !.consonants = x] =
              Keymaps(x, m.vowels, m.special, m.rules, m.unmapped_passthrough)
         /\ [m EXCEPT !.vowels = x] =
              Keymaps(m.consonants, x, m.special, m.rules, m.unmapped_passthrough)
         /\ [m EXCEPT !.special = x] =
              Keymaps(m.consonants, m.vowels, x, m.rules, m.unmapped_passthrough)
BY DEF IsKeymap, Keymaps

LEMMA ReadKeepsKeys ==
  ASSUME KeysAreSequences, NEW k \in todo, ReadConsonant(k) \/ ReadMultiKey(k) \/ ReadVowel(k)
  PROVE  KeysAreSequences'
<1>1. /\ file' = file /\ pc' = pc /\ pc # "loaded" /\ todo' = todo \ {k} /\ IsFile(file)
      /\ IsKeymap
  BY FileShape DEF KeysAreSequences, ReadConsonant, ReadMultiKey, ReadVowel, Member, Read
<1>2. CASE ReadConsonant(k)
  <2> DEFINE one == assigned(m.consonants, {<<Raw(k[1])>>}, file.consonants[k].base)
             trie == assigned(one, ShiftKeys(k[1]), file.consonants[k].shift)
  <2>1. pc = "consonants" /\ k \in Seq(Char) /\ Len(k) = 1
    BY <1>1, <1>2 DEF ReadConsonant, Member, KeysAreSequences, IsFile
  <2>2. k[1] \in Char
    BY <2>1, ElementOfSeq
  <2>3. <<Raw(k[1])>> \in Seq(Key) /\ ShiftKeys(k[1]) \subseteq Seq(Key)
    BY <2>2, KeyTypes DEF ShiftKeys
  <2>4. DOMAIN one \subseteq DOMAIN m.consonants \cup {<<Raw(k[1])>>}
    BY AssignedDomain
  <2> HIDE DEF one
  <2>5. DOMAIN trie \subseteq DOMAIN one \cup ShiftKeys(k[1])
    BY AssignedDomain
  <2>6. m' = [m EXCEPT !.consonants = trie]
    BY <1>2 DEF ReadConsonant, one
  <2>7. IsTrie(trie)
    BY AssignedIsTrie DEF KeysAreSequences, one
  <2> HIDE DEF trie
  <2>8. IsKeymap' /\ m'.consonants = trie /\ m'.vowels = m.vowels
    BY <1>1, <2>6, WithField DEF IsKeymap, Keymaps
  <2> QED BY <1>1, <2>1, <2>3, <2>4, <2>5, <2>7, <2>8 DEF KeysAreSequences
<1>3. CASE ReadMultiKey(k)
  <2> DEFINE trie == Put(m.consonants, multi_key_to_seq(k), file.multi_key_consonants[k].text[1])
  <2>1. pc = "multi_key_consonants" /\ k \in Seq(Char)
    BY <1>1, <1>3 DEF ReadMultiKey, Member, KeysAreSequences, IsFile
  <2>2. DOMAIN trie = DOMAIN m.consonants \cup {multi_key_to_seq(k)} /\ IsTrie(trie)
    BY PutIsTrie, PutProperties
  <2>3. m' = [m EXCEPT !.consonants = trie]
    BY <1>3 DEF ReadMultiKey
  <2> HIDE DEF trie
  <2>4. IsKeymap' /\ m'.consonants = trie /\ m'.vowels = m.vowels
    BY <1>1, <2>3, WithField DEF IsKeymap, Keymaps
  <2> QED BY <1>1, <2>1, <2>2, <2>4, SeqTypes DEF KeysAreSequences
<1>4. CASE ReadVowel(k)
  <2> DEFINE trie == Put(m.vowels, vowel_key_to_seq(k),
                         [standalone |-> OrdOrNone(Of(file.vowels_standalone, k)),
                          matra |-> OrdOrNone(Of(file.vowel_signs, k))])
  <2>1. pc = "vowels" /\ k \in Seq(Char)
    BY <1>1, <1>4 DEF ReadVowel, Member, KeysAreSequences, IsFile, VowelKeys
  <2>2. DOMAIN trie = DOMAIN m.vowels \cup {vowel_key_to_seq(k)} /\ IsTrie(trie)
    BY PutIsTrie, PutProperties
  <2>3. m' = [m EXCEPT !.vowels = trie]
    BY <1>4 DEF ReadVowel
  <2> HIDE DEF trie
  <2>4. IsKeymap' /\ m'.vowels = trie /\ m'.consonants = m.consonants
    BY <1>1, <2>3, WithField DEF IsKeymap, Keymaps
  <2> QED BY <1>1, <2>1, <2>2, <2>4, SeqTypes DEF KeysAreSequences
<1> QED BY <1>2, <1>3, <1>4

LEMMA RestKeepsKeys ==
  ASSUME KeysAreSequences,
         \/ EndConsonants \/ EndMultiKeys \/ EndVowels \/ ReadSpecial \/ ReadRules \/ DerivePrefixes
         \/ RejectSpecial \/ RejectRules \/ UNCHANGED vars
         \/ \E k \in todo : RejectConsonant(k) \/ RejectMultiKey(k) \/ RejectVowel(k)
  PROVE  KeysAreSequences'
<1>1. CASE EndConsonants \/ EndMultiKeys \/ EndVowels
  BY <1>1 DEF KeysAreSequences, EndConsonants, EndMultiKeys, EndVowels, Goto, IsKeymap
<1>2. CASE ReadSpecial
  <2>1. PICK x : m' = [m EXCEPT !.special = x]
    BY <1>2 DEF ReadSpecial
  <2>2. IsKeymap' /\ m'.consonants = m.consonants /\ m'.vowels = m.vowels
    BY <2>1, WithField DEF KeysAreSequences, IsKeymap, Keymaps
  <2> QED BY <1>2, <2>2 DEF ReadSpecial, Goto, KeysAreSequences
<1>3. CASE ReadRules
  <2>1. PICK x, y : m' = [m EXCEPT !.rules = x, !.unmapped_passthrough = y]
    BY <1>3 DEF ReadRules
  <2>2. m' = Keymaps(m.consonants, m.vowels, m.special, x, y)
    BY <2>1 DEF KeysAreSequences, IsKeymap, Keymaps
  <2>3. IsKeymap' /\ m'.consonants = m.consonants /\ m'.vowels = m.vowels
    BY <2>2 DEF IsKeymap, Keymaps
  <2> QED BY <1>3, <2>3 DEF ReadRules, Goto, KeysAreSequences
<1>4. CASE DerivePrefixes
  BY <1>4 DEF DerivePrefixes, KeysAreSequences, IsKeymap, PrefixesOf
<1>5. CASE RejectSpecial \/ RejectRules
  BY <1>5 DEF RejectSpecial, RejectRules, Raise, KeysAreSequences, IsKeymap
<1>6. CASE \E k \in todo : RejectConsonant(k) \/ RejectMultiKey(k) \/ RejectVowel(k)
  BY <1>6 DEF RejectConsonant, RejectMultiKey, RejectVowel, Raise, KeysAreSequences, IsKeymap
<1>7. CASE UNCHANGED vars
  BY <1>7 DEF vars, KeysAreSequences, IsKeymap
<1> QED BY <1>1, <1>2, <1>3, <1>4, <1>5, <1>6, <1>7

LEMMA NextKeepsKeys ==
  ASSUME KeysAreSequences, [Next]_vars
  PROVE  KeysAreSequences'
BY ReadKeepsKeys, RestKeepsKeys DEF Next

\* The set of proper prefixes of the keys of a table answers as the trie of the table.
LEMMA PrefixesAnswerAsTrie ==
  ASSUME NEW table, DOMAIN table \subseteq Seq(Key)
  PROVE  /\ \A p \in PrefixesOf(table) : p # <<>> /\ is_strict_prefix(table, p)
         /\ \A s \in DOMAIN table : \A n \in 1..(Len(s) - 1) : SubSeq(s, 1, n) \in PrefixesOf(table)
<1>1. ASSUME NEW p \in PrefixesOf(table)
      PROVE  p # <<>> /\ is_strict_prefix(table, p)
  <2>1. PICK s \in DOMAIN table : \E n \in 1..(Len(s) - 1) : p = SubSeq(s, 1, n)
    BY DEF PrefixesOf
  <2>2. PICK n \in 1..(Len(s) - 1) : p = SubSeq(s, 1, n)
    BY <2>1
  <2>3. s \in Seq(Key) /\ Len(s) \in Nat /\ n \in 0..Len(s) /\ n < Len(s) /\ n > 0
    BY LenProperties
  <2>4. p \in Seq(Key) /\ Len(p) = n /\ IsPrefix(p, s)
    BY <2>2, <2>3, FirstKeys, FirstKeysArePrefix
  <2>5. p # s /\ p # <<>>
    BY <2>3, <2>4, EmptySeq
  <2>6. IsStrictPrefix(p, s)
    BY <2>3, <2>4, <2>5, StrictOrEqual
  <2> QED BY <2>5, <2>6 DEF is_strict_prefix
<1>2. \A s \in DOMAIN table : \A n \in 1..(Len(s) - 1) : SubSeq(s, 1, n) \in PrefixesOf(table)
  BY DEF PrefixesOf
<1> QED BY <1>1, <1>2

\* For every file that Python accepts, its prefix sets answer as the C++ tries would.
THEOREM PrefixSetsAlwaysTries == Spec => []PrefixSetsAreTries
<1>1. Init => KeysAreSequences
  BY InitKeys
<1>2. KeysAreSequences /\ [Next]_vars => KeysAreSequences'
  BY NextKeepsKeys
<1>3. KeysAreSequences => PrefixSetsAreTries
  <2> SUFFICES ASSUME KeysAreSequences, pc = "loaded", NEW t \in {"consonants", "vowels"}
               PROVE  /\ \A p \in prefixes[t] : p # <<>> /\ is_strict_prefix(m[t], p)
                      /\ \A s \in DOMAIN m[t] : \A n \in 1..(Len(s) - 1) :
                           SubSeq(s, 1, n) \in prefixes[t]
    BY DEF PrefixSetsAreTries
  <2>1. DOMAIN m[t] \subseteq Seq(Key) /\ prefixes[t] = PrefixesOf(m[t])
    BY DEF KeysAreSequences
  <2> QED BY <2>1, PrefixesAnswerAsTrie
<1> QED BY <1>1, <1>2, <1>3, PTL DEF Spec

-----------------------------------------------------------------------------
(* What is loaded: the invariant is that of the C++ loader, but for the vowels, whose *)
(* two sections are read together.                                                    *)

RulesUnread ==
  m.rules = [r \in RuleName |-> Raw(DefaultRule[r])] /\ m.unmapped_passthrough = TRUE

AllConsonants ==
  HoldsConsonants(file, m.consonants, DOMAIN file.consonants, DOMAIN file.multi_key_consonants)

AllVowels ==
  HoldsVowels(file, m.vowels, DOMAIN file.vowels_standalone, DOMAIN file.vowel_signs)

InConsonants ==
  /\ pc = "consonants"
  /\ HoldsConsonants(file, m.consonants, DOMAIN file.consonants \ todo, {})
  /\ HoldsVowels(file, m.vowels, {}, {})
  /\ RulesUnread

InMultiKeys ==
  /\ pc = "multi_key_consonants"
  /\ HoldsConsonants(file, m.consonants, DOMAIN file.consonants,
                     DOMAIN file.multi_key_consonants \ todo)
  /\ HoldsVowels(file, m.vowels, {}, {})
  /\ RulesUnread

InVowels ==
  /\ pc = "vowels" /\ AllConsonants
  /\ HoldsVowels(file, m.vowels, DOMAIN file.vowels_standalone \ todo, DOMAIN file.vowel_signs \ todo)
  /\ RulesUnread

InSpecial == pc = "special" /\ todo = {} /\ AllConsonants /\ AllVowels /\ RulesUnread

InRules ==
  /\ pc = "rules" /\ todo = {} /\ AllConsonants /\ AllVowels /\ RulesUnread
  /\ m.special = [s \in SpecialName |-> LetterOf(file.special[s])]

AllRead == pc \in {"prefixes", "loaded"} /\ todo = {} /\ Means(file, m)

Progress == InConsonants \/ InMultiKeys \/ InVowels \/ InSpecial \/ InRules \/ AllRead

\* The members in S are such as the code reads without an error.
AcceptsConsonants(f, S) ==
  \A k \in S : /\ Len(k) = 1 /\ f.consonants[k].is_object
               /\ CanOrd(f.consonants[k].base) /\ CanOrd(f.consonants[k].shift)

AcceptsMultiKeys(f, S) == \A k \in S : IsLetter(f.multi_key_consonants[k])

AcceptsVowels(section, S) == \A k \in S : CanOrd(section[k])

AcceptsSpecial(f) == \A s \in SpecialName : f.special[s].kind = "absent" \/ IsLetter(f.special[s])

\* The program accepts the file.
Accepts(f) ==
  /\ AcceptsConsonants(f, DOMAIN f.consonants)
  /\ AcceptsMultiKeys(f, DOMAIN f.multi_key_consonants)
  /\ AcceptsVowels(f.vowels_standalone, DOMAIN f.vowels_standalone)
  /\ AcceptsVowels(f.vowel_signs, DOMAIN f.vowel_signs)
  /\ AcceptsSpecial(f) /\ ~ RuleTooLong(f)

\* The members that were read are such.
ReadIsAccepted ==
  /\ AcceptsConsonants(file, IF pc = "consonants" THEN DOMAIN file.consonants \ todo
                                                  ELSE DOMAIN file.consonants)
  /\ pc # "consonants" =>
       AcceptsMultiKeys(file, IF pc = "multi_key_consonants"
                                THEN DOMAIN file.multi_key_consonants \ todo
                                ELSE DOMAIN file.multi_key_consonants)
  /\ pc \notin {"consonants", "multi_key_consonants"} =>
       LET read(section) == IF pc = "vowels" THEN DOMAIN section \ todo ELSE DOMAIN section IN
         /\ AcceptsVowels(file.vowels_standalone, read(file.vowels_standalone))
         /\ AcceptsVowels(file.vowel_signs, read(file.vowel_signs))
  /\ pc \in {"rules", "prefixes", "loaded"} => AcceptsSpecial(file)
  /\ pc \in {"prefixes", "loaded"} => ~ RuleTooLong(file)

\* An error is raised by a file that is not accepted, whichever its culprit.
Acceptance == IF pc \in Errors THEN ~ Accepts(file) ELSE ReadIsAccepted

LoaderInv ==
  /\ KeysAreSequences /\ Acceptance
  /\ Plain(file) => Progress

LEMMA InitHolds ==
  ASSUME Init
  PROVE  LoaderInv
<1>1. /\ file \in Files /\ pc = "consonants" /\ todo = DOMAIN file.consonants
      /\ m = Keymaps(<<>>, <<>>, DefaultSpecial, [r \in RuleName |-> Raw(DefaultRule[r])], TRUE)
  BY DEF Init, Empty
<1>2. RulesUnread /\ m.consonants = <<>> /\ m.vowels = <<>>
  BY <1>1 DEF RulesUnread, Keymaps
<1>3. DOMAIN file.consonants \ todo = {} /\ DOMAIN <<>> = {}
  BY <1>1
<1>4. HoldsConsonants(file, m.consonants, DOMAIN file.consonants \ todo, {})
  BY <1>2, <1>3, NoMultiSeqs DEF HoldsConsonants
<1>5. HoldsVowels(file, m.vowels, {}, {})
  BY <1>2, <1>3 DEF HoldsVowels
<1>6. Acceptance
  BY <1>1, <1>3 DEF Acceptance, Errors, ReadIsAccepted, AcceptsConsonants
<1> QED BY <1>1, <1>2, <1>4, <1>5, <1>6, InitKeys DEF LoaderInv, Progress, InConsonants

LEMMA TruthyLetters ==
  ASSUME NEW v, IsLetter(v) \/ IsNothing(v)
  PROVE  /\ CanOrd(v) /\ (Truthy(v) <=> IsLetter(v))
         /\ IsLetter(v) => v.text[1] = LetterOf(v)
         /\ OrdOrNone(v) = LetterOf(v)
<1>1. CASE IsLetter(v)
  <2>1. v.text # <<>> /\ v.kind = "string"
    BY <1>1 DEF IsLetter
  <2> QED BY <1>1, <2>1 DEF CanOrd, Truthy, LetterOf, OrdOrNone
<1>2. CASE ~ IsLetter(v)
  <2>1. v.kind # "string" /\ v.kind # "truthy"
    BY <1>2 DEF IsNothing
  <2> QED BY <1>2, <2>1 DEF CanOrd, Truthy, LetterOf, OrdOrNone
<1> QED BY <1>1, <1>2

LEMMA ReadConsonantHolds ==
  ASSUME KeysAreSequences, Plain(file), Progress, NEW k \in todo, ReadConsonant(k)
  PROVE  Progress'
<1> DEFINE v == file.consonants[k].base
           w == file.consonants[k].shift
           p == <<Raw(k[1])>>
           q == <<shift_key(k[1])>>
           one == assigned(m.consonants, {p}, v)
           trie == assigned(one, ShiftKeys(k[1]), w)
           news == (IF k \in Singles(file) THEN {<<Raw(k[1])>>} ELSE {}) \cup
                   (IF k \in Shifteds(file) THEN {<<shift_key(k[1])>>} ELSE {})
           S == DOMAIN file.consonants \ todo
<1>1. /\ pc = "consonants" /\ pc' = pc /\ todo' = todo \ {k} /\ file' = file
      /\ m' = [m EXCEPT !.consonants = trie]
  BY DEF ReadConsonant, Member, Read
<1>2. InConsonants
  BY <1>1 DEF Progress, InMultiKeys, InVowels, InSpecial, InRules, AllRead
<1>3. k \in DOMAIN file.consonants /\ file \in Files /\ S \in SUBSET DOMAIN file.consonants
  BY <1>1 DEF KeysAreSequences
<1>4. /\ k[1] \in Char \ Upper
      /\ (IsLetter(v) \/ IsNothing(v)) /\ (IsLetter(w) \/ IsNothing(w))
  BY <1>3, PlainConsonant
<1>5. (k \in Singles(file) <=> IsLetter(v)) /\ (k \in Shifteds(file) <=> IsLetter(w))
  BY <1>3 DEF Singles, Shifteds
<1>6. p # q /\ ShiftKeys(k[1]) = {q}
  BY <1>4 DEF Raw, shift_key, ShiftKeys
<1>7. news = (IF IsLetter(v) THEN {p} ELSE {}) \cup (IF IsLetter(w) THEN {q} ELSE {})
  BY <1>5
<1>8. HoldsConsonants(file, m.consonants, S, {})
  BY <1>2 DEF InConsonants
<1>9. m' = Keymaps(trie, m.vowels, m.special, m.rules, m.unmapped_passthrough)
  BY <1>1, WithField DEF KeysAreSequences
<1> HIDE DEF v, w, p, q, news
<1>10. /\ DOMAIN trie = DOMAIN m.consonants \cup news
       /\ IsLetter(v) => trie[p] = LetterOf(v)
       /\ IsLetter(w) => trie[q] = LetterOf(w)
       /\ \A s \in DOMAIN m.consonants \ news : trie[s] = m.consonants[s]
  <2>1. /\ DOMAIN one = DOMAIN m.consonants \cup (IF IsLetter(v) THEN {p} ELSE {})
        /\ IsLetter(v) => one[p] = LetterOf(v)
        /\ \A s \in DOMAIN m.consonants :
             s \notin (IF IsLetter(v) THEN {p} ELSE {}) => one[s] = m.consonants[s]
    <3>1. CASE IsLetter(v)
      BY <1>4, <3>1, TruthyLetters DEF assigned
    <3>2. CASE ~ IsLetter(v)
      BY <1>4, <3>2, TruthyLetters DEF assigned
    <3> QED BY <3>1, <3>2
  <2> HIDE DEF one
  <2>2. /\ DOMAIN trie = DOMAIN one \cup (IF IsLetter(w) THEN {q} ELSE {})
        /\ IsLetter(w) => trie[q] = LetterOf(w)
        /\ \A s \in DOMAIN one :
             s \notin (IF IsLetter(w) THEN {q} ELSE {}) => trie[s] = one[s]
    <3>1. CASE IsLetter(w)
      BY <1>4, <1>6, <3>1, TruthyLetters DEF assigned
    <3>2. CASE ~ IsLetter(w)
      BY <1>4, <3>2, TruthyLetters DEF assigned
    <3> QED BY <3>1, <3>2
  <2> QED BY <1>6, <1>7, <2>1, <2>2
<1> HIDE DEF one, trie
<1>11. HoldsConsonants(file, trie, S \cup {k}, {})
  BY <1>3, <1>5, <1>8, <1>10, HoldsOneMoreConsonant DEF v, w, p, q, news
<1>12. DOMAIN file.consonants \ todo' = S \cup {k}
  BY <1>1, <1>3
<1>13. m'.consonants = trie /\ m'.vowels = m.vowels /\ RulesUnread'
  BY <1>2, <1>9 DEF Keymaps, RulesUnread, InConsonants
<1> QED BY <1>1, <1>2, <1>11, <1>12, <1>13 DEF InConsonants, Progress

LEMMA ReadMultiKeyHolds ==
  ASSUME KeysAreSequences, Plain(file), Progress, NEW k \in todo, ReadMultiKey(k)
  PROVE  Progress'
<1> DEFINE v == file.multi_key_consonants[k]
           trie == Put(m.consonants, multi_key_to_seq(k), LetterOf(v))
           M == DOMAIN file.multi_key_consonants \ todo
<1>1. /\ pc = "multi_key_consonants" /\ pc' = pc /\ todo' = todo \ {k} /\ file' = file
      /\ IsLetter(v) /\ m' = [m EXCEPT !.consonants = Put(@, multi_key_to_seq(k), v.text[1])]
  BY DEF ReadMultiKey, Member, Read
<1>2. InMultiKeys
  BY <1>1 DEF Progress, InConsonants, InVowels, InSpecial, InRules, AllRead
<1>3. /\ k \in DOMAIN file.multi_key_consonants /\ file \in Files
      /\ M \in SUBSET DOMAIN file.multi_key_consonants
  BY <1>1 DEF KeysAreSequences
<1>4. v.text[1] = LetterOf(v)
  BY <1>1 DEF IsLetter, LetterOf
<1>5. m' = Keymaps(trie, m.vowels, m.special, m.rules, m.unmapped_passthrough)
  BY <1>1, <1>4, WithField DEF KeysAreSequences
<1>6. HoldsConsonants(file, m.consonants, DOMAIN file.consonants, M)
  BY <1>2 DEF InMultiKeys
<1>7. HoldsConsonants(file, trie, DOMAIN file.consonants, M \cup {k})
  BY <1>3, <1>6, HoldsOneMoreMultiKey
<1>8. DOMAIN file.multi_key_consonants \ todo' = M \cup {k}
  BY <1>1, <1>3
<1> HIDE DEF trie
<1>9. m'.consonants = trie /\ m'.vowels = m.vowels /\ RulesUnread'
  BY <1>2, <1>5 DEF Keymaps, RulesUnread, InMultiKeys
<1> QED BY <1>1, <1>2, <1>7, <1>8, <1>9 DEF InMultiKeys, Progress

\* What a section says of a vowel, missing members included.
LEMMA HalfRead ==
  ASSUME NEW section, NEW k,
         \A j \in DOMAIN section : IsLetter(section[j]) \/ IsNothing(section[j])
  PROVE  /\ CanOrd(Of(section, k))
         /\ OrdOrNone(Of(section, k)) = Half(section, DOMAIN section, k)
<1>1. CASE k \in DOMAIN section
  BY <1>1, TruthyLetters DEF Of, Half
<1>2. CASE k \notin DOMAIN section
  BY <1>2 DEF Of, Half, CanOrd, OrdOrNone, Truthy
<1> QED BY <1>1, <1>2

LEMMA PlainHalves ==
  ASSUME Plain(file), NEW k
  PROVE  /\ CanOrd(Of(file.vowels_standalone, k)) /\ CanOrd(Of(file.vowel_signs, k))
         /\ OrdOrNone(Of(file.vowels_standalone, k)) =
              Half(file.vowels_standalone, DOMAIN file.vowels_standalone, k)
         /\ OrdOrNone(Of(file.vowel_signs, k)) = Half(file.vowel_signs, DOMAIN file.vowel_signs, k)
BY HalfRead DEF Plain

LEMMA ReadVowelHolds ==
  ASSUME KeysAreSequences, Plain(file), Progress, NEW k \in todo, ReadVowel(k)
  PROVE  Progress'
<1> DEFINE seq == vowel_key_to_seq(k)
           entry == [standalone |-> OrdOrNone(Of(file.vowels_standalone, k)),
                     matra |-> OrdOrNone(Of(file.vowel_signs, k))]
           trie == Put(m.vowels, seq, entry)
           V == DOMAIN file.vowels_standalone \ todo
           G == DOMAIN file.vowel_signs \ todo
           V2 == DOMAIN file.vowels_standalone \ (todo \ {k})
           G2 == DOMAIN file.vowel_signs \ (todo \ {k})
<1>1. /\ pc = "vowels" /\ pc' = pc /\ todo' = todo \ {k} /\ file' = file
      /\ m' = [m EXCEPT !.vowels = trie]
  BY DEF ReadVowel, Member, Read
<1>2. InVowels
  BY <1>1 DEF Progress, InConsonants, InMultiKeys, InSpecial, InRules, AllRead
<1>3. k \in VowelKeys(file) /\ file \in Files
  BY <1>1 DEF KeysAreSequences
<1>4. /\ V2 \cup G2 = V \cup G \cup {k} /\ V2 \ {k} = V \ {k} /\ G2 \ {k} = G \ {k}
  BY <1>3 DEF VowelKeys
<1>5. entry = [standalone |-> Half(file.vowels_standalone, V2, k),
               matra |-> Half(file.vowel_signs, G2, k)]
  BY PlainHalves DEF Half
<1>6. m' = Keymaps(m.consonants, trie, m.special, m.rules, m.unmapped_passthrough)
  BY <1>1, WithField DEF KeysAreSequences
<1> HIDE DEF entry
<1>7. HoldsVowels(file, m.vowels, V, G)
  BY <1>2 DEF InVowels
<1>8. HoldsVowels(file, trie, V2, G2)
  BY <1>3, <1>4, <1>5, <1>7, HoldsOneMoreVowel
<1> HIDE DEF trie
<1>9. m'.consonants = m.consonants /\ m'.vowels = trie /\ RulesUnread'
  BY <1>2, <1>6 DEF Keymaps, RulesUnread, InVowels
<1>10. AllConsonants'
  BY <1>1, <1>2, <1>9 DEF InVowels, AllConsonants
<1> QED BY <1>1, <1>8, <1>9, <1>10 DEF InVowels, Progress

LEMMA EndSectionHolds ==
  ASSUME KeysAreSequences, Plain(file), Progress, EndConsonants \/ EndMultiKeys \/ EndVowels
  PROVE  Progress'
<1>1. file' = file /\ m' = m /\ todo = {} /\ (RulesUnread => RulesUnread')
  BY DEF EndConsonants, EndMultiKeys, EndVowels, Goto, RulesUnread
<1>2. CASE EndConsonants
  <2>1. InConsonants /\ pc' = "multi_key_consonants" /\ todo' = DOMAIN file.multi_key_consonants
    BY <1>2 DEF EndConsonants, Goto, Progress, InMultiKeys, InVowels, InSpecial, InRules, AllRead
  <2>2. InMultiKeys'
    BY <1>1, <2>1 DEF InConsonants, InMultiKeys
  <2> QED BY <2>2 DEF Progress
<1>3. CASE EndMultiKeys
  <2>1. InMultiKeys /\ pc' = "vowels" /\ todo' = VowelKeys(file)
    BY <1>3 DEF EndMultiKeys, Goto, Progress, InConsonants, InVowels, InSpecial, InRules, AllRead
  <2>2. DOMAIN file.vowels_standalone \ todo' = {} /\ DOMAIN file.vowel_signs \ todo' = {}
    BY <2>1 DEF VowelKeys
  <2>3. InVowels'
    BY <1>1, <2>1, <2>2 DEF InMultiKeys, InVowels, AllConsonants
  <2> QED BY <2>3 DEF Progress
<1>4. CASE EndVowels
  <2>1. InVowels /\ pc' = "special" /\ todo' = {}
    BY <1>4 DEF EndVowels, Goto, Progress, InConsonants, InMultiKeys, InSpecial, InRules, AllRead
  <2>2. InSpecial'
    BY <1>1, <2>1 DEF InVowels, InSpecial, AllConsonants, AllVowels
  <2> QED BY <2>2 DEF Progress
<1> QED BY <1>2, <1>3, <1>4

LEMMA ReadSpecialHolds ==
  ASSUME KeysAreSequences, Plain(file), Progress, ReadSpecial
  PROVE  Progress'
<1> DEFINE signs == [s \in SpecialName |-> LetterOf(file.special[s])]
<1>1. InSpecial
  BY DEF ReadSpecial, Progress, InConsonants, InMultiKeys, InVowels, InRules, AllRead
<1>2. \A s \in SpecialName :
        /\ file.special[s].kind = "string"
        /\ file.special[s].text[1] = LetterOf(file.special[s])
  BY DEF Plain, IsLetter, LetterOf
<1>3. m' = [m EXCEPT !.special = signs] /\ pc' = "rules" /\ todo' = {} /\ file' = file
  BY <1>2 DEF ReadSpecial, Goto
<1> HIDE DEF signs
<1>4. m' = Keymaps(m.consonants, m.vowels, signs, m.rules, m.unmapped_passthrough)
  BY <1>3, WithField DEF KeysAreSequences
<1>5. /\ m'.consonants = m.consonants /\ m'.vowels = m.vowels
      /\ m'.special = signs /\ RulesUnread'
  BY <1>1, <1>4 DEF Keymaps, RulesUnread, InSpecial
<1>6. InRules'
  BY <1>1, <1>3, <1>5 DEF InSpecial, InRules, AllConsonants, AllVowels, signs
<1> QED BY <1>6 DEF Progress

LEMMA ReadRulesHolds ==
  ASSUME KeysAreSequences, Plain(file), Progress, ReadRules
  PROVE  Progress'
<1> DEFINE rules == [r \in RuleName |->
             IF file.rules[r] = <<>> THEN Raw(DefaultRule[r]) ELSE KeyOf(file.rules[r][1][1])]
           passthrough == file.unmapped_passthrough \notin {"false", "falsy"}
<1>1. InRules
  BY DEF ReadRules, Progress, InConsonants, InMultiKeys, InVowels, InSpecial, AllRead
<1>2. rule_keys(file, m) = rules
  BY <1>1 DEF InRules, RulesUnread, rule_keys
<1> HIDE DEF rules, passthrough
<1>3. /\ m' = [m EXCEPT !.rules = rules, !.unmapped_passthrough = passthrough]
      /\ pc' = "prefixes" /\ todo' = {} /\ file' = file
  BY <1>2 DEF ReadRules, Goto, passthrough
<1>4. m' = Keymaps(m.consonants, m.vowels, m.special, rules, passthrough)
  BY <1>3 DEF KeysAreSequences, IsKeymap, Keymaps
<1>5. /\ m'.consonants = m.consonants /\ m'.vowels = m.vowels
      /\ m'.special = m.special /\ m'.rules = rules /\ m'.unmapped_passthrough = passthrough
  BY <1>4 DEF Keymaps
<1>6. Means(file, m')
  <2>1. passthrough = (file.unmapped_passthrough # "false")
    BY DEF Plain, IsFlag, passthrough
  <2> QED BY <1>1, <1>5, <2>1 DEF InRules, Means, AllConsonants, AllVowels, rules
<1> QED BY <1>3, <1>6 DEF AllRead, Progress

LEMMA PlainIsAccepted ==
  ASSUME KeysAreSequences, Plain(file), Progress
  PROVE  /\ ~ RejectSpecial /\ ~ RejectRules
         /\ \A k \in todo : ~ RejectConsonant(k) /\ ~ RejectMultiKey(k) /\ ~ RejectVowel(k)
<1>1. ~ RejectSpecial /\ ~ RejectRules
  BY DEF RejectSpecial, RejectRules, Plain
<1>2. ASSUME NEW k \in todo, RejectConsonant(k)
      PROVE  FALSE
  <2>1. k \in DOMAIN file.consonants /\ file \in Files
    BY <1>2 DEF RejectConsonant, Member, KeysAreSequences
  <2>2. /\ Len(k) = 1 /\ file.consonants[k].is_object
        /\ IsLetter(file.consonants[k].base) \/ IsNothing(file.consonants[k].base)
        /\ IsLetter(file.consonants[k].shift) \/ IsNothing(file.consonants[k].shift)
    BY <2>1, PlainConsonant
  <2>3. CanOrd(file.consonants[k].base) /\ CanOrd(file.consonants[k].shift)
    BY <2>2, TruthyLetters
  <2> QED BY <1>2, <2>2, <2>3 DEF RejectConsonant
<1>3. ASSUME NEW k \in todo, RejectMultiKey(k)
      PROVE  FALSE
  <2>1. k \in DOMAIN file.multi_key_consonants
    BY <1>3 DEF RejectMultiKey, Member, KeysAreSequences
  <2> QED BY <1>3, <2>1 DEF RejectMultiKey, Plain
<1>4. ASSUME NEW k \in todo, RejectVowel(k)
      PROVE  FALSE
  BY <1>4, PlainHalves DEF RejectVowel
<1> QED BY <1>1, <1>2, <1>3, <1>4

-----------------------------------------------------------------------------
(* What is refused *)

LEMMA ReadKeepsAcceptance ==
  ASSUME KeysAreSequences, ReadIsAccepted,
         NEW k \in todo, ReadConsonant(k) \/ ReadMultiKey(k) \/ ReadVowel(k)
  PROVE  ReadIsAccepted'
<1>1. file' = file /\ pc' = pc /\ todo' = todo \ {k}
  BY DEF ReadConsonant, ReadMultiKey, ReadVowel, Read
<1>2. CASE ReadConsonant(k)
  BY <1>1, <1>2 DEF ReadConsonant, Member, ReadIsAccepted, AcceptsConsonants
<1>3. CASE ReadMultiKey(k)
  BY <1>1, <1>3 DEF ReadMultiKey, Member, ReadIsAccepted, AcceptsMultiKeys
<1>4. CASE ReadVowel(k)
  <2>1. /\ pc = "vowels"
        /\ k \in DOMAIN file.vowels_standalone => CanOrd(file.vowels_standalone[k])
        /\ k \in DOMAIN file.vowel_signs => CanOrd(file.vowel_signs[k])
    BY <1>4 DEF ReadVowel, Member, Of
  <2>2. AcceptsVowels(file.vowels_standalone, DOMAIN file.vowels_standalone \ (todo \ {k}))
    BY <2>1 DEF ReadIsAccepted, AcceptsVowels
  <2>3. AcceptsVowels(file.vowel_signs, DOMAIN file.vowel_signs \ (todo \ {k}))
    BY <2>1 DEF ReadIsAccepted, AcceptsVowels
  <2> QED BY <1>1, <2>1, <2>2, <2>3 DEF ReadIsAccepted
<1> QED BY <1>2, <1>3, <1>4

LEMMA EndKeepsAcceptance ==
  ASSUME KeysAreSequences, ReadIsAccepted,
         EndConsonants \/ EndMultiKeys \/ EndVowels \/ ReadSpecial \/ ReadRules \/ DerivePrefixes
  PROVE  ReadIsAccepted'
<1>1. CASE EndConsonants
  BY <1>1 DEF EndConsonants, Goto, ReadIsAccepted, AcceptsMultiKeys
<1>2. CASE EndMultiKeys
  <2>1. AcceptsVowels(file.vowels_standalone, {}) /\ AcceptsVowels(file.vowel_signs, {})
    BY DEF AcceptsVowels
  <2>2. /\ DOMAIN file.vowels_standalone \ VowelKeys(file) = {}
        /\ DOMAIN file.vowel_signs \ VowelKeys(file) = {}
    BY DEF VowelKeys
  <2> QED BY <1>2, <2>1, <2>2 DEF EndMultiKeys, Goto, ReadIsAccepted
<1>3. CASE EndVowels
  BY <1>3 DEF EndVowels, Goto, ReadIsAccepted
<1>4. CASE ReadSpecial
  <2>1. pc = "special" /\ pc' = "rules" /\ file' = file /\ AcceptsSpecial(file)
    BY <1>4 DEF ReadSpecial, Goto, AcceptsSpecial
  <2> QED BY <2>1 DEF ReadIsAccepted
<1>5. CASE ReadRules
  BY <1>5 DEF ReadRules, Goto, ReadIsAccepted
<1>6. CASE DerivePrefixes
  BY <1>6 DEF DerivePrefixes, ReadIsAccepted
<1> QED BY <1>1, <1>2, <1>3, <1>4, <1>5, <1>6

\* An error is raised only where the file has a member that is not accepted.
LEMMA RejectedIsNotAccepted ==
  ASSUME KeysAreSequences,
         \/ RejectSpecial \/ RejectRules
         \/ \E k \in todo : RejectConsonant(k) \/ RejectMultiKey(k) \/ RejectVowel(k)
  PROVE  pc' \in Errors /\ ~ Accepts(file) /\ file' = file
<1>1. pc' \in Errors /\ file' = file
  BY DEF RejectSpecial, RejectRules, RejectConsonant, RejectMultiKey, RejectVowel, Raise, Errors
<1>2. CASE RejectSpecial \/ RejectRules
  BY <1>1, <1>2 DEF RejectSpecial, RejectRules, Accepts, AcceptsSpecial
<1>3. ASSUME NEW k \in todo, RejectConsonant(k)
      PROVE  ~ Accepts(file)
  BY <1>3 DEF RejectConsonant, Member, KeysAreSequences, Accepts, AcceptsConsonants
<1>4. ASSUME NEW k \in todo, RejectMultiKey(k)
      PROVE  ~ Accepts(file)
  BY <1>4 DEF RejectMultiKey, Member, KeysAreSequences, Accepts, AcceptsMultiKeys
<1>5. ASSUME NEW k \in todo, RejectVowel(k)
      PROVE  ~ Accepts(file)
  <2>1. CanOrd([kind |-> "null", text |-> <<>>])
    BY DEF CanOrd, Truthy
  <2>2. \/ k \in DOMAIN file.vowels_standalone /\ ~ CanOrd(file.vowels_standalone[k])
        \/ k \in DOMAIN file.vowel_signs /\ ~ CanOrd(file.vowel_signs[k])
    BY <1>5, <2>1 DEF RejectVowel, Of
  <2> QED BY <2>2 DEF Accepts, AcceptsVowels
<1> QED BY <1>1, <1>2, <1>3, <1>4, <1>5

LEMMA NextKeepsAcceptance ==
  ASSUME KeysAreSequences, Acceptance, [Next]_vars
  PROVE  Acceptance'
<1>1. CASE UNCHANGED vars
  BY <1>1 DEF vars, Acceptance, ReadIsAccepted, Errors
<1>2. CASE \/ RejectSpecial \/ RejectRules
           \/ \E k \in todo : RejectConsonant(k) \/ RejectMultiKey(k) \/ RejectVowel(k)
  <2>1. pc' \in Errors /\ ~ Accepts(file) /\ file' = file
    BY <1>2, RejectedIsNotAccepted
  <2> QED BY <2>1 DEF Acceptance, Errors
<1>3. CASE EndConsonants \/ EndMultiKeys \/ EndVowels \/ ReadSpecial \/ ReadRules \/ DerivePrefixes
  <2>1. pc \notin Errors /\ pc' \notin Errors
    BY <1>3 DEF EndConsonants, EndMultiKeys, EndVowels, ReadSpecial, ReadRules, DerivePrefixes,
                Goto, Errors
  <2>2. ReadIsAccepted'
    BY <1>3, <2>1, EndKeepsAcceptance DEF Acceptance
  <2> QED BY <2>1, <2>2 DEF Acceptance, Errors
<1>4. CASE \E k \in todo : ReadConsonant(k) \/ ReadMultiKey(k) \/ ReadVowel(k)
  <2>1. pc \notin Errors /\ pc' = pc
    BY <1>4 DEF ReadConsonant, ReadMultiKey, ReadVowel, Member, Read, Errors
  <2>2. ReadIsAccepted'
    BY <1>4, <2>1, ReadKeepsAcceptance DEF Acceptance
  <2> QED BY <2>1, <2>2 DEF Acceptance, Errors
<1> QED BY <1>1, <1>2, <1>3, <1>4 DEF Next

\* What is accepted of the portable files is what is plain.
LEMMA PortableAccepted ==
  ASSUME NEW f \in Files, Portable(f)
  PROVE  Accepts(f) <=> Plain(f)
<1>1. ASSUME NEW v \in MaybeJson, ~ IsOddString(v)
      PROVE  CanOrd(v) /\ v.kind # "falsy" <=> IsLetter(v) \/ IsNothing(v)
  BY <1>1, ValueKinds DEF CanOrd, Truthy, IsLetter, IsNothing, IsOddString
<1>2. /\ ~ HasOddString(f) /\ ~ HasFalsy(f) /\ ~ HasBareEntry(f) /\ ~ HasUpperKey(f)
      /\ ~ LacksSign(f) /\ IsFlag(f.unmapped_passthrough)
  BY DEF Portable
<1>3. /\ \A k \in DOMAIN f.consonants : f.consonants[k].is_object
      /\ \A k \in DOMAIN f.consonants : Len(k) = 1 => k[1] \notin Upper
      /\ \A s \in SpecialName : f.special[s].kind # "absent"
  BY <1>2 DEF HasBareEntry, HasUpperKey, LacksSign
<1>4. \A k \in DOMAIN f.consonants : \A v \in {f.consonants[k].base, f.consonants[k].shift} :
        CanOrd(v) <=> IsLetter(v) \/ IsNothing(v)
  BY <1>1, <1>2, ValueTypes, NoOddStrings, NoFalsyValues
<1>5. /\ \A k \in DOMAIN f.vowels_standalone :
           LET v == f.vowels_standalone[k] IN CanOrd(v) <=> IsLetter(v) \/ IsNothing(v)
      /\ \A k \in DOMAIN f.vowel_signs :
           LET v == f.vowel_signs[k] IN CanOrd(v) <=> IsLetter(v) \/ IsNothing(v)
  BY <1>1, <1>2, ValueTypes, NoOddStrings, NoFalsyValues
<1>6. \A s \in SpecialName : IsLetter(f.special[s]) => f.special[s].kind # "absent"
  BY DEF IsLetter
<1> QED BY <1>2, <1>3, <1>4, <1>5, <1>6
        DEF Accepts, AcceptsConsonants, AcceptsMultiKeys, AcceptsVowels, AcceptsSpecial, Plain

-----------------------------------------------------------------------------
(* Theorems *)

LEMMA FileStays == [Next]_vars => file' = file
BY DEF Next, vars, EndConsonants, EndMultiKeys, EndVowels, ReadSpecial, ReadRules,
       DerivePrefixes, RejectSpecial, RejectRules, ReadConsonant, RejectConsonant,
       ReadMultiKey, RejectMultiKey, ReadVowel, RejectVowel, Goto, Read, Raise

LEMMA NextKeepsProgress ==
  ASSUME KeysAreSequences, Plain(file), Progress, [Next]_vars
  PROVE  Progress'
<1>1. CASE UNCHANGED vars
  BY <1>1 DEF vars, Progress, InConsonants, InMultiKeys, InVowels, InSpecial, InRules,
              AllRead, AllConsonants, AllVowels, RulesUnread
<1>2. CASE EndConsonants \/ EndMultiKeys \/ EndVowels
  BY <1>2, EndSectionHolds
<1>3. CASE ReadSpecial \/ ReadRules
  BY <1>3, ReadSpecialHolds, ReadRulesHolds
<1>4. CASE DerivePrefixes
  <2>1. AllRead
    BY <1>4 DEF DerivePrefixes, Progress, InConsonants, InMultiKeys, InVowels, InSpecial, InRules
  <2> QED BY <1>4, <2>1 DEF DerivePrefixes, AllRead, Progress
<1>5. CASE \E k \in todo : ReadConsonant(k) \/ ReadMultiKey(k) \/ ReadVowel(k)
  BY <1>5, ReadConsonantHolds, ReadMultiKeyHolds, ReadVowelHolds
<1> QED BY <1>1, <1>2, <1>3, <1>4, <1>5, PlainIsAccepted DEF Next

LEMMA NextHolds ==
  ASSUME LoaderInv, [Next]_vars
  PROVE  LoaderInv'
BY FileStays, NextKeepsKeys, NextKeepsProgress, NextKeepsAcceptance DEF LoaderInv

\* How a file ends.
Outcome ==
  /\ file \in Files
  /\ pc \in Errors => ~ Accepts(file)
  /\ pc = "loaded" => Accepts(file)
  /\ Plain(file) /\ pc = "loaded" =>
       Means(file, m) /\ IsKeymap /\ IsTrie(m.consonants) /\ IsTrie(m.vowels)

LEMMA InvariantOutcome == LoaderInv => Outcome
<1> SUFFICES ASSUME LoaderInv PROVE Outcome
  OBVIOUS
<1>1. (pc \in Errors => ~ Accepts(file)) /\ (pc = "loaded" => Accepts(file))
  BY DEF LoaderInv, Acceptance, Errors, ReadIsAccepted, Accepts
<1>2. Plain(file) /\ pc = "loaded" => Means(file, m)
  BY DEF LoaderInv, Progress, InConsonants, InMultiKeys, InVowels, InSpecial, InRules, AllRead
<1> QED BY <1>1, <1>2 DEF Outcome, LoaderInv, KeysAreSequences

LEMMA OutcomeHolds == Spec => []Outcome
BY InitHolds, NextHolds, InvariantOutcome, PTL DEF Spec

\* Under every set of files, whatever the number and the length of their keys: a plain
\* file is loaded as what it writes down, and every other portable file is refused.
THEOREM PyLoadsWhatIsWritten == Spec => []LoadsWhatIsWritten
<1>1. Outcome => LoadsWhatIsWritten
  BY PlainIsPortable, PortableAccepted DEF Outcome, LoadsWhatIsWritten
<1> QED BY <1>1, OutcomeHolds, PTL
=============================================================================
