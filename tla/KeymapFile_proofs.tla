------------------------- MODULE KeymapFile_proofs -------------------------
(***************************************************************************)
(* What reading one more member does to a trie that holds those read so    *)
(* far: the lemmas that the proofs of both loaders share.                  *)
(***************************************************************************)
EXTENDS KeymapFile, TLAPS

-----------------------------------------------------------------------------
(* Keys *)

LEMMA KeyOfIsInjective ==
  ASSUME NEW c \in Char, NEW d \in Char, KeyOf(c) = KeyOf(d)
  PROVE  c = d
<1>1. \A a, b \in Upper : lower[a] = lower[b] => a = b
  BY FileTypes DEF Injection, IsInjective, Upper
<1>2. CASE c \in Upper /\ d \in Upper
  BY <1>1, <1>2 DEF KeyOf, shift_key
<1>3. CASE ~ (c \in Upper /\ d \in Upper)
  BY <1>3 DEF KeyOf, shift_key, Raw
<1> QED BY <1>2, <1>3

\* No two members of a section of vowels get the same place in the trie.
LEMMA VowelSeqIsInjective ==
  ASSUME NEW s \in Seq(Char), NEW t \in Seq(Char), vowel_key_to_seq(s) = vowel_key_to_seq(t)
  PROVE  s = t
<1>1. DOMAIN vowel_key_to_seq(s) = 1..Len(s) /\ DOMAIN vowel_key_to_seq(t) = 1..Len(t)
  BY DEF vowel_key_to_seq
<1>2. Len(s) = Len(t)
  BY <1>1
<1>3. \A i \in 1..Len(s) : s[i] = t[i]
  BY <1>2, KeyOfIsInjective DEF vowel_key_to_seq
<1> QED BY <1>2, <1>3

LEMMA MultiSeqIsInjective ==
  ASSUME NEW s \in Seq(Char), NEW t \in Seq(Char), multi_key_to_seq(s) = multi_key_to_seq(t)
  PROVE  s = t
<1>1. DOMAIN multi_key_to_seq(s) = 1..Len(s) /\ DOMAIN multi_key_to_seq(t) = 1..Len(t)
  BY DEF multi_key_to_seq
<1>2. Len(s) = Len(t)
  BY <1>1
<1>3. \A i \in 1..Len(s) : s[i] = t[i]
  <2> SUFFICES ASSUME NEW i \in 1..Len(s)
               PROVE  s[i] = t[i]
    OBVIOUS
  <2>1. s[i] \in Char /\ t[i] \in Char
    BY <1>2
  <2>2. /\ multi_key_to_seq(s)[i] = IF i = 1 THEN KeyOf(s[i]) ELSE Raw(s[i])
        /\ multi_key_to_seq(t)[i] = IF i = 1 THEN KeyOf(t[i]) ELSE Raw(t[i])
    BY <1>2 DEF multi_key_to_seq
  <2>3. CASE i = 1
    BY <2>1, <2>2, <2>3, KeyOfIsInjective
  <2>4. CASE i # 1
    BY <2>2, <2>4 DEF Raw
  <2> QED BY <2>3, <2>4
<1> QED BY <1>2, <1>3

LEMMA KeyTypes ==
  /\ \A c \in Char : Raw(c) \in Key /\ shift_key(c) \in Key /\ KeyOf(c) \in Key
  /\ \A c \in Upper : lower[c] \in Char \ Upper
<1>1. \A c \in Upper : lower[c] \in Char \ Upper
  BY FileTypes DEF Injection, Upper
<1> QED BY <1>1 DEF Raw, shift_key, KeyOf, Key

LEMMA SeqTypes ==
  ASSUME NEW s \in Seq(Char)
  PROVE  multi_key_to_seq(s) \in Seq(Key) /\ vowel_key_to_seq(s) \in Seq(Key)
<1>1. \A i \in 1..Len(s) : s[i] \in Char
  OBVIOUS
<1>2. /\ Len(s) \in Nat
      /\ \A i \in 1..Len(s) : (IF i = 1 THEN KeyOf(s[i]) ELSE Raw(s[i])) \in Key /\ KeyOf(s[i]) \in Key
  BY <1>1, KeyTypes
<1> QED BY <1>2 DEF multi_key_to_seq, vowel_key_to_seq

-----------------------------------------------------------------------------
(* Tries *)

LEMMA PutProperties ==
  ASSUME NEW trie, NEW seq, NEW payload
  PROVE  /\ DOMAIN Put(trie, seq, payload) = DOMAIN trie \cup {seq}
         /\ Put(trie, seq, payload)[seq] = payload
         /\ \A s \in DOMAIN trie : s # seq => Put(trie, seq, payload)[s] = trie[s]
BY DEF Put

LEMMA FileShape ==
  ASSUME NEW f \in Files
  PROVE  IsFile(f)
BY FileTypes

\* A letter of a plain file is there or it is not.
LEMMA PlainConsonant ==
  ASSUME NEW f \in Files, Plain(f), NEW k \in DOMAIN f.consonants
  PROVE  /\ Len(k) = 1 /\ k = <<k[1]>> /\ k[1] \in Char \ Upper /\ f.consonants[k].is_object
         /\ IsLetter(f.consonants[k].base) \/ IsNothing(f.consonants[k].base)
         /\ IsLetter(f.consonants[k].shift) \/ IsNothing(f.consonants[k].shift)
<1>1. k \in Seq(Char)
  BY FileShape DEF IsFile
<1>2. Len(k) = 1 /\ k[1] \notin Upper /\ f.consonants[k].is_object
  BY DEF Plain
<1>3. \A v \in {f.consonants[k].base, f.consonants[k].shift} : IsLetter(v) \/ IsNothing(v)
  BY DEF Plain
<1>4. k = <<k[1]>> /\ k[1] \in Char
  BY <1>1, <1>2
<1> QED BY <1>2, <1>3, <1>4

LEMMA NoMultiSeqs == MultiSeqs({}) = {}
BY DEF MultiSeqs

\* Reading the two forms of a single-key consonant, where they are letters.
LEMMA HoldsOneMoreConsonant ==
  ASSUME NEW f \in Files, Plain(f), NEW k \in DOMAIN f.consonants,
         NEW S \in SUBSET DOMAIN f.consonants, NEW trie, NEW trie2,
         HoldsConsonants(f, trie, S, {}),
         NEW news, news = (IF k \in Singles(f) THEN {<<Raw(k[1])>>} ELSE {}) \cup
                          (IF k \in Shifteds(f) THEN {<<shift_key(k[1])>>} ELSE {}),
         DOMAIN trie2 = DOMAIN trie \cup news,
         k \in Singles(f) => trie2[<<Raw(k[1])>>] = LetterOf(f.consonants[k].base),
         k \in Shifteds(f) => trie2[<<shift_key(k[1])>>] = LetterOf(f.consonants[k].shift),
         \A s \in DOMAIN trie \ news : trie2[s] = trie[s]
  PROVE  HoldsConsonants(f, trie2, S \cup {k}, {})
<1>1. \A j \in DOMAIN f.consonants : j # k => <<Raw(j[1])>> \notin news /\ <<shift_key(j[1])>> \notin news
  <2> SUFFICES ASSUME NEW j \in DOMAIN f.consonants, j # k
               PROVE  <<Raw(j[1])>> \notin news /\ <<shift_key(j[1])>> \notin news
    OBVIOUS
  <2>1. j[1] # k[1]
    BY PlainConsonant
  <2>2. /\ <<Raw(j[1])>> # <<Raw(k[1])>> /\ <<Raw(j[1])>> # <<shift_key(k[1])>>
        /\ <<shift_key(j[1])>> # <<Raw(k[1])>> /\ <<shift_key(j[1])>> # <<shift_key(k[1])>>
    BY <2>1 DEF Raw, shift_key
  <2> QED BY <2>2
<1>2. DOMAIN trie = {<<Raw(j[1])>> : j \in Singles(f) \cap S} \cup
                    {<<shift_key(j[1])>> : j \in Shifteds(f) \cap S}
  BY NoMultiSeqs DEF HoldsConsonants
<1>3. DOMAIN trie2 = {<<Raw(j[1])>> : j \in Singles(f) \cap (S \cup {k})} \cup
                     {<<shift_key(j[1])>> : j \in Shifteds(f) \cap (S \cup {k})}
  BY <1>2
<1>4. \A j \in Singles(f) \cap (S \cup {k}) : trie2[<<Raw(j[1])>>] = LetterOf(f.consonants[j].base)
  BY <1>1, <1>2, NoMultiSeqs DEF HoldsConsonants, Singles
<1>5. \A j \in Shifteds(f) \cap (S \cup {k}) : trie2[<<shift_key(j[1])>>] = LetterOf(f.consonants[j].shift)
  BY <1>1, <1>2, NoMultiSeqs DEF HoldsConsonants, Shifteds
<1> QED BY <1>3, <1>4, <1>5, NoMultiSeqs DEF HoldsConsonants

\* Reading a member of the second section, which may overwrite one of the first.
LEMMA HoldsOneMoreMultiKey ==
  ASSUME NEW f \in Files, NEW k \in DOMAIN f.multi_key_consonants,
         NEW S \in SUBSET DOMAIN f.consonants, NEW M \in SUBSET DOMAIN f.multi_key_consonants,
         NEW trie, HoldsConsonants(f, trie, S, M)
  PROVE  HoldsConsonants(f, Put(trie, multi_key_to_seq(k), LetterOf(f.multi_key_consonants[k])),
                         S, M \cup {k})
<1> DEFINE trie2 == Put(trie, multi_key_to_seq(k), LetterOf(f.multi_key_consonants[k]))
<1>1. \A j \in DOMAIN f.multi_key_consonants : j \in Seq(Char)
  BY FileShape DEF IsFile
<1>2. \A j \in DOMAIN f.multi_key_consonants : j # k => multi_key_to_seq(j) # multi_key_to_seq(k)
  BY <1>1, MultiSeqIsInjective
<1>3. /\ DOMAIN trie2 = DOMAIN trie \cup {multi_key_to_seq(k)}
      /\ trie2[multi_key_to_seq(k)] = LetterOf(f.multi_key_consonants[k])
      /\ \A s \in DOMAIN trie : s # multi_key_to_seq(k) => trie2[s] = trie[s]
  BY DEF Put
<1>4. MultiSeqs(M \cup {k}) = MultiSeqs(M) \cup {multi_key_to_seq(k)}
  BY DEF MultiSeqs
<1> HIDE DEF trie2
<1>5. DOMAIN trie = {<<Raw(j[1])>> : j \in Singles(f) \cap S} \cup
                    {<<shift_key(j[1])>> : j \in Shifteds(f) \cap S} \cup MultiSeqs(M)
  BY DEF HoldsConsonants
<1>6. DOMAIN trie2 = {<<Raw(j[1])>> : j \in Singles(f) \cap S} \cup
                     {<<shift_key(j[1])>> : j \in Shifteds(f) \cap S} \cup MultiSeqs(M \cup {k})
  BY <1>3, <1>4, <1>5
<1>7. \A j \in Singles(f) \cap S :
        <<Raw(j[1])>> \notin MultiSeqs(M \cup {k}) =>
          trie2[<<Raw(j[1])>>] = LetterOf(f.consonants[j].base)
  BY <1>3, <1>4, <1>5 DEF HoldsConsonants
<1>8. \A j \in Shifteds(f) \cap S :
        <<shift_key(j[1])>> \notin MultiSeqs(M \cup {k}) =>
          trie2[<<shift_key(j[1])>>] = LetterOf(f.consonants[j].shift)
  BY <1>3, <1>4, <1>5 DEF HoldsConsonants
<1>9. \A j \in M \cup {k} : trie2[multi_key_to_seq(j)] = LetterOf(f.multi_key_consonants[j])
  <2>1. \A j \in M : multi_key_to_seq(j) \in DOMAIN trie
    BY <1>5 DEF MultiSeqs
  <2> QED BY <1>2, <1>3, <2>1 DEF HoldsConsonants
<1> QED BY <1>6, <1>7, <1>8, <1>9 DEF HoldsConsonants, trie2

\* Storing a vowel whose halves are those of what is now read.
LEMMA HoldsOneMoreVowel ==
  ASSUME NEW f \in Files, NEW k \in VowelKeys(f),
         NEW V \in SUBSET DOMAIN f.vowels_standalone, NEW G \in SUBSET DOMAIN f.vowel_signs,
         NEW V2 \in SUBSET DOMAIN f.vowels_standalone, NEW G2 \in SUBSET DOMAIN f.vowel_signs,
         V2 \cup G2 = V \cup G \cup {k}, V2 \ {k} = V \ {k}, G2 \ {k} = G \ {k},
         NEW trie, HoldsVowels(f, trie, V, G), NEW entry,
         entry = [standalone |-> Half(f.vowels_standalone, V2, k),
                  matra |-> Half(f.vowel_signs, G2, k)]
  PROVE  HoldsVowels(f, Put(trie, vowel_key_to_seq(k), entry), V2, G2)
<1> DEFINE trie2 == Put(trie, vowel_key_to_seq(k), entry)
<1>1. \A j \in V2 \cup G2 : j # k => vowel_key_to_seq(j) # vowel_key_to_seq(k)
  BY FileShape, VowelSeqIsInjective DEF IsFile, VowelKeys
<1>2. /\ DOMAIN trie2 = DOMAIN trie \cup {vowel_key_to_seq(k)}
      /\ trie2[vowel_key_to_seq(k)] = entry
      /\ \A s \in DOMAIN trie : s # vowel_key_to_seq(k) => trie2[s] = trie[s]
  BY DEF Put
<1> HIDE DEF trie2
<1>3. DOMAIN trie = {vowel_key_to_seq(j) : j \in V \cup G}
  BY DEF HoldsVowels
<1>4. DOMAIN trie2 = {vowel_key_to_seq(j) : j \in V2 \cup G2}
  BY <1>2, <1>3
<1>5. ASSUME NEW j \in V2 \cup G2, j # k
      PROVE  trie2[vowel_key_to_seq(j)] =
               [standalone |-> Half(f.vowels_standalone, V2, j), matra |-> Half(f.vowel_signs, G2, j)]
  <2>1. j \in V \cup G /\ (j \in V <=> j \in V2) /\ (j \in G <=> j \in G2)
    BY <1>5
  <2>2. trie2[vowel_key_to_seq(j)] = trie[vowel_key_to_seq(j)]
    BY <1>1, <1>2, <1>3, <1>5, <2>1
  <2>3. trie[vowel_key_to_seq(j)] =
          [standalone |-> Half(f.vowels_standalone, V, j), matra |-> Half(f.vowel_signs, G, j)]
    BY <2>1 DEF HoldsVowels
  <2> QED BY <2>1, <2>2, <2>3 DEF Half
<1> QED BY <1>2, <1>4, <1>5 DEF HoldsVowels, trie2

-----------------------------------------------------------------------------
(* Keymaps *)

IsTrie(trie) == trie = [seq \in DOMAIN trie |-> trie[seq]]

LEMMA PutIsTrie ==
  ASSUME NEW trie, NEW seq, NEW payload
  PROVE  IsTrie(Put(trie, seq, payload))
BY DEF IsTrie, Put

\* Every consonant held has been read, and has the letter of the member it was read from.
LEMMA HeldConsonants ==
  ASSUME NEW f, NEW trie, NEW S, NEW M, HoldsConsonants(f, trie, S, M), NEW seq \in DOMAIN trie
  PROVE  \/ \E k \in M :
              seq = multi_key_to_seq(k) /\ trie[seq] = LetterOf(f.multi_key_consonants[k])
         \/ /\ seq \notin MultiSeqs(M)
            /\ \E k \in Singles(f) \cap S :
                 seq = <<Raw(k[1])>> /\ trie[seq] = LetterOf(f.consonants[k].base)
         \/ /\ seq \notin MultiSeqs(M)
            /\ \E k \in Shifteds(f) \cap S :
                 seq = <<shift_key(k[1])>> /\ trie[seq] = LetterOf(f.consonants[k].shift)
<1>1. CASE seq \in MultiSeqs(M)
  BY <1>1 DEF HoldsConsonants, MultiSeqs
<1>2. CASE seq \notin MultiSeqs(M)
  BY <1>2 DEF HoldsConsonants
<1> QED BY <1>1, <1>2

\* A plain file determines what it writes down.
LEMMA ConsonantsAreDetermined ==
  ASSUME NEW f, NEW S, NEW M, NEW t, NEW u, IsTrie(t), IsTrie(u),
         HoldsConsonants(f, t, S, M), HoldsConsonants(f, u, S, M)
  PROVE  t = u
<1>1. DOMAIN t = DOMAIN u
  BY DEF HoldsConsonants
<1>2. ASSUME NEW seq \in DOMAIN t
      PROVE  t[seq] = u[seq]
  <2>1. CASE \E k \in M : seq = multi_key_to_seq(k)
    BY <2>1 DEF HoldsConsonants
  <2>2. CASE seq \notin MultiSeqs(M)
    BY <1>2, <2>2, HeldConsonants DEF HoldsConsonants
  <2> QED BY <2>1, <2>2 DEF MultiSeqs
<1> QED BY <1>1, <1>2 DEF IsTrie

LEMMA VowelsAreDetermined ==
  ASSUME NEW f, NEW V, NEW G, NEW t, NEW u, IsTrie(t), IsTrie(u),
         HoldsVowels(f, t, V, G), HoldsVowels(f, u, V, G)
  PROVE  t = u
<1>1. DOMAIN t = DOMAIN u
  BY DEF HoldsVowels
<1>2. \A seq \in DOMAIN t : t[seq] = u[seq]
  BY DEF HoldsVowels
<1> QED BY <1>1, <1>2 DEF IsTrie

LEMMA MeaningIsUnique ==
  ASSUME NEW f, NEW x, NEW y, Means(f, x), Means(f, y),
         x = Keymaps(x.consonants, x.vowels, x.special, x.rules, x.unmapped_passthrough),
         y = Keymaps(y.consonants, y.vowels, y.special, y.rules, y.unmapped_passthrough),
         IsTrie(x.consonants), IsTrie(y.consonants), IsTrie(x.vowels), IsTrie(y.vowels)
  PROVE  x = y
<1>1. x.consonants = y.consonants
  BY ConsonantsAreDetermined DEF Means
<1>2. x.vowels = y.vowels
  BY VowelsAreDetermined DEF Means
<1>3. /\ x.special = y.special /\ x.rules = y.rules
      /\ x.unmapped_passthrough = y.unmapped_passthrough
  BY DEF Means
<1> QED BY <1>1, <1>2, <1>3

\* No key of it is an upper-case letter, unless the file asks for that letter where no
\* Shift is looked for, or leaves a rule key to its default.
LEMMA MeaningIsTypeable ==
  ASSUME NEW f \in Files, Plain(f), NEW x, Means(f, x),
         \A r \in RuleName : f.rules[r] # <<>>,
         \A k \in DOMAIN f.multi_key_consonants : \A i \in 2..Len(k) : k[i] \notin Upper
  PROVE  AllTypeable(x)
<1>1. \A c \in Char : Typeable(KeyOf(c)) /\ (c \notin Upper => Typeable(Raw(c)) /\ Typeable(shift_key(c)))
  BY KeyTypes DEF Typeable, KeyOf, Raw, shift_key
<1>2. ASSUME NEW seq \in DOMAIN x.consonants, NEW i \in DOMAIN seq
      PROVE  Typeable(seq[i])
  <2>1. HoldsConsonants(f, x.consonants, DOMAIN f.consonants, DOMAIN f.multi_key_consonants)
    BY DEF Means
  <2>2. CASE \E k \in DOMAIN f.multi_key_consonants : seq = multi_key_to_seq(k)
    <3>1. PICK k \in DOMAIN f.multi_key_consonants : seq = multi_key_to_seq(k)
      BY <2>2
    <3>2. k \in Seq(Char) /\ i \in 1..Len(k) /\ seq[i] = IF i = 1 THEN KeyOf(k[i]) ELSE Raw(k[i])
      BY <3>1, FileShape DEF IsFile, multi_key_to_seq
    <3>3. k[i] \in Char /\ (i # 1 => k[i] \notin Upper)
      BY <3>2
    <3> QED BY <1>1, <3>2, <3>3
  <2>3. CASE \E k \in DOMAIN f.consonants : seq \in {<<Raw(k[1])>>, <<shift_key(k[1])>>}
    <3>1. PICK k \in DOMAIN f.consonants : seq \in {<<Raw(k[1])>>, <<shift_key(k[1])>>}
      BY <2>3
    <3>2. seq[i] \in {Raw(k[1]), shift_key(k[1])}
      BY <3>1
    <3> QED BY <1>1, <3>2, PlainConsonant
  <2> QED BY <2>1, <2>2, <2>3, HeldConsonants DEF Singles, Shifteds
<1>3. ASSUME NEW seq \in DOMAIN x.vowels, NEW i \in DOMAIN seq
      PROVE  Typeable(seq[i])
  <2>1. PICK k \in VowelKeys(f) : seq = vowel_key_to_seq(k)
    BY DEF Means, HoldsVowels, VowelKeys
  <2>2. k \in Seq(Char) /\ i \in 1..Len(k) /\ seq[i] = KeyOf(k[i])
    BY <2>1, FileShape DEF IsFile, VowelKeys, vowel_key_to_seq
  <2>3. k[i] \in Char
    BY <2>2
  <2> QED BY <1>1, <2>2, <2>3
<1>4. ASSUME NEW r \in RuleName
      PROVE  Typeable(x.rules[r])
  <2>1. f.rules[r] \in Seq(Seq(Char)) /\ f.rules[r] # <<>> /\ Len(f.rules[r][1]) = 1
    BY FileShape DEF IsFile, Plain, RuleTooLong
  <2>2. f.rules[r][1] \in Seq(Char)
    BY <2>1
  <2>3. f.rules[r][1][1] \in Char /\ x.rules[r] = KeyOf(f.rules[r][1][1])
    BY <2>1, <2>2 DEF Means
  <2> QED BY <1>1, <2>3
<1> QED BY <1>2, <1>3, <1>4 DEF AllTypeable

-----------------------------------------------------------------------------
(* Where the programs part *)

LEMMA ValueTypes ==
  ASSUME NEW f \in Files
  PROVE  /\ \A k \in DOMAIN f.consonants :
              f.consonants[k].base \in MaybeJson /\ f.consonants[k].shift \in MaybeJson
         /\ \A k \in DOMAIN f.multi_key_consonants : f.multi_key_consonants[k] \in MaybeJson
         /\ \A k \in DOMAIN f.vowels_standalone : f.vowels_standalone[k] \in MaybeJson
         /\ \A k \in DOMAIN f.vowel_signs : f.vowel_signs[k] \in MaybeJson
         /\ DOMAIN f.special = SpecialName /\ \A s \in SpecialName : f.special[s] \in MaybeJson
<1>1. IsFile(f) /\ Json \subseteq MaybeJson
  BY FileShape DEF Json, MaybeJson
<1>2. \A e \in Entries : e.base \in MaybeJson /\ e.shift \in MaybeJson
  BY DEF Entries
<1> QED BY <1>1, <1>2 DEF IsFile

\* A value is one of these.
LEMMA ValueKinds ==
  ASSUME NEW v \in MaybeJson
  PROVE  IsLetter(v) \/ IsNothing(v) \/ IsOddString(v) \/ v.kind \in {"falsy", "truthy"}
BY DEF MaybeJson, IsLetter, IsNothing, IsOddString

\* What it means that a cause is not there, member by member.
LEMMA NoOddStrings ==
  ASSUME NEW f \in Files, ~ HasOddString(f)
  PROVE  /\ \A k \in DOMAIN f.consonants :
              ~ IsOddString(f.consonants[k].base) /\ ~ IsOddString(f.consonants[k].shift)
         /\ \A k \in DOMAIN f.multi_key_consonants : ~ IsOddString(f.multi_key_consonants[k])
         /\ \A k \in DOMAIN f.vowels_standalone : ~ IsOddString(f.vowels_standalone[k])
         /\ \A k \in DOMAIN f.vowel_signs : ~ IsOddString(f.vowel_signs[k])
         /\ \A s \in SpecialName : ~ IsOddString(f.special[s])
BY ValueTypes DEF HasOddString, Values, OptionalValues, ConsonantValues, Range

LEMMA NoFalsyValues ==
  ASSUME NEW f \in Files, ~ HasFalsy(f)
  PROVE  /\ \A k \in DOMAIN f.consonants :
              f.consonants[k].base.kind # "falsy" /\ f.consonants[k].shift.kind # "falsy"
         /\ \A k \in DOMAIN f.vowels_standalone : f.vowels_standalone[k].kind # "falsy"
         /\ \A k \in DOMAIN f.vowel_signs : f.vowel_signs[k].kind # "falsy"
BY DEF HasFalsy, OptionalValues, ConsonantValues, Range

LEMMA NoBlanks ==
  ASSUME NEW f \in Files, ~ HasBlank(f)
  PROVE  /\ \A k \in DOMAIN f.consonants :
              ~ IsBlank(f.consonants[k].base) /\ ~ IsBlank(f.consonants[k].shift)
         /\ \A k \in DOMAIN f.multi_key_consonants : ~ IsBlank(f.multi_key_consonants[k])
         /\ \A s \in SpecialName : ~ IsBlank(f.special[s])
BY ValueTypes DEF HasBlank, ConsonantValues, Range

LEMMA PlainIsPortable ==
  ASSUME NEW f \in Files, Plain(f)
  PROVE  Portable(f)
<1>1. \A v : IsLetter(v) \/ IsNothing(v) => ~ IsOddString(v) /\ v.kind # "falsy"
  BY DEF IsLetter, IsNothing, IsOddString
<1>2. \A v \in ConsonantValues(f) : IsLetter(v) \/ IsNothing(v)
  BY DEF Plain, ConsonantValues
<1>3. \A v \in OptionalValues(f) : IsLetter(v) \/ IsNothing(v)
  BY <1>2 DEF Plain, OptionalValues, Range
<1>4. \A v \in Values(f) : IsLetter(v) \/ IsNothing(v)
  BY <1>3, ValueTypes DEF Plain, Values, Range
<1>5. ~ HasOddString(f) /\ ~ HasFalsy(f)
  BY <1>1, <1>3, <1>4 DEF HasOddString, HasFalsy
<1>6. ~ HasBareEntry(f) /\ ~ HasUpperKey(f) /\ ~ LacksSign(f)
  BY DEF Plain, HasBareEntry, HasUpperKey, LacksSign, IsLetter
<1> QED BY <1>5, <1>6 DEF Portable, Plain
=============================================================================
