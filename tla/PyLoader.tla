------------------------------ MODULE PyLoader ------------------------------
(***************************************************************************)
(* Mapping.from_json_string of prototype/transliterate.py.  A step reads   *)
(* one member of an object.  The order of the members is that of the file, *)
(* and for the vowels that of a set: any order.  What an if takes for      *)
(* false counts as no letter where the code tests it, and ord() of         *)
(* anything but one character raises a TypeError.                          *)
(***************************************************************************)
EXTENDS KeymapFile

VARIABLES
  file,     \* data
  pc,       \* the part being read; "loaded"; or the exception raised
  todo,     \* the members still to come
  m,        \* the local variable m
  prefixes  \* its consonant_prefixes and vowel_prefixes

vars == <<file, pc, todo, m, prefixes>>

Errors == {"ValueError", "TypeError", "AttributeError"}

NoPrefixes == [consonants |-> {}, vowels |-> {}]

Init ==
  /\ file \in Files
  /\ pc = "consonants" /\ todo = DOMAIN file.consonants
  /\ m = Empty(DefaultSpecial) /\ prefixes = NoPrefixes

Member(part, k) == pc = part /\ k \in todo
Read(k) == todo' = todo \ {k} /\ UNCHANGED <<file, pc, prefixes>>
Goto(part, members) == pc' = part /\ todo' = members /\ UNCHANGED <<file, prefixes>>
Raise(error) == pc' = error /\ UNCHANGED <<file, todo, m, prefixes>>

-----------------------------------------------------------------------------
Truthy(v) == v.kind = "truthy" \/ (v.kind = "string" /\ v.text # <<>>)

\* "if base: ... ord(base)" raises nothing.
CanOrd(v) == Truthy(v) => IsLetter(v)

assigned(table, keys, v) ==
  IF Truthy(v) THEN [s \in DOMAIN table \cup keys |-> IF s \in keys THEN v.text[1] ELSE table[s]]
  ELSE table

\* The Shift form is stored under the lower-case letter and under the key as written.
ShiftKeys(c) == {<<shift_key(IF c \in Upper THEN lower[c] ELSE c)>>, <<shift_key(c)>>}

ReadConsonant(k) ==
  /\ Member("consonants", k)
  /\ Len(k) = 1 /\ file.consonants[k].is_object
  /\ CanOrd(file.consonants[k].base) /\ CanOrd(file.consonants[k].shift)
  /\ m' = [m EXCEPT !.consonants =
       assigned(assigned(@, {<<Raw(k[1])>>}, file.consonants[k].base),
                ShiftKeys(k[1]), file.consonants[k].shift)]
  /\ Read(k)

RejectConsonant(k) ==
  /\ Member("consonants", k)
  /\ \/ Len(k) # 1 /\ Raise("ValueError")
     \/ Len(k) = 1 /\ ~ file.consonants[k].is_object /\ Raise("AttributeError")
     \/ /\ Len(k) = 1 /\ file.consonants[k].is_object
        /\ ~ CanOrd(file.consonants[k].base) \/ ~ CanOrd(file.consonants[k].shift)
        /\ Raise("TypeError")

EndConsonants ==
  /\ pc = "consonants" /\ todo = {}
  /\ Goto("multi_key_consonants", DOMAIN file.multi_key_consonants) /\ UNCHANGED m

ReadMultiKey(k) ==
  /\ Member("multi_key_consonants", k)
  /\ LET v == file.multi_key_consonants[k] IN
       /\ IsLetter(v)
       /\ m' = [m EXCEPT !.consonants = Put(@, multi_key_to_seq(k), v.text[1])]
  /\ Read(k)

RejectMultiKey(k) ==
  /\ Member("multi_key_consonants", k)
  /\ ~ IsLetter(file.multi_key_consonants[k])
  /\ Raise("TypeError")

EndMultiKeys_Signs ==
  /\ pc = "multi_key_consonants" /\ todo = {}
  /\ Goto("vowels", DOMAIN file.vowel_signs) /\ UNCHANGED m

EndMultiKeys ==
  /\ pc = "multi_key_consonants" /\ todo = {}
  /\ Goto("vowels", VowelKeys(file)) /\ UNCHANGED m

\* stand.get(key), signs.get(key)
Of(section, k) ==
  IF k \in DOMAIN section THEN section[k] ELSE [kind |-> "null", text |-> <<>>]

OrdOrNone(v) == IF Truthy(v) THEN v.text[1] ELSE NoLetter

ReadVowel(k) ==
  /\ Member("vowels", k)
  /\ LET s == Of(file.vowels_standalone, k)
         sign == Of(file.vowel_signs, k)
     IN /\ CanOrd(s) /\ CanOrd(sign)
        /\ m' = [m EXCEPT !.vowels = Put(@, vowel_key_to_seq(k),
                   [standalone |-> OrdOrNone(s), matra |-> OrdOrNone(sign)])]
  /\ Read(k)

RejectVowel(k) ==
  /\ Member("vowels", k)
  /\ ~ CanOrd(Of(file.vowels_standalone, k)) \/ ~ CanOrd(Of(file.vowel_signs, k))
  /\ Raise("TypeError")

EndVowels == pc = "vowels" /\ todo = {} /\ Goto("special", {}) /\ UNCHANGED m

ReadSpecial ==
  /\ pc = "special"
  /\ \A s \in SpecialName : file.special[s].kind = "absent" \/ IsLetter(file.special[s])
  /\ m' = [m EXCEPT !.special = [s \in SpecialName |->
       IF file.special[s].kind = "absent" THEN @[s] ELSE file.special[s].text[1]]]
  /\ Goto("rules", {})

RejectSpecial ==
  /\ pc = "special"
  /\ \E s \in SpecialName : file.special[s].kind # "absent" /\ ~ IsLetter(file.special[s])
  /\ Raise("TypeError")

\* bool() of whatever is there.
ReadRules ==
  /\ pc = "rules" /\ ~ RuleTooLong(file)
  /\ m' = [m EXCEPT !.rules = rule_keys(file, m),
                    !.unmapped_passthrough = file.unmapped_passthrough \notin {"false", "falsy"}]
  /\ Goto("prefixes", {})

RejectRules == pc = "rules" /\ RuleTooLong(file) /\ Raise("ValueError")

PrefixesOf_Whole(table) == UNION {{SubSeq(s, 1, n) : n \in 1..Len(s)} : s \in DOMAIN table}

PrefixesOf(table) == UNION {{SubSeq(s, 1, n) : n \in 1..(Len(s) - 1)} : s \in DOMAIN table}

DerivePrefixes ==
  /\ pc = "prefixes"
  /\ prefixes' = [consonants |-> PrefixesOf(m.consonants), vowels |-> PrefixesOf(m.vowels)]
  /\ pc' = "loaded" /\ UNCHANGED <<file, todo, m>>

-----------------------------------------------------------------------------

Next ==
  \/ EndConsonants \/ EndMultiKeys \/ EndVowels
  \/ ReadSpecial \/ RejectSpecial \/ ReadRules \/ RejectRules \/ DerivePrefixes
  \/ \E k \in todo :
       \/ ReadConsonant(k) \/ RejectConsonant(k) \/ ReadMultiKey(k) \/ RejectMultiKey(k)
       \/ ReadVowel(k) \/ RejectVowel(k)

Spec == Init /\ [][Next]_vars

-----------------------------------------------------------------------------
(* Properties *)

\* As LoadsWhatIsWritten of the C++ loader.
LoadsWhatIsWritten ==
  /\ Plain(file) => pc \notin Errors /\ (pc = "loaded" => Means(file, m))
  /\ Portable(file) /\ ~ Plain(file) => pc # "loaded"

\* For every non-empty sequence, membership of the derived prefix sets is the trie's
\* is_strict_prefix(): each prefix is extended by a key, and no prefix is missing.
PrefixSetsAreTries ==
  pc = "loaded" =>
    \A t \in {"consonants", "vowels"} :
      /\ \A p \in prefixes[t] : p # <<>> /\ is_strict_prefix(m[t], p)
      /\ \A s \in DOMAIN m[t] : \A n \in 1..(Len(s) - 1) : SubSeq(s, 1, n) \in prefixes[t]
=============================================================================
