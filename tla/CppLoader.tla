----------------------------- MODULE CppLoader -----------------------------
(***************************************************************************)
(* Mapping::from_json_string of mapping.cpp.  A step reads one member of   *)
(* an object; the members of an object come in any order.  get<T>() on a   *)
(* value of another type throws a json::type_error.                        *)
(***************************************************************************)
EXTENDS KeymapFile

VARIABLES
  file,  \* data
  pc,    \* the section being read; "loaded"; or the exception thrown
  todo,  \* the members of the section still to come
  m      \* the local variable m

vars == <<file, pc, todo, m>>

Errors == {"runtime_error", "type_error"}

After ==
  [consonants |-> "multi_key_consonants", multi_key_consonants |-> "vowels_standalone",
   vowels_standalone |-> "vowel_signs", vowel_signs |-> "special"]

Zero == [s \in SpecialName |-> NoLetter]

Init ==
  /\ file \in Files
  /\ pc = "consonants" /\ todo = DOMAIN file.consonants
  /\ m = Empty(Zero)

NextSection ==
  /\ pc \in DOMAIN After /\ todo = {}
  /\ pc' = After[pc]
  /\ todo' = IF After[pc] \in DOMAIN After THEN DOMAIN file[After[pc]] ELSE {}
  /\ UNCHANGED <<file, m>>

Member(section, k) == pc = section /\ k \in todo
Read(k) == todo' = todo \ {k} /\ UNCHANGED <<file, pc>>
Throw(error) == pc' = error /\ UNCHANGED <<file, todo, m>>

-----------------------------------------------------------------------------
\* Neither null nor a string.
Mistyped(v) == v.kind \in {"falsy", "truthy"}

\* The first codepoint of a string, 0 for an empty one; more are ignored.
first_codepoint(v) == IF v.text = <<>> THEN NoLetter ELSE v.text[1]

inserted_Zero(trie, seq, v) ==
  Put(trie, seq, IF v.kind = "string" THEN first_codepoint(v) ELSE NoLetter)

\* Null and missing members are skipped, and with them an entry that is not an object.
inserted(trie, seq, v) == IF v.kind = "string" THEN Put(trie, seq, first_codepoint(v)) ELSE trie

ReadConsonant(k) ==
  /\ Member("consonants", k)
  /\ Len(k) = 1
  /\ ~ Mistyped(file.consonants[k].base) /\ ~ Mistyped(file.consonants[k].shift)
  /\ m' = [m EXCEPT !.consonants =
       inserted(inserted(@, <<Raw(k[1])>>, file.consonants[k].base),
                <<shift_key(k[1])>>, file.consonants[k].shift)]
  /\ Read(k)

RejectConsonant(k) ==
  /\ Member("consonants", k)
  /\ \/ Len(k) # 1 /\ Throw("runtime_error")
     \/ /\ Len(k) = 1
        /\ Mistyped(file.consonants[k].base) \/ Mistyped(file.consonants[k].shift)
        /\ Throw("type_error")

ReadMultiKey(k) ==
  /\ Member("multi_key_consonants", k)
  /\ LET v == file.multi_key_consonants[k] IN
       /\ v.kind = "string"
       /\ m' = [m EXCEPT !.consonants = Put(@, multi_key_to_seq(k), first_codepoint(v))]
  /\ Read(k)

RejectMultiKey(k) ==
  /\ Member("multi_key_consonants", k)
  /\ file.multi_key_consonants[k].kind # "string"
  /\ Throw("type_error")

\* vowels.find(seq).value_or(VowelEntry{})
ExistingVowel(seq) ==
  IF Exact(m.vowels, seq) THEN m.vowels[seq] ELSE [standalone |-> NoLetter, matra |-> NoLetter]

VowelLetter(v) == IF v.kind = "null" THEN NoLetter ELSE first_codepoint(v)

\* upsert_vowel(seq, cp, 0)
ReadStandalone(k) ==
  /\ Member("vowels_standalone", k)
  /\ LET seq == vowel_key_to_seq(k)
         cp == VowelLetter(file.vowels_standalone[k])
         e == ExistingVowel(seq)
     IN /\ ~ Mistyped(file.vowels_standalone[k])
        /\ m' = [m EXCEPT !.vowels =
             Put(@, seq, [e EXCEPT !.standalone = IF cp = NoLetter THEN @ ELSE cp])]
  /\ Read(k)

ReadSign_Fresh(k) ==
  /\ Member("vowel_signs", k)
  /\ ~ Mistyped(file.vowel_signs[k])
  /\ m' = [m EXCEPT !.vowels = Put(@, vowel_key_to_seq(k),
             [standalone |-> NoLetter, matra |-> VowelLetter(file.vowel_signs[k])])]
  /\ Read(k)

\* The standalone form read before is kept.
ReadSign(k) ==
  /\ Member("vowel_signs", k)
  /\ LET seq == vowel_key_to_seq(k) IN
       /\ ~ Mistyped(file.vowel_signs[k])
       /\ m' = [m EXCEPT !.vowels =
            Put(@, seq, [ExistingVowel(seq) EXCEPT !.matra = VowelLetter(file.vowel_signs[k])])]
  /\ Read(k)

RejectVowel(k) ==
  /\ pc \in {"vowels_standalone", "vowel_signs"} /\ k \in todo
  /\ Mistyped(file[pc][k])
  /\ Throw("type_error")

ReadSpecial ==
  /\ pc = "special"
  /\ \A s \in SpecialName : file.special[s].kind \in {"string", "absent"}
  /\ m' = [m EXCEPT !.special = [s \in SpecialName |->
       IF file.special[s].kind = "string" THEN first_codepoint(file.special[s]) ELSE @[s]]]
  /\ pc' = "rules" /\ UNCHANGED <<file, todo>>

RejectSpecial ==
  /\ pc = "special"
  /\ \E s \in SpecialName : file.special[s].kind \notin {"string", "absent"}
  /\ Throw("type_error")

ReadRules ==
  /\ pc = "rules"
  /\ ~ RuleTooLong(file) /\ IsFlag(file.unmapped_passthrough)
  /\ m' = [m EXCEPT !.rules = rule_keys(file, m),
                    !.unmapped_passthrough = (file.unmapped_passthrough # "false")]
  /\ pc' = "loaded" /\ UNCHANGED <<file, todo>>

RejectRules ==
  /\ pc = "rules"
  /\ \/ RuleTooLong(file) /\ Throw("runtime_error")
     \/ ~ RuleTooLong(file) /\ ~ IsFlag(file.unmapped_passthrough) /\ Throw("type_error")

-----------------------------------------------------------------------------

Next ==
  \/ NextSection \/ ReadSpecial \/ RejectSpecial \/ ReadRules \/ RejectRules
  \/ \E k \in todo :
       \/ ReadConsonant(k) \/ RejectConsonant(k) \/ ReadMultiKey(k) \/ RejectMultiKey(k)
       \/ ReadStandalone(k) \/ ReadSign(k) \/ RejectVowel(k)

Spec == Init /\ [][Next]_vars

-----------------------------------------------------------------------------
(* Properties *)

\* A plain file is accepted, and the keymap is the one it writes down, in whatever
\* order its members come: a vowel keeps the half that the other section gave it, and a
\* key written in both sections of consonants has the letter of the second.  Any other
\* portable file is refused, by whichever of its members comes first.
LoadsWhatIsWritten ==
  /\ Plain(file) => pc \notin Errors /\ (pc = "loaded" => Means(file, m))
  /\ Portable(file) /\ ~ Plain(file) => pc # "loaded"

\* The composer takes for granted, and the loader never tests, that no consonant and no
\* sign is the codepoint 0, by which pending_consonant_ says "none": the codepoint that
\* first_codepoint gives for an empty string.  Of all files it accepts, only one with such
\* a string, or without one of the signs (which start out as 0), leads to one.
YieldsKeymap == pc = "loaded" /\ ~ HasBlank(file) /\ ~ LacksSign(file) => KeymapIsTyped(m)

\* A key that no keystroke produces is a letter no one can type: an upper-case letter
\* must become a shifted key wherever the code is asked for one.
KeysCanBeTyped ==
  /\ Portable(file) /\ pc = "loaded"
  /\ \A r \in RuleName : file.rules[r] # <<>>
  /\ \A k \in DOMAIN file.multi_key_consonants : \A i \in 2..Len(k) : k[i] \notin Upper
  => AllTypeable(m)

-----------------------------------------------------------------------------
(* What the documentation says *)

\* phonetic-mapping-design.md lists ^D among the keys of the prenasalised consonants:
\* a loaded consonant can be typed.
EveryKeyTypeable == pc = "loaded" => AllTypeable(m)
=============================================================================
