------------------------------ MODULE Speller ------------------------------
(***************************************************************************)
(* How a word is written, without a state machine: the word is cut into    *)
(* the longest units the keymap knows, and each unit is rendered from      *)
(* itself and its two neighbours alone.  This is the reference definition  *)
(* that transliterate_string is checked against.  One thing it takes from  *)
(* the code and not from the rules: an unmapped key pressed with Shift is  *)
(* written as its lower-case letter.                                       *)
(***************************************************************************)
EXTENDS Keymap, FiniteSetsExt

Unit(kind, keys) == [kind |-> kind, keys |-> keys]

\* How many keys of the word w, from position i on, the longest key of trie takes; 0
\* if none fits.
LongestKey(trie, w, i) ==
  Max({0} \cup {n \in 1..(Len(w) - i + 1) : Exact(trie, SubSeq(w, i, i + n - 1))})

\* The unit at position i.
UnitAt(w, i) ==
  LET c == LongestKey(Consonants, w, i)
      v == LongestKey(Vowels, w, i)
      taken(n) == SubSeq(w, i, i + n - 1)
  IN CASE KeyClass(w[i]) # "ordinary" -> Unit(KeyClass(w[i]), taken(1))
       [] KeyClass(w[i]) = "ordinary" /\ c > 0 -> Unit("consonant", taken(c))
       [] KeyClass(w[i]) = "ordinary" /\ c = 0 /\ v > 0 -> Unit("vowel", taken(v))
       [] OTHER -> Unit("other", taken(1))

\* The word as units.
Units(w) ==
  LET from[i \in 1..(Len(w) + 1)] ==
        IF i > Len(w) THEN <<>>
        ELSE <<UnitAt(w, i)>> \o from[i + Len(UnitAt(w, i).keys)]
  IN from[1]

KindAt(units, i) == IF i \in DOMAIN units THEN units[i].kind ELSE "edge"

\* A consonant loses its inherent vowel before another consonant and before the
\* terminator, and joins what follows the conjunct key; a vowel is a sign on the
\* consonant before it, and a letter of its own elsewhere.
Rendered(units, i) ==
  LET u == units[i]
      before == KindAt(units, i - 1)
      after == KindAt(units, i + 1)
  IN CASE u.kind = "consonant" ->
            <<Consonants[u.keys]>> \o
            (CASE after \in {"consonant", "terminator"} -> <<virama>>
               [] after = "conjunct" -> <<virama, zwj>>
               [] OTHER -> <<>>)
       [] u.kind = "vowel" ->
            Optional(IF before = "consonant" THEN Vowels[u.keys].matra
                     ELSE Vowels[u.keys].standalone)
       [] u.kind = "anusvara" -> <<anusvara>>
       [] u.kind = "visarga" -> <<visarga>>
       [] u.kind = "other" -> IF unmapped_passthrough THEN <<base_ascii(u.keys[1])>> ELSE <<>>
       [] OTHER -> <<>>

Spelling(w) ==
  LET units == Units(w) IN FlattenSeq([i \in DOMAIN units |-> Rendered(units, i)])
=============================================================================
