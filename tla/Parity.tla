------------------------------- MODULE Parity -------------------------------
(***************************************************************************)
(* The C++ composer implements the Python reference, the project's design  *)
(* goal 6.  The composer re-feeds a key step by step; the reference does   *)
(* it at once, so its step is taken when feed() is called: while feed()    *)
(* runs, the reference is already where the rest of the call will bring    *)
(* the composer.                                                           *)
(***************************************************************************)
EXTENDS Composer, Transliterate

PyState(s) ==
  CASE s = "Idle" -> "IDLE"
    [] s = "PartialConsonant" -> "PARTIAL_CONSONANT"
    [] s = "ConsonantPending" -> "CONSONANT_PENDING"
    [] s = "PartialVowel" -> "PARTIAL_VOWEL"
    [] s = "PartialVowelStandalone" -> "PARTIAL_VOWEL_STANDALONE"

\* The composer's fields as an object of the reference.
Object == Self(PyState(state), pending, prefix)

\* What the running call will have become when it returns.
Outcome ==
  IF AtRest THEN Result(Object, committed)
  ELSE LET rest == feed_impl(Object, input)
       IN Result(rest.t, committed \o rest.out)

Reference == INSTANCE Transliterator WITH t <- Outcome.t, out <- Outcome.out

-----------------------------------------------------------------------------

\* Each call is the same call of the reference, on the same key, and nothing shows
\* while it runs.
Mirrored ==
  /\ \A key \in Key : Feed(key) => Reference!Feed(key)
  /\ Backspace => Reference!feed_backspace
  /\ Commit => Reference!commit
  /\ Reset => Reference!reset
  /\ Dispatch => UNCHANGED Outcome

\* Every call of the composer leaves its fields as the same call leaves the object
\* of the reference, and commits the same text (composition.h: "mirrors,
\* byte-for-byte").  The golden file tests it for 97 words typed from scratch; this
\* is every sequence of keys, backspaces, commits and resets, under the given keymap.
MirrorsReference == Reference!Spec /\ [][Mirrored]_vars

\* The buffered vowel prefix is no vowel by itself.
InGap == state = "PartialVowel" /\ ~ Exact(Vowels, prefix)

\* Whatever the keymap, a call that does not meet a vowel prefix in a gap does to
\* the composer what it does to the same object of the reference: nothing else in a
\* keymap can tell the two implementations apart.
MirrorsOutsideGaps == [][~ InGap => Mirrored]_vars

\* Between calls the previews agree too, but for a vowel prefix that has no consonant
\* to sit on: there C++ shows the bare matra and Python shows nothing.
PreviewsAgreeOnConsonants ==
  AtRest /\ (state = "PartialVowel" => pending # NoLetter)
    => composition = composition_of(Object)
=============================================================================
