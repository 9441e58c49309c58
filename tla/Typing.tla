------------------------------- MODULE Typing -------------------------------
(***************************************************************************)
(* transliterate_string: the keys of a word are fed to a fresh object one  *)
(* by one, what each returns is collected, and the object is committed.    *)
(***************************************************************************)
EXTENDS Transliterator, Speller

CONSTANTS
  TypedKeys,  \* the keys a word may have
  MaxLen      \* the length of the longest word

ASSUME TypingTypes == TypedKeys \subseteq Key /\ MaxLen \in Nat

VARIABLES
  text,      \* the keys of the word so far; a capital letter is a shifted key
  written    \* "".join(out)

word_vars == <<t, out, text, written>>

Start == Init /\ text = <<>> /\ written = <<>>

Type(key) ==
  /\ Len(text) < MaxLen
  /\ Feed(key)
  /\ text' = Append(text, key)
  /\ written' = written \o out'

WordSpec == Start /\ [][\E key \in TypedKeys : Type(key)]_word_vars

\* What transliterate_string(text) returns: the code commits at the end.
transliterate_string == written \o soft_commit(t)

-----------------------------------------------------------------------------
(* Properties *)

\* The words for which the code follows the rules of the design document.  It does not
\*  - when a key starts a multi-key consonant, is none and is not part of one: dropped;
\*  - when a vowel follows an unmapped key that follows a consonant: the matra is
\*    committed alone;
\*  - when the conjunct key follows a consonant that a longer one starts with: ignored.
Regular(units) ==
  \A i \in DOMAIN units :
    /\ units[i].kind = "other" => ~ is_strict_prefix(Consonants, units[i].keys)
    /\ units[i].kind = "vowel" /\ KindAt(units, i - 1) = "other" =>
         \E j \in 0..(i - 2) :
           /\ KindAt(units, j) \notin {"consonant", "other"}
           /\ \A k \in (j + 1)..(i - 1) : units[k].kind = "other"
    /\ KindAt(units, i + 1) = "conjunct" /\ units[i].kind = "consonant" =>
         ~ is_strict_prefix(Consonants, units[i].keys)

\* The incremental machine, which never looks ahead, writes every regular word as the
\* rules spell it: the longest match is found although a key is only ever buffered one
\* step, and nothing depends on how the units before the last one were typed.
WritesWhatIsSpelled == Regular(Units(text)) => transliterate_string = Spelling(text)
=============================================================================
