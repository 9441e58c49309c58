---------------------------- MODULE Transliterate ----------------------------
(***************************************************************************)
(* The handlers of prototype/transliterate.py, class Transliterator, as    *)
(* functions of the object: what each leaves in the object and what it     *)
(* appends to its list "out".  An object is its three fields, _state,      *)
(* _pending_consonant and _prefix, with NoLetter for None.                 *)
(***************************************************************************)
EXTENDS Keymap

\* The object with these fields.
Self(state, pending, prefix) == [state |-> state, pending |-> pending, prefix |-> prefix]

\* The object after __init__ and after reset().
Fresh == Self("IDLE", NoLetter, <<>>)

Result(object, text) == [t |-> object, out |-> text]

-----------------------------------------------------------------------------
(* Emit helpers *)

emit_unmapped(key) == IF unmapped_passthrough THEN <<base_ascii(key)>> ELSE <<>>

emit_consonant_matra(t, entry) == Optional(t.pending) \o Optional(entry.matra)

\* vowels.get(seq), and its standalone form if it has one.
standalone_of(seq) == IF Exact(Vowels, seq) THEN Optional(Vowels[seq].standalone) ELSE <<>>

first_of_Last(t) == <<Last(t.prefix)>>

\* The consonant the buffered prefix falls back to.
first_of(t) == <<Head(t.prefix)>>
first_consonant(t) ==
  IF Exact(Consonants, first_of(t)) THEN <<Consonants[first_of(t)]>> ELSE <<>>

\* Every caller resets the object afterwards.  A vowel prefix that is no vowel
\* commits nothing, not even the consonant before it.
soft_commit(t) ==
  CASE t.state = "IDLE" -> <<>>
    [] t.state = "CONSONANT_PENDING" -> Optional(t.pending)
    [] t.state = "PARTIAL_CONSONANT" -> first_consonant(t)
    [] t.state = "PARTIAL_VOWEL" ->
         IF Exact(Vowels, t.prefix) THEN emit_consonant_matra(t, Vowels[t.prefix]) ELSE <<>>
    [] t.state = "PARTIAL_VOWEL_STANDALONE" -> standalone_of(t.prefix)

commit_with_virama(letters) == IF letters = <<>> THEN <<>> ELSE Append(letters, virama)

-----------------------------------------------------------------------------
(* Special keys *)

handle_hard_terminator_Pending(t) ==
  Result(Fresh,
         IF t.state = "CONSONANT_PENDING"
         THEN commit_with_virama(soft_commit(t)) ELSE soft_commit(t))

handle_hard_terminator(t) ==
  Result(Fresh,
         IF t.state \in {"CONSONANT_PENDING", "PARTIAL_CONSONANT"}
         THEN commit_with_virama(soft_commit(t)) ELSE soft_commit(t))

handle_conjunct_Passthrough(t) ==
  IF t.state = "CONSONANT_PENDING" /\ t.pending # NoLetter
  THEN Result(Self("IDLE", NoLetter, t.prefix), <<t.pending, virama, zwj>>)
  ELSE Result(Fresh, soft_commit(t) \o emit_unmapped(conjunct_marker))

handle_conjunct(t) ==
  IF t.state = "CONSONANT_PENDING" /\ t.pending # NoLetter
  THEN Result(Self("IDLE", NoLetter, t.prefix), <<t.pending, virama, zwj>>)
  ELSE Result(Fresh, soft_commit(t))

handle_sign(t, sign) == Result(Fresh, Append(soft_commit(t), sign))

-----------------------------------------------------------------------------
(* The handlers by state, where they do not re-feed *)

from_idle(t, key) ==
  LET one == <<key>> IN
  CASE Complete(Consonants, one) ->
         Result(Self("CONSONANT_PENDING", Consonants[one], t.prefix), <<>>)
    [] is_strict_prefix(Consonants, one) ->
         Result(Self("PARTIAL_CONSONANT", t.pending, one), <<>>)
    [] ~ Matches(Consonants, one) /\ Complete(Vowels, one) -> Result(t, standalone_of(one))
    [] ~ Matches(Consonants, one) /\ is_strict_prefix(Vowels, one) ->
         Result(Self("PARTIAL_VOWEL_STANDALONE", t.pending, one), <<>>)
    [] OTHER -> Result(t, emit_unmapped(key))

from_partial_consonant(t, key) ==
  LET extended == Append(t.prefix, key) IN
  IF is_strict_prefix(Consonants, extended)
  THEN Result(Self(t.state, t.pending, extended), <<>>)
  ELSE Result(Self("CONSONANT_PENDING", Consonants[extended], <<>>), <<>>)

\* The unmapped branch does not leave CONSONANT_PENDING.
from_consonant_pending(t, key) ==
  LET one == <<key>>
      joined == commit_with_virama(Optional(t.pending)) IN
  CASE is_strict_prefix(Vowels, one) ->
         Result(Self("PARTIAL_VOWEL", t.pending, one), <<>>)
    [] Complete(Vowels, one) ->
         Result(Self("IDLE", NoLetter, t.prefix),
                emit_consonant_matra(t, Vowels[one]))
    [] ~ Matches(Vowels, one) /\ Complete(Consonants, one) ->
         Result(Self(t.state, Consonants[one], t.prefix), joined)
    [] ~ Matches(Vowels, one) /\ is_strict_prefix(Consonants, one) ->
         Result(Self("PARTIAL_CONSONANT", NoLetter, one), joined)
    [] OTHER -> Result(Self(t.state, NoLetter, t.prefix), Optional(t.pending) \o emit_unmapped(key))

from_partial_vowel(t, key) ==
  LET extended == Append(t.prefix, key) IN
  IF is_strict_prefix(Vowels, extended)
  THEN Result(Self(t.state, t.pending, extended), <<>>)
  ELSE Result(Fresh, emit_consonant_matra(t, Vowels[extended]))

from_partial_vowel_standalone(t, key) ==
  LET extended == Append(t.prefix, key) IN
  IF is_strict_prefix(Vowels, extended)
  THEN Result(Self(t.state, t.pending, extended), <<>>)
  ELSE Result(Self("IDLE", t.pending, <<>>), standalone_of(extended))

-----------------------------------------------------------------------------
(* Re-feeding *)

\* The trie a buffered prefix is a key of.
Buffered(t) == IF t.state = "PARTIAL_CONSONANT" THEN Consonants ELSE Vowels

Partial == {"PARTIAL_CONSONANT", "PARTIAL_VOWEL", "PARTIAL_VOWEL_STANDALONE"}

\* The key does not extend the buffered prefix.
Refeeds(t, key) ==
  /\ KeyClass(key) = "ordinary"
  /\ t.state \in Partial /\ ~ Matches(Buffered(t), Append(t.prefix, key))

\* What the handler does before it calls _feed_impl again.  A vowel prefix that is
\* no vowel falls back to the vowel of its first key.
settle(t) ==
  LET idle == Self("IDLE", t.pending, <<>>) IN
  CASE t.state = "PARTIAL_CONSONANT" ->
         Result(IF Exact(Consonants, first_of(t))
                THEN Self("CONSONANT_PENDING", Consonants[first_of(t)], <<>>)
                ELSE idle, <<>>)
    [] t.state = "PARTIAL_VOWEL" ->
         (CASE Exact(Vowels, t.prefix) ->
                 Result(Fresh, emit_consonant_matra(t, Vowels[t.prefix]))
            [] ~ Exact(Vowels, t.prefix) /\ Exact(Vowels, first_of(t)) ->
                 Result(Fresh, emit_consonant_matra(t, Vowels[first_of(t)]))
            [] OTHER -> Result(idle, <<>>))
    [] t.state = "PARTIAL_VOWEL_STANDALONE" -> Result(idle, standalone_of(t.prefix))

handle(t, key) ==
  CASE KeyClass(key) = "terminator" -> handle_hard_terminator(t)
    [] KeyClass(key) = "conjunct" -> handle_conjunct(t)
    [] KeyClass(key) = "anusvara" -> handle_sign(t, anusvara)
    [] KeyClass(key) = "visarga" -> handle_sign(t, visarga)
    [] KeyClass(key) = "ordinary" ->
         (CASE t.state = "IDLE" -> from_idle(t, key)
            [] t.state = "PARTIAL_CONSONANT" -> from_partial_consonant(t, key)
            [] t.state = "CONSONANT_PENDING" -> from_consonant_pending(t, key)
            [] t.state = "PARTIAL_VOWEL" -> from_partial_vowel(t, key)
            [] t.state = "PARTIAL_VOWEL_STANDALONE" -> from_partial_vowel_standalone(t, key))

\* _feed_impl.  A settled object is in IDLE or CONSONANT_PENDING, whose handlers do
\* not re-feed, so the recursion of the code is one level deep.
feed_impl(t, key) ==
  IF Refeeds(t, key)
  THEN LET again == handle(settle(t).t, key)
       IN Result(again.t, settle(t).out \o again.out)
  ELSE handle(t, key)

-----------------------------------------------------------------------------
(* The other calls *)

popped(t) == IF t.prefix = <<>> THEN <<>> ELSE Front(t.prefix)

handle_backspace(t) ==
  CASE t.state = "IDLE" -> t
    [] t.state \in {"PARTIAL_CONSONANT", "PARTIAL_VOWEL_STANDALONE"} ->
         IF Len(t.prefix) > 1 THEN Self(t.state, t.pending, popped(t)) ELSE Fresh
    [] t.state = "CONSONANT_PENDING" -> Self("IDLE", NoLetter, t.prefix)
    [] t.state = "PARTIAL_VOWEL" ->
         IF Len(t.prefix) > 1 THEN Self(t.state, t.pending, popped(t))
         ELSE Self("CONSONANT_PENDING", t.pending, popped(t))

\* composition(): no matra is shown unless a consonant is pending.
composition_of(t) ==
  CASE t.state \in {"IDLE", "PARTIAL_CONSONANT"} -> <<>>
    [] t.state = "CONSONANT_PENDING" -> Optional(t.pending)
    [] t.state = "PARTIAL_VOWEL" ->
         IF Exact(Vowels, t.prefix) /\ t.pending # NoLetter
         THEN emit_consonant_matra(t, Vowels[t.prefix]) ELSE Optional(t.pending)
    [] t.state = "PARTIAL_VOWEL_STANDALONE" -> standalone_of(t.prefix)
=============================================================================
