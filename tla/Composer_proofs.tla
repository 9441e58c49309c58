-------------------------- MODULE Composer_proofs --------------------------
(***************************************************************************)
(* What TLAPS proves of the composer, for every keymap that satisfies      *)
(* KeymapTypes: types, the prefix, re-feeding; then its buffered           *)
(* consonant, backspace, and the text it commits; last, that it implements *)
(* the Python reference.                                                   *)
(***************************************************************************)
EXTENDS Parity, Lookup_proofs, SequenceTheorems, TLAPS

-----------------------------------------------------------------------------
(* Prefixes *)

\* What leads to a key of a trie still does after a backspace.
LEMMA FrontIsStrictPrefix ==
  ASSUME NEW trie, DOMAIN trie \subseteq Seq(Key),
         NEW seq \in Seq(Key), seq # <<>>, is_strict_prefix(trie, seq)
  PROVE  is_strict_prefix(trie, Front(seq))
<1>1. PICK key \in DOMAIN trie : IsStrictPrefix(seq, key)
  BY DEF is_strict_prefix
<1>2. key \in Seq(Key)
  OBVIOUS
<1>3. Len(seq) < Len(key) /\ \A i \in 1..Len(seq) : seq[i] = key[i]
  BY <1>1, <1>2, StrictPrefixPointwise
<1>4. /\ Front(seq) \in Seq(Key)
      /\ Len(Front(seq)) = Len(seq) - 1
      /\ \A i \in 1..(Len(seq) - 1) : Front(seq)[i] = seq[i]
  BY FrontProperties
<1>5. Len(Front(seq)) < Len(key) /\ \A i \in 1..Len(Front(seq)) : Front(seq)[i] = key[i]
  BY <1>2, <1>3, <1>4, LenProperties
<1>6. IsStrictPrefix(Front(seq), key)
  BY <1>2, <1>4, <1>5, StrictPrefixPointwise
<1> QED BY <1>6 DEF is_strict_prefix

-----------------------------------------------------------------------------
(* Types *)

LEMMA ConcatText ==
  ASSUME NEW s \in Text, NEW t \in Text
  PROVE  s \o t \in Text
BY ConcatProperties DEF Text

LEMMA OneLetterText ==
  ASSUME NEW letter \in Letter \cup Char
  PROVE  <<letter>> \in Text
BY DEF Text

LEMMA OptionalText ==
  ASSUME NEW letter \in Letter \cup {NoLetter}
  PROVE  Optional(letter) \in Text
<1>1. CASE letter = NoLetter
  BY <1>1, EmptySeq DEF Optional, Text
<1>2. CASE letter # NoLetter
  BY <1>2, OneLetterText DEF Optional
<1> QED BY <1>1, <1>2

LEMMA WithViramaText ==
  ASSUME NEW s \in Text
  PROVE  WithVirama(s) \in Text
<1>1. virama \in Letter \cup Char
  BY KeymapTypes
<1> QED BY <1>1, AppendProperties, EmptySeq DEF WithVirama, Text

\* What the vowel trie contributes to a text.
LEMMA VowelText ==
  ASSUME NEW seq
  PROVE  MatraOf(seq) \in Text /\ StandaloneOf(seq) \in Text
<1>1. CASE Exact(Vowels, seq)
  <2>1. Vowels[seq] \in VowelEntry
    BY <1>1, KeymapTypes DEF Exact
  <2>2. /\ Vowels[seq].matra \in Letter \cup {NoLetter}
        /\ Vowels[seq].standalone \in Letter \cup {NoLetter}
    BY <2>1 DEF VowelEntry
  <2> QED BY <1>1, <2>2, OptionalText DEF MatraOf, StandaloneOf
<1>2. CASE ~ Exact(Vowels, seq)
  BY <1>2, EmptySeq DEF MatraOf, StandaloneOf, Text
<1> QED BY <1>1, <1>2

LEMMA ConsonantIsLetter ==
  ASSUME NEW seq, Exact(Consonants, seq)
  PROVE  Consonants[seq] \in Letter
BY KeymapTypes DEF Exact

LEMMA PassthroughText ==
  ASSUME NEW key \in Key
  PROVE  Passthrough(key) \in Text
<1>1. base_ascii(key) \in Letter \cup Char
  BY DEF base_ascii, Key
<1> QED BY <1>1, OneLetterText, EmptySeq DEF Passthrough, Text

LEMMA FirstConsonantText == FirstConsonant \in Text
<1>1. CASE Exact(Consonants, First)
  BY <1>1, ConsonantIsLetter, OneLetterText DEF FirstConsonant
<1>2. CASE ~ Exact(Consonants, First)
  BY <1>2, EmptySeq DEF FirstConsonant, Text
<1> QED BY <1>1, <1>2

\* Every flush of a typed buffer is a text.
LEMMA FlushText ==
  ASSUME TypeOK
  PROVE  /\ flush_consonant_plain \in Text
         /\ flush_consonant_with_virama \in Text
         /\ flush_standalone_vowel \in Text
         /\ flush_consonant_matra \in Text
         /\ SoftCommit \in Text
         /\ HardCommit \in Text
<1>1. Optional(pending) \in Text
  BY OptionalText DEF TypeOK
<1>2. flush_consonant_plain \in Text
  BY <1>1 DEF flush_consonant_plain
<1>3. flush_consonant_with_virama \in Text
  BY <1>1, WithViramaText DEF flush_consonant_with_virama
<1>4. flush_standalone_vowel \in Text
  BY VowelText DEF flush_standalone_vowel
<1>5. flush_consonant_matra \in Text
  BY <1>1, VowelText, ConcatText DEF flush_consonant_matra
<1>6. SoftCommit \in Text
  BY <1>2, <1>4, <1>5, FirstConsonantText, EmptySeq
  DEF SoftCommit, TypeOK, CompositionState, Text
<1>7. HardCommit \in Text
  BY <1>3, <1>4, <1>5, FirstConsonantText, WithViramaText, EmptySeq
  DEF HardCommit, TypeOK, CompositionState, Text
<1> QED BY <1>2, <1>3, <1>4, <1>5, <1>6, <1>7

\* The part of TypeOK about the call, and the part about the buffer.
CallTypes ==
  /\ depth \in Nat
  /\ input \in (IF depth = 0 THEN {NoKey} ELSE Key)
  /\ consumed \in BOOLEAN

BufferTypes ==
  /\ state \in CompositionState
  /\ pending \in Letter \cup {NoLetter}
  /\ prefix \in Seq(Key)

LEMMA TypeParts ==
  /\ TypeOK <=> CallTypes /\ BufferTypes /\ committed \in Text
  /\ TypeOK' <=> CallTypes' /\ BufferTypes' /\ committed' \in Text
BY DEF TypeOK, CallTypes, BufferTypes

LEMMA ReturnTypes ==
  ASSUME CallTypes, Return
  PROVE  CallTypes'
BY DEF CallTypes, Return

LEMMA RedispatchTypes ==
  ASSUME CallTypes, depth > 0, Redispatch
  PROVE  CallTypes'
BY DEF CallTypes, Redispatch

LEMMA EmitText ==
  ASSUME committed \in Text, NEW text \in Text, Emit(text)
  PROVE  committed' \in Text
BY ConcatText DEF Emit

\* The keys of a running call, alone and after the prefix.
LEMMA InputTypes ==
  ASSUME TypeOK, depth > 0
  PROVE  input \in Key /\ One \in Seq(Key) /\ Extended \in Seq(Key)
<1>1. input \in Key
  BY DEF TypeOK
<1>2. prefix \in Seq(Key)
  BY DEF TypeOK
<1> QED BY <1>1, <1>2, AppendProperties DEF One, Extended

LEMMA ClearedTypes ==
  ASSUME Cleared
  PROVE  BufferTypes'
BY EmptySeq DEF Cleared, BufferTypes, CompositionState

\* Every branch of dispatch either returns or re-dispatches.
LEMMA DispatchCalls == Dispatch => depth > 0 /\ (Return \/ Redispatch)
BY DEF Dispatch, Rule, Ordinary, DispatchRule, DispatchIdle,
       DispatchPartialConsonant, DispatchPending, DispatchVowel,
       HardTerminator, ConjunctAfterConsonant, ConjunctElsewhere, AnusvaraKey,
       VisargaKey, IdleConsonant, IdleConsonantPrefix, IdleVowel,
       IdleVowelPrefix, IdleUnmapped, ExtendConsonant, CompleteConsonant,
       ResolveConsonant, DropConsonantPrefix, PendingVowelPrefix,
       PendingVowel, PendingConsonant, PendingConsonantPrefix,
       PendingUnmapped, ExtendVowel, CompleteMatra, ResolveMatra,
       CompleteStandalone, ResolveStandalone

\* Every branch appends a text to what is committed.
LEMMA DispatchText ==
  ASSUME TypeOK, Dispatch
  PROVE  committed' \in Text
<1>a. committed \in Text
  BY DEF TypeOK
<1>t. <<>> \in Text
  BY EmptySeq DEF Text
<1>i. input \in Key
  BY DispatchCalls, InputTypes
<1>o. Optional(pending) \in Text
  BY OptionalText DEF TypeOK
<1>f. /\ flush_consonant_plain \in Text
      /\ flush_consonant_with_virama \in Text
      /\ flush_standalone_vowel \in Text
      /\ flush_consonant_matra \in Text
      /\ SoftCommit \in Text
      /\ HardCommit \in Text
  BY FlushText
<1>s. Append(SoftCommit, anusvara) \in Text /\ Append(SoftCommit, visarga) \in Text
  BY <1>f, KeymapTypes, AppendProperties DEF Text
<1>c. pending # NoLetter => <<pending, virama, zwj>> \in Text
  BY KeymapTypes DEF TypeOK, Text
<1>1. CASE HardTerminator
  BY <1>1, <1>a, <1>f, EmitText DEF HardTerminator
<1>2. CASE ConjunctAfterConsonant
  BY <1>2, <1>a, <1>c, EmitText DEF ConjunctAfterConsonant
<1>3. CASE ConjunctElsewhere
  BY <1>3, <1>a, <1>f, EmitText DEF ConjunctElsewhere
<1>4. CASE AnusvaraKey
  BY <1>4, <1>a, <1>s, EmitText DEF AnusvaraKey
<1>5. CASE VisargaKey
  BY <1>5, <1>a, <1>s, EmitText DEF VisargaKey
<1>6. CASE IdleConsonant
  BY <1>6, <1>a, <1>t, EmitText DEF IdleConsonant
<1>7. CASE IdleConsonantPrefix
  BY <1>7, <1>a, <1>t, EmitText DEF IdleConsonantPrefix
<1>8. CASE IdleVowel
  BY <1>8, <1>a, VowelText, EmitText DEF IdleVowel
<1>9. CASE IdleVowelPrefix
  BY <1>9, <1>a, <1>t, EmitText DEF IdleVowelPrefix
<1>10. CASE IdleUnmapped
  BY <1>10, <1>a, <1>i, PassthroughText, EmitText DEF IdleUnmapped
<1>11. CASE ExtendConsonant
  BY <1>11, <1>a, <1>t, EmitText DEF ExtendConsonant
<1>12. CASE CompleteConsonant
  BY <1>12, <1>a, <1>t, EmitText DEF CompleteConsonant
<1>13. CASE ResolveConsonant
  BY <1>13, <1>a, <1>t, EmitText DEF ResolveConsonant
<1>14. CASE DropConsonantPrefix
  BY <1>14, <1>a, <1>t, EmitText DEF DropConsonantPrefix
<1>15. CASE PendingVowelPrefix
  BY <1>15, <1>a, <1>t, EmitText DEF PendingVowelPrefix
<1>16. CASE PendingVowel
  BY <1>16, <1>a, <1>o, VowelText, ConcatText, EmitText DEF PendingVowel
<1>17. CASE PendingConsonant
  BY <1>17, <1>a, <1>f, EmitText DEF PendingConsonant
<1>18. CASE PendingConsonantPrefix
  BY <1>18, <1>a, <1>f, EmitText DEF PendingConsonantPrefix
<1>19. CASE PendingUnmapped
  BY <1>19, <1>a, <1>f, <1>i, PassthroughText, ConcatText, EmitText DEF PendingUnmapped
<1>20. CASE ExtendVowel
  BY <1>20, <1>a, <1>t, EmitText DEF ExtendVowel
<1>21. CASE CompleteMatra
  BY <1>21, <1>a, <1>o, VowelText, ConcatText, EmitText DEF CompleteMatra
<1>22. CASE ResolveMatra
  BY <1>22, <1>a, <1>f, <1>t, EmitText DEF ResolveMatra
<1>23. CASE CompleteStandalone
  BY <1>23, <1>a, VowelText, EmitText DEF CompleteStandalone
<1>24. CASE ResolveStandalone
  BY <1>24, <1>a, <1>f, EmitText DEF ResolveStandalone
<1> QED BY <1>1, <1>2, <1>3, <1>4, <1>5, <1>6, <1>7, <1>8, <1>9, <1>10, <1>11,
       <1>12, <1>13, <1>14, <1>15, <1>16, <1>17, <1>18, <1>19, <1>20, <1>21,
       <1>22, <1>23, <1>24
  DEF Dispatch, DispatchRule, DispatchIdle, DispatchPartialConsonant,
      DispatchPending, DispatchVowel

\* Every branch leaves a typed buffer.
LEMMA DispatchBuffer ==
  ASSUME TypeOK, Dispatch
  PROVE  BufferTypes'
<1>a. BufferTypes
  BY TypeParts
<1>i. One \in Seq(Key) /\ Extended \in Seq(Key) /\ <<>> \in Seq(Key)
  BY DispatchCalls, InputTypes, EmptySeq
<1>c. \A seq : Exact(Consonants, seq) => Consonants[seq] \in Letter
  BY ConsonantIsLetter
<1>1. CASE HardTerminator
  BY <1>1, ClearedTypes DEF HardTerminator
<1>2. CASE ConjunctAfterConsonant
  BY <1>2, <1>a DEF ConjunctAfterConsonant, BufferTypes, CompositionState
<1>3. CASE ConjunctElsewhere
  BY <1>3, ClearedTypes DEF ConjunctElsewhere
<1>4. CASE AnusvaraKey
  BY <1>4, ClearedTypes DEF AnusvaraKey
<1>5. CASE VisargaKey
  BY <1>5, ClearedTypes DEF VisargaKey
<1>6. CASE IdleConsonant
  BY <1>6, <1>a, <1>i, <1>c DEF IdleConsonant, BufferTypes, CompositionState, Complete
<1>7. CASE IdleConsonantPrefix
  BY <1>7, <1>a, <1>i DEF IdleConsonantPrefix, BufferTypes, CompositionState
<1>8. CASE IdleVowel
  BY <1>8, <1>a DEF IdleVowel, BufferTypes, buffer
<1>9. CASE IdleVowelPrefix
  BY <1>9, <1>a, <1>i DEF IdleVowelPrefix, BufferTypes, CompositionState
<1>10. CASE IdleUnmapped
  BY <1>10, <1>a DEF IdleUnmapped, BufferTypes, buffer
<1>11. CASE ExtendConsonant
  BY <1>11, <1>a, <1>i DEF ExtendConsonant, BufferTypes, CompositionState
<1>12. CASE CompleteConsonant
  BY <1>12, <1>a, <1>i, <1>c DEF CompleteConsonant, BufferTypes, CompositionState, Complete
<1>13. CASE ResolveConsonant
  BY <1>13, <1>a, <1>i, <1>c DEF ResolveConsonant, BufferTypes, CompositionState
<1>14. CASE DropConsonantPrefix
  BY <1>14, <1>a, <1>i DEF DropConsonantPrefix, BufferTypes, CompositionState
<1>15. CASE PendingVowelPrefix
  BY <1>15, <1>a, <1>i DEF PendingVowelPrefix, BufferTypes, CompositionState
<1>16. CASE PendingVowel
  BY <1>16, <1>a DEF PendingVowel, BufferTypes, CompositionState
<1>17. CASE PendingConsonant
  BY <1>17, <1>a, <1>i, <1>c DEF PendingConsonant, BufferTypes, CompositionState, Complete
<1>18. CASE PendingConsonantPrefix
  BY <1>18, <1>a, <1>i DEF PendingConsonantPrefix, BufferTypes, CompositionState
<1>19. CASE PendingUnmapped
  BY <1>19, <1>a DEF PendingUnmapped, BufferTypes, CompositionState
<1>20. CASE ExtendVowel
  BY <1>20, <1>a, <1>i DEF ExtendVowel, BufferTypes, CompositionState
<1>21. CASE CompleteMatra
  BY <1>21, ClearedTypes DEF CompleteMatra
<1>22. CASE ResolveMatra
  BY <1>22, <1>a, <1>i DEF ResolveMatra, BufferTypes, CompositionState
<1>23. CASE CompleteStandalone
  BY <1>23, <1>a, <1>i DEF CompleteStandalone, BufferTypes, CompositionState
<1>24. CASE ResolveStandalone
  BY <1>24, <1>a, <1>i DEF ResolveStandalone, BufferTypes, CompositionState
<1> QED BY <1>1, <1>2, <1>3, <1>4, <1>5, <1>6, <1>7, <1>8, <1>9, <1>10, <1>11,
       <1>12, <1>13, <1>14, <1>15, <1>16, <1>17, <1>18, <1>19, <1>20, <1>21,
       <1>22, <1>23, <1>24
  DEF Dispatch, DispatchRule, DispatchIdle, DispatchPartialConsonant,
      DispatchPending, DispatchVowel

\* So does every backspace.
LEMMA BackspaceBuffer ==
  ASSUME TypeOK, Backspace
  PROVE  BufferTypes'
<1>a. BufferTypes
  BY TypeParts
<1>f. /\ prefix # <<>> => Front(prefix) \in Seq(Key)
      /\ Len(prefix) > 1 => prefix # <<>>
      /\ <<>> \in Seq(Key)
  BY <1>a, FrontProperties, EmptySeq DEF BufferTypes
<1>1. CASE BackspaceIdle
  BY <1>1, <1>a DEF BackspaceIdle, BufferTypes, buffer
<1>2. CASE BackspacePrefix
  BY <1>2, <1>a, <1>f, ClearedTypes DEF BackspacePrefix, BufferTypes
<1>3. CASE BackspaceConsonant
  BY <1>3, <1>a DEF BackspaceConsonant, BufferTypes, CompositionState
<1>4. CASE BackspaceVowel
  BY <1>4, <1>a, <1>f DEF BackspaceVowel, BufferTypes, CompositionState
<1> QED BY <1>1, <1>2, <1>3, <1>4 DEF Backspace

LEMMA BackspaceCall ==
  ASSUME CallTypes, Backspace
  PROVE  CallTypes' /\ committed' = <<>>
<1>1. UNCHANGED <<input, depth>> /\ committed' = <<>> /\ consumed' \in BOOLEAN
  BY DEF Backspace, BackspaceIdle, BackspacePrefix, BackspaceConsonant, BackspaceVowel,
         BackspaceWhen
<1> QED BY <1>1 DEF CallTypes

-----------------------------------------------------------------------------

\* The variables keep their types under every keymap, and NUL is never committed.
THEOREM TypeCorrect == Spec => []TypeOK
<1>1. Init => TypeOK
  <2>1. <<>> \in Seq(Key) /\ <<>> \in Seq(Letter \cup Char)
    BY EmptySeq
  <2>2. Init => CallTypes
    <3>1. 0 \in Nat
      OBVIOUS
    <3> QED BY <3>1, Zenon DEF Init, CallTypes
  <2>3. Init => BufferTypes
    BY <2>1 DEF Init, BufferTypes, CompositionState
  <2>4. Init => committed \in Text
    BY <2>1 DEF Init, Text
  <2> QED BY <2>2, <2>3, <2>4, TypeParts
<1>2. TypeOK /\ [Next]_vars => TypeOK'
  <2> SUFFICES ASSUME TypeOK, [Next]_vars
               PROVE  TypeOK'
    OBVIOUS
  <2>a. CallTypes /\ BufferTypes /\ committed \in Text /\ <<>> \in Text
    BY TypeParts, EmptySeq DEF Text
  <2>1. ASSUME NEW key \in Key, Feed(key)
        PROVE  TypeOK'
    BY <2>1, <2>a DEF Feed, TypeOK, buffer
  <2>2. CASE Backspace
    BY <2>2, <2>a, BackspaceCall, BackspaceBuffer, TypeParts
  <2>3. CASE Commit
    <3>1. committed' \in Text
      BY <2>3, FlushText DEF Commit
    <3> QED BY <2>3, <2>a, <3>1, ClearedTypes, TypeParts DEF Commit, CallTypes
  <2>4. CASE Reset
    BY <2>4, <2>a, ClearedTypes, TypeParts DEF Reset, CallTypes
  <2>5. CASE Dispatch
    <3>1. CallTypes'
      BY <2>5, <2>a, DispatchCalls, ReturnTypes, RedispatchTypes
    <3> QED BY <2>5, <3>1, DispatchText, DispatchBuffer, TypeParts
  <2>6. CASE UNCHANGED vars
    BY <2>6 DEF TypeOK, vars
  <2> QED BY <2>1, <2>2, <2>3, <2>4, <2>5, <2>6 DEF Next, Call
<1> QED BY <1>1, <1>2, PTL DEF Spec

-----------------------------------------------------------------------------
(* The prefix buffer *)

LEMMA ClearedIsLive ==
  ASSUME Cleared
  PROVE  PrefixIsLive'
BY DEF Cleared, PrefixIsLive

\* No branch of dispatch breaks PrefixIsLive: a prefix is buffered or extended
\* only after is_strict_prefix, and cleared whenever a partial state is left.
LEMMA DispatchIsLive ==
  ASSUME TypeOK, PrefixIsLive, Dispatch
  PROVE  PrefixIsLive'
<1>e. One # <<>> /\ Extended # <<>>
  BY DispatchCalls, InputTypes, AppendProperties DEF One, Extended, TypeOK
<1>1. CASE HardTerminator
  BY <1>1, ClearedIsLive DEF HardTerminator
<1>2. CASE ConjunctAfterConsonant
  BY <1>2 DEF ConjunctAfterConsonant, PrefixIsLive
<1>3. CASE ConjunctElsewhere
  BY <1>3, ClearedIsLive DEF ConjunctElsewhere
<1>4. CASE AnusvaraKey
  BY <1>4, ClearedIsLive DEF AnusvaraKey
<1>5. CASE VisargaKey
  BY <1>5, ClearedIsLive DEF VisargaKey
<1>6. CASE IdleConsonant
  BY <1>6 DEF IdleConsonant, PrefixIsLive, Ordinary
<1>7. CASE IdleConsonantPrefix
  BY <1>7, <1>e DEF IdleConsonantPrefix, PrefixIsLive, Ordinary
<1>8. CASE IdleVowel
  BY <1>8 DEF IdleVowel, PrefixIsLive, Ordinary, buffer
<1>9. CASE IdleVowelPrefix
  BY <1>9, <1>e DEF IdleVowelPrefix, PrefixIsLive, Ordinary
<1>10. CASE IdleUnmapped
  BY <1>10 DEF IdleUnmapped, PrefixIsLive, Ordinary, buffer
<1>11. CASE ExtendConsonant
  BY <1>11, <1>e DEF ExtendConsonant, PrefixIsLive, Ordinary
<1>12. CASE CompleteConsonant
  BY <1>12 DEF CompleteConsonant, PrefixIsLive, Ordinary
<1>13. CASE ResolveConsonant
  BY <1>13 DEF ResolveConsonant, PrefixIsLive, Ordinary
<1>14. CASE DropConsonantPrefix
  BY <1>14 DEF DropConsonantPrefix, PrefixIsLive, Ordinary
<1>15. CASE PendingVowelPrefix
  BY <1>15, <1>e DEF PendingVowelPrefix, PrefixIsLive, Ordinary
<1>16. CASE PendingVowel
  BY <1>16 DEF PendingVowel, PrefixIsLive, Ordinary
<1>17. CASE PendingConsonant
  BY <1>17 DEF PendingConsonant, PrefixIsLive, Ordinary
<1>18. CASE PendingConsonantPrefix
  BY <1>18, <1>e DEF PendingConsonantPrefix, PrefixIsLive, Ordinary
<1>19. CASE PendingUnmapped
  BY <1>19 DEF PendingUnmapped, PrefixIsLive, Ordinary
<1>20. CASE ExtendVowel
  BY <1>20, <1>e DEF ExtendVowel, PrefixIsLive, Ordinary
<1>21. CASE CompleteMatra
  BY <1>21, ClearedIsLive DEF CompleteMatra
<1>22. CASE ResolveMatra
  BY <1>22 DEF ResolveMatra, PrefixIsLive, Ordinary
<1>23. CASE CompleteStandalone
  BY <1>23 DEF CompleteStandalone, PrefixIsLive, Ordinary
<1>24. CASE ResolveStandalone
  BY <1>24 DEF ResolveStandalone, PrefixIsLive, Ordinary
<1> QED BY <1>1, <1>2, <1>3, <1>4, <1>5, <1>6, <1>7, <1>8, <1>9, <1>10, <1>11,
       <1>12, <1>13, <1>14, <1>15, <1>16, <1>17, <1>18, <1>19, <1>20, <1>21,
       <1>22, <1>23, <1>24
  DEF Dispatch, DispatchRule, DispatchIdle, DispatchPartialConsonant,
      DispatchPending, DispatchVowel

\* Nor does a backspace: the front of a live prefix is live or empty.
LEMMA BackspaceIsLive ==
  ASSUME TypeOK, PrefixIsLive, Backspace
  PROVE  PrefixIsLive'
<1>a. prefix \in Seq(Key) /\ Len(prefix) \in Nat
  BY LenProperties DEF TypeOK
<1>l. ASSUME NEW trie, DOMAIN trie \subseteq Seq(Key), is_strict_prefix(trie, prefix),
             Len(prefix) > 1
      PROVE  Front(prefix) # <<>> /\ is_strict_prefix(trie, Front(prefix))
  <2>1. prefix # <<>>
    BY <1>l, EmptySeq
  <2>2. Len(Front(prefix)) = Len(prefix) - 1
    BY <1>a, <2>1, FrontProperties
  <2>3. Front(prefix) # <<>>
    BY <1>a, <1>l, <2>2, EmptySeq
  <2> QED BY <1>a, <1>l, <2>1, <2>3, FrontIsStrictPrefix
<1>s. ASSUME NEW s \in Seq(Key), s # <<>>, ~ Len(s) > 1
      PROVE  Front(s) = <<>>
  <2>1. Len(s) \in Nat /\ Front(s) \in Seq(Key) /\ Len(Front(s)) = Len(s) - 1
    BY <1>s, FrontProperties, LenProperties
  <2>2. Len(Front(s)) = 0
    BY <1>s, <2>1, LenProperties
  <2> QED BY <2>1, <2>2, EmptySeq
<1>k. DOMAIN Consonants \subseteq Seq(Key) /\ DOMAIN Vowels \subseteq Seq(Key)
  BY KeymapTypes
<1>1. CASE BackspaceIdle
  BY <1>1 DEF BackspaceIdle, PrefixIsLive, buffer
<1>2. CASE BackspacePrefix
  <2>1. CASE Len(prefix) > 1
    BY <1>2, <2>1, <1>l, <1>k DEF BackspacePrefix, BackspaceWhen, PrefixIsLive
  <2>2. CASE ~ Len(prefix) > 1
    BY <1>2, <2>2, ClearedIsLive DEF BackspacePrefix
  <2> QED BY <2>1, <2>2
<1>3. CASE BackspaceConsonant
  BY <1>3 DEF BackspaceConsonant, BackspaceWhen, PrefixIsLive
<1>4. CASE BackspaceVowel
  <2>1. state = "PartialVowel" /\ prefix # <<>> /\ is_strict_prefix(Vowels, prefix)
    BY <1>4 DEF BackspaceVowel, BackspaceWhen, PrefixIsLive
  <2>2. prefix' = Front(prefix)
    BY <1>4, <2>1 DEF BackspaceVowel
  <2>3. CASE Len(prefix) > 1
    BY <1>4, <2>1, <2>2, <2>3, <1>l, <1>k DEF BackspaceVowel, PrefixIsLive
  <2>4. CASE ~ Len(prefix) > 1
    <3>1. prefix' = <<>>
      BY <1>a, <1>s, <2>1, <2>2, <2>4
    <3> QED BY <1>4, <2>4, <3>1 DEF BackspaceVowel, PrefixIsLive
  <2> QED BY <2>3, <2>4
<1> QED BY <1>1, <1>2, <1>3, <1>4 DEF Backspace

\* The prefix buffer is live in the partial states and empty in the others, under
\* every keymap: the unguarded prefix_.begin() + 1 is always defined.
THEOREM PrefixAlwaysLive == Spec => []PrefixIsLive
<1>1. Init => PrefixIsLive
  BY DEF Init, PrefixIsLive
<1>2. TypeOK /\ PrefixIsLive /\ [Next]_vars => PrefixIsLive'
  <2> SUFFICES ASSUME TypeOK, PrefixIsLive, [Next]_vars
               PROVE  PrefixIsLive'
    OBVIOUS
  <2>1. ASSUME NEW key \in Key, Feed(key)
        PROVE  PrefixIsLive'
    BY <2>1 DEF Feed, PrefixIsLive, buffer
  <2>2. CASE Backspace
    BY <2>2, BackspaceIsLive
  <2>3. CASE Commit
    BY <2>3, ClearedIsLive DEF Commit
  <2>4. CASE Reset
    BY <2>4, ClearedIsLive DEF Reset
  <2>5. CASE Dispatch
    BY <2>5, DispatchIsLive
  <2>6. CASE UNCHANGED vars
    BY <2>6 DEF PrefixIsLive, vars
  <2> QED BY <2>1, <2>2, <2>3, <2>4, <2>5, <2>6 DEF Next, Call
<1> QED BY <1>1, <1>2, TypeCorrect, PTL DEF Spec

-----------------------------------------------------------------------------
(* Re-feeding *)

\* The branches that re-feed start in a partial state and end in one whose
\* branches return.
LEMMA RedispatchStates ==
  ASSUME Dispatch
  PROVE  \/ depth' = 0
         \/ /\ Redispatch
            /\ state \in {"PartialConsonant", "PartialVowel", "PartialVowelStandalone"}
            /\ state' \in {"Idle", "ConsonantPending"}
<1>1. CASE HardTerminator
  BY <1>1 DEF HardTerminator, Return
<1>2. CASE ConjunctAfterConsonant
  BY <1>2 DEF ConjunctAfterConsonant, Return
<1>3. CASE ConjunctElsewhere
  BY <1>3 DEF ConjunctElsewhere, Return
<1>4. CASE AnusvaraKey
  BY <1>4 DEF AnusvaraKey, Return
<1>5. CASE VisargaKey
  BY <1>5 DEF VisargaKey, Return
<1>6. CASE IdleConsonant
  BY <1>6 DEF IdleConsonant, Return
<1>7. CASE IdleConsonantPrefix
  BY <1>7 DEF IdleConsonantPrefix, Return
<1>8. CASE IdleVowel
  BY <1>8 DEF IdleVowel, Return
<1>9. CASE IdleVowelPrefix
  BY <1>9 DEF IdleVowelPrefix, Return
<1>10. CASE IdleUnmapped
  BY <1>10 DEF IdleUnmapped, Return
<1>11. CASE ExtendConsonant
  BY <1>11 DEF ExtendConsonant, Return
<1>12. CASE CompleteConsonant
  BY <1>12 DEF CompleteConsonant, Return
<1>13. CASE ResolveConsonant
  BY <1>13 DEF ResolveConsonant, Ordinary
<1>14. CASE DropConsonantPrefix
  BY <1>14 DEF DropConsonantPrefix, Ordinary
<1>15. CASE PendingVowelPrefix
  BY <1>15 DEF PendingVowelPrefix, Return
<1>16. CASE PendingVowel
  BY <1>16 DEF PendingVowel, Return
<1>17. CASE PendingConsonant
  BY <1>17 DEF PendingConsonant, Return
<1>18. CASE PendingConsonantPrefix
  BY <1>18 DEF PendingConsonantPrefix, Return
<1>19. CASE PendingUnmapped
  BY <1>19 DEF PendingUnmapped, Return
<1>20. CASE ExtendVowel
  BY <1>20 DEF ExtendVowel, Return
<1>21. CASE CompleteMatra
  BY <1>21 DEF CompleteMatra, Return
<1>22. CASE ResolveMatra
  BY <1>22 DEF ResolveMatra, Ordinary
<1>23. CASE CompleteStandalone
  BY <1>23 DEF CompleteStandalone, Return
<1>24. CASE ResolveStandalone
  BY <1>24 DEF ResolveStandalone, Ordinary
<1> QED BY <1>1, <1>2, <1>3, <1>4, <1>5, <1>6, <1>7, <1>8, <1>9, <1>10, <1>11,
       <1>12, <1>13, <1>14, <1>15, <1>16, <1>17, <1>18, <1>19, <1>20, <1>21,
       <1>22, <1>23, <1>24
  DEF Dispatch, DispatchRule, DispatchIdle, DispatchPartialConsonant,
      DispatchPending, DispatchVowel

\* feed() never recurses deeper than one re-feed, under every keymap.
THEOREM RefeedAlwaysBounded == Spec => []RefeedBounded
<1>1. Init => RefeedBounded
  BY DEF Init, RefeedBounded
<1>2. TypeOK /\ RefeedBounded /\ [Next]_vars => RefeedBounded'
  <2> SUFFICES ASSUME TypeOK, RefeedBounded, [Next]_vars
               PROVE  RefeedBounded'
    OBVIOUS
  <2>1. ASSUME NEW key \in Key, Feed(key)
        PROVE  RefeedBounded'
    BY <2>1 DEF Feed, RefeedBounded
  <2>2. CASE Backspace \/ Commit \/ Reset
    <3>1. depth' = 0
      BY <2>2 DEF Backspace, BackspaceIdle, BackspacePrefix, BackspaceConsonant,
                  BackspaceVowel, BackspaceWhen, Commit, Reset, AtRest
    <3> QED BY <3>1 DEF RefeedBounded
  <2>3. CASE Dispatch
    <3>1. CASE depth' = 0
      BY <3>1 DEF RefeedBounded
    <3>2. CASE /\ Redispatch
               /\ state \in {"PartialConsonant", "PartialVowel", "PartialVowelStandalone"}
               /\ state' \in {"Idle", "ConsonantPending"}
      <4>1. depth = 1
        BY <2>3, <3>2, DispatchCalls DEF RefeedBounded, TypeOK
      <4> QED BY <3>2, <4>1 DEF RefeedBounded, Redispatch
    <3> QED BY <2>3, <3>1, <3>2, RedispatchStates
  <2>4. CASE UNCHANGED vars
    BY <2>4 DEF RefeedBounded, vars
  <2> QED BY <2>1, <2>2, <2>3, <2>4 DEF Next, Call
<1> QED BY <1>1, <1>2, TypeCorrect, PTL DEF Spec

-----------------------------------------------------------------------------
(* The buffered consonant *)

\* Without gaps, the prefix buffered in a vowel state is a vowel by itself.
LEMMA LiveVowelIsExact ==
  ASSUME VowelsHaveNoGaps, NEW seq \in Seq(Key), seq # <<>>, is_strict_prefix(Vowels, seq)
  PROVE  Exact(Vowels, seq)
<1>1. PICK key \in DOMAIN Vowels : IsStrictPrefix(seq, key)
  BY DEF is_strict_prefix
<1>2. key \in Seq(Key) /\ Len(seq) \in Nat \ {0} /\ Len(key) \in Nat
  BY KeymapTypes, EmptySeq, LenProperties
<1>3. Len(seq) < Len(key)
  BY <1>1, <1>2, StrictPrefixPointwise
<1>4. SubSeq(key, 1, Len(seq)) = seq
  BY <1>1, SubSeqFull DEF IsStrictPrefix, IsPrefix
<1>5. Len(seq) \in 1..(Len(key) - 1)
  BY <1>2, <1>3
<1> QED BY <1>4, <1>5 DEF VowelsHaveNoGaps

\* ResolveMatra always finds its vowel.
LEMMA MatraResolves ==
  ASSUME VowelsHaveNoGaps, TypeOK, PrefixIsLive, ResolveMatra
  PROVE  Exact(Vowels, prefix)
BY LiveVowelIsExact DEF ResolveMatra, Ordinary, PrefixIsLive, TypeOK

LEMMA DispatchShape ==
  ASSUME VowelsHaveNoGaps, TypeOK, PrefixIsLive, BufferShape, Dispatch
  PROVE  BufferShape'
<1>1. CASE HardTerminator
  BY <1>1 DEF HardTerminator, Cleared, BufferShape
<1>2. CASE ConjunctAfterConsonant
  BY <1>2 DEF ConjunctAfterConsonant, BufferShape
<1>3. CASE ConjunctElsewhere
  BY <1>3 DEF ConjunctElsewhere, Cleared, BufferShape
<1>4. CASE AnusvaraKey
  BY <1>4 DEF AnusvaraKey, Cleared, BufferShape
<1>5. CASE VisargaKey
  BY <1>5 DEF VisargaKey, Cleared, BufferShape
<1>6. CASE IdleConsonant
  BY <1>6 DEF IdleConsonant, BufferShape, Ordinary
<1>7. CASE IdleConsonantPrefix
  BY <1>7 DEF IdleConsonantPrefix, BufferShape, Ordinary
<1>8. CASE IdleVowel
  BY <1>8 DEF IdleVowel, BufferShape, Ordinary, buffer
<1>9. CASE IdleVowelPrefix
  BY <1>9 DEF IdleVowelPrefix, BufferShape, Ordinary
<1>10. CASE IdleUnmapped
  BY <1>10 DEF IdleUnmapped, BufferShape, Ordinary, buffer
<1>11. CASE ExtendConsonant
  BY <1>11 DEF ExtendConsonant, BufferShape, Ordinary
<1>12. CASE CompleteConsonant
  BY <1>12 DEF CompleteConsonant, BufferShape, Ordinary
<1>13. CASE ResolveConsonant
  BY <1>13 DEF ResolveConsonant, BufferShape, Ordinary
<1>14. CASE DropConsonantPrefix
  BY <1>14 DEF DropConsonantPrefix, BufferShape, Ordinary
<1>15. CASE PendingVowelPrefix
  BY <1>15 DEF PendingVowelPrefix, BufferShape, Ordinary
<1>16. CASE PendingVowel
  BY <1>16 DEF PendingVowel, BufferShape, Ordinary
<1>17. CASE PendingConsonant
  BY <1>17 DEF PendingConsonant, BufferShape, Ordinary
<1>18. CASE PendingConsonantPrefix
  BY <1>18 DEF PendingConsonantPrefix, BufferShape, Ordinary
<1>19. CASE PendingUnmapped
  BY <1>19 DEF PendingUnmapped, BufferShape, Ordinary
<1>20. CASE ExtendVowel
  BY <1>20 DEF ExtendVowel, BufferShape, Ordinary
<1>21. CASE CompleteMatra
  BY <1>21 DEF CompleteMatra, Cleared, BufferShape
<1>22. CASE ResolveMatra
  BY <1>22, MatraResolves DEF ResolveMatra, BufferShape
<1>23. CASE CompleteStandalone
  BY <1>23 DEF CompleteStandalone, BufferShape, Ordinary
<1>24. CASE ResolveStandalone
  BY <1>24 DEF ResolveStandalone, BufferShape, Ordinary
<1> QED BY <1>1, <1>2, <1>3, <1>4, <1>5, <1>6, <1>7, <1>8, <1>9, <1>10, <1>11,
       <1>12, <1>13, <1>14, <1>15, <1>16, <1>17, <1>18, <1>19, <1>20, <1>21,
       <1>22, <1>23, <1>24
  DEF Dispatch, DispatchRule, DispatchIdle, DispatchPartialConsonant,
      DispatchPending, DispatchVowel

\* A consonant is never left in the buffer of a state that does not expect it.
THEOREM BufferAlwaysShaped ==
  ASSUME VowelsHaveNoGaps
  PROVE  Spec => []BufferShape
<1>1. Init => BufferShape
  BY DEF Init, BufferShape
<1>2. TypeOK /\ PrefixIsLive /\ BufferShape /\ [Next]_vars => BufferShape'
  <2> SUFFICES ASSUME TypeOK, PrefixIsLive, BufferShape, [Next]_vars
               PROVE  BufferShape'
    OBVIOUS
  <2>1. ASSUME NEW key \in Key, Feed(key)
        PROVE  BufferShape'
    BY <2>1 DEF Feed, BufferShape, buffer
  <2>2. CASE Backspace
    BY <2>2 DEF Backspace, BackspaceIdle, BackspacePrefix, BackspaceConsonant,
                BackspaceVowel, BackspaceWhen, BufferShape, buffer, Cleared
  <2>3. CASE Commit \/ Reset
    BY <2>3 DEF Commit, Reset, Cleared, BufferShape
  <2>4. CASE Dispatch
    BY <2>4, DispatchShape
  <2>5. CASE UNCHANGED vars
    BY <2>5 DEF BufferShape, vars
  <2> QED BY <2>1, <2>2, <2>3, <2>4, <2>5 DEF Next, Call
<1> QED BY <1>1, <1>2, TypeCorrect, PrefixAlwaysLive, PTL DEF Spec

Emitted(letter) == \E i \in DOMAIN committed' : committed'[i] = letter

\* What is appended first comes right after what was there.
LEMMA ConcatFirst ==
  ASSUME NEW S, NEW s \in Seq(S), NEW t \in Seq(S), t # <<>>
  PROVE  Len(s) + 1 \in DOMAIN (s \o t) /\ (s \o t)[Len(s) + 1] = t[1]
<1>1. /\ s \o t \in Seq(S)
      /\ Len(s \o t) = Len(s) + Len(t)
      /\ \A i \in 1..(Len(s) + Len(t)) :
           (s \o t)[i] = IF i <= Len(s) THEN s[i] ELSE t[i - Len(s)]
  BY ConcatProperties
<1>2. Len(s) \in Nat /\ Len(t) \in Nat \ {0}
  BY EmptySeq, LenProperties
<1>3. Len(s) + 1 \in 1..(Len(s) + Len(t)) /\ ~ Len(s) + 1 <= Len(s) /\ Len(s) + 1 - Len(s) = 1
  BY <1>2
<1>4. DOMAIN (s \o t) = 1..(Len(s) + Len(t))
  BY <1>1, LenProperties
<1>5. (s \o t)[Len(s) + 1] = t[1]
  BY <1>1, <1>3
<1> QED BY <1>3, <1>4, <1>5

\* Text that starts with a letter puts that letter into what is committed.
LEMMA StartIsEmitted ==
  ASSUME committed \in Text, NEW letter \in Letter, NEW t \in Text,
         Emit(<<letter>> \o t)
  PROVE  Emitted(letter)
<1>1. /\ committed \in Seq(Letter \cup Char) /\ t \in Seq(Letter \cup Char)
      /\ <<letter>> \in Seq(Letter \cup Char)
  BY DEF Text
<1>2. <<letter>> \o t \in Seq(Letter \cup Char) /\ <<letter>> \o t # <<>>
  BY <1>1, ConcatProperties, ConcatEqualIffEmpty
<1>3. (<<letter>> \o t)[1] = letter
  <2>1. (<<letter>> \o t)[1] = <<letter>>[1]
    <3>1. Len(<<letter>>) = 1 /\ Len(t) \in Nat
      BY <1>1, LenProperties
    <3>2. \A i \in 1..(Len(<<letter>>) + Len(t)) :
            (<<letter>> \o t)[i] = IF i <= Len(<<letter>>) THEN <<letter>>[i]
                                    ELSE t[i - Len(<<letter>>)]
      BY <1>1, ConcatProperties
    <3> QED BY <3>1, <3>2
  <2> QED BY <2>1
<1>4. committed' = committed \o (<<letter>> \o t)
  BY DEF Emit
<1>5. /\ Len(committed) + 1 \in DOMAIN committed'
      /\ committed'[Len(committed) + 1] = letter
  BY <1>1, <1>2, <1>3, <1>4, ConcatFirst
<1> QED BY <1>5 DEF Emitted

\* A text whose first letter is the buffered consonant.
Leads(text) == text \in Text /\ text # <<>> /\ text[1] = pending

LEMMA LeadsConcat ==
  ASSUME NEW s, Leads(s), NEW t \in Text
  PROVE  Leads(s \o t)
<1>1. s \in Seq(Letter \cup Char) /\ t \in Seq(Letter \cup Char) /\ s # <<>>
  BY DEF Leads, Text
<1>2. Len(s) \in Nat \ {0} /\ Len(t) \in Nat
  BY <1>1, EmptySeq, LenProperties
<1>3. /\ s \o t \in Seq(Letter \cup Char)
      /\ \A i \in 1..(Len(s) + Len(t)) :
           (s \o t)[i] = IF i <= Len(s) THEN s[i] ELSE t[i - Len(s)]
      /\ s \o t # <<>>
  BY <1>1, ConcatProperties, ConcatEqualIffEmpty
<1>4. (s \o t)[1] = s[1]
  BY <1>2, <1>3
<1> QED BY <1>3, <1>4 DEF Leads, Text

LEMMA LeadsAppend ==
  ASSUME NEW s, Leads(s), NEW c \in Letter \cup Char
  PROVE  Leads(Append(s, c))
<1>1. s \in Seq(Letter \cup Char)
  BY DEF Leads, Text
<1>2. Append(s, c) = s \o <<c>>
  BY <1>1, AppendIsConcat
<1> QED BY <1>2, LeadsConcat, OneLetterText

LEMMA LeadsEmitted ==
  ASSUME committed \in Text, NEW t, Leads(t), Emit(t)
  PROVE  Emitted(pending)
<1>1. committed \in Seq(Letter \cup Char) /\ t \in Seq(Letter \cup Char) /\ t # <<>>
  BY DEF Leads, Text
<1>2. Len(committed) + 1 \in DOMAIN (committed \o t) /\ (committed \o t)[Len(committed) + 1] = t[1]
  BY <1>1, ConcatFirst
<1> QED BY <1>2 DEF Emit, Emitted, Leads

\* Every flush in a state that holds a consonant starts with it.
LEMMA FlushLeads ==
  ASSUME TypeOK, pending # NoLetter
  PROVE  /\ Leads(<<pending>>)
         /\ Optional(pending) = <<pending>>
         /\ Leads(flush_consonant_plain)
         /\ Leads(flush_consonant_with_virama)
         /\ Leads(flush_consonant_matra)
         /\ state \in {"ConsonantPending", "PartialVowel"} => Leads(SoftCommit) /\ Leads(HardCommit)
<1>1. Leads(<<pending>>) /\ Optional(pending) = <<pending>>
  BY OneLetterText DEF Leads, TypeOK, Optional
<1>2. Leads(flush_consonant_plain)
  BY <1>1 DEF flush_consonant_plain
<1>3. Leads(flush_consonant_with_virama)
  <2>1. virama \in Letter \cup Char
    BY KeymapTypes
  <2>2. flush_consonant_with_virama = Append(<<pending>>, virama)
    BY <1>1 DEF flush_consonant_with_virama, WithVirama
  <2> QED BY <1>1, <2>1, <2>2, LeadsAppend
<1>4. Leads(flush_consonant_matra)
  BY <1>1, VowelText, LeadsConcat DEF flush_consonant_matra
<1>5. ASSUME state \in {"ConsonantPending", "PartialVowel"}
      PROVE  Leads(SoftCommit) /\ Leads(HardCommit)
  BY <1>2, <1>3, <1>4, <1>5 DEF SoftCommit, HardCommit
<1> QED BY <1>1, <1>2, <1>3, <1>4, <1>5

\* A branch of dispatch that takes the consonant out of the buffer commits it.
LEMMA DispatchKeepsConsonant ==
  ASSUME VowelsHaveNoGaps, TypeOK, PrefixIsLive, BufferShape, Dispatch,
         pending # NoLetter, pending' # pending
  PROVE  Emitted(pending)
<1>a. committed \in Text /\ state \in {"ConsonantPending", "PartialVowel"}
  BY DEF TypeOK, BufferShape
<1>f. /\ Leads(<<pending>>)
      /\ Optional(pending) = <<pending>>
      /\ Leads(flush_consonant_plain)
      /\ Leads(flush_consonant_with_virama)
      /\ Leads(flush_consonant_matra)
      /\ Leads(SoftCommit)
      /\ Leads(HardCommit)
  BY <1>a, FlushLeads
<1>s. Leads(Append(SoftCommit, anusvara)) /\ Leads(Append(SoftCommit, visarga))
  BY <1>f, KeymapTypes, LeadsAppend
<1>1. CASE HardTerminator
  BY <1>1, <1>a, <1>f, LeadsEmitted DEF HardTerminator
<1>2. CASE ConjunctAfterConsonant
  <2>1. <<pending, virama, zwj>> \in Text
    BY KeymapTypes DEF TypeOK, Text
  <2>2. <<pending, virama, zwj>> # <<>> /\ <<pending, virama, zwj>>[1] = pending
    OBVIOUS
  <2>3. Leads(<<pending, virama, zwj>>)
    BY <2>1, <2>2 DEF Leads
  <2> QED BY <1>2, <1>a, <2>3, LeadsEmitted DEF ConjunctAfterConsonant
<1>3. CASE ConjunctElsewhere
  BY <1>3, <1>a, <1>f, LeadsEmitted DEF ConjunctElsewhere
<1>4. CASE AnusvaraKey
  BY <1>4, <1>a, <1>s, LeadsEmitted DEF AnusvaraKey
<1>5. CASE VisargaKey
  BY <1>5, <1>a, <1>s, LeadsEmitted DEF VisargaKey
<1>6. CASE DispatchIdle \/ DispatchPartialConsonant
  BY <1>6, <1>a DEF DispatchIdle, IdleConsonant, IdleConsonantPrefix, IdleVowel,
       IdleVowelPrefix, IdleUnmapped, DispatchPartialConsonant, ExtendConsonant,
       CompleteConsonant, ResolveConsonant, DropConsonantPrefix, Ordinary
<1>7. CASE PendingVowelPrefix
  BY <1>7 DEF PendingVowelPrefix
<1>8. CASE PendingVowel
  BY <1>8, <1>a, <1>f, VowelText, LeadsConcat, LeadsEmitted DEF PendingVowel
<1>9. CASE PendingConsonant
  BY <1>9, <1>a, <1>f, LeadsEmitted DEF PendingConsonant
<1>10. CASE PendingConsonantPrefix
  BY <1>10, <1>a, <1>f, LeadsEmitted DEF PendingConsonantPrefix
<1>11. CASE PendingUnmapped
  <2>1. Passthrough(input) \in Text
    BY DispatchCalls, InputTypes, PassthroughText
  <2> QED BY <1>11, <1>a, <1>f, <2>1, LeadsConcat, LeadsEmitted DEF PendingUnmapped
<1>12. CASE ExtendVowel
  BY <1>12 DEF ExtendVowel
<1>13. CASE CompleteMatra
  BY <1>13, <1>a, <1>f, VowelText, LeadsConcat, LeadsEmitted DEF CompleteMatra
<1>14. CASE ResolveMatra
  BY <1>14, <1>a, <1>f, MatraResolves, LeadsEmitted DEF ResolveMatra
<1>15. CASE CompleteStandalone \/ ResolveStandalone
  BY <1>15, <1>a DEF CompleteStandalone, ResolveStandalone, Ordinary
<1> QED BY <1>1, <1>2, <1>3, <1>4, <1>5, <1>6, <1>7, <1>8, <1>9, <1>10, <1>11, <1>12,
           <1>13, <1>14, <1>15
    DEF Dispatch, DispatchRule, DispatchPending, DispatchVowel

\* Under a keymap without vowel gaps no call loses the buffered consonant.
THEOREM ConsonantNeverLost ==
  ASSUME VowelsHaveNoGaps
  PROVE  Spec => NoConsonantLost
<1> DEFINE Step == pending # NoLetter /\ pending' # pending =>
                     Backspace \/ Reset \/ \E i \in DOMAIN committed' : committed'[i] = pending
<1>1. TypeOK /\ PrefixIsLive /\ BufferShape /\ [Next]_vars => [Step]_vars
  <2> SUFFICES ASSUME TypeOK, PrefixIsLive, BufferShape, Next,
                      pending # NoLetter, pending' # pending
               PROVE  Backspace \/ Reset \/ Emitted(pending)
    BY DEF Emitted
  <2>1. ASSUME NEW key \in Key, Feed(key)
        PROVE  FALSE
    BY <2>1 DEF Feed, buffer
  <2>2. CASE Commit
    <3>1. Leads(SoftCommit)
      BY FlushLeads DEF BufferShape
    <3>2. committed' \in Seq(Letter \cup Char) /\ committed' # <<>> /\ committed'[1] = pending
      BY <2>2, <3>1 DEF Commit, Leads, Text
    <3>3. 1 \in DOMAIN committed'
      BY <3>2, EmptySeq, LenProperties
    <3> QED BY <3>2, <3>3 DEF Emitted
  <2>3. CASE Dispatch
    BY <2>3, DispatchKeepsConsonant
  <2> QED BY <2>1, <2>2, <2>3 DEF Next, Call
<1> QED BY <1>1, TypeCorrect, PrefixAlwaysLive, BufferAlwaysShaped, PTL
    DEF Spec, NoConsonantLost

-----------------------------------------------------------------------------
(* Backspace *)

\* Under every keymap without vowel gaps a backspace takes back the last key, or the
\* consonant, and nothing else; it is passed through exactly when there is nothing to take
\* back and no hollow consonant.
THEOREM BackspaceAlwaysShrinks ==
  ASSUME VowelsHaveNoGaps
  PROVE  Spec => BackspaceShrinks
<1> DEFINE Step == Backspace => /\ TakenBack
                                /\ committed' = <<>>
                                /\ consumed' = (prefix # <<>> \/ pending # NoLetter \/ HollowConsonant)
<1>1. TypeOK /\ PrefixIsLive /\ BufferShape /\ [Next]_vars => [Step]_vars
  <2> SUFFICES ASSUME TypeOK, PrefixIsLive, BufferShape, Backspace
               PROVE  Step
    OBVIOUS
  <2>1. CASE BackspaceIdle
    <3>1. /\ state = "Idle" /\ prefix = <<>> /\ pending = NoLetter
          /\ prefix' = prefix /\ pending' = pending
      BY <2>1 DEF BackspaceIdle, BackspaceWhen, PrefixIsLive, BufferShape, buffer
    <3>2. consumed' = FALSE /\ committed' = <<>> /\ HollowConsonant = FALSE
      BY <2>1, <3>1 DEF BackspaceIdle, BackspaceWhen, HollowConsonant
    <3> QED BY <3>1, <3>2 DEF TakenBack
  <2>2. CASE BackspaceConsonant
    <3>1. /\ state = "ConsonantPending" /\ prefix = <<>>
          /\ prefix' = prefix /\ pending' = NoLetter
      BY <2>2 DEF BackspaceConsonant, BackspaceWhen, PrefixIsLive
    <3>2. consumed' = TRUE /\ committed' = <<>> /\ (pending # NoLetter \/ HollowConsonant)
      BY <2>2, <3>1 DEF BackspaceConsonant, BackspaceWhen, HollowConsonant
    <3> QED BY <3>1, <3>2 DEF TakenBack
  <2>3. CASE BackspacePrefix \/ BackspaceVowel
    <3>1. /\ prefix # <<>> /\ consumed' = TRUE /\ committed' = <<>>
          /\ state \in {"PartialConsonant", "PartialVowel", "PartialVowelStandalone"}
      BY <2>3 DEF BackspacePrefix, BackspaceVowel, BackspaceWhen, PrefixIsLive
    <3>2. /\ prefix \in Seq(Key) /\ Len(prefix) \in Nat /\ Len(prefix) >= 1
          /\ Front(prefix) \in Seq(Key) /\ Len(Front(prefix)) = Len(prefix) - 1
      BY <3>1, EmptySeq, LenProperties, FrontProperties DEF TypeOK
    <3>3. ~ Len(prefix) > 1 => Front(prefix) = <<>>
      BY <3>2, EmptySeq
    <3>4. prefix' = Front(prefix) /\ pending' = pending
      <4>1. CASE BackspaceVowel
        BY <3>1, <4>1 DEF BackspaceVowel
      <4>2. CASE BackspacePrefix /\ Len(prefix) > 1
        BY <4>2 DEF BackspacePrefix
      <4>3. CASE BackspacePrefix /\ ~ Len(prefix) > 1
        <5>1. pending = NoLetter
          BY <4>3 DEF BackspacePrefix, BackspaceWhen, BufferShape
        <5> QED BY <3>3, <4>3, <5>1 DEF BackspacePrefix, Cleared
      <4> QED BY <2>3, <4>1, <4>2, <4>3
    <3> QED BY <3>1, <3>4 DEF TakenBack
  <2> QED BY <2>1, <2>2, <2>3 DEF Backspace
<1> QED BY <1>1, TypeCorrect, PrefixAlwaysLive, BufferAlwaysShaped, PTL DEF Spec, BackspaceShrinks

-----------------------------------------------------------------------------
(* Viramas *)

LEMMA WellSignedConcat ==
  ASSUME NEW s \in Text, NEW t \in Text, WellSigned(s), WellSigned(t)
  PROVE  WellSigned(s \o t)
<1> DEFINE u == s \o t
<1>1. s \in Seq(Letter \cup Char) /\ t \in Seq(Letter \cup Char)
  BY DEF Text
<1>2. /\ s \o t \in Seq(Letter \cup Char)
      /\ Len(s \o t) = Len(s) + Len(t)
      /\ \A i \in 1..(Len(s) + Len(t)) :
           (s \o t)[i] = IF i <= Len(s) THEN s[i] ELSE t[i - Len(s)]
  BY <1>1, ConcatProperties
<1>3. /\ DOMAIN (s \o t) = 1..(Len(s) + Len(t))
      /\ DOMAIN s = 1..Len(s) /\ DOMAIN t = 1..Len(t)
      /\ Len(s) \in Nat /\ Len(t) \in Nat
  BY <1>1, <1>2, LenProperties
<1> HIDE DEF u
<1>4. /\ \A i \in 1..Len(s) : u[i] = s[i]
      /\ \A i \in 1..Len(t) : u[Len(s) + i] = t[i]
  BY <1>2, <1>3 DEF u
<1>5. ASSUME NEW i \in DOMAIN u
      PROVE  /\ u[i] = virama => i > 1 /\ u[i - 1] \in ConsonantLetters
             /\ u[i] = zwj => i > 1 /\ u[i - 1] = virama
  <2>1. i \in 1..(Len(s) + Len(t))
    BY <1>3, <1>5 DEF u
  <2>2. CASE i <= Len(s)
    <3>1. i \in 1..Len(s) /\ u[i] = s[i] /\ (i > 1 => u[i - 1] = s[i - 1])
      BY <2>1, <2>2, <1>3, <1>4
    <3> QED BY <3>1, <1>3 DEF WellSigned
  <2>3. CASE i > Len(s)
    <3>1. PICK j \in 1..Len(t) : i = Len(s) + j
      <4>1. i - Len(s) \in 1..Len(t) /\ i = Len(s) + (i - Len(s))
        BY <2>1, <2>3, <1>3
      <4> QED BY <4>1
    <3>2. u[i] = t[j] /\ (j > 1 => i > 1 /\ u[i - 1] = t[j - 1])
      <4>1. j > 1 => j - 1 \in 1..Len(t) /\ i - 1 = Len(s) + (j - 1) /\ i > 1
        BY <3>1, <1>3
      <4> QED BY <3>1, <4>1, <1>4
    <3>3. /\ t[j] = virama => j > 1 /\ t[j - 1] \in ConsonantLetters
          /\ t[j] = zwj => j > 1 /\ t[j - 1] = virama
      BY <1>3 DEF WellSigned
    <3> QED BY <3>2, <3>3
  <2> QED BY <2>1, <2>2, <2>3, <1>3
<1> QED BY <1>5 DEF WellSigned, u

LEMMA WellSignedSmall ==
  ASSUME SignsAreDistinct
  PROVE  /\ WellSigned(<<>>)
         /\ \A c : c \notin {virama, zwj} => WellSigned(<<c>>)
         /\ \A c \in ConsonantLetters :
              WellSigned(<<c>>) /\ WellSigned(<<c, virama>>) /\ WellSigned(<<c, virama, zwj>>)
<1>1. virama # zwj /\ virama \notin ConsonantLetters /\ zwj \notin ConsonantLetters
  BY DEF SignsAreDistinct
<1>2. WellSigned(<<>>)
  BY DEF WellSigned
<1>3. ASSUME NEW c, c \notin {virama, zwj}
      PROVE  WellSigned(<<c>>)
  BY <1>3 DEF WellSigned
<1>4. ASSUME NEW c \in ConsonantLetters
      PROVE  WellSigned(<<c, virama>>) /\ WellSigned(<<c, virama, zwj>>)
  <2>1. c # virama /\ c # zwj
    BY <1>1
  <2> QED BY <1>1, <2>1 DEF WellSigned
<1> QED BY <1>1, <1>2, <1>3, <1>4

\* The buffered consonant is one the keymap maps to.
PendingIsConsonant == pending \in ConsonantLetters \cup {NoLetter}

LEMMA ConsonantIsMapped ==
  ASSUME NEW seq, Exact(Consonants, seq)
  PROVE  Consonants[seq] \in ConsonantLetters
BY DEF Exact, ConsonantLetters

\* A sign of the keymap, or a character, that is neither virama nor ZWJ.
LEMMA VowelWellSigned ==
  ASSUME SignsAreDistinct, NEW seq
  PROVE  WellSigned(MatraOf(seq)) /\ WellSigned(StandaloneOf(seq))
<1>1. CASE Exact(Vowels, seq)
  <2>1. Vowels[seq] \in VowelEntry
    BY <1>1, KeymapTypes DEF Exact
  <2>2. Vowels[seq].matra = NoLetter \/ Vowels[seq].matra \in Matras
    BY <1>1 DEF Matras, Exact
  <2>3. Vowels[seq].standalone = NoLetter \/ Vowels[seq].standalone \in StandaloneVowels
    BY <1>1 DEF StandaloneVowels, Exact
  <2>4. WellSigned(Optional(Vowels[seq].matra))
    BY <2>2, WellSignedSmall DEF Optional, SignsAreDistinct
  <2>5. WellSigned(Optional(Vowels[seq].standalone))
    BY <2>3, WellSignedSmall DEF Optional, SignsAreDistinct
  <2> QED BY <1>1, <2>4, <2>5 DEF MatraOf, StandaloneOf
<1>2. CASE ~ Exact(Vowels, seq)
  BY <1>2, WellSignedSmall DEF MatraOf, StandaloneOf
<1> QED BY <1>1, <1>2

LEMMA PassthroughWellSigned ==
  ASSUME SignsAreDistinct, NEW key \in Key
  PROVE  WellSigned(Passthrough(key))
<1>1. base_ascii(key) \in Char /\ virama \in Letter /\ zwj \in Letter
  BY KeymapTypes DEF base_ascii, Key
<1>2. base_ascii(key) \notin {virama, zwj}
  BY <1>1, KeymapTypes
<1> QED BY <1>2, WellSignedSmall DEF Passthrough

LEMMA AppendToOne ==
  ASSUME NEW c, NEW d
  PROVE  Append(<<c>>, d) = <<c, d>>
<1> DEFINE S == {c, d}
<1>1. <<c>> \in Seq(S) /\ Len(<<c>>) = 1 /\ <<c>>[1] = c /\ d \in S
  OBVIOUS
<1>2. <<c, d>> \in Seq(S) /\ Len(<<c, d>>) = 2 /\ <<c, d>>[1] = c /\ <<c, d>>[2] = d
  OBVIOUS
<1> HIDE DEF S
<1>3. /\ Append(<<c>>, d) \in Seq(S)
      /\ Len(Append(<<c>>, d)) = 2
      /\ Append(<<c>>, d)[1] = c
      /\ Append(<<c>>, d)[2] = d
  <2>1. /\ Append(<<c>>, d) \in Seq(S)
        /\ Len(Append(<<c>>, d)) = Len(<<c>>) + 1
        /\ \A i \in 1..Len(<<c>>) : Append(<<c>>, d)[i] = <<c>>[i]
        /\ Append(<<c>>, d)[Len(<<c>>) + 1] = d
    BY <1>1, AppendProperties
  <2> QED BY <1>1, <2>1
<1>4. \A i \in 1..2 : Append(<<c>>, d)[i] = <<c, d>>[i]
  BY <1>2, <1>3
<1> QED BY <1>2, <1>3, <1>4, SeqEqual

LEMMA WithViramaWellSigned ==
  ASSUME SignsAreDistinct, NEW c \in ConsonantLetters
  PROVE  WithVirama(<<c>>) = <<c, virama>> /\ WellSigned(WithVirama(<<c>>))
<1>1. WithVirama(<<c>>) = <<c, virama>>
  <2>1. <<c>> # <<>>
    OBVIOUS
  <2> QED BY <2>1, AppendToOne DEF WithVirama
<1> QED BY <1>1, WellSignedSmall

\* Every flush of a mapped consonant keeps the virama behind it.
LEMMA FlushWellSigned ==
  ASSUME SignsAreDistinct, TypeOK, PendingIsConsonant
  PROVE  /\ WellSigned(Optional(pending))
         /\ WellSigned(flush_consonant_plain)
         /\ WellSigned(flush_consonant_with_virama)
         /\ WellSigned(flush_standalone_vowel)
         /\ WellSigned(flush_consonant_matra)
         /\ WellSigned(SoftCommit)
         /\ WellSigned(HardCommit)
<1>1. WellSigned(Optional(pending)) /\ Optional(pending) \in Text
  BY WellSignedSmall, OptionalText DEF PendingIsConsonant, Optional, TypeOK
<1>2. WellSigned(flush_consonant_plain)
  BY <1>1 DEF flush_consonant_plain
<1>3. WellSigned(flush_consonant_with_virama)
  <2>1. CASE pending = NoLetter
    BY <2>1, WellSignedSmall DEF flush_consonant_with_virama, Optional, WithVirama
  <2>2. CASE pending # NoLetter
    <3>1. pending \in ConsonantLetters /\ Optional(pending) = <<pending>>
      BY <2>2 DEF PendingIsConsonant, Optional
    <3> QED BY <3>1, WithViramaWellSigned DEF flush_consonant_with_virama
  <2> QED BY <2>1, <2>2
<1>4. WellSigned(flush_standalone_vowel)
  BY VowelWellSigned DEF flush_standalone_vowel
<1>5. WellSigned(flush_consonant_matra)
  BY <1>1, VowelText, VowelWellSigned, WellSignedConcat DEF flush_consonant_matra
<1>6. WellSigned(FirstConsonant) /\ WellSigned(WithVirama(FirstConsonant))
  <2>1. CASE Exact(Consonants, First)
    BY <2>1, ConsonantIsMapped, WellSignedSmall, WithViramaWellSigned DEF FirstConsonant
  <2>2. CASE ~ Exact(Consonants, First)
    BY <2>2, WellSignedSmall DEF FirstConsonant, WithVirama
  <2> QED BY <2>1, <2>2
<1>7. WellSigned(SoftCommit)
  BY <1>2, <1>4, <1>5, <1>6, WellSignedSmall DEF SoftCommit, TypeOK, CompositionState
<1>8. WellSigned(HardCommit)
  BY <1>3, <1>4, <1>5, <1>6, WellSignedSmall DEF HardCommit, TypeOK, CompositionState
<1> QED BY <1>1, <1>2, <1>3, <1>4, <1>5, <1>7, <1>8

\* A branch emits one well-signed text.
LEMMA EmitWellSigned ==
  ASSUME committed \in Text, WellSigned(committed), NEW t \in Text, WellSigned(t), Emit(t)
  PROVE  WellSigned(committed')
BY WellSignedConcat DEF Emit

LEMMA DispatchPendingIsConsonant ==
  ASSUME PendingIsConsonant, Dispatch
  PROVE  PendingIsConsonant'
<1>c. \A seq : Exact(Consonants, seq) => Consonants[seq] \in ConsonantLetters
  BY ConsonantIsMapped
<1>1. CASE HardTerminator
  BY <1>1 DEF HardTerminator, PendingIsConsonant, Cleared
<1>2. CASE ConjunctAfterConsonant
  BY <1>2 DEF ConjunctAfterConsonant, PendingIsConsonant
<1>3. CASE ConjunctElsewhere
  BY <1>3 DEF ConjunctElsewhere, PendingIsConsonant, Cleared
<1>4. CASE AnusvaraKey
  BY <1>4 DEF AnusvaraKey, PendingIsConsonant, Cleared
<1>5. CASE VisargaKey
  BY <1>5 DEF VisargaKey, PendingIsConsonant, Cleared
<1>6. CASE IdleConsonant
  BY <1>6, <1>c DEF IdleConsonant, PendingIsConsonant, Complete
<1>7. CASE IdleConsonantPrefix
  BY <1>7 DEF IdleConsonantPrefix, PendingIsConsonant
<1>8. CASE IdleVowel
  BY <1>8 DEF IdleVowel, PendingIsConsonant, buffer
<1>9. CASE IdleVowelPrefix
  BY <1>9 DEF IdleVowelPrefix, PendingIsConsonant
<1>10. CASE IdleUnmapped
  BY <1>10 DEF IdleUnmapped, PendingIsConsonant, buffer
<1>11. CASE ExtendConsonant
  BY <1>11 DEF ExtendConsonant, PendingIsConsonant
<1>12. CASE CompleteConsonant
  BY <1>12, <1>c DEF CompleteConsonant, PendingIsConsonant, Complete
<1>13. CASE ResolveConsonant
  BY <1>13, <1>c DEF ResolveConsonant, PendingIsConsonant, Complete
<1>14. CASE DropConsonantPrefix
  BY <1>14 DEF DropConsonantPrefix, PendingIsConsonant
<1>15. CASE PendingVowelPrefix
  BY <1>15 DEF PendingVowelPrefix, PendingIsConsonant
<1>16. CASE PendingVowel
  BY <1>16 DEF PendingVowel, PendingIsConsonant
<1>17. CASE PendingConsonant
  BY <1>17, <1>c DEF PendingConsonant, PendingIsConsonant, Complete
<1>18. CASE PendingConsonantPrefix
  BY <1>18 DEF PendingConsonantPrefix, PendingIsConsonant
<1>19. CASE PendingUnmapped
  BY <1>19 DEF PendingUnmapped, PendingIsConsonant
<1>20. CASE ExtendVowel
  BY <1>20 DEF ExtendVowel, PendingIsConsonant
<1>21. CASE CompleteMatra
  BY <1>21 DEF CompleteMatra, PendingIsConsonant, Cleared
<1>22. CASE ResolveMatra
  BY <1>22 DEF ResolveMatra, PendingIsConsonant
<1>23. CASE CompleteStandalone
  BY <1>23 DEF CompleteStandalone, PendingIsConsonant
<1>24. CASE ResolveStandalone
  BY <1>24 DEF ResolveStandalone, PendingIsConsonant
<1> QED BY <1>1, <1>2, <1>3, <1>4, <1>5, <1>6, <1>7, <1>8, <1>9, <1>10, <1>11,
       <1>12, <1>13, <1>14, <1>15, <1>16, <1>17, <1>18, <1>19, <1>20, <1>21,
       <1>22, <1>23, <1>24
  DEF Dispatch, DispatchRule, DispatchIdle, DispatchPartialConsonant,
      DispatchPending, DispatchVowel

LEMMA DispatchWellSigned ==
  ASSUME SignsAreDistinct, TypeOK, PendingIsConsonant, WellSigned(committed), Dispatch
  PROVE  WellSigned(committed')
<1> DEFINE Good(t) == t \in Text /\ WellSigned(t)
<1>e. \A t : Good(t) /\ Emit(t) => WellSigned(committed')
  BY EmitWellSigned DEF TypeOK
<1>x. \A s, t : Good(s) /\ Good(t) => Good(s \o t)
  BY WellSignedConcat, ConcatText
<1>t. Good(<<>>)
  BY WellSignedSmall, EmptySeq DEF Text
<1>f. /\ Good(Optional(pending))
      /\ Good(flush_consonant_plain)
      /\ Good(flush_consonant_with_virama)
      /\ Good(flush_standalone_vowel)
      /\ Good(flush_consonant_matra)
      /\ Good(SoftCommit)
      /\ Good(HardCommit)
  BY FlushText, FlushWellSigned, OptionalText DEF TypeOK
<1>v. \A seq : Good(MatraOf(seq)) /\ Good(StandaloneOf(seq))
  BY VowelText, VowelWellSigned
<1>p. Good(Passthrough(input))
  BY DispatchCalls, InputTypes, PassthroughText, PassthroughWellSigned
<1>s. Good(Append(SoftCommit, anusvara)) /\ Good(Append(SoftCommit, visarga))
  <2>1. Good(<<anusvara>>) /\ Good(<<visarga>>)
    BY KeymapTypes, OneLetterText, WellSignedSmall DEF SignsAreDistinct
  <2>2. /\ Append(SoftCommit, anusvara) = SoftCommit \o <<anusvara>>
        /\ Append(SoftCommit, visarga) = SoftCommit \o <<visarga>>
    <3>1. SoftCommit \in Seq(Letter \cup Char)
      BY <1>f DEF Text
    <3>2. anusvara \in Letter \cup Char /\ visarga \in Letter \cup Char
      BY KeymapTypes
    <3> QED BY <3>1, <3>2, AppendIsConcat
  <2> QED BY <1>f, <1>x, <2>1, <2>2
<1>c. pending # NoLetter => Good(<<pending, virama, zwj>>)
  <2>1. pending # NoLetter => <<pending, virama, zwj>> \in Text
    BY KeymapTypes DEF TypeOK, Text
  <2> QED BY <2>1, WellSignedSmall DEF PendingIsConsonant
<1> HIDE DEF Good
<1>1. CASE HardTerminator
  BY <1>1, <1>e, <1>f DEF HardTerminator
<1>2. CASE ConjunctAfterConsonant
  BY <1>2, <1>e, <1>c DEF ConjunctAfterConsonant
<1>3. CASE ConjunctElsewhere
  BY <1>3, <1>e, <1>f DEF ConjunctElsewhere
<1>4. CASE AnusvaraKey
  BY <1>4, <1>e, <1>s DEF AnusvaraKey
<1>5. CASE VisargaKey
  BY <1>5, <1>e, <1>s DEF VisargaKey
<1>6. CASE IdleConsonant
  BY <1>6, <1>e, <1>t DEF IdleConsonant
<1>7. CASE IdleConsonantPrefix
  BY <1>7, <1>e, <1>t DEF IdleConsonantPrefix
<1>8. CASE IdleVowel
  BY <1>8, <1>e, <1>v DEF IdleVowel
<1>9. CASE IdleVowelPrefix
  BY <1>9, <1>e, <1>t DEF IdleVowelPrefix
<1>10. CASE IdleUnmapped
  BY <1>10, <1>e, <1>p DEF IdleUnmapped
<1>11. CASE ExtendConsonant
  BY <1>11, <1>e, <1>t DEF ExtendConsonant
<1>12. CASE CompleteConsonant
  BY <1>12, <1>e, <1>t DEF CompleteConsonant
<1>13. CASE ResolveConsonant
  BY <1>13, <1>e, <1>t DEF ResolveConsonant
<1>14. CASE DropConsonantPrefix
  BY <1>14, <1>e, <1>t DEF DropConsonantPrefix
<1>15. CASE PendingVowelPrefix
  BY <1>15, <1>e, <1>t DEF PendingVowelPrefix
<1>16. CASE PendingVowel
  BY <1>16, <1>e, <1>f, <1>v, <1>x DEF PendingVowel
<1>17. CASE PendingConsonant
  BY <1>17, <1>e, <1>f DEF PendingConsonant
<1>18. CASE PendingConsonantPrefix
  BY <1>18, <1>e, <1>f DEF PendingConsonantPrefix
<1>19. CASE PendingUnmapped
  BY <1>19, <1>e, <1>f, <1>p, <1>x DEF PendingUnmapped
<1>20. CASE ExtendVowel
  BY <1>20, <1>e, <1>t DEF ExtendVowel
<1>21. CASE CompleteMatra
  BY <1>21, <1>e, <1>f, <1>v, <1>x DEF CompleteMatra
<1>22. CASE ResolveMatra
  BY <1>22, <1>e, <1>f, <1>t DEF ResolveMatra
<1>23. CASE CompleteStandalone
  BY <1>23, <1>e, <1>v DEF CompleteStandalone
<1>24. CASE ResolveStandalone
  BY <1>24, <1>e, <1>f DEF ResolveStandalone
<1> QED BY <1>1, <1>2, <1>3, <1>4, <1>5, <1>6, <1>7, <1>8, <1>9, <1>10, <1>11,
       <1>12, <1>13, <1>14, <1>15, <1>16, <1>17, <1>18, <1>19, <1>20, <1>21,
       <1>22, <1>23, <1>24
  DEF Dispatch, DispatchRule, DispatchIdle, DispatchPartialConsonant,
      DispatchPending, DispatchVowel

\* Under every keymap whose signs are distinct letters, a call never commits a
\* virama without its consonant or a ZWJ without its virama.
THEOREM ViramaAlwaysFollows ==
  ASSUME SignsAreDistinct
  PROVE  Spec => []ViramaFollowsConsonant
<1> DEFINE Inv == PendingIsConsonant /\ WellSigned(committed)
<1>1. Init => Inv
  BY WellSignedSmall DEF Init, PendingIsConsonant
<1>2. TypeOK /\ Inv /\ [Next]_vars => Inv'
  <2> SUFFICES ASSUME TypeOK, Inv, [Next]_vars
               PROVE  PendingIsConsonant' /\ WellSigned(committed')
    BY DEF WellSigned
  <2>1. ASSUME NEW key \in Key, Feed(key)
        PROVE  PendingIsConsonant' /\ WellSigned(committed')
    BY <2>1, WellSignedSmall DEF Feed, PendingIsConsonant, buffer
  <2>2. CASE Backspace
    <3>1. committed' = <<>>
      BY <2>2, BackspaceCall, TypeParts
    <3>2. pending' \in {pending, NoLetter}
      BY <2>2 DEF Backspace, BackspaceIdle, BackspacePrefix, BackspaceConsonant,
                  BackspaceVowel, buffer, Cleared
    <3> QED BY <3>1, <3>2, WellSignedSmall DEF PendingIsConsonant
  <2>3. CASE Commit
    BY <2>3, FlushWellSigned DEF Commit, Cleared, PendingIsConsonant
  <2>4. CASE Reset
    BY <2>4, WellSignedSmall DEF Reset, Cleared, PendingIsConsonant
  <2>5. CASE Dispatch
    BY <2>5, DispatchPendingIsConsonant, DispatchWellSigned
  <2>6. CASE UNCHANGED vars
    BY <2>6 DEF vars, PendingIsConsonant
  <2> QED BY <2>1, <2>2, <2>3, <2>4, <2>5, <2>6 DEF Next, Call
<1>3. Inv => ViramaFollowsConsonant
  BY DEF ViramaFollowsConsonant
<1> QED BY <1>1, <1>2, <1>3, TypeCorrect, PTL DEF Spec
-----------------------------------------------------------------------------
(* How much a call commits *)

\* The texts of at most n letters.
Short(n) == {s \in Text : Len(s) <= n}

LEMMA ShortConcat ==
  ASSUME NEW m \in Nat, NEW n \in Nat, NEW k \in Nat, m + n <= k,
         NEW s \in Short(m), NEW t \in Short(n)
  PROVE  s \o t \in Short(k)
<1>1. s \o t \in Text
  BY ConcatText DEF Short
<1>2. Len(s \o t) = Len(s) + Len(t) /\ Len(s) \in Nat /\ Len(t) \in Nat
  BY ConcatProperties, LenProperties DEF Short, Text
<1> QED BY <1>1, <1>2 DEF Short

LEMMA ShortAppend ==
  ASSUME NEW m \in Nat, NEW s \in Short(m), NEW letter \in Letter \cup Char
  PROVE  Append(s, letter) \in Short(m + 1)
<1>1. Append(s, letter) \in Text /\ Len(Append(s, letter)) = Len(s) + 1 /\ Len(s) \in Nat
  BY AppendProperties, LenProperties DEF Short, Text
<1> QED BY <1>1 DEF Short

LEMMA ShortGrows ==
  ASSUME NEW m \in Nat, NEW n \in Nat, m <= n, NEW s \in Short(m)
  PROVE  s \in Short(n)
<1>1. s \in Text /\ Len(s) \in Nat /\ Len(s) <= m
  BY LenProperties DEF Short, Text
<1> QED BY <1>1 DEF Short

LEMMA ShortEmpty == <<>> \in Short(0)
BY EmptySeq DEF Short, Text

\* One letter at most, of each source of text.
LEMMA ShortSources ==
  ASSUME TypeOK
  PROVE  /\ Optional(pending) \in Short(1)
         /\ FirstConsonant \in Short(1)
         /\ \A seq : MatraOf(seq) \in Short(1) /\ StandaloneOf(seq) \in Short(1)
         /\ input \in Key => Passthrough(input) \in Short(1)
<1>1. \A letter : Len(<<letter>>) = 1 /\ Len(<<>>) = 0
  OBVIOUS
<1>2. \A letter : Len(Optional(letter)) <= 1
  BY <1>1 DEF Optional
<1>3. Optional(pending) \in Text
  BY OptionalText DEF TypeOK
<1>4. FirstConsonant \in Text /\ Len(FirstConsonant) <= 1
  BY <1>1, FirstConsonantText DEF FirstConsonant
<1>5. \A seq : Len(MatraOf(seq)) <= 1 /\ Len(StandaloneOf(seq)) <= 1
  BY <1>1, <1>2 DEF MatraOf, StandaloneOf
<1>6. Len(Passthrough(input)) <= 1
  BY <1>1 DEF Passthrough
<1> QED BY <1>2, <1>3, <1>4, <1>5, <1>6, VowelText, PassthroughText DEF Short

LEMMA ShortVirama ==
  ASSUME NEW s \in Short(1)
  PROVE  WithVirama(s) \in Short(2)
<1>1. virama \in Letter \cup Char
  BY KeymapTypes
<1>2. Append(s, virama) \in Short(2)
  BY <1>1, ShortAppend
<1>3. <<>> \in Short(2)
  BY ShortEmpty, ShortGrows
<1> QED BY <1>2, <1>3 DEF WithVirama

\* Two letters at most, of each flush.
LEMMA ShortFlushes ==
  ASSUME TypeOK
  PROVE  /\ flush_consonant_with_virama \in Short(2)
         /\ flush_consonant_matra \in Short(2)
         /\ SoftCommit \in Short(2)
         /\ HardCommit \in Short(2)
<1>1. flush_consonant_with_virama \in Short(2)
  BY ShortSources, ShortVirama DEF flush_consonant_with_virama
<1>2. flush_consonant_matra \in Short(2)
  BY ShortSources, ShortConcat DEF flush_consonant_matra
<1>3. flush_consonant_plain \in Short(2) /\ FirstConsonant \in Short(2)
      /\ flush_standalone_vowel \in Short(2) /\ <<>> \in Short(2)
  BY ShortSources, ShortGrows, ShortEmpty DEF flush_consonant_plain, flush_standalone_vowel
<1>4. WithVirama(FirstConsonant) \in Short(2)
  BY ShortSources, ShortVirama
<1>5. state \in CompositionState
  BY DEF TypeOK
<1>6. SoftCommit \in Short(2)
  BY <1>2, <1>3, <1>5 DEF SoftCommit, CompositionState
<1>7. HardCommit \in Short(2)
  BY <1>1, <1>2, <1>3, <1>4, <1>5 DEF HardCommit, CompositionState
<1> QED BY <1>1, <1>2, <1>6, <1>7

\* What one activation of dispatch appends.  A rule key does not re-feed.
LEMMA DispatchEmits ==
  ASSUME TypeOK, Dispatch
  PROVE  \E text \in Text :
           /\ Emit(text)
           /\ \/ /\ Return /\ text \in Short(3)
                 /\ KeyClass(input) = "ordinary" /\ state = "Idle" => text \in Short(1)
              \/ /\ Redispatch /\ KeyClass(input) = "ordinary"
                 /\ \/ state' = "Idle" /\ text \in Short(2)
                    \/ state' = "ConsonantPending" /\ text = <<>>
<1>0. <<>> \in Short(1) /\ <<>> \in Short(2) /\ <<>> \in Short(3) /\ <<>> \in Text
  BY ShortEmpty, ShortGrows DEF Short
<1>i. input \in Key
  BY DispatchCalls, InputTypes
<1>1. \A text \in Short(1) : text \in Short(2) /\ text \in Short(3) /\ text \in Text
  BY ShortGrows DEF Short
<1>2. \A text \in Short(2) : text \in Short(3) /\ text \in Text
  BY ShortGrows DEF Short
<1>3. \A text \in Short(3) : text \in Text
  BY DEF Short
<1>4. CASE HardTerminator
  BY <1>4, <1>2, ShortFlushes DEF HardTerminator, Rule
<1>5. CASE ConjunctAfterConsonant
  <2>1. <<pending, virama, zwj>> \in Text /\ Len(<<pending, virama, zwj>>) = 3
    BY <1>5, KeymapTypes DEF ConjunctAfterConsonant, TypeOK, Text
  <2>2. <<pending, virama, zwj>> \in Short(3) /\ KeyClass(input) # "ordinary"
    BY <1>5, <2>1 DEF ConjunctAfterConsonant, Rule, Short
  <2>3. Emit(<<pending, virama, zwj>>) /\ Return
    BY <1>5 DEF ConjunctAfterConsonant
  <2> QED BY <2>1, <2>2, <2>3
<1>6. CASE ConjunctElsewhere
  BY <1>6, <1>2, ShortFlushes DEF ConjunctElsewhere, Rule
<1>7. CASE AnusvaraKey \/ VisargaKey
  <2>1. anusvara \in Letter \cup Char /\ visarga \in Letter \cup Char /\ 2 + 1 = 3
    BY KeymapTypes
  <2>2. Append(SoftCommit, anusvara) \in Short(3) /\ Append(SoftCommit, visarga) \in Short(3)
    BY <2>1, ShortFlushes, ShortAppend
  <2> QED BY <1>7, <1>3, <2>2 DEF AnusvaraKey, VisargaKey, Rule
<1>8. CASE IdleConsonant \/ IdleConsonantPrefix \/ IdleVowelPrefix \/ ExtendConsonant
           \/ CompleteConsonant \/ PendingVowelPrefix \/ ExtendVowel
  BY <1>8, <1>0 DEF IdleConsonant, IdleConsonantPrefix, IdleVowelPrefix, ExtendConsonant,
                    CompleteConsonant, PendingVowelPrefix, ExtendVowel
<1>9. CASE IdleVowel
  BY <1>9, <1>1, ShortSources DEF IdleVowel
<1>10. CASE IdleUnmapped
  BY <1>10, <1>1, <1>i, ShortSources DEF IdleUnmapped
<1>11. CASE ResolveConsonant \/ DropConsonantPrefix
  BY <1>11, <1>0 DEF ResolveConsonant, DropConsonantPrefix, Ordinary
<1>12. CASE PendingVowel \/ CompleteMatra
  <2>1. \A seq : Optional(pending) \o MatraOf(seq) \in Short(2)
    BY ShortSources, ShortConcat
  <2> QED BY <1>12, <1>2, <2>1 DEF PendingVowel, CompleteMatra, Ordinary
<1>13. CASE PendingConsonant \/ PendingConsonantPrefix
  BY <1>13, <1>2, ShortFlushes DEF PendingConsonant, PendingConsonantPrefix, Ordinary
<1>14. CASE PendingUnmapped
  <2>1. flush_consonant_plain \o Passthrough(input) \in Short(2)
    BY <1>i, ShortSources, ShortConcat DEF flush_consonant_plain
  <2> QED BY <1>14, <1>2, <2>1 DEF PendingUnmapped, Ordinary
<1>15. CASE ResolveMatra
  BY <1>15, <1>0, <1>2, ShortFlushes DEF ResolveMatra, Ordinary
<1>16. CASE CompleteStandalone
  BY <1>16, <1>1, ShortSources DEF CompleteStandalone, Ordinary
<1>17. CASE ResolveStandalone
  BY <1>17, <1>1, ShortSources DEF ResolveStandalone, flush_standalone_vowel, Ordinary
<1> QED BY <1>4, <1>5, <1>6, <1>7, <1>8, <1>9, <1>10, <1>11, <1>12, <1>13, <1>14, <1>15,
           <1>16, <1>17
  DEF Dispatch, DispatchRule, DispatchIdle, DispatchPartialConsonant, DispatchPending,
      DispatchVowel

\* What leaves room for the activation that is still to come.
CallFits ==
  /\ depth = 0 => committed \in Short(3)
  /\ depth = 1 => committed = <<>>
  /\ depth = 2 => /\ KeyClass(input) = "ordinary"
                  /\ state = "Idle" => committed \in Short(2)
                  /\ state = "ConsonantPending" => committed = <<>>

\* Under every keymap a call commits at most three letters.
THEOREM CommitAlwaysFits == Spec => []CommitFits
<1>1. Init => CallFits
  BY ShortEmpty, ShortGrows DEF Init, CallFits
<1>2. TypeOK /\ RefeedBounded /\ CallFits /\ [Next]_vars => CallFits'
  <2> SUFFICES ASSUME TypeOK, RefeedBounded, CallFits, [Next]_vars
               PROVE  CallFits'
    OBVIOUS
  <2>0. <<>> \in Short(3)
    BY ShortEmpty, ShortGrows
  <2>1. ASSUME NEW key \in Key, Feed(key)
        PROVE  CallFits'
    BY <2>1 DEF Feed, CallFits
  <2>2. CASE Backspace \/ Reset
    <3>1. depth' = 0 /\ committed' = <<>>
      BY <2>2 DEF Backspace, BackspaceIdle, BackspacePrefix, BackspaceConsonant,
                  BackspaceVowel, BackspaceWhen, Reset, AtRest
    <3> QED BY <2>0, <3>1 DEF CallFits
  <2>3. CASE Commit
    <3>1. SoftCommit \in Short(3)
      BY ShortFlushes, ShortGrows
    <3> QED BY <2>3, <3>1 DEF Commit, AtRest, CallFits
  <2>4. CASE Dispatch
    <3>1. depth \in {1, 2}
      BY <2>4, DispatchCalls DEF RefeedBounded, TypeOK
    <3>2. PICK text \in Text :
            /\ Emit(text)
            /\ \/ /\ Return /\ text \in Short(3)
                  /\ KeyClass(input) = "ordinary" /\ state = "Idle" => text \in Short(1)
               \/ /\ Redispatch /\ KeyClass(input) = "ordinary"
                  /\ \/ state' = "Idle" /\ text \in Short(2)
                     \/ state' = "ConsonantPending" /\ text = <<>>
      BY <2>4, DispatchEmits
    <3>3. committed = <<>> => committed' = text
      BY <3>2, ConcatProperties DEF Emit, Text
    <3>4. depth = 2 => state \in {"Idle", "ConsonantPending"} /\ KeyClass(input) = "ordinary"
      BY DEF RefeedBounded, CallFits
    <3>5. CASE /\ Return /\ text \in Short(3)
               /\ KeyClass(input) = "ordinary" /\ state = "Idle" => text \in Short(1)
      <4>1. CASE committed = <<>>
        BY <3>3, <3>5, <4>1 DEF Return, CallFits
      <4>2. CASE committed # <<>>
        <5>1. depth = 2
          BY <3>1, <4>2 DEF CallFits
        <5>2. state = "Idle"
          BY <3>4, <4>2, <5>1 DEF CallFits
        <5>3. committed \in Short(2)
          BY <5>1, <5>2 DEF CallFits
        <5>4. text \in Short(1)
          BY <3>4, <3>5, <5>1, <5>2
        <5>5. committed \o text \in Short(3)
          BY <5>3, <5>4, ShortConcat
        <5> QED BY <3>2, <3>5, <5>5 DEF Return, Emit, CallFits
      <4> QED BY <4>1, <4>2
    <3>6. CASE /\ Redispatch /\ KeyClass(input) = "ordinary"
               /\ \/ state' = "Idle" /\ text \in Short(2)
                  \/ state' = "ConsonantPending" /\ text = <<>>
      <4>1. depth' # 0
        BY <3>1, <3>6 DEF Redispatch
      <4>2. state \in {"PartialConsonant", "PartialVowel", "PartialVowelStandalone"}
        BY <2>4, <4>1, RedispatchStates
      <4>3. depth = 1
        BY <3>1, <3>4, <4>2
      <4>4. committed' = text /\ depth' = 2 /\ input' = input
        BY <3>3, <3>6, <4>3 DEF Redispatch, CallFits
      <4> QED BY <3>6, <4>4 DEF CallFits, KeyClass
    <3> QED BY <3>2, <3>5, <3>6
  <2>5. CASE UNCHANGED vars
    BY <2>5 DEF CallFits, vars
  <2> QED BY <2>1, <2>2, <2>3, <2>4, <2>5 DEF Next, Call
<1>3. TypeOK /\ RefeedBounded /\ CallFits => CommitFits
  <2> SUFFICES ASSUME TypeOK, RefeedBounded, CallFits
               PROVE  CommitFits
    OBVIOUS
  <2>1. depth \in {0, 1, 2}
    BY DEF TypeOK, RefeedBounded
  <2>2. Len(<<>>) = 0
    OBVIOUS
  <2>3. CASE depth # 2
    BY <2>1, <2>2, <2>3 DEF CallFits, Short, CommitFits
  <2>4. CASE depth = 2
    <3>1. state \in {"Idle", "ConsonantPending"}
      BY <2>4 DEF RefeedBounded
    <3>2. committed \in Short(2) \/ committed = <<>>
      BY <2>4, <3>1 DEF CallFits
    <3>3. Len(committed) \in Nat
      BY LenProperties DEF TypeOK, Text
    <3> QED BY <2>2, <3>2, <3>3 DEF Short, CommitFits
  <2> QED BY <2>3, <2>4
<1> QED BY <1>1, <1>2, <1>3, TypeCorrect, RefeedAlwaysBounded, PTL DEF Spec

-----------------------------------------------------------------------------
(* The two implementations.  Each branch of dispatch leaves Outcome, the   *)
(* end of the running call, as it was, and each call takes Outcome where   *)
(* the reference's method takes the object.                                *)

-----------------------------------------------------------------------------
(* The instance of the reference, and its object *)

\* Reference renames the variables of Transliterator, on which no handler depends:
\* its operators are those of Transliterate.
LEMMA SameHandlers ==
  /\ Reference!Fresh = Fresh
  /\ \A t : Reference!soft_commit(t) = soft_commit(t)
  /\ \A t : Reference!handle_backspace(t) = handle_backspace(t)
  /\ \A t, key : Reference!feed_impl(t, key) = feed_impl(t, key)
<1>1. /\ \A s, u : Reference!IsPrefix(s, u) = IsPrefix(s, u)
      /\ \A s, u : Reference!IsStrictPrefix(s, u) = IsStrictPrefix(s, u)
      /\ \A seq : Reference!Front(seq) = Front(seq)
  BY DEF Reference!IsPrefix, IsPrefix, Reference!IsStrictPrefix, IsStrictPrefix,
      Reference!Front, Front
<1>2. /\ \A trie, seq : Reference!Exact(trie, seq) = Exact(trie, seq)
      /\ \A trie, seq : Reference!is_strict_prefix(trie, seq) = is_strict_prefix(trie, seq)
  BY <1>1
  DEF Reference!Exact, Exact, Reference!is_strict_prefix, is_strict_prefix
<1>3. /\ \A trie, seq : Reference!Complete(trie, seq) = Complete(trie, seq)
      /\ \A trie, seq : Reference!Matches(trie, seq) = Matches(trie, seq)
      /\ \A key : Reference!KeyClass(key) = KeyClass(key)
      /\ \A letter : Reference!Optional(letter) = Optional(letter)
      /\ \A key : Reference!base_ascii(key) = base_ascii(key)
  BY <1>2
  DEF Reference!Complete, Complete, Reference!Matches, Matches, Reference!KeyClass,
      KeyClass, Reference!Optional, Optional, Reference!base_ascii, base_ascii
<1>4. /\ \A s, p, x : Reference!Self(s, p, x) = Self(s, p, x)
      /\ Reference!Fresh = Fresh
      /\ \A object, text : Reference!Result(object, text) = Result(object, text)
      /\ \A letters : Reference!commit_with_virama(letters) = commit_with_virama(letters)
      /\ Reference!Partial = Partial
  BY <1>3
  DEF Reference!Self, Self, Reference!Fresh, Fresh, Reference!Result, Result,
      Reference!commit_with_virama, commit_with_virama, Reference!Partial, Partial
<1>5. /\ \A key : Reference!emit_unmapped(key) = emit_unmapped(key)
      /\ \A t, entry : Reference!emit_consonant_matra(t, entry) = emit_consonant_matra(t, entry)
      /\ \A seq : Reference!standalone_of(seq) = standalone_of(seq)
      /\ \A t : Reference!first_of(t) = first_of(t)
      /\ \A t : Reference!Buffered(t) = Buffered(t)
      /\ \A t : Reference!popped(t) = popped(t)
  BY <1>1, <1>2, <1>3
  DEF Reference!emit_unmapped, emit_unmapped, Reference!emit_consonant_matra,
      emit_consonant_matra, Reference!standalone_of, standalone_of,
      Reference!first_of, first_of, Reference!Buffered, Buffered, Reference!popped,
      popped
<1>6. \A t : Reference!first_consonant(t) = first_consonant(t)
  BY <1>2, <1>5
  DEF Reference!first_consonant, first_consonant
<1>7. /\ \A t : Reference!soft_commit(t) = soft_commit(t)
      /\ \A t : Reference!handle_backspace(t) = handle_backspace(t)
  BY <1>2, <1>3, <1>4, <1>5, <1>6
  DEF Reference!soft_commit, soft_commit, Reference!handle_backspace,
      handle_backspace
<1>8. /\ \A t : Reference!handle_hard_terminator(t) = handle_hard_terminator(t)
      /\ \A t : Reference!handle_conjunct(t) = handle_conjunct(t)
      /\ \A t, sign : Reference!handle_sign(t, sign) = handle_sign(t, sign)
  BY <1>4, <1>7
  DEF Reference!handle_hard_terminator, handle_hard_terminator,
      Reference!handle_conjunct, handle_conjunct, Reference!handle_sign, handle_sign
<1>9. \A t, key : Reference!from_idle(t, key) = from_idle(t, key)
  BY <1>2, <1>3, <1>4, <1>5
  DEF Reference!from_idle, from_idle
<1>10. \A t, key : Reference!from_partial_consonant(t, key) = from_partial_consonant(t, key)
  BY <1>2, <1>4
  DEF Reference!from_partial_consonant, from_partial_consonant
<1>11. \A t, key : Reference!from_consonant_pending(t, key) = from_consonant_pending(t, key)
  BY <1>2, <1>3, <1>4, <1>5
  DEF Reference!from_consonant_pending, from_consonant_pending
<1>12. /\ \A t, key : Reference!from_partial_vowel(t, key) = from_partial_vowel(t, key)
      /\ \A t, key : Reference!from_partial_vowel_standalone(t, key)
                        = from_partial_vowel_standalone(t, key)
  BY <1>2, <1>4, <1>5
  DEF Reference!from_partial_vowel, from_partial_vowel,
      Reference!from_partial_vowel_standalone, from_partial_vowel_standalone
<1>13. /\ \A t, key : Reference!Refeeds(t, key) = Refeeds(t, key)
      /\ \A t : Reference!settle(t) = settle(t)
  BY <1>2, <1>3, <1>4, <1>5
  DEF Reference!Refeeds, Refeeds, Reference!settle, settle
<1>14. \A t, key : Reference!handle(t, key) = handle(t, key)
  BY <1>3, <1>8, <1>9, <1>10, <1>11, <1>12
  DEF Reference!handle, handle
<1>15. \A t, key : Reference!feed_impl(t, key) = feed_impl(t, key)
  BY <1>4, <1>13, <1>14
  DEF Reference!feed_impl, feed_impl
<1> QED BY <1>4, <1>7, <1>15

\* The reference's names of the five states.
LEMMA PyStates ==
  /\ PyState("Idle") = "IDLE"
  /\ PyState("PartialConsonant") = "PARTIAL_CONSONANT"
  /\ PyState("ConsonantPending") = "CONSONANT_PENDING"
  /\ PyState("PartialVowel") = "PARTIAL_VOWEL"
  /\ PyState("PartialVowelStandalone") = "PARTIAL_VOWEL_STANDALONE"
BY DEF PyState

\* The fields of the object are the fields of the composer.
LEMMA ObjectFields ==
  /\ Object.state = PyState(state) /\ Object.pending = pending /\ Object.prefix = prefix
  /\ first_of(Object) = First
  /\ Object' = Self(PyState(state'), pending', prefix')
BY DEF Object, Self, first_of, First

\* The two are in the same state.
LEMMA States ==
  ASSUME TypeOK
  PROVE  /\ Object.state = "IDLE" <=> state = "Idle"
         /\ Object.state = "PARTIAL_CONSONANT" <=> state = "PartialConsonant"
         /\ Object.state = "CONSONANT_PENDING" <=> state = "ConsonantPending"
         /\ Object.state = "PARTIAL_VOWEL" <=> state = "PartialVowel"
         /\ Object.state = "PARTIAL_VOWEL_STANDALONE" <=> state = "PartialVowelStandalone"
BY ObjectFields DEF TypeOK, CompositionState, PyState

\* A branch that returns what the reference returns leaves Outcome alone.
LEMMA ReturnKeepsOutcome ==
  ASSUME depth > 0, Return, NEW X, Emit(X),
         feed_impl(Object, input) = Result(Object', X)
  PROVE  Outcome' = Outcome
BY DEF Outcome, AtRest, Return, Emit, Result

\* The two emit the same text for a vowel of the keymap.
LEMMA VowelTexts ==
  ASSUME TypeOK, NEW seq, Exact(Vowels, seq)
  PROVE  /\ emit_consonant_matra(Object, Vowels[seq]) = Optional(pending) \o MatraOf(seq)
         /\ standalone_of(seq) = StandaloneOf(seq)
BY ObjectFields DEF emit_consonant_matra, MatraOf, standalone_of, StandaloneOf

\* Outside a gap, the two flush the buffer to the same text, softly and hard.
LEMMA SoftTexts ==
  ASSUME TypeOK, ~ InGap
  PROVE  /\ soft_commit(Object) = SoftCommit
         /\ handle_hard_terminator(Object) = Result(Fresh, HardCommit)
<1>1. CASE state = "Idle"
  BY <1>1, States DEF soft_commit, SoftCommit, handle_hard_terminator, HardCommit
<1>2. CASE state = "ConsonantPending"
  BY <1>2, States, ObjectFields
  DEF soft_commit, SoftCommit, handle_hard_terminator, HardCommit,
     flush_consonant_plain, flush_consonant_with_virama, commit_with_virama, WithVirama
<1>3. CASE state = "PartialConsonant"
  BY <1>3, States, ObjectFields
  DEF soft_commit, SoftCommit, handle_hard_terminator, HardCommit,
     first_consonant, FirstConsonant, commit_with_virama, WithVirama
<1>4. CASE state = "PartialVowel"
  BY <1>4, States, ObjectFields, VowelTexts
  DEF soft_commit, SoftCommit, handle_hard_terminator, HardCommit,
     flush_consonant_matra, InGap
<1>5. CASE state = "PartialVowelStandalone"
  BY <1>5, States, ObjectFields
  DEF soft_commit, SoftCommit, handle_hard_terminator, HardCommit,
     flush_standalone_vowel, standalone_of, StandaloneOf
<1> QED BY <1>1, <1>2, <1>3, <1>4, <1>5 DEF TypeOK, CompositionState

\* The reference does not re-feed the key.
LEMMA HandledAtOnce ==
  ASSUME TypeOK,
         \/ KeyClass(input) # "ordinary"
         \/ state \in {"Idle", "ConsonantPending"}
         \/ state = "PartialConsonant" /\ Matches(Consonants, Extended)
         \/ state \in {"PartialVowel", "PartialVowelStandalone"} /\ Matches(Vowels, Extended)
  PROVE  feed_impl(Object, input) = handle(Object, input)
<1>1. ~ Refeeds(Object, input)
  BY States, ObjectFields DEF Refeeds, Partial, Buffered, Extended
<1> QED BY <1>1 DEF feed_impl

\* The rule keys.
LEMMA RuleKeepsOutcome ==
  ASSUME TypeOK, ~ InGap, DispatchRule
  PROVE  Outcome' = Outcome
<1>1. depth > 0 /\ Return /\ KeyClass(input) # "ordinary"
  BY DEF DispatchRule, Rule, HardTerminator, ConjunctAfterConsonant, ConjunctElsewhere,
         AnusvaraKey, VisargaKey
<1>2. feed_impl(Object, input) = handle(Object, input)
  BY <1>1, HandledAtOnce
<1>3. Cleared => Object' = Fresh
  BY ObjectFields, PyStates DEF Cleared, Fresh
<1>4. CASE HardTerminator
  <2>1. handle(Object, input) = Result(Object', HardCommit)
    BY <1>3, <1>4, SoftTexts DEF handle, HardTerminator, Rule
  <2> QED BY <1>1, <1>2, <1>4, <2>1, ReturnKeepsOutcome DEF HardTerminator
<1>5. CASE ConjunctAfterConsonant
  <2>1. handle(Object, input) = Result(Object', <<pending, virama, zwj>>)
    BY <1>5, States, ObjectFields, PyStates
    DEF handle, handle_conjunct, ConjunctAfterConsonant, Rule
  <2> QED BY <1>1, <1>2, <1>5, <2>1, ReturnKeepsOutcome DEF ConjunctAfterConsonant
<1>6. CASE ConjunctElsewhere
  <2>1. handle(Object, input) = Result(Object', SoftCommit)
    BY <1>3, <1>6, States, ObjectFields, SoftTexts
    DEF handle, handle_conjunct, ConjunctElsewhere, Rule
  <2> QED BY <1>1, <1>2, <1>6, <2>1, ReturnKeepsOutcome DEF ConjunctElsewhere
<1>7. CASE AnusvaraKey
  <2>1. handle(Object, input) = Result(Object', Append(SoftCommit, anusvara))
    BY <1>3, <1>7, SoftTexts DEF handle, handle_sign, AnusvaraKey, Rule
  <2> QED BY <1>1, <1>2, <1>7, <2>1, ReturnKeepsOutcome DEF AnusvaraKey
<1>8. CASE VisargaKey
  <2>1. handle(Object, input) = Result(Object', Append(SoftCommit, visarga))
    BY <1>3, <1>8, SoftTexts DEF handle, handle_sign, VisargaKey, Rule
  <2> QED BY <1>1, <1>2, <1>8, <2>1, ReturnKeepsOutcome DEF VisargaKey
<1> QED BY <1>4, <1>5, <1>6, <1>7, <1>8 DEF DispatchRule

\* The branches of Idle.
LEMMA IdleKeepsOutcome ==
  ASSUME TypeOK, DispatchIdle
  PROVE  Outcome' = Outcome
<1>1. depth > 0 /\ Return /\ KeyClass(input) = "ordinary" /\ state = "Idle"
  BY DEF DispatchIdle, Ordinary, IdleConsonant, IdleConsonantPrefix, IdleVowel,
         IdleVowelPrefix,
         IdleUnmapped, Unmapped
<1>2. feed_impl(Object, input) = from_idle(Object, input)
  BY <1>1, HandledAtOnce, States DEF handle
<1>3. Object.pending = pending /\ Object.prefix = prefix /\ PyState(state) = "IDLE"
  BY <1>1, ObjectFields, PyStates
<1>4. UNCHANGED buffer => Object' = Object
  BY DEF buffer, Object
<1>5. CASE IdleConsonant
  <2>1. Object' = Self("CONSONANT_PENDING", Consonants[One], prefix)
    BY <1>5, ObjectFields, PyStates DEF IdleConsonant
  <2>2. from_idle(Object, input)
          = Result(Self("CONSONANT_PENDING", Consonants[One], Object.prefix), <<>>)
    BY <1>5 DEF from_idle, IdleConsonant, One, Complete, Matches
  <2>3. from_idle(Object, input) = Result(Object', <<>>)
    BY <1>3, <2>1, <2>2
  <2> QED BY <1>1, <1>2, <1>5, <2>3, ReturnKeepsOutcome DEF IdleConsonant
<1>6. CASE IdleConsonantPrefix
  <2>1. Object' = Self("PARTIAL_CONSONANT", pending, One)
    BY <1>6, ObjectFields, PyStates DEF IdleConsonantPrefix
  <2>2. from_idle(Object, input)
          = Result(Self("PARTIAL_CONSONANT", Object.pending, One), <<>>)
    BY <1>6 DEF from_idle, IdleConsonantPrefix, One, Complete, Matches
  <2>3. from_idle(Object, input) = Result(Object', <<>>)
    BY <1>3, <2>1, <2>2
  <2> QED BY <1>1, <1>2, <1>6, <2>3, ReturnKeepsOutcome DEF IdleConsonantPrefix
<1>7. CASE IdleVowel
  <2>1. standalone_of(One) = StandaloneOf(One)
    BY DEF standalone_of, StandaloneOf
  <2>2. from_idle(Object, input) = Result(Object', StandaloneOf(One))
    BY <1>4, <1>7, <2>1 DEF from_idle, IdleVowel, One, Matches, Complete
  <2> QED BY <1>1, <1>2, <1>7, <2>2, ReturnKeepsOutcome DEF IdleVowel
<1>8. CASE IdleVowelPrefix
  <2>1. from_idle(Object, input) = Result(Object', <<>>)
    BY <1>3, <1>8, ObjectFields, PyStates
    DEF from_idle, IdleVowelPrefix, One, Matches, Complete
  <2> QED BY <1>1, <1>2, <1>8, <2>1, ReturnKeepsOutcome DEF IdleVowelPrefix
<1>9. CASE IdleUnmapped
  <2>1. emit_unmapped(input) = Passthrough(input)
    BY DEF emit_unmapped, Passthrough
  <2>2. from_idle(Object, input) = Result(Object', Passthrough(input))
    BY <1>4, <1>9, <2>1 DEF from_idle, IdleUnmapped, Unmapped, Matches, Complete
  <2> QED BY <1>1, <1>2, <1>9, <2>2, ReturnKeepsOutcome DEF IdleUnmapped
<1> QED BY <1>5, <1>6, <1>7, <1>8, <1>9 DEF DispatchIdle

\* The branches of ConsonantPending.
LEMMA PendingKeepsOutcome ==
  ASSUME TypeOK, DispatchPending
  PROVE  Outcome' = Outcome
<1>1. depth > 0 /\ Return /\ KeyClass(input) = "ordinary" /\ state = "ConsonantPending"
  BY DEF DispatchPending, Ordinary, PendingVowelPrefix, PendingVowel, PendingConsonant,
         PendingConsonantPrefix, PendingUnmapped, Unmapped
<1>2. feed_impl(Object, input) = from_consonant_pending(Object, input)
  BY <1>1, HandledAtOnce, States DEF handle
<1>3. /\ Object.pending = pending /\ Object.prefix = prefix
      /\ Object.state = "CONSONANT_PENDING"
  BY <1>1, ObjectFields, PyStates
<1>4. commit_with_virama(Optional(pending)) = flush_consonant_with_virama
  BY DEF commit_with_virama, flush_consonant_with_virama, WithVirama
<1>5. CASE PendingVowelPrefix
  <2>1. Object' = Self("PARTIAL_VOWEL", pending, One)
    BY <1>5, ObjectFields, PyStates DEF PendingVowelPrefix
  <2>2. from_consonant_pending(Object, input)
          = Result(Self("PARTIAL_VOWEL", Object.pending, One), <<>>)
    BY <1>5 DEF from_consonant_pending, PendingVowelPrefix, One, Complete, Matches
  <2>3. from_consonant_pending(Object, input) = Result(Object', <<>>)
    BY <1>3, <2>1, <2>2
  <2> QED BY <1>1, <1>2, <1>5, <2>3, ReturnKeepsOutcome DEF PendingVowelPrefix
<1>6. CASE PendingVowel
  <2>1. emit_consonant_matra(Object, Vowels[One]) = Optional(pending) \o MatraOf(One)
    BY <1>6, VowelTexts DEF PendingVowel, Complete
  <2>2. Object' = Self("IDLE", NoLetter, prefix)
    BY <1>6, ObjectFields, PyStates DEF PendingVowel
  <2>3. from_consonant_pending(Object, input)
          = Result(Self("IDLE", NoLetter, Object.prefix), emit_consonant_matra(Object, Vowels[One]))
    BY <1>6 DEF from_consonant_pending, PendingVowel, One, Complete, Matches
  <2>4. from_consonant_pending(Object, input) = Result(Object', Optional(pending) \o MatraOf(One))
    BY <1>3, <2>1, <2>2, <2>3
  <2> QED BY <1>1, <1>2, <1>6, <2>4, ReturnKeepsOutcome DEF PendingVowel
<1>7. CASE PendingConsonant
  <2>1. from_consonant_pending(Object, input) = Result(Object', flush_consonant_with_virama)
    BY <1>1, <1>3, <1>4, <1>7, ObjectFields, PyStates
    DEF from_consonant_pending, PendingConsonant, One, Complete, Matches
  <2> QED BY <1>1, <1>2, <1>7, <2>1, ReturnKeepsOutcome DEF PendingConsonant
<1>8. CASE PendingConsonantPrefix
  <2>1. from_consonant_pending(Object, input) = Result(Object', flush_consonant_with_virama)
    BY <1>3, <1>4, <1>8, ObjectFields, PyStates
    DEF from_consonant_pending, PendingConsonantPrefix, One, Complete, Matches
  <2> QED BY <1>1, <1>2, <1>8, <2>1, ReturnKeepsOutcome DEF PendingConsonantPrefix
<1>9. CASE PendingUnmapped
  <2>1. Optional(pending) \o emit_unmapped(input) = flush_consonant_plain \o Passthrough(input)
    BY DEF emit_unmapped, Passthrough, flush_consonant_plain
  <2>2. from_consonant_pending(Object, input)
          = Result(Object', flush_consonant_plain \o Passthrough(input))
    BY <1>1, <1>3, <1>9, <2>1, ObjectFields, PyStates
    DEF from_consonant_pending, PendingUnmapped, Unmapped, Matches, Complete
  <2> QED BY <1>1, <1>2, <1>9, <2>2, ReturnKeepsOutcome DEF PendingUnmapped
<1> QED BY <1>5, <1>6, <1>7, <1>8, <1>9 DEF DispatchPending

\* The branches in which the key extends the buffered prefix.
LEMMA ExtendKeepsOutcome ==
  ASSUME TypeOK,
         ExtendConsonant \/ CompleteConsonant \/ ExtendVowel \/ CompleteMatra
           \/ CompleteStandalone
  PROVE  Outcome' = Outcome
<1>1. depth > 0 /\ Return /\ KeyClass(input) = "ordinary"
  BY DEF Ordinary, ExtendConsonant, CompleteConsonant, ExtendVowel, CompleteMatra,
         CompleteStandalone
<1>2. feed_impl(Object, input) = handle(Object, input)
  BY <1>1, HandledAtOnce
  DEF Ordinary, ExtendConsonant, CompleteConsonant, ExtendVowel, CompleteMatra, CompleteStandalone,
      Matches, Complete
<1>3. /\ Object.pending = pending /\ Object.prefix = prefix /\ Object.state = PyState(state)
      /\ Append(Object.prefix, input) = Extended
  BY ObjectFields DEF Extended
<1>4. CASE ExtendConsonant
  <2>1. handle(Object, input) = from_partial_consonant(Object, input)
    BY <1>1, <1>4, States DEF handle, ExtendConsonant, Ordinary
  <2>2. from_partial_consonant(Object, input) = Result(Object', <<>>)
    BY <1>3, <1>4, ObjectFields DEF from_partial_consonant, ExtendConsonant
  <2> QED BY <1>1, <1>2, <1>4, <2>1, <2>2, ReturnKeepsOutcome DEF ExtendConsonant
<1>5. CASE CompleteConsonant
  <2>1. handle(Object, input) = from_partial_consonant(Object, input)
    BY <1>1, <1>5, States DEF handle, CompleteConsonant, Ordinary
  <2>2. from_partial_consonant(Object, input) = Result(Object', <<>>)
    BY <1>3, <1>5, ObjectFields, PyStates
    DEF from_partial_consonant, CompleteConsonant, Complete
  <2> QED BY <1>1, <1>2, <1>5, <2>1, <2>2, ReturnKeepsOutcome DEF CompleteConsonant
<1>6. CASE ExtendVowel
  <2>1. \/ handle(Object, input) = from_partial_vowel(Object, input)
        \/ handle(Object, input) = from_partial_vowel_standalone(Object, input)
    BY <1>1, <1>6, States DEF handle, ExtendVowel, Ordinary
  <2>2. /\ from_partial_vowel(Object, input) = Result(Object', <<>>)
        /\ from_partial_vowel_standalone(Object, input) = Result(Object', <<>>)
    BY <1>3, <1>6, ObjectFields
    DEF from_partial_vowel, from_partial_vowel_standalone, ExtendVowel
  <2> QED BY <1>1, <1>2, <1>6, <2>1, <2>2, ReturnKeepsOutcome DEF ExtendVowel
<1>7. CASE CompleteMatra
  <2>1. handle(Object, input) = from_partial_vowel(Object, input)
    BY <1>1, <1>7, States DEF handle, CompleteMatra, Ordinary
  <2>2. emit_consonant_matra(Object, Vowels[Extended]) = Optional(pending) \o MatraOf(Extended)
    BY <1>7, VowelTexts DEF CompleteMatra, Complete
  <2>3. Object' = Fresh
    BY <1>7, ObjectFields, PyStates DEF CompleteMatra, Cleared, Fresh
  <2>4. from_partial_vowel(Object, input) = Result(Object', Optional(pending) \o MatraOf(Extended))
    BY <1>3, <1>7, <2>2, <2>3 DEF from_partial_vowel, CompleteMatra, Complete
  <2> QED BY <1>1, <1>2, <1>7, <2>1, <2>4, ReturnKeepsOutcome DEF CompleteMatra
<1>8. CASE CompleteStandalone
  <2>1. handle(Object, input) = from_partial_vowel_standalone(Object, input)
    BY <1>1, <1>8, States DEF handle, CompleteStandalone, Ordinary
  <2>2. standalone_of(Extended) = StandaloneOf(Extended)
    BY DEF standalone_of, StandaloneOf
  <2>3. from_partial_vowel_standalone(Object, input) = Result(Object', StandaloneOf(Extended))
    BY <1>3, <1>8, <2>2, ObjectFields, PyStates
    DEF from_partial_vowel_standalone, CompleteStandalone, Complete
  <2> QED BY <1>1, <1>2, <1>8, <2>1, <2>3, ReturnKeepsOutcome DEF CompleteStandalone
<1> QED BY <1>4, <1>5, <1>6, <1>7, <1>8

-----------------------------------------------------------------------------
(* The reference's text is text *)

\* What is needed of an object: a state of the reference, and a letter or none.
PyObject(t) ==
  /\ t.state \in {"IDLE", "CONSONANT_PENDING"} \cup Partial
  /\ t.pending \in Letter \cup {NoLetter}

\* Every helper of the reference returns a text.
LEMMA ReferenceTexts ==
  ASSUME NEW t, PyObject(t)
  PROVE  /\ <<>> \in Text
         /\ Optional(t.pending) \in Text
         /\ \A seq : standalone_of(seq) \in Text
         /\ \A seq : Exact(Vowels, seq) => emit_consonant_matra(t, Vowels[seq]) \in Text
         /\ \A key \in Key : emit_unmapped(key) \in Text
         /\ \A text \in Text : commit_with_virama(text) \in Text
         /\ soft_commit(t) \in Text
<1>1. <<>> \in Text /\ Optional(t.pending) \in Text
  BY EmptySeq, OptionalText DEF PyObject, Text
<1>2. ASSUME NEW seq
      PROVE  standalone_of(seq) \in Text
  BY VowelText DEF standalone_of, StandaloneOf
<1>3. ASSUME NEW seq, Exact(Vowels, seq)
      PROVE  emit_consonant_matra(t, Vowels[seq]) \in Text
  <2>1. Optional(Vowels[seq].matra) \in Text
    BY <1>3, VowelText DEF MatraOf
  <2> QED BY <1>1, <2>1, ConcatText DEF emit_consonant_matra
<1>4. ASSUME NEW key \in Key
      PROVE  emit_unmapped(key) \in Text
  BY PassthroughText DEF emit_unmapped, Passthrough
<1>5. ASSUME NEW text \in Text
      PROVE  commit_with_virama(text) \in Text
  BY WithViramaText DEF commit_with_virama, WithVirama
<1>6. first_consonant(t) \in Text
  <2>1. CASE Exact(Consonants, first_of(t))
    BY <2>1, ConsonantIsLetter, OneLetterText DEF first_consonant
  <2>2. CASE ~ Exact(Consonants, first_of(t))
    BY <1>1, <2>2 DEF first_consonant
  <2> QED BY <2>1, <2>2
<1>7. soft_commit(t) \in Text
  BY <1>1, <1>2, <1>3, <1>6 DEF soft_commit, PyObject, Partial
<1> QED BY <1>1, <1>2, <1>3, <1>4, <1>5, <1>7

\* So do its handlers by state, ...
LEMMA OrdinaryText ==
  ASSUME NEW t, PyObject(t), NEW key \in Key, KeyClass(key) = "ordinary", ~ Refeeds(t, key)
  PROVE  handle(t, key).out \in Text
<1>1. CASE t.state = "IDLE"
  <2>1. from_idle(t, key).out \in Text
    BY ReferenceTexts DEF from_idle, Result
  <2> QED BY <1>1, <2>1 DEF handle
<1>2. CASE t.state = "CONSONANT_PENDING"
  <2>1. /\ commit_with_virama(Optional(t.pending)) \in Text
        /\ Optional(t.pending) \o emit_unmapped(key) \in Text
    BY ReferenceTexts, ConcatText
  <2>2. from_consonant_pending(t, key).out \in Text
    BY <2>1, ReferenceTexts DEF from_consonant_pending, Result, Complete
  <2> QED BY <1>2, <2>2 DEF handle
<1>3. CASE t.state = "PARTIAL_CONSONANT"
  <2>1. from_partial_consonant(t, key).out \in Text
    BY ReferenceTexts DEF from_partial_consonant, Result
  <2> QED BY <1>3, <2>1 DEF handle
<1>4. CASE t.state = "PARTIAL_VOWEL"
  <2>1. Matches(Vowels, Append(t.prefix, key))
    BY <1>4 DEF Refeeds, Partial, Buffered
  <2>2. from_partial_vowel(t, key).out \in Text
    BY <2>1, ReferenceTexts DEF from_partial_vowel, Result, Matches
  <2> QED BY <1>4, <2>2 DEF handle
<1>5. CASE t.state = "PARTIAL_VOWEL_STANDALONE"
  <2>1. from_partial_vowel_standalone(t, key).out \in Text
    BY ReferenceTexts DEF from_partial_vowel_standalone, Result
  <2> QED BY <1>5, <2>1 DEF handle
<1> QED BY <1>1, <1>2, <1>3, <1>4, <1>5 DEF PyObject, Partial

\* ... all its handlers, ...
LEMMA HandleText ==
  ASSUME NEW t, PyObject(t), NEW key \in Key, ~ Refeeds(t, key)
  PROVE  handle(t, key).out \in Text
<1>1. soft_commit(t) \in Text /\ commit_with_virama(soft_commit(t)) \in Text
  BY ReferenceTexts
<1>2. {virama, zwj, anusvara, visarga} \subseteq Letter
  BY KeymapTypes
<1>3. CASE KeyClass(key) = "terminator"
  <2>1. handle_hard_terminator(t).out \in Text
    BY <1>1 DEF handle_hard_terminator, Result
  <2> QED BY <1>3, <2>1 DEF handle
<1>4. CASE KeyClass(key) = "conjunct"
  <2>1. t.pending # NoLetter => <<t.pending, virama, zwj>> \in Text
    BY <1>2 DEF PyObject, Text
  <2>2. handle_conjunct(t).out \in Text
    BY <1>1, <2>1 DEF handle_conjunct, Result
  <2> QED BY <1>4, <2>2 DEF handle
<1>5. CASE KeyClass(key) \in {"anusvara", "visarga"}
  <2>1. ASSUME NEW sign \in Letter
        PROVE  handle_sign(t, sign).out \in Text
    <3>1. Append(soft_commit(t), sign) \in Text
      BY <1>1, AppendProperties DEF Text
    <3> QED BY <3>1 DEF handle_sign, Result
  <2> QED BY <1>2, <1>5, <2>1 DEF handle
<1>6. CASE KeyClass(key) = "ordinary"
  BY <1>6, OrdinaryText
<1> QED BY <1>3, <1>4, <1>5, <1>6 DEF KeyClass

\* ... what it does before it re-feeds, which it does once, ...
LEMMA SettleText ==
  ASSUME NEW t, PyObject(t), NEW key \in Key, Refeeds(t, key)
  PROVE  /\ settle(t).out \in Text
         /\ PyObject(settle(t).t)
         /\ ~ Refeeds(settle(t).t, key)
<1>1. t.state \in Partial
  BY DEF Refeeds
<1>2. settle(t).out \in Text
  BY <1>1, ReferenceTexts DEF settle, Result, Partial
<1>3. /\ settle(t).t.state \in {"IDLE", "CONSONANT_PENDING"}
      /\ settle(t).t.pending \in Letter \cup {NoLetter}
  BY <1>1, ConsonantIsLetter DEF settle, Result, Partial, Self, Fresh, PyObject
<1> QED BY <1>2, <1>3 DEF PyObject, Refeeds, Partial

\* ... and feed().
LEMMA FeedText ==
  ASSUME NEW t, PyObject(t), NEW key \in Key
  PROVE  feed_impl(t, key).out \in Text
<1>1. CASE Refeeds(t, key)
  <2>1. settle(t).out \in Text /\ handle(settle(t).t, key).out \in Text
    BY <1>1, SettleText, HandleText
  <2>2. feed_impl(t, key).out = settle(t).out \o handle(settle(t).t, key).out
    BY <1>1 DEF feed_impl, Result
  <2> QED BY <2>1, <2>2, ConcatText
<1>2. CASE ~ Refeeds(t, key)
  BY <1>2, HandleText DEF feed_impl
<1> QED BY <1>1, <1>2

\* A typed composer is a typed object.
LEMMA ObjectIsTyped ==
  ASSUME TypeOK
  PROVE  PyObject(Object)
BY ObjectFields, PyStates DEF TypeOK, CompositionState, PyObject, Partial

-----------------------------------------------------------------------------
(* The branches that re-feed *)

\* Texts may be appended in either order.
LEMMA TextAssociative ==
  ASSUME NEW s \in Text, NEW u \in Text, NEW w \in Text
  PROVE  (s \o u) \o w = s \o (u \o w)
<1> DEFINE S == Letter \cup Char
<1>1. s \in Seq(S) /\ u \in Seq(S) /\ w \in Seq(S)
  BY DEF Text
<1> HIDE DEF S
<1> QED BY <1>1, ConcatAssociative

\* A branch that re-feeds as the reference does leaves Outcome alone: the rest of the
\* call is the second half of what the reference does.
LEMMA RefeedKeepsOutcome ==
  ASSUME TypeOK, TypeOK', depth > 0, Redispatch, NEW X \in Text, Emit(X),
         Refeeds(Object, input), settle(Object) = Result(Object', X)
  PROVE  Outcome' = Outcome
<1>1. depth' > 0 /\ input' = input /\ input \in Key
  BY DEF Redispatch, TypeOK
<1>2. PyObject(Object) /\ settle(Object).t = Object' /\ settle(Object).out = X
  BY ObjectIsTyped DEF Result
<1>3. PyObject(Object') /\ ~ Refeeds(Object', input)
  BY <1>1, <1>2, SettleText
<1> DEFINE again == handle(Object', input)
<1>4. again.out \in Text
  BY <1>1, <1>3, HandleText
<1>5. feed_impl(Object', input) = again
  BY <1>3 DEF feed_impl
<1>6. feed_impl(Object, input) = Result(again.t, X \o again.out)
  BY <1>2 DEF feed_impl
<1> HIDE DEF again
<1>7. Outcome = Result(again.t, committed \o (X \o again.out))
  BY <1>6 DEF Outcome, AtRest, Result
<1>8. Outcome' = Result(again.t, committed' \o again.out)
  BY <1>1, <1>5 DEF Outcome, AtRest
<1>9. (committed \o X) \o again.out = committed \o (X \o again.out)
  BY <1>4, TextAssociative DEF TypeOK
<1> QED BY <1>7, <1>8, <1>9 DEF Emit

\* The branches that re-feed.
LEMMA ResolveKeepsOutcome ==
  ASSUME TypeOK, TypeOK', ~ InGap,
         ResolveConsonant \/ DropConsonantPrefix \/ ResolveMatra \/ ResolveStandalone
  PROVE  Outcome' = Outcome
<1>1. depth > 0 /\ Redispatch
  BY DEF ResolveConsonant, DropConsonantPrefix, ResolveMatra, ResolveStandalone, Ordinary
<1>2. Refeeds(Object, input)
  BY ObjectFields, PyStates
  DEF Refeeds, Partial, Buffered, ResolveConsonant, DropConsonantPrefix, ResolveMatra,
      ResolveStandalone, Ordinary, Extended
<1>3. <<>> \in Text
  BY EmptySeq DEF Text
<1>4. CASE ResolveConsonant
  <2>1. Object' = Self("CONSONANT_PENDING", Consonants[First], <<>>)
    BY <1>4, ObjectFields, PyStates DEF ResolveConsonant
  <2>2. settle(Object) = Result(Object', <<>>)
    BY <1>4, <2>1, ObjectFields, PyStates DEF settle, ResolveConsonant, Ordinary
  <2> QED BY <1>1, <1>2, <1>3, <1>4, <2>2, RefeedKeepsOutcome DEF ResolveConsonant
<1>5. CASE DropConsonantPrefix
  <2>1. Object' = Self("IDLE", Object.pending, <<>>)
    BY <1>5, ObjectFields, PyStates DEF DropConsonantPrefix
  <2>2. settle(Object) = Result(Object', <<>>)
    BY <1>5, <2>1, ObjectFields, PyStates DEF settle, DropConsonantPrefix, Ordinary
  <2> QED BY <1>1, <1>2, <1>3, <1>5, <2>2, RefeedKeepsOutcome DEF DropConsonantPrefix
<1>6. CASE ResolveMatra
  <2>1. Exact(Vowels, prefix) /\ Object.state = "PARTIAL_VOWEL"
    BY <1>6, ObjectFields, PyStates DEF ResolveMatra, Ordinary, InGap
  <2>2. Object' = Fresh
    BY <1>6, <2>1, ObjectFields, PyStates DEF ResolveMatra, Fresh
  <2>3. emit_consonant_matra(Object, Vowels[prefix]) = flush_consonant_matra
    BY <2>1, VowelTexts DEF flush_consonant_matra
  <2>4. settle(Object) = Result(Object', flush_consonant_matra)
    BY <2>1, <2>2, <2>3, ObjectFields DEF settle
  <2>5. Emit(flush_consonant_matra)
    BY <1>6, <2>1 DEF ResolveMatra
  <2>6. flush_consonant_matra \in Text
    BY FlushText
  <2> QED BY <1>1, <1>2, <2>4, <2>5, <2>6, RefeedKeepsOutcome
<1>7. CASE ResolveStandalone
  <2>1. Object' = Self("IDLE", Object.pending, <<>>)
    BY <1>7, ObjectFields, PyStates DEF ResolveStandalone
  <2>2. standalone_of(prefix) = flush_standalone_vowel
    BY DEF standalone_of, flush_standalone_vowel, StandaloneOf
  <2>3. settle(Object) = Result(Object', flush_standalone_vowel)
    BY <1>7, <2>1, <2>2, ObjectFields, PyStates DEF settle, ResolveStandalone, Ordinary
  <2>4. flush_standalone_vowel \in Text
    BY FlushText
  <2> QED BY <1>1, <1>2, <1>7, <2>3, <2>4, RefeedKeepsOutcome DEF ResolveStandalone
<1> QED BY <1>4, <1>5, <1>6, <1>7

\* No branch of dispatch changes how the call will end.
LEMMA DispatchKeepsOutcome ==
  ASSUME TypeOK, TypeOK', ~ InGap, Dispatch
  PROVE  Outcome' = Outcome
BY RuleKeepsOutcome, IdleKeepsOutcome, PendingKeepsOutcome, ExtendKeepsOutcome, ResolveKeepsOutcome
DEF Dispatch, DispatchPartialConsonant, DispatchVowel

-----------------------------------------------------------------------------
(* The calls *)

\* Between calls Outcome is the composer itself.
LEMMA RestOutcome ==
  /\ AtRest => Outcome.t = Object /\ Outcome.out = committed
  /\ AtRest' => Outcome'.t = Object' /\ Outcome'.out = committed'
BY DEF Outcome, Result

\* feed() of a key
LEMMA FeedMirrors ==
  ASSUME TypeOK, NEW key \in Key, Feed(key)
  PROVE  Reference!Feed(key)
<1>1. Outcome.t = Object
  BY RestOutcome DEF Feed
<1>2. Object' = Object
  BY DEF Feed, buffer, Object
<1>3. Outcome' = Result(feed_impl(Object, key).t, <<>> \o feed_impl(Object, key).out)
  BY <1>2 DEF Feed, Outcome, AtRest
<1>4. <<>> \o feed_impl(Object, key).out = feed_impl(Object, key).out
  <2>1. feed_impl(Object, key).out \in Seq(Letter \cup Char)
    BY ObjectIsTyped, FeedText DEF Text
  <2> QED BY <2>1, ConcatEmptySeq
<1>5. /\ Outcome'.t = feed_impl(Object, key).t
      /\ Outcome'.out = feed_impl(Object, key).out
  BY <1>3, <1>4 DEF Result
<1> QED BY <1>1, <1>5, SameHandlers DEF Reference!Feed

\* feed() of a backspace, also from inside a gap
LEMMA BackspaceMirrors ==
  ASSUME TypeOK, Backspace
  PROVE  Reference!feed_backspace
<1>1. /\ AtRest /\ AtRest' /\ committed' = <<>>
  BY DEF Backspace, BackspaceIdle, BackspacePrefix, BackspaceConsonant, BackspaceVowel,
         BackspaceWhen, AtRest
<1>2. /\ Outcome.t = Object /\ Outcome'.t = Object' /\ Outcome'.out = <<>>
  BY <1>1, RestOutcome
<1>3. popped(Object) = IF prefix = <<>> THEN <<>> ELSE Front(prefix)
  BY ObjectFields DEF popped
<1>4. Object' = handle_backspace(Object)
  <2>1. CASE BackspaceIdle
    BY <2>1, ObjectFields, PyStates
    DEF BackspaceIdle, BackspaceWhen, handle_backspace, buffer, Object
  <2>2. CASE BackspacePrefix
    <3>1. CASE Len(prefix) > 1
      <4>1. prefix # <<>>
        BY <3>1, EmptySeq, LenProperties
      <4> QED BY <2>2, <3>1, <4>1, <1>3, ObjectFields, PyStates
          DEF BackspacePrefix, BackspaceWhen, handle_backspace
    <3>2. CASE ~ Len(prefix) > 1
      BY <2>2, <3>2, ObjectFields, PyStates
      DEF BackspacePrefix, BackspaceWhen, handle_backspace, Cleared, Fresh
    <3> QED BY <3>1, <3>2
  <2>3. CASE BackspaceConsonant
    BY <2>3, ObjectFields, PyStates DEF BackspaceConsonant, BackspaceWhen, handle_backspace
  <2>4. CASE BackspaceVowel
    BY <2>4, <1>3, ObjectFields, PyStates
    DEF BackspaceVowel, BackspaceWhen, handle_backspace
  <2> QED BY <2>1, <2>2, <2>3, <2>4 DEF Backspace
<1> QED BY <1>2, <1>4, SameHandlers DEF Reference!feed_backspace

\* commit()
LEMMA CommitMirrors ==
  ASSUME TypeOK, Commit, ~ InGap
  PROVE  Reference!commit
<1>1. AtRest /\ AtRest'
  BY DEF Commit, AtRest
<1>2. Object' = Fresh
  BY ObjectFields, PyStates DEF Commit, Cleared, Fresh
<1>3. committed' = soft_commit(Object)
  BY SoftTexts DEF Commit
<1> QED BY <1>1, <1>2, <1>3, RestOutcome, SameHandlers DEF Reference!commit

\* reset()
LEMMA ResetMirrors ==
  ASSUME Reset
  PROVE  Reference!reset
<1>1. AtRest' /\ committed' = <<>>
  BY DEF Reset, AtRest
<1>2. Object' = Fresh
  BY ObjectFields, PyStates DEF Reset, Cleared, Fresh
<1> QED BY <1>1, <1>2, RestOutcome, SameHandlers DEF Reference!reset

\* Every step does to Outcome what the same step of the reference does.
LEMMA NextMirrors ==
  ASSUME TypeOK, TypeOK', ~ InGap
  PROVE  Mirrored
<1>1. ASSUME Dispatch
      PROVE  UNCHANGED Outcome
  BY <1>1, DispatchKeepsOutcome
<1> QED BY <1>1, FeedMirrors, BackspaceMirrors, CommitMirrors, ResetMirrors DEF Mirrored

\* So it is a step of the reference, or leaves Outcome alone.
LEMMA MirroredNext ==
  ASSUME Mirrored, Next
  PROVE  Reference!Next \/ Outcome' = Outcome
<1>1. ASSUME NEW key \in Key, Feed(key)
      PROVE  Reference!Next
  <2>1. Reference!Feed(key)
    BY <1>1 DEF Mirrored
  <2> QED BY <2>1 DEF Reference!Next, Reference!Key, Key
<1>2. CASE Backspace \/ Commit \/ Reset
  BY <1>2 DEF Mirrored, Reference!Next
<1>3. CASE Dispatch
  BY <1>3 DEF Mirrored
<1> QED BY <1>1, <1>2, <1>3 DEF Next, Call

-----------------------------------------------------------------------------
(* Parity *)

\* Whatever the keymap: outside a gap of the vowel trie, no call of the composer and
\* no branch of dispatch does anything the Python reference would not have done.
THEOREM ComposerMirrorsOutsideGaps == Spec => MirrorsOutsideGaps
<1>1. TypeOK /\ TypeOK' => [~ InGap => Mirrored]_vars
  BY NextMirrors
<1> QED BY <1>1, TypeCorrect, PTL DEF Spec, MirrorsOutsideGaps

\* Without gaps in the keymap none is ever buffered.
LEMMA NoGapsMet ==
  ASSUME VowelsHaveNoGaps, TypeOK, PrefixIsLive
  PROVE  ~ InGap
BY LiveVowelIsExact DEF InGap, PrefixIsLive, TypeOK

\* Under a keymap whose vowels have no gaps, as the shipped one, the C++ composer
\* implements the Python reference: design goal 6 of the project.
THEOREM ComposerImplementsReference ==
  ASSUME VowelsHaveNoGaps
  PROVE  Spec => MirrorsReference
<1>1. Init => Reference!Init
  <2> SUFFICES ASSUME Init
               PROVE  Reference!Init
    OBVIOUS
  <2>1. Object = Fresh
    BY PyStates DEF Init, Object, Fresh
  <2>2. Outcome.t = Fresh /\ Outcome.out = <<>>
    BY <2>1, RestOutcome DEF Init, AtRest
  <2>3. Reference!Fresh = Fresh
    BY SameHandlers
  <2> QED BY <2>2, <2>3 DEF Reference!Init
<1>2. TypeOK /\ TypeOK' /\ PrefixIsLive /\ [Next]_vars => [Reference!Next]_(Reference!vars)
  <2> SUFFICES ASSUME TypeOK, TypeOK', PrefixIsLive, [Next]_vars
               PROVE  Reference!Next \/ UNCHANGED Reference!vars
    OBVIOUS
  <2>1. CASE Next
    <3>1. Reference!Next \/ Outcome' = Outcome
      BY <2>1, NoGapsMet, NextMirrors, MirroredNext
    <3> QED BY <3>1 DEF Reference!vars
  <2>2. CASE UNCHANGED vars
    <3>1. Outcome' = Outcome
      BY <2>2 DEF vars, Outcome, AtRest, Object
    <3> QED BY <3>1 DEF Reference!vars
  <2> QED BY <2>1, <2>2
<1>3. TypeOK /\ TypeOK' /\ PrefixIsLive => [Mirrored]_vars
  BY NoGapsMet, NextMirrors
<1> QED BY <1>1, <1>2, <1>3, TypeCorrect, PrefixAlwaysLive, PTL
    DEF Spec, MirrorsReference, Reference!Spec

\* The two previews differ in nothing but a vowel prefix typed after no consonant.
THEOREM PreviewsAlwaysAgreeOnConsonants == Spec => []PreviewsAgreeOnConsonants
<1>1. ASSUME TypeOK
      PROVE  PreviewsAgreeOnConsonants
  <2> SUFFICES ASSUME state = "PartialVowel" => pending # NoLetter
               PROVE  composition = composition_of(Object)
    BY DEF PreviewsAgreeOnConsonants
  <2>1. CASE state \in {"Idle", "PartialConsonant", "ConsonantPending"}
    BY <2>1, ObjectFields, PyStates DEF composition, composition_of
  <2>2. CASE state = "PartialVowelStandalone"
    BY <2>2, ObjectFields, PyStates
    DEF composition, composition_of, standalone_of, StandaloneOf
  <2>3. CASE state = "PartialVowel"
    <3>1. composition = Optional(pending) \o MatraOf(prefix)
      BY <2>3 DEF composition
    <3>2. CASE Exact(Vowels, prefix)
      BY <2>3, <3>1, <3>2, <1>1, VowelTexts, ObjectFields, PyStates DEF composition_of
    <3>3. CASE ~ Exact(Vowels, prefix)
      <4>1. Optional(pending) \o MatraOf(prefix) = Optional(pending)
        <5>1. Optional(pending) \in Seq(Letter \cup Char)
          BY <1>1, OptionalText DEF TypeOK, Text
        <5> QED BY <3>3, <5>1, ConcatEmptySeq DEF MatraOf
      <4> QED BY <2>3, <3>1, <3>3, <4>1, ObjectFields, PyStates DEF composition_of
    <3> QED BY <3>2, <3>3
  <2> QED BY <1>1, <2>1, <2>2, <2>3 DEF TypeOK, CompositionState
<1> QED BY <1>1, TypeCorrect, PTL
=============================================================================
