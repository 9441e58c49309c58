------------------------------ MODULE Composer ------------------------------
(***************************************************************************)
(* sinhala_ime::Composer, the composition state machine of the C++ engine. *)
(*                                                                         *)
(* feed() runs a lambda, dispatch, on the key; a branch that cannot use    *)
(* the key resolves what is buffered and calls dispatch on the same key    *)
(* again.  Here the call of feed(), every activation of dispatch and the   *)
(* calls of commit(), reset() and of feed() for a backspace are one step   *)
(* each: a re-feed is a step that leaves the key in "input" and goes one   *)
(* activation deeper.  Every recursive call of dispatch is a tail call, so *)
(* the branch that does not re-feed returns from feed().                   *)
(***************************************************************************)
EXTENDS Keymap

CONSTANT NoKey   \* not a keystroke: no feed() is running

VARIABLES
  state,      \* state_
  pending,    \* pending_consonant_
  prefix,     \* prefix_
  input,      \* the argument of the running dispatch, NoKey between calls
  depth,      \* activations of dispatch on the stack, 0 between calls
  committed,  \* the text this call (between calls: the last call) committed
  consumed    \* FeedOutcome::consumed of the last feed()

buffer == <<state, pending, prefix>>
vars == <<state, pending, prefix, input, depth, committed, consumed>>

CompositionState ==
  {"Idle", "PartialConsonant", "ConsonantPending", "PartialVowel", "PartialVowelStandalone"}

ASSUME NoKeyIsNoKey == NoKey \notin Key

-----------------------------------------------------------------------------
(* Text helpers: what each flush appends to its output *)

MatraOf_Null(seq) == IF Exact(Vowels, seq) THEN <<Vowels[seq].matra>> ELSE <<>>

MatraOf(seq) == IF Exact(Vowels, seq) THEN Optional(Vowels[seq].matra) ELSE <<>>
StandaloneOf(seq) == IF Exact(Vowels, seq) THEN Optional(Vowels[seq].standalone) ELSE <<>>

\* The single-key consonant a buffered consonant prefix falls back to.
First == <<Head(prefix)>>
FirstConsonant == IF Exact(Consonants, First) THEN <<Consonants[First]>> ELSE <<>>

WithVirama(text) == IF text = <<>> THEN <<>> ELSE Append(text, virama)

flush_consonant_with_virama_Always == Append(Optional(pending), virama)

flush_consonant_with_virama == WithVirama(Optional(pending))
flush_consonant_plain == Optional(pending)
flush_standalone_vowel == StandaloneOf(prefix)
flush_consonant_matra == Optional(pending) \o MatraOf(prefix)

Passthrough(key) == IF unmapped_passthrough THEN <<base_ascii(key)>> ELSE <<>>

SoftCommit_NoMatra ==
  CASE state = "ConsonantPending" -> flush_consonant_plain
    [] state = "PartialConsonant" -> FirstConsonant
    [] state = "PartialVowel" -> MatraOf(prefix)
    [] state = "PartialVowelStandalone" -> flush_standalone_vowel
    [] state = "Idle" -> <<>>

\* The buffer as text, without a virama: commit(), and the first half of the
\* conjunct, anusvara and visarga branches.
SoftCommit ==
  CASE state = "ConsonantPending" -> flush_consonant_plain
    [] state = "PartialConsonant" -> FirstConsonant
    [] state = "PartialVowel" -> flush_consonant_matra
    [] state = "PartialVowelStandalone" -> flush_standalone_vowel
    [] state = "Idle" -> <<>>

composition_NoConsonant ==
  CASE state = "ConsonantPending" -> Optional(pending)
    [] state = "PartialVowel" -> MatraOf(prefix)
    [] state = "PartialVowelStandalone" -> StandaloneOf(prefix)
    [] OTHER -> <<>>

\* composition(): the preview of the buffer.
composition ==
  CASE state = "ConsonantPending" -> Optional(pending)
    [] state = "PartialVowel" -> Optional(pending) \o MatraOf(prefix)
    [] state = "PartialVowelStandalone" -> StandaloneOf(prefix)
    [] OTHER -> <<>>

Cleared ==
  /\ state' = "Idle"
  /\ pending' = NoLetter
  /\ prefix' = <<>>

-----------------------------------------------------------------------------
(* The calls of the public interface *)

AtRest == depth = 0

Init ==
  /\ state = "Idle" /\ pending = NoLetter /\ prefix = <<>>
  /\ input = NoKey /\ depth = 0
  /\ committed = <<>> /\ consumed = FALSE

\* feed(key, false) up to its first dispatch(key); consumed is true on return.
Feed(key) ==
  /\ AtRest
  /\ input' = key /\ depth' = 1
  /\ committed' = <<>> /\ consumed' = TRUE
  /\ UNCHANGED buffer

\* feed(_, true).  Nothing is ever committed; the key is consumed unless Idle.
BackspaceWhen(active) ==
  /\ AtRest /\ active
  /\ committed' = <<>> /\ consumed' = (state # "Idle")
  /\ UNCHANGED <<input, depth>>

BackspaceIdle == BackspaceWhen(state = "Idle") /\ UNCHANGED buffer

BackspacePrefix ==
  /\ BackspaceWhen(state \in {"PartialConsonant", "PartialVowelStandalone"})
  /\ IF Len(prefix) > 1 THEN prefix' = Front(prefix) /\ UNCHANGED <<state, pending>>
                        ELSE Cleared

BackspaceConsonant ==
  /\ BackspaceWhen(state = "ConsonantPending")
  /\ state' = "Idle" /\ pending' = NoLetter /\ UNCHANGED prefix

BackspaceVowel_All ==
  /\ BackspaceWhen(state = "PartialVowel")
  /\ prefix' = <<>> /\ state' = "ConsonantPending" /\ UNCHANGED pending

BackspaceVowel ==
  /\ BackspaceWhen(state = "PartialVowel")
  /\ prefix' = IF prefix = <<>> THEN <<>> ELSE Front(prefix)
  /\ state' = IF Len(prefix) > 1 THEN state ELSE "ConsonantPending"
  /\ UNCHANGED pending

Backspace == BackspaceIdle \/ BackspacePrefix \/ BackspaceConsonant \/ BackspaceVowel

Commit ==
  /\ AtRest
  /\ committed' = SoftCommit
  /\ Cleared
  /\ UNCHANGED <<input, depth, consumed>>

Reset ==
  /\ AtRest
  /\ committed' = <<>>
  /\ Cleared
  /\ UNCHANGED <<input, depth, consumed>>
-----------------------------------------------------------------------------
(* dispatch(input): the rule keys *)

Return ==
  /\ depth' = 0 /\ input' = NoKey
  /\ UNCHANGED consumed

\* dispatch(cp), from inside dispatch(cp).
Redispatch ==
  /\ depth' = depth + 1
  /\ UNCHANGED <<input, consumed>>

Emit(text) == committed' = committed \o text

Rule(class) == depth > 0 /\ KeyClass(input) = class

\* The hard terminator adds a virama to a consonant that got no vowel.
HardCommit ==
  CASE state = "ConsonantPending" -> flush_consonant_with_virama
    [] state = "PartialConsonant" -> WithVirama(FirstConsonant)
    [] state = "PartialVowel" -> flush_consonant_matra
    [] state = "PartialVowelStandalone" -> flush_standalone_vowel
    [] state = "Idle" -> <<>>

HardTerminator ==
  /\ Rule("terminator")
  /\ Emit(HardCommit)
  /\ Cleared
  /\ Return

ConjunctAfterConsonant_Kept ==
  /\ Rule("conjunct")
  /\ state = "ConsonantPending" /\ pending # NoLetter
  /\ Emit(<<pending, virama, zwj>>)
  /\ state' = "Idle" /\ UNCHANGED <<pending, prefix>>
  /\ Return

ConjunctAfterConsonant ==
  /\ Rule("conjunct")
  /\ state = "ConsonantPending" /\ pending # NoLetter
  /\ Emit(<<pending, virama, zwj>>)
  /\ state' = "Idle" /\ pending' = NoLetter /\ UNCHANGED prefix
  /\ Return

ConjunctElsewhere ==
  /\ Rule("conjunct")
  /\ state # "ConsonantPending" \/ pending = NoLetter
  /\ Emit(SoftCommit)
  /\ Cleared
  /\ Return

AnusvaraKey ==
  /\ Rule("anusvara")
  /\ Emit(Append(SoftCommit, anusvara))
  /\ Cleared
  /\ Return

VisargaKey ==
  /\ Rule("visarga")
  /\ Emit(Append(SoftCommit, visarga))
  /\ Cleared
  /\ Return

-----------------------------------------------------------------------------
(* dispatch(input): the tries, by state *)

Ordinary(s) == depth > 0 /\ KeyClass(input) = "ordinary" /\ state = s

One == <<input>>
Extended == Append(prefix, input)

\* Idle

IdleConsonant ==
  /\ Ordinary("Idle")
  /\ Complete(Consonants, One)
  /\ state' = "ConsonantPending" /\ pending' = Consonants[One] /\ UNCHANGED prefix
  /\ Emit(<<>>) /\ Return

IdleConsonantPrefix ==
  /\ Ordinary("Idle")
  /\ is_strict_prefix(Consonants, One)
  /\ state' = "PartialConsonant" /\ prefix' = One /\ UNCHANGED pending
  /\ Emit(<<>>) /\ Return

IdleVowel ==
  /\ Ordinary("Idle")
  /\ ~ Matches(Consonants, One) /\ Complete(Vowels, One)
  /\ Emit(StandaloneOf(One))
  /\ UNCHANGED buffer /\ Return

IdleVowelPrefix ==
  /\ Ordinary("Idle")
  /\ ~ Matches(Consonants, One) /\ is_strict_prefix(Vowels, One)
  /\ state' = "PartialVowelStandalone" /\ prefix' = One /\ UNCHANGED pending
  /\ Emit(<<>>) /\ Return

IdleUnmapped ==
  /\ Ordinary("Idle")
  /\ Unmapped(input)
  /\ Emit(Passthrough(input))
  /\ UNCHANGED buffer /\ Return

\* PartialConsonant

ExtendConsonant ==
  /\ Ordinary("PartialConsonant")
  /\ is_strict_prefix(Consonants, Extended)
  /\ prefix' = Extended /\ UNCHANGED <<state, pending>>
  /\ Emit(<<>>) /\ Return

CompleteConsonant_Kept ==
  /\ Ordinary("PartialConsonant")
  /\ Complete(Consonants, Extended)
  /\ state' = "ConsonantPending" /\ pending' = Consonants[Extended] /\ prefix' = Extended
  /\ Emit(<<>>) /\ Return

CompleteConsonant ==
  /\ Ordinary("PartialConsonant")
  /\ Complete(Consonants, Extended)
  /\ state' = "ConsonantPending" /\ pending' = Consonants[Extended] /\ prefix' = <<>>
  /\ Emit(<<>>) /\ Return

ResolveConsonant_Kept ==
  /\ Ordinary("PartialConsonant")
  /\ ~ Matches(Consonants, Extended) /\ Exact(Consonants, First)
  /\ pending' = Consonants[First] /\ UNCHANGED <<state, prefix>>
  /\ Emit(<<>>) /\ Redispatch

ResolveConsonant ==
  /\ Ordinary("PartialConsonant")
  /\ ~ Matches(Consonants, Extended) /\ Exact(Consonants, First)
  /\ state' = "ConsonantPending" /\ pending' = Consonants[First] /\ prefix' = <<>>
  /\ Emit(<<>>) /\ Redispatch

DropConsonantPrefix_Loop ==
  /\ Ordinary("PartialConsonant")
  /\ ~ Matches(Consonants, Extended) /\ ~ Exact(Consonants, First)
  /\ UNCHANGED vars

\* The first key is no consonant by itself: the buffered keys are dropped.
DropConsonantPrefix ==
  /\ Ordinary("PartialConsonant")
  /\ ~ Matches(Consonants, Extended) /\ ~ Exact(Consonants, First)
  /\ state' = "Idle" /\ prefix' = <<>> /\ UNCHANGED pending
  /\ Emit(<<>>) /\ Redispatch

\* ConsonantPending: vowels are looked up before consonants.

PendingVowelPrefix ==
  /\ Ordinary("ConsonantPending")
  /\ is_strict_prefix(Vowels, One)
  /\ state' = "PartialVowel" /\ prefix' = One /\ UNCHANGED pending
  /\ Emit(<<>>) /\ Return

PendingVowel ==
  /\ Ordinary("ConsonantPending")
  /\ Complete(Vowels, One)
  /\ Emit(Optional(pending) \o MatraOf(One))
  /\ state' = "Idle" /\ pending' = NoLetter /\ UNCHANGED prefix
  /\ Return

PendingConsonant ==
  /\ Ordinary("ConsonantPending")
  /\ ~ Matches(Vowels, One) /\ Complete(Consonants, One)
  /\ Emit(flush_consonant_with_virama)
  /\ pending' = Consonants[One] /\ UNCHANGED <<state, prefix>>
  /\ Return

PendingConsonantPrefix ==
  /\ Ordinary("ConsonantPending")
  /\ ~ Matches(Vowels, One) /\ is_strict_prefix(Consonants, One)
  /\ Emit(flush_consonant_with_virama)
  /\ state' = "PartialConsonant" /\ pending' = NoLetter /\ prefix' = One
  /\ Return

\* state_ is not assigned in this branch.
PendingUnmapped ==
  /\ Ordinary("ConsonantPending")
  /\ Unmapped(input)
  /\ Emit(flush_consonant_plain \o Passthrough(input))
  /\ pending' = NoLetter /\ UNCHANGED <<state, prefix>>
  /\ Return

\* PartialVowel and PartialVowelStandalone

ExtendVowel ==
  /\ Ordinary("PartialVowel") \/ Ordinary("PartialVowelStandalone")
  /\ is_strict_prefix(Vowels, Extended)
  /\ prefix' = Extended /\ UNCHANGED <<state, pending>>
  /\ Emit(<<>>) /\ Return

CompleteMatra ==
  /\ Ordinary("PartialVowel")
  /\ Complete(Vowels, Extended)
  /\ Emit(Optional(pending) \o MatraOf(Extended))
  /\ Cleared
  /\ Return

ResolveMatra_Pending ==
  /\ Ordinary("PartialVowel")
  /\ ~ Matches(Vowels, Extended)
  /\ Emit(Optional(pending) \o MatraOf(prefix))
  /\ state' = "ConsonantPending" /\ prefix' = <<>> /\ UNCHANGED pending
  /\ Redispatch

\* With no vowel at the prefix itself, pending_consonant_ is left as it was.
ResolveMatra ==
  /\ Ordinary("PartialVowel")
  /\ ~ Matches(Vowels, Extended)
  /\ IF Exact(Vowels, prefix) THEN Emit(flush_consonant_matra) /\ pending' = NoLetter
                              ELSE Emit(<<>>) /\ UNCHANGED pending
  /\ state' = "Idle" /\ prefix' = <<>>
  /\ Redispatch

CompleteStandalone ==
  /\ Ordinary("PartialVowelStandalone")
  /\ Complete(Vowels, Extended)
  /\ Emit(StandaloneOf(Extended))
  /\ state' = "Idle" /\ prefix' = <<>> /\ UNCHANGED pending
  /\ Return

ResolveStandalone ==
  /\ Ordinary("PartialVowelStandalone")
  /\ ~ Matches(Vowels, Extended)
  /\ Emit(flush_standalone_vowel)
  /\ state' = "Idle" /\ prefix' = <<>> /\ UNCHANGED pending
  /\ Redispatch

-----------------------------------------------------------------------------

DispatchRule ==
  \/ HardTerminator \/ ConjunctAfterConsonant \/ ConjunctElsewhere
  \/ AnusvaraKey \/ VisargaKey

DispatchIdle ==
  \/ IdleConsonant \/ IdleConsonantPrefix
  \/ IdleVowel \/ IdleVowelPrefix \/ IdleUnmapped

DispatchPartialConsonant ==
  \/ ExtendConsonant \/ CompleteConsonant
  \/ ResolveConsonant \/ DropConsonantPrefix

DispatchPending ==
  \/ PendingVowelPrefix \/ PendingVowel
  \/ PendingConsonant \/ PendingConsonantPrefix \/ PendingUnmapped

DispatchVowel ==
  \/ ExtendVowel \/ CompleteMatra \/ ResolveMatra
  \/ CompleteStandalone \/ ResolveStandalone

Dispatch ==
  \/ DispatchRule \/ DispatchIdle \/ DispatchPartialConsonant
  \/ DispatchPending \/ DispatchVowel

Call ==
  \/ \E key \in Key : Feed(key)
  \/ Backspace \/ Commit \/ Reset

Next == Call \/ Dispatch

\* feed() runs to completion once called; nothing obliges a user to type.
Spec == Init /\ [][Next]_vars /\ WF_vars(Dispatch)

-----------------------------------------------------------------------------
(* Invariants *)

Text == Seq(Letter \cup Char)

\* The variables have their types and no NUL is ever committed: append_utf8 is
\* called only on codepoints that were tested, or that cannot be 0.
TypeOK ==
  /\ state \in CompositionState
  /\ pending \in Letter \cup {NoLetter}
  /\ prefix \in Seq(Key)
  /\ depth \in Nat
  /\ input \in (IF depth = 0 THEN {NoKey} ELSE Key)
  /\ committed \in Text
  /\ consumed \in BOOLEAN

\* The prefix buffer is non-empty exactly in the three partial states, and there
\* it always leads to a longer key of its trie.  So prefix_.begin() + 1 is never
\* taken of an empty string (five branches do, without a test), and the buffer is
\* shorter than the longest key of the keymap, whatever is typed.
PrefixIsLive ==
  /\ state \in {"Idle", "ConsonantPending"} => prefix = <<>>
  /\ state = "PartialConsonant" => prefix # <<>> /\ is_strict_prefix(Consonants, prefix)
  /\ state \in {"PartialVowel", "PartialVowelStandalone"} =>
       prefix # <<>> /\ is_strict_prefix(Vowels, prefix)

\* A consonant is buffered only where composition.h says the field is valid: a
\* stale one would be emitted by, or overwritten in, a later call.  Holds of the
\* keymaps without vowel gaps.
BufferShape == pending # NoLetter => state \in {"ConsonantPending", "PartialVowel"}

WellSigned(text) ==
  \A i \in DOMAIN text :
    /\ text[i] = virama => i > 1 /\ text[i - 1] \in ConsonantLetters
    /\ text[i] = zwj => i > 1 /\ text[i - 1] = virama

\* What a call commits never has a virama without its consonant, nor a ZWJ without
\* its virama, whichever branches the call went through.
ViramaFollowsConsonant == WellSigned(committed)

\* A key is re-fed at most once: the recursion of dispatch is two activations
\* deep, and the second starts from a state whose branches do not re-feed.
RefeedBounded ==
  /\ depth <= 2
  /\ depth = 2 => state \in {"Idle", "ConsonantPending"}

\* A call commits at most three letters, however it re-feeds: twelve bytes, which
\* std::string holds without allocating.  So once dispatch has assigned a field nothing
\* in the call can fail, and the catch (...) of EngineImpl::feed, which answers that the
\* key was not consumed, only ever swallows a call that has not changed the composer.
CommitFits == Len(committed) <= 3

-----------------------------------------------------------------------------
(* Action properties *)

\* A buffered consonant leaves the buffer only into the text the same call
\* commits, except when the user erases it.  Holds of the keymaps without gaps.
NoConsonantLost ==
  [][pending # NoLetter /\ pending' # pending =>
       Backspace \/ Reset \/ \E i \in DOMAIN committed' : committed'[i] = pending]_vars

\* An unmapped key, or a commit of the consonant by one, leaves the state on
\* ConsonantPending with nothing pending.
HollowConsonant == state = "ConsonantPending" /\ pending = NoLetter

\* The last key of the prefix goes, or the consonant once there is no key left.
TakenBack ==
  IF prefix # <<>> THEN prefix' = Front(prefix) /\ UNCHANGED pending
                   ELSE prefix' = <<>> /\ pending' = NoLetter

\* A backspace takes back the last thing in the buffer and no more, and commits
\* nothing.  It is consumed if there was something to take back, and otherwise passed
\* through, but for one state in which it is swallowed: HollowConsonant.  Holds of the
\* keymaps without gaps.
BackspaceShrinks ==
  [][Backspace => /\ TakenBack
                  /\ committed' = <<>>
                  /\ consumed' = (prefix # <<>> \/ pending # NoLetter \/ HollowConsonant)]_vars

-----------------------------------------------------------------------------
(* Liveness *)

\* A call of feed() returns, for every keymap: no key is re-fed for ever.
FeedReturns == depth > 0 ~> depth = 0
=============================================================================
