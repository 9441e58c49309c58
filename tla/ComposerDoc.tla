---------------------------- MODULE ComposerDoc ----------------------------
(***************************************************************************)
(* What docs/phonetic-mapping-design.md and the headers promise of the     *)
(* state machine and the code does not do.  Each formula is one sentence   *)
(* of the documentation; README.md tells what the code does instead.       *)
(***************************************************************************)
EXTENDS Composer

\* Design 2.5 and mapping.h: a matra is "applied to preceding consonant" and
\* "emitted after a consonant".
MatraFollowsConsonant ==
  \A i \in DOMAIN committed :
    committed[i] \in Matras => i > 1 /\ committed[i - 1] \in ConsonantLetters

\* Design 2.7: a character that is no mapped key (c is its first example) is
\* appended verbatim to the committed text, so a key the composer buffered
\* becomes text, by itself or in a letter, unless the user erases it.
BufferedKeysBecomeText ==
  [][Dispatch /\ state = "PartialConsonant" /\ prefix' = <<>>
       => pending' # NoLetter \/ committed' # committed]_vars

\* Design 3.5: if text has been committed already, and so nothing is left to undo, a
\* backspace is passed through to the host application.
BackspacePassesThrough ==
  [][Backspace /\ committed # <<>> /\ prefix = <<>> /\ pending = NoLetter => ~ consumed']_vars
=============================================================================
