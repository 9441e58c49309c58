----------------------------- MODULE MCComposer -----------------------------
(* The composer, under the keymaps of MCKeymap. *)
EXTENDS ComposerDoc, MCKeymap
=============================================================================
