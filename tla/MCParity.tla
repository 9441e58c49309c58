------------------------------ MODULE MCParity ------------------------------
(* The parity of the two implementations, under the keymaps of MCComposer. *)
EXTENDS MCComposer, Parity
=============================================================================
