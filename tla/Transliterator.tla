--------------------------- MODULE Transliterator ---------------------------
(***************************************************************************)
(* The Python reference as a state machine: one object, whose methods run  *)
(* to completion.  To a caller a keystroke is one step, however often it   *)
(* is re-fed inside: this is the specification the C++ composer, which     *)
(* takes several, has to implement.                                        *)
(***************************************************************************)
EXTENDS Transliterate

VARIABLES
  t,    \* the object
  out   \* the text the last call returned

vars == <<t, out>>

Init == t = Fresh /\ out = <<>>

\* feed(ch) and feed_shifted(ch), called with what they take: one character, and for
\* feed_shifted an alphabetic one.  For anything else they raise a ValueError before the
\* object is touched; the C++ feed takes a code point and has no such test.
Feed(key) ==
  /\ t' = feed_impl(t, key).t
  /\ out' = feed_impl(t, key).out

feed_backspace == t' = handle_backspace(t) /\ out' = <<>>

commit == t' = Fresh /\ out' = soft_commit(t)

reset == t' = Fresh /\ out' = <<>>

Next == (\E key \in Key : Feed(key)) \/ feed_backspace \/ commit \/ reset

Spec == Init /\ [][Next]_vars
=============================================================================
