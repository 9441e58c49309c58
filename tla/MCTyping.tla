------------------------------ MODULE MCTyping ------------------------------
EXTENDS Typing, MCKeymap

\* Of each role of a key, one.
FewKeys == Keys(<<"k", "t", "h", "c", "a", "e", "x", "q", "z">>)
WordKeys == {FewKeys[i] : i \in DOMAIN FewKeys} \cup {Shift("t"), Shift("x"), Shift("i")}

\* What WordsAlwaysSpelled assumes of the keymap.
ASSUME ShippedWordsHaveOneReading == WordsHaveOneReading
=============================================================================
