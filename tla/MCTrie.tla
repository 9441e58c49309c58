------------------------------- MODULE MCTrie -------------------------------
EXTENDS Trie, TLC

\* Keys that share prefixes, one inside another, and one that no other key starts.
Chain == {<<"t">>, <<"t", "h">>, <<"t", "h", "e">>, <<"h", "e">>, <<"e">>}
=============================================================================
