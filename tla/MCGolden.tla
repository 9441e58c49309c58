------------------------------ MODULE MCGolden ------------------------------
EXTENDS Golden, TLC

SomeWorked == <<"ka", "#1">>
SomeCorpus == <<"siri">>
Permuted == Permutations(Text)
=============================================================================
