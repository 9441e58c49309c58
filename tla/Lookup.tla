------------------------------- MODULE Lookup -------------------------------
(***************************************************************************)
(* What a trie answers, said of the dictionary it stands for: a function   *)
(* from the key sequences it stores to their payloads.                     *)
(***************************************************************************)
EXTENDS Naturals, SequencesExt

\* find(seq).has_value()
Exact(trie, seq) == seq \in DOMAIN trie

\* Some stored key properly extends seq.
is_strict_prefix(trie, seq) == \E key \in DOMAIN trie : IsStrictPrefix(seq, key)

\* seq is a stored key that nothing extends: the match can be acted on at once.
Complete(trie, seq) == Exact(trie, seq) /\ ~ is_strict_prefix(trie, seq)

\* seq is a stored key or leads to one.
Matches(trie, seq) == Exact(trie, seq) \/ is_strict_prefix(trie, seq)

\* insert(seq, payload): an old payload is overwritten.
Put(trie, seq, payload) ==
  [s \in DOMAIN trie \cup {seq} |-> IF s = seq THEN payload ELSE trie[s]]
=============================================================================
