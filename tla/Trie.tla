-------------------------------- MODULE Trie --------------------------------
(***************************************************************************)
(* Trie<T> of trie.h, node by node.  Nodes are owned through unique_ptr    *)
(* and never shared or moved, so a node is named by the path of symbols    *)
(* that leads to it from root_; its children are the nodes one symbol      *)
(* longer.  Every operation is a loop over seq that goes one node down per *)
(* symbol: an iteration is a step, and so are the call and what follows    *)
(* the loop.                                                               *)
(***************************************************************************)
EXTENDS Lookup

CONSTANTS
  Symbol,   \* char32_t
  Value,    \* T
  Strings,  \* the sequences the callers pass
  NoCall    \* no operation is running

ASSUME StringsType == Strings \subseteq Seq(Symbol)

VARIABLES
  nodes,    \* the paths of the nodes, root_ included
  value,    \* from the nodes whose has_value is set to their value
  call,     \* the running operation and its arguments, or NoCall
  node,     \* the local variable node
  rest,     \* the symbols of seq the loop has not reached
  best,     \* longest_prefix_value's local variable best
  answer    \* what the last query returned

tree == <<nodes, value>>
vars == <<nodes, value, call, node, rest, best, answer>>

Queries == {"find", "longest_prefix_value", "is_strict_prefix", "is_prefix"}

Calls == [op : {"insert"}, seq : Strings, value : Value] \cup [op : Queries, seq : Strings]

ASSUME NoCallIsNoCall == NoCall \notin Calls

Answer(val, length, holds) == [value |-> val, length |-> length, holds |-> holds]
NoAnswer == Answer(<<>>, 0, FALSE)

Init ==
  /\ nodes = {<<>>} /\ value = <<>>
  /\ call = NoCall /\ node = <<>> /\ rest = <<>> /\ best = NoAnswer
  /\ answer = NoAnswer

Running(ops) == call # NoCall /\ call.op \in ops

\* Node* node = &root_;
Start(c) ==
  /\ call = NoCall
  /\ call' = c /\ node' = <<>> /\ rest' = c.seq /\ best' = NoAnswer
  /\ UNCHANGED <<nodes, value, answer>>

child == Append(node, Head(rest))

HasChildren(n) == \E c \in nodes : Len(c) = Len(n) + 1 /\ IsStrictPrefix(n, c)

Down == node' = child /\ rest' = Tail(rest)

Finished ==
  /\ call' = NoCall
  /\ UNCHANGED <<nodes, node, rest, best>>

-----------------------------------------------------------------------------
(* insert *)

InsertStep_Lost ==
  /\ Running({"insert"}) /\ rest # <<>>
  /\ Down
  /\ UNCHANGED <<nodes, value, call, best, answer>>

\* children[c] makes an empty slot, filled if there was none.
InsertStep ==
  /\ Running({"insert"}) /\ rest # <<>>
  /\ nodes' = nodes \cup {child}
  /\ Down
  /\ UNCHANGED <<value, call, best, answer>>

Store_Once ==
  /\ Running({"insert"}) /\ rest = <<>>
  /\ value' = IF Exact(value, node) THEN value ELSE Put(value, node, call.value)
  /\ Finished /\ UNCHANGED answer

\* An old value is overwritten.
Store ==
  /\ Running({"insert"}) /\ rest = <<>>
  /\ value' = Put(value, node, call.value)
  /\ Finished /\ UNCHANGED answer

-----------------------------------------------------------------------------
(* The queries *)

ValueAt(n) == IF Exact(value, n) THEN <<value[n]>> ELSE <<>>

Return(result) == answer' = result /\ Finished /\ UNCHANGED value

LookupStep_First ==
  /\ Running(Queries) /\ rest # <<>> /\ child \in nodes
  /\ Down
  /\ best' = IF call.op = "longest_prefix_value" /\ Exact(value, child) /\ best.length = 0
             THEN Answer(ValueAt(child), Len(child), FALSE) ELSE best
  /\ UNCHANGED <<nodes, value, call, answer>>

\* node = it->second.get();
LookupStep ==
  /\ Running(Queries) /\ rest # <<>> /\ child \in nodes
  /\ Down
  /\ best' = IF call.op = "longest_prefix_value" /\ Exact(value, child)
             THEN Answer(ValueAt(child), Len(child), FALSE) ELSE best
  /\ UNCHANGED <<nodes, value, call, answer>>

\* children[c] in place of children.find(c).
LookupMiss_Grows ==
  /\ Running(Queries) /\ rest # <<>> /\ child \notin nodes
  /\ answer' = best /\ call' = NoCall /\ nodes' = nodes \cup {child}
  /\ UNCHANGED <<value, node, rest, best>>

\* it == node->children.end(): nullopt, false, or the best so far.
LookupMiss ==
  /\ Running(Queries) /\ rest # <<>> /\ child \notin nodes
  /\ Return(best)

LookupEnd_Leaf ==
  /\ Running(Queries) /\ rest = <<>>
  /\ Return(CASE call.op = "find" -> Answer(ValueAt(node), 0, FALSE)
              [] call.op = "longest_prefix_value" -> best
              [] call.op = "is_strict_prefix" -> Answer(<<>>, 0, ~ Exact(value, node))
              [] call.op = "is_prefix" -> Answer(<<>>, 0, TRUE))

\* The node of seq itself: its value, whether it has children, that it exists.
LookupEnd ==
  /\ Running(Queries) /\ rest = <<>>
  /\ Return(CASE call.op = "find" -> Answer(ValueAt(node), 0, FALSE)
              [] call.op = "longest_prefix_value" -> best
              [] call.op = "is_strict_prefix" -> Answer(<<>>, 0, HasChildren(node))
              [] call.op = "is_prefix" -> Answer(<<>>, 0, TRUE))

-----------------------------------------------------------------------------

Step == InsertStep \/ Store \/ LookupStep \/ LookupMiss \/ LookupEnd

Next == (\E c \in Calls : Start(c)) \/ Step

Spec == Init /\ [][Next]_vars

-----------------------------------------------------------------------------
(* Properties *)

TypeOK ==
  /\ nodes \subseteq Seq(Symbol)
  /\ DOMAIN value \subseteq nodes /\ value \in [DOMAIN value -> Value]
  /\ call \in Calls \cup {NoCall}
  /\ node \in Seq(Symbol) /\ rest \in Seq(Symbol)
  /\ {best, answer} \subseteq [value : Seq(Value), length : Nat, holds : BOOLEAN]

\* Every node leads to a stored key, but for the branch an insert is growing:
\* is_strict_prefix() looks only whether a node has children, and would buffer keys
\* for a match that cannot come if a branch could end without a value.
NoDeadEnds ==
  \A n \in nodes \ {<<>>} :
    \/ Matches(value, n)
    \/ Running({"insert"}) /\ IsPrefix(n, call.seq)

\* The trie implements the dictionary: an insert takes effect at its last step, and
\* every query answers, of the sequence it was asked about, what its comment says of
\* the keys inserted so far.  Holds if no caller passes the empty sequence.
Promise == INSTANCE Dictionary WITH dict <- value
ImplementsDictionary == Promise!Spec
=============================================================================
