----------------------------- MODULE Dictionary -----------------------------
(***************************************************************************)
(* What Trie<T> promises its callers: a dictionary from sequences to       *)
(* values, whose every operation takes effect, and answers, in one step    *)
(* between its call and its return.  The comments of trie.h, on each       *)
(* query, are the definitions here.                                        *)
(***************************************************************************)
EXTENDS Lookup

CONSTANTS
  Symbol,   \* char32_t
  Value,    \* T
  Strings,  \* the sequences of symbols the callers pass
  NoCall    \* no operation is called

VARIABLES
  dict,     \* a function from the inserted sequences to their values
  call,     \* the operation called, with its arguments, or NoCall
  answer    \* what the last query returned

vars == <<dict, call, answer>>

Queries == {"find", "longest_prefix_value", "is_strict_prefix", "is_prefix"}

Calls == [op : {"insert"}, seq : Strings, value : Value] \cup [op : Queries, seq : Strings]

\* One shape for the four results: an optional value, a length and a bool.
Answer(value, length, holds) == [value |-> value, length |-> length, holds |-> holds]

NoAnswer == Answer(<<>>, 0, FALSE)

Stored(d, seq) == IF Exact(d, seq) THEN <<d[seq]>> ELSE <<>>

Init == dict = <<>> /\ call = NoCall /\ answer = NoAnswer

Start(c) == call = NoCall /\ call' = c /\ UNCHANGED <<dict, answer>>

Serve(op) == call # NoCall /\ call.op = op /\ call' = NoCall

insert ==
  /\ Serve("insert")
  /\ dict' = Put(dict, call.seq, call.value)
  /\ UNCHANGED answer

\* Exact-match lookup.
find ==
  /\ Serve("find")
  /\ answer' = Answer(Stored(dict, call.seq), 0, FALSE)
  /\ UNCHANGED dict

\* The longest prefix of seq that has a stored value.
longest_prefix_value ==
  /\ Serve("longest_prefix_value")
  /\ \E n \in 0..Len(call.seq) :
       /\ n = 0 \/ Exact(dict, SubSeq(call.seq, 1, n))
       /\ \A m \in (n + 1)..Len(call.seq) : ~ Exact(dict, SubSeq(call.seq, 1, m))
       /\ answer' = Answer(Stored(dict, SubSeq(call.seq, 1, n)), n, FALSE)
  /\ UNCHANGED dict

\* Some inserted key strictly extends seq.
strictly_extended ==
  /\ Serve("is_strict_prefix")
  /\ answer' = Answer(<<>>, 0, is_strict_prefix(dict, call.seq))
  /\ UNCHANGED dict

\* At least one stored key starts with seq, or equals it.
extended ==
  /\ Serve("is_prefix")
  /\ answer' = Answer(<<>>, 0, Matches(dict, call.seq))
  /\ UNCHANGED dict

Next ==
  \/ \E c \in Calls : Start(c)
  \/ insert \/ find \/ longest_prefix_value \/ strictly_extended \/ extended

Spec == Init /\ [][Next]_vars
=============================================================================
