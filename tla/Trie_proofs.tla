---------------------------- MODULE Trie_proofs ----------------------------
(***************************************************************************)
(* The trie implements the dictionary, for every set of symbols, of values *)
(* and of sequences, and every order of inserts and queries.               *)
(***************************************************************************)
EXTENDS Trie, Lookup_proofs

-----------------------------------------------------------------------------
(* The inductive invariant *)

StoredAreStrings == DOMAIN value \subseteq Strings

\* Whoever follows a stored key finds nodes all the way.
CoversKeys ==
  /\ <<>> \in nodes
  /\ \A s \in DOMAIN value : \A p \in Seq(Symbol) : IsPrefix(p, s) => p \in nodes

\* The loop stands on the node of what it has read of seq.
Cursor ==
  call # NoCall =>
    /\ node \o rest = call.seq
    /\ \A p \in Seq(Symbol) : IsPrefix(p, node) => p \in nodes

\* n is the longest of the first last lengths at which a prefix of seq is stored, 0
\* if none is.
LongestAt(seq, n, last) ==
  /\ n \in 0..last
  /\ n # 0 => Exact(value, SubSeq(seq, 1, n))
  /\ \A m \in (n + 1)..last : ~ Exact(value, SubSeq(seq, 1, m))

Best(seq, n) == Answer(IF n = 0 THEN <<>> ELSE ValueAt(SubSeq(seq, 1, n)), n, FALSE)

BestSoFar ==
  /\ Running({"longest_prefix_value"}) =>
       \E n \in 0..Len(node) : LongestAt(call.seq, n, Len(node)) /\ best = Best(call.seq, n)
  /\ Running(Queries \ {"longest_prefix_value"}) => best = NoAnswer

TrieInv ==
  /\ TypeOK /\ StoredAreStrings /\ CoversKeys /\ NoDeadEnds /\ Cursor /\ BestSoFar

-----------------------------------------------------------------------------
(* Calls *)

LEMMA CallTypes ==
  ASSUME call \in Calls
  PROVE  /\ call # NoCall /\ call.seq \in Strings /\ call.seq \in Seq(Symbol)
         /\ call.op \in {"insert"} \cup Queries
         /\ call.op = "insert" => call.value \in Value
BY NoCallIsNoCall, StringsType DEF Calls, Queries

\* A step of the loop moves one symbol from what is left to the path.
LEMMA ChildProperties ==
  ASSUME TypeOK, Cursor, call \in Calls, rest # <<>>
  PROVE  /\ child \in Seq(Symbol) /\ child # <<>> /\ Len(child) = Len(node) + 1
         /\ Head(rest) \in Symbol /\ Tail(rest) \in Seq(Symbol)
         /\ child \o Tail(rest) = call.seq
         /\ IsPrefix(child, call.seq)
<1>1. node \in Seq(Symbol) /\ rest \in Seq(Symbol)
  BY DEF TypeOK
<1>2. node \o rest = call.seq
  BY CallTypes DEF Cursor
<1>3. /\ Head(rest) \in Symbol /\ Tail(rest) \in Seq(Symbol) /\ child \in Seq(Symbol)
      /\ child \o Tail(rest) = node \o rest
  BY <1>1, ShiftConcat DEF child
<1>4. child # <<>> /\ Len(child) = Len(node) + 1
  BY <1>1, <1>3, AppendProperties DEF child
<1>5. IsPrefix(child, child \o Tail(rest))
  BY <1>3, PrefixOfConcat
<1> QED BY <1>2, <1>3, <1>4, <1>5

\* After the loop the path is seq.
LEMMA AtEnd ==
  ASSUME TypeOK, Cursor, call \in Calls, rest = <<>>
  PROVE  node = call.seq /\ node \in nodes /\ node \in Strings
<1>1. node \o rest = call.seq /\ \A p \in Seq(Symbol) : IsPrefix(p, node) => p \in nodes
  BY CallTypes DEF Cursor
<1>2. node \in Seq(Symbol)
  BY DEF TypeOK
<1>3. node \o <<>> = node
  BY <1>2, ConcatEmptySeq
<1>4. node \in nodes
  BY <1>1, <1>2, PrefixReflexive
<1> QED BY <1>1, <1>3, <1>4, CallTypes

\* Nothing is stored at or below a missing child.
LEMMA MissingChild ==
  ASSUME TypeOK, CoversKeys, StoredAreStrings, NEW p \in Seq(Symbol), p \notin nodes,
         NEW s \in Seq(Symbol), IsPrefix(p, s)
  PROVE  ~ Exact(value, s)
BY DEF CoversKeys, Exact

\* The node of a sequence has children exactly if a stored key extends it.
LEMMA ChildrenMeanExtended ==
  ASSUME TypeOK, CoversKeys, NoDeadEnds, StoredAreStrings, ~ Running({"insert"}),
         NEW n \in nodes
  PROVE  HasChildren(n) <=> is_strict_prefix(value, n)
<1>1. n \in Seq(Symbol) /\ nodes \subseteq Seq(Symbol) /\ DOMAIN value \subseteq Seq(Symbol)
  BY StringsType DEF TypeOK, StoredAreStrings
<1>2. ASSUME NEW c \in nodes, Len(c) = Len(n) + 1, IsStrictPrefix(n, c)
      PROVE  is_strict_prefix(value, n)
  <2>1. c \in Seq(Symbol)
    BY <1>1
  <2>2. c # <<>>
    BY <1>1, <1>2, <2>1, LenProperties, EmptySeq
  <2>3. Matches(value, c)
    BY <2>2 DEF NoDeadEnds
  <2>4. PICK s \in DOMAIN value : IsPrefix(c, s)
    BY <2>1, <2>3, <1>1, StrictOrEqual DEF Matches, Exact, is_strict_prefix
  <2>5. s \in Seq(Symbol)
    BY <1>1
  <2>6. Len(n) < Len(c) /\ \A i \in 1..Len(n) : n[i] = c[i]
    BY <1>1, <1>2, <2>1, StrictPrefixPointwise
  <2>7. Len(c) <= Len(s) /\ \A i \in 1..Len(c) : c[i] = s[i]
    BY <2>1, <2>4, <2>5, PrefixPointwise
  <2>8. Len(n) \in Nat /\ Len(c) \in Nat /\ Len(s) \in Nat
    BY <1>1, <2>1, <2>5, LenProperties
  <2>9. Len(n) < Len(s) /\ \A i \in 1..Len(n) : n[i] = s[i]
    BY <2>6, <2>7, <2>8
  <2>10. IsStrictPrefix(n, s)
    BY <1>1, <2>5, <2>9, StrictPrefixPointwise
  <2> QED BY <2>10 DEF is_strict_prefix
<1>3. ASSUME NEW s \in DOMAIN value, IsStrictPrefix(n, s)
      PROVE  HasChildren(n)
  <2>1. s \in Seq(Symbol)
    BY <1>1
  <2> DEFINE c == Append(n, s[Len(n) + 1])
  <2>2. s[Len(n) + 1] \in Symbol /\ IsPrefix(c, s)
    BY <1>1, <1>3, <2>1, NextOfStrictPrefix
  <2>3. c \in Seq(Symbol) /\ Len(c) = Len(n) + 1
    BY <1>1, <2>2, AppendProperties
  <2>4. c \in nodes
    BY <2>2, <2>3 DEF CoversKeys
  <2>5. IsPrefix(c, c)
    BY <2>3, PrefixReflexive
  <2>6. IsStrictPrefix(n, c)
    BY <1>1, <2>2, <2>3, <2>5, StrictPrefixOfAppend
  <2> QED BY <2>3, <2>4, <2>6 DEF HasChildren
<1> QED BY <1>2, <1>3 DEF HasChildren, is_strict_prefix

-----------------------------------------------------------------------------
(* The invariant is inductive *)

LEMMA EmptyPrefix ==
  ASSUME NEW p \in Seq(Symbol), IsPrefix(p, <<>>)
  PROVE  p = <<>>
<1>1. <<>> \in Seq(Symbol)
  BY EmptySeq
<1>2. Len(p) <= 0
  BY <1>1, PrefixPointwise, EmptySeq
<1> QED BY <1>2, EmptySeq, LenProperties

LEMMA InitInv == Init => TrieInv
<1> SUFFICES ASSUME Init PROVE TrieInv
  OBVIOUS
<1>1. DOMAIN value = {} /\ value = <<>> /\ nodes = {<<>>} /\ call = NoCall
  BY DEF Init
<1>2. TypeOK
  BY <1>1 DEF Init, TypeOK, NoAnswer, Answer
<1> QED BY <1>1, <1>2 DEF TrieInv, StoredAreStrings, CoversKeys, NoDeadEnds, Cursor,
           BestSoFar, Running

LEMMA StartInv ==
  ASSUME TrieInv, NEW c \in Calls, Start(c)
  PROVE  TrieInv'
<1> USE DEF TrieInv, Start
<1>1. c.seq \in Seq(Symbol) /\ c # NoCall
  BY NoCallIsNoCall, StringsType DEF Calls
<1>2. TypeOK'
  BY <1>1, EmptySeq DEF TypeOK, NoAnswer, Answer
<1>3. StoredAreStrings' /\ CoversKeys'
  BY DEF StoredAreStrings, CoversKeys
<1>4. NoDeadEnds'
  BY DEF NoDeadEnds, Running
<1>5. Cursor'
  BY <1>1, EmptyPrefix, ConcatEmptySeq DEF Cursor, CoversKeys
<1>6. BestSoFar'
  <2>1. Len(node') = 0 /\ best' = NoAnswer /\ call' = c
    BY EmptySeq
  <2>2. \A seq : LongestAt(seq, 0, 0)' /\ Best(seq, 0)' = NoAnswer
    BY DEF LongestAt, Best, NoAnswer
  <2>3. 0 \in 0..Len(node') /\ LongestAt(call.seq, 0, Len(node))' /\ best' = Best(call.seq, 0)'
    BY <2>1, <2>2 DEF LongestAt, Best
  <2> QED BY <2>1, <2>3 DEF BestSoFar
<1> QED BY <1>2, <1>3, <1>4, <1>5, <1>6

LEMMA InsertInv ==
  ASSUME TrieInv, InsertStep
  PROVE  TrieInv'
<1>1. /\ call \in Calls /\ call # NoCall /\ call.op = "insert" /\ rest # <<>>
      /\ nodes' = nodes \cup {child} /\ node' = child /\ rest' = Tail(rest)
      /\ UNCHANGED <<value, call, best, answer>>
  BY DEF InsertStep, Running, Down, TrieInv, TypeOK
<1>2. /\ child \in Seq(Symbol) /\ child # <<>> /\ Len(child) = Len(node) + 1
      /\ Head(rest) \in Symbol /\ Tail(rest) \in Seq(Symbol)
      /\ child \o Tail(rest) = call.seq
      /\ IsPrefix(child, call.seq)
  BY <1>1, ChildProperties DEF TrieInv
<1>3. TypeOK'
  BY <1>1, <1>2 DEF TrieInv, TypeOK
<1>4. StoredAreStrings' /\ CoversKeys'
  BY <1>1 DEF TrieInv, StoredAreStrings, CoversKeys
<1>5. NoDeadEnds'
  BY <1>1, <1>2 DEF TrieInv, NoDeadEnds, Running, Matches, Exact, is_strict_prefix
<1>6. Cursor'
  <2>1. \A p \in Seq(Symbol) : IsPrefix(p, child) => IsPrefix(p, node) \/ p = child
    BY <1>2, PrefixOfAppend DEF TrieInv, TypeOK, child
  <2> QED BY <1>1, <1>2, <2>1 DEF TrieInv, Cursor
<1>7. BestSoFar'
  BY <1>1 DEF BestSoFar, Running, Queries
<1> QED BY <1>3, <1>4, <1>5, <1>6, <1>7 DEF TrieInv

LEMMA StoreInv ==
  ASSUME TrieInv, Store
  PROVE  TrieInv'
<1>1. /\ call \in Calls /\ call # NoCall /\ call.op = "insert" /\ rest = <<>>
      /\ value' = [n \in DOMAIN value \cup {node} |-> IF n = node THEN call.value ELSE value[n]]
      /\ call' = NoCall /\ UNCHANGED <<nodes, node, rest, best, answer>>
  BY DEF Store, Put, Finished, Running, TrieInv, TypeOK
<1>2. node = call.seq /\ node \in nodes /\ node \in Strings
  BY <1>1, AtEnd DEF TrieInv
<1>3. call.value \in Value
  BY <1>1, CallTypes
<1>4. DOMAIN value' = DOMAIN value \cup {node}
  BY <1>1
<1>5. TypeOK'
  <2>1. value' \in [DOMAIN value' -> Value]
    BY <1>1, <1>3 DEF TrieInv, TypeOK
  <2> QED BY <1>1, <1>2, <1>4, <2>1 DEF TrieInv, TypeOK
<1>6. StoredAreStrings'
  BY <1>2, <1>4 DEF TrieInv, StoredAreStrings
<1>7. CoversKeys'
  BY <1>1, <1>4 DEF TrieInv, CoversKeys, Cursor
<1>8. NoDeadEnds'
  <2> SUFFICES ASSUME NEW n \in nodes, n # <<>>
               PROVE  Matches(value', n)
    BY <1>1 DEF NoDeadEnds
  <2>1. CASE Matches(value, n)
    BY <2>1, <1>4 DEF Matches, Exact, is_strict_prefix
  <2>2. CASE IsPrefix(n, call.seq)
    <3>1. n \in Seq(Symbol) /\ node \in Seq(Symbol)
      BY DEF TrieInv, TypeOK
    <3>2. n = node \/ IsStrictPrefix(n, node)
      BY <2>2, <1>2, <3>1, StrictOrEqual
    <3> QED BY <3>2, <1>4 DEF Matches, Exact, is_strict_prefix
  <2> QED BY <2>1, <2>2 DEF TrieInv, NoDeadEnds
<1>9. Cursor' /\ BestSoFar'
  BY <1>1 DEF Cursor, BestSoFar, Running
<1> QED BY <1>5, <1>6, <1>7, <1>8, <1>9 DEF TrieInv

LEMMA LookupStepInv ==
  ASSUME TrieInv, LookupStep
  PROVE  TrieInv'
<1>1. /\ call \in Calls /\ call # NoCall /\ call.op \in Queries /\ rest # <<>>
      /\ child \in nodes /\ node' = child /\ rest' = Tail(rest)
      /\ UNCHANGED <<nodes, value, call, answer>>
  BY DEF LookupStep, Running, Down, TrieInv, TypeOK
<1>2. /\ child \in Seq(Symbol) /\ child # <<>> /\ Len(child) = Len(node) + 1
      /\ Head(rest) \in Symbol /\ Tail(rest) \in Seq(Symbol)
      /\ child \o Tail(rest) = call.seq
      /\ IsPrefix(child, call.seq)
  BY <1>1, ChildProperties DEF TrieInv
<1>3. best' = IF call.op = "longest_prefix_value" /\ Exact(value, child)
              THEN Answer(ValueAt(child), Len(child), FALSE) ELSE best
  BY DEF LookupStep
<1>4. node \in Seq(Symbol) /\ Len(node) \in Nat /\ call.seq \in Seq(Symbol)
  BY <1>1, CallTypes, LenProperties DEF TrieInv, TypeOK
<1>5. TypeOK'
  <2>1. Answer(ValueAt(child), Len(child), FALSE)
          \in [value : Seq(Value), length : Nat, holds : BOOLEAN]
    <3>1. ValueAt(child) \in Seq(Value)
      BY EmptySeq DEF ValueAt, Exact, TrieInv, TypeOK
    <3> QED BY <1>2, <1>4, <3>1 DEF Answer
  <2> QED BY <1>1, <1>2, <1>3, <2>1 DEF TrieInv, TypeOK
<1>6. StoredAreStrings' /\ CoversKeys'
  BY <1>1 DEF TrieInv, StoredAreStrings, CoversKeys
<1>7. NoDeadEnds'
  BY <1>1 DEF TrieInv, NoDeadEnds, Running
<1>8. Cursor'
  <2>1. \A p \in Seq(Symbol) : IsPrefix(p, child) => IsPrefix(p, node) \/ p = child
    BY <1>2, PrefixOfAppend DEF TrieInv, TypeOK, child
  <2> QED BY <1>1, <1>2, <2>1 DEF TrieInv, Cursor
<1>9. BestSoFar'
  <2>1. CASE call.op # "longest_prefix_value"
    BY <2>1, <1>1, <1>3 DEF TrieInv, BestSoFar, Running
  <2>2. CASE call.op = "longest_prefix_value"
    <3>1. PICK n \in 0..Len(node) : LongestAt(call.seq, n, Len(node)) /\ best = Best(call.seq, n)
      BY <2>2, <1>1 DEF TrieInv, BestSoFar, Running
    <3>2. child = SubSeq(call.seq, 1, Len(node) + 1)
      BY <1>2, <1>4, PrefixIsFirstKeys
    <3>3. \E k \in 0..(Len(node) + 1) :
            LongestAt(call.seq, k, Len(node) + 1) /\ best' = Best(call.seq, k)
      <4>1. CASE Exact(value, child)
        <5>1. LongestAt(call.seq, Len(node) + 1, Len(node) + 1)
          BY <4>1, <3>2, <1>4 DEF LongestAt
        <5>2. best' = Best(call.seq, Len(node) + 1)
          <6>1. best' = Answer(ValueAt(child), Len(node) + 1, FALSE)
            BY <4>1, <2>2, <1>2, <1>3
          <6>2. Len(node) + 1 # 0
            BY <1>4
          <6> QED BY <3>2, <6>1, <6>2, Zenon DEF Best
        <5> QED BY <5>1, <5>2, <1>4
      <4>2. CASE ~ Exact(value, child)
        <5>1. LongestAt(call.seq, n, Len(node) + 1)
          BY <4>2, <3>1, <3>2, <1>4 DEF LongestAt
        <5> QED BY <5>1, <4>2, <3>1, <1>3, <1>4
      <4> QED BY <4>1, <4>2
    <3>4. \E k \in 0..Len(node') :
            LongestAt(call.seq, k, Len(node))' /\ best' = Best(call.seq, k)'
      BY <3>3, <1>1, <1>2 DEF LongestAt, Best, ValueAt
    <3> QED BY <2>2, <3>4, <1>1 DEF BestSoFar, Running
  <2> QED BY <2>1, <2>2
<1> QED BY <1>5, <1>6, <1>7, <1>8, <1>9 DEF TrieInv

LEMMA ReturnInv ==
  ASSUME TrieInv, Running(Queries),
         NEW result \in [value : Seq(Value), length : Nat, holds : BOOLEAN], Return(result)
  PROVE  TrieInv'
<1>1. /\ call' = NoCall /\ answer' = result /\ UNCHANGED <<nodes, value, node, rest, best>>
  BY DEF Return, Finished
<1>2. TypeOK'
  BY <1>1 DEF TrieInv, TypeOK
<1>3. NoDeadEnds'
  BY <1>1 DEF TrieInv, NoDeadEnds, Running, Queries
<1> QED BY <1>1, <1>2, <1>3 DEF TrieInv, StoredAreStrings, CoversKeys, Cursor, BestSoFar, Running

LEMMA LookupMissInv == TrieInv /\ LookupMiss => TrieInv'
BY ReturnInv DEF LookupMiss, TrieInv, TypeOK

LEMMA LookupEndInv == TrieInv /\ LookupEnd => TrieInv'
<1> SUFFICES ASSUME TrieInv, LookupEnd PROVE TrieInv'
  OBVIOUS
<1>1. call.op \in Queries /\ Running(Queries)
  BY DEF LookupEnd, Running
<1>2. ValueAt(node) \in Seq(Value)
  BY EmptySeq DEF ValueAt, Exact, TrieInv, TypeOK
<1>3. best \in [value : Seq(Value), length : Nat, holds : BOOLEAN] /\ <<>> \in Seq(Value)
  BY EmptySeq DEF TrieInv, TypeOK
<1>4. HasChildren(node) \in BOOLEAN
  BY DEF HasChildren
<1>5. PICK result \in [value : Seq(Value), length : Nat, holds : BOOLEAN] : Return(result)
  <2>1. CASE call.op = "find"
    BY <2>1, <1>2 DEF LookupEnd, Answer
  <2>2. CASE call.op = "longest_prefix_value"
    BY <2>2, <1>3 DEF LookupEnd
  <2>3. CASE call.op = "is_strict_prefix"
    BY <2>3, <1>3, <1>4 DEF LookupEnd, Answer
  <2>4. CASE call.op = "is_prefix"
    BY <2>4, <1>3 DEF LookupEnd, Answer
  <2> QED BY <1>1, <2>1, <2>2, <2>3, <2>4 DEF Queries
<1> QED BY <1>1, <1>5, ReturnInv

LEMMA StutterInv == TrieInv /\ UNCHANGED vars => TrieInv'
<1> SUFFICES ASSUME TrieInv, UNCHANGED vars PROVE TrieInv'
  OBVIOUS
<1>1. TypeOK' /\ StoredAreStrings' /\ CoversKeys' /\ Cursor'
  BY DEF vars, TrieInv, TypeOK, StoredAreStrings, CoversKeys, Cursor
<1>2. NoDeadEnds'
  BY DEF vars, TrieInv, NoDeadEnds, Running
<1>3. BestSoFar'
  BY DEF vars, TrieInv, BestSoFar, Running, LongestAt, Best, ValueAt
<1> QED BY <1>1, <1>2, <1>3 DEF TrieInv

THEOREM TrieInvariant == Spec => []TrieInv
<1>1. TrieInv /\ [Next]_vars => TrieInv'
  BY StartInv, InsertInv, StoreInv, LookupStepInv, LookupMissInv, LookupEndInv, StutterInv
     DEF Next, Step
<1> QED BY InitInv, <1>1, PTL DEF Spec

\* The type invariant of the runs.
THEOREM TrieTypeCorrect == Spec => []TypeOK
<1>1. TrieInv => TypeOK
  BY DEF TrieInv
<1> QED BY <1>1, TrieInvariant, PTL

\* No branch of the tree ends without a value, once the insert that grows it is
\* over: is_strict_prefix() never promises a match that cannot come.
THEOREM TrieHasNoDeadEnds == Spec => []NoDeadEnds
<1>1. TrieInv => NoDeadEnds
  BY DEF TrieInv
<1> QED BY <1>1, TrieInvariant, PTL

-----------------------------------------------------------------------------
(* The refinement *)

\* The operators of Dictionary, seen through the instance, are those of the trie.
LEMMA SameLookups ==
  ASSUME NEW d, NEW s
  PROVE  /\ Promise!Exact(d, s) = Exact(d, s)
         /\ Promise!is_strict_prefix(d, s) = is_strict_prefix(d, s)
         /\ Promise!Matches(d, s) = Matches(d, s)
         /\ Promise!Stored(d, s) = IF Exact(d, s) THEN <<d[s]>> ELSE <<>>
BY DEF Promise!Exact, Promise!is_strict_prefix, Promise!Matches, Promise!Stored,
       Promise!IsStrictPrefix, Promise!IsPrefix, Exact, is_strict_prefix, Matches,
       IsStrictPrefix, IsPrefix

\* An insert takes effect when the value is stored.
LEMMA StoreInserts ==
  ASSUME TrieInv, Store
  PROVE  Promise!Next
<1>1. /\ call \in Calls /\ call.op = "insert" /\ rest = <<>> /\ answer' = answer
      /\ call # NoCall /\ call' = NoCall
      /\ value' = [n \in DOMAIN value \cup {node} |-> IF n = node THEN call.value ELSE value[n]]
  BY DEF Store, Finished, Put, Running, TrieInv, TypeOK
<1>2. node = call.seq /\ node \in Strings
  BY <1>1, AtEnd DEF TrieInv
<1>3. Promise!insert
  BY <1>1, <1>2 DEF Promise!insert, Promise!Serve, Promise!Put
<1> QED BY <1>3 DEF Promise!Next

\* The longest match the loop has found is the dictionary's, if nothing longer is
\* stored.
LEMMA BestIsLongest ==
  ASSUME TrieInv, <<>> \notin Strings, Running({"longest_prefix_value"}), answer' = best,
         value' = value, call' = NoCall,
         \A m \in (Len(node) + 1)..Len(call.seq) : ~ Exact(value, SubSeq(call.seq, 1, m))
  PROVE  Promise!Next
<1>1. call \in Calls /\ call.seq \in Strings /\ call.seq \in Seq(Symbol)
  BY CallTypes DEF TrieInv, TypeOK, Running
<1>2. PICK n \in 0..Len(node) : LongestAt(call.seq, n, Len(node)) /\ best = Best(call.seq, n)
  BY DEF TrieInv, BestSoFar
<1>3. Len(node) \in Nat /\ Len(call.seq) \in Nat
  BY <1>1, LenProperties DEF TrieInv, TypeOK
<1>4. Len(node) <= Len(call.seq)
  <2>1. node \o rest = call.seq /\ node \in Seq(Symbol) /\ rest \in Seq(Symbol)
    BY DEF TrieInv, TypeOK, Cursor, Running
  <2> QED BY <2>1, ConcatProperties, LenProperties
<1>5. n \in 0..Len(call.seq)
  BY <1>3, <1>4
<1>6. \A m \in (n + 1)..Len(call.seq) : ~ Exact(value, SubSeq(call.seq, 1, m))
  BY <1>2, <1>3 DEF LongestAt
<1>7. answer' = Promise!Answer(Promise!Stored(value, SubSeq(call.seq, 1, n)), n, FALSE)
  <2>1. CASE n = 0
    <3>1. SubSeq(call.seq, 1, 0) = <<>>
      <4>1. /\ SubSeq(call.seq, 1, 0) \in Seq(Symbol) /\ Len(SubSeq(call.seq, 1, 0)) = 0
        BY <1>1, <1>3, FirstKeys
      <4> QED BY <4>1, EmptySeq
    <3>2. ~ Exact(value, <<>>)
      BY DEF TrieInv, StoredAreStrings, Exact
    <3> QED BY <2>1, <3>1, <3>2, <1>2, SameLookups DEF Best, Answer, Promise!Answer
  <2>2. CASE n # 0
    BY <2>2, <1>2, SameLookups DEF Best, Answer, ValueAt, Promise!Answer
  <2> QED BY <2>1, <2>2
<1>8. n = 0 \/ Exact(value, SubSeq(call.seq, 1, n))
  BY <1>2 DEF LongestAt
<1>9. Promise!longest_prefix_value
  BY <1>5, <1>6, <1>7, <1>8, SameLookups
  DEF Promise!longest_prefix_value, Promise!Serve, Running
<1> QED BY <1>9 DEF Promise!Next

\* A missing child: no value, no extension, and the best so far is the best.
LEMMA MissAnswers ==
  ASSUME TrieInv, <<>> \notin Strings, LookupMiss
  PROVE  Promise!Next
<1>1. /\ call \in Calls /\ call.op \in Queries /\ rest # <<>> /\ child \notin nodes
      /\ answer' = best /\ value' = value /\ call # NoCall /\ call' = NoCall
  BY DEF LookupMiss, Return, Finished, Running, TrieInv, TypeOK
<1>2. call.seq \in Strings /\ call.seq \in Seq(Symbol)
  BY <1>1, CallTypes
<1>3. child \in Seq(Symbol) /\ Len(child) = Len(node) + 1 /\ IsPrefix(child, call.seq)
  BY <1>1, ChildProperties DEF TrieInv
<1>4. \A s \in Seq(Symbol) : IsPrefix(child, s) => ~ Exact(value, s)
  BY <1>1, <1>3, MissingChild DEF TrieInv
<1>5. ~ Matches(value, call.seq) /\ ~ is_strict_prefix(value, call.seq)
  <2>1. ASSUME NEW s \in DOMAIN value, IsStrictPrefix(call.seq, s)
        PROVE  FALSE
    <3>1. s \in Seq(Symbol)
      BY StringsType DEF TrieInv, StoredAreStrings
    <3>2. IsPrefix(child, s)
      BY <1>2, <1>3, <2>1, <3>1, PrefixTransitive DEF IsStrictPrefix
    <3> QED BY <1>4, <3>1, <3>2 DEF Exact
  <2> QED BY <1>2, <1>3, <1>4, <2>1 DEF Matches, is_strict_prefix
<1>6. ~ Exact(value, call.seq)
  BY <1>5 DEF Matches
<1>9. Matches(value, call.seq) = FALSE /\ is_strict_prefix(value, call.seq) = FALSE
  BY <1>5 DEF Matches, Exact, is_strict_prefix
<1>7. CASE call.op = "longest_prefix_value"
  <2>1. \A m \in (Len(node) + 1)..Len(call.seq) : ~ Exact(value, SubSeq(call.seq, 1, m))
    <3> SUFFICES ASSUME NEW m \in (Len(node) + 1)..Len(call.seq)
                 PROVE  ~ Exact(value, SubSeq(call.seq, 1, m))
      OBVIOUS
    <3> DEFINE u == SubSeq(call.seq, 1, m)
    <3>1. Len(node) \in Nat /\ Len(call.seq) \in Nat
      BY <1>2, LenProperties DEF TrieInv, TypeOK
    <3>2. m \in 0..Len(call.seq) /\ Len(child) <= m
      BY <3>1, <1>3
    <3>3. u \in Seq(Symbol) /\ Len(u) = m /\ \A i \in 1..m : u[i] = call.seq[i]
      BY <1>2, <3>2, FirstKeys
    <3>4. Len(child) <= Len(call.seq) /\ \A i \in 1..Len(child) : child[i] = call.seq[i]
      BY <1>2, <1>3, PrefixPointwise
    <3>5. Len(child) <= Len(u) /\ \A i \in 1..Len(child) : child[i] = u[i]
      BY <3>1, <3>2, <3>3, <3>4, <1>3
    <3> HIDE DEF u
    <3>6. IsPrefix(child, u)
      BY <1>3, <3>3, <3>5, PrefixPointwise
    <3>7. ~ Exact(value, u)
      BY <1>4, <3>3, <3>6
    <3> QED BY <3>7 DEF u
  <2> QED BY <2>1, <1>1, <1>7, BestIsLongest DEF Running
<1>8. CASE call.op # "longest_prefix_value"
  <2>1. answer' = NoAnswer
    BY <1>1, <1>8 DEF TrieInv, BestSoFar, Running
  <2>2. CASE call.op = "find"
    <3>1. Promise!find
      BY <1>1, <2>2, <1>6, <2>1, SameLookups
  DEF Promise!find, Promise!Serve, Promise!Answer, NoAnswer, Answer
    <3> QED BY <3>1 DEF Promise!Next
  <2>3. CASE call.op = "is_strict_prefix"
    <3>1. Promise!strictly_extended
      BY <1>1, <2>3, <1>9, <2>1, SameLookups
  DEF Promise!strictly_extended, Promise!Serve, Promise!Answer, NoAnswer, Answer
    <3> QED BY <3>1 DEF Promise!Next
  <2>4. CASE call.op = "is_prefix"
    <3>1. Promise!extended
      BY <1>1, <2>4, <1>9, <2>1, SameLookups
  DEF Promise!extended, Promise!Serve, Promise!Answer, NoAnswer, Answer
    <3> QED BY <3>1 DEF Promise!Next
  <2> QED BY <1>1, <1>8, <2>2, <2>3, <2>4 DEF Queries
<1> QED BY <1>7, <1>8

\* The node of seq itself answers for seq.
LEMMA EndAnswers ==
  ASSUME TrieInv, <<>> \notin Strings, LookupEnd
  PROVE  Promise!Next
<1>1. /\ call \in Calls /\ call.op \in Queries /\ rest = <<>>
      /\ value' = value /\ call # NoCall /\ call' = NoCall /\ ~ Running({"insert"})
  BY DEF LookupEnd, Return, Finished, Running, Queries, TrieInv, TypeOK
<1>2. call.seq \in Strings /\ call.seq \in Seq(Symbol) /\ Len(call.seq) \in Nat
  BY <1>1, CallTypes, LenProperties
<1>3. node = call.seq /\ node \in nodes
  BY <1>1, AtEnd DEF TrieInv
<1>4. CASE call.op = "find"
  <2>1. answer' = Answer(ValueAt(node), 0, FALSE)
    BY <1>4 DEF LookupEnd, Return
  <2>2. Promise!find
    BY <1>1, <1>4, <1>3, <2>1, SameLookups
  DEF Promise!find, Promise!Serve, Promise!Answer, Answer, ValueAt
  <2> QED BY <2>2 DEF Promise!Next
<1>5. CASE call.op = "longest_prefix_value"
  <2>1. answer' = best
    BY <1>5 DEF LookupEnd, Return
  <2>2. (Len(node) + 1)..Len(call.seq) = {}
    BY <1>2, <1>3
  <2> QED BY <1>1, <1>5, <2>1, <2>2, BestIsLongest DEF Running
<1>6. CASE call.op = "is_strict_prefix"
  <2>1. answer' = Answer(<<>>, 0, HasChildren(node))
    BY <1>6 DEF LookupEnd, Return
  <2>2. HasChildren(node) <=> is_strict_prefix(value, node)
    BY <1>1, <1>3, ChildrenMeanExtended DEF TrieInv
  <2>3. HasChildren(node) = is_strict_prefix(value, node)
    BY <2>2 DEF HasChildren, is_strict_prefix
  <2>4. Promise!strictly_extended
    BY <1>1, <1>6, <1>3, <2>1, <2>3, SameLookups
  DEF Promise!strictly_extended, Promise!Serve, Promise!Answer, Answer
  <2> QED BY <2>4 DEF Promise!Next
<1>7. CASE call.op = "is_prefix"
  <2>1. answer' = Answer(<<>>, 0, TRUE)
    BY <1>7 DEF LookupEnd, Return
  <2>2. Matches(value, call.seq)
    BY <1>1, <1>2, <1>3 DEF TrieInv, NoDeadEnds
  <2>3. Matches(value, call.seq) = TRUE
    BY <2>2 DEF Matches, Exact, is_strict_prefix
  <2>4. Promise!extended
    BY <1>1, <1>7, <2>1, <2>3, SameLookups
  DEF Promise!extended, Promise!Serve, Promise!Answer, Answer
  <2> QED BY <2>4 DEF Promise!Next
<1> QED BY <1>1, <1>4, <1>5, <1>6, <1>7 DEF Queries

\* Whatever is inserted and asked, in whatever order, the trie behaves as the
\* dictionary of its comments.
THEOREM TrieImplementsDictionary ==
  ASSUME <<>> \notin Strings
  PROVE  Spec => ImplementsDictionary
<1>1. Init => Promise!Init
  BY DEF Init, Promise!Init, NoAnswer, Answer, Promise!NoAnswer, Promise!Answer
<1>2. ASSUME TrieInv, [Next]_vars
      PROVE  Promise!Next \/ UNCHANGED Promise!vars
  <2>1. CASE \E c \in Calls : Start(c)
    BY <2>1 DEF Start, Calls, Queries, Promise!Next, Promise!Start, Promise!Calls, Promise!Queries
  <2>2. CASE InsertStep \/ LookupStep
    BY <2>2 DEF InsertStep, LookupStep, Promise!vars
  <2>3. CASE Store
    BY <1>2, <2>3, StoreInserts
  <2>4. CASE LookupMiss
    BY <1>2, <2>4, MissAnswers
  <2>5. CASE LookupEnd
    BY <1>2, <2>5, EndAnswers
  <2>6. CASE UNCHANGED vars
    BY <2>6 DEF vars, Promise!vars
  <2> QED BY <1>2, <2>1, <2>2, <2>3, <2>4, <2>5, <2>6 DEF Next, Step
<1> QED BY <1>1, <1>2, TrieInvariant, PTL DEF Spec, ImplementsDictionary, Promise!Spec
=============================================================================
